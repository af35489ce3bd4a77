------------------------------ MODULE MemoryPool ------------------------------
(***************************************************************************)
(* The memory pools (memory_pool.hpp): one FixedMemPool per block size, a  *)
(* power of two, whose free blocks form a list linked through their own    *)
(* first words, and MemoryPool, which chooses the pool by size.  A user    *)
(* writes what it likes into its block and gives it back with the size it  *)
(* asked for.  Requests beyond MaxBlockSize are operator new's and touch   *)
(* no pool; they are not modelled.                                         *)
(***************************************************************************)
EXTENDS Naturals, Sequences, FiniteSets, FiniteSetsExt, Functions

CONSTANTS MinBlockSize, MaxBlockSize,  \* MIN_BLOCK_SIZE, MAX_BLOCK_SIZE
          BlockCount,                  \* block_count_
          MaxChunks, MaxGrown,         \* bounds: chunks of a pool; pools that get a second
          Requests,                    \* sizes that users ask for
          Null, Junk                   \* nullptr; what a user has written

BlockSizes ==
  {MinBlockSize * 2^k : k \in 0..MaxBlockSize} \cap (MinBlockSize..MaxBlockSize)

\* The blocks of the first n chunks of a pool: <<size, chunk, place in the chunk>>.
Made(size, n) == {size} \X (1..n) \X (1..BlockCount)
Blocks        == BlockSizes \X (1..MaxChunks) \X (1..BlockCount)

\* What is assumed of the constants.
Assumption == /\ MinBlockSize \in Nat /\ MaxBlockSize \in BlockSizes
              /\ BlockCount \in Nat \ {0} /\ MaxChunks \in Nat \ {0}
              /\ Requests \subseteq 0..MaxBlockSize
              /\ Null \notin Blocks /\ Junk \notin Blocks

VARIABLES freeList,   \* free_list_ of each pool
          word,       \* the first word of each block
          chunks,     \* how many chunks each pool has
          used,       \* blocks in the hands of users -> the size asked for
          free        \* history: each pool's free blocks, the last freed first

blockVars == <<freeList, word, chunks, used, free>>

\* allocate_chunk(): the blocks of chunk n go to the list one by one.
Link(b, list)  == IF b[3] = 1 THEN list ELSE <<b[1], b[2], b[3] - 1>>
LastOf(s, n)   == <<s, n, BlockCount>>
Backward(s, n) == [i \in 1..BlockCount |-> <<s, n, BlockCount + 1 - i>>]

Init ==
  /\ chunks = [s \in BlockSizes |-> 1]
  /\ freeList = [s \in BlockSizes |-> LastOf(s, 1)]
  /\ word = [b \in Blocks |-> IF b[2] = 1 THEN Link(b, Null) ELSE Junk]
  /\ used = [b \in {} |-> 0]
  /\ free = [s \in BlockSizes |-> Backward(s, 1)]

\* find_pool(): doubles from the smallest size until the request fits.
FindPool(size) == Min({s \in BlockSizes : s >= size})

\* Takes block p from the head of its pool's list, whose blocks are list.
HandOut(p, list, size) ==
  /\ freeList' = [freeList EXCEPT ![p[1]] = word'[p]]
  /\ used' = [b \in DOMAIN used \cup {p} |-> IF b = p THEN size ELSE used[b]]
  /\ free' = [free EXCEPT ![p[1]] = Tail(list)]

Grown == {s \in BlockSizes : chunks[s] > 1}

Allocate(size) ==
  LET s == FindPool(size)
      n == chunks[s] + 1
  IN  \/ /\ freeList[s] # Null
         /\ UNCHANGED <<word, chunks>>
         /\ HandOut(freeList[s], free[s], size)
      \/ /\ freeList[s] = Null         \* one more chunk
         /\ n <= MaxChunks /\ Cardinality(Grown \cup {s}) <= MaxGrown
         /\ word' = [b \in Blocks |-> IF b[1] = s /\ b[2] = n THEN Link(b, Null)
                                      ELSE word[b]]
         /\ chunks' = [chunks EXCEPT ![s] = n]
         /\ HandOut(LastOf(s, n), Backward(s, n), size)

UserWrites(b) ==
  /\ b \in DOMAIN used
  /\ word' = [word EXCEPT ![b] = Junk]
  /\ UNCHANGED <<freeList, chunks, used, free>>

\* Wrong variant: the two assignments in the other order.
Mut_Deallocate(b) ==
  LET s == FindPool(used[b])
  IN  /\ freeList' = [freeList EXCEPT ![s] = b]
      /\ word' = [word EXCEPT ![b] = b]
      /\ used' = [c \in DOMAIN used \ {b} |-> used[c]]
      /\ free' = [free EXCEPT ![s] = <<b>> \o @]
      /\ UNCHANGED chunks

Deallocate(b) ==
  LET s == FindPool(used[b])
  IN  /\ word' = [word EXCEPT ![b] = freeList[s]]
      /\ freeList' = [freeList EXCEPT ![s] = b]
      /\ used' = [c \in DOMAIN used \ {b} |-> used[c]]
      /\ free' = [free EXCEPT ![s] = <<b>> \o @]
      /\ UNCHANGED chunks

Next == \/ \E size \in Requests : Allocate(size)
        \/ \E b \in DOMAIN used : UserWrites(b) \/ Deallocate(b)

Spec == Init /\ [][Next]_blockVars

-------------------------------------------------------------------------------
(* Properties.                                                             *)

\* Type invariant; a block in use has been made, by the pool its size leads to.
TypeOK ==
  /\ freeList \in [BlockSizes -> Blocks \cup {Null}]
  /\ word \in [Blocks -> Blocks \cup {Null, Junk}]
  /\ chunks \in [BlockSizes -> 1..MaxChunks]
  /\ used \in [DOMAIN used -> Requests]
  /\ \A b \in DOMAIN used :
       b[1] = FindPool(used[b]) /\ b[1] \in BlockSizes /\ b \in Made(b[1], chunks[b[1]])
  /\ free \in [BlockSizes -> Seq(Blocks)]

\* The pointer to the i-th block of a list; the one after the last is null.
Pointer(list, i) == IF i \in DOMAIN list THEN list[i] ELSE Null

\* The list of a pool runs through its free blocks, the last freed first, and ends;
\* these are the blocks that have been made and nobody uses, once each.
ListIsFree(s) ==
  /\ freeList[s] = Pointer(free[s], 1)
  /\ \A i \in DOMAIN free[s] : word[free[s][i]] = Pointer(free[s], i + 1)
  /\ IsInjective(free[s])
  /\ Range(free[s]) = Made(s, chunks[s]) \ DOMAIN used

\* Although users overwrite the words that link the lists, and chunks are added, every
\* list holds; so no block is handed out twice; and each is as large as was asked for.
BlocksAreSound ==
  /\ \A s \in BlockSizes : ListIsFree(s)
  /\ \A b \in DOMAIN used : used[b] <= b[1]

\* Inductive.
BlockInv == TypeOK /\ BlocksAreSound
===============================================================================
