----------------------------- MODULE QueueLemmas ------------------------------
(***************************************************************************)
(* Facts about a FIFO queue kept as a sequence next to the history of what *)
(* has left it.  The modules *Proofs.tla cite them.                        *)
(***************************************************************************)
EXTENDS SequenceTheorems, TLAPS

\* What is appended to the queue is appended to history and queue together.
LEMMA EnqueueMoves ==
  ASSUME NEW S, NEW h \in Seq(S), NEW q \in Seq(S), NEW e \in S
  PROVE  h \o Append(q, e) = Append(h \o q, e)
<1>1. /\ Append(q, e) = q \o <<e>>
      /\ h \o q \in Seq(S)
      /\ Append(h \o q, e) = (h \o q) \o <<e>>
  BY AppendIsConcat, ConcatProperties
<1>2. (h \o q) \o <<e>> = h \o (q \o <<e>>)
  <2>1. <<e>> \in Seq(S)
    OBVIOUS
  <2> QED BY <2>1, ConcatAssociative
<1> QED BY <1>1, <1>2

\* Head and tail of a queue make up the queue.
LEMMA HeadThenTail ==
  ASSUME NEW S, NEW q \in Seq(S), q # <<>>
  PROVE  <<Head(q)>> \o Tail(q) = q
<1>1. /\ <<Head(q)>> \in Seq(S) /\ Len(<<Head(q)>>) = 1
      /\ Tail(q) \in Seq(S) /\ Len(Tail(q)) = Len(q) - 1
      /\ \A i \in 1..Len(Tail(q)) : Tail(q)[i] = q[i + 1]
      /\ Len(q) \in Nat \ {0}
  BY HeadTailProperties, EmptySeq
<1>2. /\ <<Head(q)>> \o Tail(q) \in Seq(S)
      /\ Len(<<Head(q)>> \o Tail(q)) = Len(q)
      /\ \A i \in 1..Len(q) : (<<Head(q)>> \o Tail(q))[i] =
           IF i <= 1 THEN <<Head(q)>>[i] ELSE Tail(q)[i - 1]
  BY <1>1, ConcatProperties
<1>3. \A i \in 1..Len(q) : (<<Head(q)>> \o Tail(q))[i] = q[i]
  BY <1>1, <1>2
<1> QED BY <1>2, <1>3, SeqEqual

\* Moving the head of the queue to the end of the history changes neither the
\* elements nor the order of the two together.
LEMMA DequeueMoves ==
  ASSUME NEW S, NEW h \in Seq(S), NEW q \in Seq(S), q # <<>>
  PROVE  Append(h, Head(q)) \o Tail(q) = h \o q
<1>1. /\ Head(q) \in S /\ Tail(q) \in Seq(S)
      /\ <<Head(q)>> \in Seq(S)
  BY HeadTailProperties
<1>2. Append(h, Head(q)) = h \o <<Head(q)>>
  BY <1>1, AppendIsConcat
<1>3. (h \o <<Head(q)>>) \o Tail(q) = h \o (<<Head(q)>> \o Tail(q))
  BY <1>1, ConcatAssociative
<1> QED BY <1>2, <1>3, HeadThenTail

\* Head and tail of two queues one after the other.
LEMMA HeadTailOfConcat ==
  ASSUME NEW S, NEW q \in Seq(S), NEW r \in Seq(S), q # <<>>
  PROVE  /\ q \o r # <<>>
         /\ Head(q \o r) = Head(q)
         /\ Tail(q \o r) = Tail(q) \o r
<1>1. /\ Len(q) \in Nat \ {0} /\ Len(r) \in Nat
      /\ q \o r \in Seq(S)
      /\ Len(q \o r) = Len(q) + Len(r)
      /\ \A i \in 1..(Len(q) + Len(r)) : (q \o r)[i] =
           IF i <= Len(q) THEN q[i] ELSE r[i - Len(q)]
  BY ConcatProperties, EmptySeq, LenProperties
<1>2. q \o r # <<>>
  BY <1>1, EmptySeq
<1>3. /\ Tail(q) \in Seq(S) /\ Len(Tail(q)) = Len(q) - 1
      /\ \A i \in 1..Len(Tail(q)) : Tail(q)[i] = q[i + 1]
      /\ Tail(q \o r) \in Seq(S) /\ Len(Tail(q \o r)) = Len(q \o r) - 1
      /\ \A i \in 1..Len(Tail(q \o r)) : Tail(q \o r)[i] = (q \o r)[i + 1]
  BY <1>1, <1>2, HeadTailProperties
<1>4. /\ Tail(q) \o r \in Seq(S)
      /\ Len(Tail(q) \o r) = Len(Tail(q)) + Len(r)
      /\ \A i \in 1..(Len(Tail(q)) + Len(r)) : (Tail(q) \o r)[i] =
           IF i <= Len(Tail(q)) THEN Tail(q)[i] ELSE r[i - Len(Tail(q))]
  BY <1>3, ConcatProperties
<1>5. Len(Tail(q \o r)) = Len(Tail(q) \o r)
  BY <1>1, <1>3, <1>4
<1>6. ASSUME NEW i \in 1..Len(Tail(q \o r))
      PROVE  Tail(q \o r)[i] = (Tail(q) \o r)[i]
  <2>1. /\ i \in 1..(Len(q) - 1 + Len(r)) /\ i + 1 \in 1..(Len(q) + Len(r))
    BY <1>1, <1>3
  <2>2. Tail(q \o r)[i] = IF i + 1 <= Len(q) THEN q[i + 1]
                          ELSE r[i + 1 - Len(q)]
    BY <1>1, <1>3, <2>1
  <2>3. (Tail(q) \o r)[i] = IF i <= Len(q) - 1 THEN Tail(q)[i]
                            ELSE r[i - (Len(q) - 1)]
    BY <1>3, <1>4, <2>1
  <2>4. CASE i <= Len(q) - 1
    BY <1>1, <1>3, <2>1, <2>2, <2>3, <2>4
  <2>5. CASE ~(i <= Len(q) - 1)
    <3>1. i + 1 - Len(q) = i - (Len(q) - 1)
      BY <1>1, <2>1
    <3> QED BY <1>1, <2>1, <2>2, <2>3, <2>5, <3>1
  <2> QED BY <2>4, <2>5
<1>7. Tail(q \o r) = Tail(q) \o r
  BY <1>3, <1>4, <1>5, <1>6, SeqEqual
<1> QED BY <1>1, <1>2, <1>7

\* The elements of a prefix are elements of the whole.
LEMMA ElementOfPrefix ==
  ASSUME NEW S, NEW s \in Seq(S), NEW t \in Seq(S), NEW i \in DOMAIN s
  PROVE  i \in DOMAIN (s \o t) /\ (s \o t)[i] = s[i]
<1>1. /\ s \o t \in Seq(S)
      /\ Len(s \o t) = Len(s) + Len(t)
      /\ \A j \in 1..(Len(s) + Len(t)) : (s \o t)[j] =
           IF j <= Len(s) THEN s[j] ELSE t[j - Len(s)]
  BY ConcatProperties
<1>2. /\ DOMAIN s = 1..Len(s) /\ Len(s) \in Nat /\ Len(t) \in Nat
      /\ DOMAIN (s \o t) = 1..Len(s \o t)
  BY <1>1, LenProperties
<1> QED BY <1>1, <1>2

\* The elements of a sequence appended to are the old ones and the new one.
LEMMA ElementOfAppend ==
  ASSUME NEW S, NEW s \in Seq(S), NEW e \in S, NEW i \in DOMAIN Append(s, e)
  PROVE  (i \in DOMAIN s /\ Append(s, e)[i] = s[i]) \/ Append(s, e)[i] = e
<1>1. /\ DOMAIN s = 1..Len(s) /\ Len(s) \in Nat
      /\ DOMAIN Append(s, e) = 1..(Len(s) + 1)
      /\ \A j \in 1..Len(s) : Append(s, e)[j] = s[j]
      /\ Append(s, e)[Len(s) + 1] = e
  BY AppendProperties, LenProperties
<1> QED BY <1>1

\* What an append adds to the elements of a sequence.
LEMMA RangeOfAppend ==
  ASSUME NEW S, NEW s \in Seq(S), NEW e \in S
  PROVE  Range(Append(s, e)) = Range(s) \cup {e}
<1>1. /\ DOMAIN s = 1..Len(s) /\ Len(s) \in Nat
      /\ DOMAIN Append(s, e) = 1..(Len(s) + 1)
      /\ \A i \in 1..Len(s) : Append(s, e)[i] = s[i]
      /\ Append(s, e)[Len(s) + 1] = e
  BY AppendProperties, LenProperties
<1> QED BY <1>1 DEF Range

\* A sequence without repetitions stays so when a new element is appended.
LEMMA InjectiveAppend ==
  ASSUME NEW S, NEW s \in Seq(S), NEW e \in S,
         IsInjective(s), e \notin Range(s)
  PROVE  IsInjective(Append(s, e))
<1>1. /\ DOMAIN s = 1..Len(s) /\ Len(s) \in Nat
      /\ DOMAIN Append(s, e) = 1..(Len(s) + 1)
      /\ \A i \in 1..Len(s) : Append(s, e)[i] = s[i]
      /\ Append(s, e)[Len(s) + 1] = e
  BY AppendProperties, LenProperties
<1>2. \A i \in 1..Len(s) : s[i] # e
  BY <1>1 DEF Range
<1>3. \A i, j \in 1..Len(s) : s[i] = s[j] => i = j
  BY <1>1 DEF IsInjective
<1> QED BY <1>1, <1>2, <1>3 DEF IsInjective

\* Nothing waits in a queue without repetitions that has also left it.
LEMMA HeadIsNew ==
  ASSUME NEW S, NEW h \in Seq(S), NEW q \in Seq(S), q # <<>>,
         IsInjective(h \o q)
  PROVE  Head(q) \notin Range(h)
<1>1. /\ Len(h) \in Nat /\ Len(q) \in Nat \ {0}
      /\ DOMAIN h = 1..Len(h)
      /\ DOMAIN (h \o q) = 1..(Len(h) + Len(q))
      /\ \A i \in 1..(Len(h) + Len(q)) : (h \o q)[i] =
           IF i <= Len(h) THEN h[i] ELSE q[i - Len(h)]
  BY ConcatProperties, LenProperties, EmptySeq
<1>2. Head(q) = (h \o q)[Len(h) + 1]
  BY <1>1
<1>3. ASSUME NEW i \in 1..Len(h), h[i] = Head(q)
      PROVE  FALSE
  <2>1. (h \o q)[i] = (h \o q)[Len(h) + 1]
    BY <1>1, <1>2, <1>3
  <2> QED BY <1>1, <2>1 DEF IsInjective
<1> QED BY <1>1, <1>3 DEF Range

\* The first element of a queue without repetitions leaves it for good.
LEMMA TailOfInjective ==
  ASSUME NEW S, NEW q \in Seq(S), q # <<>>, IsInjective(q)
  PROVE  /\ Tail(q) \in Seq(S) /\ IsInjective(Tail(q)) /\ Len(Tail(q)) = Len(q) - 1
         /\ Head(q) \in Range(q) /\ Head(q) \in S
         /\ Range(Tail(q)) = Range(q) \ {Head(q)}
<1>1. /\ Len(q) \in Nat \ {0} /\ DOMAIN q = 1..Len(q) /\ Head(q) = q[1] /\ q[1] \in S
      /\ Tail(q) \in Seq(S) /\ Len(Tail(q)) = Len(q) - 1
      /\ DOMAIN Tail(q) = 1..(Len(q) - 1)
      /\ \A i \in 1..(Len(q) - 1) : Tail(q)[i] = q[i + 1]
  BY HeadTailProperties, LenProperties
<1>2. IsInjective(Tail(q))
  BY <1>1 DEF IsInjective
<1>3. Head(q) \in Range(q)
  BY <1>1 DEF Range
<1>4. ASSUME NEW x \in Range(Tail(q))
      PROVE  x \in Range(q) /\ x # Head(q)
  <2>1. PICK i \in 1..(Len(q) - 1) : x = q[i + 1]
    BY <1>1, <1>4 DEF Range
  <2>2. i + 1 \in DOMAIN q /\ i + 1 # 1
    BY <1>1
  <2>3. QED
    BY <1>1, <2>1, <2>2 DEF Range, IsInjective
<1>5. ASSUME NEW x \in Range(q), x # Head(q)
      PROVE  x \in Range(Tail(q))
  <2>1. PICK i \in 1..Len(q) : x = q[i]
    BY <1>1, <1>5 DEF Range
  <2>2. i # 1
    BY <1>1, <1>5, <2>1
  <2>3. i - 1 \in 1..(Len(q) - 1) /\ Tail(q)[i - 1] = q[i]
    BY <1>1, <2>2
  <2>4. QED
    BY <1>1, <2>1, <2>3 DEF Range
<1>6. QED
  BY <1>1, <1>2, <1>3, <1>4, <1>5

\* Nor does it occur in any later part of the queue.
LEMMA SuffixOfInjective ==
  ASSUME NEW S, NEW s \in Seq(S), NEW k \in 1..Len(s), IsInjective(s)
  PROVE  /\ IsInjective(SubSeq(s, k + 1, Len(s)))
         /\ Head(s) \in Range(s)
         /\ Range(SubSeq(s, k + 1, Len(s))) \subseteq Range(s) \ {Head(s)}
<1> DEFINE n == Len(s)
           r == SubSeq(s, k + 1, n)
<1>1. /\ n \in Nat \ {0} /\ DOMAIN s = 1..n /\ Head(s) = s[1] /\ k \in 1..n
      /\ \A i \in 1..n : s[i] \in S
  BY LenProperties, ElementOfSeq
<1>2. \A i, j \in 1..n : s[i] = s[j] => i = j
  BY <1>1 DEF IsInjective
<1>3. /\ r \in Seq(S)
      /\ Len(r) = IF k + 1 <= n THEN n - (k + 1) + 1 ELSE 0
      /\ \A i \in 1..(n - (k + 1) + 1) : r[i] = s[(k + 1) + i - 1]
  BY <1>1, SubSeqProperties
<1> HIDE DEF n, r
<1>4. /\ DOMAIN r = 1..(n - k)
      /\ \A i \in 1..(n - k) : r[i] = s[k + i]
  BY <1>1, <1>3, LenProperties
<1>5. IsInjective(r)
  BY <1>1, <1>2, <1>4 DEF IsInjective
<1>6. \A i \in 1..(n - k) : r[i] \in Range(s) /\ r[i] # Head(s)
  BY <1>1, <1>2, <1>4 DEF Range
<1>7. Range(r) \subseteq Range(s) \ {Head(s)}
  BY <1>4, <1>6 DEF Range
<1>8. Head(s) \in Range(s)
  BY <1>1 DEF Range
<1> QED BY <1>5, <1>7, <1>8 DEF n, r
===============================================================================
