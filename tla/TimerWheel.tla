------------------------------ MODULE TimerWheel ------------------------------
(***************************************************************************)
(* The timer wheel (timer.hpp): timers in a map, their ids in the slots of *)
(* a wheel, and tick(), which goes over all slots from the current one on. *)
(* cancel_timer() leaves the id in its slot for tick() to drop.  The clock *)
(* is the system's, which also steps back; a callback may throw, which     *)
(* leaves tick() at once.  A callback does not itself add or cancel        *)
(* timers: that is undefined while tick() iterates over the slot.          *)
(*                                                                         *)
(* A slot is the set of its ids: its vector is in their order, for each id *)
(* is pushed when it is assigned, and they only grow.                      *)
(***************************************************************************)
EXTENDS Integers

CONSTANTS WheelSize,   \* wheel_size_
          TickMs,      \* tick_ms_, in units of the clock
          Delays,      \* what add_timer() is called with; they may be negative
          MaxTime,     \* bound: the clock
          MaxTimers    \* bound: timers

\* What is assumed of the constants.
Assumption == /\ WheelSize \in Nat \ {0} /\ TickMs \in Nat \ {0}
              /\ Delays \subseteq Int
              /\ MaxTime \in Nat \ {0} /\ MaxTimers \in Nat

VARIABLES clock,         \* system_clock
          currentIndex,  \* current_index_
          wheel,         \* wheel_: slot -> ids
          timers,        \* timers_: id -> expiration
          nextId,        \* next_id_
          called,        \* history: ids whose callback has been called and returned
          threw          \* the last tick() ended by an exception of a callback

wheelVars == <<clock, currentIndex, wheel, timers, nextId, called, threw>>

Slots == 0..(WheelSize - 1)
Live  == DOMAIN timers

Init ==
  /\ clock \in 0..1
  /\ currentIndex = 0
  /\ wheel = [s \in Slots |-> {}]
  /\ timers = <<>>
  /\ nextId = 1
  /\ called = {}
  /\ threw = FALSE

\* Time passes, or somebody sets the clock.
ClockMoves ==
  /\ clock' \in {clock - 1, clock + 1} \cap 0..MaxTime
  /\ UNCHANGED <<currentIndex, wheel, timers, nextId, called, threw>>

\* schedule(), which reads the clock for a second time: it may have moved either way.
SlotOf(expires, now) ==
  LET delay == IF expires < now THEN 0 ELSE expires - now
  IN  (currentIndex + delay \div TickMs) % WheelSize

AddTimer(delay) ==
  /\ nextId <= MaxTimers
  /\ nextId' = nextId + 1
  /\ clock' \in {clock - 1, clock, clock + 1} \cap 0..MaxTime
  /\ LET expires == clock + delay
         slot    == SlotOf(expires, clock')
     IN  /\ timers' = [id \in Live \cup {nextId} |->
                         IF id = nextId THEN expires ELSE timers[id]]
         /\ wheel' = [wheel EXCEPT ![slot] = @ \cup {nextId}]
  /\ UNCHANGED <<currentIndex, called, threw>>

Forget(ids) == [id \in Live \ ids |-> timers[id]]

CancelTimer(id) ==
  /\ id \in Live
  /\ timers' = Forget({id})
  /\ UNCHANGED <<clock, currentIndex, wheel, nextId, called, threw>>

\* Wrong variant: only the current slot is looked at.
Mut_Scan == wheel[currentIndex]

\* The ids that tick() comes to, and those it comes to before id in slot s.
Scan == UNION {wheel[s] : s \in Slots}
Turn(s) == (s - currentIndex) % WheelSize
Earlier(s, id) ==
  (UNION {wheel[r] : r \in {r \in Slots : Turn(r) < Turn(s)}})
    \cup {j \in wheel[s] : j < id}
Due(id) == id \in Live /\ timers[id] <= clock

\* tick() goes over a part of the ids: it drops the cancelled ones, calls the due
\* ones, and forgets them.
Sweep(ids) ==
  LET due == {id \in ids : Due(id)}
  IN  /\ called' = called \cup due
      /\ timers' = Forget(due)
      /\ wheel' = [s \in Slots |->
                     {id \in wheel[s] : id \in ids => id \in Live /\ ~Due(id)}]

Tick ==
  /\ Sweep(Scan)
  /\ currentIndex' = (currentIndex + 1) % WheelSize
  /\ threw' = FALSE
  /\ UNCHANGED <<clock, nextId>>

\* Wrong variant: the id is taken out of its slot before the callback.
Mut_TickThrows ==
  \E s \in Slots : \E id \in wheel[s] :
    /\ Due(id)
    /\ wheel' = [wheel EXCEPT ![s] = @ \ {id}]
    /\ threw' = TRUE
    /\ UNCHANGED <<clock, currentIndex, timers, nextId, called>>

\* The callback of an id throws: the timer stays, to be called again.
TickThrows ==
  \E s \in Slots : \E id \in wheel[s] :
    /\ Due(id)
    /\ Sweep(Earlier(s, id))
    /\ threw' = TRUE
    /\ UNCHANGED <<clock, currentIndex, nextId>>

Next == \/ ClockMoves \/ Tick \/ TickThrows
        \/ \E d \in Delays : AddTimer(d)
        \/ \E id \in Live : CancelTimer(id)

Spec == Init /\ [][Next]_wheelVars

-------------------------------------------------------------------------------
(* Properties.                                                             *)

\* Type invariant; every id has been assigned.
TypeOK ==
  /\ clock \in 0..MaxTime
  /\ currentIndex \in Slots
  /\ wheel \in [Slots -> SUBSET (1..(nextId - 1))]
  /\ timers \in [Live -> Int] /\ Live \subseteq 1..(nextId - 1)
  /\ nextId \in 1..(MaxTimers + 1)
  /\ called \subseteq 1..(nextId - 1)
  /\ threw \in BOOLEAN

\* The map and the wheel agree although cancelling changes only one of them, the
\* clock moves between its two readings, and a callback may throw half-way: every
\* id is in one slot at most, and every live timer is in one.
WheelHoldsTimers ==
  /\ \A s, t \in Slots : s # t => wheel[s] \cap wheel[t] = {}
  /\ Live \subseteq UNION {wheel[s] : s \in Slots}

\* Inductive; what has been called has been forgotten.
WheelInv == TypeOK /\ WheelHoldsTimers /\ called \cap Live = {}

\* tick() calls live timers that are due, and each for the last time, since it
\* forgets them; when it returns, no live timer is due, whatever slot it is in.
CalledWhenDue ==
  [][/\ \A id \in called' \ called : Due(id)
     /\ called' \cap DOMAIN timers' = {}
     /\ currentIndex' # currentIndex => \A id \in DOMAIN timers' : timers'[id] > clock
    ]_wheelVars
===============================================================================
