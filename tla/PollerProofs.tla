---------------------------- MODULE PollerProofs ----------------------------
(***************************************************************************)
(* Proofs about Poller, for any finite set of jobs and any queues, limits, *)
(* priorities, workers, changes and failures.                              *)
(***************************************************************************)
EXTENDS Poller, FiniteSetTheorems, TLAPS

\* Sets of jobs can be counted, and their numbers added when they are disjoint.
LEMMA CountJobs ==
    /\ \A S \in SUBSET Jobs : Cardinality(S) \in Nat
    /\ \A S \in SUBSET Jobs : \A T \in SUBSET S : Cardinality(T) <= Cardinality(S)
    /\ \A S, T \in SUBSET Jobs :
          Cardinality(S \cup T) <= Cardinality(S) + Cardinality(T)
    /\ Cardinality({}) = 0
<1>1. \A S \in SUBSET Jobs : IsFiniteSet(S)
  BY JobsFinite, FS_Subset
<1>2. \A S \in SUBSET Jobs : Cardinality(S) \in Nat
  BY <1>1, FS_CardinalityType
<1>3. ASSUME NEW S \in SUBSET Jobs, NEW T \in SUBSET S
      PROVE  Cardinality(T) <= Cardinality(S)
  BY <1>1, FS_Subset
<1>4. ASSUME NEW S \in SUBSET Jobs, NEW T \in SUBSET Jobs
      PROVE  Cardinality(S \cup T) <= Cardinality(S) + Cardinality(T)
  <2>1. Cardinality(S \cup T) = Cardinality(S) + Cardinality(T) - Cardinality(S \cap T)
    BY <1>1, FS_Union
  <2>2. S \cap T \in SUBSET Jobs
    OBVIOUS
  <2> QED
    BY <1>2, <2>1, <2>2
<1> QED
  BY <1>2, <1>3, <1>4, FS_EmptySet

\* The initial call record has the type of a call.
LEMMA IdlePollType ==
    /\ IdlePoll \in PollCall
    /\ IdlePoll.pc = "idle" /\ IdlePoll.slots = 0 /\ IdlePoll.got = {}
    /\ IdlePoll.cur = NULL /\ IdlePoll.room = 0 /\ IdlePoll.picked = {}
<1>1. NoQueues \in [{} -> Limits]
  BY DEF NoQueues
<1>2. NoQueues \in UNION {[Q -> Limits] : Q \in SUBSET Queues}
  BY <1>1
<1> HIDE DEF NoQueues
<1> QED
  BY <1>2 DEF IdlePoll, PollCall

\* The state in which a call is when it has nothing picked.
Resting(p) == p \in PollCall /\ p.picked = {} /\ p.room = 0

\* What the head of the loop does: the call goes on or returns, and what it had
\* claimed is kept, in the call or in activeJobs.
LEMMA ContinueKeeps ==
    ASSUME TypeOK, NEW w \in Workers, NEW p, Resting(p), Continue(w, p)
    PROVE  /\ poll' \in [Workers -> PollCall]
           /\ active' \in [Workers -> SUBSET Jobs]
           /\ \A v \in Workers \ {w} : poll'[v] = poll[v] /\ active'[v] = active[v]
           /\ Resting(poll'[w])
           /\ \/ /\ active'[w] = active[w] \cup p.got
                 /\ poll'[w].got = {} /\ poll'[w].slots = 0
              \/ /\ active'[w] = active[w]
                 /\ poll'[w].got = p.got /\ poll'[w].slots = p.slots
                 /\ poll'[w].pc = "count"
<1>1. /\ poll \in [Workers -> PollCall]
      /\ active \in [Workers -> SUBSET Jobs]
  BY DEF TypeOK
<1>2. /\ p \in PollCall /\ p.got \in SUBSET Jobs
      /\ p.picked = {} /\ p.room = 0
  BY DEF Resting, PollCall
<1>3. CASE DOMAIN p.todo = {} \/ p.slots = 0
  <2>1. /\ poll' = [poll EXCEPT ![w] = IdlePoll]
        /\ active' = [active EXCEPT ![w] = @ \cup p.got]
    BY <1>3 DEF Continue
  <2>2. /\ poll'[w] = IdlePoll
        /\ active'[w] = active[w] \cup p.got
        /\ \A v \in Workers \ {w} : poll'[v] = poll[v] /\ active'[v] = active[v]
    BY <1>1, <2>1
  <2>3. /\ poll' \in [Workers -> PollCall]
        /\ active' \in [Workers -> SUBSET Jobs]
    BY <1>1, <1>2, <2>1, IdlePollType
  <2> QED
    BY <2>2, <2>3, IdlePollType DEF Resting
<1>4. CASE ~(DOMAIN p.todo = {} \/ p.slots = 0)
  <2> DEFINE p2 == [p EXCEPT !.pc = "count"]
  <2>1. poll' = [poll EXCEPT ![w] = p2] /\ active' = active
    BY <1>4 DEF Continue
  <2>2. /\ p2 \in PollCall
        /\ p2.got = p.got /\ p2.slots = p.slots /\ p2.picked = {} /\ p2.room = 0
        /\ p2.pc = "count"
    BY <1>2 DEF PollCall
  <2> HIDE DEF p2
  <2>3. /\ poll'[w] = p2
        /\ \A v \in Workers \ {w} : poll'[v] = poll[v]
        /\ poll' \in [Workers -> PollCall]
    BY <1>1, <2>1, <2>2
  <2> QED
    BY <1>1, <2>1, <2>2, <2>3 DEF Resting
<1> QED
  BY <1>3, <1>4

\* The bookkeeping of the slots of one worker, and what its call holds.
SlotsOf(w) ==
    /\ Cardinality(active[w]) + Cardinality(poll[w].got) + poll[w].slots <= Concurrency
    /\ Cardinality(poll[w].picked) <= poll[w].room
    /\ poll[w].room <= poll[w].slots
    /\ poll[w].pc = "idle" => poll[w].got = {}
    /\ poll[w].pc \in {"idle", "count"} => poll[w].room = 0

\* A step of one call that touches no row, has nothing picked and keeps what it
\* has claimed preserves the invariant.
LEMMA LocalStep ==
    ASSUME PInv, NEW w \in Workers,
           TypeOK', UNCHANGED <<rowVars, counters>>,
           \A v \in Workers \ {w} : poll'[v] = poll[v] /\ active'[v] = active[v],
           poll[w].picked = {}, poll'[w].picked = {},
           active'[w] \cup poll'[w].got = active[w] \cup poll[w].got,
           active'[w] \cap poll'[w].got = {},
           SlotsOf(w)'
    PROVE  PInv'
<1> USE DEF PInv
<1>1. status' = status /\ owner' = owner /\ lock' = lock /\ dbErrors' = dbErrors
  BY DEF rowVars, counters
<1>2. LocksMatch'
  BY <1>1 DEF LocksMatch
<1>3. PickedQueued'
  BY <1>1 DEF PickedQueued
<1>4. ASSUME NEW v \in Workers
      PROVE  active'[v] \cup poll'[v].got = active[v] \cup poll[v].got
  BY <1>1
<1>5. HeldOwned'
  BY <1>1, <1>4 DEF HeldOwned
<1>6. SlotsCounted' /\ CallsFresh'
  <2> SUFFICES ASSUME NEW v \in Workers PROVE SlotsOf(v)'
    BY DEF SlotsCounted, CallsFresh, SlotsOf
  <2>1. CASE v = w
    BY <2>1
  <2>2. CASE v # w
    BY <2>2 DEF SlotsCounted, CallsFresh, SlotsOf
  <2> QED
    BY <2>1, <2>2
<1>7. ClaimedIsHeld'
  BY <1>1, <1>4 DEF ClaimedIsHeld
<1> QED
  BY <1>2, <1>3, <1>5, <1>6, <1>7

\* So the head of the loop preserves it, when it is reached with what the call
\* has claimed and no more slots than the call has.
LEMMA ContinueStep ==
    ASSUME PInv, NEW w \in Workers, NEW p,
           Resting(p), Continue(w, p), poll[w].picked = {},
           p.got = poll[w].got, p.slots = poll[w].slots,
           UNCHANGED <<rowVars, queueVars, counters>>
    PROVE  PInv'
<1> USE DEF PInv
<1>1. /\ poll' \in [Workers -> PollCall]
      /\ active' \in [Workers -> SUBSET Jobs]
      /\ \A v \in Workers \ {w} : poll'[v] = poll[v] /\ active'[v] = active[v]
      /\ Resting(poll'[w])
      /\ \/ /\ active'[w] = active[w] \cup p.got
            /\ poll'[w].got = {} /\ poll'[w].slots = 0
         \/ /\ active'[w] = active[w]
            /\ poll'[w].got = p.got /\ poll'[w].slots = p.slots
            /\ poll'[w].pc = "count"
  BY ContinueKeeps
<1>2. TypeOK'
  BY <1>1 DEF TypeOK, rowVars, queueVars, counters
<1>3. /\ active[w] \in SUBSET Jobs /\ poll[w].got \in SUBSET Jobs
      /\ poll[w].slots \in Nat /\ Concurrency \in Nat
  BY PollBounds DEF TypeOK, PollCall
<1>4. SlotsOf(w)'
  <2>1. SlotsOf(w)
    BY DEF SlotsCounted, CallsFresh, SlotsOf
  <2>2. /\ poll'[w].picked = {} /\ poll'[w].room = 0
        /\ poll'[w].slots \in Nat
    BY <1>1 DEF Resting, PollCall
  <2>3. Cardinality(active[w] \cup poll[w].got)
           <= Cardinality(active[w]) + Cardinality(poll[w].got)
    BY <1>3, CountJobs
  <2>4. /\ Cardinality(active[w]) \in Nat /\ Cardinality(poll[w].got) \in Nat
        /\ Cardinality(active[w] \cup poll[w].got) \in Nat
        /\ Cardinality({}) = 0
    <3>1. active[w] \cup poll[w].got \in SUBSET Jobs
      BY <1>3
    <3> QED
      BY <1>3, <3>1, CountJobs
  <2>5. CASE active'[w] = active[w] \cup p.got /\ poll'[w].got = {} /\ poll'[w].slots = 0
    BY <1>3, <2>1, <2>2, <2>3, <2>4, <2>5 DEF SlotsOf
  <2>6. CASE /\ active'[w] = active[w] /\ poll'[w].got = p.got
             /\ poll'[w].slots = p.slots /\ poll'[w].pc = "count"
    BY <1>3, <2>1, <2>2, <2>4, <2>6 DEF SlotsOf
  <2> QED
    BY <1>1, <2>5, <2>6
<1>5. /\ active'[w] \cup poll'[w].got = active[w] \cup poll[w].got
      /\ active'[w] \cap poll'[w].got = {}
  BY <1>1 DEF HeldOwned
<1>6. poll'[w].picked = {}
  BY <1>1 DEF Resting
<1> HIDE DEF PInv
<1> QED
  BY <1>1, <1>2, <1>4, <1>5, <1>6, LocalStep


\* Nothing is claimed, locked or polled in the initial states.
LEMMA InitPInv == Init => PInv
<1> SUFFICES ASSUME Init PROVE PInv
  OBVIOUS
<1> USE DEF Init
<1>1. TypeOK
  BY IdlePollType DEF TypeOK
<1>2. LocksMatch
  BY IdlePollType, TablesTyped DEF LocksMatch
<1>3. PickedQueued /\ HeldOwned /\ ClaimedIsHeld
  BY IdlePollType DEF PickedQueued, HeldOwned, ClaimedIsHeld
<1>4. SlotsCounted
  BY IdlePollType, CountJobs, PollBounds DEF SlotsCounted
<1>5. CallsFresh
  BY IdlePollType DEF CallsFresh
<1> QED
  BY <1>1, <1>2, <1>3, <1>4, <1>5 DEF PInv

\* The number of free slots is an integer, and what a full queue allows is a
\* natural number.
LEMMA CountsTyped ==
    ASSUME TypeOK, NEW w \in Workers
    PROVE  /\ FreeSlots(w) \in Int
           /\ \A q \in DOMAIN poll[w].todo :
                 /\ q \in Queues /\ poll[w].todo[q] \in Limits
                 /\ Allowed(w, q) \in Nat
<1>1. active[w] \in SUBSET Jobs /\ poll[w] \in PollCall
  BY DEF TypeOK
<1>2. FreeSlots(w) \in Int
  BY <1>1, CountJobs, PollBounds DEF FreeSlots
<1>3. ASSUME NEW q \in DOMAIN poll[w].todo
      PROVE  /\ q \in Queues /\ poll[w].todo[q] \in Limits
             /\ Allowed(w, q) \in Nat
  <2>1. PICK Q \in SUBSET Queues : poll[w].todo \in [Q -> Limits]
    BY <1>1 DEF PollCall
  <2>2. q \in Queues /\ poll[w].todo[q] \in Limits
    BY <2>1
  <2>3. Cardinality(InFlight(q)) \in Nat
    BY CountJobs DEF InFlight
  <2>4. poll[w].todo[q] \in Nat
    BY <2>2, TablesTyped
  <2> HIDE DEF InFlight
  <2>5. Allowed(w, q) \in Nat
    BY <2>3, <2>4 DEF Allowed
  <2> QED
    BY <2>2, <2>5
<1> QED
  BY <1>2, <1>3

\* A call goes on with the rest of its queues.
LEMMA RestOfQueues ==
    ASSUME TypeOK, NEW w \in Workers, NEW q
    PROVE  Later(w, q) \in UNION {[Q -> Limits] : Q \in SUBSET Queues}
<1>0. poll[w] \in PollCall
  BY DEF TypeOK
<1>1. PICK Q \in SUBSET Queues : poll[w].todo \in [Q -> Limits]
  BY <1>0 DEF PollCall
<1>2. Later(w, q) \in [Q \ {q} -> Limits]
  BY <1>1 DEF Later, Restrict
<1> QED
  BY <1>1, <1>2

LEMMA FetchQueuesStep ==
    ASSUME PInv, NEW w \in Workers, FetchQueues(w)
    PROVE  PInv'
<1> USE DEF PInv
<1> DEFINE Todo == [q \in OpenQueues |-> limit[q]]
           p2 == [IdlePoll EXCEPT !.pc = "count", !.slots = FreeSlots(w), !.todo = Todo]
<1>1. /\ poll' = [poll EXCEPT ![w] = p2] /\ active' = active
      /\ poll[w].pc = "idle" /\ FreeSlots(w) > 0
      /\ UNCHANGED <<rowVars, queueVars, counters>>
  BY DEF FetchQueues
<1>2. Todo \in UNION {[Q -> Limits] : Q \in SUBSET Queues}
  <2>1. OpenQueues \in SUBSET Queues /\ Todo \in [OpenQueues -> Limits]
    BY DEF OpenQueues, TypeOK
  <2> QED
    BY <2>1
<1>3. FreeSlots(w) \in Nat
  BY <1>1, CountsTyped
<1> HIDE DEF Todo
<1>4. /\ p2 \in PollCall
      /\ p2.pc = "count" /\ p2.got = {} /\ p2.picked = {} /\ p2.room = 0 /\ p2.slots = FreeSlots(w)
  BY <1>2, <1>3, IdlePollType DEF PollCall
<1> HIDE DEF p2
<1>5. /\ poll' \in [Workers -> PollCall]
      /\ poll'[w] = p2
      /\ \A v \in Workers \ {w} : poll'[v] = poll[v] /\ active'[v] = active[v]
  BY <1>1, <1>4 DEF TypeOK
<1>6. TypeOK'
  BY <1>1, <1>5 DEF TypeOK, rowVars, queueVars, counters
<1>7. poll[w].picked = {} /\ poll[w].got = {}
  BY <1>1 DEF PickedQueued, CallsFresh
<1>8. SlotsOf(w)'
  BY <1>1, <1>3, <1>4, <1>5, CountJobs, PollBounds DEF SlotsOf, FreeSlots, TypeOK
<1> HIDE DEF PInv
<1> QED
  BY <1>1, <1>4, <1>5, <1>6, <1>7, <1>8, LocalStep

LEMMA SkipQueueStep ==
    ASSUME PInv, NEW w \in Workers, SkipQueue(w)
    PROVE  PInv'
<1>1. PICK q \in NextQueues(w) :
          /\ poll[w].pc = "count"
          /\ Continue(w, [poll[w] EXCEPT !.todo = AfterFullQueue(w, q)])
          /\ UNCHANGED <<rowVars, queueVars, counters>>
  BY DEF SkipQueue
<1> DEFINE p == [poll[w] EXCEPT !.todo = AfterFullQueue(w, q)]
<1>2. TypeOK /\ poll[w] \in PollCall
  BY DEF PInv, TypeOK
<1>3. AfterFullQueue(w, q) \in UNION {[Q -> Limits] : Q \in SUBSET Queues}
  BY <1>2, RestOfQueues DEF AfterFullQueue
<1>4. poll[w].picked = {} /\ poll[w].room = 0
  BY <1>1 DEF PInv, PickedQueued, CallsFresh
<1>5. Resting(p) /\ p.got = poll[w].got /\ p.slots = poll[w].slots
  BY <1>2, <1>3, <1>4 DEF Resting, PollCall
<1> HIDE DEF p
<1> QED
  BY <1>1, <1>4, <1>5, ContinueStep DEF p


LEMMA EnterQueueStep ==
    ASSUME PInv, NEW w \in Workers, EnterQueue(w)
    PROVE  PInv'
<1>1. PICK q \in NextQueues(w) :
          /\ poll[w].pc = "count"
          /\ Allowed(w, q) > 0
          /\ poll' = [poll EXCEPT ![w] =
                 [@ EXCEPT !.pc = "select", !.cur = q,
                           !.todo = Later(w, q), !.room = Room(w, q)]]
          /\ UNCHANGED <<rowVars, queueVars, active, counters>>
  BY DEF EnterQueue
<1> DEFINE rest == Later(w, q)
           p2 == [poll[w] EXCEPT !.pc = "select", !.cur = q,
                                 !.todo = rest, !.room = Room(w, q)]
<1>2. /\ TypeOK /\ poll[w] \in PollCall
      /\ poll \in [Workers -> PollCall]
  BY DEF PInv, TypeOK
<1>3. q \in Queues /\ Allowed(w, q) \in Nat
  BY <1>2, CountsTyped DEF NextQueues
<1>4. rest \in UNION {[Q -> Limits] : Q \in SUBSET Queues}
  BY <1>2, RestOfQueues
<1>5. poll[w].slots \in Nat /\ Room(w, q) \in Nat /\ Room(w, q) <= poll[w].slots
  BY <1>2, <1>3 DEF Room, PollCall
<1>6. poll' = [poll EXCEPT ![w] = p2]
  BY <1>1, <1>2 DEF PollCall
<1> HIDE DEF rest
<1>7. /\ p2 \in PollCall
      /\ p2.pc = "select" /\ p2.got = poll[w].got /\ p2.picked = poll[w].picked
      /\ p2.slots = poll[w].slots /\ p2.room = Room(w, q)
  BY <1>2, <1>3, <1>4, <1>5 DEF PollCall
<1> HIDE DEF p2
<1>8. /\ poll' \in [Workers -> PollCall]
      /\ poll'[w] = p2
      /\ \A v \in Workers \ {w} : poll'[v] = poll[v] /\ active'[v] = active[v]
  BY <1>1, <1>2, <1>6, <1>7
<1>9. TypeOK' /\ active' = active /\ UNCHANGED <<rowVars, counters>>
  BY <1>1, <1>2, <1>8 DEF TypeOK, rowVars, queueVars, counters
<1>10. poll[w].picked = {}
  BY <1>1 DEF PInv, PickedQueued
<1>11. SlotsOf(w)'
  BY <1>5, <1>7, <1>8, <1>9, <1>10, CountJobs DEF PInv, SlotsCounted, SlotsOf
<1>12. active'[w] \cap poll'[w].got = {}
  BY <1>7, <1>8, <1>9 DEF PInv, HeldOwned
<1> QED
  BY <1>7, <1>8, <1>9, <1>10, <1>11, <1>12, LocalStep

\* No more rows are returned than were asked for, and none that is locked.
LEMMA FirstRowsFew ==
    ASSUME NEW rows \in SUBSET Jobs, NEW n \in Nat, NEW S \in FirstRows(rows, n)
    PROVE  S \in SUBSET rows /\ Cardinality(S) \in Nat /\ Cardinality(S) <= n
<1>1. S \in SUBSET rows /\ S \in SUBSET Jobs
  BY DEF FirstRows
<1>2. Cardinality(rows) \in Nat /\ Cardinality(S) \in Nat
  BY <1>1, CountJobs
<1> QED
  BY <1>1, <1>2 DEF FirstRows

\* A SELECT that finds rows locks rows that no other call has locked.
LEMMA PickRows ==
    ASSUME PInv, NEW w \in Workers, poll[w].pc = "select",
           NEW S \in FirstRows(Selectable(poll[w].cur), poll[w].room),
           lock' = [j \in Jobs |-> IF j \in S THEN w ELSE lock[j]],
           poll' = [poll EXCEPT ![w] = [@ EXCEPT !.pc = "update", !.picked = S]],
           UNCHANGED <<status, owner, queueVars, active, counters>>
    PROVE  PInv'
<1> DEFINE p2 == [poll[w] EXCEPT !.pc = "update", !.picked = S]
<1>1. /\ TypeOK /\ poll[w] \in PollCall
      /\ poll \in [Workers -> PollCall] /\ poll[w].room \in Nat
  BY DEF PInv, TypeOK, PollCall
<1>2. Selectable(poll[w].cur) \in SUBSET Jobs
  BY DEF Selectable
<1>3. /\ S \in SUBSET Jobs /\ Cardinality(S) <= poll[w].room
      /\ \A j \in S : status[j] = "QUEUED" /\ lock[j] = NULL
  <2>1. /\ S \in SUBSET Selectable(poll[w].cur)
        /\ Cardinality(S) <= poll[w].room
    BY <1>1, <1>2, FirstRowsFew
  <2> QED
    BY <2>1 DEF Selectable
<1>4. poll' = [poll EXCEPT ![w] = p2]
  BY <1>1
<1>5. /\ p2 \in PollCall
      /\ p2.pc = "update" /\ p2.picked = S /\ p2.got = poll[w].got
      /\ p2.slots = poll[w].slots /\ p2.room = poll[w].room
  BY <1>1, <1>3 DEF PollCall
<1> HIDE DEF p2
<1>6. /\ poll' \in [Workers -> PollCall]
      /\ poll'[w] = p2
      /\ \A v \in Workers \ {w} : poll'[v] = poll[v]
      /\ active' = active /\ status' = status /\ owner' = owner /\ dbErrors' = dbErrors
  BY <1>1, <1>4, <1>5 DEF counters
<1>7. TypeOK'
  BY <1>1, <1>6 DEF TypeOK, queueVars, counters
<1>8. poll[w].picked = {}
  BY DEF PInv, PickedQueued
<1>9. LocksMatch'
  BY <1>3, <1>5, <1>6, <1>8, TablesTyped DEF PInv, LocksMatch
<1>10. PickedQueued'
  BY <1>3, <1>5, <1>6 DEF PInv, PickedQueued
<1>11. HeldOwned' /\ ClaimedIsHeld'
  BY <1>5, <1>6 DEF PInv, HeldOwned, ClaimedIsHeld
<1>12. SlotsCounted' /\ CallsFresh'
  BY <1>3, <1>5, <1>6 DEF PInv, SlotsCounted, CallsFresh
<1> QED
  BY <1>7, <1>9, <1>10, <1>11, <1>12 DEF PInv

LEMMA SelectRowsStep ==
    ASSUME PInv, NEW w \in Workers, SelectRows(w)
    PROVE  PInv'
<1> DEFINE rows == Selectable(poll[w].cur)
<1>1. poll[w].pc = "select" /\ UNCHANGED <<status, owner, queueVars, counters>>
  BY DEF SelectRows
<1>2. CASE /\ rows = {}
           /\ Continue(w, [poll[w] EXCEPT !.cur = NULL, !.room = 0])
           /\ UNCHANGED lock
  <2> DEFINE p == [poll[w] EXCEPT !.cur = NULL, !.room = 0]
  <2>1. poll[w] \in PollCall
    BY DEF PInv, TypeOK
  <2>2. poll[w].picked = {}
    BY <1>1 DEF PInv, PickedQueued
  <2>3. Resting(p) /\ p.got = poll[w].got /\ p.slots = poll[w].slots
    BY <2>1, <2>2 DEF Resting, PollCall
  <2>4. Continue(w, p)
    BY <1>2
  <2>5. UNCHANGED <<rowVars, queueVars, counters>>
    BY <1>1, <1>2 DEF rowVars
  <2> HIDE DEF p
  <2> QED
    BY <2>2, <2>3, <2>4, <2>5, ContinueStep
<1>3. CASE /\ rows # {}
           /\ \E S \in FirstRows(rows, poll[w].room) :
                 /\ lock' = [j \in Jobs |-> IF j \in S THEN w ELSE lock[j]]
                 /\ poll' = [poll EXCEPT ![w] = [@ EXCEPT !.pc = "update", !.picked = S]]
           /\ UNCHANGED active
  BY <1>1, <1>3, PickRows
<1> QED
  BY <1>2, <1>3 DEF SelectRows


\* The commit of the claims: the picked rows were QUEUED and locked, so no one
\* else has them, and they join what the call has claimed.
LEMMA UpdateRowsStep ==
    ASSUME PInv, NEW w \in Workers, UpdateRows(w)
    PROVE  PInv'
<1> DEFINE c == poll[w]
           p == [IdlePoll EXCEPT !.todo = c.todo, !.slots = SlotsLeft(c),
                                 !.got = c.got \cup c.picked]
<1>1. /\ c.pc = "update"
      /\ status' = [j \in Jobs |-> IF j \in c.picked THEN "CLAIMED" ELSE status[j]]
      /\ owner' = [j \in Jobs |-> IF j \in c.picked THEN w ELSE owner[j]]
      /\ lock' = [j \in Jobs |-> IF lock[j] = w THEN NULL ELSE lock[j]]
      /\ Continue(w, p)
      /\ UNCHANGED <<queueVars, counters>>
  BY DEF UpdateRows, ReleaseLocks
<1>2. /\ TypeOK /\ c \in PollCall
      /\ c.got \in SUBSET Jobs /\ c.picked \in SUBSET Jobs /\ active[w] \in SUBSET Jobs
      /\ c.slots \in Nat /\ c.room \in Nat
  BY DEF PInv, TypeOK, PollCall
<1>3. /\ Cardinality(active[w]) \in Nat /\ Cardinality(c.got) \in Nat
      /\ Cardinality(c.picked) \in Nat
      /\ Cardinality(c.got \cup c.picked) \in Nat
      /\ Cardinality(c.got \cup c.picked) <= Cardinality(c.got) + Cardinality(c.picked)
      /\ Cardinality(active[w] \cup (c.got \cup c.picked)) \in Nat
      /\ Cardinality(active[w] \cup (c.got \cup c.picked))
            <= Cardinality(active[w]) + Cardinality(c.got \cup c.picked)
  <2>1. /\ c.got \cup c.picked \in SUBSET Jobs
        /\ active[w] \cup (c.got \cup c.picked) \in SUBSET Jobs
    BY <1>2
  <2> QED
    BY <1>2, <2>1, CountJobs
<1>4. /\ Cardinality(c.picked) <= c.slots
      /\ Cardinality(active[w]) + Cardinality(c.got) + c.slots <= Concurrency
  BY <1>2, <1>3 DEF PInv, SlotsCounted
<1>5. SlotsLeft(c) \in Nat /\ SlotsLeft(c) = c.slots - Cardinality(c.picked)
  BY <1>2, <1>3, <1>4 DEF SlotsLeft
<1>6. /\ Resting(p)
      /\ p.got = c.got \cup c.picked /\ p.slots = SlotsLeft(c)
  BY <1>2, <1>5, IdlePollType DEF Resting, PollCall, IdlePoll
<1> HIDE DEF p, c
<1>7. /\ poll' \in [Workers -> PollCall]
      /\ active' \in [Workers -> SUBSET Jobs]
      /\ \A v \in Workers \ {w} : poll'[v] = poll[v] /\ active'[v] = active[v]
      /\ Resting(poll'[w])
      /\ \/ /\ active'[w] = active[w] \cup p.got
            /\ poll'[w].got = {} /\ poll'[w].slots = 0
         \/ /\ active'[w] = active[w]
            /\ poll'[w].got = p.got /\ poll'[w].slots = p.slots
            /\ poll'[w].pc = "count"
  BY <1>1, <1>2, <1>6, ContinueKeeps
<1>8. TypeOK'
  BY <1>1, <1>2, <1>7 DEF TypeOK, queueVars, counters
<1>9. poll'[w].picked = {} /\ poll'[w].room = 0
  BY <1>7 DEF Resting
<1>10. \A v \in Workers \ {w} : \A j \in Jobs :
          j \in c.picked => j \notin active[v] \cup poll[v].got \cup poll[v].picked
  BY DEF PInv, LocksMatch, PickedQueued, HeldOwned, c
<1>11. LocksMatch'
  BY <1>1, <1>2, <1>7, <1>9, TablesTyped DEF PInv, LocksMatch, TypeOK, c
<1>12. PickedQueued'
  BY <1>1, <1>2, <1>7, <1>9, <1>10 DEF PInv, PickedQueued, TypeOK, PollCall
<1>13. /\ active'[w] \cup poll'[w].got = active[w] \cup c.got \cup c.picked
       /\ active'[w] \cap poll'[w].got = {}
  BY <1>2, <1>6, <1>7 DEF PInv, PickedQueued, HeldOwned, c
<1>14. HeldOwned'
  <2> SUFFICES ASSUME NEW v \in Workers
               PROVE  /\ \A j \in active'[v] \cup poll'[v].got :
                            status'[j] = "CLAIMED" /\ owner'[j] = v
                      /\ active'[v] \cap poll'[v].got = {}
    BY DEF HeldOwned
  <2>1. CASE v = w
    <3>1. \A j \in active[w] \cup c.got : status[j] = "CLAIMED" /\ owner[j] = w
      BY DEF PInv, HeldOwned, c
    <3> QED
      BY <1>1, <1>2, <1>13, <2>1, <3>1
  <2>2. CASE v # w
    <3>1. /\ \A j \in active[v] \cup poll[v].got : status[j] = "CLAIMED" /\ owner[j] = v
          /\ active[v] \cap poll[v].got = {}
          /\ active[v] \cup poll[v].got \subseteq Jobs
      BY <1>2 DEF PInv, HeldOwned, TypeOK, PollCall
    <3> QED
      BY <1>1, <1>7, <1>10, <2>2, <3>1
  <2> QED
    BY <2>1, <2>2
<1>15. SlotsCounted' /\ CallsFresh'
  <2> SUFFICES ASSUME NEW v \in Workers PROVE SlotsOf(v)'
    BY DEF SlotsCounted, CallsFresh, SlotsOf
  <2>1. CASE v = w
    <3>1. Cardinality({}) = 0
      BY CountJobs
    <3>2. CASE /\ active'[w] = active[w] \cup p.got
               /\ poll'[w].got = {} /\ poll'[w].slots = 0
      <4>1. Cardinality(active'[w]) <= Concurrency /\ Cardinality(active'[w]) \in Nat
        BY <1>2, <1>3, <1>4, <1>6, <3>2, PollBounds
      <4>2. /\ Cardinality(poll'[w].got) = 0 /\ Cardinality(poll'[w].picked) = 0
            /\ poll'[w].slots = 0 /\ poll'[w].room = 0 /\ poll'[w].got = {}
        BY <1>9, <3>1, <3>2
      <4>3. /\ Cardinality(active'[w]) + Cardinality(poll'[w].got) + poll'[w].slots
                  <= Concurrency
            /\ Cardinality(poll'[w].picked) <= poll'[w].room
            /\ poll'[w].room <= poll'[w].slots
        BY <4>1, <4>2, PollBounds
      <4> QED
        BY <2>1, <4>2, <4>3 DEF SlotsOf
    <3>3. CASE /\ active'[w] = active[w]
               /\ poll'[w].got = p.got /\ poll'[w].slots = p.slots
               /\ poll'[w].pc = "count"
      <4>1. Cardinality(active'[w]) + Cardinality(poll'[w].got) + poll'[w].slots <= Concurrency
        BY <1>2, <1>3, <1>4, <1>5, <1>6, <3>3, PollBounds
      <4>2. poll'[w].slots \in Nat
        BY <1>5, <1>6, <3>3
      <4> QED
        BY <1>9, <2>1, <3>1, <3>3, <4>1, <4>2 DEF SlotsOf
    <3> QED
      BY <1>7, <3>2, <3>3
  <2>2. CASE v # w
    BY <1>7, <2>2 DEF PInv, SlotsCounted, CallsFresh, SlotsOf
  <2> QED
    BY <2>1, <2>2
<1>16. ClaimedIsHeld'
  <2> SUFFICES ASSUME dbErrors' = 0, NEW j \in Jobs, status'[j] = "CLAIMED"
               PROVE  \E v \in Workers : owner'[j] = v /\ j \in active'[v] \cup poll'[v].got
    BY DEF ClaimedIsHeld
  <2>1. CASE j \in c.picked
    BY <1>1, <1>13, <2>1
  <2>2. CASE j \notin c.picked
    <3>1. status[j] = "CLAIMED" /\ owner'[j] = owner[j] /\ dbErrors = 0
      BY <1>1, <2>2 DEF counters
    <3>2. PICK v \in Workers : owner[j] = v /\ j \in active[v] \cup poll[v].got
      BY <3>1 DEF PInv, ClaimedIsHeld
    <3>3. j \in active'[v] \cup poll'[v].got
      BY <1>7, <1>13, <3>2 DEF c
    <3> QED
      BY <3>1, <3>2, <3>3
  <2> QED
    BY <2>1, <2>2
<1> QED
  BY <1>8, <1>11, <1>12, <1>14, <1>15, <1>16 DEF PInv

\* A failing statement rolls back: the call holds nothing any more.
LEMMA PollFailsStep ==
    ASSUME PInv, NEW w \in Workers, PollFails(w)
    PROVE  PInv'
<1>1. /\ dbErrors' = dbErrors + 1
      /\ lock' = [j \in Jobs |-> IF lock[j] = w THEN NULL ELSE lock[j]]
      /\ poll' = [poll EXCEPT ![w] = IdlePoll]
      /\ UNCHANGED <<status, owner, queueVars, active, changes>>
  BY DEF PollFails, ReleaseLocks
<1>2. TypeOK
  BY DEF PInv
<1>3. /\ poll' \in [Workers -> PollCall]
      /\ poll'[w] = IdlePoll
      /\ \A v \in Workers \ {w} : poll'[v] = poll[v]
  BY <1>1, <1>2, IdlePollType DEF TypeOK
<1>4. TypeOK' /\ dbErrors' # 0
  BY <1>1, <1>2, <1>3 DEF TypeOK, queueVars
<1>5. LocksMatch' /\ PickedQueued'
  BY <1>1, <1>2, <1>3, IdlePollType, TablesTyped DEF PInv, LocksMatch, PickedQueued, TypeOK
<1>6. HeldOwned' /\ ClaimedIsHeld'
  BY <1>1, <1>3, <1>4, IdlePollType DEF PInv, HeldOwned, ClaimedIsHeld
<1>7. SlotsCounted' /\ CallsFresh'
  <2> SUFFICES ASSUME NEW v \in Workers PROVE SlotsOf(v)'
    BY DEF SlotsCounted, CallsFresh, SlotsOf
  <2>1. CASE v = w
    <3>1. /\ active[w] \in SUBSET Jobs /\ poll[w].got \in SUBSET Jobs
          /\ poll[w].slots \in Nat
      BY <1>2 DEF TypeOK, PollCall
    <3>2. /\ Cardinality(active[w]) \in Nat /\ Cardinality(poll[w].got) \in Nat
          /\ Cardinality({}) = 0
      BY <3>1, CountJobs
    <3>3. Cardinality(active[w]) + Cardinality(poll[w].got) + poll[w].slots <= Concurrency
      BY DEF PInv, SlotsCounted
    <3>4. Cardinality(active[w]) <= Concurrency
      BY <3>1, <3>2, <3>3, PollBounds
    <3>5. /\ Cardinality(poll'[w].got) = 0 /\ Cardinality(poll'[w].picked) = 0
          /\ poll'[w].slots = 0 /\ poll'[w].room = 0 /\ poll'[w].got = {}
          /\ active'[w] = active[w]
      BY <1>1, <1>3, <3>2, IdlePollType
    <3>6. /\ Cardinality(active'[w]) + Cardinality(poll'[w].got) + poll'[w].slots
                <= Concurrency
          /\ Cardinality(poll'[w].picked) <= poll'[w].room
          /\ poll'[w].room <= poll'[w].slots
      BY <3>2, <3>4, <3>5, PollBounds
    <3> QED
      BY <2>1, <3>5, <3>6 DEF SlotsOf
  <2>2. CASE v # w
    BY <1>1, <1>3, <2>2 DEF PInv, SlotsCounted, CallsFresh, SlotsOf
  <2> QED
    BY <2>1, <2>2
<1> QED
  BY <1>4, <1>5, <1>6, <1>7 DEF PInv


\* The end of an execution: its job was claimed by this worker, which had it in
\* activeJobs, so that no other worker loses it.
LEMMA EndJobStep ==
    ASSUME PInv, NEW w \in Workers, NEW j \in Jobs,
           NEW outcome \in {"QUEUED", "ENDED"},
           EndJob(w, j, outcome),
           owner' \in [Jobs -> Workers \cup {NULL}],
           \A k \in Jobs \ {j} : owner'[k] = owner[k],
           UNCHANGED <<lock, queueVars, poll, counters>>
    PROVE  PInv'
<1>1. /\ j \in active[w]
      /\ active' = [active EXCEPT ![w] = @ \ {j}]
      /\ status' = [status EXCEPT ![j] = outcome]
      /\ lock' = lock /\ poll' = poll /\ dbErrors' = dbErrors
  BY DEF EndJob, counters
<1>2. TypeOK
  BY DEF PInv
<1>3. /\ active'[w] = active[w] \ {j}
      /\ \A v \in Workers \ {w} : active'[v] = active[v]
      /\ status'[j] = outcome /\ \A k \in Jobs \ {j} : status'[k] = status[k]
      /\ active' \in [Workers -> SUBSET Jobs]
      /\ status' \in [Jobs -> {"QUEUED", "CLAIMED", "ENDED"}]
  BY <1>1, <1>2 DEF TypeOK
<1>4. TypeOK'
  BY <1>1, <1>2, <1>3 DEF TypeOK, queueVars, counters
<1>5. \A v \in Workers :
          /\ active[v] \cup poll[v].got \subseteq Jobs /\ poll[v].picked \subseteq Jobs
          /\ j \notin poll[v].picked /\ j \notin poll[v].got
          /\ v # w => j \notin active[v]
  BY <1>1, <1>2 DEF PInv, PickedQueued, HeldOwned, TypeOK, PollCall
<1>6. LocksMatch' /\ CallsFresh'
  BY <1>1 DEF PInv, LocksMatch, CallsFresh
<1>7. PickedQueued'
  BY <1>1, <1>3, <1>5 DEF PInv, PickedQueued
<1>8. ASSUME NEW v \in Workers
      PROVE  active'[v] \cup poll'[v].got = (active[v] \cup poll[v].got) \ {j}
  BY <1>1, <1>3, <1>5
<1>9. HeldOwned'
  <2> SUFFICES ASSUME NEW v \in Workers
               PROVE  /\ \A k \in active'[v] \cup poll'[v].got :
                            status'[k] = "CLAIMED" /\ owner'[k] = v
                      /\ active'[v] \cap poll'[v].got = {}
    BY DEF HeldOwned
  <2>1. /\ \A k \in active[v] \cup poll[v].got : status[k] = "CLAIMED" /\ owner[k] = v
        /\ active[v] \cap poll[v].got = {}
    BY DEF PInv, HeldOwned
  <2> QED
    BY <1>1, <1>3, <1>5, <1>8, <2>1
<1>10. SlotsCounted'
  <2> SUFFICES ASSUME NEW v \in Workers
               PROVE  Cardinality(active'[v]) + Cardinality(poll[v].got) + poll[v].slots
                         <= Concurrency
    BY <1>1 DEF PInv, SlotsCounted
  <2>1. /\ active[v] \in SUBSET Jobs /\ active'[v] \in SUBSET active[v]
        /\ poll[v].got \in SUBSET Jobs /\ poll[v].slots \in Nat
    BY <1>2, <1>3 DEF TypeOK, PollCall
  <2>2. /\ Cardinality(active'[v]) <= Cardinality(active[v])
        /\ Cardinality(active'[v]) \in Nat /\ Cardinality(active[v]) \in Nat
        /\ Cardinality(poll[v].got) \in Nat
    <3>1. active'[v] \in SUBSET Jobs
      BY <2>1
    <3> QED
      BY <2>1, <3>1, CountJobs
  <2>3. Cardinality(active[v]) + Cardinality(poll[v].got) + poll[v].slots <= Concurrency
    BY DEF PInv, SlotsCounted
  <2> QED
    BY <2>1, <2>2, <2>3, PollBounds
<1>11. ClaimedIsHeld'
  <2> SUFFICES ASSUME dbErrors' = 0, NEW k \in Jobs, status'[k] = "CLAIMED"
               PROVE  \E v \in Workers : owner'[k] = v /\ k \in active'[v] \cup poll'[v].got
    BY DEF ClaimedIsHeld
  <2>1. k # j
    BY <1>3
  <2>2. status[k] = "CLAIMED" /\ owner'[k] = owner[k] /\ dbErrors = 0
    BY <1>1, <1>3, <2>1
  <2>3. PICK v \in Workers : owner[k] = v /\ k \in active[v] \cup poll[v].got
    BY <2>2 DEF PInv, ClaimedIsHeld
  <2> QED
    BY <1>8, <2>1, <2>2, <2>3
<1> QED
  BY <1>4, <1>6, <1>7, <1>9, <1>10, <1>11 DEF PInv

\* No other step touches what the invariant is about.
LEMMA OtherStep ==
    ASSUME PInv, UNCHANGED <<rowVars, active, poll, dbErrors>>,
           paused' \in [Queues -> BOOLEAN], limit' \in [Queues -> Limits],
           changes' \in Nat
    PROVE  PInv'
BY DEF PInv, TypeOK, LocksMatch, PickedQueued, HeldOwned, SlotsCounted, CallsFresh,
       ClaimedIsHeld, rowVars

\* The invariant is inductive.
LEMMA NextPInv == PInv /\ [Next]_vars => PInv'
<1> SUFFICES ASSUME PInv, [Next]_vars PROVE PInv'
  OBVIOUS
<1>0. TypeOK
  BY DEF PInv
<1>1. ASSUME NEW w \in Workers, ClaimJobs(w) PROVE PInv'
  BY <1>1, FetchQueuesStep, SkipQueueStep, EnterQueueStep, SelectRowsStep, UpdateRowsStep
  DEF ClaimJobs
<1>2. ASSUME NEW w \in Workers, PollFails(w) PROVE PInv'
  BY <1>2, PollFailsStep
<1>3. ASSUME NEW w \in Workers, NEW j \in Jobs, Finish(w, j) PROVE PInv'
  BY <1>0, <1>3, EndJobStep DEF Finish, TypeOK
<1>4. ASSUME NEW w \in Workers, NEW j \in Jobs, Return(w, j) PROVE PInv'
  <2>1. /\ owner' = [owner EXCEPT ![j] = NULL]
        /\ EndJob(w, j, "QUEUED") /\ UNCHANGED <<lock, queueVars, poll, counters>>
    BY <1>4 DEF Return
  <2>2. /\ owner' \in [Jobs -> Workers \cup {NULL}]
        /\ \A k \in Jobs \ {j} : owner'[k] = owner[k]
    BY <1>0, <2>1 DEF TypeOK
  <2> QED
    BY <2>1, <2>2, EndJobStep
<1>5. ASSUME NEW q \in Queues, SetPaused(q) PROVE PInv'
  <2>1. /\ paused' \in [Queues -> BOOLEAN] /\ limit' \in [Queues -> Limits]
        /\ changes' \in Nat
    BY <1>0, <1>5 DEF SetPaused, Change, TypeOK
  <2> QED
    BY <1>5, <2>1, OtherStep DEF SetPaused, Change
<1>6. ASSUME NEW q \in Queues, SetLimit(q) PROVE PInv'
  <2>1. /\ paused' \in [Queues -> BOOLEAN] /\ limit' \in [Queues -> Limits]
        /\ changes' \in Nat
    BY <1>0, <1>6 DEF SetLimit, Change, TypeOK
  <2> QED
    BY <1>6, <2>1, OtherStep DEF SetLimit, Change
<1>7. CASE UNCHANGED vars
  BY <1>0, <1>7, OtherStep DEF vars, queueVars, counters, TypeOK
<1> QED
  BY <1>1, <1>2, <1>3, <1>4, <1>5, <1>6, <1>7 DEF Next

\* The inductive invariant of Poller.claimJobs holds in every state.
THEOREM PollerInvariance == Spec => []PInv
<1>1. Init => PInv
  BY InitPInv
<1>2. PInv /\ [Next]_vars => PInv'
  BY NextPInv
<1> QED
  BY <1>1, <1>2, PTL DEF Spec

\* Rows and local variables always hold values of their types: in particular
\* remainingSlots is never negative.
THEOREM PollerTypes == Spec => []TypeOK
<1>1. PInv => TypeOK
  BY DEF PInv
<1> QED
  BY <1>1, PollerInvariance, PTL

\* No two workers ever hold the same job: the row locks separate the calls that
\* pick rows, and status and owner the jobs that were claimed before.
THEOREM DisjointClaims == Spec => []ClaimsDisjoint
<1>1. ASSUME PInv PROVE ClaimsDisjoint
  <2> SUFFICES ASSUME NEW v \in Workers, NEW w \in Workers, v # w, NEW j,
                      j \in Hand(v), j \in Hand(w)
               PROVE  FALSE
    BY DEF ClaimsDisjoint
  <2>1. j \in Jobs
    BY <1>1 DEF Hand, PInv, TypeOK, PollCall
  <2>2. CASE status[j] = "QUEUED"
    <3>1. j \in poll[v].picked /\ j \in poll[w].picked
      BY <1>1, <2>2 DEF Hand, PInv, HeldOwned
    <3> QED
      BY <1>1, <2>1, <3>1 DEF PInv, LocksMatch
  <2>3. CASE status[j] # "QUEUED"
    BY <1>1, <2>3 DEF Hand, PInv, PickedQueued, HeldOwned
  <2> QED
    BY <2>2, <2>3
<1> QED
  BY <1>1, PollerInvariance, PTL

\* Unless a statement of a poll fails, what is claimed is going to be executed
\* by the worker that the row names.
THEOREM ClaimsHeld == Spec => []ClaimedIsHeld
<1>1. PInv => ClaimedIsHeld
  BY DEF PInv
<1> QED
  BY <1>1, PollerInvariance, PTL

\* A worker never has more jobs, executing, claimed or locked, than slots.
THEOREM SlotsRespected == Spec => []WithinSlots
<1>1. ASSUME PInv, NEW w \in Workers PROVE Cardinality(Hand(w)) <= Concurrency
  <2> DEFINE A == active[w]
             G == poll[w].got
             K == poll[w].picked
  <2>1. /\ A \in SUBSET Jobs /\ G \in SUBSET Jobs /\ K \in SUBSET Jobs
        /\ poll[w].slots \in Nat /\ poll[w].room \in Nat
    BY <1>1 DEF PInv, TypeOK, PollCall
  <2>2. /\ Cardinality(A) + Cardinality(G) + poll[w].slots <= Concurrency
        /\ Cardinality(K) <= poll[w].room /\ poll[w].room <= poll[w].slots
    BY <1>1 DEF PInv, SlotsCounted
  <2> HIDE DEF A, G, K
  <2>3. (A \cup G) \in SUBSET Jobs /\ ((A \cup G) \cup K) \in SUBSET Jobs
    BY <2>1
  <2>4. /\ Cardinality(A \cup G) <= Cardinality(A) + Cardinality(G)
        /\ Cardinality((A \cup G) \cup K) <= Cardinality(A \cup G) + Cardinality(K)
        /\ Cardinality(A) \in Nat /\ Cardinality(G) \in Nat /\ Cardinality(K) \in Nat
        /\ Cardinality(A \cup G) \in Nat /\ Cardinality((A \cup G) \cup K) \in Nat
    BY <2>1, <2>3, CountJobs
  <2>5. Cardinality((A \cup G) \cup K) <= Concurrency
    BY <2>1, <2>2, <2>4, PollBounds
  <2> QED
    BY <2>5 DEF Hand, A, G, K
<1>2. PInv => WithinSlots
  BY <1>1 DEF WithinSlots
<1> QED
  BY <1>2, PollerInvariance, PTL

(***************************************************************************)
(* The limit of a queue. The invariant is taken worker by worker: a step   *)
(* of one changes nothing for another.                                     *)
(***************************************************************************)
LimitOf(w) ==
    /\ \A q \in Queues : Cardinality(Owned(w, q)) <= limit[q]
    /\ \A q \in DOMAIN poll[w].todo : poll[w].todo[q] = limit[q]
    /\ poll[w].pc \in {"select", "update"} =>
           /\ poll[w].cur \in Queues
           /\ Cardinality(Owned(w, poll[w].cur)) + poll[w].room <= limit[poll[w].cur]
    /\ \A j \in poll[w].picked : QueueOf[j] = poll[w].cur

LEMMA LimitOfAll == LimitInv <=> (changes = 0 => \A w \in Workers : LimitOf(w))
BY DEF LimitInv, WorkerWithinLimit, RoomWithinLimit, LimitOf

\* A worker that gets no row owns no more rows of any queue.
LEMMA OwnedShrinks ==
    ASSUME NEW v \in Workers, NEW q,
           \A j \in Jobs : status'[j] = "CLAIMED" /\ owner'[j] = v
                              => status[j] = "CLAIMED" /\ owner[j] = v
    PROVE  /\ Cardinality(Owned(v, q)) \in Nat /\ Cardinality(Owned(v, q)') \in Nat
           /\ Cardinality(Owned(v, q)') <= Cardinality(Owned(v, q))
<1>1. /\ Owned(v, q) \in SUBSET Jobs /\ Owned(v, q)' \in SUBSET Jobs
      /\ Owned(v, q)' \in SUBSET Owned(v, q)
  BY DEF Owned, InFlight
<1> QED
  BY <1>1, CountJobs

\* The steps that give a worker no row, and at most shorten the list of queues
\* its call has to go to, keep its limits.
LEMMA LimitKept ==
    ASSUME TypeOK, limit' = limit, NEW v \in Workers, LimitOf(v),
           \A j \in Jobs : status'[j] = "CLAIMED" /\ owner'[j] = v
                              => status[j] = "CLAIMED" /\ owner[j] = v,
           \A q \in DOMAIN poll'[v].todo :
               q \in DOMAIN poll[v].todo /\ poll'[v].todo[q] = poll[v].todo[q],
           \/ poll'[v].pc \notin {"select", "update"} /\ poll'[v].picked = {}
           \/ /\ poll[v].pc \in {"select", "update"}
              /\ poll'[v].cur = poll[v].cur /\ poll'[v].room = poll[v].room
              /\ \A j \in poll'[v].picked : QueueOf[j] = poll[v].cur
           \/ poll'[v] = poll[v]
    PROVE  LimitOf(v)'
<1>1. \A q : /\ Cardinality(Owned(v, q)) \in Nat /\ Cardinality(Owned(v, q)') \in Nat
             /\ Cardinality(Owned(v, q)') <= Cardinality(Owned(v, q))
  BY OwnedShrinks
<1>2. \A q \in Queues : limit[q] \in Nat
  BY TablesTyped DEF TypeOK
<1>3. \A q \in Queues : Cardinality(Owned(v, q)') <= limit'[q]
  <2> SUFFICES ASSUME NEW q \in Queues
               PROVE  Cardinality(Owned(v, q)') <= limit[q]
    OBVIOUS
  <2>1. Cardinality(Owned(v, q)) <= limit[q]
    BY DEF LimitOf
  <2> QED
    BY <1>1, <1>2, <2>1
<1>4. \A q \in DOMAIN poll'[v].todo : poll'[v].todo[q] = limit'[q]
  BY DEF LimitOf
<1>5. ASSUME poll'[v].pc \in {"select", "update"}
      PROVE  /\ poll'[v].cur \in Queues
             /\ Cardinality(Owned(v, poll[v].cur)') + poll'[v].room <= limit'[poll'[v].cur]
  <2>1. /\ poll'[v].cur = poll[v].cur /\ poll'[v].room = poll[v].room
        /\ poll[v].pc \in {"select", "update"}
    BY <1>5
  <2>2. PICK q \in Queues :
            /\ q = poll[v].cur
            /\ Cardinality(Owned(v, q)) + poll[v].room <= limit[q]
    BY <2>1 DEF LimitOf
  <2> DEFINE n == Cardinality(Owned(v, q))
             m == Cardinality(Owned(v, q)')
  <2>3. poll[v].room \in Nat /\ limit[q] \in Nat
    BY <1>2, <2>2 DEF TypeOK, PollCall
  <2>4. n \in Nat /\ m \in Nat /\ m <= n
    BY <1>1
  <2>5. n + poll[v].room <= limit[q]
    BY <2>2
  <2> HIDE DEF n, m
  <2>6. m + poll[v].room <= limit[q]
    BY <2>3, <2>4, <2>5
  <2> QED
    BY <2>1, <2>2, <2>6 DEF m, Owned, InFlight
<1>6. \A j \in poll'[v].picked : QueueOf[j] = poll'[v].cur
  BY DEF LimitOf
<1> QED
  BY <1>3, <1>4, <1>5, <1>6 DEF LimitOf

\* The call that the head of the loop leaves, as far as the limits go.
LEMMA ContinueTodo ==
    ASSUME TypeOK, NEW w \in Workers, NEW p \in PollCall, p.picked = {}, Continue(w, p)
    PROVE  /\ \A v \in Workers \ {w} : poll'[v] = poll[v]
           /\ poll'[w].pc \notin {"select", "update"} /\ poll'[w].picked = {}
           /\ \A q \in DOMAIN poll'[w].todo :
                 q \in DOMAIN p.todo /\ poll'[w].todo[q] = p.todo[q]
<1>1. poll \in [Workers -> PollCall]
  BY DEF TypeOK
<1>2. CASE poll' = [poll EXCEPT ![w] = IdlePoll]
  <2>1. poll'[w] = IdlePoll /\ \A v \in Workers \ {w} : poll'[v] = poll[v]
    BY <1>1, <1>2
  <2>2. DOMAIN IdlePoll.todo = {}
    BY DEF IdlePoll, NoQueues
  <2> QED
    BY <2>1, <2>2, IdlePollType
<1>3. CASE poll' = [poll EXCEPT ![w] = [p EXCEPT !.pc = "count"]]
  <2>1. /\ poll'[w] = [p EXCEPT !.pc = "count"]
        /\ \A v \in Workers \ {w} : poll'[v] = poll[v]
    BY <1>1, <1>3
  <2>2. poll'[w].pc = "count" /\ poll'[w].picked = {} /\ poll'[w].todo = p.todo
    BY <2>1 DEF PollCall
  <2> QED
    BY <2>1, <2>2
<1> QED
  BY <1>2, <1>3 DEF Continue

\* The list of the queues a call has still to go to only gets shorter.
LEMMA LaterKeeps ==
    ASSUME TypeOK, NEW w \in Workers, NEW q
    PROVE  \A x \in DOMAIN Later(w, q) :
              x \in DOMAIN poll[w].todo /\ Later(w, q)[x] = poll[w].todo[x]
BY DEF Later, Restrict

LEMMA FetchQueuesLimit ==
    ASSUME PInv, NEW w \in Workers, FetchQueues(w), \A v \in Workers : LimitOf(v)
    PROVE  \A v \in Workers : LimitOf(v)'
<1> DEFINE Todo == [q \in OpenQueues |-> limit[q]]
           p2 == [IdlePoll EXCEPT !.pc = "count", !.slots = FreeSlots(w), !.todo = Todo]
<1>1. TypeOK /\ poll \in [Workers -> PollCall]
  BY DEF PInv, TypeOK
<1>2. /\ poll' = [poll EXCEPT ![w] = p2]
      /\ status' = status /\ owner' = owner /\ limit' = limit
  BY DEF FetchQueues, rowVars, queueVars
<1>3. p2.pc = "count" /\ p2.picked = {} /\ p2.todo = Todo
  BY DEF IdlePoll
<1> HIDE DEF p2
<1>4. poll'[w] = p2 /\ \A v \in Workers \ {w} : poll'[v] = poll[v]
  BY <1>1, <1>2
<1>5. LimitOf(w)'
  <2>1. \A q : Owned(w, q)' = Owned(w, q)
    BY <1>2 DEF Owned, InFlight
  <2>2. \A q \in Queues : Cardinality(Owned(w, q)') <= limit'[q]
    BY <1>2, <2>1 DEF LimitOf
  <2>3. \A q \in DOMAIN poll'[w].todo : poll'[w].todo[q] = limit'[q]
    BY <1>2, <1>3, <1>4
  <2> QED
    BY <1>3, <1>4, <2>2, <2>3 DEF LimitOf
<1>6. ASSUME NEW v \in Workers, v # w PROVE LimitOf(v)'
  BY <1>1, <1>2, <1>4, <1>6, LimitKept
<1> QED
  BY <1>5, <1>6

LEMMA SkipQueueLimit ==
    ASSUME PInv, NEW w \in Workers, SkipQueue(w), \A v \in Workers : LimitOf(v)
    PROVE  \A v \in Workers : LimitOf(v)'
<1>1. PICK q \in NextQueues(w) :
          /\ poll[w].pc = "count"
          /\ Continue(w, [poll[w] EXCEPT !.todo = Later(w, q)])
          /\ status' = status /\ owner' = owner /\ limit' = limit
  BY DEF SkipQueue, AfterFullQueue, rowVars, queueVars
<1> DEFINE rest == Later(w, q)
           p == [poll[w] EXCEPT !.todo = rest]
<1>2. TypeOK /\ poll[w] \in PollCall
  BY DEF PInv, TypeOK
<1>3. rest \in UNION {[Q -> Limits] : Q \in SUBSET Queues}
  BY <1>2, RestOfQueues
<1>4. \A x \in DOMAIN rest : x \in DOMAIN poll[w].todo /\ rest[x] = poll[w].todo[x]
  BY <1>2, LaterKeeps
<1>5. poll[w].picked = {}
  BY <1>1 DEF PInv, PickedQueued
<1>6. Continue(w, p)
  BY <1>1
<1> HIDE DEF rest
<1>7. p \in PollCall /\ p.picked = {} /\ p.todo = rest
  BY <1>2, <1>3, <1>5 DEF PollCall
<1> HIDE DEF p
<1>8. /\ \A v \in Workers \ {w} : poll'[v] = poll[v]
      /\ poll'[w].pc \notin {"select", "update"} /\ poll'[w].picked = {}
      /\ \A x \in DOMAIN poll'[w].todo : x \in DOMAIN rest /\ poll'[w].todo[x] = rest[x]
  BY <1>2, <1>6, <1>7, ContinueTodo
<1>9. LimitOf(w)'
  BY <1>1, <1>2, <1>4, <1>8, LimitKept
<1>10. ASSUME NEW v \in Workers, v # w PROVE LimitOf(v)'
  BY <1>1, <1>2, <1>8, <1>10, LimitKept
<1> QED
  BY <1>9, <1>10

\* The count is of the claimed rows of all workers, so what the limit leaves
\* fits in beside the rows of this one.
LEMMA EnterQueueLimit ==
    ASSUME PInv, NEW w \in Workers, EnterQueue(w), \A v \in Workers : LimitOf(v)
    PROVE  \A v \in Workers : LimitOf(v)'
<1>1. PICK q \in NextQueues(w) :
          /\ poll[w].pc = "count"
          /\ Allowed(w, q) > 0
          /\ poll' = [poll EXCEPT ![w] =
                 [@ EXCEPT !.pc = "select", !.cur = q,
                           !.todo = Later(w, q), !.room = Room(w, q)]]
          /\ status' = status /\ owner' = owner /\ limit' = limit
  BY DEF EnterQueue, rowVars, queueVars
<1> DEFINE rest == Later(w, q)
           p2 == [poll[w] EXCEPT !.pc = "select", !.cur = q,
                                 !.todo = rest, !.room = Room(w, q)]
<1>2. TypeOK /\ poll[w] \in PollCall /\ poll \in [Workers -> PollCall]
  BY DEF PInv, TypeOK
<1>3. q \in DOMAIN poll[w].todo /\ q \in Queues
  BY <1>2, CountsTyped DEF NextQueues
<1>4. \A x \in DOMAIN rest : x \in DOMAIN poll[w].todo /\ rest[x] = poll[w].todo[x]
  BY <1>2, LaterKeeps
<1>5. poll' = [poll EXCEPT ![w] = p2]
  BY <1>1
<1> HIDE DEF rest
<1>6. p2.pc = "select" /\ p2.cur = q /\ p2.todo = rest /\ p2.room = Room(w, q)
      /\ p2.picked = poll[w].picked
  BY <1>2 DEF PollCall
<1> HIDE DEF p2
<1>7. poll'[w] = p2 /\ \A v \in Workers \ {w} : poll'[v] = poll[v]
  BY <1>2, <1>5
<1>8. poll[w].picked = {}
  BY <1>1 DEF PInv, PickedQueued
<1>9. \A x : Owned(w, x)' = Owned(w, x)
  BY <1>1 DEF Owned, InFlight
<1>10. Cardinality(Owned(w, q)) + Room(w, q) <= limit[q]
  <2> DEFINE o == Cardinality(Owned(w, q))
             n == Cardinality(InFlight(q))
  <2>1. /\ InFlight(q) \in SUBSET Jobs /\ Owned(w, q) \in SUBSET InFlight(q)
        /\ Owned(w, q) \in SUBSET Jobs
    BY DEF InFlight, Owned
  <2>2. o \in Nat /\ n \in Nat /\ o <= n
    BY <2>1, CountJobs
  <2>3. poll[w].todo[q] = limit[q] /\ limit[q] \in Nat
    BY <1>2, <1>3, TablesTyped DEF LimitOf, TypeOK
  <2>4. Allowed(w, q) = IF limit[q] > n THEN limit[q] - n ELSE 0
    BY <2>3 DEF Allowed
  <2>5. poll[w].slots \in Nat
    BY <1>2 DEF PollCall
  <2> HIDE DEF o, n
  <2>6. Allowed(w, q) = limit[q] - n /\ Allowed(w, q) \in Nat
    BY <1>1, <2>2, <2>3, <2>4
  <2>7. Room(w, q) <= Allowed(w, q) /\ Room(w, q) \in Nat
    BY <2>5, <2>6 DEF Room
  <2>8. o + Room(w, q) <= limit[q]
    BY <2>2, <2>3, <2>6, <2>7
  <2> QED
    BY <2>8 DEF o
<1>11. LimitOf(w)'
  <2>1. \A x \in Queues : Cardinality(Owned(w, x)') <= limit'[x]
    BY <1>1, <1>9 DEF LimitOf
  <2>2. \A x \in DOMAIN poll'[w].todo : poll'[w].todo[x] = limit'[x]
    BY <1>1, <1>4, <1>6, <1>7 DEF LimitOf
  <2>3. /\ poll'[w].cur \in Queues
        /\ Cardinality(Owned(w, poll[w].cur)') + poll'[w].room <= limit'[poll'[w].cur]
    BY <1>1, <1>3, <1>6, <1>7, <1>10 DEF Owned, InFlight
  <2> QED
    BY <1>6, <1>7, <1>8, <2>1, <2>2, <2>3 DEF LimitOf
<1>12. ASSUME NEW v \in Workers, v # w PROVE LimitOf(v)'
  BY <1>1, <1>2, <1>7, <1>12, LimitKept
<1> QED
  BY <1>11, <1>12

LEMMA SelectRowsLimit ==
    ASSUME PInv, NEW w \in Workers, SelectRows(w), \A v \in Workers : LimitOf(v)
    PROVE  \A v \in Workers : LimitOf(v)'
<1> DEFINE rows == Selectable(poll[w].cur)
<1>1. /\ poll[w].pc = "select"
      /\ status' = status /\ owner' = owner /\ limit' = limit
  BY DEF SelectRows, queueVars
<1>2. TypeOK /\ poll[w] \in PollCall /\ poll \in [Workers -> PollCall] /\ poll[w].room \in Nat
  BY DEF PInv, TypeOK, PollCall
<1>3. CASE Continue(w, [poll[w] EXCEPT !.cur = NULL, !.room = 0])
  <2> DEFINE p == [poll[w] EXCEPT !.cur = NULL, !.room = 0]
  <2>1. poll[w].picked = {}
    BY <1>1 DEF PInv, PickedQueued
  <2>2. p \in PollCall /\ p.picked = {} /\ p.todo = poll[w].todo
    BY <1>2, <2>1 DEF PollCall
  <2> HIDE DEF p
  <2>3. /\ \A v \in Workers \ {w} : poll'[v] = poll[v]
        /\ poll'[w].pc \notin {"select", "update"} /\ poll'[w].picked = {}
        /\ \A x \in DOMAIN poll'[w].todo :
              x \in DOMAIN poll[w].todo /\ poll'[w].todo[x] = poll[w].todo[x]
    <3>1. Continue(w, p)
      BY <1>3 DEF p
    <3> QED
      BY <1>2, <2>2, <3>1, ContinueTodo
  <2>4. LimitOf(w)'
    BY <1>1, <1>2, <2>3, LimitKept
  <2>5. ASSUME NEW v \in Workers, v # w PROVE LimitOf(v)'
    BY <1>1, <1>2, <2>3, <2>5, LimitKept
  <2> QED
    BY <2>4, <2>5
<1>4. ASSUME NEW S \in FirstRows(rows, poll[w].room),
             poll' = [poll EXCEPT ![w] = [@ EXCEPT !.pc = "update", !.picked = S]]
      PROVE  \A v \in Workers : LimitOf(v)'
  <2> DEFINE p2 == [poll[w] EXCEPT !.pc = "update", !.picked = S]
  <2>1. rows \in SUBSET Jobs
    BY DEF Selectable
  <2>2. \A j \in S : QueueOf[j] = poll[w].cur
    BY <1>2, <1>4, <2>1, FirstRowsFew DEF Selectable
  <2>3. poll' = [poll EXCEPT ![w] = p2]
    BY <1>4
  <2>4. /\ p2.picked = S /\ p2.todo = poll[w].todo /\ p2.cur = poll[w].cur
        /\ p2.room = poll[w].room
    BY <1>2 DEF PollCall
  <2> HIDE DEF p2
  <2>5. poll'[w] = p2 /\ \A v \in Workers \ {w} : poll'[v] = poll[v]
    BY <1>2, <2>3
  <2>6. LimitOf(w)'
    BY <1>1, <1>2, <2>2, <2>4, <2>5, LimitKept
  <2>7. ASSUME NEW v \in Workers, v # w PROVE LimitOf(v)'
    BY <1>1, <1>2, <2>5, <2>7, LimitKept
  <2> QED
    BY <2>6, <2>7
<1> QED
  BY <1>3, <1>4 DEF SelectRows

\* The picked rows are no more than the room, and of the queue the call is at;
\* from another worker the UPDATE can only take a row away.
LEMMA UpdateRowsLimit ==
    ASSUME PInv, NEW w \in Workers, UpdateRows(w), \A v \in Workers : LimitOf(v)
    PROVE  \A v \in Workers : LimitOf(v)'
<1> DEFINE c == poll[w]
           p == [IdlePoll EXCEPT !.todo = c.todo, !.slots = SlotsLeft(c),
                                 !.got = c.got \cup c.picked]
<1>1. /\ c.pc = "update"
      /\ status' = [j \in Jobs |-> IF j \in c.picked THEN "CLAIMED" ELSE status[j]]
      /\ owner' = [j \in Jobs |-> IF j \in c.picked THEN w ELSE owner[j]]
      /\ Continue(w, p)
      /\ limit' = limit
  BY DEF UpdateRows, queueVars
<1>2. /\ TypeOK /\ c \in PollCall
      /\ c.got \in SUBSET Jobs /\ c.picked \in SUBSET Jobs
      /\ c.slots \in Nat /\ c.room \in Nat
  BY DEF PInv, TypeOK, PollCall
<1>3. /\ Cardinality(c.picked) \in Nat
      /\ Cardinality(c.picked) <= c.room /\ c.room <= c.slots
  BY <1>2, CountJobs DEF PInv, SlotsCounted
<1>4. SlotsLeft(c) \in Nat
  BY <1>2, <1>3 DEF SlotsLeft
<1>5. p \in PollCall /\ p.picked = {} /\ p.todo = c.todo
  BY <1>2, <1>4, IdlePollType DEF PollCall, IdlePoll
<1> HIDE DEF p, c
<1>6. /\ \A v \in Workers \ {w} : poll'[v] = poll[v]
      /\ poll'[w].pc \notin {"select", "update"} /\ poll'[w].picked = {}
      /\ \A x \in DOMAIN poll'[w].todo : x \in DOMAIN c.todo /\ poll'[w].todo[x] = c.todo[x]
  BY <1>1, <1>2, <1>5, ContinueTodo
<1>7. /\ c.cur \in Queues
      /\ Cardinality(Owned(w, c.cur)) + c.room <= limit[c.cur]
      /\ \A j \in c.picked : QueueOf[j] = c.cur
      /\ \A x \in DOMAIN c.todo : c.todo[x] = limit[x]
  BY <1>1 DEF LimitOf, c
<1>8. ASSUME NEW q \in Queues
      PROVE  Cardinality(Owned(w, q)') <= limit[q]
  <2>1. CASE q = c.cur
    <3> DEFINE o == Cardinality(Owned(w, q))
               m == Cardinality(Owned(w, q)')
               k == Cardinality(c.picked)
    <3>1. /\ Owned(w, q) \in SUBSET Jobs /\ Owned(w, q)' \in SUBSET Jobs
          /\ Owned(w, q) \cup c.picked \in SUBSET Jobs
          /\ Owned(w, q)' \in SUBSET (Owned(w, q) \cup c.picked)
      BY <1>1, <1>2 DEF Owned, InFlight
    <3>2. /\ o \in Nat /\ m \in Nat
          /\ Cardinality(Owned(w, q) \cup c.picked) \in Nat
      BY <3>1, CountJobs
    <3>3. Cardinality(Owned(w, q) \cup c.picked) <= o + k
      BY <1>2, <3>1, CountJobs
    <3>4. m <= Cardinality(Owned(w, q) \cup c.picked)
      BY <3>1, CountJobs
    <3>5. limit[q] \in Nat /\ o + c.room <= limit[q]
      BY <1>2, <1>7, <2>1, TablesTyped DEF TypeOK
    <3>6. k \in Nat /\ k <= c.room
      BY <1>3
    <3> HIDE DEF o, m, k
    <3>7. m <= limit[q]
      BY <1>2, <3>2, <3>3, <3>4, <3>5, <3>6
    <3> QED
      BY <3>7 DEF m
  <2>2. CASE q # c.cur
    <3>1. Owned(w, q)' = Owned(w, q)
      BY <1>1, <1>2, <1>7, <2>2 DEF Owned, InFlight
    <3> QED
      BY <3>1 DEF LimitOf
  <2> QED
    BY <2>1, <2>2
<1>9. LimitOf(w)'
  BY <1>1, <1>6, <1>7, <1>8 DEF LimitOf
<1>10. ASSUME NEW v \in Workers, v # w PROVE LimitOf(v)'
  <2>1. \A j \in Jobs : status'[j] = "CLAIMED" /\ owner'[j] = v
                           => status[j] = "CLAIMED" /\ owner[j] = v
    BY <1>1, <1>10
  <2>2. poll'[v] = poll[v]
    BY <1>6, <1>10
  <2> QED
    BY <1>1, <1>2, <2>1, <2>2, LimitKept
<1> QED
  BY <1>9, <1>10

\* The invariant of the limits is inductive, relative to PInv. Once a limit or
\* a pause has changed there is nothing left to show.
LEMMA NextLimitInv == PInv /\ LimitInv /\ [Next]_vars => LimitInv'
<1> SUFFICES ASSUME PInv, LimitInv, [Next]_vars, changes' = 0
             PROVE  \A w \in Workers : LimitOf(w)'
  BY LimitOfAll DEF LimitInv, WorkerWithinLimit, RoomWithinLimit, LimitOf
<1>0. TypeOK /\ changes \in Nat /\ poll \in [Workers -> PollCall]
  BY DEF PInv, TypeOK
<1>1. CASE changes # 0
  <2>1. changes' = changes \/ changes' = changes + 1
    BY DEF Next, ClaimJobs, FetchQueues, SkipQueue, EnterQueue, SelectRows, UpdateRows,
           PollFails, Finish, Return, SetPaused, SetLimit, Change, vars, counters
  <2> QED
    BY <1>0, <1>1, <2>1
<1>2. CASE changes = 0
  <2> USE <1>2
  <2>0. \A w \in Workers : LimitOf(w)
    BY LimitOfAll
  <2>1. ASSUME NEW w \in Workers, ClaimJobs(w)
        PROVE  \A v \in Workers : LimitOf(v)'
    BY <2>0, <2>1, FetchQueuesLimit, SkipQueueLimit, EnterQueueLimit, SelectRowsLimit,
       UpdateRowsLimit DEF ClaimJobs
  <2>2. ASSUME NEW w \in Workers, PollFails(w), NEW v \in Workers
        PROVE  LimitOf(v)'
    <3>1. /\ poll' = [poll EXCEPT ![w] = IdlePoll]
          /\ status' = status /\ owner' = owner /\ limit' = limit
      BY <2>2 DEF PollFails, queueVars
    <3>2. CASE v = w
      <4>1. poll'[v] = IdlePoll
        BY <1>0, <3>1, <3>2
      <4>2. DOMAIN IdlePoll.todo = {}
        BY DEF IdlePoll, NoQueues
      <4> QED
        BY <1>0, <2>0, <3>1, <4>1, <4>2, IdlePollType, LimitKept
    <3>3. CASE v # w
      <4>1. poll'[v] = poll[v]
        BY <1>0, <3>1, <3>3
      <4> QED
        BY <1>0, <2>0, <3>1, <4>1, LimitKept
    <3> QED
      BY <3>2, <3>3
  <2>3. ASSUME NEW w \in Workers, NEW j \in Jobs, Finish(w, j) \/ Return(w, j),
               NEW v \in Workers
        PROVE  LimitOf(v)'
    <3>1. /\ poll' = poll /\ limit' = limit
          /\ \/ status' = [status EXCEPT ![j] = "ENDED"] /\ owner' = owner
             \/ /\ status' = [status EXCEPT ![j] = "QUEUED"]
                /\ owner' = [owner EXCEPT ![j] = NULL]
      BY <2>3 DEF Finish, Return, EndJob, queueVars
    <3>2. \A k \in Jobs : status'[k] = "CLAIMED" /\ owner'[k] = v
                             => status[k] = "CLAIMED" /\ owner[k] = v
      BY <1>0, <3>1, TablesTyped DEF TypeOK
    <3> QED
      BY <1>0, <2>0, <3>1, <3>2, LimitKept
  <2>4. ASSUME NEW q \in Queues, SetPaused(q) \/ SetLimit(q)
        PROVE  FALSE
    BY <1>2, <2>4 DEF SetPaused, SetLimit, Change
  <2>5. ASSUME UNCHANGED vars, NEW v \in Workers
        PROVE  LimitOf(v)'
    <3>1. poll' = poll /\ limit' = limit /\ status' = status /\ owner' = owner
      BY <2>5 DEF vars, rowVars, queueVars
    <3> QED
      BY <1>0, <2>0, <3>1, LimitKept
  <2> QED
    BY <2>1, <2>2, <2>3, <2>4, <2>5 DEF Next
<1> QED
  BY <1>1, <1>2

\* No worker alone takes more jobs of a queue than the limit of the queue, as
\* long as no queue is paused, resumed or updated: the jobs that it counted
\* before its transaction are all that its own claims come on top of.
THEOREM OwnClaimsWithinLimit == Spec => []WorkerWithinLimit
<1>1. Init => LimitInv
  <2> SUFFICES ASSUME Init, NEW w \in Workers PROVE LimitOf(w)
    BY LimitOfAll
  <2>1. poll[w] = IdlePoll /\ DOMAIN IdlePoll.todo = {}
    BY DEF Init, IdlePoll, NoQueues
  <2>2. \A q : Owned(w, q) = {}
    BY DEF Init, Owned, InFlight
  <2>3. \A q \in Queues : limit[q] \in Nat
    BY TablesTyped DEF Init
  <2>4. \A q \in Queues : Cardinality(Owned(w, q)) <= limit[q]
    BY <2>2, <2>3, CountJobs
  <2> QED
    BY <2>1, <2>4, IdlePollType DEF LimitOf
<1>2. PInv /\ LimitInv /\ [Next]_vars => LimitInv'
  BY NextLimitInv
<1>3. LimitInv => WorkerWithinLimit
  BY DEF LimitInv
<1> QED
  BY <1>1, <1>2, <1>3, PollerInvariance, PTL DEF Spec

=============================================================================
