------------------------------- MODULE Poller -------------------------------
(***************************************************************************)
(* Poller.claimJobs: a worker goes through the unpaused queues in the      *)
(* order of their priority and claims, in a transaction for every queue,   *)
(* the first queued jobs that its slots and the limit of the queue allow.  *)
(*                                                                         *)
(* Every database statement is an action, so that several workers poll at  *)
(* the same time, while queues are paused and their limits change. The row *)
(* locks of SELECT ... FOR UPDATE SKIP LOCKED are explicit. JobEngine      *)
(* takes the claim for one atomic step; ClaimsDisjoint is why it may.      *)
(*                                                                         *)
(* The definitions named ...Bug are faulty variants of the definition that *)
(* follows them: mutations of the code that the properties must refute.    *)
(***************************************************************************)
EXTENDS Naturals, FiniteSets, Functions

CONSTANTS
    Jobs,         \* the jobs, all due
    Queues,       \* the queues
    Workers,      \* the worker processes
    QueueOf,      \* the queue of a job
    Turn,         \* place of a job in ORDER BY priority DESC, "runAt" ASC
    Priority,     \* the priority of a queue
    Retried,      \* the jobs that may fail and be retried, again and again
    Limits,       \* the values concurrencyLimit may be given
    Concurrency,  \* CONCURRENCY of a worker
    NULL,         \* no worker, no queue
    MaxChanges,   \* bound: how often a queue is paused, resumed or updated
    MaxDbErrors   \* bound: how often a statement of a poll fails

ASSUME JobsFinite == IsFiniteSet(Jobs)

ASSUME TablesTyped ==
    /\ QueueOf \in [Jobs -> Queues]
    /\ Turn \in [Jobs -> Nat]
    /\ Priority \in [Queues -> Nat]
    /\ Limits \subseteq Nat \ {0}
    /\ Retried \subseteq Jobs
    /\ NULL \notin Workers \cup Queues

ASSUME PollBounds ==
    /\ Concurrency \in Nat
    /\ MaxChanges \in Nat /\ MaxDbErrors \in Nat

VARIABLES
    status,    \* jobs.status; CLAIMED stands for RUNNING too
    owner,     \* jobs.claimedByWorkerId
    lock,      \* the worker whose transaction holds the lock of a row
    paused,    \* queues.isPaused
    limit,     \* queues.concurrencyLimit
    active,    \* activeJobs of a worker process
    poll,      \* the call of claimJobs a worker has under way
    changes, dbErrors

rowVars == <<status, owner, lock>>
queueVars == <<paused, limit>>
counters == <<changes, dbErrors>>
vars == <<rowVars, queueVars, active, poll, counters>>

\* Where claimJobs is, the queues it has not come to with the limits it read,
\* the slots it has left, and what it has claimed; then, for the queue it is
\* at, how many rows it may take and which it has locked.
PollCall ==
    [pc : {"idle", "count", "select", "update"},
     todo : UNION {[Q -> Limits] : Q \in SUBSET Queues}, slots : Nat, got : SUBSET Jobs,
     cur : Queues \cup {NULL}, room : Nat, picked : SUBSET Jobs]

NoQueues == [q \in {} |-> 0]

IdlePoll ==
    [pc |-> "idle", todo |-> NoQueues, slots |-> 0, got |-> {},
     cur |-> NULL, room |-> 0, picked |-> {}]

Init ==
    /\ status = [j \in Jobs |-> "QUEUED"]
    /\ owner = [j \in Jobs |-> NULL]
    /\ lock = [j \in Jobs |-> NULL]
    /\ paused = [q \in Queues |-> FALSE]
    /\ limit \in [Queues -> Limits]
    /\ active = [w \in Workers |-> {}]
    /\ poll = [w \in Workers |-> IdlePoll]
    /\ changes = 0 /\ dbErrors = 0

InFlight(q) == {j \in Jobs : QueueOf[j] = q /\ status[j] = "CLAIMED"}
FreeSlots(w) == Concurrency - Cardinality(active[w])

\* The head of the loop over the queues, reached with the call in state p:
\* when no queue or no slot is left, claimJobs returns and pollAndDispatch
\* adds what was claimed to activeJobs.
ContinueBug(w, p) ==
    IF DOMAIN p.todo = {} \/ p.slots = 0
    THEN /\ poll' = [poll EXCEPT ![w] = IdlePoll]
         /\ active' = [active EXCEPT ![w] = @ \cup p.picked]
    ELSE /\ poll' = [poll EXCEPT ![w] = [p EXCEPT !.pc = "count"]]
         /\ UNCHANGED active
Continue(w, p) ==
    IF DOMAIN p.todo = {} \/ p.slots = 0
    THEN /\ poll' = [poll EXCEPT ![w] = IdlePoll]
         /\ active' = [active EXCEPT ![w] = @ \cup p.got]
    ELSE /\ poll' = [poll EXCEPT ![w] = [p EXCEPT !.pc = "count"]]
         /\ UNCHANGED active

OpenQueuesBug == Queues
OpenQueues == {q \in Queues : ~paused[q]}

FetchQueues(w) ==
    /\ poll[w].pc = "idle"
    /\ FreeSlots(w) > 0
    /\ OpenQueues # {}
    /\ poll' = [poll EXCEPT ![w] =
           [IdlePoll EXCEPT !.pc = "count", !.slots = FreeSlots(w),
                            !.todo = [q \in OpenQueues |-> limit[q]]]]
    /\ UNCHANGED <<rowVars, queueVars, active, counters>>

NextQueues(w) ==
    LET todo == DOMAIN poll[w].todo
    IN  {q \in todo : \A p \in todo : Priority[p] <= Priority[q]}

\* Math.max(0, concurrencyLimit - activeRunningInQueue)
AllowedBug(w, q) == poll[w].todo[q]
Allowed(w, q) ==
    LET n == Cardinality(InFlight(q))
    IN  IF poll[w].todo[q] > n THEN poll[w].todo[q] - n ELSE 0

\* The queues the call comes to after q.
Later(w, q) == Restrict(poll[w].todo, DOMAIN poll[w].todo \ {q})

AfterFullQueueBug(w, q) == NoQueues
AfterFullQueue(w, q) == Later(w, q)

\* The active jobs of the next queue are counted, and the queue is full.
SkipQueue(w) ==
    /\ poll[w].pc = "count"
    /\ \E q \in NextQueues(w) :
          /\ Allowed(w, q) = 0
          /\ Continue(w, [poll[w] EXCEPT !.todo = AfterFullQueue(w, q)])
    /\ UNCHANGED <<rowVars, queueVars, counters>>

\* Math.min(remainingSlots, allowedForQueue)
Room(w, q) ==
    IF poll[w].slots < Allowed(w, q) THEN poll[w].slots ELSE Allowed(w, q)

\* The active jobs of the next queue are counted, and it has room.
EnterQueue(w) ==
    /\ poll[w].pc = "count"
    /\ \E q \in NextQueues(w) :
          /\ Allowed(w, q) > 0
          /\ poll' = [poll EXCEPT ![w] =
                 [@ EXCEPT !.pc = "select", !.cur = q,
                           !.todo = Later(w, q),
                           !.room = Room(w, q)]]
    /\ UNCHANGED <<rowVars, queueVars, active, counters>>

\* The rows the SELECT can return: SKIP LOCKED leaves out the locked ones.
SelectableBug(q) == {j \in Jobs : QueueOf[j] = q /\ status[j] = "QUEUED"}
Selectable(q) == {j \in Jobs : QueueOf[j] = q /\ status[j] = "QUEUED" /\ lock[j] = NULL}

\* The first n of the rows in a set, or all of them.
FirstRows(rows, n) ==
    {S \in SUBSET rows :
        /\ Cardinality(S) = IF n < Cardinality(rows) THEN n ELSE Cardinality(rows)
        /\ \A j \in S, k \in rows \ S : Turn[j] <= Turn[k]}

SelectRows(w) ==
    /\ poll[w].pc = "select"
    /\ LET rows == Selectable(poll[w].cur)
       IN  \/ /\ rows = {}
              /\ Continue(w, [poll[w] EXCEPT !.cur = NULL, !.room = 0])
              /\ UNCHANGED lock
           \/ /\ rows # {}
              /\ \E S \in FirstRows(rows, poll[w].room) :
                    /\ lock' = [j \in Jobs |-> IF j \in S THEN w ELSE lock[j]]
                    /\ poll' = [poll EXCEPT ![w] = [@ EXCEPT !.pc = "update", !.picked = S]]
              /\ UNCHANGED active
    /\ UNCHANGED <<status, owner, queueVars, counters>>

\* The end of a transaction of w releases its locks.
ReleaseLocks(w) == lock' = [j \in Jobs |-> IF lock[j] = w THEN NULL ELSE lock[j]]

SlotsLeftBug(p) == p.slots
SlotsLeft(p) == p.slots - Cardinality(p.picked)

\* The rows are updated and the transaction commits.
UpdateRows(w) ==
    LET p == poll[w]
    IN  /\ p.pc = "update"
        /\ status' = [j \in Jobs |-> IF j \in p.picked THEN "CLAIMED" ELSE status[j]]
        /\ owner' = [j \in Jobs |-> IF j \in p.picked THEN w ELSE owner[j]]
        /\ ReleaseLocks(w)
        /\ Continue(w, [IdlePoll EXCEPT !.todo = p.todo, !.slots = SlotsLeft(p),
                                        !.got = p.got \cup p.picked])
        /\ UNCHANGED <<queueVars, counters>>

\* A statement fails: the transaction rolls back and claimJobs throws. What
\* it claimed from earlier queues stays claimed and is not dispatched.
PollFails(w) ==
    /\ poll[w].pc # "idle"
    /\ dbErrors < MaxDbErrors
    /\ dbErrors' = dbErrors + 1
    /\ ReleaseLocks(w)
    /\ poll' = [poll EXCEPT ![w] = IdlePoll]
    /\ UNCHANGED <<status, owner, queueVars, active, changes>>

(***************************************************************************)
(* The executor, as far as it concerns the poller: a job that was          *)
(* dispatched ends, or goes back to its queue to be retried.               *)
(***************************************************************************)
EndJob(w, j, outcome) ==
    /\ j \in active[w]
    /\ active' = [active EXCEPT ![w] = @ \ {j}]
    /\ status' = [status EXCEPT ![j] = outcome]

Finish(w, j) ==
    /\ EndJob(w, j, "ENDED")
    /\ UNCHANGED <<owner, lock, queueVars, poll, counters>>

Return(w, j) ==
    /\ j \in Retried
    /\ EndJob(w, j, "QUEUED")
    /\ owner' = [owner EXCEPT ![j] = NULL]
    /\ UNCHANGED <<lock, queueVars, poll, counters>>

(***************************************************************************)
(* QueueService: setQueuePaused, and updateQueue for the limit.            *)
(***************************************************************************)
Change ==
    /\ changes < MaxChanges
    /\ changes' = changes + 1
    /\ UNCHANGED <<rowVars, active, poll, dbErrors>>

SetPaused(q) ==
    /\ Change
    /\ \E b \in BOOLEAN : paused' = [paused EXCEPT ![q] = b]
    /\ UNCHANGED limit

SetLimit(q) ==
    /\ Change
    /\ \E n \in Limits : limit' = [limit EXCEPT ![q] = n]
    /\ UNCHANGED paused

-----------------------------------------------------------------------------
ClaimJobs(w) ==
    \/ FetchQueues(w) \/ SkipQueue(w) \/ EnterQueue(w) \/ SelectRows(w) \/ UpdateRows(w)

Next ==
    \/ \E w \in Workers :
          \/ ClaimJobs(w) \/ PollFails(w)
          \/ \E j \in Jobs : Finish(w, j) \/ Return(w, j)
    \/ \E q \in Queues : SetPaused(q) \/ SetLimit(q)

Spec == Init /\ [][Next]_vars

\* A worker polls again and again, its statements return, and every execution
\* ends, at its timeout if not before. Nobody need pause or resume a queue.
Fairness ==
    \A w \in Workers :
        /\ WF_vars(ClaimJobs(w))
        /\ \A j \in Jobs : WF_vars(Finish(w, j) \/ Return(w, j))

FairSpec == Spec /\ Fairness

-----------------------------------------------------------------------------
\* The type invariant: rows and local variables hold values of their types.
TypeOK ==
    /\ status \in [Jobs -> {"QUEUED", "CLAIMED", "ENDED"}]
    /\ owner \in [Jobs -> Workers \cup {NULL}]
    /\ lock \in [Jobs -> Workers \cup {NULL}]
    /\ paused \in [Queues -> BOOLEAN]
    /\ limit \in [Queues -> Limits]
    /\ active \in [Workers -> SUBSET Jobs]
    /\ poll \in [Workers -> PollCall]
    /\ changes \in Nat /\ dbErrors \in Nat

\* The jobs a worker is executing, is about to dispatch or is claiming.
Hand(w) == active[w] \cup poll[w].got \cup poll[w].picked

\* No job is in the hands of two workers: between the SELECT that picks a job
\* and the UPDATE that claims it another worker may poll the same queue, and a
\* worker holds what it claimed from one queue while it polls the next.
ClaimsDisjoint ==
    \A v, w \in Workers : v # w => Hand(v) \cap Hand(w) = {}

\* Every claimed job is in the hands of the worker that its row names, so that
\* it will be executed: nothing claimed from an early queue is dropped, unless
\* a statement fails, when the claims made before it are lost.
ClaimedIsHeld ==
    dbErrors = 0 => \A j \in Jobs : status[j] = "CLAIMED" =>
        \E w \in Workers : owner[j] = w /\ j \in active[w] \cup poll[w].got

\* A worker never takes more jobs than it has slots, summed over the queues
\* of a poll and the jobs that end while it polls.
WithinSlots ==
    \A w \in Workers : Cardinality(Hand(w)) <= Concurrency

\* The rows of a queue that a worker has claimed.
Owned(w, q) == {j \in InFlight(q) : owner[j] = w}

\* A worker by itself respects the limit of a queue, though it counts the
\* active jobs before the transaction: only other workers can claim between.
WorkerWithinLimit ==
    changes = 0 => \A w \in Workers, q \in Queues :
        Cardinality(Owned(w, q)) <= limit[q]

\* Claimed jobs of a queue that no worker holds: a failing poll dropped them.
Dropped(q) == {j \in InFlight(q) : \A w \in Workers : j \notin Hand(w)}

\* A queue that is paused for good runs empty, but for claims that a failing
\* poll dropped: polls that had read it as open may still claim from it, once.
PausedRunsEmpty ==
    \A q \in Queues : <>[]paused[q] => <>[](InFlight(q) = Dropped(q))

\* A job that waits is claimed, unless its queue is paused, or filled for good
\* by claims that failing polls dropped. Queues of a higher priority, full or
\* not, and rows that another worker has locked do not keep it waiting forever.
EventuallyClaimed ==
    \A j \in Jobs :
        LET q == QueueOf[j]
        IN  status[j] = "QUEUED" ~>
                \/ status[j] # "QUEUED"
                \/ paused[q]
                \/ limit[q] <= Cardinality(Dropped(q))

(***************************************************************************)
(* What the proofs add: the facts that make the invariants inductive.      *)
(***************************************************************************)

\* The row locks of a worker are on the rows it has picked and is to update.
LocksMatch ==
    \A w \in Workers : \A j \in Jobs : lock[j] = w <=> j \in poll[w].picked

\* The picked rows are still QUEUED when the UPDATE comes.
PickedQueued ==
    \A w \in Workers :
        /\ poll[w].picked # {} => poll[w].pc = "update"
        /\ \A j \in poll[w].picked : status[j] = "QUEUED"

\* What a worker executes or is to dispatch is claimed, in its name, once.
HeldOwned ==
    \A w \in Workers :
        /\ \A j \in active[w] \cup poll[w].got : status[j] = "CLAIMED" /\ owner[j] = w
        /\ active[w] \cap poll[w].got = {}

\* remainingSlots leaves room for all the jobs a worker has.
SlotsCounted ==
    \A w \in Workers :
        /\ Cardinality(active[w]) + Cardinality(poll[w].got) + poll[w].slots <= Concurrency
        /\ Cardinality(poll[w].picked) <= poll[w].room
        /\ poll[w].room <= poll[w].slots

\* A call that is not under way holds nothing, and one that has not come to a
\* queue has no rows to take.
CallsFresh ==
    \A w \in Workers :
        /\ poll[w].pc = "idle" => poll[w].got = {}
        /\ poll[w].pc \in {"idle", "count"} => poll[w].room = 0

\* The inductive invariant: all of these together with the type invariant.
PInv ==
    /\ TypeOK /\ LocksMatch /\ PickedQueued /\ HeldOwned
    /\ SlotsCounted /\ CallsFresh /\ ClaimedIsHeld

\* What WorkerWithinLimit rests on: as long as no limit changes, a call works
\* with the limits in force, and the rows it may take from the queue it is at
\* still fit in beside those the worker owns there.
RoomWithinLimit ==
    changes = 0 => \A w \in Workers :
        /\ \A q \in DOMAIN poll[w].todo : poll[w].todo[q] = limit[q]
        /\ poll[w].pc \in {"select", "update"} =>
               /\ poll[w].cur \in Queues
               /\ Cardinality(Owned(w, poll[w].cur)) + poll[w].room <= limit[poll[w].cur]
        /\ \A j \in poll[w].picked : QueueOf[j] = poll[w].cur

\* The inductive invariant for the limits, relative to PInv.
LimitInv == WorkerWithinLimit /\ RoomWithinLimit
=============================================================================
