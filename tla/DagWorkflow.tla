---------------------------- MODULE DagWorkflow ----------------------------
(***************************************************************************)
(* Jobs that depend on other jobs: their creation, the executor's          *)
(* resolveChildDependencies, which several workers may be running for      *)
(* several parents of one child, and what interferes with it: requests     *)
(* that cancel and retry a job or delete a queue, and the reaper. One      *)
(* action is one statement, or a transaction, with the local computation   *)
(* that follows it.                                                        *)
(*                                                                         *)
(* Who claims a job, how often it is retried and which worker is taken for *)
(* dead is JobEngine's subject: here any invocation may claim a queued     *)
(* job, a failure is retried or dead-lettered, and a reaper pass may take  *)
(* any job in flight for an orphan, whether its executor is alive or not.  *)
(***************************************************************************)
EXTENDS Naturals

CONSTANTS
    Jobs,       \* rows that may appear in jobs
    Runs,       \* concurrent invocations of Executor.execute
    Passes,     \* concurrent passes of the reaper
    Requests,   \* API requests that may be made
    MaxEvents,  \* bound: crashes, failing queries, deleted queues, false alarms
    NULL

ASSUME NullIsNoJob == NULL \notin Jobs
ASSUME EventsBounded == MaxEvents \in Nat

VARIABLES
    status,     \* jobs.status, "NONE" before the row exists, "DELETED" after
    deps,       \* the parents a job was created to depend on
    run,        \* the invocations of Executor.execute
    reaping,    \* the jobs each reaper pass found in flight
    request,    \* the API requests
    started,    \* history: the jobs with a row in job_executions
    completed,  \* history: the jobs that were ever COMPLETED
    exempt,     \* history: the jobs a retry request released
    late,       \* history: children created when all parents had completed
    lost,       \* history: the parents whose resolution broke off
    stranded,   \* history: the jobs that a deletion left no parent to wait for
    usurped,    \* history: the jobs a reaper queued that were no orphans
    events      \* how many crashes, failing queries, deleted queues, false alarms

history == <<started, completed, exempt, late, lost, stranded, usurped>>
vars == <<status, deps, run, reaping, request, history, events>>

JobStatus == {"SCHEDULED", "QUEUED", "CLAIMED", "RUNNING", "COMPLETED",
              "DEAD_LETTERED", "CANCELLED"}
InFlight == {"CLAIMED", "RUNNING"}
Resolving == {"children", "parents", "unlock"}
IdleRun == [pc |-> "idle", job |-> NULL, children |-> {}]
NewRequest == [pc |-> "new", op |-> NULL, job |-> NULL]

Init ==
    /\ status = [j \in Jobs |-> "NONE"]
    /\ deps = [j \in Jobs |-> {}]
    /\ run = [r \in Runs |-> IdleRun]
    /\ reaping = [p \in Passes |-> {}]
    /\ request = [q \in Requests |-> NewRequest]
    /\ started = {} /\ completed = {} /\ exempt = {} /\ late = {} /\ lost = {}
    /\ stranded = {} /\ usurped = {}
    /\ events = 0

Existing == {j \in Jobs : status[j] # "NONE"}
Deleted == {j \in Jobs : status[j] = "DELETED"}
Completed(P) == \A p \in P : status[p] = "COMPLETED"

\* The rows of job_dependencies: one goes with either of its jobs.
Parents(c) == IF c \in Deleted THEN {} ELSE deps[c] \ Deleted

\* What may happen at any time, and is counted to keep the model finite.
Event == events < MaxEvents /\ events' = events + 1

\* The foreign key of job_dependencies.
MayDependOn(P) == P \subseteq Existing \ Deleted

\* createJob. A job with dependencies waits, whatever its parents have done by
\* now; the row and its dependencies are inserted in one transaction.
Create(j, P) ==
    /\ status[j] = "NONE"
    /\ MayDependOn(P)
    /\ status' = [status EXCEPT ![j] = IF P = {} THEN "QUEUED" ELSE "SCHEDULED"]
    /\ deps' = [deps EXCEPT ![j] = P]
    /\ late' = IF P # {} /\ Completed(P) THEN late \cup {j} ELSE late
    /\ UNCHANGED <<run, reaping, request, started, completed, exempt, lost, stranded, usurped,
                   events>>

\* deleteQueue. The jobs of the queue, any jobs, go with it, and so do the rows
\* of job_dependencies that name one of them; nobody looks at the children.
DeleteQueue(S) ==
    /\ Event
    /\ S # {} /\ S \subseteq Existing \ Deleted
    /\ status' = [j \in Jobs |-> IF j \in S THEN "DELETED" ELSE status[j]]
    /\ stranded' = stranded \cup
           {c \in Jobs \ S : Parents(c) \cap S # {} /\ Completed(Parents(c) \ S)}
    /\ UNCHANGED <<deps, run, reaping, request, started, completed, exempt, late, lost, usurped>>

(***************************************************************************)
(* Executor.execute. The writes of jobs are by id alone; they fail if the  *)
(* row was deleted.                                                        *)
(***************************************************************************)
EndRun(r) == run' = [run EXCEPT ![r] = IdleRun]
SetStatus(j, s) == status' = [status EXCEPT ![j] = s]

Claim(r, j) ==
    /\ run[r].pc = "idle"
    /\ status[j] = "QUEUED"
    /\ SetStatus(j, "CLAIMED")
    /\ run' = [run EXCEPT ![r] = [pc |-> "start", job |-> j, children |-> {}]]
    /\ UNCHANGED <<deps, reaping, request, history, events>>

Start(r) ==
    /\ run[r].pc = "start"
    /\ run[r].job \notin Deleted
    /\ SetStatus(run[r].job, "RUNNING")
    /\ started' = started \cup {run[r].job}
    /\ run' = [run EXCEPT ![r].pc = "handler"]
    /\ UNCHANGED <<deps, reaping, request, completed, exempt, late, lost, stranded, usurped,
                   events>>

\* Another invocation of the job inserted the same attempt number first. (Which
\* numbers there are is JobEngine's subject.)
LiveRuns(j) == {r \in Runs : run[r].pc # "idle" /\ run[r].job = j}
StartRejected(r) ==
    /\ run[r].pc = "start"
    /\ run[r].job \in started
    /\ EndRun(r)
    /\ UNCHANGED <<status, deps, reaping, request, history, events>>

Complete(r) ==
    /\ run[r].pc = "handler"
    /\ run[r].job \notin Deleted
    /\ SetStatus(run[r].job, "COMPLETED")
    /\ completed' = completed \cup {run[r].job}
    /\ run' = [run EXCEPT ![r].pc = "children"]
    /\ UNCHANGED <<deps, reaping, request, started, exempt, late, lost, stranded, usurped, events>>

\* The handler or the success transaction fails, and handleFailure decides.
\* (What it logs after it has let go of the job is left to JobEngine.)
Fail(r) ==
    /\ run[r].pc = "handler"
    /\ run[r].job \notin Deleted
    /\ \E s \in {"QUEUED", "DEAD_LETTERED"} : SetStatus(run[r].job, s)
    /\ EndRun(r)
    /\ UNCHANGED <<deps, reaping, request, history, events>>

\* The job was deleted: whatever the invocation writes next fails, and so does
\* handleFailure.
JobGone(r) ==
    /\ run[r].pc \in {"start", "handler"}
    /\ run[r].job \in Deleted
    /\ EndRun(r)
    /\ UNCHANGED <<status, deps, reaping, request, history, events>>

\* resolveChildDependencies reads the children with their status ...
WaitingBug(c) == status[c] # "COMPLETED"
Waiting(c) == status[c] = "SCHEDULED"
ReadChildren(r) ==
    /\ run[r].pc = "children"
    /\ run' = [run EXCEPT ![r].pc = "parents",
                  ![r].children = {c \in Jobs : run[r].job \in Parents(c) /\ Waiting(c)}]
    /\ UNCHANGED <<status, deps, reaping, request, history, events>>

\* ... then, in a later query of the same call, the parents of each child.
SatisfiedBug(c) == \E p \in Parents(c) : status[p] = "COMPLETED"
Satisfied(c) == Completed(Parents(c))
ReadParents(r) ==
    LET ready == {c \in run[r].children : Satisfied(c)}
    IN  /\ run[r].pc = "parents"
        /\ IF ready = {} THEN EndRun(r)
           ELSE run' = [run EXCEPT ![r].pc = "unlock", ![r].children = ready]
        /\ UNCHANGED <<status, deps, reaping, request, history, events>>

\* One child after the other is queued, whatever it has become since.
RemainingBug(C, c) == {}
Remaining(C, c) == C \ {c}
Unlock(r, c) ==
    /\ run[r].pc = "unlock"
    /\ c \in run[r].children \ Deleted
    /\ SetStatus(c, "QUEUED")
    /\ run' = [run EXCEPT ![r].children = Remaining(run[r].children, c)]
    /\ UNCHANGED <<deps, reaping, request, history, events>>

Resolved(r) ==
    /\ run[r].pc = "unlock"
    /\ run[r].children = {}
    /\ EndRun(r)
    /\ UNCHANGED <<status, deps, reaping, request, history, events>>

\* The resolution breaks off: execute's catch block takes the committed success
\* for a failure and routes the parent like one, if the parent is still there.
BreakOff(r) ==
    /\ IF run[r].job \in Deleted THEN UNCHANGED status
       ELSE \E s \in {"QUEUED", "DEAD_LETTERED"} : SetStatus(run[r].job, s)
    /\ lost' = lost \cup {run[r].job}
    /\ EndRun(r)
    /\ UNCHANGED <<deps, reaping, request, started, completed, exempt, late, stranded, usurped>>

\* The child that is to be queued was deleted.
UnlockFails(r) ==
    /\ run[r].pc = "unlock"
    /\ run[r].children \cap Deleted # {}
    /\ BreakOff(r)
    /\ UNCHANGED events

\* A query of the resolution fails.
ResolveFails(r) ==
    /\ run[r].pc \in Resolving
    /\ Event
    /\ BreakOff(r)

Crash(r) ==
    /\ run[r].pc # "idle"
    /\ Event
    /\ lost' = IF run[r].pc \in Resolving THEN lost \cup {run[r].job} ELSE lost
    /\ EndRun(r)
    /\ UNCHANGED <<status, deps, reaping, request, started, completed, exempt, late, stranded,
                   usurped>>

(***************************************************************************)
(* A reaper pass reads the jobs of a worker it takes for dead and queues   *)
(* them by id in a later transaction. Any jobs in flight may be those of   *)
(* that worker, which may be alive: a false alarm.                         *)
(***************************************************************************)
Orphan(j) == LiveRuns(j) = {} /\ status[j] \in InFlight
FindOrphans(p, S) ==
    /\ reaping[p] = {}
    /\ S # {} /\ \A j \in S : status[j] \in InFlight
    /\ IF \A j \in S : Orphan(j) THEN UNCHANGED events ELSE Event
    /\ reaping' = [reaping EXCEPT ![p] = S]
    /\ UNCHANGED <<status, deps, run, request, history>>

Requeue(p) ==
    LET S == reaping[p] \ Deleted
    IN  /\ reaping[p] # {}
        /\ reaping' = [reaping EXCEPT ![p] = {}]
        /\ status' = [j \in Jobs |-> IF j \in S THEN "QUEUED" ELSE status[j]]
        /\ usurped' = usurped \cup {j \in S : ~Orphan(j)}
        /\ UNCHANGED <<deps, run, request, started, completed, exempt, late, lost, stranded,
                       events>>

(***************************************************************************)
(* cancelJob and retryJob read the row and write it later; the write fails *)
(* if the row was deleted.                                                 *)
(***************************************************************************)
Admits(op, s) ==
    IF op = "cancel" THEN s \in JobStatus \ {"COMPLETED", "CANCELLED"}
    ELSE s \in {"DEAD_LETTERED", "CANCELLED"}

ReadJob(q, op, j) ==
    /\ request[q].pc = "new"
    /\ Admits(op, status[j])
    /\ request' = [request EXCEPT ![q] = [pc |-> "write", op |-> op, job |-> j]]
    /\ UNCHANGED <<status, deps, run, reaping, history, events>>

Done(q) == request' = [request EXCEPT ![q] = [pc |-> "done", op |-> NULL, job |-> NULL]]

WriteJob(q) ==
    LET j == request[q].job
    IN  /\ request[q].pc = "write"
        /\ j \notin Deleted
        /\ Done(q)
        /\ IF request[q].op = "cancel"
           THEN SetStatus(j, "CANCELLED") /\ UNCHANGED exempt
           ELSE SetStatus(j, "QUEUED") /\ exempt' = exempt \cup {j}
        /\ UNCHANGED <<deps, run, reaping, started, completed, late, lost, stranded, usurped,
                       events>>

WriteFails(q) ==
    /\ request[q].pc = "write"
    /\ request[q].job \in Deleted
    /\ Done(q)
    /\ UNCHANGED <<status, deps, run, reaping, history, events>>

-----------------------------------------------------------------------------
Resolve(r) ==
    \/ ReadChildren(r) \/ ReadParents(r)
    \/ (\E c \in Jobs : Unlock(r, c)) \/ UnlockFails(r) \/ Resolved(r)

Execute(r) ==
    \/ Start(r) \/ StartRejected(r) \/ Complete(r) \/ Fail(r) \/ JobGone(r) \/ Resolve(r)

Next ==
    \/ \E j \in Jobs : \E P \in SUBSET (Jobs \ {j}) : Create(j, P)
    \/ \E S \in SUBSET Jobs : DeleteQueue(S)
    \/ \E p \in Passes : (\E S \in SUBSET Jobs : FindOrphans(p, S)) \/ Requeue(p)
    \/ \E r \in Runs : \/ \E j \in Jobs : Claim(r, j)
                       \/ Execute(r) \/ ResolveFails(r) \/ Crash(r)
    \/ \E q \in Requests :
          \/ \E j \in Jobs : \E op \in {"cancel", "retry"} : ReadJob(q, op, j)
          \/ WriteJob(q) \/ WriteFails(q)

Spec == Init /\ [][Next]_vars

\* An invocation that was started goes on.
FairSpec == Spec /\ \A r \in Runs : WF_vars(Execute(r))

-----------------------------------------------------------------------------
\* The type invariant; nothing refers to a row that never existed.
TypeOK ==
    /\ status \in [Jobs -> JobStatus \cup {"NONE", "DELETED"}]
    /\ deps \in [Jobs -> SUBSET Jobs]
    /\ \A j \in Jobs : deps[j] \subseteq Existing
    /\ run \in [Runs -> [pc : {"idle", "start", "handler"} \cup Resolving,
                         job : Jobs \cup {NULL}, children : SUBSET Jobs]]
    /\ \A r \in Runs : /\ run[r].pc # "idle" => run[r].job \in Existing
                       /\ run[r].children \subseteq Existing
    /\ reaping \in [Passes -> SUBSET Jobs]
    /\ \A p \in Passes : reaping[p] \subseteq Existing
    /\ request \in [Requests -> [pc : {"new", "write", "done"},
                                 op : {"cancel", "retry", NULL}, job : Jobs \cup {NULL}]]
    /\ \A q \in Requests : request[q].pc = "write" => request[q].job \in Existing
    /\ started \cup completed \cup exempt \cup late \cup lost \cup usurped \subseteq Existing
    /\ stranded \subseteq Jobs
    /\ events \in Nat

\* A job may be executed once each of its parents has completed or was deleted,
\* or by request.
Released(j) == deps[j] \subseteq completed \cup Deleted \/ j \in exempt

\* The gate: no job is executed before each of its parents has completed (or
\* was deleted with its queue), although the resolver judges by rows it read
\* earlier and queues the child whatever happened to it and to its parents
\* since, and reapers queue jobs they read earlier.
ParentsFirst == \A j \in started : Released(j)

\* What the resolution of a parent still has in its hands: the invocation will
\* read c as a child, or has read it and not yet its parents, or will queue it.
Carries(r, c) ==
    /\ run[r].job \in Parents(c)
    /\ \/ run[r].pc = "children"
       \/ run[r].pc \in {"parents", "unlock"} /\ c \in run[r].children

\* The children the code leaves behind: those created after their parents had
\* completed, those a parent of which broke off its resolution, and those from
\* which the deletion of a queue took a parent and left none to wait for.
LeftBehind(c) == c \in late \/ Parents(c) \cap lost # {} \/ c \in stranded

\* No unlock is lost between two parents that complete at the same time: when
\* a child waits and all its parents have completed, some invocation is about
\* to queue it, unless the child is one that the code leaves behind.
NoLostUnlock ==
    \A c \in Jobs :
        status[c] = "SCHEDULED" /\ Satisfied(c) /\ ~LeftBehind(c)
            => \E r \in Runs : Carries(r, c)

\* The workflows in which no job has two parents.
Tree == \A c \in Jobs : \A p, q \in deps[c] : p = q

\* In a tree a job is never executed by two invocations at once, as long as
\* nobody retries a job by hand and no reaper queues a job that is no orphan.
\* (A child of two parents may be queued by both, the second time while it is
\* running. A reaper that takes a live worker for dead, or that another one was
\* faster than, queues what is being executed: JobEngine says when.)
TreesRunOnce ==
    Tree /\ exempt = {} /\ usurped = {} => \A j \in Jobs : \A r, s \in LiveRuns(j) : r = s

\* A child is not left behind, but for the exceptions of NoLostUnlock: once its
\* parents have completed it is queued, cancelled or deleted, or a parent is
\* run again.
ChildUnlocked ==
    \A c \in Jobs :
        status[c] = "SCHEDULED" /\ Satisfied(c) /\ ~LeftBehind(c)
            ~> status[c] # "SCHEDULED" \/ ~Satisfied(c) \/ LeftBehind(c)

\* The rows of the database implement the promise of DependencyOrder.
Order == INSTANCE DependencyOrder WITH parents <- deps, done <- completed, removed <- Deleted
KeepsOrder == Order!Spec

-----------------------------------------------------------------------------
\* Whatever may be executed is released, and COMPLETED jobs did complete.
QueuedIsReleased ==
    \A j \in Jobs : /\ status[j] \in {"QUEUED", "CLAIMED", "RUNNING"} => Released(j)
                    /\ status[j] = "COMPLETED" => j \in completed

\* So is what an invocation executes or a reaper has found, and what a resolver
\* is going to queue.
RunsAreReleased ==
    /\ \A p \in Passes : \A j \in reaping[p] : Released(j)
    /\ \A r \in Runs :
        /\ run[r].pc # "idle" => Released(run[r].job)
        /\ run[r].pc = "handler" => run[r].job \in started
        /\ run[r].pc \in {"parents", "unlock"} =>
               \A c \in run[r].children : run[r].job \in deps[c]
        /\ run[r].pc = "unlock" =>
               \A c \in run[r].children : c \in Deleted \/ Released(c)

\* The inductive invariant of the proofs in DagProofs.
GInv == TypeOK /\ QueuedIsReleased /\ RunsAreReleased /\ ParentsFirst /\ NoLostUnlock

\* What TreesRunOnce rests on: in a tree a job that waits or is queued has no
\* invocation, and a child that a resolver has read waits, was cancelled or was
\* deleted, until that resolver queues it; no other has read it, since it has
\* one parent.
OneInvocation ==
    Tree /\ exempt = {} /\ usurped = {} =>
        \A r \in Runs : run[r].pc # "idle" =>
            /\ status[run[r].job] \notin {"SCHEDULED", "QUEUED"}
            /\ \A s \in Runs : run[s].pc # "idle" /\ run[s].job = run[r].job => s = r

ChildrenWait ==
    Tree /\ exempt = {} /\ usurped = {} =>
        \A r \in Runs : run[r].pc \in {"parents", "unlock"} =>
            \A c \in run[r].children :
                /\ status[c] \in {"SCHEDULED", "CANCELLED", "DELETED"}
                /\ \A s \in Runs : run[s].pc # "idle" => run[s].job # c

TreeInv ==
    /\ GInv
    /\ \A j \in Jobs : status[j] = "NONE" => deps[j] = {}
    /\ OneInvocation
    /\ ChildrenWait
=============================================================================
