----------------------------- MODULE JobEngine -----------------------------
(***************************************************************************)
(* The life of a job in the scheduler: the rows of jobs, job_executions,   *)
(* dead_letter_queue and workers that every process shares, the workers    *)
(* that claim, execute, retry and dead-letter jobs, the zombie reaper that *)
(* every worker runs, graceful shutdown, and the cancel, retry and replay  *)
(* requests of the API.                                                    *)
(*                                                                         *)
(* One action is one database statement or transaction together with the  *)
(* local computation up to the next await, so that every interleaving of   *)
(* processes at their awaits is a behaviour of the specification.          *)
(*                                                                         *)
(* The definitions named ...Bug are faulty variants of the definition that *)
(* follows them: mutations of the code that the properties must refute.    *)
(***************************************************************************)
EXTENDS Naturals, Sequences, FiniteSets, Functions

CONSTANTS
    Jobs,          \* rows that may appear in jobs
    Workers,       \* worker processes; a restarted worker is a new member
    Runs,          \* concurrent invocations of Executor.execute
    Passes,        \* concurrent calls of reapDeadWorkers, in any worker
    Requests,      \* API requests that may be made
    Operations,    \* the kinds of request that may be made
    Delayed,       \* the jobs that are created with a delay
    Parents,       \* the jobs that a job is created to depend on
    Crashable,     \* the workers that may crash
    Stoppable,     \* the workers that may receive SIGTERM
    SlowDrain,     \* the workers whose drain may reach its timeout
    NULL,          \* the SQL null
    Concurrency,   \* CONCURRENCY of a worker
    MaxRetries,    \* maxRetries of every job
    MaxLatePings,  \* bound: how often a live worker misses its heartbeats
    MaxDbErrors    \* bound: how often a database call of a worker fails

\* The finiteness of the tables lets rows be counted.
ASSUME EntitiesFinite ==
    /\ IsFiniteSet(Jobs)
    /\ IsFiniteSet(Runs)

ASSUME NullIsNoRow == NULL \notin Jobs \cup Workers

ASSUME SubsetsChosen ==
    /\ Operations \subseteq {"cancel", "retry", "replay"}
    /\ Delayed \subseteq Jobs
    /\ Parents \in [Jobs -> SUBSET Jobs]
    /\ Crashable \cup Stoppable \cup SlowDrain \subseteq Workers

ASSUME BoundsAreNaturals ==
    /\ Concurrency \in Nat \ {0}
    /\ MaxRetries \in Nat
    /\ MaxLatePings \in Nat
    /\ MaxDbErrors \in Nat

VARIABLES
    status,      \* jobs.status, "NONE" before the row exists
    claimedBy,   \* jobs.claimedByWorkerId
    due,         \* jobs.runAt <= NOW()
    executions,  \* job_executions of a job, by attemptNumber
    dlq,         \* dead_letter_queue entries of a job, oldest first
    run,         \* the invocations of Executor.execute
    phase,       \* where a worker process is between boot and exit
    wstatus,     \* workers.status
    stale,       \* workers.lastHeartbeatAt is older than the reaper allows
    active,      \* activeJobs of a worker process
    inflight,    \* calls a worker has under way when SIGTERM reaches it
    reaper,      \* the reaper passes
    request,     \* the API requests
    latePings,   \* how many heartbeat outages have happened
    dbErrors     \* how many database errors have happened

jobVars == <<status, claimedBy, due>>
historyVars == <<executions, dlq>>
workerVars == <<phase, wstatus, stale, active, inflight>>
faultVars == <<latePings, dbErrors>>
vars == <<jobVars, historyVars, run, workerVars, reaper, request, faultVars>>

JobStatus == {"SCHEDULED", "QUEUED", "CLAIMED", "RUNNING", "COMPLETED",
              "DEAD_LETTERED", "CANCELLED"}
InFlight == {"CLAIMED", "RUNNING"}
ExecutionStatus == {"RUNNING", "SUCCESS", "FAILED"}

\* The points of Executor.execute at which it awaits the database or the
\* handler. Before "handler" the invocation owns no execution row yet.
NotStarted == {"count", "start"}
Resolving == {"resolve", "parents", "unlock"}
Started == {"handler", "complete", "resolve", "parents", "unlock", "fail", "route"}
Live(w) == phase[w] \in {"up", "stopping", "draining", "leaving"}

IdleRun == [pc |-> "idle", job |-> NULL, worker |-> NULL, attempt |-> 0, children |-> {}]
IdleReaper == [pc |-> "idle", worker |-> NULL, dead |-> {}, cur |-> NULL, orphans |-> {}]
NewRequest == [pc |-> "new", op |-> NULL, job |-> NULL]

Init ==
    /\ status = [j \in Jobs |-> "NONE"]
    /\ claimedBy = [j \in Jobs |-> NULL]
    /\ due = [j \in Jobs |-> FALSE]
    /\ executions = [j \in Jobs |-> << >>]
    /\ dlq = [j \in Jobs |-> << >>]
    /\ run = [r \in Runs |-> IdleRun]
    /\ phase = [w \in Workers |-> "absent"]
    /\ wstatus = [w \in Workers |-> NULL]
    /\ stale = [w \in Workers |-> FALSE]
    /\ active = [w \in Workers |-> {}]
    /\ inflight = [w \in Workers |-> {}]
    /\ reaper = [p \in Passes |-> IdleReaper]
    /\ request = [q \in Requests |-> NewRequest]
    /\ latePings = 0
    /\ dbErrors = 0

(***************************************************************************)
(* Creating a job, and time reaching its runAt. A delayed job is created   *)
(* SCHEDULED with runAt in the future; a job that depends on others, whose *)
(* rows must exist, SCHEDULED; any other job QUEUED and due.               *)
(***************************************************************************)
InitialStatus(j) == IF j \in Delayed \/ Parents[j] # {} THEN "SCHEDULED" ELSE "QUEUED"

Submit(j) ==
    /\ status[j] = "NONE"
    /\ \A p \in Parents[j] : status[p] # "NONE"
    /\ status' = [status EXCEPT ![j] = InitialStatus(j)]
    /\ due' = [due EXCEPT ![j] = j \notin Delayed]
    /\ UNCHANGED <<claimedBy, historyVars, run, workerVars, reaper, request, faultVars>>

RunAtPasses(j) ==
    /\ status[j] # "NONE"
    /\ ~due[j]
    /\ due' = [due EXCEPT ![j] = TRUE]
    /\ UNCHANGED <<status, claimedBy, historyVars, run, workerVars, reaper, request, faultVars>>

(***************************************************************************)
(* The worker process: registration, heartbeats, crash and shutdown.       *)
(***************************************************************************)
Register(w) ==
    /\ phase[w] = "absent"
    /\ phase' = [phase EXCEPT ![w] = "up"]
    /\ wstatus' = [wstatus EXCEPT ![w] = "HEALTHY"]
    /\ UNCHANGED <<jobVars, historyVars, run, stale, active, inflight, reaper, request, faultVars>>

\* A ping of the heartbeat timer. It writes HEALTHY over whatever the status
\* was. Shutdown clears the timer, but a ping under way still lands.
Heartbeat(w) ==
    /\ \/ phase[w] = "up"
       \/ Live(w) /\ "ping" \in inflight[w]
    /\ wstatus' = [wstatus EXCEPT ![w] = "HEALTHY"]
    /\ stale' = [stale EXCEPT ![w] = FALSE]
    /\ inflight' = [inflight EXCEPT ![w] = @ \ {"ping"}]
    /\ UNCHANGED <<jobVars, historyVars, run, phase, active, reaper, request, faultVars>>

\* The threshold passes for a worker whose heartbeat timer no longer runs.
HeartbeatExpires(w) ==
    /\ phase[w] \in {"draining", "leaving", "gone"}
    /\ ~stale[w]
    /\ stale' = [stale EXCEPT ![w] = TRUE]
    /\ UNCHANGED <<jobVars, historyVars, run, phase, wstatus, active, inflight, reaper, request, faultVars>>

\* The threshold passes for a worker that is running: its pings failed or
\* its event loop was blocked.
LatePing(w) ==
    /\ phase[w] = "up"
    /\ ~stale[w]
    /\ latePings < MaxLatePings
    /\ latePings' = latePings + 1
    /\ stale' = [stale EXCEPT ![w] = TRUE]
    /\ UNCHANGED <<jobVars, historyVars, run, phase, wstatus, active, inflight, reaper, request, dbErrors>>

\* Every invocation, reaper pass and call under way dies with the process.
ProcessEnds(w) ==
    /\ phase' = [phase EXCEPT ![w] = "gone"]
    /\ active' = [active EXCEPT ![w] = {}]
    /\ inflight' = [inflight EXCEPT ![w] = {}]
    /\ reaper' = [p \in Passes |-> IF reaper[p].worker = w THEN IdleReaper ELSE reaper[p]]
    /\ run' = [r \in Runs |-> IF run[r].worker = w THEN IdleRun ELSE run[r]]

Crash(w) ==
    /\ w \in Crashable
    /\ Live(w)
    /\ ProcessEnds(w)
    /\ UNCHANGED <<jobVars, historyVars, wstatus, stale, request, faultVars>>

\* SIGTERM: the timers are cleared, calls already under way are not.
Shutdown(w) ==
    /\ w \in Stoppable
    /\ phase[w] = "up"
    /\ phase' = [phase EXCEPT ![w] = "stopping"]
    /\ \E calls \in SUBSET {"ping", "poll"} :
          /\ "poll" \in calls => Cardinality(active[w]) < Concurrency
          /\ inflight' = [inflight EXCEPT ![w] = calls]
    /\ UNCHANGED <<jobVars, historyVars, run, wstatus, stale, active, reaper, request, faultVars>>

SetDraining(w) ==
    /\ phase[w] = "stopping"
    /\ phase' = [phase EXCEPT ![w] = "draining"]
    /\ wstatus' = [wstatus EXCEPT ![w] = "DRAINING"]
    /\ UNCHANGED <<jobVars, historyVars, run, stale, active, inflight, reaper, request, faultVars>>

\* The drain loop ends: nothing is active, or 30 seconds have passed.
DrainEnds(w) == active[w] = {} \/ w \in SlowDrain

Drained(w) ==
    /\ phase[w] = "draining"
    /\ DrainEnds(w)
    /\ phase' = [phase EXCEPT ![w] = "leaving"]
    /\ UNCHANGED <<jobVars, historyVars, run, wstatus, stale, active, inflight, reaper, request, faultVars>>

\* setOffline and process.exit.
Exit(w) ==
    /\ phase[w] = "leaving"
    /\ ProcessEnds(w)
    /\ wstatus' = [wstatus EXCEPT ![w] = "OFFLINE"]
    /\ UNCHANGED <<jobVars, historyVars, stale, request, faultVars>>

(***************************************************************************)
(* Polling. One claim takes some of the queued jobs that are due, at most  *)
(* as many as the worker has free slots, and starts an invocation of the   *)
(* executor for each. SKIP LOCKED may leave out any job, so any subset can *)
(* be the result. A poll that was under way when the worker began to shut  *)
(* down ends the same way: nothing looks at isDraining after the claim.    *)
(***************************************************************************)
ClaimableBug(j) == status[j] \in {"QUEUED", "CLAIMED"} /\ due[j]
Claimable(j) == status[j] = "QUEUED" /\ due[j]
FreeSlots(w) == Concurrency - Cardinality(active[w])
IdleRuns == {r \in Runs : run[r].pc = "idle"}

Claim(w, S) ==
    /\ status' = [j \in Jobs |-> IF j \in S THEN "CLAIMED" ELSE status[j]]
    /\ claimedBy' = [j \in Jobs |-> IF j \in S THEN w ELSE claimedBy[j]]
    /\ active' = [active EXCEPT ![w] = @ \cup S]
    /\ \E f \in Injection(S, IdleRuns) :
          run' = [r \in Runs |->
                    IF \E j \in S : f[j] = r
                    THEN [pc |-> "count", job |-> CHOOSE j \in S : f[j] = r,
                          worker |-> w, attempt |-> 0, children |-> {}]
                    ELSE run[r]]

ClaimJobs(w) ==
    /\ \/ phase[w] = "up"
       \/ Live(w) /\ "poll" \in inflight[w]
    /\ \E S \in SUBSET {j \in Jobs : Claimable(j)} :
          /\ Cardinality(S) <= FreeSlots(w)
          /\ S # {} \/ "poll" \in inflight[w]
          /\ Claim(w, S)
    /\ inflight' = [inflight EXCEPT ![w] = @ \ {"poll"}]
    /\ UNCHANGED <<due, historyVars, phase, wstatus, stale, reaper, request, faultVars>>

(***************************************************************************)
(* Executor.execute, one action for every await that can change state.     *)
(* Every write of jobs here is by id alone: whatever another process did   *)
(* to the row since it was claimed is overwritten.                         *)
(***************************************************************************)
Goto(r, pc) == run' = [run EXCEPT ![r].pc = pc]

\* runJob's finally: the invocation ends and its slot is given back.
EndRunBug(r) == run' = [run EXCEPT ![r] = IdleRun] /\ UNCHANGED active
EndRun(r) ==
    /\ run' = [run EXCEPT ![r] = IdleRun]
    /\ active' = [active EXCEPT ![run[r].worker] = @ \ {run[r].job}]

ReleaseClaimBug(j) == UNCHANGED claimedBy
ReleaseClaim(j) == claimedBy' = [claimedBy EXCEPT ![j] = NULL]

Attempts(j) == DOMAIN executions[j]
NextAttemptBug(j) == Cardinality(Attempts(j))
NextAttempt(j) == Cardinality(Attempts(j)) + 1

CountExecutions(r) ==
    /\ run[r].pc = "count"
    /\ run' = [run EXCEPT ![r].pc = "start", ![r].attempt = NextAttempt(run[r].job)]
    /\ UNCHANGED <<jobVars, historyVars, workerVars, reaper, request, faultVars>>

\* The unique index on (jobId, attemptNumber).
AttemptFreeBug(j, n) == TRUE
AttemptFree(j, n) == n \notin Attempts(j)

AddRow(rows, n, row) ==
    [m \in DOMAIN rows \cup {n} |-> IF m = n THEN row ELSE rows[m]]

StartExecution(r) ==
    LET j == run[r].job
        n == run[r].attempt
    IN  /\ run[r].pc = "start"
        /\ AttemptFree(j, n)
        /\ status' = [status EXCEPT ![j] = "RUNNING"]
        /\ executions' = [executions EXCEPT ![j] =
               AddRow(@, n, [worker |-> run[r].worker, status |-> "RUNNING"])]
        /\ Goto(r, "handler")
        /\ UNCHANGED <<claimedBy, due, dlq, workerVars, reaper, request, faultVars>>

\* The transaction violates the index, rolls back, and execute throws.
StartRejected(r) ==
    /\ run[r].pc = "start"
    /\ ~AttemptFree(run[r].job, run[r].attempt)
    /\ EndRun(r)
    /\ UNCHANGED <<jobVars, historyVars, phase, wstatus, stale, inflight, reaper, request, faultVars>>

HandlerSucceeds(r) ==
    /\ run[r].pc = "handler"
    /\ Goto(r, "complete")
    /\ UNCHANGED <<jobVars, historyVars, workerVars, reaper, request, faultVars>>

\* The handler throws, is not registered, or loses the race with the timeout.
HandlerFails(r) ==
    /\ run[r].pc = "handler"
    /\ Goto(r, "fail")
    /\ UNCHANGED <<jobVars, historyVars, workerVars, reaper, request, faultVars>>

FinishExecution(r, outcome) ==
    executions' = [executions EXCEPT ![run[r].job][run[r].attempt].status = outcome]

Complete(r) ==
    /\ run[r].pc = "complete"
    /\ FinishExecution(r, "SUCCESS")
    /\ status' = [status EXCEPT ![run[r].job] = "COMPLETED"]
    /\ Goto(r, "resolve")
    /\ UNCHANGED <<claimedBy, due, dlq, workerVars, reaper, request, faultVars>>

\* resolveChildDependencies reads the children that wait, then their parents,
\* and queues one child after the other by id, whatever became of it since;
\* the owner stays. (DagWorkflow looks at the workflows this gives.)
ReadChildren(r) ==
    LET C == {c \in Jobs : run[r].job \in Parents[c] /\ status[c] = "SCHEDULED"}
    IN  /\ run[r].pc = "resolve"
        /\ run' = [run EXCEPT ![r].pc = IF C = {} THEN "unlock" ELSE "parents", ![r].children = C]
        /\ UNCHANGED <<jobVars, historyVars, workerVars, reaper, request, faultVars>>

ReadParents(r) ==
    /\ run[r].pc = "parents"
    /\ run' = [run EXCEPT ![r].pc = "unlock",
           ![r].children = {c \in @ : \A p \in Parents[c] : status[p] = "COMPLETED"}]
    /\ UNCHANGED <<jobVars, historyVars, workerVars, reaper, request, faultVars>>

Unlock(r, c) ==
    /\ run[r].pc = "unlock"
    /\ c \in run[r].children
    /\ status' = [status EXCEPT ![c] = "QUEUED"]
    /\ due' = [due EXCEPT ![c] = TRUE]
    /\ run' = [run EXCEPT ![r].children = @ \ {c}]
    /\ UNCHANGED <<claimedBy, historyVars, workerVars, reaper, request, faultVars>>

Resolved(r) ==
    /\ run[r].pc = "unlock"
    /\ run[r].children = {}
    /\ EndRun(r)
    /\ UNCHANGED <<jobVars, historyVars, phase, wstatus, stale, inflight, reaper, request, faultVars>>

RecordFailure(r) ==
    /\ run[r].pc = "fail"
    /\ FinishExecution(r, "FAILED")
    /\ Goto(r, "route")
    /\ UNCHANGED <<jobVars, dlq, workerVars, reaper, request, faultVars>>

HasRetriesLeftBug(n) == n <= MaxRetries + 1
HasRetriesLeft(n) == n <= MaxRetries

\* The row is claimable from here on, while the invocation goes on to write
\* its log and keeps its slot until that is done, or fails.
ScheduleRetry(r) ==
    LET j == run[r].job
    IN  /\ run[r].pc = "route"
        /\ HasRetriesLeft(run[r].attempt)
        /\ status' = [status EXCEPT ![j] = "QUEUED"]
        /\ due' = [due EXCEPT ![j] = FALSE]
        /\ ReleaseClaim(j)
        /\ Goto(r, "retried")
        /\ UNCHANGED <<historyVars, workerVars, reaper, request, faultVars>>

RetryLogged(r) ==
    /\ run[r].pc = "retried"
    /\ EndRun(r)
    /\ UNCHANGED <<jobVars, historyVars, phase, wstatus, stale, inflight, reaper, request, faultVars>>

DeadLetter(r) ==
    LET j == run[r].job
    IN  /\ run[r].pc = "route"
        /\ ~HasRetriesLeft(run[r].attempt)
        /\ status' = [status EXCEPT ![j] = "DEAD_LETTERED"]
        /\ ReleaseClaim(j)
        /\ dlq' = [dlq EXCEPT ![j] =
               Append(@, [totalAttempts |-> run[r].attempt, replayed |-> FALSE])]
        /\ EndRun(r)
        /\ UNCHANGED <<due, executions, phase, wstatus, stale, inflight, reaper, request, faultVars>>

\* A database call of the invocation fails. Inside the try block the failure
\* goes to the catch block; anywhere else it ends the invocation.
DbErrorInRun(r) ==
    /\ dbErrors < MaxDbErrors
    /\ dbErrors' = dbErrors + 1
    /\ \/ /\ run[r].pc \in {"complete"} \cup Resolving
          /\ run' = [run EXCEPT ![r].pc = "fail", ![r].children = {}]
          /\ UNCHANGED active
       \/ /\ run[r].pc \in {"count", "start", "fail", "route", "retried"}
          /\ EndRun(r)
    /\ UNCHANGED <<jobVars, historyVars, phase, wstatus, stale, inflight, reaper, request, latePings>>

(***************************************************************************)
(* ZombieReaper.reapDeadWorkers. The pass awaits the database between its  *)
(* statements, and it writes the jobs it found by id alone. The timer does *)
(* not wait for a pass to end: a worker may be in several at once.         *)
(***************************************************************************)
DeadWorkersBug == {w \in Workers : wstatus[w] = "HEALTHY"}
DeadWorkers == {w \in Workers : wstatus[w] = "HEALTHY" /\ stale[w]}
OrphansBug(w) == {j \in Jobs : claimedBy[j] = w}
OrphansClaimedBug(w) == {j \in Jobs : claimedBy[j] = w /\ status[j] = "CLAIMED"}
Orphans(w) == {j \in Jobs : claimedBy[j] = w /\ status[j] \in InFlight}

\* The next dead worker of the pass, or its end.
NextDead(p) ==
    IF reaper[p].dead = {} THEN IdleReaper
    ELSE [reaper[p] EXCEPT !.pc = "mark", !.cur = NULL, !.orphans = {}]

ReapScan(p, w) ==
    /\ phase[w] = "up"
    /\ reaper[p].pc = "idle"
    /\ DeadWorkers # {}
    /\ reaper' = [reaper EXCEPT ![p] =
           [pc |-> "mark", worker |-> w, dead |-> DeadWorkers, cur |-> NULL, orphans |-> {}]]
    /\ UNCHANGED <<jobVars, historyVars, run, workerVars, request, faultVars>>

ReapMark(p) ==
    /\ reaper[p].pc = "mark"
    /\ \E v \in reaper[p].dead :
          /\ wstatus' = [wstatus EXCEPT ![v] = "OFFLINE"]
          /\ reaper' = [reaper EXCEPT ![p] =
                 [reaper[p] EXCEPT !.pc = "find", !.dead = @ \ {v}, !.cur = v]]
    /\ UNCHANGED <<jobVars, historyVars, run, phase, stale, active, inflight, request, faultVars>>

ReapFind(p) ==
    /\ reaper[p].pc = "find"
    /\ LET found == Orphans(reaper[p].cur)
       IN  reaper' = [reaper EXCEPT ![p] =
               IF found = {} THEN NextDead(p)
               ELSE [@ EXCEPT !.pc = "requeue", !.orphans = found]]
    /\ UNCHANGED <<jobVars, historyVars, run, workerVars, request, faultVars>>

ReapRequeue(p) ==
    LET S == reaper[p].orphans
    IN  /\ reaper[p].pc = "requeue"
        /\ status' = [j \in Jobs |-> IF j \in S THEN "QUEUED" ELSE status[j]]
        /\ claimedBy' = [j \in Jobs |-> IF j \in S THEN NULL ELSE claimedBy[j]]
        /\ reaper' = [reaper EXCEPT ![p] = NextDead(p)]
        /\ UNCHANGED <<due, historyVars, run, workerVars, request, faultVars>>

\* A database call of the pass fails: the pass is given up.
ReaperThrows(p) ==
    /\ reaper[p].pc # "idle"
    /\ dbErrors < MaxDbErrors
    /\ dbErrors' = dbErrors + 1
    /\ reaper' = [reaper EXCEPT ![p] = IdleReaper]
    /\ UNCHANGED <<jobVars, historyVars, run, workerVars, request, latePings>>

(***************************************************************************)
(* The API. Cancel and retry read the row, judge its status, and write it  *)
(* in a second statement; replay looks at neither the job nor replayedAt.  *)
(***************************************************************************)
CanCancel(s) == s \notin {"COMPLETED", "CANCELLED"}
CanRetry(s) == s \in {"FAILED", "DEAD_LETTERED", "CANCELLED"}

Admit(q, j, op) ==
    /\ op \in Operations
    /\ request[q].pc = "new"
    /\ request' = [request EXCEPT ![q] = [pc |-> "write", op |-> op, job |-> j]]
    /\ UNCHANGED <<jobVars, historyVars, run, workerVars, reaper, faultVars>>

CancelRead(q, j) ==
    /\ status[j] # "NONE"
    /\ CanCancel(status[j])
    /\ Admit(q, j, "cancel")

RetryRead(q, j) ==
    /\ CanRetry(status[j])
    /\ Admit(q, j, "retry")

Done(q) == request' = [request EXCEPT ![q] = [pc |-> "done", op |-> NULL, job |-> NULL]]

CancelWrite(q) ==
    /\ request[q].pc = "write"
    /\ request[q].op = "cancel"
    /\ status' = [status EXCEPT ![request[q].job] = "CANCELLED"]
    /\ ReleaseClaim(request[q].job)
    /\ Done(q)
    /\ UNCHANGED <<due, historyVars, run, workerVars, reaper, faultVars>>

\* What retry and replay make of a job.
RequeueBug(j) ==
    /\ due' = [due EXCEPT ![j] = TRUE]
    /\ ReleaseClaim(j)
    /\ UNCHANGED status
Requeue(j) ==
    /\ status' = [status EXCEPT ![j] = "QUEUED"]
    /\ due' = [due EXCEPT ![j] = TRUE]
    /\ ReleaseClaim(j)

RetryWrite(q) ==
    /\ request[q].pc = "write"
    /\ request[q].op = "retry"
    /\ Requeue(request[q].job)
    /\ Done(q)
    /\ UNCHANGED <<historyVars, run, workerVars, reaper, faultVars>>

ReplayDlq(q, j, i) ==
    /\ "replay" \in Operations
    /\ request[q].pc = "new"
    /\ dlq' = [dlq EXCEPT ![j][i].replayed = TRUE]
    /\ Requeue(j)
    /\ Done(q)
    /\ UNCHANGED <<executions, run, workerVars, reaper, faultVars>>

-----------------------------------------------------------------------------
Execute(r) ==
    \/ CountExecutions(r) \/ StartExecution(r) \/ StartRejected(r)
    \/ HandlerSucceeds(r) \/ HandlerFails(r)
    \/ Complete(r)
    \/ ReadChildren(r) \/ ReadParents(r) \/ (\E c \in Jobs : Unlock(r, c)) \/ Resolved(r)
    \/ RecordFailure(r) \/ ScheduleRetry(r) \/ RetryLogged(r) \/ DeadLetter(r)

Reap(p) ==
    \/ \E w \in Workers : ReapScan(p, w)
    \/ ReapMark(p) \/ ReapFind(p) \/ ReapRequeue(p)

Drain(w) == SetDraining(w) \/ Drained(w) \/ Exit(w)

Api(q) ==
    \/ \E j \in Jobs : CancelRead(q, j) \/ RetryRead(q, j)
    \/ CancelWrite(q) \/ RetryWrite(q)
    \/ \E j \in Jobs : \E i \in DOMAIN dlq[j] : ReplayDlq(q, j, i)

Next ==
    \/ \E j \in Jobs : Submit(j) \/ RunAtPasses(j)
    \/ \E w \in Workers :
          \/ Register(w) \/ Heartbeat(w) \/ HeartbeatExpires(w) \/ LatePing(w)
          \/ Crash(w) \/ Shutdown(w) \/ Drain(w)
          \/ ClaimJobs(w)
    \/ \E p \in Passes : Reap(p) \/ ReaperThrows(p)
    \/ \E r \in Runs : Execute(r) \/ DbErrorInRun(r)
    \/ \E q \in Requests : Api(q)

Spec == Init /\ [][Next]_vars

(***************************************************************************)
(* What the timers and the event loops of the processes justify: a started *)
(* invocation goes on (the timeout ends a handler that does not), workers  *)
(* poll and start reaper passes periodically, a pass goes on, and time     *)
(* passes. Nobody need submit, call the API, crash or shut down, and no    *)
(* fault need happen.                                                      *)
(***************************************************************************)
Fairness ==
    /\ \A j \in Jobs : WF_vars(RunAtPasses(j))
    /\ \A r \in Runs : WF_vars(Execute(r))
    /\ \A w \in Workers :
          /\ WF_vars(Register(w))
          /\ WF_vars(Heartbeat(w))
          /\ WF_vars(HeartbeatExpires(w))
          /\ WF_vars(Drain(w))
          /\ WF_vars(ClaimJobs(w))
    /\ \A p \in Passes : WF_vars(Reap(p))

FairSpec == Spec /\ Fairness

-----------------------------------------------------------------------------
Execution == [worker : Workers, status : ExecutionStatus]
DlqEntry == [totalAttempts : Nat, replayed : BOOLEAN]

\* The type invariant: every column and local variable holds a value of its
\* type, and the attempt numbers of a job form a finite set.
TypeOK ==
    /\ status \in [Jobs -> JobStatus \cup {"NONE"}]
    /\ claimedBy \in [Jobs -> Workers \cup {NULL}]
    /\ due \in [Jobs -> BOOLEAN]
    /\ DOMAIN executions = Jobs
    /\ \A j \in Jobs : /\ Attempts(j) \subseteq Nat \ {0}
                       /\ IsFiniteSet(Attempts(j))
                       /\ executions[j] \in [Attempts(j) -> Execution]
    /\ dlq \in [Jobs -> Seq(DlqEntry)]
    /\ run \in [Runs -> [pc : {"idle", "retried"} \cup NotStarted \cup Started,
                         job : Jobs \cup {NULL},
                         worker : Workers \cup {NULL},
                         attempt : Nat,
                         children : SUBSET Jobs]]
    /\ phase \in [Workers -> {"absent", "up", "stopping", "draining", "leaving", "gone"}]
    /\ wstatus \in [Workers -> {NULL, "HEALTHY", "DRAINING", "OFFLINE"}]
    /\ stale \in [Workers -> BOOLEAN]
    /\ active \in [Workers -> SUBSET Jobs]
    /\ inflight \in [Workers -> SUBSET {"ping", "poll"}]
    /\ reaper \in [Passes -> [pc : {"idle", "mark", "find", "requeue"},
                              worker : Workers \cup {NULL},
                              dead : SUBSET Workers,
                              cur : Workers \cup {NULL},
                              orphans : SUBSET Jobs]]
    /\ request \in [Requests -> [pc : {"new", "write", "done"},
                                 op : {"cancel", "retry", NULL},
                                 job : Jobs \cup {NULL}]]
    /\ latePings \in Nat
    /\ dbErrors \in Nat

(***************************************************************************)
(* What holds whatever the workers, the reapers, the API and the faults    *)
(* do to each other.                                                       *)
(***************************************************************************)

\* The attempts recorded for a job are numbered 1, 2, ..., n: although an
\* invocation counts the rows long before it inserts its own, and several
\* invocations may do so for one job, no number is skipped.
AttemptsContiguous ==
    \A j \in Jobs : Attempts(j) = 1 .. Cardinality(Attempts(j))

\* An execution row belongs to one invocation for as long as it runs: two
\* invocations of the executor for one job, which a reaper or a retry may
\* cause, never write the outcome of the same attempt.
AttemptHasOneExecutor ==
    \A r, s \in Runs :
        /\ run[r].pc \in Started /\ run[s].pc \in Started
        /\ run[r].job = run[s].job /\ run[r].attempt = run[s].attempt
        => r = s

\* Every entry of the dead letter queue stands for an execution of its own
\* that failed after the retries of the job were exhausted; no failure is
\* quarantined twice, and no later write turns it into something else.
DlqEntriesBacked ==
    \A j \in Jobs : \A i \in DOMAIN dlq[j] :
        LET n == dlq[j][i].totalAttempts
        IN  /\ ~HasRetriesLeft(n)
            /\ n \in Attempts(j)
            /\ executions[j][n].status = "FAILED"
            /\ \A k \in DOMAIN dlq[j] : dlq[j][k].totalAttempts = n => k = i

\* A dead-lettered job is on the list the API shows and can be replayed:
\* listDlq returns the entries that were not replayed yet.
DeadLetteredIsListed ==
    \A j \in Jobs : status[j] = "DEAD_LETTERED" =>
        \E i \in DOMAIN dlq[j] : ~dlq[j][i].replayed

\* A job that waits or is out of the workers' hands has no owner, and a claimed
\* one has, so that a reaper, which looks jobs up by owner, finds the claimed
\* jobs of a dead worker and takes no other job for an orphan. The exception is
\* a queued job that has parents: resolveChildDependencies queues the child by
\* id and keeps its owner, if another parent queued it before and a worker
\* claimed it since.
OwnerMatchesStatus ==
    \A j \in Jobs :
        /\ status[j] \in {"NONE", "SCHEDULED", "DEAD_LETTERED", "CANCELLED"}
               => claimedBy[j] = NULL
        /\ status[j] = "QUEUED" /\ Parents[j] = {} => claimedBy[j] = NULL
        /\ status[j] = "CLAIMED" => claimedBy[j] # NULL

\* The history only grows: an execution row keeps its worker, never returns
\* to RUNNING, and a recorded failure is final.
HistoryIsMonotonic ==
    [][\A j \in Jobs : \A n \in Attempts(j) :
          /\ n \in Attempts(j)'
          /\ executions'[j][n].worker = executions[j][n].worker
          /\ executions'[j][n].status = "RUNNING" => executions[j][n].status = "RUNNING"
          /\ executions[j][n].status = "FAILED" => executions'[j][n].status = "FAILED"]_vars

\* The tables of executions and dead letters implement the ledger: the rows
\* of a job, keyed by a number that was counted earlier, form a sequence that
\* every invocation only appends to, whatever else happened since the count.
Ledger == INSTANCE ExecutionLedger WITH executions <- executions, dlq <- dlq
KeepsLedger == Ledger!Spec

(***************************************************************************)
(* The inductive invariant of the proofs in JobEngineProofs.               *)
(***************************************************************************)
RunsAssigned ==
    \A r \in Runs : run[r].pc # "idle" => run[r].job \in Jobs /\ run[r].worker \in Workers

\* Only a resolver carries jobs, and only children of the job it completed.
ChildrenDepend ==
    \A r \in Runs : run[r].children # {} =>
        /\ run[r].pc \in {"parents", "unlock"}
        /\ \A c \in run[r].children : run[r].job \in Parents[c]

RequestsAssigned ==
    \A q \in Requests : request[q].pc = "write" => request[q].job \in Jobs

\* An attempt number that was counted is at most one ahead of the rows, and
\* a started invocation has a row, which only it writes.
RunsOwnRows ==
    \A r \in Runs :
        LET j == run[r].job
            n == run[r].attempt
        IN  /\ run[r].pc = "start" => n \in 1 .. NextAttempt(j)
            /\ run[r].pc \in Started =>
                   /\ n \in Attempts(j)
                   /\ executions[j][n].worker = run[r].worker
            /\ run[r].pc \in {"handler", "complete"} => executions[j][n].status = "RUNNING"
            /\ run[r].pc \in Started => (run[r].pc = "route" <=> executions[j][n].status = "FAILED")

\* The failure an invocation is still dealing with is not quarantined yet.
NotYetQuarantined ==
    \A r \in Runs : run[r].pc \in Started =>
        \A i \in DOMAIN dlq[run[r].job] :
            dlq[run[r].job][i].totalAttempts # run[r].attempt

\* The inductive invariant: an invocation writes rows of the history that no
\* other invocation writes, whoever else was given its job.
IInv ==
    /\ TypeOK
    /\ RunsAssigned
    /\ RequestsAssigned
    /\ RunsOwnRows
    /\ AttemptsContiguous
    /\ AttemptHasOneExecutor
    /\ NotYetQuarantined
    /\ DlqEntriesBacked

(***************************************************************************)
(* What holds when only dead workers are taken for dead, no two reaper     *)
(* passes deal with the same one, no job has two parents, and the API      *)
(* leaves jobs alone that are running. Nothing in the code enforces these  *)
(* conditions; JobEngineProofs states which of them each property needs.   *)
(***************************************************************************)
\* The invocations that have the job in their hands: one that has scheduled a
\* retry has let go of it.
LiveRuns(j) == {r \in Runs : run[r].pc \notin {"idle", "retried"} /\ run[r].job = j}

DeadAreDead == \A w \in DeadWorkers : ~Live(w)

\* The workers a reaper pass found dead and is not done with.
Reaping(p) == (reaper[p].dead \cup {reaper[p].cur}) \ {NULL}

PassesDisjoint ==
    \A p, q \in Passes : p # q => Reaping(p) \cap Reaping(q) = {}

\* Nobody executes the job, and no reaper is about to re-queue it.
Unattended(j) == LiveRuns(j) = {} /\ \A p \in Passes : j \notin reaper[p].orphans

\* A resolver of dependencies has read the job and may be about to queue it.
Carried(j) == \E r \in Runs : j \in run[r].children

\* No job has two parents that could queue it one after the other.
Tree == \A j \in Jobs : \A p, q \in Parents[j] : p = q

\* What the requests of the API write.
ApiQueues(q, j) ==
    \/ RetryWrite(q) /\ request[q].job = j
    \/ \E i \in DOMAIN dlq[j] : ReplayDlq(q, j, i)
ApiCancels(q, j) == CancelWrite(q) /\ request[q].job = j

\* A job is in the hands of at most one invocation of the executor.
OneExecutorPerJob ==
    \A j \in Jobs : Cardinality(LiveRuns(j)) <= 1

\* Until it writes the outcome, an invocation holds the job it executes: the
\* row still names its worker and still says CLAIMED or RUNNING.
LeaseIsHeld ==
    \A r \in Runs : run[r].pc \in (NotStarted \cup Started) \ Resolving =>
        /\ claimedBy[run[r].job] = run[r].worker
        /\ status[run[r].job] \in InFlight

\* A job fails at most once more than it may be retried, and once more for
\* every process that ended: a worker that dies between recording a failure
\* and routing it leaves a job whose failure has not been acted on.
Gone == {w \in Workers : phase[w] = "gone"}
Failures(j) == {n \in Attempts(j) : executions[j][n].status = "FAILED"}

FailuresWithinRetryBudget ==
    \A j \in Jobs : Cardinality(Failures(j)) <= MaxRetries + 1 + Cardinality(Gone)

\* A job that completed stays completed and is never executed again.
CompletedIsFinal ==
    [][\A j \in Jobs : status[j] = "COMPLETED" =>
          /\ status'[j] = "COMPLETED"
          /\ Attempts(j)' = Attempts(j)]_vars

(***************************************************************************)
(* Liveness.                                                               *)
(***************************************************************************)

\* Every queued job is completed or dead-lettered in the end.
EventuallySettled ==
    \A j \in Jobs :
        status[j] = "QUEUED" ~> status[j] \in {"COMPLETED", "DEAD_LETTERED"}

\* A worker that receives SIGTERM exits.
ShutdownCompletes ==
    \A w \in Workers : phase[w] = "stopping" ~> phase[w] = "gone"
=============================================================================
