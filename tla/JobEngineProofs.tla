-------------------------- MODULE JobEngineProofs --------------------------
(***************************************************************************)
(* Proofs about JobEngine, for any finite sets of jobs and invocations and *)
(* any values of the other constants: first the inductive invariant and    *)
(* what follows from it in every behaviour, then the refinement of the     *)
(* ledger of executions, and then what holds as long as nobody takes a     *)
(* job away from a live executor.                                          *)
(***************************************************************************)
EXTENDS JobEngine, FiniteSetTheorems, SequenceTheorems, TLAPS

\* Counting the attempts of a job yields a natural number.
LEMMA NextAttemptType ==
    ASSUME TypeOK, NEW j \in Jobs
    PROVE  /\ Cardinality(Attempts(j)) \in Nat
           /\ NextAttempt(j) \in Nat \ {0}
<1>1. IsFiniteSet(Attempts(j))
  BY DEF TypeOK
<1>2. Cardinality(Attempts(j)) \in Nat
  BY <1>1, FS_CardinalityType
<1> QED
  BY <1>2 DEF NextAttempt

\* Writing the outcome of an attempt changes the status of its row and
\* nothing else (the update in Executor.execute is by the row's id).
LEMMA FinishEffect ==
    ASSUME TypeOK, NEW r \in Runs, NEW outcome \in ExecutionStatus,
           run[r].job \in Jobs, run[r].attempt \in Attempts(run[r].job),
           FinishExecution(r, outcome)
    PROVE  /\ DOMAIN executions' = Jobs
           /\ \A j \in Jobs : /\ Attempts(j)' = Attempts(j)
                              /\ executions'[j] \in [Attempts(j) -> Execution]
           /\ \A j \in Jobs : \A n \in Attempts(j) :
                 /\ executions'[j][n].worker = executions[j][n].worker
                 /\ executions'[j][n].status =
                       IF j = run[r].job /\ n = run[r].attempt THEN outcome
                       ELSE executions[j][n].status
<1> DEFINE J == run[r].job
           N == run[r].attempt
           Row == [executions[J][N] EXCEPT !.status = outcome]
           Table == [executions[J] EXCEPT ![N] = Row]
<1>1. /\ DOMAIN executions = Jobs
      /\ \A j \in Jobs : executions[j] \in [Attempts(j) -> Execution]
  BY DEF TypeOK
<1>2. executions' = [executions EXCEPT ![J] = Table]
  BY DEF FinishExecution
<1>3. /\ Row \in Execution
      /\ Row.worker = executions[J][N].worker
      /\ Row.status = outcome
  BY <1>1 DEF Execution
<1>4. /\ Table \in [Attempts(J) -> Execution]
      /\ Table[N] = Row
      /\ \A n \in Attempts(J) : n # N => Table[n] = executions[J][n]
  <2>1. executions[J] \in [Attempts(J) -> Execution]
    BY <1>1
  <2> HIDE DEF Row
  <2> QED
    BY <2>1, <1>3
<1>5. /\ executions'[J] = Table
      /\ \A j \in Jobs : j # J => executions'[j] = executions[j]
  <2> HIDE DEF Table
  <2> QED
    BY <1>1, <1>2
<1>6. DOMAIN executions' = Jobs
  BY <1>1, <1>2
<1> HIDE DEF Table, Row
<1>7. \A j \in Jobs : executions'[j] \in [Attempts(j) -> Execution]
  BY <1>1, <1>4, <1>5
<1>8. \A j \in Jobs : Attempts(j)' = Attempts(j)
  BY <1>7 DEF Attempts
<1>9. ASSUME NEW j \in Jobs, NEW n \in Attempts(j)
      PROVE  /\ executions'[j][n].worker = executions[j][n].worker
             /\ executions'[j][n].status =
                   IF j = J /\ n = N THEN outcome ELSE executions[j][n].status
  BY <1>3, <1>4, <1>5
<1> QED
  BY <1>6, <1>7, <1>8, <1>9

\* Starting an execution adds one row, under a number that was free.
LEMMA StartEffect ==
    ASSUME TypeOK, NEW r \in Runs, StartExecution(r),
           run[r].job \in Jobs, run[r].worker \in Workers,
           run[r].attempt \in Nat \ {0}
    PROVE  LET J == run[r].job
               N == run[r].attempt
           IN  /\ DOMAIN executions' = Jobs
               /\ \A j \in Jobs :
                     /\ Attempts(j)' = IF j = J THEN Attempts(j) \cup {N} ELSE Attempts(j)
                     /\ executions'[j] \in [Attempts(j)' -> Execution]
                     /\ \A n \in Attempts(j) : executions'[j][n] = executions[j][n]
               /\ executions'[J][N] = [worker |-> run[r].worker, status |-> "RUNNING"]
               /\ N \notin Attempts(J)
<1> DEFINE J == run[r].job
           N == run[r].attempt
           Row == [worker |-> run[r].worker, status |-> "RUNNING"]
           Table == AddRow(executions[J], N, Row)
<1>1. /\ DOMAIN executions = Jobs
      /\ \A j \in Jobs : executions[j] \in [Attempts(j) -> Execution]
  BY DEF TypeOK
<1>2. /\ executions' = [executions EXCEPT ![J] = Table]
      /\ N \notin Attempts(J)
  BY DEF StartExecution, AttemptFree
<1>3. Row \in Execution
  BY DEF Execution, ExecutionStatus
<1>4. /\ Table \in [Attempts(J) \cup {N} -> Execution]
      /\ Table[N] = Row
      /\ \A n \in Attempts(J) : Table[n] = executions[J][n]
  <2>1. executions[J] \in [Attempts(J) -> Execution]
    BY <1>1
  <2> HIDE DEF Row
  <2> QED
    BY <1>2, <1>3, <2>1 DEF AddRow, Attempts
<1>5. /\ executions'[J] = Table
      /\ \A j \in Jobs : j # J => executions'[j] = executions[j]
      /\ DOMAIN executions' = Jobs
  <2> HIDE DEF Table
  <2> QED
    BY <1>1, <1>2
<1> HIDE DEF Table, Row
<1>6. \A j \in Jobs : executions'[j] \in
          [(IF j = J THEN Attempts(j) \cup {N} ELSE Attempts(j)) -> Execution]
  BY <1>1, <1>4, <1>5
<1>7. \A j \in Jobs :
          Attempts(j)' = IF j = J THEN Attempts(j) \cup {N} ELSE Attempts(j)
  BY <1>6 DEF Attempts
<1>8. \A j \in Jobs : \A n \in Attempts(j) : executions'[j][n] = executions[j][n]
  BY <1>4, <1>5
<1>9. executions'[J][N] = [worker |-> run[r].worker, status |-> "RUNNING"]
  BY <1>4, <1>5 DEF Row
<1> QED
  BY <1>2, <1>5, <1>6, <1>7, <1>8, <1>9

-----------------------------------------------------------------------------
(***************************************************************************)
(* Types. TypeOK is not inductive by itself: that an update stays within   *)
(* the tables needs to know that an invocation has a job, a worker and,    *)
(* once started, a row.                                                    *)
(***************************************************************************)
LEMMA InitType == Init => TypeOK /\ RunsAssigned /\ RequestsAssigned
<1> SUFFICES ASSUME Init PROVE TypeOK /\ RunsAssigned /\ RequestsAssigned
  OBVIOUS
<1>1. ASSUME NEW j \in Jobs
      PROVE  /\ Attempts(j) = {}
             /\ IsFiniteSet(Attempts(j))
             /\ executions[j] \in [Attempts(j) -> Execution]
  <2>1. executions[j] = << >>
    BY DEF Init
  <2>2. Attempts(j) = {}
    BY <2>1 DEF Attempts
  <2> QED
    BY <2>1, <2>2, FS_EmptySet
<1>2. dlq \in [Jobs -> Seq(DlqEntry)]
  BY DEF Init
<1>3. TypeOK
  BY <1>1, <1>2 DEF Init, TypeOK, IdleRun, IdleReaper, NewRequest
<1> QED
  BY <1>3 DEF Init, RunsAssigned, RequestsAssigned, IdleRun, NewRequest

\* The part of TypeOK that speaks of the execution rows.
RowsOK ==
    /\ DOMAIN executions = Jobs
    /\ \A j \in Jobs : /\ Attempts(j) \subseteq Nat \ {0}
                       /\ IsFiniteSet(Attempts(j))
                       /\ executions[j] \in [Attempts(j) -> Execution]

LEMMA RowsUnchanged ==
    ASSUME TypeOK, UNCHANGED executions
    PROVE  RowsOK'
BY DEF TypeOK, RowsOK, Attempts

LEMMA ProcessEndsType ==
    ASSUME IInv, NEW w \in Workers, ProcessEnds(w)
    PROVE  /\ phase' \in [Workers -> {"absent", "up", "stopping", "draining", "leaving", "gone"}]
           /\ active' \in [Workers -> SUBSET Jobs]
           /\ inflight' \in [Workers -> SUBSET {"ping", "poll"}]
           /\ reaper' \in [Passes -> [pc : {"idle", "mark", "find", "requeue"},
                                      worker : Workers \cup {NULL},
                                      dead : SUBSET Workers,
                                      cur : Workers \cup {NULL},
                                      orphans : SUBSET Jobs]]
           /\ run' \in [Runs -> [pc : {"idle", "retried"} \cup NotStarted \cup Started,
                                 job : Jobs \cup {NULL},
                                 worker : Workers \cup {NULL},
                                 attempt : Nat,
                                 children : SUBSET Jobs]]
           /\ RunsAssigned'
BY DEF IInv, TypeOK, RunsAssigned, ProcessEnds, IdleRun, IdleReaper

\* Ending an invocation frees its slot.
LEMMA EndRunType ==
    ASSUME IInv, NEW r \in Runs, run[r].pc # "idle", EndRun(r)
    PROVE  /\ active' \in [Workers -> SUBSET Jobs]
           /\ run' \in [Runs -> [pc : {"idle", "retried"} \cup NotStarted \cup Started,
                                 job : Jobs \cup {NULL},
                                 worker : Workers \cup {NULL},
                                 attempt : Nat,
                                 children : SUBSET Jobs]]
           /\ RunsAssigned'
BY DEF IInv, TypeOK, RunsAssigned, EndRun, IdleRun

\* Moving an invocation to another program counter.
LEMMA GotoType ==
    ASSUME IInv, NEW r \in Runs, run[r].pc # "idle",
           NEW pc \in NotStarted \cup Started, Goto(r, pc)
    PROVE  /\ run' \in [Runs -> [pc : {"idle", "retried"} \cup NotStarted \cup Started,
                                 job : Jobs \cup {NULL},
                                 worker : Workers \cup {NULL},
                                 attempt : Nat,
                                 children : SUBSET Jobs]]
           /\ RunsAssigned'
           /\ run'[r] = [run[r] EXCEPT !.pc = pc]
           /\ \A s \in Runs : s # r => run'[s] = run[s]
<1> DEFINE RunRecord == [pc : {"idle", "retried"} \cup NotStarted \cup Started,
                         job : Jobs \cup {NULL},
                         worker : Workers \cup {NULL},
                         attempt : Nat,
                         children : SUBSET Jobs]
           Moved == [run[r] EXCEPT !.pc = pc]
<1>1. run \in [Runs -> RunRecord]
  BY DEF IInv, TypeOK
<1>2. /\ Moved \in RunRecord
      /\ Moved.job = run[r].job /\ Moved.worker = run[r].worker
  <2>1. run[r] \in RunRecord
    BY <1>1
  <2> QED
    BY <2>1
<1>3. run' = [run EXCEPT ![r] = Moved]
  BY DEF Goto
<1> HIDE DEF RunRecord, Moved
<1>4. run' \in [Runs -> RunRecord]
  BY <1>1, <1>2, <1>3
<1>5. run'[r] = Moved /\ \A s \in Runs : s # r => run'[s] = run[s]
  BY <1>1, <1>3
<1>6. RunsAssigned'
  BY <1>2, <1>5 DEF IInv, RunsAssigned
<1> QED
  BY <1>4, <1>5, <1>6 DEF RunRecord, Moved

\* Moving an invocation while the resolver in it reads or queues children.
LEMMA MoveType ==
    ASSUME IInv, NEW r \in Runs, run[r].pc # "idle",
           NEW pc \in NotStarted \cup Started, NEW C \in SUBSET Jobs,
           run' = [run EXCEPT ![r].pc = pc, ![r].children = C]
    PROVE  /\ run' \in [Runs -> [pc : {"idle", "retried"} \cup NotStarted \cup Started,
                                 job : Jobs \cup {NULL},
                                 worker : Workers \cup {NULL},
                                 attempt : Nat,
                                 children : SUBSET Jobs]]
           /\ RunsAssigned'
           /\ run'[r] = [run[r] EXCEPT !.pc = pc, !.children = C]
           /\ \A s \in Runs : s # r => run'[s] = run[s]
<1> DEFINE RunRecord == [pc : {"idle", "retried"} \cup NotStarted \cup Started,
                         job : Jobs \cup {NULL},
                         worker : Workers \cup {NULL},
                         attempt : Nat,
                         children : SUBSET Jobs]
           Moved == [run[r] EXCEPT !.pc = pc, !.children = C]
<1>1. run \in [Runs -> RunRecord]
  BY DEF IInv, TypeOK
<1>2. /\ Moved \in RunRecord
      /\ Moved.job = run[r].job /\ Moved.worker = run[r].worker
  <2>1. run[r] \in RunRecord
    BY <1>1
  <2> QED
    BY <2>1
<1>3. run' = [run EXCEPT ![r] = Moved]
  OBVIOUS
<1> HIDE DEF RunRecord, Moved
<1>4. run' \in [Runs -> RunRecord]
  BY <1>1, <1>2, <1>3
<1>5. run'[r] = Moved /\ \A s \in Runs : s # r => run'[s] = run[s]
  BY <1>1, <1>3
<1>6. RunsAssigned'
  BY <1>2, <1>5 DEF IInv, RunsAssigned
<1> QED
  BY <1>4, <1>5, <1>6 DEF RunRecord, Moved

\* What the three steps of a resolver and the catch block do to the invocation.
LEMMA ResolverMoves ==
    ASSUME IInv, NEW r \in Runs
    PROVE  /\ ReadChildren(r) =>
                 /\ run[r].pc = "resolve"
                 /\ \E pc \in {"parents", "unlock"} : \E C \in SUBSET Jobs :
                       /\ C # {} => pc = "parents"
                       /\ \A c \in C : run[r].job \in Parents[c] /\ status[c] = "SCHEDULED"
                       /\ run' = [run EXCEPT ![r].pc = pc, ![r].children = C]
           /\ ReadParents(r) =>
                 /\ run[r].pc = "parents"
                 /\ \E C \in SUBSET run[r].children :
                       run' = [run EXCEPT ![r].pc = "unlock", ![r].children = C]
           /\ \A c : Unlock(r, c) =>
                 /\ run[r].pc = "unlock"
                 /\ run' = [run EXCEPT ![r].pc = "unlock", ![r].children = run[r].children \ {c}]
<1>1. ASSUME ReadChildren(r)
      PROVE  /\ run[r].pc = "resolve"
             /\ \E pc \in {"parents", "unlock"} : \E C \in SUBSET Jobs :
                   /\ C # {} => pc = "parents"
                   /\ \A c \in C : run[r].job \in Parents[c] /\ status[c] = "SCHEDULED"
                   /\ run' = [run EXCEPT ![r].pc = pc, ![r].children = C]
  <2> DEFINE C == {c \in Jobs : run[r].job \in Parents[c] /\ status[c] = "SCHEDULED"}
             pc == IF C = {} THEN "unlock" ELSE "parents"
  <2>1. /\ pc \in {"parents", "unlock"} /\ C \in SUBSET Jobs
        /\ C # {} => pc = "parents"
        /\ \A c \in C : run[r].job \in Parents[c] /\ status[c] = "SCHEDULED"
    OBVIOUS
  <2>2. run[r].pc = "resolve" /\ run' = [run EXCEPT ![r].pc = pc, ![r].children = C]
    BY <1>1 DEF ReadChildren
  <2> HIDE DEF C, pc
  <2> QED
    BY <2>1, <2>2
<1>2. ASSUME ReadParents(r)
      PROVE  /\ run[r].pc = "parents"
             /\ \E C \in SUBSET run[r].children :
                   run' = [run EXCEPT ![r].pc = "unlock", ![r].children = C]
  <2> DEFINE C == {c \in run[r].children : \A p \in Parents[c] : status[p] = "COMPLETED"}
  <2>1. C \in SUBSET run[r].children
    OBVIOUS
  <2>2. run[r].pc = "parents" /\ run' = [run EXCEPT ![r].pc = "unlock", ![r].children = C]
    BY <1>2 DEF ReadParents, IInv, TypeOK
  <2> HIDE DEF C
  <2> QED
    BY <2>1, <2>2
<1>3. ASSUME NEW c, Unlock(r, c)
      PROVE  /\ run[r].pc = "unlock"
             /\ run' = [run EXCEPT ![r].pc = "unlock", ![r].children = run[r].children \ {c}]
  <2> DEFINE Record == [pc : {"idle", "retried"} \cup NotStarted \cup Started,
                        job : Jobs \cup {NULL},
                        worker : Workers \cup {NULL},
                        attempt : Nat,
                        children : SUBSET Jobs]
             C == run[r].children \ {c}
  <2>1. run[r].pc = "unlock" /\ run' = [run EXCEPT ![r].children = C]
    BY <1>3 DEF Unlock
  <2>2. [run[r] EXCEPT !.pc = "unlock", !.children = C] = [run[r] EXCEPT !.children = C]
    <3>1. run[r] \in Record
      BY DEF IInv, TypeOK
    <3> HIDE DEF C
    <3> QED
      BY <2>1, <3>1
  <2> HIDE DEF C
  <2>3. run' = [run EXCEPT ![r].pc = "unlock", ![r].children = C]
    BY <2>1, <2>2
  <2> QED
    BY <2>1, <2>3 DEF C
<1> QED
  BY <1>1, <1>2, <1>3

LEMMA JobsStepType ==
    ASSUME IInv, NEW j \in Jobs, Submit(j) \/ RunAtPasses(j)
    PROVE  TypeOK' /\ RunsAssigned' /\ RequestsAssigned'
<1>1. RowsOK'
  BY RowsUnchanged DEF IInv, Submit, RunAtPasses, historyVars
<1>2. status' \in [Jobs -> JobStatus \cup {"NONE"}] /\ due' \in [Jobs -> BOOLEAN]
  BY DEF IInv, TypeOK, Submit, RunAtPasses, InitialStatus, JobStatus
<1>3. UNCHANGED <<claimedBy, historyVars, run, workerVars, reaper, request, faultVars>>
  BY DEF Submit, RunAtPasses
<1> QED
  BY <1>1, <1>2, <1>3 DEF IInv, TypeOK, RowsOK, RunsAssigned, RequestsAssigned,
     historyVars, workerVars, faultVars

\* Registration, heartbeats and the phases of a shutdown.
LEMMA WorkerStepType ==
    ASSUME IInv, NEW w \in Workers,
           \/ Register(w) \/ Heartbeat(w) \/ HeartbeatExpires(w) \/ LatePing(w)
           \/ Crash(w) \/ Shutdown(w) \/ Drain(w)
    PROVE  TypeOK' /\ RunsAssigned' /\ RequestsAssigned'
<1> USE DEF IInv
<1>1. CASE Register(w)
  BY <1>1, RowsUnchanged DEF Register, TypeOK, RowsOK, RunsAssigned, RequestsAssigned,
     jobVars, historyVars, faultVars
<1>2. CASE Heartbeat(w)
  BY <1>2, RowsUnchanged DEF Heartbeat, TypeOK, RowsOK, RunsAssigned, RequestsAssigned,
     jobVars, historyVars, faultVars
<1>3. CASE HeartbeatExpires(w)
  BY <1>3, RowsUnchanged DEF HeartbeatExpires, TypeOK, RowsOK, RunsAssigned, RequestsAssigned,
     jobVars, historyVars, faultVars
<1>4. CASE LatePing(w)
  BY <1>4, RowsUnchanged DEF LatePing, TypeOK, RowsOK, RunsAssigned, RequestsAssigned,
     jobVars, historyVars
<1>5. CASE Crash(w)
  BY <1>5, RowsUnchanged, ProcessEndsType DEF Crash, TypeOK, RowsOK, RequestsAssigned,
     jobVars, historyVars, faultVars
<1>6. CASE Shutdown(w)
  BY <1>6, RowsUnchanged DEF Shutdown, TypeOK, RowsOK, RunsAssigned, RequestsAssigned,
     jobVars, historyVars, faultVars
<1>7. CASE SetDraining(w)
  BY <1>7, RowsUnchanged DEF SetDraining, TypeOK, RowsOK, RunsAssigned, RequestsAssigned,
     jobVars, historyVars, faultVars
<1>8. CASE Drained(w)
  BY <1>8, RowsUnchanged DEF Drained, TypeOK, RowsOK, RunsAssigned, RequestsAssigned,
     jobVars, historyVars, faultVars
<1>9. CASE Exit(w)
  BY <1>9, RowsUnchanged, ProcessEndsType DEF Exit, TypeOK, RowsOK, RequestsAssigned,
     jobVars, historyVars, faultVars
<1> QED
  BY <1>1, <1>2, <1>3, <1>4, <1>5, <1>6, <1>7, <1>8, <1>9 DEF Drain

LEMMA ClaimStepType ==
    ASSUME IInv, NEW w \in Workers, ClaimJobs(w)
    PROVE  /\ TypeOK' /\ RunsAssigned' /\ RequestsAssigned'
           /\ \A r \in Runs : run'[r] = run[r] \/ run'[r].pc = "count"
<1>1. PICK S \in SUBSET {j \in Jobs : Claimable(j)} : Claim(w, S)
  BY DEF ClaimJobs
<1>2. PICK f \in Injection(S, IdleRuns) :
          run' = [r \in Runs |->
                    IF \E j \in S : f[j] = r
                    THEN [pc |-> "count", job |-> CHOOSE j \in S : f[j] = r,
                          worker |-> w, attempt |-> 0, children |-> {}]
                    ELSE run[r]]
  BY <1>1 DEF Claim
<1>3. ASSUME NEW r \in Runs
      PROVE  \/ run'[r] = run[r]
             \/ /\ run'[r].pc = "count" /\ run'[r].attempt = 0
                /\ run'[r].worker = w /\ run'[r].job \in Jobs
                /\ run'[r] \in [pc : {"idle", "retried"} \cup NotStarted \cup Started,
                                job : Jobs \cup {NULL},
                                worker : Workers \cup {NULL},
                                attempt : Nat,
                                children : SUBSET Jobs]
  <2>1. CASE \E j \in S : f[j] = r
    <3> DEFINE J == CHOOSE j \in S : f[j] = r
    <3>1. J \in Jobs
      BY <2>1
    <3>2. run'[r] = [pc |-> "count", job |-> J, worker |-> w, attempt |-> 0, children |-> {}]
      BY <1>2, <2>1
    <3> HIDE DEF J
    <3> QED
      BY <3>1, <3>2 DEF NotStarted
  <2>2. CASE ~\E j \in S : f[j] = r
    BY <1>2, <2>2
  <2> QED
    BY <2>1, <2>2
<1>4. run' = [r \in Runs |-> run'[r]]
  BY <1>2
<1>5. /\ run' \in [Runs -> [pc : {"idle", "retried"} \cup NotStarted \cup Started,
                            job : Jobs \cup {NULL},
                            worker : Workers \cup {NULL},
                            attempt : Nat,
                            children : SUBSET Jobs]]
      /\ RunsAssigned'
  BY <1>3, <1>4 DEF IInv, TypeOK, RunsAssigned
<1>6. /\ status' \in [Jobs -> JobStatus \cup {"NONE"}]
      /\ claimedBy' \in [Jobs -> Workers \cup {NULL}]
      /\ active' \in [Workers -> SUBSET Jobs]
  BY <1>1 DEF Claim, IInv, TypeOK, JobStatus
<1>7. RowsOK'
  BY RowsUnchanged DEF IInv, ClaimJobs, historyVars
<1>8. /\ inflight' \in [Workers -> SUBSET {"ping", "poll"}]
      /\ UNCHANGED <<due, historyVars, phase, wstatus, stale, reaper, request, faultVars>>
  BY DEF IInv, TypeOK, ClaimJobs
<1>9. TypeOK' /\ RequestsAssigned'
  BY <1>5, <1>6, <1>7, <1>8 DEF IInv, TypeOK, RowsOK, RequestsAssigned, historyVars, faultVars
<1> QED
  BY <1>3, <1>5, <1>9

LEMMA ReapStepType ==
    ASSUME IInv, NEW p \in Passes, Reap(p) \/ ReaperThrows(p)
    PROVE  TypeOK' /\ RunsAssigned' /\ RequestsAssigned'
<1> USE DEF IInv
<1> DEFINE Pass == [pc : {"idle", "mark", "find", "requeue"},
                    worker : Workers \cup {NULL},
                    dead : SUBSET Workers,
                    cur : Workers \cup {NULL},
                    orphans : SUBSET Jobs]
<1>1. IdleReaper \in Pass /\ NextDead(p) \in Pass
  <2>1. IdleReaper \in Pass
    BY DEF IdleReaper
  <2>2. reaper[p] \in Pass
    BY DEF TypeOK
  <2>3. [reaper[p] EXCEPT !.pc = "mark", !.cur = NULL, !.orphans = {}] \in Pass
    BY <2>2
  <2> QED
    BY <2>1, <2>3 DEF NextDead
<1>2. ASSUME NEW w \in Workers, ReapScan(p, w) PROVE TypeOK' /\ RunsAssigned' /\ RequestsAssigned'
  BY <1>2, RowsUnchanged DEF ReapScan, DeadWorkers, TypeOK, RowsOK, RunsAssigned,
     RequestsAssigned, jobVars, historyVars, workerVars, faultVars
<1>3. CASE ReapMark(p)
  <2>1. PICK v \in reaper[p].dead :
            /\ wstatus' = [wstatus EXCEPT ![v] = "OFFLINE"]
            /\ reaper' = [reaper EXCEPT ![p] =
                   [reaper[p] EXCEPT !.pc = "find", !.dead = @ \ {v}, !.cur = v]]
    BY <1>3 DEF ReapMark
  <2> DEFINE after == [reaper[p] EXCEPT !.pc = "find", !.dead = @ \ {v}, !.cur = v]
  <2>2. v \in Workers /\ reaper[p] \in Pass /\ reaper[p].dead \in SUBSET Workers
    BY DEF TypeOK
  <2>3. after \in Pass
    BY <2>2
  <2>4. /\ wstatus' \in [Workers -> {NULL, "HEALTHY", "DRAINING", "OFFLINE"}]
        /\ reaper' \in [Passes -> Pass]
    <3>1. reaper' = [reaper EXCEPT ![p] = after]
      BY <2>1
    <3> HIDE DEF after, Pass
    <3>2. reaper \in [Passes -> Pass]
      BY DEF TypeOK, Pass
    <3>3. wstatus \in [Workers -> {NULL, "HEALTHY", "DRAINING", "OFFLINE"}]
      BY DEF TypeOK
    <3> QED
      BY <2>1, <2>2, <2>3, <3>1, <3>2, <3>3
  <2>5. UNCHANGED <<jobVars, historyVars, run, phase, stale, active, inflight, request, faultVars>>
    BY <1>3 DEF ReapMark
  <2> QED
    BY <2>4, <2>5, RowsUnchanged DEF TypeOK, RowsOK, RunsAssigned,
       RequestsAssigned, jobVars, historyVars, faultVars
<1>4. CASE ReapFind(p)
  <2> DEFINE found == Orphans(reaper[p].cur)
             after == IF found = {} THEN NextDead(p)
                      ELSE [reaper[p] EXCEPT !.pc = "requeue", !.orphans = found]
  <2>1. reaper' = [reaper EXCEPT ![p] = after]
    BY <1>4 DEF ReapFind
  <2>2. found \in SUBSET Jobs /\ reaper[p] \in Pass
    BY DEF Orphans, TypeOK
  <2>3. after \in Pass
    <3> HIDE DEF found
    <3> QED
      BY <1>1, <2>2
  <2>4. reaper' \in [Passes -> Pass]
    <3> HIDE DEF after, Pass
    <3>1. reaper \in [Passes -> Pass]
      BY DEF TypeOK, Pass
    <3> QED
      BY <2>1, <2>3, <3>1
  <2>5. UNCHANGED <<jobVars, historyVars, run, workerVars, request, faultVars>>
    BY <1>4 DEF ReapFind
  <2> QED
    BY <2>4, <2>5, RowsUnchanged DEF TypeOK, RowsOK, RunsAssigned,
       RequestsAssigned, jobVars, historyVars, workerVars, faultVars
<1>5. CASE ReapRequeue(p)
  <2>1. reaper' \in [Passes -> Pass]
    <3> HIDE DEF Pass
    <3>1. reaper \in [Passes -> Pass]
      BY DEF TypeOK, Pass
    <3> QED
      BY <1>1, <1>5, <3>1 DEF ReapRequeue
  <2>2. /\ status' \in [Jobs -> JobStatus \cup {"NONE"}]
        /\ claimedBy' \in [Jobs -> Workers \cup {NULL}]
    BY <1>5 DEF ReapRequeue, TypeOK, JobStatus
  <2>3. UNCHANGED <<due, historyVars, run, workerVars, request, faultVars>>
    BY <1>5 DEF ReapRequeue
  <2> QED
    BY <2>1, <2>2, <2>3, RowsUnchanged DEF TypeOK, RowsOK, RunsAssigned,
       RequestsAssigned, historyVars, workerVars, faultVars
<1>6. CASE ReaperThrows(p)
  <2>1. reaper' \in [Passes -> Pass]
    <3> HIDE DEF Pass
    <3>1. reaper \in [Passes -> Pass]
      BY DEF TypeOK, Pass
    <3> QED
      BY <1>1, <1>6, <3>1 DEF ReaperThrows
  <2> QED
    BY <1>6, <2>1, RowsUnchanged DEF ReaperThrows, TypeOK, RowsOK, RunsAssigned,
       RequestsAssigned, jobVars, historyVars, workerVars
<1> QED
  BY <1>2, <1>3, <1>4, <1>5, <1>6 DEF Reap

LEMMA ApiStepType ==
    ASSUME IInv, NEW q \in Requests, Api(q)
    PROVE  TypeOK' /\ RunsAssigned' /\ RequestsAssigned'
<1> USE DEF IInv
<1>1. CASE \E j \in Jobs : CancelRead(q, j) \/ RetryRead(q, j)
  <2>1. PICK j \in Jobs, op \in {"cancel", "retry"} : Admit(q, j, op)
    BY <1>1 DEF CancelRead, RetryRead
  <2>2. /\ request' = [request EXCEPT ![q] = [pc |-> "write", op |-> op, job |-> j]]
        /\ UNCHANGED <<jobVars, historyVars, run, workerVars, reaper, faultVars>>
    BY <2>1 DEF Admit
  <2>3. /\ request' \in [Requests -> [pc : {"new", "write", "done"},
                                      op : {"cancel", "retry", NULL},
                                      job : Jobs \cup {NULL}]]
        /\ RequestsAssigned'
    BY <2>2 DEF TypeOK, RequestsAssigned
  <2> QED
    BY <2>2, <2>3, RowsUnchanged DEF TypeOK, RowsOK, RunsAssigned,
       jobVars, historyVars, workerVars, faultVars
<1>2. CASE CancelWrite(q)
  BY <1>2, RowsUnchanged DEF CancelWrite, ReleaseClaim, Done, TypeOK, RowsOK, RunsAssigned,
     RequestsAssigned, JobStatus, historyVars, workerVars, faultVars
<1>3. CASE RetryWrite(q)
  BY <1>3, RowsUnchanged DEF RetryWrite, Requeue, ReleaseClaim, Done, TypeOK, RowsOK,
     RunsAssigned, RequestsAssigned, JobStatus, historyVars, workerVars, faultVars
<1>4. CASE \E j \in Jobs : \E i \in DOMAIN dlq[j] : ReplayDlq(q, j, i)
  <2>0. PICK j \in Jobs : \E i \in DOMAIN dlq[j] : ReplayDlq(q, j, i)
    BY <1>4
  <2>1. PICK i \in DOMAIN dlq[j] : ReplayDlq(q, j, i)
    BY <2>0
  <2>2. dlq' \in [Jobs -> Seq(DlqEntry)]
    <3>1. dlq[j] \in Seq(DlqEntry) /\ dlq[j][i] \in DlqEntry
      BY <2>1 DEF TypeOK
    <3>2. [dlq[j][i] EXCEPT !.replayed = TRUE] \in DlqEntry
      BY <3>1 DEF DlqEntry
    <3>3. [dlq[j] EXCEPT ![i] = [dlq[j][i] EXCEPT !.replayed = TRUE]] \in Seq(DlqEntry)
      BY <3>1, <3>2
    <3> QED
      BY <2>1, <3>3 DEF ReplayDlq, TypeOK
  <2> QED
    BY <2>1, <2>2, RowsUnchanged DEF ReplayDlq, Requeue, ReleaseClaim, Done, TypeOK,
       RowsOK, RunsAssigned, RequestsAssigned, JobStatus, workerVars, faultVars
<1> QED
  BY <1>1, <1>2, <1>3, <1>4 DEF Api

\* The steps of an invocation. The facts about execution rows come from
\* FinishEffect and StartEffect, those about its end from EndRunType.
LEMMA ExecuteStepType ==
    ASSUME IInv, NEW r \in Runs, Execute(r) \/ DbErrorInRun(r)
    PROVE  TypeOK' /\ RunsAssigned' /\ RequestsAssigned'
<1> USE DEF IInv
<1> DEFINE J == run[r].job
           N == run[r].attempt
<1>1. CASE CountExecutions(r)
  <2> DEFINE Counted == [run[r] EXCEPT !.pc = "start", !.attempt = NextAttempt(J)]
             RunRecord == [pc : {"idle", "retried"} \cup NotStarted \cup Started,
                           job : Jobs \cup {NULL},
                           worker : Workers \cup {NULL},
                           attempt : Nat,
                           children : SUBSET Jobs]
  <2>1. run[r] \in RunRecord /\ J \in Jobs /\ run[r].pc = "count"
    BY <1>1 DEF CountExecutions, TypeOK, RunsAssigned
  <2>2. NextAttempt(J) \in Nat
    BY <2>1, NextAttemptType
  <2>3. /\ Counted \in RunRecord
        /\ Counted.job = run[r].job /\ Counted.worker = run[r].worker
    BY <2>1, <2>2 DEF NotStarted
  <2>4. run' = [run EXCEPT ![r] = Counted]
    BY <1>1 DEF CountExecutions
  <2> HIDE DEF Counted, RunRecord
  <2>5. run \in [Runs -> RunRecord]
    BY DEF TypeOK, RunRecord
  <2>6. run' \in [Runs -> RunRecord]
    BY <2>3, <2>4, <2>5
  <2>7. RunsAssigned'
    BY <2>1, <2>3, <2>4, <2>5 DEF RunsAssigned
  <2>8. UNCHANGED <<jobVars, historyVars, workerVars, reaper, request, faultVars>>
    BY <1>1 DEF CountExecutions
  <2> QED
    BY <2>6, <2>7, <2>8, RowsUnchanged DEF TypeOK, RowsOK, RequestsAssigned,
       RunRecord, jobVars, historyVars, workerVars, faultVars
<1>2. CASE StartExecution(r)
  <2>1. /\ J \in Jobs /\ run[r].worker \in Workers /\ run[r].pc = "start"
        /\ N \in 1 .. NextAttempt(J)
    BY <1>2 DEF StartExecution, RunsAssigned, RunsOwnRows
  <2>2. N \in Nat \ {0}
    BY <2>1, NextAttemptType
  <2>3. /\ DOMAIN executions' = Jobs
        /\ \A j \in Jobs :
              /\ Attempts(j)' = IF j = J THEN Attempts(j) \cup {N} ELSE Attempts(j)
              /\ executions'[j] \in [Attempts(j)' -> Execution]
    BY <1>2, <2>1, <2>2, StartEffect
  <2>4. \A j \in Jobs : IsFiniteSet(Attempts(j)) /\ Attempts(j) \subseteq Nat \ {0}
    BY DEF TypeOK
  <2>5. ASSUME NEW j \in Jobs
        PROVE  IsFiniteSet(Attempts(j)') /\ Attempts(j)' \subseteq Nat \ {0}
    <3>1. IsFiniteSet(Attempts(j) \cup {N})
      BY <2>4, FS_AddElement
    <3>2. Attempts(j)' = Attempts(j) \cup {N} \/ Attempts(j)' = Attempts(j)
      BY <2>3
    <3> QED
      BY <2>2, <2>4, <3>1, <3>2
  <2>6. RowsOK'
    BY <2>3, <2>5 DEF RowsOK
  <2>7. /\ run' \in [Runs -> [pc : {"idle", "retried"} \cup NotStarted \cup Started,
                              job : Jobs \cup {NULL},
                              worker : Workers \cup {NULL},
                              attempt : Nat,
                              children : SUBSET Jobs]]
        /\ RunsAssigned'
    <3>1. Goto(r, "handler")
      BY <1>2 DEF StartExecution
    <3> QED
      BY <2>1, <3>1, GotoType DEF Started
  <2>8. /\ status' = [status EXCEPT ![J] = "RUNNING"]
        /\ UNCHANGED <<claimedBy, due, dlq, workerVars, reaper, request, faultVars>>
    BY <1>2 DEF StartExecution
  <2> QED
    BY <2>6, <2>7, <2>8 DEF TypeOK, RowsOK, RequestsAssigned, JobStatus, workerVars, faultVars
<1>3. CASE StartRejected(r)
  BY <1>3, RowsUnchanged, EndRunType DEF StartRejected, TypeOK, RowsOK, RequestsAssigned,
     jobVars, historyVars, faultVars
<1>4. CASE HandlerSucceeds(r)
  BY <1>4, RowsUnchanged, GotoType DEF HandlerSucceeds, TypeOK, RowsOK, RequestsAssigned,
     Started, jobVars, historyVars, workerVars, faultVars
<1>5. CASE HandlerFails(r)
  BY <1>5, RowsUnchanged, GotoType DEF HandlerFails, TypeOK, RowsOK, RequestsAssigned,
     Started, jobVars, historyVars, workerVars, faultVars
<1>6. CASE Complete(r)
  <2>1. J \in Jobs /\ N \in Attempts(J) /\ run[r].pc = "complete"
    BY <1>6 DEF Complete, RunsAssigned, RunsOwnRows, Started
  <2>2. FinishExecution(r, "SUCCESS") /\ Goto(r, "resolve")
    BY <1>6 DEF Complete
  <2>3. RowsOK'
    BY <2>1, <2>2, FinishEffect DEF TypeOK, RowsOK, ExecutionStatus
  <2>4. /\ status' = [status EXCEPT ![J] = "COMPLETED"]
        /\ UNCHANGED <<claimedBy, due, dlq, workerVars, reaper, request, faultVars>>
    BY <1>6 DEF Complete
  <2> QED
    BY <2>1, <2>2, <2>3, <2>4, GotoType DEF TypeOK, RowsOK, RequestsAssigned, Started,
       JobStatus, workerVars, faultVars
<1>7. CASE Resolved(r) \/ RetryLogged(r)
  BY <1>7, RowsUnchanged, EndRunType DEF Resolved, RetryLogged, TypeOK, RowsOK, RequestsAssigned,
     jobVars, historyVars, faultVars
<1>8. CASE RecordFailure(r)
  <2>1. J \in Jobs /\ N \in Attempts(J) /\ run[r].pc = "fail"
    BY <1>8 DEF RecordFailure, RunsAssigned, RunsOwnRows, Started
  <2>2. FinishExecution(r, "FAILED") /\ Goto(r, "route")
    BY <1>8 DEF RecordFailure
  <2>3. RowsOK'
    BY <2>1, <2>2, FinishEffect DEF TypeOK, RowsOK, ExecutionStatus
  <2>4. UNCHANGED <<jobVars, dlq, workerVars, reaper, request, faultVars>>
    BY <1>8 DEF RecordFailure
  <2> QED
    BY <2>1, <2>2, <2>3, <2>4, GotoType DEF TypeOK, RowsOK, RequestsAssigned, Started,
       jobVars, workerVars, faultVars
<1>9. CASE ScheduleRetry(r)
  <2> DEFINE Record == [pc : {"idle", "retried"} \cup NotStarted \cup Started,
                        job : Jobs \cup {NULL},
                        worker : Workers \cup {NULL},
                        attempt : Nat,
                        children : SUBSET Jobs]
             Moved == [run[r] EXCEPT !.pc = "retried"]
  <2>1. run \in [Runs -> Record]
    BY DEF TypeOK
  <2>2. run' = [run EXCEPT ![r] = Moved] /\ run[r].pc = "route"
    BY <1>9 DEF ScheduleRetry, Goto
  <2>3. Moved \in Record /\ Moved.job = run[r].job /\ Moved.worker = run[r].worker
    <3>1. run[r] \in Record
      BY <2>1
    <3> QED
      BY <3>1
  <2> HIDE DEF Record, Moved
  <2>4. run' \in [Runs -> Record] /\ RunsAssigned'
    BY <2>1, <2>2, <2>3 DEF RunsAssigned
  <2> QED
    BY <1>9, <2>4, RowsUnchanged DEF ScheduleRetry, ReleaseClaim, TypeOK, RowsOK, Record,
       RequestsAssigned, JobStatus, historyVars, workerVars, faultVars
<1>10. CASE DeadLetter(r)
  <2>1. run[r].pc = "route" /\ EndRun(r) /\ J \in Jobs
    BY <1>10 DEF DeadLetter, RunsAssigned
  <2>2. dlq' \in [Jobs -> Seq(DlqEntry)]
    <3>1. dlq[J] \in Seq(DlqEntry) /\ N \in Nat
      BY <2>1 DEF TypeOK
    <3>2. Append(dlq[J], [totalAttempts |-> N, replayed |-> FALSE]) \in Seq(DlqEntry)
      BY <3>1 DEF DlqEntry
    <3> QED
      BY <1>10, <3>2 DEF DeadLetter, TypeOK
  <2> QED
    BY <1>10, <2>1, <2>2, RowsUnchanged, EndRunType DEF DeadLetter, ReleaseClaim, TypeOK,
       RowsOK, RequestsAssigned, JobStatus, faultVars
<1>11. CASE DbErrorInRun(r)
  <2>1. /\ run[r].pc # "idle"
        /\ \/ run' = [run EXCEPT ![r].pc = "fail", ![r].children = {}] /\ UNCHANGED active
           \/ EndRun(r)
        /\ dbErrors' = dbErrors + 1
        /\ UNCHANGED <<jobVars, historyVars, phase, wstatus, stale, inflight, reaper, request, latePings>>
    BY <1>11 DEF DbErrorInRun, Resolving
  <2>2. /\ active' \in [Workers -> SUBSET Jobs]
        /\ run' \in [Runs -> [pc : {"idle", "retried"} \cup NotStarted \cup Started,
                              job : Jobs \cup {NULL},
                              worker : Workers \cup {NULL},
                              attempt : Nat,
                              children : SUBSET Jobs]]
        /\ RunsAssigned'
    <3>1. CASE run' = [run EXCEPT ![r].pc = "fail", ![r].children = {}] /\ UNCHANGED active
      <4>1. "fail" \in NotStarted \cup Started /\ {} \in SUBSET Jobs
        BY DEF Started
      <4> QED
        BY <2>1, <3>1, <4>1, MoveType DEF TypeOK
    <3>2. CASE EndRun(r)
      BY <2>1, <3>2, EndRunType
    <3> QED
      BY <2>1, <3>1, <3>2
  <2>3. RowsOK' /\ dbErrors' \in Nat
    BY <2>1, RowsUnchanged DEF TypeOK, historyVars
  <2> QED
    BY <2>1, <2>2, <2>3 DEF TypeOK, RowsOK, RequestsAssigned, jobVars, historyVars
<1>12. CASE ReadChildren(r) \/ ReadParents(r)
  <2>1. /\ run[r].pc # "idle"
        /\ \E pc \in NotStarted \cup Started, C \in SUBSET Jobs :
              run' = [run EXCEPT ![r].pc = pc, ![r].children = C]
    <3>1. "parents" \in Started /\ "unlock" \in Started
      BY DEF Started
    <3>2. run[r].children \in SUBSET Jobs
      BY DEF TypeOK
    <3>3. CASE ReadChildren(r)
      <4>1. /\ run[r].pc = "resolve"
            /\ \E pc \in {"parents", "unlock"} : \E C \in SUBSET Jobs :
                  run' = [run EXCEPT ![r].pc = pc, ![r].children = C]
        BY <3>3, ResolverMoves
      <4> QED
        BY <3>1, <4>1
    <3>4. CASE ReadParents(r)
      <4>1. \E C \in SUBSET run[r].children :
               run' = [run EXCEPT ![r].pc = "unlock", ![r].children = C]
        BY <3>4, ResolverMoves
      <4>2. run[r].pc = "parents"
        BY <3>4, ResolverMoves
      <4> QED
        BY <3>1, <3>2, <4>1, <4>2
    <3> QED
      BY <1>12, <3>3, <3>4
  <2>2. /\ run' \in [Runs -> [pc : {"idle", "retried"} \cup NotStarted \cup Started,
                              job : Jobs \cup {NULL},
                              worker : Workers \cup {NULL},
                              attempt : Nat,
                              children : SUBSET Jobs]]
        /\ RunsAssigned'
    BY <2>1, MoveType
  <2>3. UNCHANGED <<jobVars, historyVars, workerVars, reaper, request, faultVars>>
    BY <1>12 DEF ReadChildren, ReadParents
  <2> QED
    BY <2>2, <2>3, RowsUnchanged DEF TypeOK, RowsOK, RequestsAssigned, jobVars, historyVars,
       workerVars, faultVars
<1>13. ASSUME NEW c \in Jobs, Unlock(r, c)
       PROVE  TypeOK' /\ RunsAssigned' /\ RequestsAssigned'
  <2>1. /\ run[r].pc # "idle" /\ "unlock" \in NotStarted \cup Started
        /\ run[r].children \ {c} \in SUBSET Jobs
        /\ run' = [run EXCEPT ![r].pc = "unlock", ![r].children = run[r].children \ {c}]
    <3>1. run[r].children \in SUBSET Jobs
      BY DEF TypeOK
    <3> QED
      BY <1>13, <3>1, ResolverMoves DEF Started, Resolving
  <2>2. /\ run' \in [Runs -> [pc : {"idle", "retried"} \cup NotStarted \cup Started,
                              job : Jobs \cup {NULL},
                              worker : Workers \cup {NULL},
                              attempt : Nat,
                              children : SUBSET Jobs]]
        /\ RunsAssigned'
    BY <2>1, MoveType
  <2>3. /\ status' = [status EXCEPT ![c] = "QUEUED"]
        /\ due' = [due EXCEPT ![c] = TRUE]
        /\ UNCHANGED <<claimedBy, historyVars, workerVars, reaper, request, faultVars>>
    BY <1>13 DEF Unlock
  <2> QED
    BY <2>2, <2>3, RowsUnchanged DEF TypeOK, RowsOK, RequestsAssigned, JobStatus, historyVars,
       workerVars, faultVars
<1> QED
  BY <1>1, <1>2, <1>3, <1>4, <1>5, <1>6, <1>7, <1>8, <1>9, <1>10, <1>11, <1>12, <1>13
     DEF Execute

LEMMA NextType ==
    ASSUME IInv, [Next]_vars
    PROVE  TypeOK' /\ RunsAssigned' /\ RequestsAssigned'
<1>1. CASE UNCHANGED vars
  BY <1>1, RowsUnchanged DEF IInv, TypeOK, RowsOK, RunsAssigned, RequestsAssigned, vars,
     jobVars, historyVars, workerVars, faultVars
<1>2. CASE Next
  BY <1>2, JobsStepType, WorkerStepType, ClaimStepType, ReapStepType, ExecuteStepType,
     ApiStepType DEF Next
<1> QED
  BY <1>1, <1>2

-----------------------------------------------------------------------------
(***************************************************************************)
(* The history. Most steps leave it alone and at most start, move or end   *)
(* invocations; the steps that write it are treated one by one.            *)
(***************************************************************************)
HistoryInv ==
    /\ RunsOwnRows
    /\ AttemptsContiguous
    /\ AttemptHasOneExecutor
    /\ NotYetQuarantined
    /\ DlqEntriesBacked

\* What a step that writes no history may do to an invocation: nothing, end
\* it, begin it, or move it while it keeps its row.
QuietRun(r) ==
    \/ run'[r] = run[r]
    \/ run'[r].pc \in {"idle", "retried", "count"}
    \/ /\ \/ run[r].pc = "handler" /\ run'[r].pc \in {"complete", "fail"}
          \/ run[r].pc \in {"complete"} \cup Resolving /\ run'[r].pc \in {"fail"} \cup Resolving
       /\ run'[r].job = run[r].job
       /\ run'[r].worker = run[r].worker
       /\ run'[r].attempt = run[r].attempt

LEMMA QuietStep ==
    ASSUME IInv, UNCHANGED historyVars, \A r \in Runs : QuietRun(r)
    PROVE  HistoryInv'
<1>1. /\ executions' = executions /\ dlq' = dlq
      /\ \A j : Attempts(j)' = Attempts(j) /\ NextAttempt(j)' = NextAttempt(j)
  BY DEF historyVars, Attempts, NextAttempt
<1>2. ASSUME NEW r \in Runs, run'[r].pc \in Started
      PROVE  /\ run[r].pc \in Started
             /\ run'[r].job = run[r].job
             /\ run'[r].worker = run[r].worker
             /\ run'[r].attempt = run[r].attempt
             /\ run'[r].pc \in {"handler", "complete"} => run[r].pc \in {"handler", "complete"}
             /\ run'[r].pc = "route" <=> run[r].pc = "route"
  BY <1>2 DEF QuietRun, Started, Resolving
<1>3. ASSUME NEW r \in Runs, run'[r].pc = "start" PROVE run'[r] = run[r]
  BY <1>3 DEF QuietRun, Started, Resolving
<1>4. RunsOwnRows'
  <2> SUFFICES ASSUME NEW r \in Runs
               PROVE  LET j == run'[r].job
                          n == run'[r].attempt
                      IN  /\ run'[r].pc = "start" => n \in 1 .. NextAttempt(j)
                          /\ run'[r].pc \in Started =>
                                 /\ n \in Attempts(j)
                                 /\ executions[j][n].worker = run'[r].worker
                          /\ run'[r].pc \in {"handler", "complete"} => executions[j][n].status = "RUNNING"
                          /\ run'[r].pc \in Started => (run'[r].pc = "route" <=> executions[j][n].status = "FAILED")
    BY <1>1 DEF RunsOwnRows
  <2>1. CASE run'[r].pc = "start"
    BY <1>3, <2>1 DEF IInv, RunsOwnRows, Started
  <2>2. CASE run'[r].pc \in Started
    BY <1>2, <2>2 DEF IInv, RunsOwnRows, Started
  <2> QED
    BY <2>1, <2>2 DEF Started
<1>5. AttemptsContiguous'
  BY <1>1 DEF IInv, AttemptsContiguous
<1>6. AttemptHasOneExecutor'
  BY <1>2 DEF IInv, AttemptHasOneExecutor
<1>7. NotYetQuarantined'
  BY <1>1, <1>2 DEF IInv, NotYetQuarantined
<1>8. DlqEntriesBacked'
  BY <1>1 DEF IInv, DlqEntriesBacked, HasRetriesLeft
<1> QED
  BY <1>4, <1>5, <1>6, <1>7, <1>8 DEF HistoryInv

\* The effect of Goto, EndRun and ProcessEnds on the invocations.
LEMMA RunEffects ==
    ASSUME TypeOK, NEW r \in Runs
    PROVE  /\ \A pc \in Started : Goto(r, pc) =>
                 /\ run'[r].pc = pc
                 /\ run'[r].job = run[r].job
                 /\ run'[r].worker = run[r].worker
                 /\ run'[r].attempt = run[r].attempt
                 /\ run'[r].children = run[r].children
                 /\ \A s \in Runs \ {r} : run'[s] = run[s]
           /\ EndRun(r) => /\ run'[r].pc = "idle" /\ run'[r].children = {}
                           /\ \A s \in Runs \ {r} : run'[s] = run[s]
           /\ \A w \in Workers : ProcessEnds(w) =>
                 \/ run'[r] = run[r]
                 \/ run'[r].pc = "idle" /\ run'[r].children = {}
<1>1. ASSUME NEW pc \in Started, Goto(r, pc)
      PROVE  /\ run'[r].pc = pc
             /\ run'[r].job = run[r].job
             /\ run'[r].worker = run[r].worker
             /\ run'[r].attempt = run[r].attempt
             /\ run'[r].children = run[r].children
             /\ \A s \in Runs \ {r} : run'[s] = run[s]
  <2> DEFINE Moved == [run[r] EXCEPT !.pc = pc]
  <2>1. run[r] \in [pc : {"idle", "retried"} \cup NotStarted \cup Started,
                    job : Jobs \cup {NULL},
                    worker : Workers \cup {NULL},
                    attempt : Nat,
                    children : SUBSET Jobs]
    BY DEF TypeOK
  <2>2. /\ Moved.pc = pc /\ Moved.job = run[r].job
        /\ Moved.worker = run[r].worker /\ Moved.attempt = run[r].attempt
        /\ Moved.children = run[r].children
    BY <2>1
  <2>3. run' = [run EXCEPT ![r] = Moved]
    BY <1>1 DEF Goto
  <2>4. run'[r] = Moved /\ \A s \in Runs \ {r} : run'[s] = run[s]
    <3> HIDE DEF Moved
    <3> QED
      BY <2>3 DEF TypeOK
  <2> HIDE DEF Moved
  <2> QED
    BY <2>2, <2>4
<1>2. EndRun(r) => /\ run'[r].pc = "idle" /\ run'[r].children = {}
                   /\ \A s \in Runs \ {r} : run'[s] = run[s]
  BY DEF TypeOK, EndRun, IdleRun
<1>3. \A w \in Workers : ProcessEnds(w) =>
          \/ run'[r] = run[r]
          \/ run'[r].pc = "idle" /\ run'[r].children = {}
  BY DEF ProcessEnds, IdleRun
<1> QED
  BY <1>1, <1>2, <1>3

LEMMA StartHistory ==
    ASSUME IInv, NEW r \in Runs, StartExecution(r)
    PROVE  HistoryInv'
<1> DEFINE J == run[r].job
           N == run[r].attempt
           NewAttempts(j) == DOMAIN executions'[j]
<1>1. /\ TypeOK /\ J \in Jobs /\ run[r].worker \in Workers /\ run[r].pc = "start"
      /\ N \in 1 .. NextAttempt(J)
  BY DEF IInv, StartExecution, RunsAssigned, RunsOwnRows
<1>2. /\ Cardinality(Attempts(J)) \in Nat
      /\ NextAttempt(J) = Cardinality(Attempts(J)) + 1
      /\ N \in Nat \ {0}
  BY <1>1, NextAttemptType DEF NextAttempt
<1>3. /\ \A j \in Jobs :
            /\ NewAttempts(j) = IF j = J THEN Attempts(j) \cup {N} ELSE Attempts(j)
            /\ \A n \in Attempts(j) : executions'[j][n] = executions[j][n]
      /\ executions'[J][N] = [worker |-> run[r].worker, status |-> "RUNNING"]
      /\ N \notin Attempts(J)
  BY <1>1, <1>2, StartEffect DEF Attempts
<1> HIDE DEF NewAttempts
<1>4. /\ run'[r].pc = "handler" /\ run'[r].job = J
      /\ run'[r].worker = run[r].worker /\ run'[r].attempt = N
      /\ \A s \in Runs \ {r} : run'[s] = run[s]
      /\ dlq' = dlq
  BY <1>1, RunEffects DEF StartExecution, Started
\* The rows of J are numbered 1 .. c and N is at most c + 1 and free: it is c + 1.
<1>5. N = Cardinality(Attempts(J)) + 1
  BY <1>1, <1>2, <1>3 DEF IInv, AttemptsContiguous
<1>6. Cardinality(NewAttempts(J)) = Cardinality(Attempts(J)) + 1
  <2>1. IsFiniteSet(Attempts(J))
    BY <1>1 DEF TypeOK
  <2>2. Cardinality(Attempts(J) \cup {N}) = Cardinality(Attempts(J)) + 1
    BY <1>3, <2>1, FS_AddElement
  <2>3. NewAttempts(J) = Attempts(J) \cup {N}
    BY <1>1, <1>3
  <2> QED
    BY <2>2, <2>3
<1>7. \A j \in Jobs : /\ Cardinality(Attempts(j)) \in Nat
                      /\ Cardinality(NewAttempts(j)) \in Nat
                      /\ Cardinality(Attempts(j)) <= Cardinality(NewAttempts(j))
  <2>1. \A j \in Jobs : Cardinality(Attempts(j)) \in Nat
    BY <1>1, NextAttemptType
  <2> SUFFICES ASSUME NEW j \in Jobs
               PROVE  /\ Cardinality(NewAttempts(j)) \in Nat
                      /\ Cardinality(Attempts(j)) <= Cardinality(NewAttempts(j))
    BY <2>1
  <2>2. CASE j = J
    BY <1>6, <2>1, <2>2
  <2>3. CASE j # J
    <3>1. NewAttempts(j) = Attempts(j)
      BY <1>3, <2>3
    <3> QED
      BY <2>1, <3>1
  <2> QED
    BY <2>2, <2>3
<1>8. AttemptsContiguous'
  <2> SUFFICES ASSUME NEW j \in Jobs
               PROVE  NewAttempts(j) = 1 .. Cardinality(NewAttempts(j))
    BY DEF AttemptsContiguous, Attempts, NewAttempts
  <2>1. Attempts(j) = 1 .. Cardinality(Attempts(j))
    BY DEF IInv, AttemptsContiguous
  <2>2. CASE j = J
    <3> DEFINE c == Cardinality(Attempts(j))
    <3>1. c \in Nat /\ Attempts(j) = 1 .. c
      BY <1>7, <2>1
    <3>2. NewAttempts(j) = Attempts(j) \cup {c + 1}
      BY <1>3, <1>5, <2>2
    <3>3. Cardinality(NewAttempts(j)) = c + 1
      BY <1>6, <2>2
    <3> HIDE DEF c
    <3> QED
      BY <3>1, <3>2, <3>3
  <2>3. CASE j # J
    BY <1>3, <2>1, <2>3
  <2> QED
    BY <2>2, <2>3
<1>9. RunsOwnRows'
  <2> SUFFICES ASSUME NEW s \in Runs
               PROVE  LET j == run'[s].job
                          n == run'[s].attempt
                      IN  /\ run'[s].pc = "start" => n \in 1 .. Cardinality(NewAttempts(j)) + 1
                          /\ run'[s].pc \in Started =>
                                 /\ n \in NewAttempts(j)
                                 /\ executions'[j][n].worker = run'[s].worker
                          /\ run'[s].pc \in {"handler", "complete"} => executions'[j][n].status = "RUNNING"
                          /\ run'[s].pc \in Started => (run'[s].pc = "route" <=> executions'[j][n].status = "FAILED")
    BY DEF RunsOwnRows, NextAttempt, Attempts, NewAttempts
  <2>1. CASE s = r
    BY <1>1, <1>3, <1>4, <2>1 DEF Started
  <2>2. CASE s # r
    <3>1. run'[s] = run[s]
      BY <1>4, <2>2
    <3>2. run[s].pc # "idle" => run[s].job \in Jobs
      BY DEF IInv, RunsAssigned
    <3>3. run[s].pc = "start" =>
              run[s].attempt \in 1 .. Cardinality(Attempts(run[s].job)) + 1
      BY DEF IInv, RunsOwnRows, NextAttempt
    <3>4. run[s].pc = "start" =>
              run[s].attempt \in 1 .. Cardinality(NewAttempts(run[s].job)) + 1
      BY <1>7, <3>2, <3>3
    <3>5. run[s].pc \in Started =>
              /\ run[s].attempt \in Attempts(run[s].job)
              /\ executions[run[s].job][run[s].attempt].worker = run[s].worker
      BY DEF IInv, RunsOwnRows
    <3>6. /\ run[s].pc \in {"handler", "complete"} =>
                 executions[run[s].job][run[s].attempt].status = "RUNNING"
          /\ run[s].pc \in Started =>
                 (run[s].pc = "route" <=> executions[run[s].job][run[s].attempt].status = "FAILED")
      BY DEF IInv, RunsOwnRows
    <3> QED
      BY <1>3, <3>1, <3>2, <3>4, <3>5, <3>6 DEF Started
  <2> QED
    BY <2>1, <2>2
<1>10. \A s \in Runs \ {r} : run[s].pc \in Started => run[s].job # J \/ run[s].attempt # N
  BY <1>3 DEF IInv, RunsOwnRows
<1>11. AttemptHasOneExecutor'
  BY <1>4, <1>10 DEF IInv, AttemptHasOneExecutor, Started
<1>12. NotYetQuarantined'
  <2>1. \A i \in DOMAIN dlq[J] : dlq[J][i].totalAttempts # N
    BY <1>1, <1>3 DEF IInv, DlqEntriesBacked
  <2> QED
    BY <1>4, <2>1 DEF IInv, NotYetQuarantined
<1>13. DlqEntriesBacked'
  <2> SUFFICES ASSUME NEW j \in Jobs, NEW i \in DOMAIN dlq[j]
               PROVE  LET n == dlq[j][i].totalAttempts
                      IN  /\ ~HasRetriesLeft(n)
                          /\ n \in NewAttempts(j)
                          /\ executions'[j][n].status = "FAILED"
                          /\ \A k \in DOMAIN dlq[j] : dlq[j][k].totalAttempts = n => k = i
    BY <1>4 DEF DlqEntriesBacked, HasRetriesLeft, Attempts, NewAttempts
  <2> QED
    BY <1>3 DEF IInv, DlqEntriesBacked
<1> QED
  BY <1>8, <1>9, <1>11, <1>12, <1>13 DEF HistoryInv

\* Counting promises a number one past the rows, which RunsOwnRows allows.
LEMMA CountHistory ==
    ASSUME IInv, NEW r \in Runs, CountExecutions(r)
    PROVE  HistoryInv'
<1> DEFINE J == run[r].job
           Counted == [run[r] EXCEPT !.pc = "start", !.attempt = NextAttempt(J)]
<1>1. TypeOK /\ J \in Jobs /\ run[r].pc = "count"
  BY DEF IInv, CountExecutions, RunsAssigned
<1>2. NextAttempt(J) \in Nat \ {0}
  BY <1>1, NextAttemptType
<1>3. /\ Counted.pc = "start" /\ Counted.job = J
      /\ Counted.attempt = NextAttempt(J)
  BY <1>1 DEF TypeOK
<1>4. run' = [run EXCEPT ![r] = Counted]
  BY DEF CountExecutions
<1>5. run'[r] = Counted /\ \A s \in Runs \ {r} : run'[s] = run[s]
  <2> HIDE DEF Counted
  <2> QED
    BY <1>1, <1>4 DEF TypeOK
<1> HIDE DEF Counted
<1>6. /\ executions' = executions /\ dlq' = dlq
      /\ \A j : Attempts(j)' = Attempts(j) /\ NextAttempt(j)' = NextAttempt(j)
  BY DEF CountExecutions, historyVars, Attempts, NextAttempt
<1>7. \A s \in Runs : run'[s].pc \in Started => run'[s] = run[s] /\ s # r
  BY <1>3, <1>5 DEF Started
<1>8. RunsOwnRows'
  <2> SUFFICES ASSUME NEW s \in Runs
               PROVE  LET j == run'[s].job
                          n == run'[s].attempt
                      IN  /\ run'[s].pc = "start" => n \in 1 .. NextAttempt(j)
                          /\ run'[s].pc \in Started =>
                                 /\ n \in Attempts(j)
                                 /\ executions[j][n].worker = run'[s].worker
                          /\ run'[s].pc \in {"handler", "complete"} => executions[j][n].status = "RUNNING"
                          /\ run'[s].pc \in Started => (run'[s].pc = "route" <=> executions[j][n].status = "FAILED")
    BY <1>6 DEF RunsOwnRows
  <2>1. CASE s = r
    BY <1>2, <1>3, <1>5, <2>1 DEF Started
  <2>2. CASE s # r
    BY <1>5, <2>2 DEF IInv, RunsOwnRows
  <2> QED
    BY <2>1, <2>2
<1>9. AttemptsContiguous'
  BY <1>6 DEF IInv, AttemptsContiguous
<1>10. AttemptHasOneExecutor'
  BY <1>7 DEF IInv, AttemptHasOneExecutor
<1>11. NotYetQuarantined'
  BY <1>6, <1>7 DEF IInv, NotYetQuarantined
<1>12. DlqEntriesBacked'
  BY <1>6 DEF IInv, DlqEntriesBacked, HasRetriesLeft
<1> QED
  BY <1>8, <1>9, <1>10, <1>11, <1>12 DEF HistoryInv

\* Recording an outcome touches a row that no other invocation owns and that
\* is not quarantined.
LEMMA FinishHistory ==
    ASSUME IInv, NEW r \in Runs, Complete(r) \/ RecordFailure(r)
    PROVE  HistoryInv'
<1> DEFINE J == run[r].job
           N == run[r].attempt
<1>1. /\ TypeOK /\ J \in Jobs /\ N \in Attempts(J)
      /\ run[r].pc \in Started
  BY DEF IInv, Complete, RecordFailure, RunsAssigned, RunsOwnRows, Started
<1>2. PICK outcome \in ExecutionStatus, pc \in {"resolve", "route"} :
          /\ FinishExecution(r, outcome)
          /\ Goto(r, pc)
          /\ pc = "route" <=> outcome = "FAILED"
  BY DEF Complete, RecordFailure, ExecutionStatus
<1>3. dlq' = dlq
  BY DEF Complete, RecordFailure
<1>4. /\ \A j \in Jobs : Attempts(j)' = Attempts(j)
      /\ \A j \in Jobs : \A n \in Attempts(j) :
            /\ executions'[j][n].worker = executions[j][n].worker
            /\ executions'[j][n].status =
                  IF j = J /\ n = N THEN outcome ELSE executions[j][n].status
  BY <1>1, <1>2, FinishEffect
<1>5. /\ run'[r].pc = pc /\ run'[r].job = J
      /\ run'[r].worker = run[r].worker /\ run'[r].attempt = N
      /\ \A s \in Runs \ {r} : run'[s] = run[s]
  BY <1>1, <1>2, RunEffects DEF Started
<1>6. \A s \in Runs \ {r} : run[s].pc \in Started => run[s].job # J \/ run[s].attempt # N
  BY <1>1 DEF IInv, AttemptHasOneExecutor
<1>7. AttemptsContiguous'
  <2> SUFFICES ASSUME NEW j \in Jobs
               PROVE  (Attempts(j) = 1 .. Cardinality(Attempts(j)))'
    BY DEF AttemptsContiguous
  <2> QED
    BY <1>4 DEF IInv, AttemptsContiguous
<1>8. RunsOwnRows'
  <2> SUFFICES ASSUME NEW s \in Runs
               PROVE  LET j == run'[s].job
                          n == run'[s].attempt
                          rows == DOMAIN executions'[j]
                      IN  /\ run'[s].pc = "start" => n \in 1 .. Cardinality(rows) + 1
                          /\ run'[s].pc \in Started =>
                                 /\ n \in rows
                                 /\ executions'[j][n].worker = run'[s].worker
                          /\ run'[s].pc \in {"handler", "complete"} => executions'[j][n].status = "RUNNING"
                          /\ run'[s].pc \in Started => (run'[s].pc = "route" <=> executions'[j][n].status = "FAILED")
    BY DEF RunsOwnRows, NextAttempt, Attempts
  <2>1. \A j \in Jobs : DOMAIN executions'[j] = Attempts(j)
    BY <1>4 DEF Attempts
  <2>2. CASE s = r
    <3>1. executions[J][N].worker = run[r].worker
      BY <1>1 DEF IInv, RunsOwnRows
    <3> QED
      BY <1>1, <1>2, <1>4, <1>5, <2>1, <2>2, <3>1
  <2>3. CASE s # r
    <3>1. run'[s] = run[s] /\ (run[s].pc # "idle" => run[s].job \in Jobs)
      BY <1>5, <2>3 DEF IInv, RunsAssigned
    <3>2. /\ run[s].pc = "start" =>
                 run[s].attempt \in 1 .. Cardinality(Attempts(run[s].job)) + 1
          /\ run[s].pc \in Started =>
                 /\ run[s].attempt \in Attempts(run[s].job)
                 /\ executions[run[s].job][run[s].attempt].worker = run[s].worker
          /\ run[s].pc \in {"handler", "complete"} =>
                 executions[run[s].job][run[s].attempt].status = "RUNNING"
          /\ run[s].pc \in Started =>
                 (run[s].pc = "route" <=> executions[run[s].job][run[s].attempt].status = "FAILED")
      BY DEF IInv, RunsOwnRows, NextAttempt
    <3> QED
      BY <1>4, <1>6, <2>1, <2>3, <3>1, <3>2 DEF Started
  <2> QED
    BY <2>2, <2>3
<1>9. AttemptHasOneExecutor'
  BY <1>1, <1>5 DEF IInv, AttemptHasOneExecutor
<1>10. NotYetQuarantined'
  BY <1>1, <1>3, <1>5 DEF IInv, NotYetQuarantined
<1>11. DlqEntriesBacked'
  <2>1. \A i \in DOMAIN dlq[J] : dlq[J][i].totalAttempts # N
    BY <1>1 DEF IInv, NotYetQuarantined
  <2> SUFFICES ASSUME NEW j \in Jobs, NEW i \in DOMAIN dlq[j]
               PROVE  LET n == dlq[j][i].totalAttempts
                      IN  /\ ~HasRetriesLeft(n)
                          /\ n \in DOMAIN executions'[j]
                          /\ executions'[j][n].status = "FAILED"
                          /\ \A k \in DOMAIN dlq[j] : dlq[j][k].totalAttempts = n => k = i
    BY <1>3 DEF DlqEntriesBacked, HasRetriesLeft, Attempts
  <2>2. DOMAIN executions'[j] = Attempts(j)
    BY <1>4 DEF Attempts
  <2> QED
    BY <1>4, <2>1, <2>2 DEF IInv, DlqEntriesBacked
<1> QED
  BY <1>7, <1>8, <1>9, <1>10, <1>11 DEF HistoryInv

\* A failure that is quarantined has a row of its own that stays FAILED: its
\* invocation ends with the transaction.
LEMMA DeadLetterHistory ==
    ASSUME IInv, NEW r \in Runs, DeadLetter(r)
    PROVE  HistoryInv'
<1> DEFINE J == run[r].job
           N == run[r].attempt
           Entry == [totalAttempts |-> N, replayed |-> FALSE]
<1>1. /\ TypeOK /\ J \in Jobs /\ run[r].pc = "route" /\ N \in Nat
      /\ N \in Attempts(J) /\ executions[J][N].status = "FAILED"
      /\ ~HasRetriesLeft(N)
      /\ \A i \in DOMAIN dlq[J] : dlq[J][i].totalAttempts # N
  BY DEF IInv, DeadLetter, TypeOK, RunsAssigned, RunsOwnRows, NotYetQuarantined, Started
<1>2. /\ executions' = executions
      /\ \A j : Attempts(j)' = Attempts(j) /\ NextAttempt(j)' = NextAttempt(j)
  BY DEF DeadLetter, Attempts, NextAttempt
<1>3. run'[r].pc = "idle" /\ \A s \in Runs \ {r} : run'[s] = run[s]
  BY <1>1, RunEffects DEF DeadLetter
<1>4. /\ dlq'[J] = Append(dlq[J], Entry)
      /\ \A j \in Jobs : j # J => dlq'[j] = dlq[j]
  BY <1>1 DEF DeadLetter, TypeOK
<1>5. /\ DOMAIN dlq'[J] = DOMAIN dlq[J] \cup {Len(dlq[J]) + 1}
      /\ Len(dlq[J]) + 1 \notin DOMAIN dlq[J]
      /\ \A i \in DOMAIN dlq[J] : dlq'[J][i] = dlq[J][i]
      /\ dlq'[J][Len(dlq[J]) + 1].totalAttempts = N
  <2>1. dlq[J] \in Seq(DlqEntry) /\ Entry \in DlqEntry /\ Entry.totalAttempts = N
    BY <1>1 DEF TypeOK, DlqEntry
  <2> HIDE DEF Entry
  <2> QED
    BY <1>4, <2>1
<1>6. \A s \in Runs : run'[s].pc \in Started => run'[s] = run[s] /\ s # r
  BY <1>3 DEF Started
<1>7. \A s \in Runs : run'[s].pc = "start" => run'[s] = run[s]
  BY <1>3
<1>8. RunsOwnRows'
  <2> SUFFICES ASSUME NEW s \in Runs
               PROVE  LET j == run'[s].job
                          n == run'[s].attempt
                      IN  /\ run'[s].pc = "start" => n \in 1 .. NextAttempt(j)
                          /\ run'[s].pc \in Started =>
                                 /\ n \in Attempts(j)
                                 /\ executions[j][n].worker = run'[s].worker
                          /\ run'[s].pc \in {"handler", "complete"} => executions[j][n].status = "RUNNING"
                          /\ run'[s].pc \in Started => (run'[s].pc = "route" <=> executions[j][n].status = "FAILED")
    BY <1>2 DEF RunsOwnRows
  <2> QED
    BY <1>6, <1>7 DEF IInv, RunsOwnRows, Started
<1>9. AttemptsContiguous'
  BY <1>2 DEF IInv, AttemptsContiguous
<1>10. AttemptHasOneExecutor'
  BY <1>6 DEF IInv, AttemptHasOneExecutor
<1>11. NotYetQuarantined'
  <2> SUFFICES ASSUME NEW s \in Runs, run[s].pc \in Started, s # r,
                      NEW i \in DOMAIN dlq'[run[s].job]
               PROVE  dlq'[run[s].job][i].totalAttempts # run[s].attempt
    BY <1>6 DEF NotYetQuarantined
  <2>1. /\ run[s].job \in Jobs
        /\ \A k \in DOMAIN dlq[run[s].job] :
              dlq[run[s].job][k].totalAttempts # run[s].attempt
    BY DEF IInv, RunsAssigned, NotYetQuarantined, Started
  <2>2. run[s].job = J => run[s].attempt # N
    BY <1>1 DEF IInv, AttemptHasOneExecutor, Started
  <2> QED
    BY <1>4, <1>5, <2>1, <2>2
<1>12. DlqEntriesBacked'
  <2> SUFFICES ASSUME NEW j \in Jobs, NEW i \in DOMAIN dlq'[j]
               PROVE  LET n == dlq'[j][i].totalAttempts
                      IN  /\ ~HasRetriesLeft(n)
                          /\ n \in Attempts(j)
                          /\ executions[j][n].status = "FAILED"
                          /\ \A k \in DOMAIN dlq'[j] : dlq'[j][k].totalAttempts = n => k = i
    BY <1>2 DEF DlqEntriesBacked, HasRetriesLeft
  <2>1. CASE j # J
    BY <1>4, <2>1 DEF IInv, DlqEntriesBacked
  <2>2. CASE j = J /\ i \in DOMAIN dlq[J]
    BY <1>1, <1>5, <2>2 DEF IInv, DlqEntriesBacked
  <2>3. CASE j = J /\ i = Len(dlq[J]) + 1
    BY <1>1, <1>5, <2>3
  <2> QED
    BY <1>5, <2>1, <2>2, <2>3
<1> QED
  BY <1>8, <1>9, <1>10, <1>11, <1>12 DEF HistoryInv

\* A replay marks an entry and leaves its attempt number alone.
LEMMA ReplayEffect ==
    ASSUME TypeOK, NEW q \in Requests, NEW j \in Jobs, NEW i \in DOMAIN dlq[j],
           ReplayDlq(q, j, i)
    PROVE  \A k \in Jobs :
              /\ DOMAIN dlq'[k] = DOMAIN dlq[k]
              /\ \A m \in DOMAIN dlq[k] :
                    /\ dlq'[k][m].totalAttempts = dlq[k][m].totalAttempts
                    /\ (k # j \/ m # i) => dlq'[k][m].replayed = dlq[k][m].replayed
<1> DEFINE Marked == [dlq[j][i] EXCEPT !.replayed = TRUE]
           Entries == [dlq[j] EXCEPT ![i] = Marked]
<1>1. dlq[j] \in Seq(DlqEntry) /\ dlq[j][i] \in DlqEntry
  BY DEF TypeOK
<1>2. Marked.totalAttempts = dlq[j][i].totalAttempts
  BY <1>1 DEF DlqEntry
<1>3. dlq' = [dlq EXCEPT ![j] = Entries]
  BY DEF ReplayDlq
<1>4. /\ DOMAIN Entries = DOMAIN dlq[j]
      /\ Entries[i] = Marked
      /\ \A m \in DOMAIN dlq[j] : m # i => Entries[m] = dlq[j][m]
  <2> HIDE DEF Marked
  <2> QED
    BY <1>1
<1> HIDE DEF Marked, Entries
<1>5. dlq'[j] = Entries /\ \A k \in Jobs : k # j => dlq'[k] = dlq[k]
  BY <1>3 DEF TypeOK
<1> QED
  BY <1>2, <1>4, <1>5

LEMMA ReplayHistory ==
    ASSUME IInv, NEW q \in Requests, NEW j \in Jobs, NEW i \in DOMAIN dlq[j],
           ReplayDlq(q, j, i)
    PROVE  HistoryInv'
<1>1. /\ UNCHANGED <<executions, run>>
      /\ \A k : Attempts(k)' = Attempts(k) /\ NextAttempt(k)' = NextAttempt(k)
  BY DEF ReplayDlq, Attempts, NextAttempt
<1>2. \A k \in Jobs :
          /\ DOMAIN dlq'[k] = DOMAIN dlq[k]
          /\ \A m \in DOMAIN dlq[k] : dlq'[k][m].totalAttempts = dlq[k][m].totalAttempts
  BY ReplayEffect DEF IInv
<1>3. RunsOwnRows' /\ AttemptsContiguous' /\ AttemptHasOneExecutor'
  BY <1>1 DEF IInv, RunsOwnRows, AttemptsContiguous, AttemptHasOneExecutor
<1>4. NotYetQuarantined'
  BY <1>1, <1>2 DEF IInv, NotYetQuarantined, RunsAssigned, Started
<1>5. DlqEntriesBacked'
  BY <1>1, <1>2 DEF IInv, DlqEntriesBacked, HasRetriesLeft
<1> QED
  BY <1>3, <1>4, <1>5 DEF HistoryInv

\* Scheduling a retry lets go of the row.
LEMMA RetryHistory ==
    ASSUME IInv, NEW r \in Runs, ScheduleRetry(r)
    PROVE  HistoryInv'
<1>1. run' = [run EXCEPT ![r].pc = "retried"] /\ UNCHANGED historyVars
  BY DEF ScheduleRetry, Goto
<1>2. run'[r].pc = "retried" /\ \A s \in Runs : s # r => run'[s] = run[s]
  BY <1>1 DEF IInv, TypeOK
<1> QED
  BY <1>1, <1>2, QuietStep DEF QuietRun

\* The steps of a resolver and the catch block keep the row of the invocation.
LEMMA ResolverHistory ==
    ASSUME IInv, NEW r \in Runs,
           \/ ReadChildren(r) \/ ReadParents(r) \/ \E c \in Jobs : Unlock(r, c)
           \/ DbErrorInRun(r)
    PROVE  HistoryInv'
<1>1. UNCHANGED historyVars
  BY DEF ReadChildren, ReadParents, Unlock, DbErrorInRun
<1>2. CASE EndRun(r)
  BY <1>1, <1>2, QuietStep, RunEffects DEF IInv, QuietRun
<1>3. ASSUME NEW pc \in {"fail"} \cup Resolving, NEW C \in SUBSET Jobs,
             run[r].pc \in {"complete"} \cup Resolving,
             run' = [run EXCEPT ![r].pc = pc, ![r].children = C]
      PROVE  HistoryInv'
  <2>1. /\ run[r].pc # "idle" /\ pc \in NotStarted \cup Started
        /\ run' = [run EXCEPT ![r].pc = pc, ![r].children = C]
    BY <1>3 DEF Started, Resolving
  <2> DEFINE Moved == [run[r] EXCEPT !.pc = pc, !.children = C]
  <2>2. run'[r] = Moved /\ \A s \in Runs : s # r => run'[s] = run[s]
    BY <2>1, MoveType
  <2>3. /\ Moved.pc = pc /\ Moved.job = run[r].job
        /\ Moved.worker = run[r].worker /\ Moved.attempt = run[r].attempt
    BY DEF IInv, TypeOK
  <2> HIDE DEF Moved
  <2>4. \A s \in Runs : QuietRun(s)
    BY <1>3, <2>2, <2>3 DEF QuietRun
  <2> QED
    BY <1>1, <2>4, QuietStep
<1>4. CASE ~EndRun(r)
  <2>1. \E pc \in {"fail"} \cup Resolving, C \in SUBSET Jobs :
            /\ run[r].pc \in {"complete"} \cup Resolving
            /\ run' = [run EXCEPT ![r].pc = pc, ![r].children = C]
    <3>1. run[r].children \in SUBSET Jobs
      BY DEF IInv, TypeOK
    <3>2. CASE ReadChildren(r) \/ ReadParents(r)
      BY <3>1, <3>2, ResolverMoves DEF Resolving
    <3>3. CASE \E c \in Jobs : Unlock(r, c)
      <4>1. PICK c \in Jobs : Unlock(r, c)
        BY <3>3
      <4>2. run[r].children \ {c} \in SUBSET Jobs
        BY <3>1
      <4> QED
        BY <4>1, <4>2, ResolverMoves DEF Resolving
    <3>4. CASE DbErrorInRun(r)
      <4>1. {} \in SUBSET Jobs
        OBVIOUS
      <4> QED
        BY <1>4, <3>4, <4>1 DEF DbErrorInRun
    <3> QED
      BY <3>2, <3>3, <3>4
  <2> QED
    BY <1>3, <2>1
<1> QED
  BY <1>2, <1>4

LEMMA ExecuteHistory ==
    ASSUME IInv, NEW r \in Runs, Execute(r) \/ DbErrorInRun(r)
    PROVE  HistoryInv'
<1> USE DEF QuietRun
<1>1. CASE CountExecutions(r)
  BY <1>1, CountHistory
<1>2. CASE StartExecution(r)
  BY <1>2, StartHistory
<1>3. CASE Complete(r) \/ RecordFailure(r)
  BY <1>3, FinishHistory
<1>4. CASE DeadLetter(r)
  BY <1>4, DeadLetterHistory
<1>5. CASE StartRejected(r) \/ Resolved(r) \/ RetryLogged(r)
  BY <1>5, QuietStep, RunEffects DEF IInv, StartRejected, Resolved, RetryLogged
<1>6. CASE HandlerSucceeds(r)
  <2>1. /\ Goto(r, "complete") /\ UNCHANGED historyVars
        /\ run[r].pc = "handler" /\ "complete" \in Started
    BY <1>6 DEF HandlerSucceeds, Started
  <2> QED
    BY <2>1, QuietStep, RunEffects DEF IInv
<1>7. CASE HandlerFails(r)
  <2>1. /\ Goto(r, "fail") /\ UNCHANGED historyVars
        /\ run[r].pc = "handler" /\ "fail" \in Started
    BY <1>7 DEF HandlerFails, Started
  <2> QED
    BY <2>1, QuietStep, RunEffects DEF IInv
<1>8. CASE ScheduleRetry(r)
  BY <1>8, RetryHistory
<1>9. CASE \/ ReadChildren(r) \/ ReadParents(r) \/ (\E c \in Jobs : Unlock(r, c))
           \/ DbErrorInRun(r)
  BY <1>9, ResolverHistory
<1> QED
  BY <1>1, <1>2, <1>3, <1>4, <1>5, <1>6, <1>7, <1>8, <1>9 DEF Execute

LEMMA NextHistory ==
    ASSUME IInv, [Next]_vars
    PROVE  HistoryInv'
<1> USE DEF QuietRun
<1>1. CASE UNCHANGED vars
  BY <1>1, QuietStep DEF vars, historyVars
<1>2. ASSUME NEW j \in Jobs, Submit(j) \/ RunAtPasses(j)
      PROVE  HistoryInv'
  BY <1>2, QuietStep DEF Submit, RunAtPasses
<1>3. ASSUME NEW w \in Workers,
             \/ Register(w) \/ Heartbeat(w) \/ HeartbeatExpires(w) \/ LatePing(w)
             \/ Shutdown(w) \/ SetDraining(w) \/ Drained(w)
      PROVE  HistoryInv'
  <2>1. UNCHANGED <<historyVars, run>>
    BY <1>3 DEF Register, Heartbeat, HeartbeatExpires, LatePing, Shutdown, SetDraining, Drained
  <2> QED
    BY <2>1, QuietStep
<1>4. ASSUME NEW w \in Workers, Crash(w) \/ Exit(w)
      PROVE  HistoryInv'
  BY <1>4, QuietStep, RunEffects DEF IInv, Crash, Exit
<1>5. ASSUME NEW w \in Workers, ClaimJobs(w)
      PROVE  HistoryInv'
  BY <1>5, QuietStep, ClaimStepType DEF ClaimJobs
<1>6. ASSUME NEW q \in Requests, Api(q)
      PROVE  HistoryInv'
  <2>1. CASE UNCHANGED <<historyVars, run>>
    BY <2>1, QuietStep
  <2>2. CASE \E j \in Jobs : \E i \in DOMAIN dlq[j] : ReplayDlq(q, j, i)
    BY <2>2, ReplayHistory
  <2> QED
    BY <1>6, <2>1, <2>2 DEF Api, CancelRead, RetryRead, Admit, CancelWrite, RetryWrite
<1>7. ASSUME NEW p \in Passes, Reap(p) \/ ReaperThrows(p)
      PROVE  HistoryInv'
  <2>1. UNCHANGED <<historyVars, run>>
    BY <1>7 DEF Reap, ReapScan, ReapMark, ReapFind, ReapRequeue, ReaperThrows
  <2> QED
    BY <2>1, QuietStep
<1> QED
  BY <1>1, <1>2, <1>3, <1>4, <1>5, <1>6, <1>7, ExecuteHistory DEF Next, Drain

-----------------------------------------------------------------------------
\* The inductive invariant holds in every state.
THEOREM Invariance == Spec => []IInv
<1>1. Init => IInv
  <2> SUFFICES ASSUME Init PROVE IInv
    OBVIOUS
  <2>1. TypeOK /\ RunsAssigned /\ RequestsAssigned
    BY InitType
  <2>2. \A r \in Runs : run[r].pc = "idle"
    BY DEF Init, IdleRun
  <2>3. \A j \in Jobs : dlq[j] = << >> /\ executions[j] = << >>
    BY DEF Init
  <2>4. AttemptsContiguous
    <3>1. \A j \in Jobs : Attempts(j) = {}
      BY <2>3 DEF Attempts
    <3> QED
      BY <3>1, FS_EmptySet DEF AttemptsContiguous
  <2>5. RunsOwnRows /\ AttemptHasOneExecutor /\ NotYetQuarantined
    BY <2>2 DEF RunsOwnRows, AttemptHasOneExecutor, NotYetQuarantined, Started
  <2>6. DlqEntriesBacked
    BY <2>3 DEF DlqEntriesBacked
  <2> QED
    BY <2>1, <2>4, <2>5, <2>6 DEF IInv
<1>2. IInv /\ [Next]_vars => IInv'
  BY NextType, NextHistory DEF IInv, HistoryInv
<1> QED
  BY <1>1, <1>2, PTL DEF Spec

\* Every variable keeps its type, whatever the processes do.
THEOREM TypeCorrect == Spec => []TypeOK
<1>1. IInv => TypeOK
  BY DEF IInv
<1> QED
  BY <1>1, Invariance, PTL

\* The attempts of a job are numbered without a gap, although they are
\* counted in one statement and recorded in another.
THEOREM AttemptNumbersContiguous == Spec => []AttemptsContiguous
<1>1. IInv => AttemptsContiguous
  BY DEF IInv
<1> QED
  BY <1>1, Invariance, PTL

\* No two invocations ever work on the same execution row.
THEOREM OneExecutorPerAttempt == Spec => []AttemptHasOneExecutor
<1>1. IInv => AttemptHasOneExecutor
  BY DEF IInv
<1> QED
  BY <1>1, Invariance, PTL

\* Every quarantined failure is the recorded failure of an attempt of its own.
THEOREM QuarantineIsBacked == Spec => []DlqEntriesBacked
<1>1. IInv => DlqEntriesBacked
  BY DEF IInv
<1> QED
  BY <1>1, Invariance, PTL

-----------------------------------------------------------------------------
\* One step of HistoryIsMonotonic.
HistoryGrows ==
    \A j \in Jobs : \A n \in Attempts(j) :
        /\ n \in Attempts(j)'
        /\ executions'[j][n].worker = executions[j][n].worker
        /\ executions'[j][n].status = "RUNNING" => executions[j][n].status = "RUNNING"
        /\ executions[j][n].status = "FAILED" => executions'[j][n].status = "FAILED"

\* Only three steps write execution rows.
LEMMA HistoryWriters ==
    ASSUME [Next]_vars
    PROVE  \/ UNCHANGED executions
           \/ \E r \in Runs : StartExecution(r) \/ Complete(r) \/ RecordFailure(r)
<1>1. CASE UNCHANGED vars
  BY <1>1 DEF vars, historyVars
<1>2. ASSUME NEW w \in Workers,
             \/ Register(w) \/ Heartbeat(w) \/ HeartbeatExpires(w) \/ LatePing(w)
             \/ Crash(w) \/ Shutdown(w) \/ Drain(w)
             \/ ClaimJobs(w)
      PROVE  UNCHANGED executions
  BY <1>2 DEF Register, Heartbeat, HeartbeatExpires, LatePing, Crash, Shutdown, Drain,
     SetDraining, Drained, Exit, ClaimJobs, historyVars
<1>3. ASSUME NEW r \in Runs, Execute(r) \/ DbErrorInRun(r)
      PROVE  \/ UNCHANGED executions
             \/ StartExecution(r) \/ Complete(r) \/ RecordFailure(r)
  BY <1>3 DEF Execute, CountExecutions, StartRejected, HandlerSucceeds, HandlerFails,
     ReadChildren, ReadParents, Unlock, Resolved, ScheduleRetry, RetryLogged, DeadLetter,
     DbErrorInRun, historyVars
<1>4. ASSUME NEW q \in Requests, Api(q)
      PROVE  UNCHANGED executions
  BY <1>4 DEF Api, CancelRead, RetryRead, Admit, CancelWrite, RetryWrite, ReplayDlq, historyVars
<1>5. ASSUME NEW j \in Jobs, Submit(j) \/ RunAtPasses(j)
      PROVE  UNCHANGED executions
  BY <1>5 DEF Submit, RunAtPasses, historyVars
<1>6. ASSUME NEW p \in Passes, Reap(p) \/ ReaperThrows(p)
      PROVE  UNCHANGED executions
  BY <1>6 DEF Reap, ReapScan, ReapMark, ReapFind, ReapRequeue, ReaperThrows, historyVars
<1> QED
  BY <1>1, <1>2, <1>3, <1>4, <1>5, <1>6 DEF Next

LEMMA HistoryStep ==
    ASSUME IInv, [Next]_vars
    PROVE  HistoryGrows
<1>1. CASE UNCHANGED executions
  BY <1>1 DEF HistoryGrows, Attempts
<1>2. ASSUME NEW r \in Runs, StartExecution(r)
      PROVE  HistoryGrows
  <2>1. /\ TypeOK /\ run[r].job \in Jobs /\ run[r].worker \in Workers
        /\ run[r].attempt \in 1 .. NextAttempt(run[r].job)
    BY <1>2 DEF IInv, StartExecution, RunsAssigned, RunsOwnRows
  <2>2. run[r].attempt \in Nat \ {0}
    BY <2>1, NextAttemptType
  <2>3. \A j \in Jobs :
            /\ Attempts(j) \subseteq Attempts(j)'
            /\ \A n \in Attempts(j) : executions'[j][n] = executions[j][n]
    BY <1>2, <2>1, <2>2, StartEffect
  <2> QED
    BY <2>3 DEF HistoryGrows
\* A success is written over a row that still says RUNNING.
<1>3. ASSUME NEW r \in Runs, NEW outcome \in {"SUCCESS", "FAILED"},
             Complete(r) \/ RecordFailure(r), FinishExecution(r, outcome),
             outcome = "SUCCESS" => run[r].pc = "complete"
      PROVE  HistoryGrows
  <2>1. /\ TypeOK /\ run[r].job \in Jobs
        /\ run[r].attempt \in Attempts(run[r].job)
        /\ run[r].pc = "complete" =>
              executions[run[r].job][run[r].attempt].status = "RUNNING"
    BY <1>3 DEF IInv, Complete, RecordFailure, RunsAssigned, RunsOwnRows, Started
  <2>2. /\ \A j \in Jobs : Attempts(j)' = Attempts(j)
        /\ \A j \in Jobs : \A n \in Attempts(j) :
              /\ executions'[j][n].worker = executions[j][n].worker
              /\ executions'[j][n].status =
                    IF j = run[r].job /\ n = run[r].attempt THEN outcome
                    ELSE executions[j][n].status
    BY <1>3, <2>1, FinishEffect DEF ExecutionStatus
  <2> QED
    BY <1>3, <2>1, <2>2 DEF HistoryGrows
<1>4. ASSUME NEW r \in Runs, Complete(r) PROVE HistoryGrows
  BY <1>3, <1>4 DEF Complete
<1>5. ASSUME NEW r \in Runs, RecordFailure(r) PROVE HistoryGrows
  BY <1>3, <1>5 DEF RecordFailure
<1> QED
  BY <1>1, <1>2, <1>4, <1>5, HistoryWriters

\* The execution history only grows, and what it says of a failure is final.
THEOREM HistoryMonotonic == Spec => HistoryIsMonotonic
<1>1. IInv /\ [Next]_vars => [HistoryGrows]_vars
  BY HistoryStep
<1>2. [][HistoryGrows]_vars <=> HistoryIsMonotonic
  BY DEF HistoryIsMonotonic, HistoryGrows
<1> QED
  BY <1>1, <1>2, Invariance, PTL DEF Spec

-----------------------------------------------------------------------------
(***************************************************************************)
(* Only a resolver carries jobs: children of the job that it completed.    *)
(***************************************************************************)
LEMMA ChildrenStep ==
    ASSUME IInv, ChildrenDepend, [Next]_vars
    PROVE  ChildrenDepend'
<1> USE DEF IInv
<1>1. CASE UNCHANGED run
  BY <1>1 DEF ChildrenDepend
<1>2. ASSUME NEW w \in Workers, ProcessEnds(w) PROVE ChildrenDepend'
  <2>1. \A r \in Runs : run'[r] = run[r] \/ run'[r].children = {}
    BY <1>2, RunEffects
  <2> QED
    BY <2>1 DEF ChildrenDepend
<1>3. ASSUME NEW w \in Workers, ClaimJobs(w) PROVE ChildrenDepend'
  <2>1. \A r \in Runs : run'[r] = run[r] \/ run'[r].children = {}
    BY <1>3 DEF ClaimJobs, Claim
  <2> QED
    BY <2>1 DEF ChildrenDepend
<1>4. ASSUME NEW r \in Runs, \A s \in Runs \ {r} : run'[s] = run[s],
             run'[r].children # {} =>
                 /\ run'[r].pc \in {"parents", "unlock"}
                 /\ \A c \in run'[r].children : run'[r].job \in Parents[c]
      PROVE  ChildrenDepend'
  BY <1>4 DEF ChildrenDepend
<1>5. ASSUME NEW r \in Runs, Execute(r) \/ DbErrorInRun(r) PROVE ChildrenDepend'
  <2>1. ASSUME NEW pc \in Started, Goto(r, pc), run[r].pc \notin {"parents", "unlock"}
        PROVE  ChildrenDepend'
    <3>1. run'[r].children = {}
      BY <2>1, RunEffects DEF ChildrenDepend
    <3> QED
      BY <1>4, <2>1, <3>1, RunEffects
  <2>2. CASE EndRun(r)
    BY <1>4, <2>2, RunEffects
  <2>3. ASSUME NEW pc \in NotStarted \cup Started, NEW C \in SUBSET Jobs, run[r].pc # "idle",
               run' = [run EXCEPT ![r].pc = pc, ![r].children = C],
               C # {} => pc \in {"parents", "unlock"} /\ \A c \in C : run[r].job \in Parents[c]
        PROVE  ChildrenDepend'
    <3>1. /\ run'[r] = [run[r] EXCEPT !.pc = pc, !.children = C]
          /\ \A s \in Runs \ {r} : run'[s] = run[s]
      BY <2>3, MoveType
    <3>2. run[r] \in [pc : {"idle", "retried"} \cup NotStarted \cup Started,
                      job : Jobs \cup {NULL},
                      worker : Workers \cup {NULL},
                      attempt : Nat,
                      children : SUBSET Jobs]
      BY DEF TypeOK
    <3>3. run'[r].pc = pc /\ run'[r].children = C /\ run'[r].job = run[r].job
      BY <3>1, <3>2
    <3> QED
      BY <1>4, <2>3, <3>1, <3>3
  <2>4. CASE ReadChildren(r)
    <3>1. PICK pc \in {"parents", "unlock"}, C \in SUBSET Jobs :
              /\ \A c \in C : run[r].job \in Parents[c]
              /\ run' = [run EXCEPT ![r].pc = pc, ![r].children = C]
      BY <2>4, ResolverMoves
    <3> QED
      BY <2>3, <2>4, <3>1 DEF ReadChildren, Started
  <2>5. CASE ReadParents(r)
    <3>1. PICK C \in SUBSET run[r].children :
              run' = [run EXCEPT ![r].pc = "unlock", ![r].children = C]
      BY <2>5, ResolverMoves
    <3>2. C \in SUBSET Jobs /\ \A c \in C : run[r].job \in Parents[c]
      BY DEF TypeOK, ChildrenDepend
    <3> QED
      BY <2>3, <2>5, <3>1, <3>2 DEF ReadParents, Started
  <2>6. ASSUME NEW c \in Jobs, Unlock(r, c) PROVE ChildrenDepend'
    <3> DEFINE C == run[r].children \ {c}
    <3>1. C \in SUBSET Jobs /\ \A d \in C : run[r].job \in Parents[d]
      BY DEF TypeOK, ChildrenDepend
    <3>2. run[r].pc = "unlock" /\ run' = [run EXCEPT ![r].pc = "unlock", ![r].children = C]
      BY <2>6, ResolverMoves
    <3> HIDE DEF C
    <3> QED
      BY <2>3, <3>1, <3>2 DEF Started
  <2>7. CASE CountExecutions(r)
    <3>1. run' = [run EXCEPT ![r] = [run[r] EXCEPT !.pc = "start", !.attempt = NextAttempt(run[r].job)]]
      BY <2>7 DEF CountExecutions
    <3>2. run[r].children = {}
      BY <2>7 DEF CountExecutions, ChildrenDepend
    <3>3. /\ \A s \in Runs \ {r} : run'[s] = run[s]
          /\ run'[r] = [run[r] EXCEPT !.pc = "start", !.attempt = NextAttempt(run[r].job)]
      BY <3>1 DEF TypeOK
    <3>4. run[r] \in [pc : {"idle", "retried"} \cup NotStarted \cup Started,
                      job : Jobs \cup {NULL},
                      worker : Workers \cup {NULL},
                      attempt : Nat,
                      children : SUBSET Jobs]
      BY DEF TypeOK
    <3>5. run'[r].children = {}
      BY <3>2, <3>3, <3>4
    <3> QED
      BY <1>4, <3>3, <3>5
  <2>8. CASE DbErrorInRun(r)
    <3>1. CASE EndRun(r)
      BY <2>2, <3>1
    <3>2. CASE /\ run[r].pc \in {"complete"} \cup Resolving
               /\ run' = [run EXCEPT ![r].pc = "fail", ![r].children = {}]
      <4>1. "fail" \in NotStarted \cup Started /\ run[r].pc # "idle" /\ {} \in SUBSET Jobs
        BY <3>2 DEF Started, Resolving
      <4> QED
        BY <2>3, <3>2, <4>1
    <3> QED
      BY <2>8, <3>1, <3>2 DEF DbErrorInRun
  <2>9. CASE ScheduleRetry(r)
    <3>1. run' = [run EXCEPT ![r].pc = "retried"] /\ run[r].pc = "route"
      BY <2>9 DEF ScheduleRetry, Goto
    <3>2. \A s \in Runs \ {r} : run'[s] = run[s]
      BY <3>1 DEF TypeOK
    <3>3. run'[r].children = {}
      <4>1. run[r].children = {}
        BY <3>1 DEF ChildrenDepend
      <4>2. run'[r] = [run[r] EXCEPT !.pc = "retried"]
        BY <3>1 DEF TypeOK
      <4>3. run[r] \in [pc : {"idle", "retried"} \cup NotStarted \cup Started,
                        job : Jobs \cup {NULL},
                        worker : Workers \cup {NULL},
                        attempt : Nat,
                        children : SUBSET Jobs]
        BY DEF TypeOK
      <4> QED
        BY <4>1, <4>2, <4>3
    <3> QED
      BY <1>4, <3>2, <3>3
  <2>10. CASE \/ StartExecution(r) \/ HandlerSucceeds(r) \/ HandlerFails(r) \/ Complete(r)
             \/ RecordFailure(r)
    BY <2>1, <2>10 DEF StartExecution, HandlerSucceeds, HandlerFails, Complete, RecordFailure, Started
  <2> QED
    BY <1>5, <2>2, <2>4, <2>5, <2>6, <2>7, <2>8, <2>9, <2>10
       DEF Execute, StartRejected, Resolved, RetryLogged, DeadLetter
<1>6. \/ UNCHANGED run
      \/ \E w \in Workers : ProcessEnds(w) \/ ClaimJobs(w)
      \/ \E r \in Runs : Execute(r) \/ DbErrorInRun(r)
  <2>1. CASE UNCHANGED vars
    BY <2>1 DEF vars
  <2>2. ASSUME NEW j \in Jobs, Submit(j) \/ RunAtPasses(j) PROVE UNCHANGED run
    BY <2>2 DEF Submit, RunAtPasses
  <2>3. ASSUME NEW w \in Workers,
               \/ Register(w) \/ Heartbeat(w) \/ HeartbeatExpires(w) \/ LatePing(w)
               \/ Crash(w) \/ Shutdown(w) \/ Drain(w)
        PROVE  UNCHANGED run \/ ProcessEnds(w)
    BY <2>3 DEF Register, Heartbeat, HeartbeatExpires, LatePing, Crash, Shutdown, Drain,
       SetDraining, Drained, Exit
  <2>4. ASSUME NEW p \in Passes, Reap(p) \/ ReaperThrows(p) PROVE UNCHANGED run
    BY <2>4 DEF Reap, ReapScan, ReapMark, ReapFind, ReapRequeue, ReaperThrows
  <2>5. ASSUME NEW q \in Requests, Api(q) PROVE UNCHANGED run
    BY <2>5 DEF Api, CancelRead, RetryRead, Admit, CancelWrite, RetryWrite, ReplayDlq
  <2> QED
    BY <2>1, <2>2, <2>3, <2>4, <2>5 DEF Next
<1> QED
  BY <1>1, <1>2, <1>3, <1>5, <1>6

\* Whatever a resolver may still queue is a child of the job it completed.
THEOREM ResolversCarryChildren == Spec => []ChildrenDepend
<1>1. Init => ChildrenDepend
  BY DEF Init, IdleRun, ChildrenDepend
<1>2. IInv /\ ChildrenDepend /\ [Next]_vars => ChildrenDepend'
  BY ChildrenStep
<1> QED
  BY <1>1, <1>2, Invariance, PTL DEF Spec

-----------------------------------------------------------------------------
(***************************************************************************)
(* What any step makes of the row of a job, and the two invariants that    *)
(* relate its status to its owner and to the dead letter queue.            *)
(***************************************************************************)
JobEffect(j) ==
    \/ status'[j] = status[j] /\ claimedBy'[j] = claimedBy[j]
    \/ /\ status[j] = "NONE" /\ status'[j] \in {"SCHEDULED", "QUEUED"}
       /\ claimedBy'[j] = claimedBy[j]
    \/ status'[j] = "CLAIMED" /\ claimedBy'[j] \in Workers
    \/ status'[j] \in {"RUNNING", "COMPLETED"} /\ claimedBy'[j] = claimedBy[j]
    \/ status'[j] \in {"QUEUED", "CANCELLED"} /\ claimedBy'[j] = NULL
    \/ /\ status'[j] = "QUEUED" /\ claimedBy'[j] = claimedBy[j]
       /\ Carried(j)
    \/ /\ status'[j] = "DEAD_LETTERED" /\ claimedBy'[j] = NULL
       /\ \E r \in Runs : DeadLetter(r) /\ run[r].job = j

LEMMA JobEffects ==
    ASSUME IInv, [Next]_vars, NEW j \in Jobs
    PROVE  JobEffect(j)
<1> USE DEF JobEffect, IInv, TypeOK
<1>1. CASE UNCHANGED vars
  BY <1>1 DEF vars, jobVars
<1>2. ASSUME NEW k \in Jobs, Submit(k) \/ RunAtPasses(k) PROVE JobEffect(j)
  BY <1>2 DEF Submit, RunAtPasses, InitialStatus
<1>3. ASSUME NEW w \in Workers,
             \/ Register(w) \/ Heartbeat(w) \/ HeartbeatExpires(w) \/ LatePing(w)
             \/ Crash(w) \/ Shutdown(w) \/ Drain(w)
      PROVE  JobEffect(j)
  BY <1>3 DEF Register, Heartbeat, HeartbeatExpires, LatePing, Crash, Shutdown, Drain,
     SetDraining, Drained, Exit, jobVars
<1>4. ASSUME NEW w \in Workers, ClaimJobs(w) PROVE JobEffect(j)
  BY <1>4 DEF ClaimJobs, Claim
<1>5. ASSUME NEW p \in Passes, Reap(p) \/ ReaperThrows(p) PROVE JobEffect(j)
  <2>1. CASE ReapRequeue(p)
    BY <2>1 DEF ReapRequeue
  <2>2. CASE UNCHANGED jobVars
    BY <2>2 DEF jobVars
  <2> QED
    BY <1>5, <2>1, <2>2 DEF Reap, ReapScan, ReapMark, ReapFind, ReaperThrows
<1>6. ASSUME NEW r \in Runs, Execute(r) \/ DbErrorInRun(r) PROVE JobEffect(j)
  <2>1. CASE StartExecution(r) \/ Complete(r)
    BY <2>1 DEF StartExecution, Complete
  <2>2. CASE ScheduleRetry(r)
    BY <2>2 DEF ScheduleRetry, ReleaseClaim
  <2>3. CASE DeadLetter(r)
    BY <2>3 DEF DeadLetter, ReleaseClaim
  <2>4. CASE UNCHANGED jobVars
    BY <2>4 DEF jobVars
  <2>5. ASSUME NEW c \in Jobs, Unlock(r, c) PROVE JobEffect(j)
    BY <2>5 DEF Unlock, Carried
  <2> QED
    BY <1>6, <2>1, <2>2, <2>3, <2>4, <2>5 DEF Execute, CountExecutions, StartRejected,
       HandlerSucceeds, HandlerFails, ReadChildren, ReadParents, Resolved, RecordFailure,
       RetryLogged, DbErrorInRun
<1>7. ASSUME NEW q \in Requests, Api(q) PROVE JobEffect(j)
  <2>1. CASE UNCHANGED jobVars
    BY <2>1 DEF jobVars
  <2>2. CASE CancelWrite(q)
    BY <2>2 DEF CancelWrite, ReleaseClaim
  <2>3. CASE RetryWrite(q)
    BY <2>3 DEF RetryWrite, Requeue, ReleaseClaim
  <2>4. CASE \E k \in Jobs : \E i \in DOMAIN dlq[k] : ReplayDlq(q, k, i)
    BY <2>4 DEF ReplayDlq, Requeue, ReleaseClaim
  <2> QED
    BY <1>7, <2>1, <2>2, <2>3, <2>4 DEF Api, CancelRead, RetryRead, Admit
<1> QED
  BY <1>1, <1>2, <1>3, <1>4, <1>5, <1>6, <1>7 DEF Next

\* A claimed job has an owner, and a job that waits or is out of the workers'
\* hands has none, except that a resolver may queue a child that is owned.
THEOREM OwnerConsistent == Spec => []OwnerMatchesStatus
<1>1. Init => OwnerMatchesStatus
  BY DEF Init, OwnerMatchesStatus
<1>2. IInv /\ ChildrenDepend /\ [Next]_vars /\ OwnerMatchesStatus => OwnerMatchesStatus'
  <2> SUFFICES ASSUME IInv, ChildrenDepend, [Next]_vars, OwnerMatchesStatus, NEW j \in Jobs
               PROVE  /\ status'[j] \in {"NONE", "SCHEDULED", "DEAD_LETTERED", "CANCELLED"}
                             => claimedBy'[j] = NULL
                      /\ status'[j] = "QUEUED" /\ Parents[j] = {} => claimedBy'[j] = NULL
                      /\ status'[j] = "CLAIMED" => claimedBy'[j] # NULL
    BY DEF OwnerMatchesStatus
  <2>1. JobEffect(j)
    BY JobEffects
  <2>2. NULL \notin Workers
    BY NullIsNoRow
  <2>3. Carried(j) => Parents[j] # {}
    BY DEF Carried, ChildrenDepend
  <2> QED
    BY <2>1, <2>2, <2>3 DEF JobEffect, OwnerMatchesStatus
<1> QED
  BY <1>1, <1>2, Invariance, ResolversCarryChildren, PTL DEF Spec

\* Only two steps write the dead letter queue.
LEMMA DlqWriters ==
    ASSUME [Next]_vars
    PROVE  \/ UNCHANGED dlq
           \/ \E r \in Runs : DeadLetter(r)
           \/ \E q \in Requests, j \in Jobs : \E i \in DOMAIN dlq[j] : ReplayDlq(q, j, i)
<1>1. CASE UNCHANGED vars
  BY <1>1 DEF vars, historyVars
<1>2. ASSUME NEW w \in Workers,
             \/ Register(w) \/ Heartbeat(w) \/ HeartbeatExpires(w) \/ LatePing(w)
             \/ Crash(w) \/ Shutdown(w) \/ Drain(w)
             \/ ClaimJobs(w)
      PROVE  UNCHANGED dlq
  BY <1>2 DEF Register, Heartbeat, HeartbeatExpires, LatePing, Crash, Shutdown, Drain,
     SetDraining, Drained, Exit, ClaimJobs, historyVars
<1>3. ASSUME NEW r \in Runs, Execute(r) \/ DbErrorInRun(r)
      PROVE  UNCHANGED dlq \/ DeadLetter(r)
  BY <1>3 DEF Execute, CountExecutions, StartExecution, StartRejected, HandlerSucceeds,
     HandlerFails, Complete, ReadChildren, ReadParents, Unlock, Resolved, RecordFailure,
     ScheduleRetry, RetryLogged, DbErrorInRun, historyVars
<1>4. ASSUME NEW q \in Requests, Api(q)
      PROVE  \/ UNCHANGED dlq
             \/ \E j \in Jobs : \E i \in DOMAIN dlq[j] : ReplayDlq(q, j, i)
  BY <1>4 DEF Api, CancelRead, RetryRead, Admit, CancelWrite, RetryWrite, historyVars
<1>5. ASSUME NEW j \in Jobs, Submit(j) \/ RunAtPasses(j)
      PROVE  UNCHANGED dlq
  BY <1>5 DEF Submit, RunAtPasses, historyVars
<1>6. ASSUME NEW p \in Passes, Reap(p) \/ ReaperThrows(p)
      PROVE  UNCHANGED dlq
  BY <1>6 DEF Reap, ReapScan, ReapMark, ReapFind, ReapRequeue, ReaperThrows, historyVars
<1> QED
  BY <1>1, <1>2, <1>3, <1>4, <1>5, <1>6 DEF Next

\* A dead-lettered job always has an entry left that can be replayed.
THEOREM DeadLetteredListed == Spec => []DeadLetteredIsListed
<1>1. Init => DeadLetteredIsListed
  BY DEF Init, DeadLetteredIsListed
<1>2. IInv /\ [Next]_vars /\ DeadLetteredIsListed => DeadLetteredIsListed'
  <2> SUFFICES ASSUME IInv, [Next]_vars, DeadLetteredIsListed, NEW j \in Jobs,
                      status'[j] = "DEAD_LETTERED"
               PROVE  \E i \in DOMAIN dlq'[j] : ~dlq'[j][i].replayed
    BY DEF DeadLetteredIsListed
  <2>1. CASE \E r \in Runs : DeadLetter(r) /\ run[r].job = j
    <3>1. PICK r \in Runs : DeadLetter(r) /\ run[r].job = j
      BY <2>1
    <3> DEFINE Entry == [totalAttempts |-> run[r].attempt, replayed |-> FALSE]
    <3>2. dlq[j] \in Seq(DlqEntry) /\ Entry \in DlqEntry /\ ~Entry.replayed
      BY <3>1 DEF IInv, TypeOK, DlqEntry
    <3>3. dlq'[j] = Append(dlq[j], Entry)
      BY <3>1 DEF DeadLetter, IInv, TypeOK
    <3> HIDE DEF Entry
    <3>4. /\ Len(dlq[j]) + 1 \in DOMAIN dlq'[j]
          /\ dlq'[j][Len(dlq[j]) + 1] = Entry
      BY <3>2, <3>3
    <3> QED
      BY <3>2, <3>4
  <2>2. CASE ~\E r \in Runs : DeadLetter(r) /\ run[r].job = j
    <3>1. status[j] = "DEAD_LETTERED"
      BY <2>2, JobEffects DEF JobEffect
    <3>2. PICK i \in DOMAIN dlq[j] : ~dlq[j][i].replayed
      BY <3>1 DEF DeadLetteredIsListed
    <3>3. CASE UNCHANGED dlq
      BY <3>2, <3>3
    <3>4. ASSUME NEW r \in Runs, DeadLetter(r)
          PROVE  dlq'[j] = dlq[j]
      BY <2>2, <3>4 DEF DeadLetter, IInv, TypeOK
    \* The replayed entry is not one of j: a replay queues the job.
    <3>5. ASSUME NEW q \in Requests, NEW k \in Jobs, NEW m \in DOMAIN dlq[k],
                 ReplayDlq(q, k, m)
          PROVE  \E n \in DOMAIN dlq'[j] : ~dlq'[j][n].replayed
      <4>1. k # j
        BY <3>5 DEF ReplayDlq, Requeue, IInv, TypeOK
      <4>2. DOMAIN dlq'[j] = DOMAIN dlq[j] /\ dlq'[j][i].replayed = dlq[j][i].replayed
        BY <3>2, <3>5, <4>1, ReplayEffect DEF IInv
      <4> QED
        BY <3>2, <4>2
    <3> QED
      BY <3>2, <3>3, <3>4, <3>5, DlqWriters
  <2> QED
    BY <2>1, <2>2
<1> QED
  BY <1>1, <1>2, Invariance, PTL DEF Spec

-----------------------------------------------------------------------------
(***************************************************************************)
(* JobEngine implements ExecutionLedger: every step of the processes is a  *)
(* step of the ledger or leaves it alone.                                  *)
(***************************************************************************)
\* The rows of a job form a sequence, because their numbers have no gap.
LEMMA RowsAreSequence ==
    ASSUME IInv, NEW j \in Jobs
    PROVE  /\ executions[j] \in Seq(Execution)
           /\ Len(executions[j]) = Cardinality(Attempts(j))
           /\ DOMAIN executions[j] = 1 .. Len(executions[j])
<1> DEFINE c == Cardinality(Attempts(j))
<1>1. c \in Nat
  BY NextAttemptType DEF IInv
<1>2. DOMAIN executions[j] = 1 .. c /\ executions[j] \in [1 .. c -> Execution]
  BY DEF IInv, TypeOK, AttemptsContiguous, Attempts
<1>3. executions[j] \in Seq(Execution)
  BY <1>1, <1>2, SeqDef
<1> HIDE DEF c
<1>4. Len(executions[j]) = c
  BY <1>1, <1>2, <1>3
<1> QED
  BY <1>2, <1>3, <1>4 DEF c

\* Inserting a row under the number that was counted appends it, for the
\* unique index rejects every number but the next.
LEMMA StartBegins ==
    ASSUME IInv, NEW r \in Runs, StartExecution(r)
    PROVE  Ledger!Next
<1> DEFINE J == run[r].job
           N == run[r].attempt
           Row == [worker |-> run[r].worker, status |-> "RUNNING"]
<1>1. /\ TypeOK /\ J \in Jobs /\ run[r].worker \in Workers
      /\ N \in 1 .. NextAttempt(J)
      /\ N \notin Attempts(J)
  BY DEF IInv, StartExecution, RunsAssigned, RunsOwnRows, AttemptFree
<1>2. /\ executions[J] \in Seq(Execution)
      /\ Attempts(J) = 1 .. Len(executions[J])
      /\ NextAttempt(J) = Len(executions[J]) + 1
      /\ Len(executions[J]) \in Nat
  BY <1>1, RowsAreSequence DEF Attempts, NextAttempt
<1>3. N = Len(executions[J]) + 1
  BY <1>1, <1>2
<1>4. Row \in Execution
  BY <1>1 DEF Execution, ExecutionStatus
<1> HIDE DEF Row
<1>5. AddRow(executions[J], N, Row) = Append(executions[J], Row)
  <2>1. /\ Append(executions[J], Row) \in Seq(Execution)
        /\ Len(Append(executions[J], Row)) = N
        /\ \A i \in 1 .. Len(executions[J]) : Append(executions[J], Row)[i] = executions[J][i]
        /\ Append(executions[J], Row)[N] = Row
    BY <1>2, <1>3, <1>4, AppendProperties
  <2>2. Append(executions[J], Row) =
            [i \in 1 .. N |-> Append(executions[J], Row)[i]]
    BY <2>1
  <2>3. 1 .. N = DOMAIN executions[J] \cup {N}
    BY <1>2, <1>3 DEF Attempts
  <2>4. \A i \in 1 .. N : Append(executions[J], Row)[i] = IF i = N THEN Row ELSE executions[J][i]
    BY <1>2, <1>3, <2>1
  <2> QED
    BY <2>2, <2>3, <2>4 DEF AddRow
<1>6. /\ executions' = [executions EXCEPT ![J] = Append(executions[J], Row)]
      /\ dlq' = dlq
  BY <1>5 DEF StartExecution, Row
<1>7. Ledger!Begin(J, run[r].worker)
  BY <1>6 DEF Ledger!Begin, Row
<1> QED
  BY <1>1, <1>7 DEF Ledger!Next

\* The outcome of an invocation is the outcome of an attempt in the ledger.
LEMMA FinishSucceedsOrFails ==
    ASSUME IInv, NEW r \in Runs, Complete(r) \/ RecordFailure(r)
    PROVE  Ledger!Next
<1> DEFINE J == run[r].job
           N == run[r].attempt
<1>1. /\ J \in Jobs /\ N \in DOMAIN executions[J]
      /\ Complete(r) => executions[J][N].status = "RUNNING"
      /\ RecordFailure(r) => executions[J][N].status # "FAILED"
  BY DEF IInv, Complete, RecordFailure, RunsAssigned, RunsOwnRows, Started, Attempts
<1>2. CASE Complete(r)
  <2>1. Ledger!Succeed(J, N)
    BY <1>1, <1>2 DEF Complete, FinishExecution, Ledger!Succeed
  <2> QED
    BY <1>1, <2>1 DEF Ledger!Next
<1>3. CASE RecordFailure(r)
  <2>1. Ledger!Fail(J, N)
    BY <1>1, <1>3 DEF RecordFailure, FinishExecution, Ledger!Fail
  <2> QED
    BY <1>1, <2>1 DEF Ledger!Next
<1> QED
  BY <1>2, <1>3

\* A failure that is routed to the dead letter queue is not there yet.
LEMMA DeadLetterQuarantines ==
    ASSUME IInv, NEW r \in Runs, DeadLetter(r)
    PROVE  Ledger!Next
<1> DEFINE J == run[r].job
           N == run[r].attempt
<1>1. /\ J \in Jobs /\ N \in DOMAIN executions[J] /\ N \in Nat
      /\ executions[J][N].status = "FAILED"
      /\ ~HasRetriesLeft(N)
      /\ \A i \in DOMAIN dlq[J] : dlq[J][i].totalAttempts # N
  BY DEF IInv, DeadLetter, TypeOK, RunsAssigned, RunsOwnRows, NotYetQuarantined, Started, Attempts
<1>2. N > MaxRetries
  BY <1>1, BoundsAreNaturals DEF HasRetriesLeft
<1>3. Ledger!Quarantine(J, N)
  BY <1>1, <1>2 DEF DeadLetter, Ledger!Quarantine, Ledger!Quarantined
<1> QED
  BY <1>1, <1>3 DEF Ledger!Next

\* JobEngine implements the ledger, for every number of jobs, workers,
\* invocations, requests and faults.
THEOREM LedgerKept == Spec => KeepsLedger
<1>1. Init => Ledger!Init
  BY DEF Init, Ledger!Init
<1>2. IInv /\ [Next]_vars => [Ledger!Next]_(Ledger!vars)
  <2> SUFFICES ASSUME IInv, [Next]_vars
               PROVE  Ledger!Next \/ UNCHANGED <<executions, dlq>>
    BY DEF Ledger!vars
  <2>1. ASSUME NEW r \in Runs, StartExecution(r) PROVE Ledger!Next
    BY <2>1, StartBegins
  <2>2. ASSUME NEW r \in Runs, Complete(r) \/ RecordFailure(r)
        PROVE  Ledger!Next
    BY <2>2, FinishSucceedsOrFails
  <2>3. ASSUME NEW r \in Runs, DeadLetter(r) PROVE Ledger!Next
    BY <2>3, DeadLetterQuarantines
  <2>4. ASSUME NEW q \in Requests, NEW j \in Jobs, NEW i \in DOMAIN dlq[j], ReplayDlq(q, j, i)
        PROVE  Ledger!Next
    <3>1. Ledger!Replay(j, i)
      BY <2>4 DEF ReplayDlq, Ledger!Replay
    <3> QED
      BY <3>1 DEF Ledger!Next
  <2> QED
    BY <2>1, <2>2, <2>3, <2>4, HistoryWriters, DlqWriters
<1> QED
  BY <1>1, <1>2, Invariance, PTL DEF Spec, KeepsLedger, Ledger!Spec

-----------------------------------------------------------------------------
(***************************************************************************)
(* One executor per job. Every write of jobs is by id alone, so an         *)
(* invocation keeps its job only as long as nobody makes the job claimable *)
(* again. Three parties can: the invocation itself, when it schedules a    *)
(* retry; a reaper, which takes the job for an orphan; the API; and, for a *)
(* child, a resolver that read it before. The invariant relates all of     *)
(* them: while an invocation is live its row is not claimable and names no *)
(* other worker; while a job is among the orphans of a reaper pass nobody  *)
(* executes it and the row names no worker but the dead one of that pass;  *)
(* and while a resolver carries a child, the child waits or is cancelled.  *)
(***************************************************************************)
Busy(r) == run[r].pc \notin {"idle", "retried"}
Taken == {"CLAIMED", "RUNNING", "COMPLETED", "CANCELLED"}

RunsAreLive == \A r \in Runs : Busy(r) => Live(run[r].worker)

ReapingTheGone ==
    /\ \A p \in Passes :
          /\ \A v \in Reaping(p) : phase[v] = "gone"
          /\ reaper[p].orphans # {} => reaper[p].pc = "requeue"
          /\ reaper[p].pc \in {"find", "requeue"} => reaper[p].cur # NULL
    /\ \A w \in Workers : phase[w] = "absent" => ~stale[w]

RunsKeepRows ==
    \A r \in Runs : Busy(r) =>
        /\ claimedBy[run[r].job] \in {run[r].worker, NULL}
        /\ status[run[r].job] \in Taken

OneRun == \A r, s \in Runs : Busy(r) /\ Busy(s) /\ run[r].job = run[s].job => r = s

OrphansUnattended ==
    \A p \in Passes : \A j \in reaper[p].orphans :
        /\ \A r \in Runs : Busy(r) => run[r].job # j
        /\ claimedBy[j] \in {reaper[p].cur, NULL}
        /\ status[j] \in {"CLAIMED", "RUNNING", "CANCELLED"}
        /\ \A q \in Passes : q # p => j \notin reaper[q].orphans

ChildrenWait ==
    \A r \in Runs : \A c \in run[r].children :
        /\ \A s \in Runs : Busy(s) => run[s].job # c
        /\ \A p \in Passes : c \notin reaper[p].orphans
        /\ status[c] \in {"SCHEDULED", "CANCELLED"}

LeaseInv ==
    /\ RunsAreLive
    /\ ReapingTheGone
    /\ RunsKeepRows
    /\ OneRun
    /\ OrphansUnattended
    /\ ChildrenWait

\* The condition on the API: it queues only jobs that are unattended, and that
\* no resolver is about to queue.
QueuesUnattended ==
    \A q \in Requests, j \in Jobs : ApiQueues(q, j) => Unattended(j) /\ ~Carried(j)

\* What a step may do to the row of job j.
RowKept(j) ==
    \/ status'[j] = status[j] /\ claimedBy'[j] = claimedBy[j]
    \/ /\ status'[j] \in {"RUNNING", "COMPLETED"} /\ claimedBy'[j] = claimedBy[j]
       /\ \E r \in Runs : Busy(r) /\ run[r].job = j
    \/ status'[j] = "CANCELLED" /\ claimedBy'[j] = NULL
    \/ /\ \A r \in Runs : Busy(r)' => run'[r].job # j
       /\ \A p \in Passes : j \notin reaper[p].orphans
       /\ \A r \in Runs : j \notin run'[r].children

\* What a step that neither claims nor reaps may do to the processes.
ProcessesKept ==
    /\ \A r \in Runs : Busy(r)' =>
          /\ Busy(r)
          /\ run'[r].job = run[r].job /\ run'[r].worker = run[r].worker
          /\ Live(run[r].worker)'
    /\ \A r \in Runs : \A c \in run'[r].children :
          c \in run[r].children \/ (status[c] = "SCHEDULED" /\ status' = status)
    /\ \A w \in Workers :
          /\ phase[w] = "gone" => phase'[w] = "gone"
          /\ phase'[w] = "absent" => phase[w] = "absent" /\ stale'[w] = stale[w]
    /\ \A p \in Passes : reaper'[p] = reaper[p] \/ reaper'[p] = IdleReaper

\* A step that neither claims nor reaps keeps the invariant.
LEMMA LeaseKept ==
    ASSUME IInv, LeaseInv, ProcessesKept, \A j \in Jobs : RowKept(j)
    PROVE  LeaseInv'
<1> USE DEF ProcessesKept
<1>1. /\ \A r \in Runs : Busy(r) => run[r].job \in Jobs /\ run[r].worker \in Workers
      /\ \A p \in Passes : reaper[p].orphans \subseteq Jobs
      /\ \A r \in Runs : run[r].children \subseteq Jobs
  BY DEF IInv, RunsAssigned, TypeOK, Busy
<1>2. RunsAreLive'
  BY <1>1 DEF RunsAreLive
<1>3. ReapingTheGone'
  <2>1. ASSUME NEW p \in Passes
        PROVE  /\ \A v \in Reaping(p)' : phase'[v] = "gone"
               /\ reaper'[p].orphans # {} => reaper'[p].pc = "requeue"
               /\ reaper'[p].pc \in {"find", "requeue"} => reaper'[p].cur # NULL
    <3>1. /\ \A v \in Reaping(p) : phase[v] = "gone" /\ v \in Workers
          /\ reaper[p].orphans # {} => reaper[p].pc = "requeue"
          /\ reaper[p].pc \in {"find", "requeue"} => reaper[p].cur # NULL
      BY DEF LeaseInv, ReapingTheGone, Reaping, IInv, TypeOK
    <3>2. CASE reaper'[p] = reaper[p]
      BY <3>1, <3>2 DEF Reaping
    <3>3. CASE reaper'[p] = IdleReaper
      BY <3>1, <3>3 DEF Reaping, IdleReaper
    <3> QED
      BY <3>2, <3>3
  <2>2. \A w \in Workers : phase'[w] = "absent" => ~stale'[w]
    BY DEF LeaseInv, ReapingTheGone
  <2> QED
    BY <2>1, <2>2 DEF ReapingTheGone
<1>4. RunsKeepRows'
  <2> SUFFICES ASSUME NEW r \in Runs, Busy(r)'
               PROVE  /\ claimedBy'[run'[r].job] \in {run'[r].worker, NULL}
                      /\ status'[run'[r].job] \in Taken
    BY DEF RunsKeepRows, Taken
  <2>1. /\ Busy(r) /\ run'[r].job = run[r].job /\ run'[r].worker = run[r].worker
        /\ RowKept(run[r].job)
        /\ claimedBy[run[r].job] \in {run[r].worker, NULL}
        /\ status[run[r].job] \in Taken
    BY <1>1 DEF LeaseInv, RunsKeepRows
  <2> QED
    BY <2>1 DEF RowKept, Taken
<1>5. OneRun'
  BY DEF LeaseInv, OneRun
<1>6. OrphansUnattended'
  <2> SUFFICES ASSUME NEW p \in Passes, NEW j \in reaper'[p].orphans
               PROVE  /\ \A r \in Runs : Busy(r)' => run'[r].job # j
                      /\ claimedBy'[j] \in {reaper'[p].cur, NULL}
                      /\ status'[j] \in {"CLAIMED", "RUNNING", "CANCELLED"}
                      /\ \A q \in Passes : q # p => j \notin reaper'[q].orphans
    BY DEF OrphansUnattended
  <2>1. reaper'[p] = reaper[p] /\ j \in reaper[p].orphans /\ j \in Jobs
    BY <1>1 DEF IdleReaper
  <2>2. /\ \A r \in Runs : Busy(r) => run[r].job # j
        /\ claimedBy[j] \in {reaper[p].cur, NULL}
        /\ status[j] \in {"CLAIMED", "RUNNING", "CANCELLED"}
        /\ \A q \in Passes : q # p => j \notin reaper[q].orphans
    BY <2>1 DEF LeaseInv, OrphansUnattended
  <2> QED
    BY <2>1, <2>2 DEF RowKept, IdleReaper
<1>7. ChildrenWait'
  <2> SUFFICES ASSUME NEW r \in Runs, NEW c \in run'[r].children
               PROVE  /\ \A s \in Runs : Busy(s)' => run'[s].job # c
                      /\ \A p \in Passes : c \notin reaper'[p].orphans
                      /\ status'[c] \in {"SCHEDULED", "CANCELLED"}
    BY DEF ChildrenWait
  <2>1. /\ \A s \in Runs : Busy(s) => run[s].job # c
        /\ \A p \in Passes : c \notin reaper[p].orphans
        /\ status[c] \in {"SCHEDULED", "CANCELLED"}
    <3>1. CASE c \in run[r].children
      BY <3>1 DEF LeaseInv, ChildrenWait
    <3>2. CASE status[c] = "SCHEDULED"
      BY <3>2 DEF LeaseInv, RunsKeepRows, OrphansUnattended, Taken
    <3> QED
      BY <3>1, <3>2
  <2>2. /\ \A s \in Runs : Busy(s)' => run'[s].job # c
        /\ \A p \in Passes : c \notin reaper'[p].orphans
    BY <2>1 DEF IdleReaper
  <2>3. status'[c] \in {"SCHEDULED", "CANCELLED"}
    <3>1. CASE c \in run[r].children
      BY <1>1, <2>1, <3>1 DEF RowKept
    <3>2. CASE status' = status
      BY <2>1, <3>2
    <3> QED
      BY <3>1, <3>2
  <2> QED
    BY <2>2, <2>3
<1> QED
  BY <1>2, <1>3, <1>4, <1>5, <1>6, <1>7 DEF LeaseInv

LEMMA JobsStepLease ==
    ASSUME IInv, LeaseInv, NEW k \in Jobs, Submit(k) \/ RunAtPasses(k)
    PROVE  LeaseInv'
<1>1. ProcessesKept
  BY DEF ProcessesKept, Submit, RunAtPasses, workerVars, LeaseInv, RunsAreLive, Live, Busy
<1>2. ASSUME NEW j \in Jobs PROVE RowKept(j)
  <2>1. CASE j = k /\ Submit(k)
    <3>1. status[j] = "NONE" /\ UNCHANGED <<run, reaper>>
      BY <2>1 DEF Submit
    <3> QED
      BY <3>1 DEF RowKept, LeaseInv, RunsKeepRows, OrphansUnattended, ChildrenWait, Taken, Busy
  <2>2. CASE ~(j = k /\ Submit(k))
    BY <2>2 DEF RowKept, Submit, RunAtPasses, IInv, TypeOK
  <2> QED
    BY <2>1, <2>2
<1> QED
  BY <1>1, <1>2, LeaseKept

LEMMA WorkerStepLease ==
    ASSUME IInv, LeaseInv, NEW w \in Workers,
           \/ Register(w) \/ Heartbeat(w) \/ HeartbeatExpires(w) \/ LatePing(w)
           \/ Crash(w) \/ Shutdown(w) \/ Drain(w)
    PROVE  LeaseInv'
<1>1. \A j \in Jobs : RowKept(j)
  BY DEF RowKept, Register, Heartbeat, HeartbeatExpires, LatePing, Crash, Shutdown, Drain,
     SetDraining, Drained, Exit, jobVars
<1>2. \A r \in Runs : Busy(r) => Live(run[r].worker) /\ run[r].worker \in Workers
  BY DEF IInv, RunsAssigned, LeaseInv, RunsAreLive, Busy
<1>3. CASE Crash(w) \/ Exit(w)
  <2>1. /\ \A v \in Workers : phase'[v] = IF v = w THEN "gone" ELSE phase[v]
        /\ \A p \in Passes : reaper'[p] = reaper[p] \/ reaper'[p] = IdleReaper
        /\ \A r \in Runs : run'[r] = IF run[r].worker = w THEN IdleRun ELSE run[r]
        /\ stale' = stale
    BY <1>3 DEF Crash, Exit, ProcessEnds, IInv, TypeOK
  <2>2. ProcessesKept
    BY <1>2, <2>1 DEF ProcessesKept, Busy, IdleRun, Live
  <2> QED
    BY <1>1, <2>2, LeaseKept
<1>4. CASE ~(Crash(w) \/ Exit(w))
  <2>1. UNCHANGED <<run, reaper>>
    BY <1>4 DEF Register, Heartbeat, HeartbeatExpires, LatePing, Shutdown, Drain,
       SetDraining, Drained
  <2>2. \A v \in Workers :
            /\ phase[v] = "gone" => phase'[v] = "gone"
            /\ phase'[v] = "absent" => phase[v] = "absent" /\ stale'[v] = stale[v]
            /\ Live(v) => Live(v)'
    BY <1>4 DEF Register, Heartbeat, HeartbeatExpires, LatePing, Shutdown, Drain,
       SetDraining, Drained, workerVars, Live, IInv, TypeOK
  <2>3. ProcessesKept
    BY <1>2, <2>1, <2>2 DEF ProcessesKept, Busy
  <2> QED
    BY <1>1, <2>3, LeaseKept
<1> QED
  BY <1>3, <1>4

LEMMA ReaperThrowsLease ==
    ASSUME IInv, LeaseInv, NEW p \in Passes, ReaperThrows(p)
    PROVE  LeaseInv'
<1>1. \A j \in Jobs : RowKept(j)
  BY DEF RowKept, ReaperThrows, jobVars
<1>2. /\ UNCHANGED <<run, phase, stale>>
      /\ \A q \in Passes : reaper'[q] = reaper[q] \/ reaper'[q] = IdleReaper
  BY DEF ReaperThrows, workerVars, IInv, TypeOK
<1>3. ProcessesKept
  BY <1>2 DEF ProcessesKept, LeaseInv, RunsAreLive, Live, Busy
<1> QED
  BY <1>1, <1>3, LeaseKept

\* The effect of a step of the executor on the invocations.
LEMMA ExecuteMoves ==
    ASSUME IInv, NEW r \in Runs, Execute(r) \/ DbErrorInRun(r)
    PROVE  /\ run[r].pc # "idle"
           /\ \A s \in Runs : s # r => run'[s] = run[s]
           /\ UNCHANGED <<phase, stale, reaper>>
           /\ \/ run'[r] = IdleRun
              \/ run'[r].job = run[r].job /\ run'[r].worker = run[r].worker
           /\ \/ run'[r].children \subseteq run[r].children
              \/ ReadChildren(r) /\ \A c \in run'[r].children : status[c] = "SCHEDULED"
           /\ run[r].pc = "retried" => run'[r] = IdleRun /\ UNCHANGED jobVars
           /\ run[r].pc \in Resolving => run'[r].pc \in Resolving \cup {"fail", "idle"}
           /\ run'[r].pc \in Resolving => run[r].pc \in Resolving \/ Complete(r)
<1> DEFINE Record == [pc : {"idle", "retried"} \cup NotStarted \cup Started,
                      job : Jobs \cup {NULL},
                      worker : Workers \cup {NULL},
                      attempt : Nat,
                      children : SUBSET Jobs]
<1>1. run \in [Runs -> Record]
  BY DEF IInv, TypeOK
<1>2. run[r].pc # "idle" /\ UNCHANGED <<phase, stale, reaper>>
  BY DEF Execute, CountExecutions, StartExecution, StartRejected, HandlerSucceeds, HandlerFails,
     Complete, ReadChildren, ReadParents, Unlock, Resolved, RecordFailure, ScheduleRetry,
     RetryLogged, DeadLetter, DbErrorInRun, Resolving, workerVars
<1>3. CASE EndRun(r)
  <2>1. run'[r] = IdleRun /\ \A s \in Runs : s # r => run'[s] = run[s]
    <3> HIDE DEF Record
    <3> QED
      BY <1>1, <1>3 DEF EndRun
  <2>2. run[r].pc = "retried" => UNCHANGED jobVars
    BY DEF Execute, CountExecutions, StartExecution, StartRejected, HandlerSucceeds, HandlerFails,
       Complete, ReadChildren, ReadParents, Unlock, Resolved, RecordFailure, ScheduleRetry,
       RetryLogged, DeadLetter, DbErrorInRun
  <2> QED
    BY <1>2, <2>1, <2>2 DEF IdleRun, Resolving
<1>4. ASSUME NEW pc \in {"retried"} \cup Started, Goto(r, pc), run[r].pc # "retried"
      PROVE  /\ \A s \in Runs : s # r => run'[s] = run[s]
             /\ run'[r].pc = pc
             /\ run'[r].job = run[r].job /\ run'[r].worker = run[r].worker
             /\ run'[r].children = run[r].children
  <2> DEFINE Moved == [run[r] EXCEPT !.pc = pc]
  <2>1. /\ Moved.pc = pc /\ Moved.job = run[r].job /\ Moved.worker = run[r].worker
        /\ Moved.children = run[r].children
    BY <1>1
  <2>2. run' = [run EXCEPT ![r] = Moved]
    BY <1>4 DEF Goto
  <2> HIDE DEF Moved, Record
  <2> QED
    BY <1>1, <2>1, <2>2
<1>5. ASSUME NEW pc \in NotStarted \cup Started, NEW C \in SUBSET Jobs, run[r].pc # "idle",
             run' = [run EXCEPT ![r].pc = pc, ![r].children = C]
      PROVE  /\ \A s \in Runs : s # r => run'[s] = run[s]
             /\ run'[r].pc = pc
             /\ run'[r].job = run[r].job /\ run'[r].worker = run[r].worker
             /\ run'[r].children = C
  <2>1. /\ run'[r] = [run[r] EXCEPT !.pc = pc, !.children = C]
        /\ \A s \in Runs : s # r => run'[s] = run[s]
    BY <1>5, MoveType
  <2>2. run[r] \in Record
    BY <1>1
  <2> QED
    BY <2>1, <2>2
<1>6. CASE ReadChildren(r)
  <2>1. PICK pc \in {"parents", "unlock"}, C \in SUBSET Jobs :
            /\ \A c \in C : status[c] = "SCHEDULED"
            /\ run' = [run EXCEPT ![r].pc = pc, ![r].children = C]
    BY <1>6, ResolverMoves
  <2>2. pc \in NotStarted \cup Started /\ run[r].pc = "resolve"
    BY <1>6 DEF ReadChildren, Started
  <2>3. /\ \A s \in Runs : s # r => run'[s] = run[s]
        /\ run'[r].job = run[r].job /\ run'[r].worker = run[r].worker
        /\ run'[r].children = C /\ run'[r].pc = pc
    BY <1>5, <2>1, <2>2
  <2>4. run'[r].pc \in Resolving /\ run[r].pc \in Resolving /\ run[r].pc # "retried"
    BY <2>2, <2>3 DEF Resolving
  <2> HIDE DEF Record
  <2> QED
    BY <1>2, <1>6, <2>1, <2>3, <2>4
<1>7. CASE ReadParents(r)
  <2>1. PICK C \in SUBSET run[r].children :
            run' = [run EXCEPT ![r].pc = "unlock", ![r].children = C]
    BY <1>7, ResolverMoves
  <2>2. C \in SUBSET Jobs
    BY DEF IInv, TypeOK
  <2>3. "unlock" \in NotStarted \cup Started /\ run[r].pc = "parents"
    BY <1>7 DEF ReadParents, Started
  <2>4. /\ \A s \in Runs : s # r => run'[s] = run[s]
        /\ run'[r].job = run[r].job /\ run'[r].worker = run[r].worker
        /\ run'[r].children = C /\ run'[r].pc = "unlock"
    BY <1>5, <2>1, <2>2, <2>3
  <2>5. run'[r].pc \in Resolving /\ run[r].pc \in Resolving /\ run[r].pc # "retried"
    BY <2>3, <2>4 DEF Resolving
  <2> HIDE DEF Record
  <2> QED
    BY <1>2, <2>1, <2>4, <2>5
<1>8. ASSUME NEW d \in Jobs, Unlock(r, d)
      PROVE  /\ \A s \in Runs : s # r => run'[s] = run[s]
             /\ run'[r].job = run[r].job /\ run'[r].worker = run[r].worker
             /\ run'[r].children = run[r].children \ {d}
             /\ run[r].pc = "unlock" /\ run'[r].pc = "unlock"
  <2> DEFINE C == run[r].children \ {d}
  <2>1. C \in SUBSET Jobs
    BY DEF IInv, TypeOK
  <2>2. run[r].pc = "unlock" /\ run' = [run EXCEPT ![r].pc = "unlock", ![r].children = C]
    BY <1>8, ResolverMoves
  <2>3. "unlock" \in NotStarted \cup Started
    BY DEF Started
  <2> HIDE DEF C
  <2>4. /\ \A s \in Runs : s # r => run'[s] = run[s]
        /\ run'[r].job = run[r].job /\ run'[r].worker = run[r].worker
        /\ run'[r].children = C
        /\ run'[r].pc = "unlock"
    BY <1>5, <2>1, <2>2, <2>3
  <2> QED
    BY <2>2, <2>4 DEF C
<1>9. CASE CountExecutions(r)
  <2> DEFINE Counted == [run[r] EXCEPT !.pc = "start", !.attempt = NextAttempt(run[r].job)]
  <2>1. run' = [run EXCEPT ![r] = Counted] /\ run[r].pc = "count"
    BY <1>9 DEF CountExecutions
  <2>2. /\ Counted.job = run[r].job /\ Counted.worker = run[r].worker
        /\ Counted.children = run[r].children /\ Counted.pc = "start"
    BY <1>1
  <2> HIDE DEF Counted, Record
  <2> QED
    BY <1>1, <1>2, <2>1, <2>2 DEF Resolving
<1>10. CASE DbErrorInRun(r)
  <2>1. CASE /\ run[r].pc \in {"complete"} \cup Resolving
             /\ run' = [run EXCEPT ![r].pc = "fail", ![r].children = {}]
    <3>1. /\ "fail" \in NotStarted \cup Started /\ "fail" \notin Resolving
          /\ run[r].pc # "retried" /\ {} \in SUBSET Jobs
      BY <2>1 DEF Started, Resolving
    <3>2. /\ \A s \in Runs : s # r => run'[s] = run[s]
          /\ run'[r].pc = "fail"
          /\ run'[r].job = run[r].job /\ run'[r].worker = run[r].worker
          /\ run'[r].children = {}
      BY <1>2, <1>5, <2>1, <3>1
    <3> QED
      BY <1>2, <3>1, <3>2
  <2> QED
    BY <1>3, <1>10, <2>1 DEF DbErrorInRun
<1>11. CASE \/ StartExecution(r) \/ HandlerSucceeds(r) \/ HandlerFails(r) \/ Complete(r)
            \/ RecordFailure(r) \/ ScheduleRetry(r)
  <2>1. \E pc \in {"retried"} \cup Started : Goto(r, pc)
    BY <1>11 DEF StartExecution, HandlerSucceeds, HandlerFails, Complete, RecordFailure,
       ScheduleRetry, Started
  <2>2. run[r].pc # "retried"
    BY <1>11 DEF StartExecution, HandlerSucceeds, HandlerFails, Complete, RecordFailure,
       ScheduleRetry
  <2>3. /\ run[r].pc \notin Resolving
        /\ run'[r].pc \in Resolving => Complete(r)
    <3>1. run[r].pc \notin Resolving
      BY <1>11 DEF StartExecution, HandlerSucceeds, HandlerFails, Complete, RecordFailure,
         ScheduleRetry, Resolving
    <3>2. CASE ~Complete(r)
      <4>1. \E pc \in ({"retried"} \cup Started) \ Resolving : Goto(r, pc)
        BY <1>11, <3>2 DEF StartExecution, HandlerSucceeds, HandlerFails, RecordFailure,
           ScheduleRetry, Started, Resolving
      <4> QED
        BY <1>4, <2>2, <3>1, <4>1
    <3> QED
      BY <3>1, <3>2
  <2> QED
    BY <1>2, <1>4, <2>1, <2>2, <2>3
<1>12. ASSUME NEW d \in Jobs, Unlock(r, d)
       PROVE  /\ \A s \in Runs : s # r => run'[s] = run[s]
              /\ run'[r].job = run[r].job /\ run'[r].worker = run[r].worker
              /\ run'[r].children \subseteq run[r].children
              /\ run[r].pc # "retried"
              /\ run[r].pc \in Resolving /\ run'[r].pc \in Resolving
  BY <1>8, <1>12 DEF Resolving
<1> HIDE DEF Record
<1> QED
  BY <1>2, <1>3, <1>6, <1>7, <1>9, <1>10, <1>11, <1>12
     DEF Execute, StartRejected, Resolved, RetryLogged, DeadLetter

LEMMA ExecuteLease ==
    ASSUME IInv, Tree, ChildrenDepend, LeaseInv, NEW r \in Runs, Execute(r) \/ DbErrorInRun(r)
    PROVE  LeaseInv'
<1> DEFINE J == run[r].job
<1>1. /\ run[r].pc # "idle" /\ J \in Jobs
      /\ \A s \in Runs : s # r => run'[s] = run[s]
      /\ run'[r] = IdleRun \/ (run'[r].job = J /\ run'[r].worker = run[r].worker)
      /\ UNCHANGED <<phase, stale, reaper>>
  BY ExecuteMoves DEF IInv, RunsAssigned
<1>2. run[r].pc = "retried" => run'[r] = IdleRun /\ UNCHANGED jobVars
  BY ExecuteMoves
<1>3. ProcessesKept
  <2>1. \A s \in Runs : \A c \in run'[s].children :
            c \in run[s].children \/ (status[c] = "SCHEDULED" /\ status' = status)
    BY <1>1, ExecuteMoves DEF ReadChildren, jobVars
  <2>2. \A s \in Runs : Busy(s)' =>
            /\ Busy(s)
            /\ run'[s].job = run[s].job /\ run'[s].worker = run[s].worker
    BY <1>1, <1>2 DEF Busy, IdleRun
  <2> QED
    BY <1>1, <2>1, <2>2 DEF ProcessesKept, LeaseInv, RunsAreLive, Live
<1>4. ASSUME NEW j \in Jobs PROVE RowKept(j)
  <2>1. CASE (j # J /\ ~\E c \in Jobs : Unlock(r, c)) \/ UNCHANGED jobVars
    BY <2>1 DEF RowKept, IInv, TypeOK, Execute, CountExecutions, StartExecution,
       StartRejected, HandlerSucceeds, HandlerFails, Complete, ReadChildren, ReadParents, Resolved,
       RecordFailure, ScheduleRetry, RetryLogged, DeadLetter, DbErrorInRun, ReleaseClaim, jobVars
  <2>2. CASE j = J /\ (StartExecution(r) \/ Complete(r))
    BY <1>1, <2>2 DEF RowKept, StartExecution, Complete, Busy, IInv, TypeOK
  \* The invocation gives up the job, which had no other.
  <2>3. CASE j = J /\ (ScheduleRetry(r) \/ DeadLetter(r))
    <3>1. Busy(r) /\ run'[r].pc \in {"idle", "retried"}
      BY <2>3 DEF ScheduleRetry, DeadLetter, Goto, EndRun, IdleRun, Busy, IInv, TypeOK
    <3>2. \A s \in Runs : Busy(s)' => run'[s].job # j
      BY <1>1, <2>3, <3>1 DEF LeaseInv, OneRun, Busy
    <3>3. \A p \in Passes : j \notin reaper[p].orphans
      BY <2>3, <3>1 DEF LeaseInv, OrphansUnattended
    <3>4. \A s \in Runs : j \notin run[s].children
      BY <2>3, <3>1 DEF LeaseInv, ChildrenWait
    <3>5. \A s \in Runs : j \notin run'[s].children
      BY <1>1, <2>3, <3>4, ExecuteMoves DEF ScheduleRetry, DeadLetter, ReadChildren
    <3> QED
      BY <3>2, <3>3, <3>5 DEF RowKept
  \* A resolver queues a child that only it carries: the child has no other
  \* parent, and the parent no other invocation.
  <2>4. ASSUME NEW c \in Jobs, Unlock(r, c) PROVE RowKept(j)
    <3>1. /\ run[r].pc = "unlock" /\ c \in run[r].children
          /\ \A k \in Jobs : k # c => status'[k] = status[k]
          /\ claimedBy' = claimedBy
      BY <2>4 DEF Unlock, IInv, TypeOK
    <3>2. CASE j # c
      BY <3>1, <3>2 DEF RowKept
    <3>3. CASE j = c
      <4>1. /\ \A s \in Runs : Busy(s) => run[s].job # c
            /\ \A p \in Passes : c \notin reaper[p].orphans
        BY <3>1 DEF LeaseInv, ChildrenWait
      <4>2. \A s \in Runs : Busy(s)' => run'[s].job # c
        BY <1>3, <4>1 DEF ProcessesKept
      <4>3. \A s \in Runs : c \in run[s].children => s = r
        BY <3>1 DEF ChildrenDepend, Tree, LeaseInv, OneRun, Busy
      <4>4. c \notin run'[r].children
        <5>1. run' = [run EXCEPT ![r].pc = "unlock", ![r].children = run[r].children \ {c}]
          BY <2>4, ResolverMoves
        <5>2. run[r].children \ {c} \in SUBSET Jobs /\ "unlock" \in NotStarted \cup Started
          BY DEF IInv, TypeOK, Started
        <5>3. run'[r] = [run[r] EXCEPT !.pc = "unlock", !.children = run[r].children \ {c}]
          BY <1>1, <5>1, <5>2, MoveType
        <5> QED
          BY <5>3 DEF IInv, TypeOK
      <4> QED
        BY <1>1, <3>3, <4>1, <4>2, <4>3, <4>4 DEF RowKept
    <3> QED
      BY <3>2, <3>3
  <2> QED
    BY <2>1, <2>2, <2>3, <2>4 DEF Execute, CountExecutions, StartRejected, HandlerSucceeds,
       HandlerFails, ReadChildren, ReadParents, Resolved, RecordFailure, RetryLogged, DbErrorInRun
<1> QED
  BY <1>3, <1>4, LeaseKept

LEMMA ApiLease ==
    ASSUME IInv, LeaseInv, QueuesUnattended, NEW q \in Requests, Api(q)
    PROVE  LeaseInv'
<1>1. UNCHANGED <<run, phase, stale, reaper>>
  BY DEF Api, CancelRead, RetryRead, Admit, CancelWrite, RetryWrite, ReplayDlq, workerVars
<1>2. ProcessesKept
  BY <1>1 DEF ProcessesKept, LeaseInv, RunsAreLive, Live, Busy
<1>3. ASSUME NEW j \in Jobs PROVE RowKept(j)
  <2>1. CASE ApiQueues(q, j)
    BY <1>1, <2>1 DEF RowKept, QueuesUnattended, Unattended, LiveRuns, Carried, Busy
  <2>2. CASE ~ApiQueues(q, j) /\ RetryWrite(q)
    BY <2>2 DEF RowKept, ApiQueues, RetryWrite, Requeue, ReleaseClaim, IInv, TypeOK
  <2>3. CASE ~ApiQueues(q, j) /\ \E k \in Jobs : \E i \in DOMAIN dlq[k] : ReplayDlq(q, k, i)
    <3>1. PICK k \in Jobs : \E i \in DOMAIN dlq[k] : ReplayDlq(q, k, i)
      BY <2>3
    <3>2. k # j
      BY <2>3, <3>1 DEF ApiQueues
    <3> QED
      BY <3>1, <3>2 DEF RowKept, ReplayDlq, Requeue, ReleaseClaim, IInv, TypeOK
  <2>4. CASE CancelWrite(q)
    BY <2>4 DEF RowKept, CancelWrite, ReleaseClaim, IInv, TypeOK
  <2>5. CASE \E k \in Jobs : CancelRead(q, k) \/ RetryRead(q, k)
    BY <2>5 DEF RowKept, CancelRead, RetryRead, Admit, jobVars
  <2> QED
    BY <2>1, <2>2, <2>3, <2>4, <2>5 DEF Api
<1> QED
  BY <1>2, <1>3, LeaseKept

\* What a claim does: each claimed job was queued and gets an invocation of
\* its own, which was idle.
LEMMA ClaimEffect ==
    ASSUME IInv, NEW w \in Workers, ClaimJobs(w)
    PROVE  \E S \in SUBSET {j \in Jobs : Claimable(j)} :
              /\ status' = [j \in Jobs |-> IF j \in S THEN "CLAIMED" ELSE status[j]]
              /\ claimedBy' = [j \in Jobs |-> IF j \in S THEN w ELSE claimedBy[j]]
              /\ \A r \in Runs :
                    \/ run'[r] = run[r]
                    \/ /\ ~Busy(r) /\ run'[r].pc = "count"
                       /\ run'[r].worker = w /\ run'[r].job \in S
                       /\ run'[r].children = {}
              /\ \A r, s \in Runs :
                    /\ run'[r] # run[r] /\ run'[s] # run[s]
                    /\ run'[r].job = run'[s].job
                    => r = s
<1>1. PICK S \in SUBSET {j \in Jobs : Claimable(j)} : Claim(w, S)
  BY DEF ClaimJobs
<1>2. PICK f \in Injection(S, IdleRuns) :
          run' = [r \in Runs |->
                    IF \E j \in S : f[j] = r
                    THEN [pc |-> "count", job |-> CHOOSE j \in S : f[j] = r,
                          worker |-> w, attempt |-> 0, children |-> {}]
                    ELSE run[r]]
  BY <1>1 DEF Claim
<1>3. f \in [S -> IdleRuns]
  BY DEF Injection
<1>4. ASSUME NEW r \in Runs, run'[r] # run[r]
      PROVE  /\ ~Busy(r) /\ run'[r].pc = "count"
             /\ run'[r].worker = w /\ run'[r].job \in S
             /\ run'[r].children = {}
             /\ f[run'[r].job] = r
  <2> DEFINE J == CHOOSE j \in S : f[j] = r
  <2>1. \E j \in S : f[j] = r
    BY <1>2, <1>4
  <2>2. J \in S /\ f[J] = r
    BY <2>1
  <2>3. run'[r] = [pc |-> "count", job |-> J, worker |-> w, attempt |-> 0, children |-> {}]
    BY <1>2, <2>1
  <2> HIDE DEF J
  <2> QED
    BY <1>3, <2>2, <2>3 DEF IdleRuns, Busy
<1>5. /\ status' = [j \in Jobs |-> IF j \in S THEN "CLAIMED" ELSE status[j]]
      /\ claimedBy' = [j \in Jobs |-> IF j \in S THEN w ELSE claimedBy[j]]
  BY <1>1 DEF Claim
<1>6. ASSUME NEW r \in Runs, NEW s \in Runs, run'[r] # run[r], run'[s] # run[s],
             run'[r].job = run'[s].job
      PROVE  r = s
  <2>1. f[run'[r].job] = r
    BY <1>4, <1>6
  <2>2. f[run'[s].job] = s
    BY <1>4, <1>6
  <2> QED
    BY <1>6, <2>1, <2>2
<1> QED
  BY <1>4, <1>5, <1>6

\* A claimable job has no invocation and is no reaper's orphan.
LEMMA ClaimLease ==
    ASSUME IInv, LeaseInv, NEW w \in Workers, ClaimJobs(w)
    PROVE  LeaseInv'
<1>1. PICK S \in SUBSET {j \in Jobs : Claimable(j)} :
              /\ status' = [j \in Jobs |-> IF j \in S THEN "CLAIMED" ELSE status[j]]
              /\ claimedBy' = [j \in Jobs |-> IF j \in S THEN w ELSE claimedBy[j]]
              /\ \A r \in Runs :
                    \/ run'[r] = run[r]
                    \/ /\ ~Busy(r) /\ run'[r].pc = "count"
                       /\ run'[r].worker = w /\ run'[r].job \in S
                       /\ run'[r].children = {}
              /\ \A r, s \in Runs :
                    /\ run'[r] # run[r] /\ run'[s] # run[s]
                    /\ run'[r].job = run'[s].job
                    => r = s
  BY ClaimEffect
<1>2. /\ UNCHANGED <<phase, stale, reaper>>
      /\ Live(w)
  BY DEF ClaimJobs, Live
<1>3. /\ \A r \in Runs : Busy(r) => run[r].job \in Jobs
      /\ \A p \in Passes : reaper[p].orphans \subseteq Jobs
  BY DEF IInv, RunsAssigned, TypeOK, Busy
<1>4. \A j \in S :
          /\ \A r \in Runs : Busy(r) => run[r].job # j
          /\ \A p \in Passes : j \notin reaper[p].orphans
          /\ \A r \in Runs : j \notin run[r].children
  BY DEF Claimable, LeaseInv, RunsKeepRows, OrphansUnattended, ChildrenWait, Taken
<1>5. RunsAreLive'
  BY <1>1, <1>2 DEF LeaseInv, RunsAreLive, Live, Busy
<1>6. ReapingTheGone'
  BY <1>2 DEF LeaseInv, ReapingTheGone, Reaping
<1>7. RunsKeepRows'
  <2> SUFFICES ASSUME NEW r \in Runs, Busy(r)'
               PROVE  /\ claimedBy'[run'[r].job] \in {run'[r].worker, NULL}
                      /\ status'[run'[r].job] \in Taken
    BY DEF RunsKeepRows, Taken
  <2>1. CASE run'[r] = run[r]
    BY <1>1, <1>3, <1>4, <2>1 DEF LeaseInv, RunsKeepRows, Busy
  <2>2. CASE run'[r] # run[r]
    BY <1>1, <2>2 DEF Taken
  <2> QED
    BY <2>1, <2>2
<1>8. OneRun'
  BY <1>1, <1>4 DEF LeaseInv, OneRun, Busy
<1>9. OrphansUnattended'
  <2> SUFFICES ASSUME NEW p \in Passes, NEW j \in reaper[p].orphans
               PROVE  /\ \A r \in Runs : Busy(r)' => run'[r].job # j
                      /\ claimedBy'[j] \in {reaper[p].cur, NULL}
                      /\ status'[j] \in {"CLAIMED", "RUNNING", "CANCELLED"}
                      /\ \A q \in Passes : q # p => j \notin reaper[q].orphans
    BY <1>2 DEF OrphansUnattended
  <2>1. j \notin S /\ j \in Jobs
    BY <1>3, <1>4
  <2> QED
    BY <1>1, <2>1 DEF LeaseInv, OrphansUnattended, Busy
<1>10. ChildrenWait'
  <2> SUFFICES ASSUME NEW r \in Runs, NEW c \in run'[r].children
               PROVE  /\ \A s \in Runs : Busy(s)' => run'[s].job # c
                      /\ \A p \in Passes : c \notin reaper[p].orphans
                      /\ status'[c] \in {"SCHEDULED", "CANCELLED"}
    BY <1>2 DEF ChildrenWait
  <2>1. c \in run[r].children /\ c \in Jobs
    BY <1>1 DEF IInv, TypeOK
  <2>2. c \notin S
    BY <1>4, <2>1
  <2> QED
    BY <1>1, <2>1, <2>2 DEF LeaseInv, ChildrenWait, Busy
<1> QED
  BY <1>5, <1>6, <1>7, <1>8, <1>9, <1>10 DEF LeaseInv

\* A pass that turns to its next dead worker, or ends, has no orphans.
LEMMA NextDeadEffect ==
    ASSUME IInv, NEW p \in Passes
    PROVE  /\ NextDead(p).pc \in {"idle", "mark"}
           /\ NextDead(p).cur = NULL
           /\ NextDead(p).orphans = {}
           /\ NextDead(p).dead = reaper[p].dead
<1>1. reaper[p] \in [pc : {"idle", "mark", "find", "requeue"},
                     worker : Workers \cup {NULL},
                     dead : SUBSET Workers,
                     cur : Workers \cup {NULL},
                     orphans : SUBSET Jobs]
  BY DEF IInv, TypeOK
<1> QED
  BY <1>1 DEF NextDead, IdleReaper

\* A reaper pass deals only with workers that are gone, so that no orphan it
\* finds is being executed; and no other pass re-queues that orphan before.
LEMMA ReapLease ==
    ASSUME IInv, LeaseInv, DeadAreDead, PassesDisjoint, NEW p \in Passes, Reap(p)
    PROVE  LeaseInv'
<1>1. UNCHANGED <<run, phase, stale>>
  BY DEF Reap, ReapScan, ReapMark, ReapFind, ReapRequeue, workerVars
<1>2. RunsAreLive' /\ OneRun'
  BY <1>1 DEF LeaseInv, RunsAreLive, OneRun, Live, Busy
<1>3. /\ \A q \in Passes : q # p => reaper'[q] = reaper[q]
      /\ reaper[p].dead \subseteq Workers /\ reaper[p].orphans \subseteq Jobs
      /\ reaper[p].cur \in Workers \cup {NULL}
  BY DEF Reap, ReapScan, ReapMark, ReapFind, ReapRequeue, IInv, TypeOK
<1>4. /\ \A v \in Reaping(p) : phase[v] = "gone"
      /\ \A v \in Reaping(p)' : phase[v] = "gone"
      /\ reaper'[p].orphans # {} => reaper'[p].pc = "requeue"
      /\ reaper'[p].pc \in {"find", "requeue"} => reaper'[p].cur # NULL
  <2>1. /\ \A v \in Reaping(p) : phase[v] = "gone"
        /\ reaper[p].orphans # {} => reaper[p].pc = "requeue"
        /\ reaper[p].pc \in {"find", "requeue"} => reaper[p].cur # NULL
    BY DEF LeaseInv, ReapingTheGone
  <2>2. CASE \E w \in Workers : ReapScan(p, w)
    <3>1. /\ reaper'[p].pc = "mark" /\ reaper'[p].dead = DeadWorkers
          /\ reaper'[p].cur = NULL /\ reaper'[p].orphans = {}
      BY <2>2 DEF ReapScan, IInv, TypeOK
    <3>2. \A v \in DeadWorkers : phase[v] = "gone"
      BY DEF DeadAreDead, Live, DeadWorkers, LeaseInv, ReapingTheGone, IInv, TypeOK
    <3> QED
      BY <2>1, <3>1, <3>2 DEF Reaping
  <2>3. CASE ReapMark(p)
    <3>1. PICK v \in reaper[p].dead :
              reaper' = [reaper EXCEPT ![p] =
                  [reaper[p] EXCEPT !.pc = "find", !.dead = @ \ {v}, !.cur = v]]
      BY <2>3 DEF ReapMark
    <3>2. reaper'[p] = [reaper[p] EXCEPT !.pc = "find", !.dead = reaper[p].dead \ {v}, !.cur = v]
      BY <3>1 DEF IInv, TypeOK
    <3>3. /\ reaper'[p].pc = "find" /\ reaper'[p].dead = reaper[p].dead \ {v}
          /\ reaper'[p].cur = v /\ reaper'[p].orphans = reaper[p].orphans
      BY <3>2 DEF IInv, TypeOK
    <3>4. reaper[p].orphans = {}
      BY <2>1, <2>3 DEF ReapMark
    <3> QED
      BY <1>3, <2>1, <3>3, <3>4, NullIsNoRow DEF Reaping
  <2>4. CASE ReapFind(p)
    <3>1. CASE reaper'[p] = NextDead(p)
      BY <2>1, <3>1, NextDeadEffect DEF Reaping
    <3>2. CASE reaper'[p] = [reaper[p] EXCEPT !.pc = "requeue", !.orphans = Orphans(reaper[p].cur)]
      <4>1. /\ reaper'[p].pc = "requeue" /\ reaper'[p].cur = reaper[p].cur
            /\ reaper'[p].dead = reaper[p].dead
        BY <3>2 DEF IInv, TypeOK
      <4> QED
        BY <2>1, <2>4, <4>1 DEF Reaping, ReapFind
    <3> QED
      BY <2>4, <3>1, <3>2 DEF ReapFind, IInv, TypeOK
  <2>5. CASE ReapRequeue(p)
    <3>1. reaper'[p] = NextDead(p)
      BY <2>5 DEF ReapRequeue, IInv, TypeOK
    <3> QED
      BY <2>1, <3>1, NextDeadEffect DEF Reaping
  <2> QED
    BY <2>1, <2>2, <2>3, <2>4, <2>5 DEF Reap
<1>5. ReapingTheGone'
  BY <1>1, <1>3, <1>4 DEF LeaseInv, ReapingTheGone, Reaping
<1>6. CASE \/ \E w \in Workers : ReapScan(p, w)
           \/ ReapMark(p)
           \/ ReapFind(p) /\ reaper'[p].orphans = {}
  <2>1. UNCHANGED jobVars
    BY <1>6 DEF ReapScan, ReapMark, ReapFind
  <2>2. reaper'[p].orphans = {}
    <3>1. CASE ReapMark(p)
      BY <1>4, <3>1 DEF ReapMark, IInv, TypeOK
    <3>2. CASE \E w \in Workers : ReapScan(p, w)
      BY <3>2 DEF ReapScan, IInv, TypeOK
    <3> QED
      BY <1>6, <3>1, <3>2
  <2>3. RunsKeepRows'
    BY <1>1, <2>1 DEF jobVars, LeaseInv, RunsKeepRows, Busy
  <2>4. OrphansUnattended' /\ ChildrenWait'
    BY <1>1, <1>3, <2>1, <2>2 DEF jobVars, LeaseInv, OrphansUnattended, ChildrenWait, Busy
  <2> QED
    BY <1>2, <1>5, <2>3, <2>4 DEF LeaseInv
<1>7. CASE ReapFind(p) /\ reaper'[p].orphans # {}
  <2> DEFINE c == reaper[p].cur
  <2>1. c \in Reaping(p) /\ c \in Workers /\ phase[c] = "gone"
    BY <1>3, <1>4, <1>7 DEF ReapFind, LeaseInv, ReapingTheGone, Reaping
  <2>2. reaper'[p].cur = c /\ reaper'[p].orphans = Orphans(c)
    <3>1. reaper'[p] # NextDead(p)
      BY <1>7, NextDeadEffect
    <3>2. reaper'[p] = [reaper[p] EXCEPT !.pc = "requeue", !.orphans = Orphans(c)]
      BY <1>7, <3>1 DEF ReapFind, IInv, TypeOK
    <3>3. reaper[p] \in [pc : {"idle", "mark", "find", "requeue"},
                         worker : Workers \cup {NULL},
                         dead : SUBSET Workers,
                         cur : Workers \cup {NULL},
                         orphans : SUBSET Jobs]
      BY DEF IInv, TypeOK
    <3> QED
      BY <3>2, <3>3
  <2>3. UNCHANGED <<status, claimedBy>>
    BY <1>7 DEF ReapFind, jobVars
  <2>4. \A j \in Orphans(c) : \A r \in Runs : Busy(r) => run[r].job # j
    BY <2>1, NullIsNoRow DEF Orphans, LeaseInv, RunsKeepRows, RunsAreLive, Live
  <2>5. RunsKeepRows'
    BY <1>1, <2>3 DEF LeaseInv, RunsKeepRows, Busy
  \* An orphan of another pass names the dead worker of that pass, or nobody.
  <2>6. \A q \in Passes : q # p => reaper[q].orphans \cap Orphans(c) = {}
    <3> SUFFICES ASSUME NEW q \in Passes, q # p, NEW j \in reaper[q].orphans, j \in Orphans(c)
                 PROVE  FALSE
      OBVIOUS
    <3>1. c = reaper[q].cur
      BY <2>1, NullIsNoRow DEF LeaseInv, OrphansUnattended, Orphans
    <3> QED
      BY <2>1, <3>1 DEF PassesDisjoint, Reaping
  <2>7. OrphansUnattended'
    BY <1>1, <1>3, <2>2, <2>3, <2>4, <2>6 DEF LeaseInv, OrphansUnattended, Busy, Orphans, InFlight
  <2>8. ChildrenWait'
    <3>1. \A j \in Orphans(c) : status[j] \in {"CLAIMED", "RUNNING"}
      BY DEF Orphans, InFlight
    <3> QED
      BY <1>1, <1>3, <2>2, <2>3, <3>1 DEF LeaseInv, ChildrenWait, Busy
  <2> QED
    BY <1>2, <1>5, <2>5, <2>7, <2>8 DEF LeaseInv
<1>8. CASE ReapRequeue(p)
  <2> DEFINE S == reaper[p].orphans
  <2>1. /\ status' = [j \in Jobs |-> IF j \in S THEN "QUEUED" ELSE status[j]]
        /\ claimedBy' = [j \in Jobs |-> IF j \in S THEN NULL ELSE claimedBy[j]]
        /\ reaper'[p].orphans = {}
    <3>1. reaper'[p] = NextDead(p)
      BY <1>8 DEF ReapRequeue, IInv, TypeOK
    <3> QED
      BY <1>8, <3>1, NextDeadEffect DEF ReapRequeue
  <2>2. \A r \in Runs : Busy(r) => run[r].job \notin S /\ run[r].job \in Jobs
    BY DEF LeaseInv, OrphansUnattended, IInv, RunsAssigned, Busy
  <2>3. RunsKeepRows'
    BY <1>1, <2>1, <2>2 DEF LeaseInv, RunsKeepRows, Busy
  <2>4. \A q \in Passes : q # p => reaper[q].orphans \cap S = {}
    BY DEF LeaseInv, OrphansUnattended
  <2>5. OrphansUnattended'
    BY <1>1, <1>3, <2>1, <2>4 DEF LeaseInv, OrphansUnattended, Busy, IInv, TypeOK
  <2>6. ChildrenWait'
    <3>1. \A r \in Runs : run[r].children \subseteq Jobs
      BY DEF IInv, TypeOK
    <3> QED
      BY <1>1, <1>3, <2>1, <3>1 DEF LeaseInv, ChildrenWait, Busy
  <2> QED
    BY <1>2, <1>5, <2>3, <2>5, <2>6 DEF LeaseInv
<1> QED
  BY <1>6, <1>7, <1>8 DEF Reap

LEMMA LeaseStep ==
    ASSUME IInv, Tree, ChildrenDepend, LeaseInv, DeadAreDead, PassesDisjoint,
           [Next]_vars, [QueuesUnattended]_vars
    PROVE  LeaseInv'
<1>1. CASE UNCHANGED vars
  <2>1. UNCHANGED <<status, claimedBy, run, phase, stale, reaper>>
    BY <1>1 DEF vars, jobVars, workerVars
  <2> QED
    BY <2>1 DEF LeaseInv, RunsAreLive, ReapingTheGone, RunsKeepRows, OneRun,
       OrphansUnattended, ChildrenWait, Reaping, Live, Busy
<1>2. CASE Next /\ QueuesUnattended
  BY <1>2, JobsStepLease, WorkerStepLease, ReaperThrowsLease, ClaimLease, ReapLease,
     ExecuteLease, ApiLease DEF Next
<1>3. CASE Next /\ UNCHANGED vars
  BY <1>1, <1>3
<1> QED
  BY <1>1, <1>2, <1>3

LEMMA InitLease == Init => LeaseInv
BY NullIsNoRow DEF Init, LeaseInv, RunsAreLive, ReapingTheGone, RunsKeepRows, OneRun,
   OrphansUnattended, ChildrenWait, Reaping, IdleRun, IdleReaper, Busy

\* Invocations that are alone with their job are at most one.
LEMMA OneRunCounts == OneRun => OneExecutorPerJob
<1> SUFFICES ASSUME OneRun, NEW j \in Jobs PROVE Cardinality(LiveRuns(j)) <= 1
  BY DEF OneExecutorPerJob
<1>1. CASE LiveRuns(j) = {}
  BY <1>1, FS_EmptySet
<1>2. CASE LiveRuns(j) # {}
  <2>1. PICK r : r \in LiveRuns(j)
    BY <1>2
  <2>2. LiveRuns(j) = {r}
    BY <2>1 DEF LiveRuns, OneRun, Busy
  <2> QED
    BY <2>2, FS_Singleton
<1> QED
  BY <1>1, <1>2

\* The invariant of the leases holds as long as only dead workers are taken
\* for dead, no two passes deal with the same one, the API queues no job that
\* is attended, and no job has two parents: whatever else crashes, stops, fails
\* or is cancelled.
THEOREM LeaseInvariance ==
    ASSUME Tree
    PROVE  Spec /\ [](DeadAreDead /\ PassesDisjoint) /\ [][QueuesUnattended]_vars
               => []LeaseInv
<1>1. IInv /\ ChildrenDepend /\ LeaseInv /\ (DeadAreDead /\ PassesDisjoint) /\ [Next]_vars
          /\ [QueuesUnattended]_vars => LeaseInv'
  BY LeaseStep
<1> QED
  BY <1>1, InitLease, Invariance, ResolversCarryChildren, PTL DEF Spec

\* Under these conditions a job is in the hands of at most one invocation of
\* Executor.execute, whatever else crashes, stops or fails.
THEOREM OneExecutor ==
    ASSUME Tree
    PROVE  Spec /\ [](DeadAreDead /\ PassesDisjoint) /\ [][QueuesUnattended]_vars
               => []OneExecutorPerJob
<1>1. LeaseInv => OneExecutorPerJob
  BY OneRunCounts DEF LeaseInv
<1> QED
  BY <1>1, LeaseInvariance, PTL

-----------------------------------------------------------------------------
(***************************************************************************)
(* The lease. With one executor per job, nobody writes the row of a job    *)
(* under its executor if the API leaves it alone, too: the row says what   *)
(* the invocation last wrote. One fault spoils that: when the resolution   *)
(* of the children fails, the job is COMPLETED and its invocation goes to  *)
(* the catch block, to record a failure.                                   *)
(***************************************************************************)
RunHoldsLease(r) ==
    IF run[r].pc \in Resolving THEN status[run[r].job] = "COMPLETED"
    ELSE claimedBy[run[r].job] = run[r].worker /\ status[run[r].job] \in InFlight

HoldInv ==
    /\ \A r \in Runs : Busy(r) => RunHoldsLease(r)
    /\ \A p \in Passes : \A j \in reaper[p].orphans : status[j] \in InFlight

\* The conditions: no request writes a job that is attended, and the
\* resolution of the children does not fail.
WritesUnattended ==
    /\ QueuesUnattended
    /\ \A q \in Requests, j \in Jobs : ApiCancels(q, j) => Unattended(j)
ResolvesSucceed == \A r \in Runs : run[r].pc \in Resolving => run'[r].pc # "fail"

\* A step that lets the attended jobs and their invocations be.
LEMMA HoldKept ==
    ASSUME IInv, HoldInv,
           \A r \in Runs : Busy(r)' => run'[r] = run[r],
           \A p \in Passes : reaper'[p] = reaper[p] \/ reaper'[p] = IdleReaper,
           \A j \in Jobs : \/ status'[j] = status[j] /\ claimedBy'[j] = claimedBy[j]
                           \/ Unattended(j)
    PROVE  HoldInv'
<1>1. ASSUME NEW r \in Runs, Busy(r)' PROVE RunHoldsLease(r)'
  <2>1. run'[r] = run[r] /\ Busy(r) /\ run[r].job \in Jobs /\ ~Unattended(run[r].job)
    BY <1>1 DEF Busy, IInv, RunsAssigned, Unattended, LiveRuns
  <2> QED
    BY <2>1 DEF HoldInv, RunHoldsLease
<1>2. ASSUME NEW p \in Passes, NEW j \in reaper'[p].orphans PROVE status'[j] \in InFlight
  <2>1. reaper'[p] = reaper[p] /\ j \in Jobs /\ ~Unattended(j)
    BY <1>2 DEF IdleReaper, IInv, TypeOK, Unattended
  <2> QED
    BY <1>2, <2>1 DEF HoldInv
<1> QED
  BY <1>1, <1>2 DEF HoldInv, InFlight

LEMMA JobsStepHold ==
    ASSUME IInv, LeaseInv, HoldInv, NEW k \in Jobs, Submit(k) \/ RunAtPasses(k)
    PROVE  HoldInv'
<1>1. UNCHANGED <<run, reaper>>
  BY DEF Submit, RunAtPasses
<1>2. ASSUME NEW j \in Jobs
      PROVE  \/ status'[j] = status[j] /\ claimedBy'[j] = claimedBy[j]
             \/ Unattended(j)
  <2>1. CASE j = k /\ Submit(k)
    <3>1. status[j] = "NONE"
      BY <2>1 DEF Submit
    <3> QED
      BY <3>1 DEF Unattended, LiveRuns, LeaseInv, RunsKeepRows, OrphansUnattended, Taken, Busy
  <2>2. CASE ~(j = k /\ Submit(k))
    BY <2>2 DEF Submit, RunAtPasses, IInv, TypeOK
  <2> QED
    BY <2>1, <2>2
<1> QED
  BY <1>1, <1>2, HoldKept

LEMMA WorkerStepHold ==
    ASSUME IInv, HoldInv, NEW w \in Workers,
           \/ Register(w) \/ Heartbeat(w) \/ HeartbeatExpires(w) \/ LatePing(w)
           \/ Crash(w) \/ Shutdown(w) \/ Drain(w)
    PROVE  HoldInv'
<1>1. UNCHANGED <<status, claimedBy>>
  BY DEF Register, Heartbeat, HeartbeatExpires, LatePing, Crash, Shutdown, Drain,
     SetDraining, Drained, Exit, jobVars
<1>2. \A r \in Runs : Busy(r)' => run'[r] = run[r]
  BY DEF Busy, IdleRun, Register, Heartbeat, HeartbeatExpires, LatePing, Crash, Shutdown,
     Drain, SetDraining, Drained, Exit, ProcessEnds
<1>3. \A p \in Passes : reaper'[p] = reaper[p] \/ reaper'[p] = IdleReaper
  BY DEF Register, Heartbeat, HeartbeatExpires, LatePing, Crash, Shutdown, Drain,
     SetDraining, Drained, Exit, ProcessEnds, IInv, TypeOK
<1> QED
  BY <1>1, <1>2, <1>3, HoldKept

LEMMA ReaperThrowsHold ==
    ASSUME IInv, HoldInv, NEW p \in Passes, ReaperThrows(p)
    PROVE  HoldInv'
<1>1. UNCHANGED <<status, claimedBy, run>>
  BY DEF ReaperThrows, jobVars
<1>2. \A q \in Passes : reaper'[q] = reaper[q] \/ reaper'[q] = IdleReaper
  BY DEF ReaperThrows, IInv, TypeOK
<1> QED
  BY <1>1, <1>2, HoldKept

LEMMA ApiHold ==
    ASSUME IInv, HoldInv, WritesUnattended, NEW q \in Requests, Api(q)
    PROVE  HoldInv'
<1>1. UNCHANGED <<run, reaper>>
  BY DEF Api, CancelRead, RetryRead, Admit, CancelWrite, RetryWrite, ReplayDlq
<1>2. ASSUME NEW j \in Jobs
      PROVE  \/ status'[j] = status[j] /\ claimedBy'[j] = claimedBy[j]
             \/ Unattended(j)
  <2>1. CASE ApiQueues(q, j) \/ ApiCancels(q, j)
    BY <2>1 DEF WritesUnattended, QueuesUnattended
  <2>2. CASE ~(ApiQueues(q, j) \/ ApiCancels(q, j))
    <3>1. CASE RetryWrite(q)
      BY <2>2, <3>1 DEF ApiQueues, RetryWrite, Requeue, ReleaseClaim, IInv, TypeOK
    <3>2. CASE CancelWrite(q)
      BY <2>2, <3>2 DEF ApiCancels, CancelWrite, ReleaseClaim, IInv, TypeOK
    <3>3. CASE \E k \in Jobs : \E i \in DOMAIN dlq[k] : ReplayDlq(q, k, i)
      <4>1. PICK k \in Jobs : \E i \in DOMAIN dlq[k] : ReplayDlq(q, k, i)
        BY <3>3
      <4>2. k # j
        BY <2>2, <4>1 DEF ApiQueues
      <4> QED
        BY <4>1, <4>2 DEF ReplayDlq, Requeue, ReleaseClaim, IInv, TypeOK
    <3>4. CASE \E k \in Jobs : CancelRead(q, k) \/ RetryRead(q, k)
      BY <3>4 DEF CancelRead, RetryRead, Admit, jobVars
    <3> QED
      BY <3>1, <3>2, <3>3, <3>4 DEF Api
  <2> QED
    BY <2>1, <2>2
<1> QED
  BY <1>1, <1>2, HoldKept

LEMMA ClaimHold ==
    ASSUME IInv, LeaseInv, HoldInv, NEW w \in Workers, ClaimJobs(w)
    PROVE  HoldInv'
<1>1. PICK S \in SUBSET {j \in Jobs : Claimable(j)} :
              /\ status' = [j \in Jobs |-> IF j \in S THEN "CLAIMED" ELSE status[j]]
              /\ claimedBy' = [j \in Jobs |-> IF j \in S THEN w ELSE claimedBy[j]]
              /\ \A r \in Runs :
                    \/ run'[r] = run[r]
                    \/ /\ ~Busy(r) /\ run'[r].pc = "count"
                       /\ run'[r].worker = w /\ run'[r].job \in S
                       /\ run'[r].children = {}
              /\ \A r, s \in Runs :
                    /\ run'[r] # run[r] /\ run'[s] # run[s]
                    /\ run'[r].job = run'[s].job
                    => r = s
  BY ClaimEffect
<1>2. \A j \in S :
          /\ \A r \in Runs : Busy(r) => run[r].job # j
          /\ \A p \in Passes : j \notin reaper[p].orphans
  BY DEF Claimable, LeaseInv, RunsKeepRows, OrphansUnattended, Taken
<1>3. ASSUME NEW r \in Runs, Busy(r)' PROVE RunHoldsLease(r)'
  <2>1. CASE run'[r] = run[r]
    <3>1. Busy(r) /\ run[r].job \in Jobs /\ run[r].job \notin S
      BY <1>2, <1>3, <2>1 DEF Busy, IInv, RunsAssigned
    <3> QED
      BY <1>1, <2>1, <3>1 DEF HoldInv, RunHoldsLease
  <2>2. CASE run'[r] # run[r]
    BY <1>1, <2>2 DEF RunHoldsLease, InFlight, Resolving
  <2> QED
    BY <2>1, <2>2
<1>4. ASSUME NEW p \in Passes, NEW j \in reaper'[p].orphans PROVE status'[j] \in InFlight
  <2>1. j \in reaper[p].orphans /\ j \notin S /\ j \in Jobs
    BY <1>2, <1>4 DEF ClaimJobs, IInv, TypeOK
  <2> QED
    BY <1>1, <2>1 DEF HoldInv
<1> QED
  BY <1>3, <1>4 DEF HoldInv, InFlight

\* What a find statement leaves to re-queue.
LEMMA ReapFindOrphans ==
    ASSUME IInv, NEW p \in Passes, ReapFind(p)
    PROVE  reaper'[p].orphans = {} \/ reaper'[p].orphans = Orphans(reaper[p].cur)
<1> DEFINE found == Orphans(reaper[p].cur)
<1>1. \/ reaper'[p] = NextDead(p)
      \/ reaper'[p] = [reaper[p] EXCEPT !.pc = "requeue", !.orphans = found]
  BY DEF ReapFind, IInv, TypeOK
<1>2. reaper[p] \in [pc : {"idle", "mark", "find", "requeue"},
                     worker : Workers \cup {NULL},
                     dead : SUBSET Workers,
                     cur : Workers \cup {NULL},
                     orphans : SUBSET Jobs]
  BY DEF IInv, TypeOK
<1> HIDE DEF found
<1>3. NextDead(p).orphans = {}
  BY NextDeadEffect
<1>4. reaper'[p].orphans = {} \/ reaper'[p].orphans = found
  BY <1>1, <1>2, <1>3
<1> QED
  BY <1>4 DEF found

\* What a step of a pass leaves to re-queue, and what it re-queues.
LEMMA ReapEffect ==
    ASSUME IInv, LeaseInv, NEW p \in Passes, Reap(p)
    PROVE  /\ \A q \in Passes : q # p => reaper'[q] = reaper[q]
           /\ \/ /\ UNCHANGED <<status, claimedBy>>
                 /\ \/ reaper'[p].orphans = {}
                    \/ reaper'[p].orphans = Orphans(reaper[p].cur)
              \/ /\ status' = [j \in Jobs |-> IF j \in reaper[p].orphans THEN "QUEUED" ELSE status[j]]
                 /\ claimedBy' = [j \in Jobs |-> IF j \in reaper[p].orphans THEN NULL ELSE claimedBy[j]]
                 /\ reaper'[p].orphans = {}
<1>1. \A q \in Passes : q # p => reaper'[q] = reaper[q]
  BY DEF Reap, ReapScan, ReapMark, ReapFind, ReapRequeue, IInv, TypeOK
<1>2. CASE \E w \in Workers : ReapScan(p, w)
  BY <1>1, <1>2 DEF ReapScan, jobVars, IInv, TypeOK
<1>3. CASE ReapMark(p)
  <2>1. reaper[p].orphans = {}
    BY <1>3 DEF ReapMark, LeaseInv, ReapingTheGone
  <2>2. PICK v : reaper' = [reaper EXCEPT ![p] =
                    [reaper[p] EXCEPT !.pc = "find", !.dead = @ \ {v}, !.cur = v]]
    BY <1>3 DEF ReapMark
  <2>3. reaper'[p] = [reaper[p] EXCEPT !.pc = "find", !.dead = reaper[p].dead \ {v}, !.cur = v]
    BY <2>2 DEF IInv, TypeOK
  <2>4. reaper'[p].orphans = reaper[p].orphans
    BY <2>3 DEF IInv, TypeOK
  <2> QED
    BY <1>1, <1>3, <2>1, <2>4 DEF ReapMark, jobVars
<1>4. CASE ReapFind(p)
  BY <1>1, <1>4, ReapFindOrphans DEF ReapFind, jobVars
<1>5. CASE ReapRequeue(p)
  <2>1. reaper'[p] = NextDead(p)
    BY <1>5 DEF ReapRequeue, IInv, TypeOK
  <2> QED
    BY <1>1, <1>5, <2>1, NextDeadEffect DEF ReapRequeue
<1> QED
  BY <1>2, <1>3, <1>4, <1>5 DEF Reap

LEMMA ReapHold ==
    ASSUME IInv, LeaseInv, HoldInv, NEW p \in Passes, Reap(p)
    PROVE  HoldInv'
<1>1. UNCHANGED run
  BY DEF Reap, ReapScan, ReapMark, ReapFind, ReapRequeue
<1>2. /\ \A r \in Runs : Busy(r) => run[r].job \in Jobs
      /\ \A q \in Passes : reaper[q].orphans \subseteq Jobs
  BY DEF IInv, RunsAssigned, TypeOK, Busy
<1>3. CASE /\ UNCHANGED <<status, claimedBy>>
           /\ reaper'[p].orphans = {} \/ reaper'[p].orphans = Orphans(reaper[p].cur)
  <2>1. \A j \in reaper'[p].orphans : status[j] \in InFlight
    BY <1>3 DEF Orphans
  <2>2. \A q \in Passes : q # p => reaper'[q] = reaper[q]
    BY ReapEffect
  <2> QED
    BY <1>1, <1>3, <2>1, <2>2 DEF HoldInv, RunHoldsLease, Busy, InFlight
<1>4. CASE /\ status' = [j \in Jobs |-> IF j \in reaper[p].orphans THEN "QUEUED" ELSE status[j]]
           /\ claimedBy' = [j \in Jobs |-> IF j \in reaper[p].orphans THEN NULL ELSE claimedBy[j]]
           /\ reaper'[p].orphans = {}
  <2>1. \A q \in Passes : q # p => reaper'[q] = reaper[q]
    BY ReapEffect
  <2>2. /\ \A r \in Runs : Busy(r) => run[r].job \notin reaper[p].orphans
        /\ \A q \in Passes : q # p => reaper[q].orphans \cap reaper[p].orphans = {}
    BY DEF LeaseInv, OrphansUnattended
  <2>3. \A r \in Runs : Busy(r)' => RunHoldsLease(r)'
    BY <1>1, <1>2, <1>4, <2>2 DEF HoldInv, RunHoldsLease, Busy
  <2>4. \A q \in Passes : \A j \in reaper'[q].orphans : status'[j] \in InFlight
    BY <1>2, <1>4, <2>1, <2>2 DEF HoldInv
  <2> QED
    BY <2>3, <2>4 DEF HoldInv, InFlight
<1> QED
  BY <1>3, <1>4, ReapEffect

LEMMA ExecuteHold ==
    ASSUME IInv, LeaseInv, HoldInv, ResolvesSucceed,
           NEW r \in Runs, Execute(r) \/ DbErrorInRun(r)
    PROVE  HoldInv'
<1> DEFINE J == run[r].job
<1>1. run[r].pc # "idle" /\ J \in Jobs
  BY ExecuteMoves DEF IInv, RunsAssigned
<1>2. /\ \A s \in Runs : s # r => run'[s] = run[s]
      /\ UNCHANGED reaper
  BY ExecuteMoves
\* Of other jobs it writes only the children it carries, which nobody attends.
<1>3. ASSUME NEW j \in Jobs, j # J
      PROVE  \/ status'[j] = status[j] /\ claimedBy'[j] = claimedBy[j]
             \/ Unattended(j)
  <2>1. CASE Unlock(r, j)
    BY <2>1 DEF Unlock, LeaseInv, ChildrenWait, Unattended, LiveRuns, Busy
  <2>2. CASE ~Unlock(r, j)
    BY <1>3, <2>2 DEF IInv, TypeOK, Execute, CountExecutions, StartExecution, StartRejected,
       HandlerSucceeds, HandlerFails, Complete, ReadChildren, ReadParents, Unlock, Resolved,
       RecordFailure, ScheduleRetry, RetryLogged, DeadLetter, DbErrorInRun, ReleaseClaim, jobVars
  <2> QED
    BY <2>1, <2>2
<1>4. CASE run[r].pc = "retried"
  <2>1. run'[r] = IdleRun /\ UNCHANGED jobVars
    BY <1>4, ExecuteMoves
  <2>2. \A s \in Runs : Busy(s)' => run'[s] = run[s]
    BY <1>2, <2>1 DEF Busy, IdleRun
  <2> QED
    BY <1>2, <2>1, <2>2, HoldKept DEF jobVars
<1>5. CASE run[r].pc # "retried"
  <2>1. Busy(r) /\ RunHoldsLease(r)
    BY <1>1, <1>5 DEF HoldInv, Busy
  <2>2. Busy(r)' => RunHoldsLease(r)'
    <3>1. CASE run[r].pc \in Resolving
      <4>1. run'[r].pc \in Resolving \/ ~Busy(r)'
        BY <3>1, ExecuteMoves DEF ResolvesSucceed, Busy
      <4>2. status'[J] = status[J]
        <5>1. CASE \E c \in Jobs : Unlock(r, c)
          BY <2>1, <3>1, <5>1 DEF Unlock, LeaseInv, ChildrenWait, RunHoldsLease, IInv, TypeOK
        <5>2. CASE ~\E c \in Jobs : Unlock(r, c)
          BY <3>1, <5>2 DEF Execute, CountExecutions, StartExecution, StartRejected,
             HandlerSucceeds, HandlerFails, Complete, ReadChildren, ReadParents, Resolved,
             RecordFailure, ScheduleRetry, RetryLogged, DeadLetter, DbErrorInRun, Resolving, jobVars
        <5> QED
          BY <5>1, <5>2
      <4>3. Busy(r)' => run'[r].job = J
        BY ExecuteMoves DEF Busy, IdleRun
      <4> QED
        BY <2>1, <3>1, <4>1, <4>2, <4>3 DEF RunHoldsLease
    <3>2. CASE StartExecution(r)
      <4>1. run'[r].pc = "handler" /\ run'[r].job = J /\ run'[r].worker = run[r].worker
        BY <3>2 DEF StartExecution, Goto, IInv, TypeOK
      <4>2. run[r].pc = "start" /\ status'[J] = "RUNNING" /\ claimedBy' = claimedBy
        BY <1>1, <3>2 DEF StartExecution, IInv, TypeOK
      <4> QED
        BY <2>1, <4>1, <4>2 DEF RunHoldsLease, InFlight, Resolving
    <3>3. CASE Complete(r)
      <4>1. run'[r].pc = "resolve" /\ run'[r].job = J
        BY <3>3 DEF Complete, Goto, IInv, TypeOK
      <4>2. status'[J] = "COMPLETED"
        BY <1>1, <3>3 DEF Complete, IInv, TypeOK
      <4> QED
        BY <4>1, <4>2 DEF RunHoldsLease, Resolving
    <3>4. CASE /\ run[r].pc \notin Resolving
               /\ \/ CountExecutions(r) \/ HandlerSucceeds(r) \/ HandlerFails(r)
                  \/ RecordFailure(r) \/ DbErrorInRun(r)
      <4>1. UNCHANGED jobVars
        BY <3>4 DEF CountExecutions, HandlerSucceeds, HandlerFails, RecordFailure, DbErrorInRun
      <4>2. run'[r].pc \notin Resolving
        <5>1. ~Complete(r)
          BY <1>1, <2>1, <3>4, <4>1 DEF Complete, RunHoldsLease, InFlight, jobVars, IInv, TypeOK
        <5> QED
          BY <3>4, <5>1, ExecuteMoves
      <4>3. Busy(r)' => run'[r].job = J /\ run'[r].worker = run[r].worker
        BY ExecuteMoves DEF Busy, IdleRun
      <4> QED
        BY <2>1, <3>4, <4>1, <4>2, <4>3 DEF RunHoldsLease, jobVars
    <3>5. CASE \/ StartRejected(r) \/ ScheduleRetry(r) \/ DeadLetter(r)
      <4>1. run'[r].pc \in {"idle", "retried"}
        BY <3>5 DEF StartRejected, ScheduleRetry, DeadLetter, EndRun, Goto, IdleRun, IInv, TypeOK
      <4> QED
        BY <4>1 DEF Busy
    <3> QED
      BY <1>5, <3>1, <3>2, <3>3, <3>4, <3>5 DEF Execute, ReadChildren, ReadParents, Unlock,
         Resolved, RetryLogged, Resolving
  <2>3. ASSUME NEW s \in Runs, s # r, Busy(s)' PROVE RunHoldsLease(s)'
    <3>1. run'[s] = run[s] /\ Busy(s) /\ run[s].job \in Jobs /\ run[s].job # J
      BY <1>2, <2>1, <2>3 DEF Busy, IInv, RunsAssigned, LeaseInv, OneRun
    <3>2. ~Unattended(run[s].job)
      BY <3>1 DEF Unattended, LiveRuns, Busy
    <3> QED
      BY <1>3, <3>1, <3>2 DEF HoldInv, RunHoldsLease
  <2>4. ASSUME NEW p \in Passes, NEW j \in reaper'[p].orphans PROVE status'[j] \in InFlight
    <3>1. j \in reaper[p].orphans /\ j \in Jobs /\ j # J
      BY <1>2, <2>1, <2>4 DEF IInv, TypeOK, LeaseInv, OrphansUnattended
    <3>2. ~Unattended(j)
      BY <3>1 DEF Unattended
    <3> QED
      BY <1>3, <3>1, <3>2 DEF HoldInv
  <2> QED
    BY <2>2, <2>3, <2>4 DEF HoldInv, InFlight
<1> QED
  BY <1>4, <1>5

LEMMA HoldStep ==
    ASSUME IInv, LeaseInv, HoldInv, [Next]_vars,
           [WritesUnattended /\ ResolvesSucceed]_vars
    PROVE  HoldInv'
<1>1. CASE UNCHANGED vars
  <2>1. UNCHANGED <<status, claimedBy, run, reaper>>
    BY <1>1 DEF vars, jobVars
  <2> QED
    BY <2>1 DEF HoldInv, RunHoldsLease, Busy, InFlight
<1>2. CASE Next /\ WritesUnattended /\ ResolvesSucceed
  BY <1>2, JobsStepHold, WorkerStepHold, ReaperThrowsHold, ClaimHold, ReapHold, ExecuteHold,
     ApiHold DEF Next
<1> QED
  BY <1>1, <1>2

LEMMA InitHold == Init => HoldInv
BY DEF Init, HoldInv, IdleRun, IdleReaper, Busy

\* If the API leaves the row of an attended job alone, too, and no resolution
\* of children fails, the row says what its invocation wrote last.
THEOREM HoldInvariance ==
    ASSUME Tree
    PROVE  Spec /\ [](DeadAreDead /\ PassesDisjoint)
                /\ [][WritesUnattended /\ ResolvesSucceed]_vars
               => []LeaseInv /\ []HoldInv
<1>1. [WritesUnattended /\ ResolvesSucceed]_vars => [QueuesUnattended]_vars
  BY DEF WritesUnattended
<1>2. IInv /\ LeaseInv /\ HoldInv /\ [Next]_vars
          /\ [WritesUnattended /\ ResolvesSucceed]_vars => HoldInv'
  BY HoldStep
<1> QED
  BY <1>1, <1>2, LeaseInvariance, InitHold, Invariance, PTL DEF Spec

\* An invocation holds the lease of its job until it writes the outcome, if
\* besides nobody writes the row of a job under its executor and no
\* resolution of children fails.
THEOREM LeaseHeld ==
    ASSUME Tree
    PROVE  Spec /\ [](DeadAreDead /\ PassesDisjoint)
                /\ [][WritesUnattended /\ ResolvesSucceed]_vars
               => []LeaseIsHeld
<1>1. HoldInv => LeaseIsHeld
  BY DEF HoldInv, RunHoldsLease, LeaseIsHeld, Busy, NotStarted, Started
<1> QED
  BY <1>1, HoldInvariance, PTL

\* No request writes a completed job.
WritesSpareCompleted ==
    \A q \in Requests, j \in Jobs :
        ApiQueues(q, j) \/ ApiCancels(q, j) => status[j] # "COMPLETED"

Final == \A j \in Jobs : status[j] = "COMPLETED" =>
            /\ status'[j] = "COMPLETED"
            /\ Attempts(j)' = Attempts(j)

\* The invocation of a completed job has nothing left to write, and no
\* resolver carries it.
LEMMA FinalExecute ==
    ASSUME IInv, LeaseInv, HoldInv, NEW r \in Runs, Execute(r) \/ DbErrorInRun(r),
           NEW j \in Jobs, status[j] = "COMPLETED"
    PROVE  status'[j] = "COMPLETED" /\ executions'[j] = executions[j]
<1>1. ASSUME NEW c \in Jobs, Unlock(r, c)
      PROVE  status'[j] = "COMPLETED" /\ executions'[j] = executions[j]
  <2>1. c # j
    BY <1>1 DEF Unlock, LeaseInv, ChildrenWait
  <2>2. executions' = executions /\ status'[j] = status[j]
    BY <1>1, <2>1 DEF Unlock, historyVars, IInv, TypeOK
  <2> QED
    BY <2>2
<1>2. CASE run[r].job = j /\ ~\E c \in Jobs : Unlock(r, c)
  <2>1. run[r].pc \in {"idle", "retried"} \cup Resolving
    BY <1>2 DEF HoldInv, RunHoldsLease, Busy, InFlight
  <2> QED
    BY <1>2, <2>1 DEF Execute, CountExecutions, StartExecution, StartRejected, HandlerSucceeds,
       HandlerFails, Complete, ReadChildren, ReadParents, Resolved, RecordFailure, ScheduleRetry,
       RetryLogged, DeadLetter, DbErrorInRun, Resolving, jobVars, historyVars
<1>3. CASE run[r].job # j /\ ~\E c \in Jobs : Unlock(r, c)
  <2>1. status'[j] = status[j]
    BY <1>3 DEF Execute, CountExecutions, StartExecution, StartRejected, HandlerSucceeds,
       HandlerFails, Complete, ReadChildren, ReadParents, Resolved, RecordFailure, ScheduleRetry,
       RetryLogged, DeadLetter, DbErrorInRun, jobVars, IInv, TypeOK
  <2>2. executions'[j] = executions[j]
    BY <1>3 DEF Execute, CountExecutions, StartExecution, StartRejected, HandlerSucceeds,
       HandlerFails, Complete, ReadChildren, ReadParents, Resolved, RecordFailure, ScheduleRetry,
       RetryLogged, DeadLetter, DbErrorInRun, FinishExecution, historyVars, IInv, TypeOK
  <2> QED
    BY <2>1, <2>2
<1> QED
  BY <1>1, <1>2, <1>3

LEMMA FinalStep ==
    ASSUME IInv, LeaseInv, HoldInv, WritesSpareCompleted, Next
    PROVE  Final
<1> SUFFICES ASSUME NEW j \in Jobs, status[j] = "COMPLETED"
             PROVE  status'[j] = "COMPLETED" /\ executions'[j] = executions[j]
  BY DEF Final, Attempts
<1>1. ASSUME NEW r \in Runs, Execute(r) \/ DbErrorInRun(r)
      PROVE  status'[j] = "COMPLETED" /\ executions'[j] = executions[j]
  BY <1>1, FinalExecute
<1>2. ASSUME NEW k \in Jobs, Submit(k) \/ RunAtPasses(k)
      PROVE  status'[j] = "COMPLETED" /\ executions'[j] = executions[j]
  BY <1>2 DEF Submit, RunAtPasses, historyVars, IInv, TypeOK
<1>3. ASSUME NEW w \in Workers,
             \/ Register(w) \/ Heartbeat(w) \/ HeartbeatExpires(w) \/ LatePing(w)
             \/ Crash(w) \/ Shutdown(w) \/ Drain(w)
      PROVE  status'[j] = "COMPLETED" /\ executions'[j] = executions[j]
  BY <1>3 DEF Register, Heartbeat, HeartbeatExpires, LatePing, Crash, Shutdown, Drain,
     SetDraining, Drained, Exit, jobVars, historyVars
<1>4. ASSUME NEW w \in Workers, ClaimJobs(w)
      PROVE  status'[j] = "COMPLETED" /\ executions'[j] = executions[j]
  BY <1>4 DEF ClaimJobs, Claim, Claimable, historyVars
<1>5. ASSUME NEW p \in Passes, Reap(p) \/ ReaperThrows(p)
      PROVE  status'[j] = "COMPLETED" /\ executions'[j] = executions[j]
  <2>1. CASE ReapRequeue(p)
    BY <2>1 DEF ReapRequeue, HoldInv, InFlight, historyVars
  <2>2. CASE UNCHANGED <<jobVars, historyVars>>
    BY <2>2 DEF jobVars, historyVars
  <2> QED
    BY <1>5, <2>1, <2>2 DEF Reap, ReapScan, ReapMark, ReapFind, ReaperThrows
<1>6. ASSUME NEW q \in Requests, Api(q)
      PROVE  status'[j] = "COMPLETED" /\ executions'[j] = executions[j]
  <2>1. executions' = executions
    BY <1>6 DEF Api, CancelRead, RetryRead, Admit, CancelWrite, RetryWrite, ReplayDlq,
       historyVars
  <2>2. ~ApiQueues(q, j) /\ ~ApiCancels(q, j)
    BY DEF WritesSpareCompleted
  <2>3. CASE RetryWrite(q)
    BY <2>1, <2>2, <2>3 DEF ApiQueues, RetryWrite, Requeue, IInv, TypeOK
  <2>4. CASE CancelWrite(q)
    BY <2>1, <2>2, <2>4 DEF ApiCancels, CancelWrite, IInv, TypeOK
  <2>5. CASE \E k \in Jobs : \E i \in DOMAIN dlq[k] : ReplayDlq(q, k, i)
    <3>1. PICK k \in Jobs : \E i \in DOMAIN dlq[k] : ReplayDlq(q, k, i)
      BY <2>5
    <3>2. k # j
      BY <2>2, <3>1 DEF ApiQueues
    <3>3. status'[j] = status[j]
      BY <3>1, <3>2 DEF ReplayDlq, Requeue, IInv, TypeOK
    <3> QED
      BY <2>1, <3>3
  <2>6. CASE \E k \in Jobs : CancelRead(q, k) \/ RetryRead(q, k)
    BY <2>6 DEF CancelRead, RetryRead, Admit, jobVars, historyVars
  <2> QED
    BY <1>6, <2>1, <2>3, <2>4, <2>5, <2>6 DEF Api
<1> QED
  BY <1>1, <1>2, <1>3, <1>4, <1>5, <1>6 DEF Next

\* Completion is final: the reaper finds only jobs that are in flight, and
\* the one invocation of a completed job writes nothing more but its children.
THEOREM CompletionFinal ==
    ASSUME Tree
    PROVE  Spec /\ [](DeadAreDead /\ PassesDisjoint)
                /\ [][WritesUnattended /\ WritesSpareCompleted /\ ResolvesSucceed]_vars
               => CompletedIsFinal
<1>1. [WritesUnattended /\ WritesSpareCompleted /\ ResolvesSucceed]_vars
          => [WritesUnattended /\ ResolvesSucceed]_vars
  OBVIOUS
<1>2. IInv /\ LeaseInv /\ HoldInv /\ [Next]_vars
          /\ [WritesUnattended /\ WritesSpareCompleted /\ ResolvesSucceed]_vars
          => [Final]_vars
  BY FinalStep
<1>3. [][Final]_vars <=> CompletedIsFinal
  BY DEF CompletedIsFinal, Final
<1> QED
  BY <1>1, <1>2, <1>3, HoldInvariance, Invariance, PTL DEF Spec

-----------------------------------------------------------------------------
(***************************************************************************)
(* The retry budget. A failure beyond the budget is unrouted until its     *)
(* invocation quarantines it. The invariant charges every unrouted failure *)
(* of a job to a worker of its own: while that worker lives, the job stays *)
(* taken and nobody else can fail it, so all the others are charged to     *)
(* workers that are gone; and the job is quarantined once, at the end.     *)
(***************************************************************************)
Unrouted(j) ==
    {n \in Failures(j) :
        /\ ~HasRetriesLeft(n)
        /\ \A i \in DOMAIN dlq[j] : dlq[j][i].totalAttempts # n}

Lost(j, n) == phase[executions[j][n].worker] = "gone"
AllLost(j) == \A n \in Unrouted(j) : Lost(j, n)

\* The invocation that recorded failure n is about to route it, or a database
\* error ended it and left the job in the hands of its worker.
Waiting(j, n) ==
    /\ status[j] \in Taken
    /\ claimedBy[j] \in {executions[j][n].worker, NULL}
    /\ \A r \in Runs : Busy(r) /\ run[r].job = j => run[r].pc = "route" /\ run[r].attempt = n
    /\ dlq[j] = << >>

\* Nothing is outstanding for the job: a claim may begin from the start.
Clear(j) == AllLost(j) /\ dlq[j] = << >>

\* A resolver of dependencies or a reaper pass is about to queue the job.
Promised(j) == Carried(j) \/ \E p \in Passes : j \in reaper[p].orphans

BudgetAt(j) ==
    /\ \A m, n \in Unrouted(j) : m # n =>
          /\ executions[j][m].worker # executions[j][n].worker
          /\ Lost(j, m) \/ Lost(j, n)
    /\ \A n \in Unrouted(j) : Lost(j, n) \/ Waiting(j, n)
    /\ dlq[j] # << >> =>
          /\ Len(dlq[j]) = 1
          /\ status[j] \in {"DEAD_LETTERED", "CANCELLED"}
          /\ claimedBy[j] = NULL
          /\ \A r \in Runs : Busy(r) => run[r].job # j
    /\ Promised(j) => Clear(j)

BudgetInv ==
    /\ \A j \in Jobs : BudgetAt(j)
    /\ IsFiniteSet(Gone)

\* The condition: the API queues no job.
QueuesNothing == \A q \in Requests, j \in Jobs : ~ApiQueues(q, j)

\* What the step does not change.
HistoryKept(j) ==
    /\ executions'[j] = executions[j] /\ dlq'[j] = dlq[j]
    /\ \A w \in Workers : phase[w] = "gone" => phase'[w] = "gone"

LEMMA UnroutedKept ==
    ASSUME IInv, NEW j \in Jobs, HistoryKept(j)
    PROVE  /\ Unrouted(j)' = Unrouted(j)
           /\ \A n \in Unrouted(j) : Lost(j, n) => Lost(j, n)'
<1>1. Failures(j)' = Failures(j)
  BY DEF HistoryKept, Failures, Attempts
<1>2. Unrouted(j)' = Unrouted(j)
  BY <1>1 DEF HistoryKept, Unrouted, HasRetriesLeft
<1>3. \A n \in Unrouted(j) : executions[j][n].worker \in Workers
  BY DEF IInv, TypeOK, Unrouted, Failures, Execution
<1> QED
  BY <1>2, <1>3 DEF HistoryKept, Lost

\* A job with nothing outstanding can be written in any way.
LEMMA BudgetFromClear ==
    ASSUME IInv, NEW j \in Jobs, HistoryKept(j), BudgetAt(j), Clear(j)
    PROVE  BudgetAt(j)'
<1>1. /\ Unrouted(j)' = Unrouted(j)
      /\ \A n \in Unrouted(j) : Lost(j, n)'
      /\ dlq'[j] = << >> /\ executions'[j] = executions[j]
  BY UnroutedKept DEF Clear, AllLost, HistoryKept
<1>2. AllLost(j)'
  BY <1>1 DEF AllLost
<1> QED
  BY <1>1, <1>2 DEF BudgetAt, Clear

\* A job that is left alone, or cancelled, keeps what is outstanding.
LEMMA BudgetKept ==
    ASSUME IInv, NEW j \in Jobs, HistoryKept(j), BudgetAt(j),
           \/ status'[j] = status[j] /\ claimedBy'[j] = claimedBy[j]
           \/ status'[j] = "CANCELLED" /\ claimedBy'[j] = NULL,
           \A r \in Runs : Busy(r)' /\ run'[r].job = j => run'[r] = run[r],
           Promised(j)' => Promised(j)
    PROVE  BudgetAt(j)'
<1>1. /\ Unrouted(j)' = Unrouted(j)
      /\ \A n \in Unrouted(j) : Lost(j, n) => Lost(j, n)'
      /\ dlq'[j] = dlq[j] /\ executions'[j] = executions[j]
  BY UnroutedKept DEF HistoryKept
<1>2. \A n \in Unrouted(j) : Waiting(j, n) => Waiting(j, n)'
  BY <1>1 DEF Waiting, Taken, Busy
<1>3. AllLost(j) => AllLost(j)'
  BY <1>1 DEF AllLost
<1>4. dlq[j] # << >> => \A r \in Runs : Busy(r)' => run'[r].job # j
  BY DEF BudgetAt, Busy
<1> QED
  BY <1>1, <1>2, <1>3, <1>4 DEF BudgetAt, Clear

\* The jobs with nothing outstanding: those that are not taken, those of an
\* invocation that is not routing a last failure, orphans, and the children
\* that a resolver carries.
LEMMA ClearJobs ==
    ASSUME IInv, NEW j \in Jobs, BudgetAt(j)
    PROVE  /\ status[j] \in {"NONE", "SCHEDULED", "QUEUED"} => Clear(j)
           /\ Promised(j) => Clear(j)
           /\ \A r \in Runs :
                 /\ Busy(r) /\ run[r].job = j
                 /\ (run[r].pc = "route" => HasRetriesLeft(run[r].attempt))
                 => Clear(j)
           /\ \A v \in Workers : j \in Orphans(v) /\ phase[v] = "gone" => Clear(j)
<1>1. \A n \in Unrouted(j) : ~HasRetriesLeft(n)
  BY DEF Unrouted
<1>2. status[j] \in {"NONE", "SCHEDULED", "QUEUED"} => Clear(j)
  BY DEF BudgetAt, Waiting, Taken, Clear, AllLost
<1>3. Promised(j) => Clear(j)
  BY DEF BudgetAt
<1>4. ASSUME NEW r \in Runs, Busy(r), run[r].job = j,
             run[r].pc = "route" => HasRetriesLeft(run[r].attempt)
      PROVE  Clear(j)
  BY <1>1, <1>4 DEF BudgetAt, Waiting, Clear, AllLost
<1>5. ASSUME NEW v \in Workers, j \in Orphans(v), phase[v] = "gone"
      PROVE  Clear(j)
  <2>1. claimedBy[j] = v /\ v # NULL /\ status[j] \in InFlight
    BY <1>5, NullIsNoRow DEF Orphans
  <2>2. \A n \in Unrouted(j) : Lost(j, n)
    BY <1>5, <2>1 DEF BudgetAt, Waiting, Lost
  <2> QED
    BY <2>1, <2>2 DEF BudgetAt, Clear, AllLost, InFlight
<1> QED
  BY <1>2, <1>3, <1>4, <1>5

LEMMA GoneKept ==
    ASSUME IsFiniteSet(Gone), NEW w,
           \A v \in Workers : phase'[v] = "gone" => phase[v] = "gone" \/ v = w
    PROVE  IsFiniteSet(Gone)'
<1>1. Gone' \subseteq Gone \cup {w}
  BY DEF Gone
<1>2. IsFiniteSet(Gone \cup {w})
  BY FS_AddElement
<1>3. IsFiniteSet(Gone')
  BY <1>1, <1>2, FS_Subset
<1> QED
  BY <1>3

LEMMA JobsStepBudget ==
    ASSUME IInv, BudgetInv, NEW k \in Jobs, Submit(k) \/ RunAtPasses(k)
    PROVE  BudgetInv'
<1>1. UNCHANGED <<run, phase, reaper, executions, dlq>>
  BY DEF Submit, RunAtPasses, historyVars, workerVars
<1>2. ASSUME NEW j \in Jobs PROVE BudgetAt(j)'
  <2>1. BudgetAt(j) /\ HistoryKept(j)
    BY <1>1 DEF BudgetInv, HistoryKept
  <2>2. CASE j = k /\ Submit(k)
    BY <2>1, <2>2, ClearJobs, BudgetFromClear DEF Submit
  <2>3. CASE ~(j = k /\ Submit(k))
    <3>1. status'[j] = status[j] /\ claimedBy'[j] = claimedBy[j]
      BY <2>3 DEF Submit, RunAtPasses, IInv, TypeOK
    <3> QED
      BY <1>1, <2>1, <3>1, BudgetKept DEF Promised, Carried
  <2> QED
    BY <2>2, <2>3
<1>3. IsFiniteSet(Gone)'
  BY <1>1, GoneKept DEF BudgetInv
<1> QED
  BY <1>2, <1>3 DEF BudgetInv

LEMMA WorkerStepBudget ==
    ASSUME IInv, BudgetInv, NEW w \in Workers,
           \/ Register(w) \/ Heartbeat(w) \/ HeartbeatExpires(w) \/ LatePing(w)
           \/ Crash(w) \/ Shutdown(w) \/ Drain(w)
    PROVE  BudgetInv'
<1>1. UNCHANGED <<status, claimedBy, executions, dlq>>
  BY DEF Register, Heartbeat, HeartbeatExpires, LatePing, Crash, Shutdown, Drain,
     SetDraining, Drained, Exit, jobVars, historyVars
<1>2. \A r \in Runs : run'[r] = run[r] \/ run'[r] = IdleRun
  BY DEF Register, Heartbeat, HeartbeatExpires, LatePing, Crash, Shutdown,
     Drain, SetDraining, Drained, Exit, ProcessEnds
<1>3. \A p \in Passes : reaper'[p] = reaper[p] \/ reaper'[p] = IdleReaper
  BY DEF Register, Heartbeat, HeartbeatExpires, LatePing, Crash, Shutdown, Drain,
     SetDraining, Drained, Exit, ProcessEnds, IInv, TypeOK
<1>4. /\ \A v \in Workers : phase[v] = "gone" => phase'[v] = "gone"
      /\ \A v \in Workers : phase'[v] = "gone" => phase[v] = "gone" \/ v = w
  BY DEF Register, Heartbeat, HeartbeatExpires, LatePing, Crash, Shutdown, Drain,
     SetDraining, Drained, Exit, ProcessEnds, workerVars, IInv, TypeOK
<1>5. ASSUME NEW j \in Jobs PROVE BudgetAt(j)'
  <2>1. BudgetAt(j)
    BY DEF BudgetInv
  <2>3. HistoryKept(j)
    BY <1>1, <1>4 DEF HistoryKept
  <2>2. Promised(j)' => Promised(j)
    BY <1>2, <1>3 DEF Promised, Carried, IdleRun, IdleReaper
  <2>4. \A r \in Runs : Busy(r)' => run'[r] = run[r]
    BY <1>2 DEF Busy, IdleRun
  <2> QED
    BY <1>1, <2>1, <2>2, <2>3, <2>4, BudgetKept
<1>6. IsFiniteSet(Gone)'
  BY <1>4, GoneKept DEF BudgetInv
<1> QED
  BY <1>5, <1>6 DEF BudgetInv

LEMMA ReaperThrowsBudget ==
    ASSUME IInv, BudgetInv, NEW p \in Passes, ReaperThrows(p)
    PROVE  BudgetInv'
<1>1. /\ UNCHANGED <<status, claimedBy, executions, dlq, run, phase>>
      /\ \A q \in Passes : reaper'[q] = reaper[q] \/ reaper'[q] = IdleReaper
  BY DEF ReaperThrows, jobVars, historyVars, workerVars, IInv, TypeOK
<1>2. ASSUME NEW j \in Jobs PROVE BudgetAt(j)'
  <2>1. BudgetAt(j) /\ HistoryKept(j)
    BY <1>1 DEF BudgetInv, HistoryKept
  <2>2. Promised(j)' => Promised(j)
    BY <1>1 DEF Promised, Carried, IdleReaper
  <2> QED
    BY <1>1, <2>1, <2>2, BudgetKept
<1> QED
  BY <1>1, <1>2, GoneKept DEF BudgetInv

LEMMA ClaimBudget ==
    ASSUME IInv, BudgetInv, NEW w \in Workers, ClaimJobs(w)
    PROVE  BudgetInv'
<1>1. PICK S \in SUBSET {j \in Jobs : Claimable(j)} :
              /\ status' = [j \in Jobs |-> IF j \in S THEN "CLAIMED" ELSE status[j]]
              /\ claimedBy' = [j \in Jobs |-> IF j \in S THEN w ELSE claimedBy[j]]
              /\ \A r \in Runs :
                    \/ run'[r] = run[r]
                    \/ /\ ~Busy(r) /\ run'[r].pc = "count"
                       /\ run'[r].worker = w /\ run'[r].job \in S
                       /\ run'[r].children = {}
              /\ \A r, s \in Runs :
                    /\ run'[r] # run[r] /\ run'[s] # run[s]
                    /\ run'[r].job = run'[s].job
                    => r = s
  BY ClaimEffect
<1>2. UNCHANGED <<phase, reaper, executions, dlq>>
  BY DEF ClaimJobs, historyVars
<1>3. ASSUME NEW j \in Jobs PROVE BudgetAt(j)'
  <2>1. BudgetAt(j) /\ HistoryKept(j)
    BY <1>2 DEF BudgetInv, HistoryKept
  <2>2. CASE j \in S
    BY <2>1, <2>2, ClearJobs, BudgetFromClear DEF Claimable
  <2>3. CASE j \notin S
    <3>1. status'[j] = status[j] /\ claimedBy'[j] = claimedBy[j]
      BY <1>1, <2>3
    <3>2. \A r \in Runs : Busy(r)' /\ run'[r].job = j => run'[r] = run[r]
      BY <1>1, <2>3
    <3>3. Promised(j)' => Promised(j)
      BY <1>1, <1>2 DEF Promised, Carried
    <3> QED
      BY <2>1, <3>1, <3>2, <3>3, BudgetKept
  <2> QED
    BY <2>2, <2>3
<1>4. IsFiniteSet(Gone)'
  BY <1>2, GoneKept DEF BudgetInv
<1> QED
  BY <1>3, <1>4 DEF BudgetInv

\* What a reaper pass finds was in the hands of a worker that is gone.
LEMMA ReapBudget ==
    ASSUME IInv, LeaseInv, BudgetInv, NEW p \in Passes, Reap(p)
    PROVE  BudgetInv'
<1>1. UNCHANGED <<run, phase, executions, dlq>>
  BY DEF Reap, ReapScan, ReapMark, ReapFind, ReapRequeue, workerVars, historyVars
<1>2. /\ \A q \in Passes : q # p => reaper'[q] = reaper[q]
      /\ \/ /\ UNCHANGED <<status, claimedBy>>
            /\ reaper'[p].orphans = {} \/ reaper'[p].orphans = Orphans(reaper[p].cur)
         \/ /\ status' = [j \in Jobs |-> IF j \in reaper[p].orphans THEN "QUEUED" ELSE status[j]]
            /\ claimedBy' = [j \in Jobs |-> IF j \in reaper[p].orphans THEN NULL ELSE claimedBy[j]]
            /\ reaper'[p].orphans = {}
  BY ReapEffect
<1>3. ASSUME NEW j \in Jobs PROVE BudgetAt(j)'
  <2>1. BudgetAt(j) /\ HistoryKept(j)
    BY <1>1, <1>3 DEF BudgetInv, HistoryKept
  <2>2. CASE j \in reaper'[p].orphans
    <3>1. j \in Orphans(reaper[p].cur)
      BY <1>2, <2>2
    <3>2. reaper[p].pc \in {"find", "requeue"}
      <4>1. CASE \E w \in Workers : ReapScan(p, w)
        BY <2>2, <4>1 DEF ReapScan, IInv, TypeOK
      <4>2. CASE ReapMark(p)
        <5>1. reaper'[p].orphans = reaper[p].orphans /\ reaper[p].pc = "mark"
          BY <4>2 DEF ReapMark, IInv, TypeOK
        <5> QED
          BY <2>2, <5>1 DEF LeaseInv, ReapingTheGone
      <4> QED
        BY <4>1, <4>2 DEF Reap, ReapFind, ReapRequeue
    <3>3. reaper[p].cur \in Workers /\ phase[reaper[p].cur] = "gone"
      BY <3>2 DEF LeaseInv, ReapingTheGone, Reaping, IInv, TypeOK
    <3> QED
      BY <2>1, <3>1, <3>3, ClearJobs, BudgetFromClear
  <2>3. CASE j \in reaper[p].orphans
    BY <2>1, <2>3, ClearJobs, BudgetFromClear DEF Promised
  <2>4. CASE j \notin reaper[p].orphans /\ j \notin reaper'[p].orphans
    <3>1. status'[j] = status[j] /\ claimedBy'[j] = claimedBy[j]
      BY <1>2, <1>3, <2>4
    <3>2. Promised(j)' => Promised(j)
      BY <1>1, <1>2, <2>4 DEF Promised, Carried
    <3> QED
      BY <1>1, <2>1, <3>1, <3>2, BudgetKept
  <2> QED
    BY <2>2, <2>3, <2>4
<1> QED
  BY <1>1, <1>3, GoneKept DEF BudgetInv

LEMMA ApiBudget ==
    ASSUME IInv, BudgetInv, QueuesNothing, NEW q \in Requests, Api(q)
    PROVE  BudgetInv'
<1>1. ASSUME RetryWrite(q) PROVE FALSE
  BY <1>1 DEF RetryWrite, QueuesNothing, ApiQueues, IInv, RequestsAssigned
<1>2. ASSUME NEW j \in Jobs, NEW i \in DOMAIN dlq[j], ReplayDlq(q, j, i) PROVE FALSE
  BY <1>2 DEF QueuesNothing, ApiQueues
<1>3. CancelWrite(q) \/ \E j \in Jobs : CancelRead(q, j) \/ RetryRead(q, j)
  BY <1>1, <1>2 DEF Api
<1>4. UNCHANGED <<run, phase, reaper, executions, dlq>>
  BY <1>3 DEF CancelRead, RetryRead, Admit, CancelWrite, historyVars, workerVars
<1>5. ASSUME NEW j \in Jobs PROVE BudgetAt(j)'
  <2>1. BudgetAt(j) /\ HistoryKept(j)
    BY <1>4 DEF BudgetInv, HistoryKept
  <2>2. \/ status'[j] = status[j] /\ claimedBy'[j] = claimedBy[j]
        \/ status'[j] = "CANCELLED" /\ claimedBy'[j] = NULL
    BY <1>3 DEF CancelRead, RetryRead, Admit, CancelWrite, ReleaseClaim, jobVars, IInv, TypeOK
  <2> QED
    BY <1>4, <2>1, <2>2, BudgetKept DEF Promised, Carried
<1> QED
  BY <1>4, <1>5, GoneKept DEF BudgetInv

\* Nothing outstanding and no further failure: nothing outstanding.
LEMMA ClearStays ==
    ASSUME NEW j \in Jobs, Clear(j), UNCHANGED <<phase, dlq>>,
           Failures(j)' = Failures(j), BudgetAt(j),
           \A n \in Failures(j) : executions'[j][n].worker = executions[j][n].worker
    PROVE  BudgetAt(j)'
<1>1. /\ Unrouted(j)' = Unrouted(j) /\ Unrouted(j) \subseteq Failures(j)
      /\ dlq'[j] = << >>
  BY DEF Unrouted, HasRetriesLeft, Clear
<1>2. \A n \in Unrouted(j) : Lost(j, n)'
  BY <1>1 DEF Lost, Clear, AllLost
<1>3. AllLost(j)'
  BY <1>1, <1>2 DEF AllLost
<1> QED
  BY <1>1, <1>2, <1>3 DEF BudgetAt, Clear

\* The executor of a job promises it to nobody, and nobody else did.
LEMMA AttendedNotPromised ==
    ASSUME IInv, LeaseInv, NEW r \in Runs, Busy(r), Execute(r) \/ DbErrorInRun(r),
           NEW J \in Jobs, J = run[r].job
    PROVE  ~Promised(J) /\ ~Promised(J)'
<1>1. ~Promised(J)
  BY DEF Promised, Carried, LeaseInv, ChildrenWait, OrphansUnattended
<1>2. \A s \in Runs : J \notin run'[s].children
  BY <1>1, ExecuteMoves DEF LeaseInv, RunsKeepRows, Taken, Promised, Carried, IdleRun
<1>3. reaper' = reaper
  BY ExecuteMoves
<1> QED
  BY <1>1, <1>2, <1>3 DEF Promised, Carried

\* A recorded failure is charged to the worker of the invocation, which lives:
\* every other unrouted failure is charged to a worker that is gone.
LEMMA RecordFailureBudget ==
    ASSUME IInv, LeaseInv, NEW r \in Runs, RecordFailure(r),
           NEW J \in Jobs, NEW N, J = run[r].job, N = run[r].attempt,
           BudgetAt(J), Clear(J)
    PROVE  BudgetAt(J)'
<1>1. /\ N \in Attempts(J) /\ executions[J][N].worker = run[r].worker
      /\ Busy(r) /\ run[r].worker \in Workers
  BY DEF RecordFailure, IInv, RunsOwnRows, RunsAssigned, Started, Busy
<1>2. /\ Attempts(J)' = Attempts(J)
      /\ \A n \in Attempts(J) :
            /\ executions'[J][n].worker = executions[J][n].worker
            /\ executions'[J][n].status = IF n = N THEN "FAILED" ELSE executions[J][n].status
  BY <1>1, FinishEffect DEF IInv, RecordFailure, ExecutionStatus
<1>3. Failures(J)' = Failures(J) \cup {N}
  BY <1>1, <1>2 DEF Failures
<1>4. UNCHANGED <<status, claimedBy, phase, dlq, reaper>>
  BY DEF RecordFailure, jobVars, workerVars
<1>5. /\ Unrouted(J)' \subseteq Unrouted(J) \cup {N}
      /\ Unrouted(J) \subseteq Attempts(J)
      /\ dlq'[J] = << >>
  BY <1>3, <1>4 DEF Unrouted, Failures, HasRetriesLeft, Clear
<1>6. /\ ~Lost(J, N)
      /\ \A n \in Unrouted(J) : Lost(J, n) /\ n # N
      /\ \A n \in Attempts(J) : Lost(J, n)' = Lost(J, n)
  BY <1>1, <1>2, <1>4 DEF Lost, LeaseInv, RunsAreLive, Live, Clear, AllLost
<1>7. \A m, n \in Unrouted(J)' : m # n =>
          /\ executions'[J][m].worker # executions'[J][n].worker
          /\ Lost(J, m)' \/ Lost(J, n)'
  <2> SUFFICES ASSUME NEW m \in Unrouted(J)', NEW n \in Unrouted(J)', m # n
               PROVE  /\ executions'[J][m].worker # executions'[J][n].worker
                      /\ Lost(J, m)' \/ Lost(J, n)'
    OBVIOUS
  <2>1. /\ m \in Unrouted(J) \/ m = N
        /\ n \in Unrouted(J) \/ n = N
    BY <1>5
  <2>2. CASE m \in Unrouted(J) /\ n \in Unrouted(J)
    BY <1>2, <1>5, <1>6, <2>2 DEF BudgetAt
  <2>3. CASE m = N \/ n = N
    BY <1>1, <1>2, <1>5, <1>6, <2>1, <2>3 DEF Lost
  <2> QED
    BY <2>1, <2>2, <2>3
<1>8. Waiting(J, N)'
  <2>1. /\ run'[r].pc = "route" /\ run'[r].attempt = N
        /\ \A s \in Runs : s # r => run'[s] = run[s]
    BY DEF RecordFailure, Goto, IInv, TypeOK
  <2>2. \A s \in Runs : Busy(s)' /\ run'[s].job = J => s = r
    BY <1>1, <2>1 DEF LeaseInv, OneRun, Busy
  <2>3. status[J] \in Taken /\ claimedBy[J] \in {run[r].worker, NULL}
    BY <1>1 DEF LeaseInv, RunsKeepRows
  <2> QED
    BY <1>1, <1>2, <1>4, <1>5, <2>1, <2>2, <2>3 DEF Waiting, Taken
<1>9. ~Promised(J)'
  BY <1>1, AttendedNotPromised DEF Execute
<1> QED
  BY <1>5, <1>6, <1>7, <1>8, <1>9 DEF BudgetAt

\* An invocation that is not routing a last failure has nothing outstanding,
\* and leaves nothing outstanding unless it records a last failure.
LEMMA ExecuteClear ==
    ASSUME IInv, LeaseInv, BudgetInv, NEW r \in Runs, Busy(r),
           run[r].pc = "route" => HasRetriesLeft(run[r].attempt),
           Execute(r) \/ DbErrorInRun(r),
           NEW J \in Jobs, NEW N, J = run[r].job, N = run[r].attempt
    PROVE  BudgetAt(J)'
<1>1. /\ run[r].worker \in Workers /\ N \in Nat
      /\ UNCHANGED phase
  BY ExecuteMoves DEF IInv, TypeOK, RunsAssigned, Busy
<1>2. BudgetAt(J) /\ Clear(J)
  <2>1. BudgetAt(J)
    BY DEF BudgetInv
  <2>2. run[r].job = J /\ (run[r].pc = "route" => HasRetriesLeft(run[r].attempt))
    OBVIOUS
  <2> QED
    BY <2>1, <2>2, ClearJobs
<1>3. ~DeadLetter(r)
  BY DEF DeadLetter
<1>4. CASE UNCHANGED historyVars
  <2>1. HistoryKept(J)
    BY <1>1, <1>4 DEF HistoryKept, historyVars
  <2> QED
    BY <1>1, <1>2, <2>1, BudgetFromClear
<1>5. CASE StartExecution(r)
  <2>1. N \in Nat \ {0}
    BY <1>5, NextAttemptType, <1>1 DEF IInv, RunsOwnRows, StartExecution
  <2>2. /\ Attempts(J)' = Attempts(J) \cup {N}
        /\ \A n \in Attempts(J) : executions'[J][n] = executions[J][n]
        /\ executions'[J][N] = [worker |-> run[r].worker, status |-> "RUNNING"]
    BY <1>1, <1>5, <2>1, StartEffect DEF IInv
  <2>3. Failures(J)' = Failures(J)
    BY <2>2 DEF Failures
  <2> QED
    BY <1>1, <1>2, <1>5, <2>2, <2>3, ClearStays DEF StartExecution, Failures
<1>6. CASE Complete(r)
  <2>1. N \in Attempts(J) /\ executions[J][N].status = "RUNNING"
    BY <1>6 DEF IInv, RunsOwnRows, Complete, Started
  <2>2. /\ Attempts(J)' = Attempts(J)
        /\ \A n \in Attempts(J) :
              /\ executions'[J][n].worker = executions[J][n].worker
              /\ executions'[J][n].status = IF n = N THEN "SUCCESS" ELSE executions[J][n].status
    BY <1>1, <1>6, <2>1, FinishEffect DEF IInv, Complete, ExecutionStatus
  <2>3. Failures(J)' = Failures(J)
    BY <2>1, <2>2 DEF Failures
  <2> QED
    BY <1>1, <1>2, <1>6, <2>2, <2>3, ClearStays DEF Complete, Failures
<1>7. CASE RecordFailure(r)
  BY <1>1, <1>2, <1>7, RecordFailureBudget
<1> QED
  BY <1>3, <1>4, <1>5, <1>6, <1>7 DEF Execute, CountExecutions, StartRejected,
     HandlerSucceeds, HandlerFails, ReadChildren, ReadParents, Unlock, Resolved, ScheduleRetry,
     RetryLogged, DbErrorInRun

LEMMA DeadLetterBudget ==
    ASSUME IInv, LeaseInv, BudgetInv, NEW r \in Runs, DeadLetter(r),
           NEW J \in Jobs, NEW N, J = run[r].job, N = run[r].attempt
    PROVE  BudgetAt(J)'
<1>1. /\ N \in Failures(J) /\ ~HasRetriesLeft(N) /\ N \in Nat
      /\ executions[J][N].worker = run[r].worker
      /\ Busy(r) /\ run[r].worker \in Workers
      /\ \A i \in DOMAIN dlq[J] : dlq[J][i].totalAttempts # N
  BY DEF DeadLetter, IInv, TypeOK, RunsOwnRows, RunsAssigned, NotYetQuarantined, Failures,
     Started, Busy
<1>2. N \in Unrouted(J) /\ ~Lost(J, N)
  BY <1>1 DEF Unrouted, Lost, LeaseInv, RunsAreLive, Live
<1>3. /\ dlq[J] = << >>
      /\ \A n \in Unrouted(J) : n # N => Lost(J, n)
  BY <1>2 DEF BudgetInv, BudgetAt, Waiting
<1>4. /\ UNCHANGED <<executions, phase, reaper>>
      /\ status'[J] = "DEAD_LETTERED" /\ claimedBy'[J] = NULL
      /\ run'[r] = IdleRun
      /\ \A s \in Runs : s # r => run'[s] = run[s]
  BY DEF DeadLetter, ReleaseClaim, EndRun, IInv, TypeOK
<1> DEFINE Entry == [totalAttempts |-> N, replayed |-> FALSE]
<1>5. dlq'[J] = Append(dlq[J], Entry)
  BY DEF DeadLetter, IInv, TypeOK
<1>6. /\ dlq'[J] # << >> /\ Len(dlq'[J]) = 1
      /\ DOMAIN dlq'[J] = {1} /\ dlq'[J][1].totalAttempts = N
  <2>1. Entry.totalAttempts = N /\ Entry \in DlqEntry
    BY <1>1 DEF DlqEntry
  <2> HIDE DEF Entry
  <2>2. dlq'[J] = <<Entry>>
    BY <1>3, <1>5, <2>1
  <2> QED
    BY <2>1, <2>2
<1>7. Unrouted(J)' = Unrouted(J) \ {N}
  BY <1>3, <1>4, <1>6 DEF Unrouted, Failures, Attempts, HasRetriesLeft
<1>8. \A n \in Unrouted(J)' : Lost(J, n)'
  BY <1>3, <1>4, <1>7 DEF Lost
<1>9. \A m, n \in Unrouted(J)' : m # n => executions'[J][m].worker # executions'[J][n].worker
  BY <1>4, <1>7 DEF BudgetInv, BudgetAt
<1>10. \A s \in Runs : Busy(s)' => run'[s].job # J
  BY <1>1, <1>4 DEF LeaseInv, OneRun, Busy, IdleRun
<1>11. ~Promised(J)'
  BY <1>1, AttendedNotPromised DEF Execute
<1> QED
  BY <1>4, <1>6, <1>8, <1>9, <1>10, <1>11 DEF BudgetAt

LEMMA ExecuteBudget ==
    ASSUME IInv, LeaseInv, BudgetInv, NEW r \in Runs, Execute(r) \/ DbErrorInRun(r)
    PROVE  BudgetInv'
<1>1. run[r].pc # "idle" /\ run[r].job \in Jobs
  BY ExecuteMoves DEF IInv, RunsAssigned
<1> PICK J \in Jobs : J = run[r].job
  BY <1>1
<1>2. /\ \A s \in Runs : s # r => run'[s] = run[s]
      /\ UNCHANGED <<phase, reaper>>
      /\ run'[r] = IdleRun \/ run'[r].job = J
      /\ \/ run'[r].children \subseteq run[r].children
         \/ \A c \in run'[r].children : status[c] = "SCHEDULED" /\ UNCHANGED <<executions, dlq>>
      /\ run[r].pc = "retried" => run'[r] = IdleRun /\ UNCHANGED jobVars
  BY ExecuteMoves DEF ReadChildren, historyVars
<1>3. ASSUME NEW j \in Jobs, j # J
      PROVE  executions'[j] = executions[j] /\ dlq'[j] = dlq[j]
  BY <1>3 DEF IInv, TypeOK, Execute, CountExecutions, StartExecution, StartRejected,
     HandlerSucceeds, HandlerFails, Complete, ReadChildren, ReadParents, Unlock, Resolved,
     RecordFailure, ScheduleRetry, RetryLogged, DeadLetter, DbErrorInRun, FinishExecution,
     historyVars
\* Of other jobs it writes those it carries, for which nothing is outstanding.
<1>4. ASSUME NEW j \in Jobs, j # J
      PROVE  (status'[j] = status[j] /\ claimedBy'[j] = claimedBy[j]) \/ Carried(j)
  <2>1. CASE Unlock(r, j)
    BY <2>1 DEF Unlock, Carried
  <2>2. CASE ~Unlock(r, j)
    BY <1>4, <2>2 DEF IInv, TypeOK, Execute, CountExecutions, StartExecution, StartRejected,
       HandlerSucceeds, HandlerFails, Complete, ReadChildren, ReadParents, Unlock, Resolved,
       RecordFailure, ScheduleRetry, RetryLogged, DeadLetter, DbErrorInRun, ReleaseClaim, jobVars
  <2> QED
    BY <2>1, <2>2
<1>5. ASSUME NEW j \in Jobs, j # J PROVE BudgetAt(j)'
  <2>1. BudgetAt(j) /\ HistoryKept(j)
    BY <1>2, <1>3, <1>5 DEF BudgetInv, HistoryKept
  <2>2. CASE Clear(j)
    BY <2>1, <2>2, BudgetFromClear
  <2>3. CASE ~Clear(j)
    <3>1. ~Promised(j) /\ status[j] # "SCHEDULED"
      BY <2>1, <2>3, ClearJobs
    <3>2. ~Promised(j)'
      BY <1>2, <3>1 DEF Promised, Carried
    <3>3. \A s \in Runs : Busy(s)' /\ run'[s].job = j => run'[s] = run[s]
      BY <1>2, <1>5 DEF Busy, IdleRun
    <3>4. status'[j] = status[j] /\ claimedBy'[j] = claimedBy[j]
      BY <1>4, <1>5, <3>1 DEF Promised
    <3> QED
      BY <2>1, <3>2, <3>3, <3>4, BudgetKept
  <2> QED
    BY <2>2, <2>3
<1>6. BudgetAt(J)'
  \* What is left of an invocation that has let go of its job, or whose last
  \* failure a database error leaves unrouted, changes no row.
  <2>1. CASE run[r].pc = "retried" \/ (DbErrorInRun(r) /\ run[r].pc = "route")
    <3>1. run'[r] = IdleRun /\ UNCHANGED <<jobVars, historyVars>>
      BY <1>2, <2>1 DEF Execute, CountExecutions, StartExecution, StartRejected, HandlerSucceeds,
         HandlerFails, Complete, ReadChildren, ReadParents, Unlock, Resolved, RecordFailure,
         ScheduleRetry, RetryLogged, DeadLetter, DbErrorInRun, EndRun, Resolving, IInv, TypeOK
    <3>2. BudgetAt(J) /\ HistoryKept(J)
      BY <1>2, <3>1 DEF BudgetInv, HistoryKept, historyVars
    <3>3. \A s \in Runs : Busy(s)' => run'[s] = run[s]
      BY <1>2, <3>1 DEF Busy, IdleRun
    <3>4. Promised(J)' => Promised(J)
      BY <1>2, <3>1 DEF Promised, Carried, IdleRun
    <3> QED
      BY <3>1, <3>2, <3>3, <3>4, BudgetKept DEF jobVars
  <2>2. CASE Busy(r) /\ (run[r].pc = "route" => HasRetriesLeft(run[r].attempt))
    BY <1>1, <2>2, ExecuteClear
  <2>3. CASE DeadLetter(r)
    BY <2>3, DeadLetterBudget
  <2> QED
    BY <1>1, <2>1, <2>2, <2>3 DEF Busy, Execute, CountExecutions, StartExecution, StartRejected,
       HandlerSucceeds, HandlerFails, Complete, ReadChildren, ReadParents, Unlock, Resolved,
       RecordFailure, ScheduleRetry, RetryLogged
<1> QED
  BY <1>2, <1>5, <1>6, GoneKept DEF BudgetInv

LEMMA BudgetStep ==
    ASSUME IInv, LeaseInv, BudgetInv, [Next]_vars, [QueuesNothing]_vars
    PROVE  BudgetInv'
<1>1. CASE UNCHANGED vars
  <2>1. UNCHANGED <<status, claimedBy, executions, dlq, run, phase, reaper>>
    BY <1>1 DEF vars, jobVars, historyVars, workerVars
  <2>2. ASSUME NEW j \in Jobs PROVE BudgetAt(j)'
    <3>1. BudgetAt(j) /\ HistoryKept(j)
      BY <2>1 DEF BudgetInv, HistoryKept
    <3> QED
      BY <2>1, <3>1, BudgetKept DEF Promised, Carried
  <2> QED
    BY <2>1, <2>2, GoneKept DEF BudgetInv
<1>2. CASE Next /\ QueuesNothing
  BY <1>2, JobsStepBudget, WorkerStepBudget, ReaperThrowsBudget, ClaimBudget, ReapBudget,
     ExecuteBudget, ApiBudget DEF Next
<1> QED
  BY <1>1, <1>2

LEMMA InitBudget == Init => BudgetInv
<1> SUFFICES ASSUME Init PROVE BudgetInv
  OBVIOUS
<1>1. \A j \in Jobs : Unrouted(j) = {}
  BY DEF Init, Unrouted, Failures, Attempts
<1>2. \A j \in Jobs : BudgetAt(j)
  BY <1>1 DEF Init, BudgetAt, Clear, AllLost, Promised, Carried, IdleReaper, IdleRun
<1>3. Gone = {}
  BY DEF Init, Gone
<1> QED
  BY <1>2, <1>3, FS_EmptySet DEF BudgetInv

\* Each unrouted failure is charged to a worker of its own that is gone, but
\* for one failure, which is waiting or quarantined.
LEMMA BudgetCounts == IInv /\ BudgetInv => FailuresWithinRetryBudget
<1> SUFFICES ASSUME IInv, BudgetInv, NEW j \in Jobs
             PROVE  Cardinality(Failures(j)) <= MaxRetries + 1 + Cardinality(Gone)
  BY DEF FailuresWithinRetryBudget
<1> DEFINE A == {n \in Failures(j) : HasRetriesLeft(n)}
           L == {n \in Unrouted(j) : Lost(j, n)}
           f == [n \in L |-> executions[j][n].worker]
<1>1. BudgetAt(j) /\ IsFiniteSet(Gone)
  BY DEF BudgetInv
<1>2. IsFiniteSet(A) /\ Cardinality(A) <= MaxRetries
  <2>1. A \subseteq 1 .. MaxRetries
    BY BoundsAreNaturals DEF IInv, TypeOK, Failures, HasRetriesLeft
  <2>2. IsFiniteSet(1 .. MaxRetries) /\ Cardinality(1 .. MaxRetries) = MaxRetries
    BY BoundsAreNaturals, FS_Interval
  <2> HIDE DEF A
  <2> QED
    BY <2>1, <2>2, FS_Subset
<1>3. IsFiniteSet(L) /\ Cardinality(L) <= Cardinality(Gone)
  <2>1. \A n \in L : f[n] \in Gone
    BY DEF Lost, Gone, IInv, TypeOK, Unrouted, Failures, Execution
  <2>2. \A m, n \in L : f[m] = f[n] => m = n
    BY <1>1 DEF BudgetAt
  <2>3. f \in Injection(L, Gone)
    BY <2>1, <2>2 DEF Injection, IsInjective
  <2> HIDE DEF f, L
  <2> QED
    BY <1>1, <2>3, FS_Injection
<1>4. \E x : Failures(j) \subseteq (A \cup L) \cup {x}
  <2>1. \A n \in Failures(j) : n \in A \/ n \in Unrouted(j)
                              \/ \E i \in DOMAIN dlq[j] : dlq[j][i].totalAttempts = n
    BY DEF Unrouted
  <2>2. CASE dlq[j] = << >>
    <3>1. \A m, n \in Unrouted(j) \ L : m = n
      BY <1>1 DEF BudgetAt
    <3>2. \E x : Unrouted(j) \ L \subseteq {x}
      BY <3>1
    <3> QED
      BY <2>1, <2>2, <3>2
  <2>3. CASE dlq[j] # << >>
    <3>1. Unrouted(j) = L
      BY <1>1, <2>3 DEF BudgetAt, Waiting
    <3>2. dlq[j] \in Seq(DlqEntry) /\ Len(dlq[j]) = 1
      BY <1>1, <2>3 DEF BudgetAt, IInv, TypeOK
    <3>3. DOMAIN dlq[j] = {1}
      BY <3>2
    <3> QED
      BY <2>1, <3>1, <3>3
  <2> QED
    BY <2>2, <2>3
<1> HIDE DEF A, L
<1>5. PICK x : Failures(j) \subseteq (A \cup L) \cup {x}
  BY <1>4
<1>6. /\ Cardinality(A) \in Nat /\ Cardinality(L) \in Nat /\ Cardinality(Gone) \in Nat
      /\ Cardinality(A \cap L) \in Nat
  <2>1. IsFiniteSet(A \cap L)
    BY <1>2, FS_Subset
  <2> QED
    BY <1>1, <1>2, <1>3, <2>1, FS_CardinalityType
<1>7. /\ IsFiniteSet(A \cup L)
      /\ Cardinality(A \cup L) = Cardinality(A) + Cardinality(L) - Cardinality(A \cap L)
  BY <1>2, <1>3, FS_Union
<1>8. /\ IsFiniteSet((A \cup L) \cup {x})
      /\ Cardinality((A \cup L) \cup {x}) <= Cardinality(A \cup L) + 1
      /\ Cardinality(A \cup L) \in Nat
  <2>1. Cardinality(A \cup L) \in Nat
    BY <1>7, FS_CardinalityType
  <2>2. /\ IsFiniteSet((A \cup L) \cup {x})
        /\ Cardinality((A \cup L) \cup {x}) =
              IF x \in A \cup L THEN Cardinality(A \cup L) ELSE Cardinality(A \cup L) + 1
    BY <1>7, FS_AddElement
  <2> QED
    BY <2>1, <2>2
<1>9. /\ Cardinality(Failures(j)) <= Cardinality((A \cup L) \cup {x})
      /\ Cardinality(Failures(j)) \in Nat /\ Cardinality((A \cup L) \cup {x}) \in Nat
  BY <1>5, <1>8, FS_Subset, FS_CardinalityType
<1> QED
  BY <1>2, <1>3, <1>6, <1>7, <1>8, <1>9, BoundsAreNaturals

\* A job fails at most once more than it may be retried, and once more for
\* every process that ended, as long as only dead workers are taken for dead,
\* no two reaper passes deal with the same one, no job has two parents, and the
\* API queues nothing: however many database errors leave failures unrouted.
THEOREM RetryBudgetKept ==
    ASSUME Tree
    PROVE  Spec /\ [](DeadAreDead /\ PassesDisjoint) /\ [][QueuesNothing]_vars
               => []FailuresWithinRetryBudget
<1>1. [QueuesNothing]_vars => [QueuesUnattended]_vars
  BY DEF QueuesNothing, QueuesUnattended
<1>2. IInv /\ LeaseInv /\ BudgetInv /\ [Next]_vars /\ [QueuesNothing]_vars => BudgetInv'
  BY BudgetStep
<1> QED
  BY <1>1, <1>2, LeaseInvariance, InitBudget, BudgetCounts, Invariance, PTL DEF Spec

-----------------------------------------------------------------------------
(***************************************************************************)
(* When the conditions hold. That only dead workers are taken for dead     *)
(* follows, for every number of workers and of crashes, from heartbeats    *)
(* that are never late and from nobody sending SIGTERM. That no two passes *)
(* deal with the same worker has to be assumed: nothing in the code keeps  *)
(* the passes of one worker or of two apart.                               *)
(***************************************************************************)
NoFalseDeath == MaxLatePings = 0 /\ Stoppable = {}

OnlyTheGoneAreStale ==
    \A w \in Workers :
        /\ phase[w] \in {"absent", "up", "gone"}
        /\ stale[w] => phase[w] = "gone"

LEMMA StaleStep ==
    ASSUME NoFalseDeath, IInv, OnlyTheGoneAreStale, [Next]_vars
    PROVE  OnlyTheGoneAreStale'
<1>1. CASE UNCHANGED <<phase, stale>>
  BY <1>1 DEF OnlyTheGoneAreStale
<1>2. ASSUME NEW w \in Workers, Register(w) PROVE OnlyTheGoneAreStale'
  BY <1>2 DEF Register, OnlyTheGoneAreStale, IInv, TypeOK
<1>3. ASSUME NEW w \in Workers, Heartbeat(w) \/ HeartbeatExpires(w)
      PROVE  OnlyTheGoneAreStale'
  BY <1>3 DEF Heartbeat, HeartbeatExpires, OnlyTheGoneAreStale, IInv, TypeOK
<1>4. ASSUME NEW w \in Workers, LatePing(w) PROVE FALSE
  BY <1>4 DEF LatePing, NoFalseDeath, IInv, TypeOK
<1>5. ASSUME NEW w \in Workers, Shutdown(w) \/ Drain(w) PROVE FALSE
  BY <1>5 DEF Shutdown, Drain, SetDraining, Drained, Exit, NoFalseDeath, OnlyTheGoneAreStale
<1>6. ASSUME NEW w \in Workers, Crash(w) PROVE OnlyTheGoneAreStale'
  BY <1>6 DEF Crash, ProcessEnds, OnlyTheGoneAreStale, IInv, TypeOK
<1>7. ASSUME NEW p \in Passes, Reap(p) \/ ReaperThrows(p) PROVE UNCHANGED <<phase, stale>>
  BY <1>7 DEF Reap, ReapScan, ReapMark, ReapFind, ReapRequeue, ReaperThrows, workerVars
<1>8. ASSUME NEW w \in Workers, ClaimJobs(w) PROVE UNCHANGED <<phase, stale>>
  BY <1>8 DEF ClaimJobs
<1>9. ASSUME NEW r \in Runs, Execute(r) \/ DbErrorInRun(r) PROVE UNCHANGED <<phase, stale>>
  BY <1>9, ExecuteMoves
<1>10. ASSUME NEW q \in Requests, Api(q) PROVE UNCHANGED <<phase, stale>>
  BY <1>10 DEF Api, CancelRead, RetryRead, Admit, CancelWrite, RetryWrite, ReplayDlq, workerVars
<1>11. ASSUME NEW j \in Jobs, Submit(j) \/ RunAtPasses(j) PROVE UNCHANGED <<phase, stale>>
  BY <1>11 DEF Submit, RunAtPasses, workerVars
<1>12. CASE UNCHANGED vars
  BY <1>1, <1>12 DEF vars, workerVars
<1> QED
  BY <1>1, <1>2, <1>3, <1>4, <1>5, <1>6, <1>7, <1>8, <1>9, <1>10, <1>11, <1>12 DEF Next

\* Without late heartbeats and without SIGTERM a reaper takes no live worker
\* for dead, however many workers there are and whichever of them crash.
THEOREM OnlyDeadReaped ==
    ASSUME NoFalseDeath
    PROVE  Spec => []DeadAreDead
<1>1. Init => OnlyTheGoneAreStale
  BY DEF Init, OnlyTheGoneAreStale
<1>2. IInv /\ OnlyTheGoneAreStale /\ [Next]_vars => OnlyTheGoneAreStale'
  BY StaleStep
<1>3. OnlyTheGoneAreStale => DeadAreDead
  BY DEF OnlyTheGoneAreStale, DeadAreDead, DeadWorkers, Live
<1> QED
  BY <1>1, <1>2, <1>3, Invariance, PTL DEF Spec

\* Nobody calls the API, and no database call fails.
Undisturbed == Requests = {} /\ MaxDbErrors = 0

\* Only a database error sends an invocation from the resolution of the
\* children to the catch block.
LEMMA UndisturbedResolves ==
    ASSUME MaxDbErrors = 0, IInv, [Next]_vars
    PROVE  [ResolvesSucceed]_vars
<1> SUFFICES ASSUME Next, NEW r \in Runs, run[r].pc \in Resolving
             PROVE  run'[r].pc # "fail"
  BY DEF ResolvesSucceed
<1>1. run[r] = run'[r] => run'[r].pc # "fail"
  BY DEF Resolving
<1>2. ASSUME NEW w \in Workers, ProcessEnds(w) PROVE run'[r].pc # "fail"
  BY <1>1, <1>2 DEF ProcessEnds, IdleRun
<1>3. ASSUME NEW w \in Workers, ClaimJobs(w) PROVE run'[r].pc # "fail"
  BY <1>1, <1>3, ClaimEffect
<1>4. ASSUME NEW s \in Runs, Execute(s) PROVE run'[r].pc # "fail"
  <2>1. CASE s = r
    <3>1. ReadChildren(r) \/ ReadParents(r) \/ (\E c \in Jobs : Unlock(r, c)) \/ Resolved(r)
      BY <1>4, <2>1 DEF Execute, CountExecutions, StartExecution, StartRejected,
         HandlerSucceeds, HandlerFails, Complete, RecordFailure, ScheduleRetry, RetryLogged,
         DeadLetter, Resolving
    <3>2. CASE Resolved(r)
      BY <3>2 DEF Resolved, EndRun, IdleRun, IInv, TypeOK
    <3>3. ASSUME NEW pc \in {"parents", "unlock"}, NEW C \in SUBSET Jobs,
                 run' = [run EXCEPT ![r].pc = pc, ![r].children = C]
          PROVE  run'[r].pc # "fail"
      <4>1. run'[r] = [run[r] EXCEPT !.pc = pc, !.children = C]
        <5>1. run[r].pc # "idle" /\ pc \in NotStarted \cup Started
          BY DEF Resolving, Started
        <5> QED
          BY <3>3, <5>1, MoveType
      <4>2. run[r] \in [pc : {"idle", "retried"} \cup NotStarted \cup Started,
                        job : Jobs \cup {NULL}, worker : Workers \cup {NULL},
                        attempt : Nat, children : SUBSET Jobs]
        BY DEF IInv, TypeOK
      <4> QED
        BY <4>1, <4>2
    <3>4. run[r].children \in SUBSET Jobs
      BY DEF IInv, TypeOK
    <3>5. CASE ReadChildren(r)
      BY <3>3, <3>5, ResolverMoves
    <3>6. CASE ReadParents(r)
      <4>1. PICK C \in SUBSET run[r].children :
                run' = [run EXCEPT ![r].pc = "unlock", ![r].children = C]
        BY <3>6, ResolverMoves
      <4> QED
        BY <3>3, <3>4, <4>1
    <3>7. ASSUME NEW c \in Jobs, Unlock(r, c) PROVE run'[r].pc # "fail"
      <4> DEFINE C == run[r].children \ {c}
      <4>1. C \in SUBSET Jobs
        BY <3>4
      <4>2. run' = [run EXCEPT ![r].pc = "unlock", ![r].children = C]
        BY <3>7, ResolverMoves
      <4> HIDE DEF C
      <4> QED
        BY <3>3, <4>1, <4>2
    <3> QED
      BY <3>1, <3>2, <3>5, <3>6, <3>7
  <2>2. CASE s # r
    BY <1>1, <1>4, <2>2, ExecuteMoves
  <2> QED
    BY <2>1, <2>2
<1>5. ASSUME NEW s \in Runs, DbErrorInRun(s) PROVE FALSE
  BY <1>5 DEF DbErrorInRun, IInv, TypeOK
<1>6. ASSUME NEW q \in Requests, Api(q) PROVE run'[r].pc # "fail"
  BY <1>1, <1>6 DEF Api, CancelRead, RetryRead, Admit, CancelWrite, RetryWrite, ReplayDlq
<1>7. ASSUME NEW p \in Passes, Reap(p) \/ ReaperThrows(p) PROVE run'[r].pc # "fail"
  BY <1>1, <1>7 DEF Reap, ReapScan, ReapMark, ReapFind, ReapRequeue, ReaperThrows
<1>8. ASSUME NEW w \in Workers,
             Register(w) \/ Heartbeat(w) \/ HeartbeatExpires(w) \/ LatePing(w)
             \/ Crash(w) \/ Shutdown(w) \/ Drain(w)
      PROVE  run'[r].pc # "fail"
  BY <1>1, <1>2, <1>8 DEF Register, Heartbeat, HeartbeatExpires, LatePing, Crash, Shutdown,
     Drain, SetDraining, Drained, Exit
<1>9. ASSUME NEW j \in Jobs, Submit(j) \/ RunAtPasses(j) PROVE run'[r].pc # "fail"
  BY <1>1, <1>9 DEF Submit, RunAtPasses
<1> QED
  BY <1>3, <1>4, <1>5, <1>6, <1>7, <1>8, <1>9 DEF Next

\* What the run JE_Settles checks, for every number of jobs, of workers, of
\* concurrent invocations and of retries: any workers may crash at any time,
\* and as long as no two reaper passes deal with the same one of them, every
\* job has one executor that holds it, completes for good, and fails no more
\* often than its retries and the crashes allow.
THEOREM QuietGuarantees ==
    ASSUME NoFalseDeath, Undisturbed, Tree
    PROVE  Spec /\ []PassesDisjoint
               => /\ []OneExecutorPerJob
                  /\ []LeaseIsHeld
                  /\ CompletedIsFinal
                  /\ []FailuresWithinRetryBudget
<1>1. IInv /\ [Next]_vars
          => /\ [WritesUnattended /\ WritesSpareCompleted /\ ResolvesSucceed]_vars
             /\ [QueuesNothing]_vars
  BY UndisturbedResolves DEF Undisturbed, WritesUnattended, QueuesUnattended,
     WritesSpareCompleted, QueuesNothing
<1>2. [WritesUnattended /\ WritesSpareCompleted /\ ResolvesSucceed]_vars
          => /\ [WritesUnattended /\ ResolvesSucceed]_vars
             /\ [QueuesUnattended]_vars
  BY DEF WritesUnattended
<1> QED
  BY <1>1, <1>2, OnlyDeadReaped, OneExecutor, LeaseHeld, CompletionFinal,
     RetryBudgetKept, Invariance, PTL DEF Spec
=============================================================================
