----------------------------- MODULE DagProofs -----------------------------
(***************************************************************************)
(* Proofs about DagWorkflow, for any jobs, invocations, reaper passes and  *)
(* requests and any number of events: the gate, the conservation of        *)
(* unlocks, the refinement of DependencyOrder, and one invocation per job  *)
(* in trees.                                                               *)
(***************************************************************************)
EXTENDS DagWorkflow, TLAPS

\* The initial states satisfy the invariant.
LEMMA InitGInv == Init => GInv
<1> SUFFICES ASSUME Init PROVE GInv
  OBVIOUS
<1>1. TypeOK
  BY EventsBounded DEF Init, TypeOK, IdleRun, NewRequest, Existing, Resolving, JobStatus
<1>2. QueuedIsReleased /\ ParentsFirst /\ NoLostUnlock
  BY DEF Init, QueuedIsReleased, ParentsFirst, NoLostUnlock
<1>3. RunsAreReleased
  BY DEF Init, RunsAreReleased, IdleRun
<1> QED
  BY <1>1, <1>2, <1>3 DEF GInv

\* The remaining parents of a job change with the deletions alone.
LEMMA ParentsStay ==
    ASSUME UNCHANGED <<deps, Deleted>>
    PROVE  \A c \in Jobs : Parents(c)' = Parents(c)
BY DEF Parents

\* No unlock is lost in a step that deletes nothing if whoever completes a job
\* carries its children, and whoever carries a child goes on or is recorded.
LEMMA UnlocksKept ==
    ASSUME GInv, UNCHANGED <<deps, Deleted>>,
           late \subseteq late', lost \subseteq lost', stranded \subseteq stranded',
           \A c \in Jobs : status'[c] = "SCHEDULED" => status[c] = "SCHEDULED",
           \A p \in Jobs : status'[p] = "COMPLETED" /\ status[p] # "COMPLETED" =>
               \A c \in Jobs : p \in Parents(c) => \E r \in Runs : Carries(r, c)',
           \A r \in Runs : \A c \in Jobs : Carries(r, c) /\ status'[c] = "SCHEDULED" =>
               Carries(r, c)' \/ Parents(c) \cap lost' # {}
    PROVE  NoLostUnlock'
<1> SUFFICES ASSUME NEW c \in Jobs, status'[c] = "SCHEDULED", Satisfied(c)', ~LeftBehind(c)'
             PROVE  \E r \in Runs : Carries(r, c)'
  BY DEF NoLostUnlock
<1>1. Parents(c)' = Parents(c) /\ Parents(c) \subseteq Jobs /\ Parents(c) \cap lost' = {}
  BY ParentsStay DEF GInv, TypeOK, Parents, LeftBehind
<1>2. ~LeftBehind(c) /\ status[c] = "SCHEDULED"
  BY <1>1 DEF LeftBehind
<1>3. CASE Satisfied(c)
  BY <1>1, <1>2, <1>3 DEF GInv, NoLostUnlock
<1>4. CASE ~Satisfied(c)
  <2>1. PICK p \in Parents(c) : status[p] # "COMPLETED" /\ status'[p] = "COMPLETED"
    BY <1>1, <1>4 DEF Satisfied, Completed
  <2> QED
    BY <1>1, <2>1
<1> QED
  BY <1>3, <1>4

\* A job that is created has existing parents and waits for them.
LEMMA CreateKeeps ==
    ASSUME GInv, NEW j \in Jobs, NEW P \in SUBSET (Jobs \ {j}), Create(j, P)
    PROVE  GInv'
<1> USE DEF GInv, TypeOK, history, Existing, Deleted, Resolving, InFlight, JobStatus,
            Create, MayDependOn
<1>1. TypeOK'
  BY EventsBounded, NullIsNoJob
<1>2. QueuedIsReleased'
  BY DEF QueuedIsReleased, RunsAreReleased, Released
<1>3. RunsAreReleased'
  BY DEF QueuedIsReleased, RunsAreReleased, Released
<1>4. ParentsFirst'
  BY DEF ParentsFirst, RunsAreReleased, Released
<1>5. NoLostUnlock'
  <2> SUFFICES ASSUME NEW c \in Jobs, status'[c] = "SCHEDULED", Satisfied(c)', ~LeftBehind(c)'
               PROVE  \E r \in Runs : Carries(r, c)'
    BY DEF NoLostUnlock
  <2>1. /\ Deleted' = Deleted /\ deps'[j] = P /\ status'[j] # "NONE"
        /\ \A k \in Jobs \ {j} : status'[k] = status[k] /\ deps'[k] = deps[k]
    OBVIOUS
  <2>2. CASE c = j
    <3>1. P # {} /\ Parents(c)' = P
      BY <2>1, <2>2 DEF Parents
    <3>2. ~Completed(P)
      BY <2>2, <3>1 DEF LeftBehind
    <3>3. ~Completed(P)'
      BY <2>1, <3>2 DEF Completed
    <3> QED
      BY <3>1, <3>3 DEF Satisfied, Completed
  <2>3. CASE c # j
    <3>1. Parents(c)' = Parents(c) /\ Parents(c) \subseteq Jobs \ {j}
      BY <2>1, <2>3 DEF Parents
    <3>2. Satisfied(c) /\ ~LeftBehind(c) /\ status[c] = "SCHEDULED"
      BY <2>1, <2>3, <3>1 DEF Satisfied, Completed, LeftBehind
    <3> QED
      BY <3>1, <3>2 DEF NoLostUnlock, Carries
  <2> QED
    BY <2>2, <2>3
<1> QED
  BY <1>1, <1>2, <1>3, <1>4, <1>5

\* A deletion leaves the children to the resolvers of the remaining parents, or
\* strands them.
LEMMA DeleteQueueKeeps ==
    ASSUME GInv, NEW S \in SUBSET Jobs, DeleteQueue(S)
    PROVE  GInv'
<1> USE DEF GInv, TypeOK, history, Existing, Deleted, Resolving, InFlight, JobStatus,
            DeleteQueue, Event
<1>1. TypeOK'
  BY EventsBounded, NullIsNoJob
<1>2. QueuedIsReleased'
  BY DEF QueuedIsReleased, RunsAreReleased, Released
<1>3. RunsAreReleased'
  BY DEF QueuedIsReleased, RunsAreReleased, Released
<1>4. ParentsFirst'
  BY DEF ParentsFirst, RunsAreReleased, Released
<1>5. NoLostUnlock'
  <2> SUFFICES ASSUME NEW c \in Jobs, status'[c] = "SCHEDULED", Satisfied(c)', ~LeftBehind(c)'
               PROVE  \E r \in Runs : Carries(r, c)'
    BY DEF NoLostUnlock
  <2>1. /\ c \notin S /\ status[c] = "SCHEDULED" /\ Deleted' = Deleted \cup S
        /\ \A k \in Jobs \ S : status'[k] = status[k]
    OBVIOUS
  <2>2. Parents(c)' = Parents(c) \ S /\ Parents(c) \subseteq Jobs
    BY <2>1 DEF Parents
  <2>3. Completed(Parents(c) \ S)
    BY <2>1, <2>2 DEF Satisfied, Completed
  <2>4. Parents(c) \cap S = {}
    BY <2>1, <2>3 DEF LeftBehind
  <2>5. Parents(c) \ S = Parents(c)
    BY <2>4
  <2>6. Parents(c)' = Parents(c) /\ Satisfied(c) /\ ~LeftBehind(c)
    BY <2>2, <2>3, <2>5 DEF Satisfied, LeftBehind
  <2> QED
    BY <2>1, <2>6 DEF NoLostUnlock, Carries
<1> QED
  BY <1>1, <1>2, <1>3, <1>4, <1>5

\* A claimed job was queued, so it is released.
LEMMA ClaimKeeps ==
    ASSUME GInv, NEW r \in Runs, NEW j \in Jobs, Claim(r, j)
    PROVE  GInv'
<1> USE DEF GInv, TypeOK, history, Existing, Deleted, Resolving, InFlight, JobStatus,
            Claim, SetStatus
<1>1. TypeOK'
  BY EventsBounded, NullIsNoJob
<1>2. QueuedIsReleased'
  BY DEF QueuedIsReleased, RunsAreReleased, Released
<1>3. RunsAreReleased'
  BY DEF QueuedIsReleased, RunsAreReleased, Released
<1>4. ParentsFirst'
  BY DEF ParentsFirst, RunsAreReleased, Released
<1>5. /\ UNCHANGED <<deps, Deleted>>
      /\ late \subseteq late' /\ lost \subseteq lost' /\ stranded \subseteq stranded'
      /\ \A c \in Jobs : status'[c] = "SCHEDULED" => status[c] = "SCHEDULED"
  OBVIOUS
<1>6. ASSUME NEW p \in Jobs, status'[p] = "COMPLETED", status[p] # "COMPLETED", NEW c \in Jobs,
             p \in Parents(c)
      PROVE  \E s \in Runs : Carries(s, c)'
  BY <1>5, <1>6, ParentsStay DEF Carries
<1>7. ASSUME NEW s \in Runs, NEW c \in Jobs, Carries(s, c), status'[c] = "SCHEDULED"
      PROVE  Carries(s, c)' \/ Parents(c) \cap lost' # {}
  BY <1>5, <1>7, ParentsStay DEF Carries
<1>8. NoLostUnlock'
  BY <1>5, <1>6, <1>7, UnlocksKept
<1> QED
  BY <1>1, <1>2, <1>3, <1>4, <1>8

\* A job that starts was claimed, so its parents have completed.
LEMMA StartKeeps ==
    ASSUME GInv, NEW r \in Runs, Start(r)
    PROVE  GInv'
<1> USE DEF GInv, TypeOK, history, Existing, Deleted, Resolving, InFlight, JobStatus,
            Start, SetStatus
<1>1. TypeOK'
  BY EventsBounded, NullIsNoJob
<1>2. QueuedIsReleased'
  BY DEF QueuedIsReleased, RunsAreReleased, Released
<1>3. RunsAreReleased'
  BY DEF QueuedIsReleased, RunsAreReleased, Released
<1>4. ParentsFirst'
  BY DEF ParentsFirst, RunsAreReleased, Released
<1>5. /\ UNCHANGED <<deps, Deleted>>
      /\ late \subseteq late' /\ lost \subseteq lost' /\ stranded \subseteq stranded'
      /\ \A c \in Jobs : status'[c] = "SCHEDULED" => status[c] = "SCHEDULED"
  OBVIOUS
<1>6. ASSUME NEW p \in Jobs, status'[p] = "COMPLETED", status[p] # "COMPLETED", NEW c \in Jobs,
             p \in Parents(c)
      PROVE  \E s \in Runs : Carries(s, c)'
  BY <1>5, <1>6, ParentsStay DEF Carries
<1>7. ASSUME NEW s \in Runs, NEW c \in Jobs, Carries(s, c), status'[c] = "SCHEDULED"
      PROVE  Carries(s, c)' \/ Parents(c) \cap lost' # {}
  BY <1>5, <1>7, ParentsStay DEF Carries
<1>8. NoLostUnlock'
  BY <1>5, <1>6, <1>7, UnlocksKept
<1> QED
  BY <1>1, <1>2, <1>3, <1>4, <1>8

\* An invocation that ends before it starts carries nothing.
LEMMA StartRejectedKeeps ==
    ASSUME GInv, NEW r \in Runs, StartRejected(r)
    PROVE  GInv'
<1> USE DEF GInv, TypeOK, history, Existing, Deleted, Resolving, InFlight, JobStatus,
            StartRejected, EndRun, IdleRun
<1>1. TypeOK'
  BY EventsBounded, NullIsNoJob
<1>2. QueuedIsReleased'
  BY DEF QueuedIsReleased, RunsAreReleased, Released
<1>3. RunsAreReleased'
  BY DEF QueuedIsReleased, RunsAreReleased, Released
<1>4. ParentsFirst'
  BY DEF ParentsFirst, RunsAreReleased, Released
<1>5. /\ UNCHANGED <<deps, Deleted>>
      /\ late \subseteq late' /\ lost \subseteq lost' /\ stranded \subseteq stranded'
      /\ \A c \in Jobs : status'[c] = "SCHEDULED" => status[c] = "SCHEDULED"
  OBVIOUS
<1>6. ASSUME NEW p \in Jobs, status'[p] = "COMPLETED", status[p] # "COMPLETED", NEW c \in Jobs,
             p \in Parents(c)
      PROVE  \E s \in Runs : Carries(s, c)'
  BY <1>5, <1>6, ParentsStay DEF Carries
<1>7. ASSUME NEW s \in Runs, NEW c \in Jobs, Carries(s, c), status'[c] = "SCHEDULED"
      PROVE  Carries(s, c)' \/ Parents(c) \cap lost' # {}
  BY <1>5, <1>7, ParentsStay DEF Carries
<1>8. NoLostUnlock'
  BY <1>5, <1>6, <1>7, UnlocksKept
<1> QED
  BY <1>1, <1>2, <1>3, <1>4, <1>8

\* Nor does one whose job was deleted.
LEMMA JobGoneKeeps ==
    ASSUME GInv, NEW r \in Runs, JobGone(r)
    PROVE  GInv'
<1> USE DEF GInv, TypeOK, history, Existing, Deleted, Resolving, InFlight, JobStatus,
            JobGone, EndRun, IdleRun
<1>1. TypeOK'
  BY EventsBounded, NullIsNoJob
<1>2. QueuedIsReleased'
  BY DEF QueuedIsReleased, RunsAreReleased, Released
<1>3. RunsAreReleased'
  BY DEF QueuedIsReleased, RunsAreReleased, Released
<1>4. ParentsFirst'
  BY DEF ParentsFirst, RunsAreReleased, Released
<1>5. /\ UNCHANGED <<deps, Deleted>>
      /\ late \subseteq late' /\ lost \subseteq lost' /\ stranded \subseteq stranded'
      /\ \A c \in Jobs : status'[c] = "SCHEDULED" => status[c] = "SCHEDULED"
  OBVIOUS
<1>6. ASSUME NEW p \in Jobs, status'[p] = "COMPLETED", status[p] # "COMPLETED", NEW c \in Jobs,
             p \in Parents(c)
      PROVE  \E s \in Runs : Carries(s, c)'
  BY <1>5, <1>6, ParentsStay DEF Carries
<1>7. ASSUME NEW s \in Runs, NEW c \in Jobs, Carries(s, c), status'[c] = "SCHEDULED"
      PROVE  Carries(s, c)' \/ Parents(c) \cap lost' # {}
  BY <1>5, <1>7, ParentsStay DEF Carries
<1>8. NoLostUnlock'
  BY <1>5, <1>6, <1>7, UnlocksKept
<1> QED
  BY <1>1, <1>2, <1>3, <1>4, <1>8

\* Nor does one that fails; its job was released.
LEMMA FailKeeps ==
    ASSUME GInv, NEW r \in Runs, Fail(r)
    PROVE  GInv'
<1> USE DEF GInv, TypeOK, history, Existing, Deleted, Resolving, InFlight, JobStatus,
            Fail, EndRun, IdleRun, SetStatus
<1>1. TypeOK'
  BY EventsBounded, NullIsNoJob
<1>2. QueuedIsReleased'
  BY DEF QueuedIsReleased, RunsAreReleased, Released
<1>3. RunsAreReleased'
  BY DEF QueuedIsReleased, RunsAreReleased, Released
<1>4. ParentsFirst'
  BY DEF ParentsFirst, RunsAreReleased, Released
<1>5. /\ UNCHANGED <<deps, Deleted>>
      /\ late \subseteq late' /\ lost \subseteq lost' /\ stranded \subseteq stranded'
      /\ \A c \in Jobs : status'[c] = "SCHEDULED" => status[c] = "SCHEDULED"
  OBVIOUS
<1>6. ASSUME NEW p \in Jobs, status'[p] = "COMPLETED", status[p] # "COMPLETED", NEW c \in Jobs,
             p \in Parents(c)
      PROVE  \E s \in Runs : Carries(s, c)'
  BY <1>5, <1>6, ParentsStay DEF Carries
<1>7. ASSUME NEW s \in Runs, NEW c \in Jobs, Carries(s, c), status'[c] = "SCHEDULED"
      PROVE  Carries(s, c)' \/ Parents(c) \cap lost' # {}
  BY <1>5, <1>7, ParentsStay DEF Carries
<1>8. NoLostUnlock'
  BY <1>5, <1>6, <1>7, UnlocksKept
<1> QED
  BY <1>1, <1>2, <1>3, <1>4, <1>8

\* The invocation that completes a parent carries its waiting children.
LEMMA CompleteKeeps ==
    ASSUME GInv, NEW r \in Runs, Complete(r)
    PROVE  GInv'
<1> USE DEF GInv, TypeOK, history, Existing, Deleted, Resolving, InFlight, JobStatus,
            Complete, SetStatus
<1>1. TypeOK'
  BY EventsBounded, NullIsNoJob
<1>2. QueuedIsReleased'
  BY DEF QueuedIsReleased, RunsAreReleased, Released
<1>3. RunsAreReleased'
  BY DEF QueuedIsReleased, RunsAreReleased, Released
<1>4. ParentsFirst'
  BY DEF ParentsFirst, RunsAreReleased, Released
<1>5. /\ UNCHANGED <<deps, Deleted>>
      /\ late \subseteq late' /\ lost \subseteq lost' /\ stranded \subseteq stranded'
      /\ \A c \in Jobs : status'[c] = "SCHEDULED" => status[c] = "SCHEDULED"
  OBVIOUS
<1>6. ASSUME NEW p \in Jobs, status'[p] = "COMPLETED", status[p] # "COMPLETED", NEW c \in Jobs,
             p \in Parents(c)
      PROVE  \E s \in Runs : Carries(s, c)'
  BY <1>5, <1>6, ParentsStay DEF Carries
<1>7. ASSUME NEW s \in Runs, NEW c \in Jobs, Carries(s, c), status'[c] = "SCHEDULED"
      PROVE  Carries(s, c)' \/ Parents(c) \cap lost' # {}
  BY <1>5, <1>7, ParentsStay DEF Carries
<1>8. NoLostUnlock'
  BY <1>5, <1>6, <1>7, UnlocksKept
<1> QED
  BY <1>1, <1>2, <1>3, <1>4, <1>8

\* The children that wait stay carried when they have been read.
LEMMA ReadChildrenKeeps == ASSUME GInv, NEW r \in Runs, ReadChildren(r) PROVE GInv'
<1> DEFINE C == {c \in Jobs : run[r].job \in Parents(c) /\ status[c] = "SCHEDULED"}
<1> USE DEF GInv, history
<1>1. /\ run \in [Runs -> [pc : {"idle", "start", "handler"} \cup Resolving,
                         job : Jobs \cup {NULL}, children : SUBSET Jobs]]
      /\ run' = [run EXCEPT ![r].pc = "parents", ![r].children = C]
      /\ run[r].pc = "children"
  BY DEF TypeOK, ReadChildren, Waiting
<1>2. /\ run'[r].pc = "parents" /\ run'[r].job = run[r].job /\ run'[r].children = C
      /\ \A s \in Runs : s # r => run'[s] = run[s]
  BY <1>1
<1>3. /\ C \subseteq Existing
      /\ \A c \in C : run[r].job \in deps[c]
  BY DEF Existing, Parents
<1>4. /\ UNCHANGED <<status, deps, reaping, request, history, events, Existing, Deleted>>
      /\ \A c \in Jobs : Parents(c)' = Parents(c)
  BY DEF ReadChildren, Existing, Deleted, Parents
<1>5. run' \in [Runs -> [pc : {"idle", "start", "handler"} \cup Resolving,
                         job : Jobs \cup {NULL}, children : SUBSET Jobs]]
  <2>1. C \in SUBSET Jobs /\ "parents" \in Resolving
    BY DEF Resolving
  <2> HIDE DEF C
  <2> QED
    BY <1>1, <2>1
<1>6. ASSUME NEW s \in Runs
      PROVE  /\ run'[s].pc # "idle" => run'[s].job \in Existing
             /\ run'[s].children \subseteq Existing
  BY <1>1, <1>2, <1>3 DEF TypeOK
<1> HIDE DEF C
<1>7. TypeOK'
  BY <1>4, <1>5, <1>6 DEF TypeOK
<1>8. QueuedIsReleased' /\ ParentsFirst'
  BY <1>4 DEF QueuedIsReleased, ParentsFirst, Released
<1>9. RunsAreReleased'
  BY <1>1, <1>2, <1>3, <1>4 DEF RunsAreReleased, Released
<1>10. ASSUME NEW c \in Jobs, status[c] = "SCHEDULED", NEW s \in Runs, Carries(s, c)
       PROVE  Carries(s, c)'
  <2>1. CASE s = r
    <3>1. c \in C
      BY <1>1, <1>10, <2>1 DEF Carries, C
    <3> QED
      BY <1>2, <1>4, <1>10, <2>1, <3>1 DEF Carries
  <2>2. CASE s # r
    BY <1>2, <1>4, <1>10, <2>2 DEF Carries
  <2> QED
    BY <2>1, <2>2
<1>11. NoLostUnlock'
  BY <1>4, <1>10 DEF NoLostUnlock, Satisfied, Completed, LeftBehind
<1> QED
  BY <1>7, <1>8, <1>9, <1>11

\* A child whose parents have all completed is found to be ready.
LEMMA ReadParentsKeeps == ASSUME GInv, NEW r \in Runs, ReadParents(r) PROVE GInv'
<1> DEFINE R == {c \in run[r].children : Satisfied(c)}
<1> USE DEF GInv, history
<1>1. /\ run \in [Runs -> [pc : {"idle", "start", "handler"} \cup Resolving,
                         job : Jobs \cup {NULL}, children : SUBSET Jobs]]
      /\ run[r].pc = "parents"
      /\ run' = [run EXCEPT ![r] = run'[r]]
      /\ run'[r] = IF R = {} THEN IdleRun
                   ELSE [pc |-> "unlock", job |-> run[r].job, children |-> R]
  <2>1. run \in [Runs -> [pc : {"idle", "start", "handler"} \cup Resolving,
                         job : Jobs \cup {NULL}, children : SUBSET Jobs]]
    BY DEF TypeOK
  <2>2. /\ run[r].pc = "parents"
        /\ IF R = {} THEN run' = [run EXCEPT ![r] = IdleRun]
           ELSE run' = [run EXCEPT ![r].pc = "unlock", ![r].children = R]
    BY DEF ReadParents, EndRun
  <2> HIDE DEF R
  <2>3. CASE R = {}
    BY <2>1, <2>2, <2>3
  <2>4. CASE R # {}
    BY <2>1, <2>2, <2>4
  <2> QED
    BY <2>1, <2>2, <2>3, <2>4
<1>2. \A s \in Runs : s # r => run'[s] = run[s]
  BY <1>1
<1>3. /\ UNCHANGED <<status, deps, reaping, request, history, events, Existing, Deleted>>
      /\ \A c \in Jobs : Parents(c)' = Parents(c)
  BY DEF ReadParents, Existing, Deleted, Parents
<1>4. /\ run[r].children \subseteq Existing /\ run[r].job \in Existing
      /\ \A c \in R : run[r].job \in deps[c]
  BY <1>1 DEF TypeOK, RunsAreReleased
<1>5. ASSUME NEW c \in R PROVE c \in Deleted \/ Released(c)
  BY <1>4 DEF TypeOK, QueuedIsReleased, Released, Satisfied, Completed, Existing, Parents
<1>6. R \subseteq run[r].children /\ \A c \in run[r].children : Satisfied(c) => c \in R
  OBVIOUS
<1> HIDE DEF R
<1>7. run' \in [Runs -> [pc : {"idle", "start", "handler"} \cup Resolving,
                         job : Jobs \cup {NULL}, children : SUBSET Jobs]]
  <2>1. run'[r] \in [pc : {"idle", "start", "handler"} \cup Resolving,
                     job : Jobs \cup {NULL}, children : SUBSET Jobs]
    BY <1>1, <1>6 DEF IdleRun, Resolving
  <2> QED
    BY <1>1, <2>1
<1>8. ASSUME NEW s \in Runs
      PROVE  /\ run'[s].pc # "idle" => run'[s].job \in Existing
             /\ run'[s].children \subseteq Existing
  BY <1>1, <1>2, <1>4, <1>6 DEF TypeOK, IdleRun
<1>9. TypeOK'
  BY <1>3, <1>7, <1>8 DEF TypeOK
<1>10. QueuedIsReleased' /\ ParentsFirst'
  BY <1>3 DEF QueuedIsReleased, ParentsFirst, Released
<1>11. RunsAreReleased'
  BY <1>1, <1>2, <1>3, <1>4, <1>5 DEF RunsAreReleased, Released, IdleRun
<1>12. ASSUME NEW c \in Jobs, Satisfied(c), NEW s \in Runs, Carries(s, c)
       PROVE  Carries(s, c)'
  <2>1. CASE s = r
    <3>1. c \in R
      BY <1>1, <1>6, <1>12, <2>1 DEF Carries
    <3>2. run'[r].pc = "unlock" /\ run'[r].job = run[r].job /\ run'[r].children = R
      BY <1>1, <3>1
    <3> QED
      BY <1>3, <1>12, <2>1, <3>1, <3>2 DEF Carries
  <2>2. CASE s # r
    BY <1>2, <1>3, <1>12, <2>2 DEF Carries
  <2> QED
    BY <2>1, <2>2
<1>13. NoLostUnlock'
  BY <1>3, <1>12 DEF NoLostUnlock, Satisfied, Completed, LeftBehind
<1> QED
  BY <1>9, <1>10, <1>11, <1>13

\* A child is queued with its parents complete, and the others stay carried.
LEMMA UnlockKeeps == ASSUME GInv, NEW r \in Runs, NEW c \in Jobs, Unlock(r, c) PROVE GInv'
<1> USE DEF GInv, history, Resolving
<1>1. /\ run[r].pc = "unlock" /\ c \in run[r].children /\ c \notin Deleted
      /\ run' = [run EXCEPT ![r].children = run[r].children \ {c}]
      /\ status' = [status EXCEPT ![c] = "QUEUED"]
      /\ UNCHANGED <<deps, reaping, request, history, events>>
  BY DEF Unlock, Remaining, SetStatus
<1>2. /\ run'[r].pc = "unlock" /\ run'[r].job = run[r].job
      /\ run'[r].children = run[r].children \ {c}
      /\ \A s \in Runs \ {r} : run'[s] = run[s]
      /\ status'[c] = "QUEUED" /\ \A d \in Jobs \ {c} : status'[d] = status[d]
  BY <1>1 DEF TypeOK
<1>3. /\ Existing' = Existing /\ Deleted' = Deleted /\ c \in Existing
      /\ \A d \in Jobs : Parents(d)' = Parents(d) /\ Released(d)' = Released(d)
  <2>1. status[c] \notin {"NONE", "DELETED"}
    BY <1>1 DEF TypeOK, Deleted, Existing
  <2>2. Existing' = Existing /\ Deleted' = Deleted /\ c \in Existing
    BY <1>2, <2>1 DEF Existing, Deleted
  <2> QED
    BY <1>1, <2>2 DEF Parents, Released
<1>4. TypeOK'
  <2>1. run' \in [Runs -> [pc : {"idle", "start", "handler"} \cup Resolving,
                           job : Jobs \cup {NULL}, children : SUBSET Jobs]]
    BY <1>1 DEF TypeOK
  <2>2. status' \in [Jobs -> JobStatus \cup {"NONE", "DELETED"}]
    BY <1>1 DEF TypeOK, JobStatus
  <2>3. \A s \in Runs : /\ run'[s].pc # "idle" => run'[s].job \in Existing
                        /\ run'[s].children \subseteq Existing
    BY <1>1, <1>2 DEF TypeOK
  <2> QED
    BY <1>1, <1>3, <2>1, <2>2, <2>3 DEF TypeOK
<1>5. Released(c)
  BY <1>1 DEF RunsAreReleased
<1>6. QueuedIsReleased'
  BY <1>1, <1>2, <1>3, <1>5 DEF QueuedIsReleased
<1>7. RunsAreReleased'
  <2>1. \A p \in Passes : \A j \in reaping'[p] : Released(j)'
    BY <1>1, <1>3 DEF RunsAreReleased, TypeOK
  <2>2. ASSUME NEW s \in Runs
        PROVE  /\ run'[s].pc # "idle" => Released(run[s].job)'
               /\ run'[s].pc = "handler" => run'[s].job \in started'
               /\ run'[s].pc \in {"parents", "unlock"} =>
                      \A d \in run'[s].children : run'[s].job \in deps'[d]
               /\ run'[s].pc = "unlock" =>
                      \A d \in run'[s].children : d \in Deleted' \/ Released(d)'
    <3>1. /\ run[s].pc # "idle" => run[s].job \in Jobs
          /\ run[s].children \subseteq Jobs
      BY DEF TypeOK, Existing
    <3>2. CASE s = r
      BY <1>1, <1>2, <1>3, <3>1, <3>2 DEF RunsAreReleased
    <3>3. CASE s # r
      BY <1>1, <1>2, <1>3, <3>1, <3>3 DEF RunsAreReleased
    <3> QED
      BY <3>2, <3>3
  <2> HIDE DEF history
  <2> QED
    BY <2>1, <2>2 DEF RunsAreReleased
<1>8. ParentsFirst'
  BY <1>1, <1>3 DEF ParentsFirst, TypeOK, Existing
<1>9. NoLostUnlock'
  <2> SUFFICES ASSUME NEW d \in Jobs, status'[d] = "SCHEDULED", Satisfied(d)', ~LeftBehind(d)'
               PROVE  \E s \in Runs : Carries(s, d)'
    BY DEF NoLostUnlock
  <2>1. d # c /\ status[d] = "SCHEDULED"
    BY <1>2
  <2>2. Satisfied(d)
    BY <1>2, <1>3 DEF Satisfied, Completed, Parents, TypeOK
  <2>3. PICK s \in Runs : Carries(s, d)
    BY <1>1, <1>3, <2>1, <2>2 DEF NoLostUnlock, LeftBehind
  <2>4. Carries(s, d)'
    BY <1>1, <1>2, <1>3, <2>1, <2>3 DEF Carries
  <2> QED
    BY <2>4
<1> QED
  BY <1>4, <1>6, <1>7, <1>8, <1>9

\* A resolver that has queued its children carries nothing.
LEMMA ResolvedKeeps ==
    ASSUME GInv, NEW r \in Runs, Resolved(r)
    PROVE  GInv'
<1> USE DEF GInv, TypeOK, history, Existing, Deleted, Resolving, InFlight, JobStatus,
            Resolved, EndRun, IdleRun
<1>1. TypeOK'
  BY EventsBounded, NullIsNoJob
<1>2. QueuedIsReleased'
  BY DEF QueuedIsReleased, RunsAreReleased, Released
<1>3. RunsAreReleased'
  BY DEF QueuedIsReleased, RunsAreReleased, Released
<1>4. ParentsFirst'
  BY DEF ParentsFirst, RunsAreReleased, Released
<1>5. /\ UNCHANGED <<deps, Deleted>>
      /\ late \subseteq late' /\ lost \subseteq lost' /\ stranded \subseteq stranded'
      /\ \A c \in Jobs : status'[c] = "SCHEDULED" => status[c] = "SCHEDULED"
  OBVIOUS
<1>6. ASSUME NEW p \in Jobs, status'[p] = "COMPLETED", status[p] # "COMPLETED", NEW c \in Jobs,
             p \in Parents(c)
      PROVE  \E s \in Runs : Carries(s, c)'
  BY <1>5, <1>6, ParentsStay DEF Carries
<1>7. ASSUME NEW s \in Runs, NEW c \in Jobs, Carries(s, c), status'[c] = "SCHEDULED"
      PROVE  Carries(s, c)' \/ Parents(c) \cap lost' # {}
  BY <1>5, <1>7, ParentsStay DEF Carries
<1>8. NoLostUnlock'
  BY <1>5, <1>6, <1>7, UnlocksKept
<1> QED
  BY <1>1, <1>2, <1>3, <1>4, <1>8

\* A resolution that breaks off is recorded as lost.
LEMMA BreakOffKeeps ==
    ASSUME GInv, NEW r \in Runs, run[r].pc \in Resolving, BreakOff(r), events' \in Nat
    PROVE  GInv'
<1> USE DEF GInv, TypeOK, history, Existing, Deleted, Resolving, InFlight, JobStatus,
            BreakOff, EndRun, IdleRun, SetStatus
<1>1. TypeOK'
  BY EventsBounded, NullIsNoJob
<1>2. QueuedIsReleased'
  BY DEF QueuedIsReleased, RunsAreReleased, Released
<1>3. RunsAreReleased'
  BY DEF QueuedIsReleased, RunsAreReleased, Released
<1>4. ParentsFirst'
  BY DEF ParentsFirst, RunsAreReleased, Released
<1>5. /\ UNCHANGED <<deps, Deleted>>
      /\ late \subseteq late' /\ lost \subseteq lost' /\ stranded \subseteq stranded'
      /\ \A c \in Jobs : status'[c] = "SCHEDULED" => status[c] = "SCHEDULED"
  OBVIOUS
<1>6. ASSUME NEW p \in Jobs, status'[p] = "COMPLETED", status[p] # "COMPLETED", NEW c \in Jobs,
             p \in Parents(c)
      PROVE  \E s \in Runs : Carries(s, c)'
  BY <1>5, <1>6, ParentsStay DEF Carries
<1>7. ASSUME NEW s \in Runs, NEW c \in Jobs, Carries(s, c), status'[c] = "SCHEDULED"
      PROVE  Carries(s, c)' \/ Parents(c) \cap lost' # {}
  BY <1>5, <1>7, ParentsStay DEF Carries
<1>8. NoLostUnlock'
  BY <1>5, <1>6, <1>7, UnlocksKept
<1> QED
  BY <1>1, <1>2, <1>3, <1>4, <1>8

\* So is one that a crash cuts off.
LEMMA CrashKeeps ==
    ASSUME GInv, NEW r \in Runs, Crash(r)
    PROVE  GInv'
<1> USE DEF GInv, TypeOK, history, Existing, Deleted, Resolving, InFlight, JobStatus,
            Crash, Event, EndRun, IdleRun
<1>1. TypeOK'
  BY EventsBounded, NullIsNoJob
<1>2. QueuedIsReleased'
  BY DEF QueuedIsReleased, RunsAreReleased, Released
<1>3. RunsAreReleased'
  BY DEF QueuedIsReleased, RunsAreReleased, Released
<1>4. ParentsFirst'
  BY DEF ParentsFirst, RunsAreReleased, Released
<1>5. /\ UNCHANGED <<deps, Deleted>>
      /\ late \subseteq late' /\ lost \subseteq lost' /\ stranded \subseteq stranded'
      /\ \A c \in Jobs : status'[c] = "SCHEDULED" => status[c] = "SCHEDULED"
  OBVIOUS
<1>6. ASSUME NEW p \in Jobs, status'[p] = "COMPLETED", status[p] # "COMPLETED", NEW c \in Jobs,
             p \in Parents(c)
      PROVE  \E s \in Runs : Carries(s, c)'
  BY <1>5, <1>6, ParentsStay DEF Carries
<1>7. ASSUME NEW s \in Runs, NEW c \in Jobs, Carries(s, c), status'[c] = "SCHEDULED"
      PROVE  Carries(s, c)' \/ Parents(c) \cap lost' # {}
  BY <1>5, <1>7, ParentsStay DEF Carries
<1>8. NoLostUnlock'
  BY <1>5, <1>6, <1>7, UnlocksKept
<1> QED
  BY <1>1, <1>2, <1>3, <1>4, <1>8

\* A job in flight was queued, so it is released.
LEMMA FindOrphansKeeps ==
    ASSUME GInv, NEW p \in Passes, NEW S \in SUBSET Jobs, FindOrphans(p, S)
    PROVE  GInv'
<1> USE DEF GInv, TypeOK, history, Existing, Deleted, Resolving, InFlight, JobStatus,
            FindOrphans, Event
<1>1. TypeOK'
  BY EventsBounded, NullIsNoJob
<1>2. QueuedIsReleased'
  BY DEF QueuedIsReleased, RunsAreReleased, Released
<1>3. RunsAreReleased'
  BY DEF QueuedIsReleased, RunsAreReleased, Released
<1>4. ParentsFirst'
  BY DEF ParentsFirst, RunsAreReleased, Released
<1>5. /\ UNCHANGED <<deps, Deleted>>
      /\ late \subseteq late' /\ lost \subseteq lost' /\ stranded \subseteq stranded'
      /\ \A c \in Jobs : status'[c] = "SCHEDULED" => status[c] = "SCHEDULED"
  OBVIOUS
<1>6. ASSUME NEW q \in Jobs, status'[q] = "COMPLETED", status[q] # "COMPLETED", NEW c \in Jobs,
             q \in Parents(c)
      PROVE  \E s \in Runs : Carries(s, c)'
  BY <1>5, <1>6, ParentsStay DEF Carries
<1>7. ASSUME NEW s \in Runs, NEW c \in Jobs, Carries(s, c), status'[c] = "SCHEDULED"
      PROVE  Carries(s, c)' \/ Parents(c) \cap lost' # {}
  BY <1>5, <1>7, ParentsStay DEF Carries
<1>8. NoLostUnlock'
  BY <1>5, <1>6, <1>7, UnlocksKept
<1> QED
  BY <1>1, <1>2, <1>3, <1>4, <1>8

\* So is what a reaper queues, whatever it has become.
LEMMA RequeueKeeps ==
    ASSUME GInv, NEW p \in Passes, Requeue(p)
    PROVE  GInv'
<1> USE DEF GInv, TypeOK, history, Existing, Deleted, Resolving, InFlight, JobStatus,
            Requeue
<1>1. TypeOK'
  BY EventsBounded, NullIsNoJob
<1>2. QueuedIsReleased'
  BY DEF QueuedIsReleased, RunsAreReleased, Released
<1>3. RunsAreReleased'
  BY DEF QueuedIsReleased, RunsAreReleased, Released
<1>4. ParentsFirst'
  BY DEF ParentsFirst, RunsAreReleased, Released
<1>5. /\ UNCHANGED <<deps, Deleted>>
      /\ late \subseteq late' /\ lost \subseteq lost' /\ stranded \subseteq stranded'
      /\ \A c \in Jobs : status'[c] = "SCHEDULED" => status[c] = "SCHEDULED"
  OBVIOUS
<1>6. ASSUME NEW q \in Jobs, status'[q] = "COMPLETED", status[q] # "COMPLETED", NEW c \in Jobs,
             q \in Parents(c)
      PROVE  \E s \in Runs : Carries(s, c)'
  BY <1>5, <1>6, ParentsStay DEF Carries
<1>7. ASSUME NEW s \in Runs, NEW c \in Jobs, Carries(s, c), status'[c] = "SCHEDULED"
      PROVE  Carries(s, c)' \/ Parents(c) \cap lost' # {}
  BY <1>5, <1>7, ParentsStay DEF Carries
<1>8. NoLostUnlock'
  BY <1>5, <1>6, <1>7, UnlocksKept
<1> QED
  BY <1>1, <1>2, <1>3, <1>4, <1>8

\* A cancelled job is not queued, a retried one is exempt.
LEMMA WriteJobKeeps ==
    ASSUME GInv, NEW q \in Requests, WriteJob(q)
    PROVE  GInv'
<1> USE DEF GInv, TypeOK, history, Existing, Deleted, Resolving, InFlight, JobStatus,
            WriteJob, Done, SetStatus
<1>1. TypeOK'
  BY EventsBounded, NullIsNoJob
<1>2. QueuedIsReleased'
  BY DEF QueuedIsReleased, RunsAreReleased, Released
<1>3. RunsAreReleased'
  BY DEF QueuedIsReleased, RunsAreReleased, Released
<1>4. ParentsFirst'
  BY DEF ParentsFirst, RunsAreReleased, Released
<1>5. /\ UNCHANGED <<deps, Deleted>>
      /\ late \subseteq late' /\ lost \subseteq lost' /\ stranded \subseteq stranded'
      /\ \A c \in Jobs : status'[c] = "SCHEDULED" => status[c] = "SCHEDULED"
  OBVIOUS
<1>6. ASSUME NEW p \in Jobs, status'[p] = "COMPLETED", status[p] # "COMPLETED", NEW c \in Jobs,
             p \in Parents(c)
      PROVE  \E s \in Runs : Carries(s, c)'
  BY <1>5, <1>6, ParentsStay DEF Carries
<1>7. ASSUME NEW s \in Runs, NEW c \in Jobs, Carries(s, c), status'[c] = "SCHEDULED"
      PROVE  Carries(s, c)' \/ Parents(c) \cap lost' # {}
  BY <1>5, <1>7, ParentsStay DEF Carries
<1>8. NoLostUnlock'
  BY <1>5, <1>6, <1>7, UnlocksKept
<1> QED
  BY <1>1, <1>2, <1>3, <1>4, <1>8

\* A request that is admitted refers to a job that exists.
LEMMA ReadJobKeeps ==
    ASSUME GInv, NEW q \in Requests, NEW j \in Jobs, NEW op \in {"cancel", "retry"}, ReadJob(q, op, j)
    PROVE  GInv'
<1> USE DEF GInv, TypeOK, history, Existing, Deleted, Resolving, InFlight, JobStatus,
            ReadJob, Admits, Event
<1>1. TypeOK'
  BY EventsBounded, NullIsNoJob
<1>2. QueuedIsReleased'
  BY DEF QueuedIsReleased, RunsAreReleased, Released
<1>3. RunsAreReleased'
  BY DEF QueuedIsReleased, RunsAreReleased, Released
<1>4. ParentsFirst'
  BY DEF ParentsFirst, RunsAreReleased, Released
<1>5. /\ UNCHANGED <<deps, Deleted>>
      /\ late \subseteq late' /\ lost \subseteq lost' /\ stranded \subseteq stranded'
      /\ \A c \in Jobs : status'[c] = "SCHEDULED" => status[c] = "SCHEDULED"
  OBVIOUS
<1>6. ASSUME NEW p \in Jobs, status'[p] = "COMPLETED", status[p] # "COMPLETED", NEW c \in Jobs,
             p \in Parents(c)
      PROVE  \E s \in Runs : Carries(s, c)'
  BY <1>5, <1>6, ParentsStay DEF Carries
<1>7. ASSUME NEW s \in Runs, NEW c \in Jobs, Carries(s, c), status'[c] = "SCHEDULED"
      PROVE  Carries(s, c)' \/ Parents(c) \cap lost' # {}
  BY <1>5, <1>7, ParentsStay DEF Carries
<1>8. NoLostUnlock'
  BY <1>5, <1>6, <1>7, UnlocksKept
<1> QED
  BY <1>1, <1>2, <1>3, <1>4, <1>8

\* One that fails changes no job.
LEMMA WriteFailsKeeps ==
    ASSUME GInv, NEW q \in Requests, WriteFails(q)
    PROVE  GInv'
<1> USE DEF GInv, TypeOK, history, Existing, Deleted, Resolving, InFlight, JobStatus,
            WriteFails, Done
<1>1. TypeOK'
  BY EventsBounded, NullIsNoJob
<1>2. QueuedIsReleased'
  BY DEF QueuedIsReleased, RunsAreReleased, Released
<1>3. RunsAreReleased'
  BY DEF QueuedIsReleased, RunsAreReleased, Released
<1>4. ParentsFirst'
  BY DEF ParentsFirst, RunsAreReleased, Released
<1>5. /\ UNCHANGED <<deps, Deleted>>
      /\ late \subseteq late' /\ lost \subseteq lost' /\ stranded \subseteq stranded'
      /\ \A c \in Jobs : status'[c] = "SCHEDULED" => status[c] = "SCHEDULED"
  OBVIOUS
<1>6. ASSUME NEW p \in Jobs, status'[p] = "COMPLETED", status[p] # "COMPLETED", NEW c \in Jobs,
             p \in Parents(c)
      PROVE  \E s \in Runs : Carries(s, c)'
  BY <1>5, <1>6, ParentsStay DEF Carries
<1>7. ASSUME NEW s \in Runs, NEW c \in Jobs, Carries(s, c), status'[c] = "SCHEDULED"
      PROVE  Carries(s, c)' \/ Parents(c) \cap lost' # {}
  BY <1>5, <1>7, ParentsStay DEF Carries
<1>8. NoLostUnlock'
  BY <1>5, <1>6, <1>7, UnlocksKept
<1> QED
  BY <1>1, <1>2, <1>3, <1>4, <1>8

\* Every step keeps the invariant.
LEMMA NextGInv == GInv /\ [Next]_vars => GInv'
<1> SUFFICES ASSUME GInv, [Next]_vars PROVE GInv'
  OBVIOUS
<1>1. ASSUME NEW j \in Jobs, NEW P \in SUBSET (Jobs \ {j}), Create(j, P) PROVE GInv'
  BY <1>1, CreateKeeps
<1>2. ASSUME NEW S \in SUBSET Jobs, DeleteQueue(S) PROVE GInv'
  BY <1>2, DeleteQueueKeeps
<1>3. ASSUME NEW p \in Passes, (\E S \in SUBSET Jobs : FindOrphans(p, S)) \/ Requeue(p) PROVE GInv'
  BY <1>3, FindOrphansKeeps, RequeueKeeps
<1>4. ASSUME NEW r \in Runs, NEW j \in Jobs, Claim(r, j) PROVE GInv'
  BY <1>4, ClaimKeeps
<1>5. ASSUME NEW r \in Runs, UnlockFails(r) \/ ResolveFails(r) PROVE GInv'
  <2>1. run[r].pc \in Resolving /\ BreakOff(r) /\ events' \in Nat
    BY <1>5, EventsBounded DEF UnlockFails, ResolveFails, Event, Resolving, GInv, TypeOK
  <2> QED
    BY <2>1, BreakOffKeeps
<1>6. ASSUME NEW r \in Runs, Execute(r) PROVE GInv'
  BY <1>5, <1>6, StartKeeps, StartRejectedKeeps, CompleteKeeps, FailKeeps, JobGoneKeeps,
     ReadChildrenKeeps, ReadParentsKeeps, UnlockKeeps, ResolvedKeeps DEF Execute, Resolve
<1>7. ASSUME NEW r \in Runs, Crash(r) PROVE GInv'
  BY <1>7, CrashKeeps
<1>8. ASSUME NEW q \in Requests, NEW j \in Jobs, NEW op \in {"cancel", "retry"}, ReadJob(q, op, j)
      PROVE  GInv'
  BY <1>8, ReadJobKeeps
<1>9. ASSUME NEW q \in Requests, WriteJob(q) \/ WriteFails(q) PROVE GInv'
  BY <1>9, WriteJobKeeps, WriteFailsKeeps
<1>10. ASSUME UNCHANGED vars PROVE GInv'
  <2>1. TypeOK'
    BY <1>10 DEF vars, history, GInv, TypeOK, Existing
  <2>2. QueuedIsReleased' /\ RunsAreReleased' /\ ParentsFirst'
    BY <1>10 DEF vars, history, GInv, QueuedIsReleased, RunsAreReleased, ParentsFirst, Released,
                 Deleted
  <2>3. NoLostUnlock'
    BY <1>10, UnlocksKept DEF vars, history, Deleted, Carries, Parents
  <2> QED
    BY <2>1, <2>2, <2>3 DEF GInv
<1> QED
  BY <1>1, <1>2, <1>3, <1>4, <1>5, <1>6, <1>7, <1>8, <1>9, <1>10 DEF Next

\* The invariant holds in every reachable state.
THEOREM WorkflowInvariance == Spec => []GInv
<1> QED
  BY InitGInv, NextGInv, PTL DEF Spec

\* Every table and local variable of the workflow has its type, and refers to
\* rows that exist.
THEOREM WorkflowTypes == Spec => []TypeOK
<1>1. GInv => TypeOK
  BY DEF GInv
<1> QED
  BY <1>1, WorkflowInvariance, PTL

\* The gate: a job is executed only after its parents completed or were
\* deleted, unless a request released it, whoever queues it and how often.
THEOREM Gate == Spec => []ParentsFirst
<1>1. GInv => ParentsFirst
  BY DEF GInv
<1> QED
  BY <1>1, WorkflowInvariance, PTL

\* Two parents that complete at the same time never both leave the child to
\* the other, and nothing but what LeftBehind lists leaves a child behind: it
\* does not matter which parents a deletion takes away, as long as one that has
\* not completed remains.
THEOREM UnlocksConserved == Spec => []NoLostUnlock
<1>1. GInv => NoLostUnlock
  BY DEF GInv
<1> QED
  BY <1>1, WorkflowInvariance, PTL

\* The workflow implements DependencyOrder: creation declares, Start starts,
\* Complete finishes, the write of a retry exempts, the deletion of a queue
\* removes, and all else is stuttering.
THEOREM OrderKept == Spec => KeepsOrder
<1>1. Init => Order!Init
  BY DEF Init, Deleted, Order!Init
<1>2. GInv /\ [Next]_vars => [Order!Next]_(Order!vars)
  <2> DEFINE promise == <<deps, started, completed, exempt, Deleted>>
  <2> SUFFICES ASSUME GInv, [Next]_vars
               PROVE  Order!Next \/ UNCHANGED promise
    BY DEF Order!vars
  <2>1. ASSUME NEW j \in Jobs, NEW P \in SUBSET (Jobs \ {j}), Create(j, P) PROVE Order!Next
    <3>1. j \notin started /\ Deleted' = Deleted
      BY <2>1 DEF GInv, TypeOK, Existing, Deleted, Create
    <3>2. Order!Declare(j, P)
      BY <2>1, <3>1 DEF Create, Order!Declare
    <3> QED
      BY <3>2 DEF Order!Next
  <2>2. ASSUME NEW S \in SUBSET Jobs, DeleteQueue(S) PROVE Order!Next
    <3>1. Deleted' = Deleted \cup S /\ UNCHANGED <<deps, started, completed, exempt>>
      BY <2>2 DEF GInv, TypeOK, Deleted, DeleteQueue
    <3>2. Order!Remove(S)
      BY <3>1 DEF Order!Remove
    <3> QED
      BY <3>2 DEF Order!Next
  <2>3. ASSUME NEW r \in Runs, Start(r) PROVE Order!Next
    <3>1. run[r].job \in Jobs /\ Released(run[r].job) /\ Deleted' = Deleted
      BY <2>3 DEF GInv, TypeOK, Existing, Deleted, RunsAreReleased, Start, SetStatus
    <3>2. Order!Start(run[r].job)
      BY <2>3, <3>1 DEF Start, Released, Order!Start
    <3> QED
      BY <3>1, <3>2 DEF Order!Next
  <2>4. ASSUME NEW r \in Runs, Complete(r) PROVE Order!Next
    <3>1. run[r].job \in Jobs /\ run[r].job \in started /\ Deleted' = Deleted
      BY <2>4 DEF GInv, TypeOK, Existing, Deleted, RunsAreReleased, Complete, SetStatus
    <3>2. Order!Finish(run[r].job)
      BY <2>4, <3>1 DEF Complete, Order!Finish
    <3> QED
      BY <3>1, <3>2 DEF Order!Next
  <2>5. ASSUME NEW q \in Requests, WriteJob(q) PROVE Order!Next \/ UNCHANGED promise
    <3>1. request[q].job \in Jobs /\ Deleted' = Deleted
      BY <2>5 DEF GInv, TypeOK, Existing, Deleted, WriteJob, SetStatus
    <3>2. CASE request[q].op = "cancel"
      BY <2>5, <3>1, <3>2 DEF WriteJob
    <3>3. CASE request[q].op # "cancel"
      <4>1. Order!Exempt(request[q].job)
        BY <2>5, <3>1, <3>3 DEF WriteJob, Order!Exempt
      <4> QED
        BY <3>1, <4>1 DEF Order!Next
    <3> QED
      BY <3>2, <3>3
  <2>6. ASSUME UNCHANGED <<deps, started, completed, exempt>>,
               \A j \in Jobs : (status'[j] = "DELETED") = (status[j] = "DELETED")
        PROVE  UNCHANGED promise
    BY <2>6 DEF Deleted
  <2>7. ASSUME NEW j \in Jobs, j \notin Deleted, NEW s \in JobStatus,
               status' = [status EXCEPT ![j] = s]
        PROVE  \A k \in Jobs : (status'[k] = "DELETED") = (status[k] = "DELETED")
    BY <2>7 DEF GInv, TypeOK, Deleted, JobStatus
  <2>8. ASSUME NEW r \in Runs, NEW j \in Jobs, Claim(r, j) PROVE UNCHANGED promise
    <3>1. j \notin Deleted /\ status' = [status EXCEPT ![j] = "CLAIMED"] /\ "CLAIMED" \in JobStatus
      BY <2>8 DEF Claim, SetStatus, Deleted, JobStatus
    <3> QED
      BY <2>6, <2>7, <2>8, <3>1 DEF Claim, history
  <2>9. ASSUME NEW r \in Runs, NEW c \in Jobs, Unlock(r, c) PROVE UNCHANGED promise
    <3>1. c \notin Deleted /\ status' = [status EXCEPT ![c] = "QUEUED"] /\ "QUEUED" \in JobStatus
      BY <2>9 DEF Unlock, SetStatus, JobStatus
    <3> QED
      BY <2>6, <2>7, <2>9, <3>1 DEF Unlock, history
  <2>10. ASSUME NEW r \in Runs, Fail(r) \/ UnlockFails(r) \/ ResolveFails(r)
         PROVE  UNCHANGED promise
    <3>1. UNCHANGED <<deps, started, completed, exempt>>
      BY <2>10 DEF Fail, UnlockFails, ResolveFails, BreakOff, history
    <3>2. run[r].job \in Jobs
      BY <2>10 DEF Fail, UnlockFails, ResolveFails, Resolving, GInv, TypeOK, Existing
    <3>3. \/ UNCHANGED status
          \/ /\ run[r].job \notin Deleted
             /\ \E s \in {"QUEUED", "DEAD_LETTERED"} : status' = [status EXCEPT ![run[r].job] = s]
      BY <2>10 DEF Fail, UnlockFails, ResolveFails, BreakOff, SetStatus
    <3> QED
      BY <2>6, <2>7, <3>1, <3>2, <3>3 DEF JobStatus
  <2>11. ASSUME NEW r \in Runs, Execute(r) PROVE Order!Next \/ UNCHANGED promise
    <3>1. ASSUME StartRejected(r) \/ JobGone(r) \/ ReadChildren(r) \/ ReadParents(r) \/ Resolved(r)
          PROVE  UNCHANGED promise
      BY <2>6, <3>1 DEF StartRejected, JobGone, ReadChildren, ReadParents, Resolved, history
    <3> QED
      BY <2>3, <2>4, <2>9, <2>10, <2>11, <3>1 DEF Execute, Resolve
  <2>12. ASSUME NEW p \in Passes, NEW S \in SUBSET Jobs, FindOrphans(p, S)
         PROVE  UNCHANGED promise
    BY <2>6, <2>12 DEF FindOrphans, history
  <2>13. ASSUME NEW p \in Passes, Requeue(p) PROVE UNCHANGED promise
    <3>1. \A j \in Jobs : (status'[j] = "DELETED") = (status[j] = "DELETED")
      BY <2>13 DEF Requeue, Deleted
    <3> QED
      BY <2>6, <2>13, <3>1 DEF Requeue
  <2>14. ASSUME NEW r \in Runs, Crash(r) PROVE UNCHANGED promise
    BY <2>6, <2>14 DEF Crash
  <2>15. ASSUME NEW q \in Requests, WriteFails(q) PROVE UNCHANGED promise
    BY <2>6, <2>15 DEF WriteFails, history
  <2>16. ASSUME NEW q \in Requests, NEW j \in Jobs, NEW op \in {"cancel", "retry"},
                ReadJob(q, op, j)
         PROVE  UNCHANGED promise
    BY <2>6, <2>16 DEF ReadJob, history
  <2>17. CASE UNCHANGED vars
    BY <2>6, <2>17 DEF vars, history
  <2> HIDE DEF promise
  <2> QED
    BY <2>1, <2>2, <2>5, <2>8, <2>10, <2>11, <2>12, <2>13, <2>14, <2>15, <2>16, <2>17 DEF Next
<1> QED
  BY <1>1, <1>2, WorkflowInvariance, PTL DEF Spec, KeepsOrder, Order!Spec

\* The initial states satisfy the invariant of trees.
LEMMA InitTree == Init => TreeInv
BY InitGInv DEF Init, TreeInv, OneInvocation, ChildrenWait, IdleRun

\* An invocation ends or goes on with its job and, at most, the children it has.
GoesOn(r) ==
    \/ run'[r].pc = "idle"
    \/ /\ run[r].pc # "idle" /\ run'[r].job = run[r].job
       /\ run'[r].pc \in {"parents", "unlock"} =>
             /\ run[r].pc \in {"parents", "unlock"}
             /\ run'[r].children \subseteq run[r].children

\* Nobody has retried a job by hand, or queued one that was no orphan.
Undisturbed == exempt = {} /\ usurped = {}

\* A status stays, or is overwritten: by a request that cancels or deletes; by
\* whoever queues a job that nobody has in hand; or by an invocation of the job.
StatusFits(j) ==
    \/ status'[j] = status[j]
    \/ status'[j] \in {"CANCELLED", "DELETED"}
    \/ /\ \A r \in Runs : run'[r].pc # "idle" => run'[r].job # j
       /\ \A r \in Runs : run'[r].pc \in {"parents", "unlock"} => j \notin run'[r].children
    \/ /\ status'[j] \notin {"SCHEDULED", "QUEUED"}
       /\ \E r \in Runs : run[r].pc # "idle" /\ run[r].job = j

\* A step in which no invocation starts or reads children.
LEMMA TreeShrinks ==
    ASSUME TreeInv, GInv', deps' = deps, exempt \subseteq exempt', usurped \subseteq usurped',
           \A j \in Jobs : status'[j] = "NONE" => status[j] = "NONE",
           \A r \in Runs : GoesOn(r),
           Tree /\ Undisturbed' => \A j \in Jobs : StatusFits(j)
    PROVE  TreeInv'
<1>1. \A j \in Jobs : status'[j] = "NONE" => deps'[j] = {}
  BY DEF TreeInv
<1>2. ASSUME Tree', Undisturbed' PROVE Tree /\ Undisturbed /\ \A j \in Jobs : StatusFits(j)
  BY <1>2 DEF Tree, Undisturbed
<1>3. \A r \in Runs : run'[r].pc # "idle" => run'[r].job \in Jobs
  BY DEF GInv, TypeOK, Existing
<1>4. \A r \in Runs : run'[r].children \subseteq Jobs
  BY DEF GInv, TypeOK
<1>5. OneInvocation'
  BY <1>2, <1>3 DEF TreeInv, OneInvocation, GoesOn, StatusFits, Undisturbed
<1>6. ChildrenWait'
  BY <1>2, <1>3, <1>4 DEF TreeInv, ChildrenWait, GoesOn, StatusFits, Undisturbed
<1> QED
  BY <1>1, <1>5, <1>6 DEF TreeInv

\* In a tree a job that an invocation executes is in no other hands.
LEMMA ExecutedAlone ==
    ASSUME TreeInv, Tree, Undisturbed, NEW r \in Runs, run[r].pc # "idle"
    PROVE  \A s \in Runs : /\ run[s].pc # "idle" /\ run[s].job = run[r].job => s = r
                           /\ run[s].pc \in {"parents", "unlock"} => run[r].job \notin run[s].children
BY DEF TreeInv, OneInvocation, ChildrenWait, Undisturbed

\* An invocation that ends, and leaves its job with any status.
LEMMA TreeEndRun ==
    ASSUME TreeInv, GInv', NEW r \in Runs, run[r].pc # "idle", run' = [run EXCEPT ![r] = IdleRun],
           NEW x \in JobStatus \cup {"DELETED"}, status' = [status EXCEPT ![run[r].job] = x],
           UNCHANGED <<deps, exempt, usurped>>
    PROVE  TreeInv'
<1>1. run'[r].pc = "idle" /\ \A s \in Runs \ {r} : run'[s] = run[s]
  BY DEF TreeInv, GInv, TypeOK, IdleRun
<1>2. \A s \in Runs : GoesOn(s)
  BY <1>1 DEF GoesOn
<1>3. /\ run[r].job \in Jobs /\ status'[run[r].job] = x
      /\ \A j \in Jobs \ {run[r].job} : status'[j] = status[j]
  BY DEF TreeInv, GInv, TypeOK, Existing
<1>4. ASSUME Tree, Undisturbed', NEW j \in Jobs PROVE StatusFits(j)
  <2>1. CASE j = run[r].job
    BY <1>1, <1>4, <2>1, ExecutedAlone DEF StatusFits, Undisturbed
  <2>2. CASE j # run[r].job
    BY <1>3, <2>2 DEF StatusFits
  <2> QED
    BY <2>1, <2>2
<1>5. \A j \in Jobs : status'[j] = "NONE" => status[j] = "NONE"
  BY <1>3 DEF JobStatus
<1> QED
  BY <1>2, <1>4, <1>5, TreeShrinks

\* An invocation that goes on with its job, and marks it.
LEMMA TreeGoesOn ==
    ASSUME TreeInv, GInv', NEW r \in Runs, run[r].pc # "idle",
           NEW p \in {"handler", "children"}, run' = [run EXCEPT ![r].pc = p],
           NEW x \in {"RUNNING", "COMPLETED"}, status' = [status EXCEPT ![run[r].job] = x],
           UNCHANGED <<deps, exempt, usurped>>
    PROVE  TreeInv'
<1>1. /\ run'[r].pc = p /\ run'[r].job = run[r].job
      /\ \A s \in Runs \ {r} : run'[s] = run[s]
  BY DEF TreeInv, GInv, TypeOK
<1>2. \A s \in Runs : GoesOn(s)
  BY <1>1 DEF GoesOn
<1>3. /\ run[r].job \in Jobs /\ status'[run[r].job] = x
      /\ \A j \in Jobs \ {run[r].job} : status'[j] = status[j]
  BY DEF TreeInv, GInv, TypeOK, Existing
<1>4. \A j \in Jobs : StatusFits(j)
  BY <1>3 DEF StatusFits
<1>5. \A j \in Jobs : status'[j] = "NONE" => status[j] = "NONE"
  BY <1>3
<1> QED
  BY <1>2, <1>4, <1>5, TreeShrinks

\* A job is created before anything can have it in hand.
LEMMA CreateKeepsTree ==
    ASSUME TreeInv, NEW j \in Jobs, NEW P \in SUBSET (Jobs \ {j}), Create(j, P)
    PROVE  TreeInv'
<1>1. GInv'
  BY CreateKeeps DEF TreeInv
<1>2. /\ status[j] = "NONE" /\ deps[j] = {} /\ UNCHANGED <<run, exempt, usurped>>
      /\ status'[j] # "NONE" /\ deps' = [deps EXCEPT ![j] = P]
      /\ \A k \in Jobs \ {j} : status'[k] = status[k] /\ deps'[k] = deps[k]
  BY DEF TreeInv, GInv, TypeOK, Create
<1>3. \A k \in Jobs : status'[k] = "NONE" => deps'[k] = {}
  BY <1>2 DEF TreeInv
<1>4. Tree' => Tree
  BY <1>2 DEF Tree
<1>5. \A r \in Runs : /\ run[r].pc # "idle" => run[r].job \in Jobs \ {j}
                      /\ run[r].children \subseteq Jobs \ {j}
  BY <1>2 DEF TreeInv, GInv, TypeOK, Existing
<1>6. OneInvocation'
  BY <1>2, <1>4, <1>5 DEF TreeInv, OneInvocation
<1>7. ChildrenWait'
  BY <1>2, <1>4, <1>5 DEF TreeInv, ChildrenWait
<1> QED
  BY <1>1, <1>3, <1>6, <1>7 DEF TreeInv

\* A queued job is in no hands when it is claimed.
LEMMA ClaimKeepsTree ==
    ASSUME TreeInv, NEW r \in Runs, NEW j \in Jobs, Claim(r, j)
    PROVE  TreeInv'
<1>1. GInv'
  BY ClaimKeeps DEF TreeInv
<1>2. /\ run[r].pc = "idle" /\ run'[r].pc = "start" /\ run'[r].job = j
      /\ \A s \in Runs \ {r} : run'[s] = run[s]
      /\ status[j] = "QUEUED" /\ status'[j] = "CLAIMED"
      /\ \A k \in Jobs \ {j} : status'[k] = status[k]
      /\ UNCHANGED <<deps, exempt, usurped>>
  BY DEF TreeInv, GInv, TypeOK, Claim, SetStatus, history
<1>3. \A k \in Jobs : status'[k] = "NONE" => deps'[k] = {}
  BY <1>2 DEF TreeInv
<1>4. Tree' => Tree
  BY <1>2 DEF Tree
<1>5. \A s \in Runs : /\ run[s].pc # "idle" => run[s].job \in Jobs
                      /\ run[s].children \subseteq Jobs
  BY DEF TreeInv, GInv, TypeOK, Existing
<1>6. OneInvocation'
  BY <1>2, <1>4, <1>5 DEF TreeInv, OneInvocation
<1>7. ChildrenWait'
  BY <1>2, <1>4, <1>5 DEF TreeInv, ChildrenWait
<1> QED
  BY <1>1, <1>3, <1>6, <1>7 DEF TreeInv

\* The children that are read wait, so nobody executes them.
LEMMA ReadChildrenKeepsTree ==
    ASSUME TreeInv, NEW r \in Runs, ReadChildren(r)
    PROVE  TreeInv'
<1>1. GInv'
  BY ReadChildrenKeeps DEF TreeInv
<1>2. /\ run[r].pc = "children" /\ run'[r].pc = "parents" /\ run'[r].job = run[r].job
      /\ \A c \in run'[r].children : c \in Jobs /\ status[c] = "SCHEDULED"
      /\ \A s \in Runs \ {r} : run'[s] = run[s]
      /\ UNCHANGED <<status, deps, exempt, usurped>>
  BY DEF TreeInv, GInv, TypeOK, ReadChildren, Waiting, history
<1>3. \A k \in Jobs : status'[k] = "NONE" => deps'[k] = {}
  BY <1>2 DEF TreeInv
<1>4. Tree' => Tree
  BY <1>2 DEF Tree
<1>5. OneInvocation'
  BY <1>2, <1>4 DEF TreeInv, OneInvocation
<1>6. ChildrenWait'
  BY <1>2, <1>4 DEF TreeInv, ChildrenWait, OneInvocation
<1> QED
  BY <1>1, <1>3, <1>5, <1>6 DEF TreeInv

\* The ready children are among those that were read.
LEMMA ReadParentsKeepsTree ==
    ASSUME TreeInv, NEW r \in Runs, ReadParents(r)
    PROVE  TreeInv'
<1>1. GInv'
  BY ReadParentsKeeps DEF TreeInv
<1>2. /\ run[r].pc = "parents"
      /\ \/ run'[r].pc = "idle"
         \/ /\ run'[r].pc = "unlock" /\ run'[r].job = run[r].job
            /\ run'[r].children \subseteq run[r].children
      /\ \A s \in Runs \ {r} : run'[s] = run[s]
      /\ UNCHANGED <<status, deps, exempt, usurped>>
  BY DEF TreeInv, GInv, TypeOK, ReadParents, EndRun, IdleRun, history
<1>3. \A s \in Runs : GoesOn(s)
  BY <1>2 DEF GoesOn
<1>4. \A j \in Jobs : StatusFits(j)
  BY <1>2 DEF StatusFits
<1> QED
  BY <1>1, <1>2, <1>3, <1>4, TreeShrinks

\* A child is queued once: the resolver that queues it is the only one that
\* has read it, and reads it no more.
LEMMA UnlockKeepsTree ==
    ASSUME TreeInv, NEW r \in Runs, NEW c \in Jobs, Unlock(r, c)
    PROVE  TreeInv'
<1>1. GInv'
  BY UnlockKeeps DEF TreeInv
<1>2. /\ run[r].pc = "unlock" /\ c \in run[r].children
      /\ run'[r].pc = "unlock" /\ run'[r].job = run[r].job
      /\ run'[r].children = run[r].children \ {c}
      /\ \A s \in Runs \ {r} : run'[s] = run[s]
      /\ status'[c] = "QUEUED" /\ \A k \in Jobs \ {c} : status'[k] = status[k]
      /\ UNCHANGED <<deps, exempt, usurped>>
  BY DEF TreeInv, GInv, TypeOK, Unlock, Remaining, SetStatus, history
<1>3. \A s \in Runs : GoesOn(s)
  BY <1>2 DEF GoesOn
<1>4. ASSUME Tree, Undisturbed' PROVE StatusFits(c)
  <2>1. Undisturbed
    BY <1>2, <1>4 DEF Undisturbed
  <2>2. ASSUME NEW s \in Runs, run[s].pc \in {"parents", "unlock"}, c \in run[s].children
        PROVE  s = r
    <3>1. run[s].job \in deps[c] /\ run[r].job \in deps[c]
      BY <1>2, <2>2 DEF TreeInv, GInv, RunsAreReleased
    <3>2. run[s].job = run[r].job
      BY <1>4, <3>1 DEF Tree
    <3> QED
      BY <1>2, <1>4, <2>1, <2>2, <3>2, ExecutedAlone
  <2>3. \A s \in Runs : run[s].pc # "idle" => run[s].job # c
    BY <1>2, <1>4, <2>1, ExecutedAlone
  <2> QED
    BY <1>2, <2>2, <2>3 DEF StatusFits
<1>5. \A j \in Jobs \ {c} : StatusFits(j)
  BY <1>2 DEF StatusFits
<1> QED
  BY <1>1, <1>2, <1>3, <1>4, <1>5, TreeShrinks

\* A deleted job is neither waiting nor queued.
LEMMA DeleteQueueKeepsTree ==
    ASSUME TreeInv, NEW S \in SUBSET Jobs, DeleteQueue(S)
    PROVE  TreeInv'
<1>1. GInv'
  BY DeleteQueueKeeps DEF TreeInv
<1>2. UNCHANGED <<run, deps, exempt, usurped>>
  BY DEF DeleteQueue
<1>3. \A j \in Jobs : status'[j] = status[j] \/ status'[j] = "DELETED"
  BY DEF DeleteQueue
<1>4. \A s \in Runs : GoesOn(s)
  BY <1>2 DEF GoesOn
<1>5. \A j \in Jobs : StatusFits(j)
  BY <1>3 DEF StatusFits
<1> QED
  BY <1>1, <1>2, <1>3, <1>4, <1>5, TreeShrinks

\* An orphan has no invocation, and it is in flight, so no resolver has it.
LEMMA RequeueKeepsTree ==
    ASSUME TreeInv, NEW p \in Passes, Requeue(p)
    PROVE  TreeInv'
<1>1. GInv'
  BY RequeueKeeps DEF TreeInv
<1> DEFINE S == reaping[p] \ Deleted
<1>2. /\ UNCHANGED <<run, deps, exempt>> /\ usurped' = usurped \cup {j \in S : ~Orphan(j)}
      /\ \A j \in Jobs : status'[j] = IF j \in S THEN "QUEUED" ELSE status[j]
  BY DEF Requeue
<1>3. \A s \in Runs : GoesOn(s)
  BY <1>2 DEF GoesOn
<1>4. ASSUME Tree, Undisturbed', NEW j \in Jobs PROVE StatusFits(j)
  <2>1. CASE j \in S
    <3>1. Undisturbed /\ Orphan(j)
      BY <1>2, <1>4, <2>1 DEF Undisturbed
    <3>2. /\ \A r \in Runs : run[r].pc # "idle" => run[r].job # j
          /\ status[j] \in InFlight
      BY <3>1 DEF Orphan, LiveRuns
    <3>3. \A r \in Runs : run[r].pc \in {"parents", "unlock"} => j \notin run[r].children
      BY <1>4, <3>1, <3>2 DEF TreeInv, ChildrenWait, Undisturbed, InFlight
    <3> QED
      BY <1>2, <3>2, <3>3 DEF StatusFits
  <2>2. CASE j \notin S
    BY <1>2, <2>2 DEF StatusFits
  <2> QED
    BY <2>1, <2>2
<1>5. \A j \in Jobs : status'[j] = "NONE" => status[j] = "NONE"
  BY <1>2
<1> QED
  BY <1>1, <1>2, <1>3, <1>4, <1>5, TreeShrinks

\* A request cancels a job, or releases it and ends what the tree promises.
LEMMA WriteJobKeepsTree ==
    ASSUME TreeInv, NEW q \in Requests, WriteJob(q)
    PROVE  TreeInv'
<1>1. GInv'
  BY WriteJobKeeps DEF TreeInv
<1>2. UNCHANGED <<run, deps, usurped>> /\ request[q].pc = "write" /\ request[q].job \in Jobs
  BY DEF TreeInv, GInv, TypeOK, WriteJob, history, Existing
<1>3. \A s \in Runs : GoesOn(s)
  BY <1>2 DEF GoesOn
<1>4. CASE request[q].op = "cancel"
  <2>1. status' = [status EXCEPT ![request[q].job] = "CANCELLED"] /\ exempt' = exempt
    BY <1>4 DEF WriteJob, SetStatus
  <2>2. \A j \in Jobs : status'[j] = status[j] \/ status'[j] = "CANCELLED"
    BY <2>1 DEF TreeInv, GInv, TypeOK
  <2>3. \A j \in Jobs : StatusFits(j)
    BY <2>2 DEF StatusFits
  <2> QED
    BY <1>1, <1>2, <1>3, <2>1, <2>2, <2>3, TreeShrinks
<1>5. CASE request[q].op # "cancel"
  <2>1. /\ status' = [status EXCEPT ![request[q].job] = "QUEUED"]
        /\ exempt' = exempt \cup {request[q].job}
    BY <1>5 DEF WriteJob, SetStatus
  <2>2. \A j \in Jobs : status'[j] = status[j] \/ status'[j] = "QUEUED"
    BY <2>1 DEF TreeInv, GInv, TypeOK
  <2>3. ~Undisturbed'
    BY <2>1 DEF Undisturbed
  <2> QED
    BY <1>1, <1>2, <1>3, <2>1, <2>2, <2>3, TreeShrinks
<1> QED
  BY <1>4, <1>5

\* Every step preserves the invariant of trees.
LEMMA NextTree == TreeInv /\ [Next]_vars => TreeInv'
<1> SUFFICES ASSUME TreeInv, [Next]_vars PROVE TreeInv'
  OBVIOUS
<1>1. GInv'
  BY NextGInv DEF TreeInv
<1>2. CASE UNCHANGED <<status, deps, run, exempt, usurped>>
  BY <1>1, <1>2 DEF TreeInv, OneInvocation, ChildrenWait, Tree
<1>3. ASSUME NEW r \in Runs, Start(r) \/ Complete(r) PROVE TreeInv'
  <2>1. /\ run[r].pc # "idle" /\ UNCHANGED <<deps, exempt, usurped>>
        /\ \E p \in {"handler", "children"} : run' = [run EXCEPT ![r].pc = p]
        /\ \E x \in {"RUNNING", "COMPLETED"} : status' = [status EXCEPT ![run[r].job] = x]
    BY <1>3 DEF Start, Complete, SetStatus, history
  <2> QED
    BY <1>1, <2>1, TreeGoesOn
<1>4. ASSUME NEW r \in Runs,
             Fail(r) \/ UnlockFails(r) \/ ResolveFails(r) \/ StartRejected(r) \/ JobGone(r)
             \/ Resolved(r) \/ Crash(r)
      PROVE  TreeInv'
  <2>1. /\ run[r].pc # "idle" /\ UNCHANGED <<deps, exempt, usurped>>
        /\ run' = [run EXCEPT ![r] = IdleRun]
    BY <1>4 DEF Fail, UnlockFails, ResolveFails, StartRejected, JobGone, Resolved, Crash, BreakOff,
                Resolving, EndRun, history
  <2>2. \/ UNCHANGED status
        \/ \E x \in {"QUEUED", "DEAD_LETTERED"} : status' = [status EXCEPT ![run[r].job] = x]
    BY <1>4 DEF Fail, UnlockFails, ResolveFails, StartRejected, JobGone, Resolved, Crash, BreakOff,
                SetStatus, history
  <2>3. run[r].job \in Jobs /\ status[run[r].job] \in JobStatus \cup {"DELETED"}
    BY <2>1 DEF TreeInv, GInv, TypeOK, Existing
  <2>4. status = [status EXCEPT ![run[r].job] = status[run[r].job]]
    BY DEF TreeInv, GInv, TypeOK
  <2>5. \E x \in JobStatus \cup {"DELETED"} : status' = [status EXCEPT ![run[r].job] = x]
    BY <2>2, <2>3, <2>4 DEF JobStatus
  <2> QED
    BY <1>1, <2>1, <2>5, TreeEndRun
<1>5. ASSUME NEW r \in Runs, Resolve(r) PROVE TreeInv'
  BY <1>4, <1>5, ReadChildrenKeepsTree, ReadParentsKeepsTree, UnlockKeepsTree DEF Resolve
<1>6. ASSUME NEW r \in Runs, Execute(r) PROVE TreeInv'
  BY <1>3, <1>4, <1>5, <1>6 DEF Execute
<1>7. ASSUME NEW q \in Requests, NEW j \in Jobs, NEW op \in {"cancel", "retry"}, ReadJob(q, op, j)
      PROVE  TreeInv'
  BY <1>2, <1>7 DEF ReadJob, history
<1>8. ASSUME NEW q \in Requests, WriteFails(q) PROVE TreeInv'
  BY <1>2, <1>8 DEF WriteFails, history
<1>9. ASSUME NEW p \in Passes, NEW S \in SUBSET Jobs, FindOrphans(p, S) PROVE TreeInv'
  BY <1>2, <1>9 DEF FindOrphans, history
<1>10. CASE UNCHANGED vars
  BY <1>2, <1>10 DEF vars, history
<1> QED
  BY <1>4, <1>6, <1>7, <1>8, <1>9, <1>10, CreateKeepsTree, DeleteQueueKeepsTree,
     ClaimKeepsTree, RequeueKeepsTree, WriteJobKeepsTree DEF Next

\* In a tree no job is executed by two invocations at once, as long as nobody
\* retries a job by hand and no reaper queues a job that is no orphan: neither
\* the resolvers nor crashes, reapers that overlap or deletions break that.
THEOREM OnceInTrees == Spec => []TreesRunOnce
<1>1. Init => TreeInv
  BY InitTree
<1>2. TreeInv /\ [Next]_vars => TreeInv'
  BY NextTree
<1>3. TreeInv => TreesRunOnce
  BY DEF TreeInv, OneInvocation, TreesRunOnce, LiveRuns
<1> QED
  BY <1>1, <1>2, <1>3, PTL DEF Spec
=============================================================================
