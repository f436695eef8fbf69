-------------------------- MODULE DependencyOrder --------------------------
(***************************************************************************)
(* What a workflow promises, without the workers that keep the promise: a  *)
(* job is executed only after each of its parents has completed or was     *)
(* removed, unless somebody asked for it by hand; a job completes only if  *)
(* it was executed.                                                        *)
(***************************************************************************)
CONSTANT Jobs

VARIABLES
    parents,  \* the jobs a job depends on
    started,  \* the jobs that were executed at least once
    done,     \* the jobs that completed at least once
    exempt,   \* the jobs that somebody asked to be run again
    removed   \* the jobs that were deleted

vars == <<parents, started, done, exempt, removed>>

Init ==
    /\ parents = [j \in Jobs |-> {}]
    /\ started = {}
    /\ done = {}
    /\ exempt = {}
    /\ removed = {}

\* A job is declared with its parents before anything happens to it.
Declare(j, P) ==
    /\ j \notin started
    /\ parents' = [parents EXCEPT ![j] = P]
    /\ UNCHANGED <<started, done, exempt, removed>>

Start(j) ==
    /\ parents[j] \subseteq done \cup removed \/ j \in exempt
    /\ started' = started \cup {j}
    /\ UNCHANGED <<parents, done, exempt, removed>>

Finish(j) ==
    /\ j \in started
    /\ done' = done \cup {j}
    /\ UNCHANGED <<parents, started, exempt, removed>>

Exempt(j) ==
    /\ exempt' = exempt \cup {j}
    /\ UNCHANGED <<parents, started, done, removed>>

\* Jobs are removed, and nobody waits for them any longer.
Remove(S) ==
    /\ removed' = removed \cup S
    /\ UNCHANGED <<parents, started, done, exempt>>

Next ==
    \/ \E j \in Jobs :
          \/ \E P \in SUBSET Jobs : Declare(j, P)
          \/ Start(j) \/ Finish(j) \/ Exempt(j)
    \/ \E S \in SUBSET Jobs : Remove(S)

Spec == Init /\ [][Next]_vars
=============================================================================
