---------------------------- MODULE MCJobEngine ----------------------------
(***************************************************************************)
(* Instances of JobEngine, and a claim of the documentation that JobEngine *)
(* is checked against.                                                     *)
(***************************************************************************)
EXTENDS JobEngine, TLC

CONSTANTS j1, j2

\* No job depends on another; the second job depends on the first.
NoParents == [j \in Jobs |-> {}]
Chain == [j \in Jobs |-> IF j = j2 THEN {j1} ELSE {}]

\* Workers, where all of them may crash, invocations, passes and requests are
\* interchangeable: no constant singles one out.
AllInterchangeable ==
    Permutations(Workers) \cup Permutations(Runs)
        \cup Permutations(Passes) \cup Permutations(Requests)

\* README.md, docs/api-reference.md: jobs can be delayed. A delayed job
\* leaves SCHEDULED once its time has come.
DelayedIsQueued ==
    \A j \in Delayed : status[j] = "SCHEDULED" /\ due[j] ~> status[j] # "SCHEDULED"
=============================================================================
