------------------------------ MODULE MCPoller ------------------------------
(***************************************************************************)
(* Poller on two queues: one of a high priority with two jobs, one of a    *)
(* low priority with one.                                                  *)
(***************************************************************************)
EXTENDS Poller, TLC

CONSTANTS j1, j2, j3, high, low

MCJobs == {j1, j2, j3}
MCQueues == {high, low}
MCQueueOf == [j \in MCJobs |-> IF j = j3 THEN low ELSE high]
MCTurn == [j \in MCJobs |-> IF j = j2 THEN 2 ELSE 1]
MCPriority == [q \in MCQueues |-> IF q = high THEN 2 ELSE 1]

\* No constant singles a worker out.
WorkersAlike == Permutations(Workers)
=============================================================================
