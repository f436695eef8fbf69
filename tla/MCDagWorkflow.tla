---------------------------- MODULE MCDagWorkflow ----------------------------
(***************************************************************************)
(* Three jobs for DagWorkflow, which are inserted in a fixed order.        *)
(***************************************************************************)
EXTENDS DagWorkflow

CONSTANTS j1, j2, j3
MCJobs == {j1, j2, j3}

\* Jobs that do not exist yet are interchangeable, and a child is inserted after
\* its parents: every workflow is, but for the names of its jobs, one that this
\* constraint admits. No fairness condition is about an insertion.
InsertedInOrder ==
    /\ status[j2] # "NONE" => status[j1] # "NONE"
    /\ status[j3] # "NONE" => status[j2] # "NONE"

\* A job that has nothing to do with the others adds nothing.
Connected ==
    status[j3] # "NONE" => deps[j3] # {} /\ (deps[j2] # {} \/ deps[j3] = {j1, j2})

\* A request is combined with no other event than the deletion of its job.
FewEvents ==
    \A q \in Requests : request[q].pc = "new" \/ events = 0 \/ request[q].job \in Deleted
=============================================================================
