-------------------------- MODULE ExecutionLedger --------------------------
(***************************************************************************)
(* What the scheduler promises about the history of a job, without the     *)
(* workers, reapers and requests that write it: the attempts of a job are  *)
(* a sequence that is only appended to, an attempt is finished at most     *)
(* once as a success and then, perhaps, corrected to a failure, and a      *)
(* failed attempt beyond the retry budget is quarantined at most once.     *)
(***************************************************************************)
EXTENDS Naturals, Sequences

CONSTANTS Jobs, Workers, MaxRetries

VARIABLES
    executions,  \* the attempts of a job, in the order of their numbers
    dlq          \* the dead letter entries of a job, in the order of creation

vars == <<executions, dlq>>

Init ==
    /\ executions = [j \in Jobs |-> << >>]
    /\ dlq = [j \in Jobs |-> << >>]

Begin(j, w) ==
    /\ executions' = [executions EXCEPT ![j] =
                          Append(@, [worker |-> w, status |-> "RUNNING"])]
    /\ UNCHANGED dlq

Succeed(j, n) ==
    /\ executions[j][n].status = "RUNNING"
    /\ executions' = [executions EXCEPT ![j][n].status = "SUCCESS"]
    /\ UNCHANGED dlq

Fail(j, n) ==
    /\ executions[j][n].status # "FAILED"
    /\ executions' = [executions EXCEPT ![j][n].status = "FAILED"]
    /\ UNCHANGED dlq

Quarantined(j, n) == \E i \in DOMAIN dlq[j] : dlq[j][i].totalAttempts = n

Quarantine(j, n) ==
    /\ n > MaxRetries
    /\ executions[j][n].status = "FAILED"
    /\ ~Quarantined(j, n)
    /\ dlq' = [dlq EXCEPT ![j] = Append(@, [totalAttempts |-> n, replayed |-> FALSE])]
    /\ UNCHANGED executions

Replay(j, i) ==
    /\ dlq' = [dlq EXCEPT ![j][i].replayed = TRUE]
    /\ UNCHANGED executions

Next ==
    \E j \in Jobs :
        \/ \E w \in Workers : Begin(j, w)
        \/ \E n \in DOMAIN executions[j] : Succeed(j, n) \/ Fail(j, n) \/ Quarantine(j, n)
        \/ \E i \in DOMAIN dlq[j] : Replay(j, i)

Spec == Init /\ [][Next]_vars
=============================================================================
