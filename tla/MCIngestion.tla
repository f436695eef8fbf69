---------------------------- MODULE MCIngestion ----------------------------
(***************************************************************************)
(* Ingestion for TLC.                                                      *)
(***************************************************************************)
EXTENDS Ingestion

CONSTANTS k1, k2

\* An item with the key that single jobs use, and one without.
OneBatch == {<<k1, NULL>>}

\* The least bounds that CreateRetryPolicySchema admits for the maximum.
Steep == [strategy |-> "EXPONENTIAL", maxRetries |-> 2, initial |-> 600,
          max |-> 1000, multiplier |-> 3, jitter |-> TRUE]
=============================================================================
