----------------------------- MODULE MCSession -----------------------------
(***************************************************************************)
(* Session for TLC: one user has an account, another has not.              *)
(***************************************************************************)
EXTENDS Session

CONSTANTS u1, o1

OneAccount == [u \in Users |-> IF u = u1 THEN o1 ELSE NULL]
=============================================================================
