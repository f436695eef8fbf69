------------------------------ MODULE MCViews ------------------------------
(***************************************************************************)
(* Two projects; the items are in the first.                               *)
(***************************************************************************)
EXTENDS Views, TLC

CONSTANTS p1, p2

MCHome == [i \in Items |-> p1]

\* Bounds: a request fails or others change a row, not both, and the user then
\* does two things instead of three. No fairness condition is about these steps.
OneDisturbance ==
    /\ others + failures <= 1
    /\ others + failures = 1 => user <= 2
=============================================================================
