-------------------------- MODULE MCCronScheduler --------------------------
(***************************************************************************)
(* CronScheduler for TLC: a schedule of every time unit, and one of every  *)
(* second unit that a request creates.                                     *)
(***************************************************************************)
EXTENDS CronScheduler

CONSTANTS s1, s2

EachUnitAndEachSecond == [s \in Schedules |-> IF s = s1 THEN 1 ELSE 2]
=============================================================================
