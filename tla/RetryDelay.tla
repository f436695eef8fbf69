----------------------------- MODULE RetryDelay -----------------------------
(***************************************************************************)
(* Retry policies and the delay that Executor.calculateRetryDelay derives  *)
(* from them, in milliseconds. Multipliers are whole numbers here, the     *)
(* random factor of the jitter is a number of percent.                     *)
(***************************************************************************)
EXTENDS Integers

Lesser(a, b) == IF a < b THEN a ELSE b

\* What a policy may be, with weaker bounds than the API checks.
Policies == [strategy : {"FIXED", "LINEAR", "EXPONENTIAL"}, maxRetries : Nat, initial : Nat,
             max : Nat, multiplier : Nat \ {0}, jitter : BOOLEAN]

\* The policies that the first list request of a project provisions.
StandardPolicies ==
    [exponential |-> [strategy |-> "EXPONENTIAL", maxRetries |-> 3, initial |-> 1000,
                      max |-> 30000, multiplier |-> 2, jitter |-> TRUE],
     linear      |-> [strategy |-> "LINEAR", maxRetries |-> 4, initial |-> 2000,
                      max |-> 15000, multiplier |-> 1, jitter |-> FALSE],
     fixed       |-> [strategy |-> "FIXED", maxRetries |-> 2, initial |-> 5000,
                      max |-> 5000, multiplier |-> 1, jitter |-> FALSE]]

\* jobs.maxRetries where nothing else is said.
DefaultMaxRetries == 3

\* The delay before the cap, after the given number of attempts.
RawDelay(p, attempt) ==
    CASE p.strategy = "FIXED"  -> p.initial
      [] p.strategy = "LINEAR" -> p.initial * attempt
      [] OTHER -> p.initial * p.multiplier ^ (attempt - 1)

CappedDelayBug(p, attempt) == RawDelay(p, attempt)
CappedDelay(p, attempt) == Lesser(RawDelay(p, attempt), p.max)

\* Math.round(delay * percent / 100)
Jittered(delay, percent) == (2 * delay * percent + 100) \div 200

Delay(p, attempt, percent) ==
    IF p.jitter THEN Jittered(CappedDelay(p, attempt), percent) ELSE CappedDelay(p, attempt)

\* Without a policy: exponential, from a second to a minute.
DefaultDelay(attempt) == Lesser(1000 * 2 ^ (attempt - 1), 60000)
=============================================================================
