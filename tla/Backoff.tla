------------------------------ MODULE Backoff -------------------------------
(***************************************************************************)
(* Backoff (backoff.h): the wait before the next attempt to connect, in    *)
(* units of time.  rand01() is any number from 0 up to 1.                  *)
(***************************************************************************)
EXTENDS Integers

CONSTANTS MinAmount, MaxAmount

ASSUME BackoffAssumption ==
    /\ MinAmount \in Nat /\ MaxAmount \in Nat
    /\ 0 < MinAmount /\ MinAmount <= MaxAmount

\* What Backoff(min, max) and reset() set `current` to.
Reset == MinAmount

\* (int64_t)(current * 2.0 * rand01())
Delays(current) == 0 .. 2 * current - 1

\* Mutant of Capped: the maximum is forgotten.
CappedNot(amount) == amount
Capped(amount) == IF amount <= MaxAmount THEN amount ELSE MaxAmount

\* The values nextDelay() may return and set `current` to.
NextDelays(current) == {Capped(current + d) : d \in Delays(current)}
=============================================================================
