---------------------------- MODULE CircuitBreaker ----------------------------
(***************************************************************************)
(* One entry of the per-backend circuit breaker (circuit-breaker.ts) and   *)
(* the three calls that read or change it.  An entry that does not exist   *)
(* yet in the code is a closed one without failures.  `aged' stands for    *)
(* `resetTimeoutMs has passed since lastFailureTime'.                      *)
(***************************************************************************)
EXTENDS Naturals

CONSTANTS
  FailureThreshold,  \* failures that open a closed circuit
  SuccessThreshold   \* successes that close a half-open one, and its probe cap

NewEntry == [state |-> "closed", failures |-> 0, successes |-> 0,
             probes |-> 0, aged |-> FALSE]

\* What shouldAttempt answers; an open circuit admits the call that finds
\* the reset timeout elapsed.
ShouldAttempt(e) ==
  \/ e.state = "closed"
  \/ e.state = "open" /\ e.aged
  \/ e.state = "half-open" /\ e.probes < SuccessThreshold

\* The entry after shouldAttempt admitted a call: the call that turns the
\* circuit half-open takes the first probe slot.
Attempted(e) ==
  CASE e.state = "closed"    -> e
    [] e.state = "open"      -> [e EXCEPT !.state = "half-open",
                                          !.successes = 0, !.probes = 1]
    [] e.state = "half-open" -> [e EXCEPT !.probes = @ + 1]

\* Mutation: a success counts, but its probe slot stays taken.
RecordSuccessKeepsSlot(e) ==
  CASE e.state = "half-open" ->
         IF e.successes + 1 >= SuccessThreshold
         THEN [NewEntry EXCEPT !.aged = e.aged]
         ELSE [e EXCEPT !.successes = @ + 1]
    [] e.state = "closed"    -> [e EXCEPT !.failures = 0]
    [] e.state = "open"      -> e

\* recordSuccess: releases a probe slot and closes the circuit after enough
\* successes; the success of a call that outlived the opening changes nothing.
RecordSuccess(e) ==
  CASE e.state = "half-open" ->
         IF e.successes + 1 >= SuccessThreshold
         THEN [NewEntry EXCEPT !.aged = e.aged]
         ELSE [e EXCEPT !.successes = @ + 1,
                        !.probes = IF @ = 0 THEN 0 ELSE @ - 1]
    [] e.state = "closed"    -> [e EXCEPT !.failures = 0]
    [] e.state = "open"      -> e

\* recordFailure: one failure reopens a half-open circuit; a failure in an
\* open one still restarts the reset timeout.  Failures are counted up to
\* FailureThreshold, beyond which the count is never told apart.
RecordFailure(e) ==
  LET n == IF e.failures < FailureThreshold THEN e.failures + 1
                                            ELSE FailureThreshold
  IN CASE e.state = "half-open" ->
            [e EXCEPT !.state = "open", !.failures = n, !.successes = 0,
                      !.probes = 0, !.aged = FALSE]
       [] e.state = "closed" ->
            [e EXCEPT !.state = IF n >= FailureThreshold THEN "open" ELSE @,
                      !.failures = n, !.aged = FALSE]
       [] e.state = "open" -> [e EXCEPT !.failures = n, !.aged = FALSE]
=============================================================================
