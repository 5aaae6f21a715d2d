-------------------------------- MODULE Job --------------------------------
(***************************************************************************)
(* What the dispatcher relies on when it executes a request: the job runs, *)
(* may wait and run again a bounded number of times, and ends.             *)
(* Dispatcher takes these steps as TakeSchedule, WaitForRetry, RetryJob and*)
(* Finish; Headless shows that execute_headless takes no others.           *)
(***************************************************************************)
EXTENDS Naturals

CONSTANT MaxRetry

VARIABLES phase,    \* "run", "retry" or "ended"
          retried   \* retries so far

Init == phase = "run" /\ retried = 0

WaitForRetry ==
  /\ phase = "run" /\ phase' = "retry"
  /\ retried < MaxRetry /\ retried' = retried + 1

RetryJob == phase = "retry" /\ phase' = "run" /\ UNCHANGED retried

Finish == phase = "run" /\ phase' = "ended" /\ UNCHANGED retried

Next == WaitForRetry \/ RetryJob \/ Finish

Spec == Init /\ [][Next]_<<phase, retried>>
=============================================================================
