------------------------------ MODULE Headless ------------------------------
(***************************************************************************)
(* execute_headless of src/src/app/headless.py: one logical execution, with*)
(* the wait for its turn, the attempts, the wait before a retry and the    *)
(* record of the result.  mode tells who calls it:                         *)
(*   "queued"      with a RunQueue: it waits for its turn before each      *)
(*                 attempt, and its processing has a deadline; its tests   *)
(*                 call it so, the shipped program does not (main.py:1355, *)
(*                 1509);                                                  *)
(*   "dispatched"  by the dispatcher of main._run_cli_mode, which has the  *)
(*                 guards already and passes no queue;                     *)
(*   "guarded"     by --run-once, with the run guard alone.                *)
(* Time is a counter that the waits and the attempts advance.  The runner  *)
(* is modelled by the documents that it saves, finds saved and fails on.   *)
(***************************************************************************)
EXTENDS Naturals, Sequences, SequencesExt, FiniteSets

CONSTANTS Modes,       \* the callers considered
          Doc,         \* documents that match
          RetryCount,  \* RetryPolicy.retry_count
          RetryDelay,  \* interval_minutes
          Limit,       \* processing_timeout_seconds
          QueueLimit,  \* queue_wait_timeout_seconds
          Overshoot,   \* how late the code may notice that a time has come
          Longest,     \* bound: duration of an attempt
          MaxFault,    \* bound: failures of sink, callback and queue
          None

Kind == {"transient", "lasting"}

ASSUME HeadlessAssumption ==
  /\ Modes \subseteq {"queued", "dispatched", "guarded"} /\ IsFiniteSet(Doc)
  /\ RetryCount \in Nat /\ RetryDelay \in Nat /\ Limit \in Nat \ {0}
  /\ QueueLimit \in Nat /\ Overshoot \in Nat /\ Longest \in Nat /\ MaxFault \in Nat
  /\ None \notin Nat \cup {"busy", "queue_timeout", "cancelled"}

VARIABLES mode, step, clock,
          deadline,   \* processing_deadline
          retries,    \* retries_done
          attempts,   \* attempt_results
          waited,     \* queue_wait_seconds
          waiting,    \* TRUE: the last retry_wait_callback said so
          verdict,    \* what the control path records: None is the last attempt
          records,    \* what the sink received
          before,     \* documents saved before this execution
          store,      \* documents saved now
          first,      \* history: when the first attempt started
          latest,     \* history: when the latest attempt started
          faults

vars == <<mode, step, clock, deadline, retries, attempts, waited, waiting,
          verdict, records, before, store, first, latest, faults>>
timeVars == <<clock, deadline, first, latest>>
resultVars == <<attempts, verdict, records, before, store>>

Init ==
  /\ mode \in Modes
  /\ step = "start"
  /\ clock = 0
  /\ deadline = None
  /\ retries = 0
  /\ attempts = <<>>
  /\ waited = 0
  /\ waiting = FALSE
  /\ verdict = None
  /\ records = <<>>
  /\ before \in SUBSET Doc
  /\ store = before
  /\ first = None
  /\ latest = None
  /\ faults = 0

Fault == faults < MaxFault /\ faults' = faults + 1

NoFault == UNCHANGED faults

-----------------------------------------------------------------------------
(* Results of the runner *)

\* is_transient_failure: tasks are the error codes of each failed task, reasons
\* the codes in the message, text whether its wording speaks of the network.
IsTransient(outcome, tasks, reasons, text) ==
  LET codes == UNION tasks \cup reasons IN
  /\ outcome \in {"failed", "partial"}
  /\ {} \notin tasks
  /\ IF codes # {} THEN "lasting" \notin codes ELSE text

\* What the execution keeps of a RunResult: documents in place of their counts.
Attempt(outcome, why, ok, failed) ==
  [outcome |-> outcome, transient |-> why.transient, lasting |-> why.lasting,
   late |-> FALSE, saved |-> ok \ store, reused |-> ok \cap store, failed |-> failed]

Why == [transient : BOOLEAN, lasting : BOOLEAN]
NoReason == [transient |-> FALSE, lasting |-> FALSE]

\* run_timeout_result of a result, and without one.
TimedOutAfter(a) ==
  [a EXCEPT !.outcome = "failed", !.transient = FALSE, !.lasting = FALSE, !.late = TRUE]
TimedOut == TimedOutAfter(Attempt("failed", NoReason, {}, {}))

\* Why a run with or without failed documents may have failed.
Reasons ==
  [some \in BOOLEAN |->
    {why \in Why :
       \E outcome \in {"failed", "partial"},
          tasks \in IF some THEN SUBSET SUBSET Kind \ {{}} ELSE {{}},
          reasons \in SUBSET Kind, text \in BOOLEAN :
         /\ why.transient = IsTransient(outcome, tasks, reasons, text)
         /\ why.lasting = ("lasting" \in UNION tasks \cup reasons)}]

Outcome == {"success", "failed", "partial", "cancelled"}

\* What a run may return: a result for the documents, some of which may have
\* failed, or been missed by the search.  Only when the deadline has passed may
\* it have been cancelled on the way.
RunnerReturns(late, outcome, why, ok, failed) ==
  \/ outcome = "success" /\ why = NoReason /\ ok = Doc /\ failed = {}
  \/ outcome \in {"failed", "partial"} /\ why \in Reasons[failed # {}] /\ ok \cap failed = {}
  \/ outcome = "cancelled" /\ late /\ why = NoReason /\ failed = {}

-----------------------------------------------------------------------------
(* The record *)

\* The documents that the attempts have saved, added up.
NewCount(results) ==
  LET total[n \in 0 .. Len(results)] ==
        IF n = 0 THEN 0 ELSE total[n - 1] + Cardinality(results[n].saved)
  IN  total[Len(results)]

\* _first_reason_code: that of a failed document comes first.
ReasonOf(a) ==
  IF a.failed # {} THEN "document" ELSE IF a.late THEN "RUN_TIMEOUT" ELSE a.outcome

\* _record_from_result
RecordOf(results) ==
  LET prior == NewCount(Front(results))
      reused == Cardinality(Last(results).reused)
  IN [result |-> Last(results).outcome, reason |-> ReasonOf(Last(results)),
      new |-> NewCount(results),
      existing |-> IF reused > prior THEN reused - prior ELSE 0,
      failed |-> Cardinality(Last(results).failed)]

\* control_result
ControlRecord ==
  [result |-> verdict, reason |-> verdict, new |-> 0, existing |-> 0, failed |-> 0]

\* The record goes to the sink, whose failure is logged and swallowed.
Write ==
  /\ step = "write"
  /\ \/ /\ records' = Append(records, IF verdict = None THEN RecordOf(attempts)
                                                        ELSE ControlRecord)
        /\ NoFault
     \/ UNCHANGED records /\ Fault
  /\ step' = "done"
  /\ UNCHANGED <<mode, timeVars, retries, attempts, waited, waiting, verdict,
                 before, store>>

Conclude(result) ==
  /\ verdict' = result
  /\ step' = "write"

-----------------------------------------------------------------------------
(* The turn of an attempt *)

\* Where an attempt begins: only a queued execution waits for its turn.
NextAttempt == IF mode = "queued" THEN "queue" ELSE "attempt"

\* schedule_lease of the queue, the guard, or the guard that is taken already.
Begin ==
  /\ step = "start"
  /\ \/ step' = NextAttempt /\ UNCHANGED verdict
     \/ mode # "dispatched" /\ Conclude("busy")
  /\ NoFault
  /\ UNCHANGED <<mode, timeVars, retries, attempts, waited, waiting, records,
                 before, store>>

\* What is left of the processing time limits the wait of a retry.
WaitLimit ==
  IF deadline = None \/ deadline >= clock + QueueLimit
  THEN QueueLimit
  ELSE deadline - clock

Expired == deadline # None /\ clock >= deadline

\* wait_for_turn is not called when the deadline passed meanwhile.
ExpireBeforeTurn ==
  /\ step = "queue"
  /\ Expired
  /\ attempts' = Append(attempts, TimedOut)
  /\ step' = "write"
  /\ NoFault
  /\ UNCHANGED <<mode, timeVars, retries, waited, waiting, verdict, records,
                 before, store>>

\* The turn comes after some time.  The state lock may make a poll overshoot the
\* limit; then the deadline may have passed, and the runner is not called.
GetTurn ==
  /\ step = "queue"
  /\ ~Expired
  /\ \E d \in 0 .. WaitLimit + Overshoot :
       /\ clock' = clock + d
       /\ waited' = waited + d
  /\ deadline' = IF deadline = None THEN clock' + Limit ELSE deadline
  /\ IF clock' >= deadline'
     THEN step' = "write" /\ attempts' = Append(attempts, TimedOut)
     ELSE step' = "attempt" /\ UNCHANGED attempts
  /\ NoFault
  /\ UNCHANGED <<mode, first, latest, retries, waiting, verdict, records,
                 before, store>>

\* No turn within the limit.
TurnTimesOut ==
  /\ step = "queue"
  /\ ~Expired
  /\ \E d \in WaitLimit .. WaitLimit + Overshoot :
       /\ clock' = clock + d
       /\ waited' = waited + d
  /\ IF deadline # None /\ clock' >= deadline
     THEN /\ attempts' = Append(attempts, TimedOut)
          /\ step' = "write"
          /\ UNCHANGED verdict
     ELSE Conclude("queue_timeout") /\ UNCHANGED attempts
  /\ NoFault
  /\ UNCHANGED <<mode, deadline, first, latest, retries, waiting, records,
                 before, store>>

\* RunQueueError
TurnFails ==
  /\ step = "queue"
  /\ ~Expired
  /\ Conclude("queue_timeout")
  /\ Fault
  /\ UNCHANGED <<mode, timeVars, retries, attempts, waited, waiting, records,
                 before, store>>

-----------------------------------------------------------------------------
(* Attempts and retries *)

\* Mutant: a result is kept although it came after the deadline.
NormaliseNot(a, late) == a

\* A result that comes after the deadline becomes RUN_TIMEOUT.
Normalise(a, late) == IF late THEN TimedOutAfter(a) ELSE a

\* The runner, for as long as it takes.
Run ==
  /\ step = "attempt"
  /\ \E d \in 0 .. Longest :
       LET late == deadline # None /\ clock + d >= deadline IN
       /\ clock' = clock + d
       /\ \E outcome \in Outcome, why \in Why, ok \in SUBSET Doc, failed \in SUBSET Doc :
            /\ RunnerReturns(late, outcome, why, ok, failed)
            /\ store' = store \cup ok
            /\ attempts' = Append(attempts, Normalise(Attempt(outcome, why, ok, failed), late))
  /\ first' = IF first = None THEN clock ELSE first
  /\ latest' = clock
  /\ step' = "decide"
  /\ NoFault
  /\ UNCHANGED <<mode, deadline, retries, waited, waiting, verdict, records,
                 before>>

\* An exception of a guard, the queue or the runner; the application service
\* lets none out that comes from the download itself.
Raise ==
  /\ step \in {"start", "queue", "attempt"}
  /\ attempts' = Append(attempts, Attempt("failed", NoReason, {}, {}))
  /\ IF step = "attempt"
     THEN latest' = clock /\ first' = IF first = None THEN clock ELSE first
     ELSE UNCHANGED <<first, latest>>
  /\ step' = "write"
  /\ Fault
  /\ UNCHANGED <<mode, clock, deadline, retries, waited, waiting, verdict,
                 records, before, store>>

\* The last attempt was the last one.
Stop ==
  /\ step = "decide"
  /\ retries >= RetryCount \/ ~Last(attempts).transient
  /\ step' = "write"
  /\ NoFault
  /\ UNCHANGED <<mode, timeVars, retries, resultVars, waited, waiting>>

\* Mutant: the number of retries has no limit.
RetryUnlimited ==
  /\ step = "decide"
  /\ Last(attempts).transient
  /\ retries <= RetryCount
  /\ retries' = retries + 1
  /\ waiting' = TRUE
  /\ step' = "sleep"
  /\ NoFault
  /\ UNCHANGED <<mode, timeVars, resultVars, waited>>

\* retry_wait_callback(True), whose failure is logged.
Retry ==
  /\ step = "decide"
  /\ retries < RetryCount /\ Last(attempts).transient
  /\ retries' = retries + 1
  /\ \/ waiting' = TRUE /\ NoFault
     \/ UNCHANGED waiting /\ Fault
  /\ step' = "sleep"
  /\ UNCHANGED <<mode, timeVars, resultVars, waited>>

\* The wait before a retry ends at the deadline.
Delay ==
  IF deadline = None \/ deadline >= clock + RetryDelay THEN RetryDelay
  ELSE IF deadline > clock THEN deadline - clock ELSE 0

\* The wait ends, or is interrupted; either way retry_wait_callback(False).
WakeUp ==
  /\ step = "sleep"
  /\ \/ clock' = clock + Delay /\ step' = "awake"
     \/ \E d \in 0 .. Delay : clock' = clock + d /\ step' = "stopped"
  /\ \/ waiting' = FALSE /\ NoFault
     \/ UNCHANGED waiting /\ Fault
  /\ UNCHANGED <<mode, deadline, first, latest, retries, resultVars, waited>>

\* The retry begins, unless the deadline has come; it may come meanwhile.
StartRetry ==
  /\ step = "awake"
  /\ IF Expired
     THEN /\ step' = "write"
          /\ attempts' = Append(attempts, TimedOut)
          /\ UNCHANGED clock
     ELSE /\ step' = NextAttempt
          /\ \E d \in 0 .. Overshoot : clock' = clock + d
          /\ UNCHANGED attempts
  /\ NoFault
  /\ UNCHANGED <<mode, deadline, first, latest, retries, waited, waiting,
                 verdict, records, before, store>>

\* KeyboardInterrupt, which may leave documents of the attempt behind.
Interrupt ==
  /\ step \in {"start", "queue", "attempt"}
  /\ Conclude("cancelled")
  /\ \E saved \in SUBSET Doc :
       /\ step # "attempt" => saved = {}
       /\ store' = store \cup saved
  /\ NoFault
  /\ UNCHANGED <<mode, timeVars, retries, attempts, waited, waiting, records,
                 before>>

\* ... or one that came during the wait before a retry.
Interrupted ==
  /\ step = "stopped"
  /\ Conclude("cancelled")
  /\ NoFault
  /\ UNCHANGED <<mode, timeVars, retries, attempts, waited, waiting, records,
                 before, store>>

\* The execution has returned.
Done == step = "done" /\ UNCHANGED vars

Steps ==
  \/ Begin \/ ExpireBeforeTurn \/ GetTurn \/ TurnTimesOut \/ TurnFails
  \/ Run \/ Raise \/ Stop \/ Retry \/ WakeUp \/ StartRetry
  \/ Interrupted \/ Write

Next == Steps \/ Interrupt \/ Done

Spec == Init /\ [][Next]_vars

\* The execution is one thread that always goes on: its waits are bounded, and
\* the runner returns (its requests have time-outs).  Nobody need interrupt it.
FairSpec == Spec /\ WF_vars(Steps)

-----------------------------------------------------------------------------
(* Properties *)

TypeOK ==
  /\ mode \in Modes
  /\ step \in {"start", "queue", "attempt", "decide", "sleep", "awake",
               "stopped", "write", "done"}
  /\ clock \in Nat /\ waited \in Nat
  /\ deadline \in Nat \cup {None}
  /\ first \in Nat \cup {None} /\ latest \in Nat \cup {None}
  /\ retries \in 0 .. RetryCount
  /\ waiting \in BOOLEAN
  /\ verdict \in {None, "busy", "queue_timeout", "cancelled"}
  /\ before \subseteq Doc /\ store \subseteq Doc
  /\ faults \in 0 .. MaxFault
  /\ Len(records) <= 1

\* The processing limit: no attempt begins when the time since the beginning of
\* the first one has reached the limit.
WithinProcessingLimit ==
  latest # None => latest < first + Limit

\* From its beginning to its record a queued execution takes no longer than the
\* wait for its first turn, the processing limit and one attempt that overruns.
EndsInTime ==
  mode = "queued" =>
    clock <= QueueLimit + Overshoot + Limit + Max({Longest, Overshoot})

\* A job whose last attempt ended after the deadline is recorded as failed, also
\* when that attempt was cancelled for it, or succeeded.
TimeoutReported ==
  (step = "done" /\ verdict = None /\ Expired /\ records # <<>>) =>
    Last(records).result = "failed"

\* The record counts each document that this job saved once as new, and none of
\* them as existing, over all attempts.
CountsTrue ==
  verdict = None => \A i \in DOMAIN records :
    /\ records[i].new = Cardinality(store \ before)
    /\ records[i].existing <= Cardinality(before)

\* A job with a reason to fail that will not go away is not run again.
OnlyTransientRetried ==
  \A i \in DOMAIN attempts : attempts[i].lasting => i = Len(attempts)

\* The dispatcher's ticket is not left in retry_waiting.
RetryFlagCleared ==
  step \in {"queue", "attempt", "stopped", "write", "done"} /\ faults = 0 => ~waiting

\* execute_headless returns.
Returns == <>(step = "done")

Phase ==
  CASE step = "sleep" -> "retry"
    [] step \in {"write", "done"} -> "ended"
    [] OTHER -> "run"

\* For its caller the execution is a job that runs and waits a bounded number
\* of times, and ends.
Caller == INSTANCE Job WITH MaxRetry <- RetryCount, phase <- Phase, retried <- retries
ImplementsJob == Caller!Spec

\* A limit that is passed ends the job, in time, and says so; whatever ends it, the
\* ticket is not left waiting for a retry, no lasting failure was tried again, and the
\* record counts every document once.
DeadlineKept ==
  /\ TypeOK
  /\ EndsInTime
  /\ TimeoutReported
  /\ RetryFlagCleared
  /\ OnlyTransientRetried
  /\ CountsTrue

=============================================================================
