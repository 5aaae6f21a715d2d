---------------------------- MODULE DesktopProofs ----------------------------
(***************************************************************************)
(* Proofs about Conversion, for any number of conversions, failures of the *)
(* system and deaths of the application: the file that a conversion hands  *)
(* over is whole and no renderer can change it any more, where it began    *)
(* without a worker of an application that had died before.                *)
(*                                                                         *)
(* The second part is about MainWindow, for any schedules, edits by other  *)
(* processes and failed calls of the service: the lists of schedules catch *)
(* up with what is registered, and the dialog neither shows nor edits the  *)
(* values of another schedule, nor loses what the user has typed.          *)
(*                                                                         *)
(* The last part is about the run, ApplicationRun within the window, for   *)
(* any plans and failures: what it reports is true.                        *)
(***************************************************************************)
EXTENDS Conversion, MainWindow, WellFoundedInduction, FiniteSetTheorems, SequenceTheorems,
        TLAPS

-----------------------------------------------------------------------------
(* The inductive invariant *)

Step ==
  {"idle", "begin", "validate", "validating", "internal", "rendering", "edge",
   "verify", "attempt", "launch", "assign", "supervise", "drain", "outcome",
   "check", "settle", "cleanup", "returned"}

ConvType ==
  [step : Step, call : 0 .. MaxCall, attempt : 0 .. MaxAttempt,
   result : {None, "SUCCESS", "FAILED", "CANCELLED"},
   state : {None, "cancelled", "timeout", "start_failed", "completed"},
   sane : BOOLEAN, artifact : BOOLEAN, left : SUBSET {"output", "root"},
   overlapped : BOOLEAN]

File == [by : [call : Nat, attempt : Nat], whole : BOOLEAN]

\* The numbers of calls are given once.
CallsOK ==
  /\ conv \in ConvType
  /\ output \in File \cup {None}
  /\ calls \in 0 .. MaxCall
  /\ conv.call <= calls
  /\ ~At("idle") => conv.call \in Call
  /\ \A p \in alive : p[2] <= calls

\* Only Edge is suspended or in the job, and what is suspended has begun nothing.
ProcsOK ==
  /\ \A p \in suspended \cup job : p[1] \in EdgeKind
  /\ \A p \in holds : p[1] # "validator"
  /\ suspended \cap dying = {} /\ suspended \cap holds = {}

\* The renderers that the conversion in progress waits for; the others are workers of
\* applications that have died.
Working == {p \in Renderers : p[1] = "worker" => p = Mine("worker")}

PlaceOK ==
  /\ conv.step \notin {"rendering", "supervise"} => Working = {}
  /\ At("rendering") => Working \subseteq {Mine("worker")}
  /\ At("supervise") => Working \subseteq job \cap {Mine("edge"), Mine("edgeChild")}

\* A conversion that began without such workers meets none.
ApartOK == ~At("idle") /\ ~conv.overlapped => Renderers \subseteq Working

\* There is no process of an earlier attempt when Edge is started.
EdgeOK ==
  /\ conv.step \in {"begin", "validate", "validating", "internal", "rendering", "edge",
                    "verify", "launch", "check"} => Mine("edge") \notin alive
  /\ At("attempt") => Mine("edge") \notin alive \/ Guard # "none"
  /\ At("assign") => Mine("edge") \in suspended
  /\ At("supervise") => (Mine("edge") \in alive => Mine("edge") \in job)
  /\ conv.step \in {"drain", "outcome"} =>
       /\ conv.state \in {"cancelled", "timeout", "start_failed", "completed"}
       /\ conv.state = "cancelled" => cancel
       /\ conv.state = "timeout" => "conversion" \in timeup
       /\ conv.state = "completed" => Mine("edge") \notin alive

\* What the file holds is of this call and this attempt.
OwnOutput ==
  ~conv.overlapped /\ output # None =>
    output.by = [call |-> conv.call, attempt |-> conv.attempt]

OutputOK ==
  /\ conv.step \in {"begin", "validate", "validating", "internal", "rendering", "edge",
                    "verify"} => conv.attempt = 0
  /\ conv.step \in {"rendering", "launch", "assign", "supervise", "drain", "outcome",
                    "check"} => OwnOutput
  /\ conv.result = "SUCCESS" /\ ~conv.overlapped => OwnOutput /\ output # None /\ output.whole
  /\ At("returned") /\ conv.result # "SUCCESS" /\ ~conv.overlapped =>
       output = None \/ "output" \in conv.left

ResultOK ==
  /\ conv.step \notin {"settle", "cleanup", "returned"} => conv.result = None
  /\ conv.step \notin {"cleanup", "returned"} => ~conv.artifact
  /\ conv.artifact => conv.result = "FAILED" /\ conv.sane
  /\ conv.result = "CANCELLED" => cancel

\* The parts of TypeOK that are about processes.
ProcTypes ==
  /\ alive \subseteq ProcSet /\ dying \subseteq alive /\ suspended \subseteq alive
  /\ job \subseteq alive /\ holds \subseteq alive

IInv ==
  /\ TypeOK
  /\ CallsOK
  /\ ProcsOK
  /\ PlaceOK
  /\ EdgeOK
  /\ OutputOK
  /\ ResultOK

\* The whole invariant.
WholeInv == IInv /\ ApartOK

-----------------------------------------------------------------------------
(* What a step does with the conversion *)

Keeps ==
  /\ conv' \in ConvType
  /\ conv'.call = conv.call /\ conv'.attempt = conv.attempt
  /\ conv'.overlapped = conv.overlapped

\* The next step, and nothing else.
Moves(step) ==
  /\ Keeps /\ conv'.step = step
  /\ conv'.result = conv.result /\ conv'.state = conv.state
  /\ conv'.sane = conv.sane /\ conv'.artifact = conv.artifact /\ conv'.left = conv.left

Settles(status) ==
  /\ Keeps /\ conv'.step = "settle" /\ conv'.result = status
  /\ conv'.state = conv.state /\ conv'.sane = conv.sane
  /\ conv'.artifact = conv.artifact /\ conv'.left = conv.left

\* A result that is no success; only a request of the user makes it a cancellation.
GivesUp == Settles("FAILED") \/ (Settles("CANCELLED") /\ cancel)

Retries ==
  /\ conv' \in ConvType /\ conv'.step = "attempt"
  /\ conv'.call = conv.call /\ conv'.attempt \in 1 .. MaxAttempt
  /\ conv'.overlapped = conv.overlapped
  /\ conv'.result = conv.result /\ conv'.state = conv.state
  /\ conv'.sane = conv.sane /\ conv'.artifact = conv.artifact /\ conv'.left = conv.left

LEMMA SameCall ==
  ASSUME NEW kind, conv'.call = conv.call
  PROVE  Mine(kind)' = Mine(kind)
BY DEF Mine

LEMMA MoveIs ==
  ASSUME conv \in ConvType, NEW step \in Step, Go(step)
  PROVE  Moves(step)
BY DEF Go, Moves, Keeps, ConvType

LEMMA SettleIs ==
  ASSUME conv \in ConvType, NEW status \in {"SUCCESS", "FAILED", "CANCELLED"}, Settle(status)
  PROVE  Settles(status)
BY DEF Settle, Settles, Keeps, ConvType, Step

LEMMA GuardIs ==
  /\ Guard \in {"none", "CANCELLED", "FAILED"}
  /\ Guard = "none" <=> ~cancel /\ "conversion" \notin timeup
  /\ Guard = "CANCELLED" <=> cancel
BY DEF Guard

LEMMA GuardSettles ==
  ASSUME conv \in ConvType, Guard # "none", Settle(Guard)
  PROVE  GivesUp
<1>1. Guard \in {"FAILED", "CANCELLED"} /\ (Guard = "CANCELLED" => cancel)
  BY GuardIs
<1>2. CASE Guard = "FAILED"
  BY <1>2, SettleIs DEF GivesUp
<1>3. CASE Guard = "CANCELLED"
  BY <1>1, <1>3, SettleIs DEF GivesUp
<1> QED
  BY <1>1, <1>2, <1>3

LEMMA RetryIs ==
  ASSUME conv \in ConvType, NEW attempt \in 1 .. MaxAttempt,
         conv' = [conv EXCEPT !.step = "attempt", !.attempt = attempt]
  PROVE  Retries
<1>1. attempt \in 0 .. MaxAttempt /\ "attempt" \in Step
  BY ConversionAssumption DEF Step
<1>2. conv' \in ConvType
  BY <1>1 DEF ConvType
<1> QED
  BY <1>2 DEF Retries, ConvType

LEMMA AttemptFailedIs ==
  ASSUME conv \in ConvType, NEW retry \in BOOLEAN, AttemptFailed(retry)
  PROVE  GivesUp \/ Retries
<1>1. CASE conv' = [conv EXCEPT !.step = "attempt", !.attempt = @ + 1] /\ conv.attempt < MaxAttempt
  <2>1. conv.attempt + 1 \in 1 .. MaxAttempt
    BY <1>1, ConversionAssumption DEF ConvType
  <2> QED
    BY <1>1, <2>1, RetryIs
<1>2. CASE Settle("FAILED")
  BY <1>2, SettleIs DEF GivesUp
<1> QED
  BY <1>1, <1>2 DEF AttemptFailed

\* Terminated processes do not write any more, and nothing begins.
LEMMA TerminateIs ==
  ASSUME NEW procs, Terminate(procs), ProcTypes
  PROVE  /\ ProcTypes'
         /\ alive' \subseteq alive /\ suspended' = suspended \ procs
         /\ job' \subseteq job /\ holds' \subseteq holds
         /\ \A p \in alive' : p \in procs \/ p \in dying => p \in dying'
         /\ \A p \in dying' : p \in dying \/ p \in procs
         /\ \A p \in alive' : p \in job => p \in job'
BY DEF Terminate, ProcTypes

\* A step of the converter leaves the rest of the world alone.
Tame ==
  /\ UNCHANGED <<timeup, cancel, calls>>
  /\ output' \in {output, None} /\ roots' \subseteq Call

\* ... and the processes.
Calm == Tame /\ UNCHANGED <<procVars, holds>>

LEMMA TypesKept ==
  ASSUME IInv, Tame, ~At("idle"), conv' \in ConvType, conv'.call = conv.call,
         ProcTypes', \A p \in alive' : p[2] <= calls
  PROVE  TypeOK' /\ CallsOK'
<1>1. calls' = calls /\ timeup' = timeup /\ cancel' = cancel
  BY DEF Tame
<1>2. CallsOK'
  BY <1>1 DEF IInv, CallsOK, Tame, At
<1>3. TypeOK'
  BY <1>1, <1>2 DEF IInv, TypeOK, CallsOK, Tame, ProcTypes, ConvType, File
<1> QED
  BY <1>2, <1>3

LEMMA CalmKeeps ==
  ASSUME IInv, Calm, ~At("idle"), conv' \in ConvType, conv'.call = conv.call
  PROVE  TypeOK' /\ CallsOK' /\ ProcsOK' /\ Working' = Working
<1>1. ProcTypes' /\ \A p \in alive' : p[2] <= calls
  BY DEF IInv, TypeOK, CallsOK, ProcTypes, Calm, procVars
<1>2. TypeOK' /\ CallsOK'
  BY <1>1, TypesKept DEF Calm
<1>3. ProcsOK' /\ Working' = Working
  BY SameCall DEF IInv, ProcsOK, Working, Renderers, Calm, procVars
<1> QED
  BY <1>2, <1>3

\* A conversion that gives up has nobody working for it any more.
LEMMA GivenUp ==
  ASSUME IInv, GivesUp, Tame, ~At("idle"), ProcTypes', ProcsOK', Working' = {},
         \A p \in alive' : p[2] <= calls,
         conv.step \notin {"settle", "cleanup", "returned"}
  PROVE  IInv'
<1>1. /\ conv' \in ConvType /\ conv'.step = "settle" /\ conv'.call = conv.call
      /\ conv'.result \in {"FAILED", "CANCELLED"} /\ (conv'.result = "CANCELLED" => cancel)
      /\ ~conv'.artifact
  BY DEF GivesUp, Settles, Keeps, IInv, ResultOK
<1>2. TypeOK' /\ CallsOK'
  BY <1>1, TypesKept
<1>3. PlaceOK'
  BY <1>1 DEF PlaceOK, At
<1>4. EdgeOK' /\ OutputOK'
  BY <1>1 DEF EdgeOK, OutputOK, At
<1>5. ResultOK'
  BY <1>1 DEF ResultOK, Tame
<1> QED
  BY <1>2, <1>3, <1>4, <1>5 DEF IInv

\* Neither has one that tries again, and Edge is gone or it is too late.
LEMMA TriedAgain ==
  ASSUME IInv, Retries, Tame, ~At("idle"), ProcTypes', ProcsOK', Working' = {},
         \A p \in alive' : p[2] <= calls, alive' = alive,
         conv.step \notin {"settle", "cleanup", "returned"},
         Mine("edge") \notin alive \/ Guard # "none"
  PROVE  IInv'
<1>1. /\ conv' \in ConvType /\ conv'.step = "attempt" /\ conv'.call = conv.call
      /\ conv'.result = None /\ ~conv'.artifact
  BY DEF Retries, IInv, ResultOK
<1>2. TypeOK' /\ CallsOK'
  BY <1>1, TypesKept
<1>3. PlaceOK'
  BY <1>1 DEF PlaceOK, At
<1>4. Guard' = Guard /\ Mine("edge")' = Mine("edge")
  BY <1>1 DEF Guard, Tame, Mine
<1>5. EdgeOK'
  BY <1>1, <1>4 DEF EdgeOK, At
<1>6. OutputOK'
  BY <1>1, ConversionAssumption DEF OutputOK, At
<1>7. ResultOK'
  BY <1>1, ConversionAssumption DEF ResultOK, Tame
<1> QED
  BY <1>2, <1>3, <1>5, <1>6, <1>7 DEF IInv

LEMMA GivenUpCalmly ==
  ASSUME IInv, GivesUp, Calm, ~At("idle"), Working = {},
         conv.step \notin {"settle", "cleanup", "returned"}
  PROVE  IInv'
<1>1. conv' \in ConvType /\ conv'.call = conv.call
  BY DEF GivesUp, Settles, Keeps
<1>2. /\ Tame /\ ProcsOK' /\ Working' = {}
      /\ ProcTypes' /\ \A p \in alive' : p[2] <= calls
  BY <1>1, CalmKeeps DEF Calm, IInv, TypeOK, CallsOK, ProcTypes, procVars
<1> QED
  BY <1>2, GivenUp

LEMMA TriedAgainCalmly ==
  ASSUME IInv, Retries, Calm, ~At("idle"), Working = {},
         conv.step \notin {"settle", "cleanup", "returned"},
         Mine("edge") \notin alive \/ Guard # "none"
  PROVE  IInv'
<1>1. conv' \in ConvType /\ conv'.call = conv.call
  BY DEF Retries
<1>2. /\ Tame /\ ProcsOK' /\ Working' = {} /\ alive' = alive
      /\ ProcTypes' /\ \A p \in alive' : p[2] <= calls
  BY <1>1, CalmKeeps DEF Calm, IInv, TypeOK, CallsOK, ProcTypes, procVars
<1> QED
  BY <1>2, TriedAgain

\* Going on needs the file and Edge to be as the next step expects them.
LEMMA GoneOn ==
  ASSUME IInv, NEW step \in Step, Moves(step), Tame, ~At("idle"),
         conv.step \notin {"settle", "cleanup", "returned"},
         step \notin {"settle", "cleanup", "returned"},
         ProcTypes', \A p \in alive' : p[2] <= calls, ProcsOK', PlaceOK', EdgeOK', OutputOK'
  PROVE  IInv'
<1>1. TypeOK' /\ CallsOK'
  BY TypesKept DEF Moves, Keeps
<1>2. ResultOK'
  BY ConversionAssumption DEF Moves, Keeps, IInv, ResultOK, Tame
<1> QED
  BY <1>1, <1>2 DEF IInv

LEMMA GoneOnCalmly ==
  ASSUME IInv, NEW step \in Step, Moves(step), Calm, ~At("idle"),
         conv.step \notin {"settle", "cleanup", "returned"},
         step \notin {"settle", "cleanup", "returned"},
         Working = {}, EdgeOK', OutputOK'
  PROVE  IInv'
<1>1. conv' \in ConvType /\ conv'.call = conv.call
  BY DEF Moves, Keeps
<1>2. /\ Tame /\ ProcsOK' /\ Working' = {}
      /\ ProcTypes' /\ \A p \in alive' : p[2] <= calls
  BY <1>1, CalmKeeps DEF Calm, IInv, TypeOK, CallsOK, ProcTypes, procVars
<1>3. PlaceOK'
  BY <1>2 DEF PlaceOK
<1> QED
  BY <1>2, <1>3, GoneOn

\* A success is one when the file is there and of this attempt.
LEMMA Succeeded ==
  ASSUME IInv, Settles("SUCCESS"), Calm, ~At("idle"), Working = {},
         conv.step \notin {"settle", "cleanup", "returned"},
         OwnOutput, output' = output, output # None, output.whole
  PROVE  IInv'
<1>1. /\ conv' \in ConvType /\ conv'.step = "settle" /\ conv'.call = conv.call
      /\ conv'.attempt = conv.attempt
      /\ conv'.overlapped = conv.overlapped /\ conv'.result = "SUCCESS" /\ ~conv'.artifact
  BY DEF Settles, Keeps, IInv, ResultOK
<1>2. TypeOK' /\ CallsOK' /\ ProcsOK' /\ Working' = {}
  BY <1>1, CalmKeeps
<1>3. PlaceOK' /\ EdgeOK'
  BY <1>1, <1>2 DEF PlaceOK, EdgeOK, At
<1>4. OutputOK'
  BY <1>1 DEF OutputOK, OwnOutput, At
<1>5. ResultOK'
  BY <1>1 DEF ResultOK
<1> QED
  BY <1>2, <1>3, <1>4, <1>5 DEF IInv

LEMMA TerminateKeeps ==
  ASSUME IInv, NEW procs, Terminate(procs)
  PROVE  /\ ProcTypes' /\ \A p \in alive' : p[2] <= calls
         /\ ProcsOK' /\ Renderers' \subseteq Renderers \ procs
         /\ conv'.call = conv.call => Working' \subseteq Working \ procs
<1>1. ProcTypes
  BY DEF IInv, TypeOK, ProcTypes
<1>2. ProcTypes' /\ alive' \subseteq alive
  BY <1>1, TerminateIs
<1>3. \A p \in alive' : p[2] <= calls
  BY <1>2 DEF IInv, CallsOK
<1>4. ProcsOK'
  BY <1>1 DEF IInv, ProcsOK, Terminate, ProcTypes
<1>5. Renderers' \subseteq Renderers \ procs
  BY <1>1 DEF Renderers, Terminate, ProcTypes
<1>6. conv'.call = conv.call => Working' \subseteq Working \ procs
  BY <1>5, SameCall DEF Working
<1> QED
  BY <1>2, <1>3, <1>4, <1>5, <1>6

\* Where the converter waits for no renderer there is none.
LEMMA Nobody ==
  ASSUME IInv, conv.step \notin {"rendering", "supervise"}
  PROVE  Working = {}
BY DEF IInv, PlaceOK

LEMMA Called ==
  ASSUME IInv, ~At("idle")
  PROVE  /\ conv \in ConvType /\ conv.call \in Call /\ conv.call <= calls
         /\ \A kind : Mine(kind)[1] = kind /\ Mine(kind)[2] = conv.call
         /\ \A kind \in Kind : Mine(kind) \in ProcSet
BY DEF IInv, CallsOK, Mine, ProcSet, At


-----------------------------------------------------------------------------
(* Preparation *)

LEMMA ConvertKeeps ==
  ASSUME IInv, Convert
  PROVE  IInv'
<1>1. /\ At("idle") /\ calls' = calls + 1 /\ calls + 1 \in Call
      /\ UNCHANGED <<alive, dying, suspended, job, output, holds, timeup, cancel, roots>>
  BY ConversionAssumption DEF IInv, CallsOK, Convert, Call, procVars, childVars, worldVars
<1>2. /\ conv' \in ConvType /\ conv'.step = "begin" /\ conv'.call = calls + 1
      /\ conv'.attempt = 0 /\ conv'.result = None /\ ~conv'.artifact
  <2>1. conv' = [step |-> "begin", call |-> calls + 1, attempt |-> 0, result |-> None,
                 state |-> None, sane |-> FALSE, artifact |-> FALSE, left |-> {},
                 overlapped |-> Orphans # {}]
    BY DEF Convert, NoConversion
  <2>2. calls + 1 \in 0 .. MaxCall /\ 0 \in 0 .. MaxAttempt /\ "begin" \in Step
    BY <1>1, ConversionAssumption DEF Call, Step
  <2> QED
    BY <2>1, <2>2 DEF ConvType
<1>3. TypeOK'
  BY <1>1, <1>2 DEF IInv, TypeOK, CallsOK, ConvType, File
<1>4. CallsOK'
  BY <1>1, <1>2, ConversionAssumption DEF IInv, CallsOK, TypeOK, ProcSet, Call, At
<1>5. ProcsOK' /\ PlaceOK'
  <2>1. Renderers' = Renderers /\ Working = {} /\ Mine("worker")'[2] = calls + 1
    BY <1>1, <1>2, Nobody DEF Renderers, Mine, At
  <2>2. Working' = {}
    <3>1. \A p \in alive : p # Mine("worker")'
      BY <2>1, ConversionAssumption DEF IInv, CallsOK
    <3> QED
      BY <2>1, <3>1 DEF Working, Renderers
  <2> QED
    BY <1>1, <1>2, <2>2 DEF IInv, ProcsOK, PlaceOK, At
<1>6. EdgeOK'
  <2>1. Mine("edge")' \notin alive'
    <3>1. Mine("edge")' = <<"edge", calls + 1>>
      BY <1>2 DEF Mine
    <3>2. ~(calls + 1 <= calls)
      BY ConversionAssumption DEF IInv, CallsOK
    <3> QED
      BY <1>1, <3>1, <3>2 DEF IInv, CallsOK
  <2> QED
    BY <1>2, <2>1 DEF EdgeOK, At
<1>7. OutputOK' /\ ResultOK'
  BY <1>2, ConversionAssumption DEF OutputOK, ResultOK, At
<1> QED
  BY <1>3, <1>4, <1>5, <1>6, <1>7 DEF IInv

LEMMA BeginConversionKeeps ==
  ASSUME IInv, BeginConversion
  PROVE  IInv'
<1>1. At("begin") /\ Calm /\ (GivesUp \/ Moves("validate"))
  <2>1. conv \in ConvType /\ conv.step = "begin" /\ conv.call \in Call
    BY DEF BeginConversion, IInv, CallsOK, At
  <2>2. Calm
    BY <2>1 DEF BeginConversion, StaleRoots, Calm, Tame, IInv, TypeOK
  <2>3. \/ Guard # "none" /\ Settle(Guard)
        \/ Go("validate")
        \/ Settle("FAILED")
    BY DEF BeginConversion
  <2> QED
    BY <2>1, <2>2, <2>3, GuardSettles, SettleIs, MoveIs DEF GivesUp, At, Step
<1>2. Working = {}
  BY <1>1 DEF IInv, PlaceOK, At
<1>3. CASE GivesUp
  BY <1>1, <1>2, <1>3, GivenUpCalmly DEF At
<1>4. CASE Moves("validate")
  <2>1. conv'.step = "validate" /\ conv'.call = conv.call /\ conv'.attempt = conv.attempt
        /\ conv'.overlapped = conv.overlapped
        /\ conv'.result = conv.result
    BY <1>4 DEF Moves, Keeps
  <2>2. EdgeOK'
    BY <1>1, <2>1, SameCall DEF EdgeOK, At, IInv, Calm, procVars
  <2>3. OutputOK'
    BY <1>1, <2>1, ConversionAssumption DEF OutputOK, At, IInv, ResultOK
  <2> QED
    BY <1>1, <1>2, <1>4, <2>2, <2>3, GoneOnCalmly DEF At, Step
<1> QED
  BY <1>1, <1>3, <1>4

LEMMA StartValidatorKeeps ==
  ASSUME IInv, StartValidator
  PROVE  IInv'
<1>1. At("validate") /\ Tame /\ UNCHANGED <<dying, suspended, job, output, holds>>
  BY DEF StartValidator, Tame, IInv, TypeOK, childVars, worldVars
<1>2. /\ conv \in ConvType /\ Working = {} /\ ~At("idle")
      /\ conv.step \notin {"settle", "cleanup", "returned"}
  BY <1>1, Nobody DEF IInv, CallsOK, At
<1>3. CASE UNCHANGED alive /\ Settle("FAILED")
  <2>1. Calm /\ GivesUp
    BY <1>1, <1>2, <1>3, SettleIs DEF Calm, procVars, GivesUp
  <2> QED
    BY <1>2, <2>1, GivenUpCalmly
<1>4. CASE alive' = alive \cup {Mine("validator")} /\ Go("validating")
  <2>1. Moves("validating")
    BY <1>2, <1>4, MoveIs DEF Step
  <2>2. conv'.step = "validating" /\ conv'.call = conv.call /\ conv'.attempt = conv.attempt
        /\ conv'.overlapped = conv.overlapped
        /\ conv'.result = conv.result
    BY <2>1 DEF Moves, Keeps
  <2>3. ProcTypes' /\ \A p \in alive' : p[2] <= calls
    BY <1>1, <1>2, <1>4, Called DEF IInv, TypeOK, CallsOK, ProcTypes, Kind
  <2>4. ProcsOK'
    BY <1>1 DEF IInv, ProcsOK
  <2>5. Working' = {}
    BY <1>1, <1>2, <1>4, <2>2, Called, SameCall DEF Working, Renderers
  <2>6. PlaceOK'
    BY <2>5 DEF PlaceOK
  <2>7. Mine("edge")' = Mine("edge") /\ Mine("edge") # Mine("validator")
    BY <1>2, <2>2, SameCall, Called
  <2>8. EdgeOK'
    BY <1>1, <1>4, <2>2, <2>7 DEF EdgeOK, At, IInv
  <2>9. OutputOK'
    BY <1>1, <2>2, ConversionAssumption DEF OutputOK, At, IInv, ResultOK
  <2> QED
    BY <1>1, <1>2, <2>1, <2>3, <2>4, <2>6, <2>8, <2>9, GoneOn DEF Step
<1> QED
  BY <1>3, <1>4 DEF StartValidator

LEMMA WatchValidatorKeeps ==
  ASSUME IInv, WatchValidator
  PROVE  IInv'
<1>1. At("validating") /\ Tame /\ output' = output
  BY DEF WatchValidator, Tame, IInv, TypeOK, childVars, worldVars, bounds
<1>2. /\ conv \in ConvType /\ Working = {} /\ ~At("idle")
      /\ conv.step \notin {"settle", "cleanup", "returned"}
  BY <1>1, Nobody DEF IInv, CallsOK, At
<1>3. CASE Guard # "none" /\ Settle(Guard) /\ Terminate({Mine("validator")})
  <2>1. GivesUp /\ conv'.call = conv.call
    BY <1>2, <1>3, GuardSettles DEF GivesUp, Settles, Keeps
  <2> QED
    BY <1>1, <1>2, <1>3, <2>1, TerminateKeeps, GivenUp
<1>4. CASE Settle("FAILED") /\ UNCHANGED <<procVars, holds>>
  <2>1. Calm /\ GivesUp
    BY <1>1, <1>2, <1>4, SettleIs DEF Calm, procVars, GivesUp
  <2> QED
    BY <1>2, <2>1, GivenUpCalmly
<1>5. CASE /\ conv' = [conv EXCEPT !.step = "internal", !.sane = TRUE]
           /\ UNCHANGED <<procVars, holds>>
  <2>1. /\ conv' \in ConvType /\ conv'.step = "internal" /\ conv'.call = conv.call
        /\ conv'.attempt = conv.attempt
        /\ conv'.overlapped = conv.overlapped /\ conv'.result = conv.result
        /\ conv'.artifact = conv.artifact
    BY <1>2, <1>5 DEF ConvType, Step
  <2>2. Calm
    BY <1>1, <1>5 DEF Calm
  <2>3. TypeOK' /\ CallsOK' /\ ProcsOK' /\ Working' = {}
    BY <1>2, <2>1, <2>2, CalmKeeps
  <2>4. EdgeOK'
    BY <1>1, <2>1, <2>2, SameCall DEF EdgeOK, At, IInv, Calm, procVars
  <2>5. OutputOK' /\ ResultOK' /\ PlaceOK'
    BY <1>1, <2>1, <2>3, ConversionAssumption DEF OutputOK, At, IInv, ResultOK, PlaceOK
  <2> QED
    BY <2>3, <2>4, <2>5 DEF IInv
<1> QED
  BY <1>3, <1>4, <1>5 DEF WatchValidator

-----------------------------------------------------------------------------
(* The worker *)

LEMMA StartWorkerKeeps ==
  ASSUME IInv, StartWorker
  PROVE  IInv'
<1>1. At("internal") /\ Tame /\ UNCHANGED <<dying, suspended, job, holds>>
  BY DEF StartWorker, Tame, IInv, TypeOK, worldVars
<1>2. /\ conv \in ConvType /\ Working = {} /\ ~At("idle")
      /\ conv.step \notin {"settle", "cleanup", "returned"}
  BY <1>1, Nobody DEF IInv, CallsOK, At
<1>3. CASE Go("edge") /\ UNCHANGED <<alive, output>>
  <2>1. Calm /\ Moves("edge")
    BY <1>1, <1>2, <1>3, MoveIs DEF Calm, procVars, Step
  <2>2. conv'.step = "edge" /\ conv'.call = conv.call /\ conv'.attempt = conv.attempt
        /\ conv'.overlapped = conv.overlapped
        /\ conv'.result = conv.result
    BY <2>1 DEF Moves, Keeps
  <2>3. EdgeOK'
    BY <1>1, <2>1, <2>2, SameCall DEF EdgeOK, At, IInv, Calm, procVars
  <2>4. OutputOK'
    BY <1>1, <2>2, ConversionAssumption DEF OutputOK, At, IInv, ResultOK
  <2> QED
    BY <1>2, <2>1, <2>3, <2>4, GoneOnCalmly DEF Step
<1>4. CASE output' = None /\ alive' = alive \cup {Mine("worker")} /\ Go("rendering")
  <2>1. Moves("rendering")
    BY <1>2, <1>4, MoveIs DEF Step
  <2>2. conv'.step = "rendering" /\ conv'.call = conv.call /\ conv'.attempt = conv.attempt
        /\ conv'.overlapped = conv.overlapped
        /\ conv'.result = conv.result
    BY <2>1 DEF Moves, Keeps
  <2>3. ProcTypes' /\ \A p \in alive' : p[2] <= calls
    BY <1>1, <1>2, <1>4, Called DEF IInv, TypeOK, CallsOK, ProcTypes, Kind
  <2>4. ProcsOK'
    BY <1>1 DEF IInv, ProcsOK
  <2>5. Working' \subseteq {Mine("worker")} /\ Mine("worker")' = Mine("worker")
    BY <1>1, <1>2, <1>4, <2>2, SameCall DEF Working, Renderers
  <2>6. PlaceOK'
    BY <2>2, <2>5 DEF PlaceOK, At
  <2>7. Mine("edge")' = Mine("edge") /\ Mine("edge") # Mine("worker")
    BY <1>2, <2>2, SameCall, Called
  <2>8. EdgeOK'
    BY <1>1, <1>4, <2>2, <2>7 DEF EdgeOK, At, IInv
  <2>9. OutputOK'
    BY <1>1, <1>4, <2>2, ConversionAssumption DEF OutputOK, OwnOutput, At, IInv, ResultOK
  <2> QED
    BY <1>1, <1>2, <2>1, <2>3, <2>4, <2>6, <2>8, <2>9, GoneOn DEF Step
<1> QED
  BY <1>3, <1>4 DEF StartWorker

LEMMA LeaveWorkerIs ==
  ASSUME conv \in ConvType, NEW way, LeaveWorker(way), way = "cancel" => cancel
  PROVE  output' \in {output, None} /\ (GivesUp \/ Moves("edge"))
<1>1. \/ output' = None /\ ((way = "cancel" /\ Settle("CANCELLED")) \/ Go("edge"))
      \/ output' = output /\ Go("edge")
  BY DEF LeaveWorker
<1> QED
  BY <1>1, SettleIs, MoveIs DEF GivesUp, Step

LEMMA WatchWorkerKeeps ==
  ASSUME IInv, WatchWorker
  PROVE  IInv'
<1>1. At("rendering") /\ UNCHANGED <<timeup, cancel, roots, calls>>
  BY DEF WatchWorker, worldVars
<1>2. /\ conv \in ConvType /\ Working \subseteq {Mine("worker")} /\ ~At("idle")
      /\ conv.step \notin {"settle", "cleanup", "returned"}
  BY <1>1 DEF IInv, CallsOK, PlaceOK, At
<1>3. ASSUME output' \in {output, None}, GivesUp \/ Moves("edge"), alive' \subseteq alive,
             ProcTypes', \A p \in alive' : p[2] <= calls, ProcsOK', Working' = {}
      PROVE  IInv'
  <2>1. Tame
    BY <1>1, <1>3 DEF Tame, IInv, TypeOK
  <2>2. CASE GivesUp
    BY <1>2, <1>3, <2>1, <2>2, GivenUp
  <2>3. CASE Moves("edge")
    <3>1. conv'.step = "edge" /\ conv'.call = conv.call /\ conv'.attempt = conv.attempt
          /\ conv'.overlapped = conv.overlapped
          /\ conv'.result = conv.result
      BY <2>3 DEF Moves, Keeps
    <3>2. PlaceOK'
      BY <1>3 DEF PlaceOK
    <3>3. EdgeOK'
      BY <1>1, <1>3, <3>1, SameCall DEF EdgeOK, At, IInv
    <3>4. OutputOK'
      BY <1>1, <3>1, ConversionAssumption DEF OutputOK, At, IInv, ResultOK
    <3> QED
      BY <1>2, <1>3, <2>1, <2>3, <3>2, <3>3, <3>4, GoneOn DEF Step
  <2> QED
    BY <1>3, <2>2, <2>3
<1>4. CASE /\ Terminate({Mine("worker")})
           /\ \E way \in {"cancel", "late"} : LeaveWorker(way) /\ (way = "cancel" => cancel)
  <2>1. output' \in {output, None} /\ (GivesUp \/ Moves("edge"))
    BY <1>2, <1>4, LeaveWorkerIs
  <2>2. alive' \subseteq alive /\ conv'.call = conv.call
    BY <1>4, <2>1 DEF Terminate, GivesUp, Settles, Moves, Keeps
  <2> QED
    BY <1>2, <1>3, <1>4, <2>1, <2>2, TerminateKeeps
<1>5. CASE Mine("worker") \notin alive /\ UNCHANGED <<procVars, holds>>
  <2>1. Working = {} /\ (conv'.call = conv.call => Working' = {})
    BY <1>2, <1>5, SameCall DEF Working, Renderers, procVars
  <2>2. ProcTypes' /\ (\A p \in alive' : p[2] <= calls) /\ ProcsOK' /\ alive' = alive
    BY <1>5 DEF IInv, TypeOK, CallsOK, ProcTypes, ProcsOK, procVars
  <2>3. CASE LeaveWorker("failed")
    <3>1. output' \in {output, None} /\ (GivesUp \/ Moves("edge"))
      BY <1>2, <2>3, LeaveWorkerIs
    <3>2. conv'.call = conv.call
      BY <3>1 DEF GivesUp, Settles, Moves, Keeps
    <3> QED
      BY <1>3, <2>1, <2>2, <3>1, <3>2
  <2>4. CASE output # None /\ output.whole /\ Settle("SUCCESS") /\ output' = output
    <3>1. Calm /\ Settles("SUCCESS")
      BY <1>1, <1>2, <1>5, <2>4, SettleIs DEF Calm, Tame, IInv, TypeOK
    <3>2. OwnOutput
      BY <1>1 DEF IInv, OutputOK, At
    <3> QED
      BY <1>2, <2>1, <2>4, <3>1, <3>2, Succeeded
  <2> QED
    BY <1>1, <1>5, <2>3, <2>4 DEF WatchWorker, Rendered
<1> QED
  BY <1>1, <1>4, <1>5 DEF WatchWorker

-----------------------------------------------------------------------------
(* Edge *)

LEMMA FindEdgeKeeps ==
  ASSUME IInv, FindEdge
  PROVE  IInv'
<1>1. At("edge") /\ Calm /\ UNCHANGED <<alive, output>>
  BY DEF FindEdge, Calm, Tame, IInv, TypeOK, procVars, childVars, worldVars
<1>2. /\ conv \in ConvType /\ Working = {} /\ ~At("idle")
      /\ conv.step \notin {"settle", "cleanup", "returned"}
  BY <1>1, Nobody DEF IInv, CallsOK, At
<1>3. GivesUp \/ Moves("verify")
  BY <1>2, GuardSettles, SettleIs, MoveIs DEF FindEdge, GivesUp, Step
<1>4. CASE GivesUp
  BY <1>1, <1>2, <1>4, GivenUpCalmly
<1>5. CASE Moves("verify")
  <2>1. conv'.step = "verify" /\ conv'.call = conv.call /\ conv'.attempt = conv.attempt
        /\ conv'.overlapped = conv.overlapped
        /\ conv'.result = conv.result
    BY <1>5 DEF Moves, Keeps
  <2>2. EdgeOK'
    BY <1>1, <2>1, SameCall DEF EdgeOK, At, IInv
  <2>3. OutputOK'
    BY <1>1, <2>1, ConversionAssumption DEF OutputOK, At, IInv, ResultOK
  <2> QED
    BY <1>1, <1>2, <1>5, <2>2, <2>3, GoneOnCalmly DEF Step
<1> QED
  BY <1>3, <1>4, <1>5

LEMMA VerifyEdgeKeeps ==
  ASSUME IInv, VerifyEdge
  PROVE  IInv'
<1>1. At("verify") /\ Calm
  BY DEF VerifyEdge, Calm, Tame, IInv, TypeOK, procVars, childVars, worldVars
<1>2. /\ conv \in ConvType /\ Working = {} /\ ~At("idle")
      /\ conv.step \notin {"settle", "cleanup", "returned"}
      /\ Mine("edge") \notin alive
  BY <1>1, Nobody DEF IInv, CallsOK, EdgeOK, At
<1>3. CASE conv' = [conv EXCEPT !.step = "attempt", !.attempt = 1]
  <2>1. 1 \in 1 .. MaxAttempt
    BY ConversionAssumption
  <2>2. Retries
    BY <1>2, <1>3, <2>1, RetryIs
  <2> QED
    BY <1>1, <1>2, <2>2, TriedAgainCalmly
<1>4. CASE Settle("FAILED")
  <2>1. GivesUp
    BY <1>2, <1>4, SettleIs DEF GivesUp
  <2> QED
    BY <1>1, <1>2, <2>1, GivenUpCalmly
<1> QED
  BY <1>3, <1>4 DEF VerifyEdge

LEMMA BeginAttemptKeeps ==
  ASSUME IInv, BeginAttempt
  PROVE  IInv'
<1>1. At("attempt") /\ Calm /\ alive' = alive
  BY DEF BeginAttempt, Calm, Tame, IInv, TypeOK, procVars, worldVars, bounds
<1>2. /\ conv \in ConvType /\ Working = {} /\ ~At("idle")
      /\ conv.step \notin {"settle", "cleanup", "returned"}
  BY <1>1, Nobody DEF IInv, CallsOK, At
<1>3. GivesUp \/ (Moves("launch") /\ Guard = "none" /\ output' = None)
  BY <1>2, GuardSettles, SettleIs, MoveIs DEF BeginAttempt, GivesUp, Step
<1>4. CASE GivesUp
  BY <1>1, <1>2, <1>4, GivenUpCalmly
<1>5. CASE Moves("launch") /\ Guard = "none" /\ output' = None
  <2>1. conv'.step = "launch" /\ conv'.call = conv.call /\ conv'.result = conv.result
    BY <1>5 DEF Moves, Keeps
  <2>2. EdgeOK'
    BY <1>1, <1>5, <2>1, SameCall DEF EdgeOK, At, IInv
  <2>3. OutputOK'
    BY <1>1, <1>5, <2>1, ConversionAssumption DEF OutputOK, OwnOutput, At, IInv, ResultOK
  <2> QED
    BY <1>1, <1>2, <1>5, <2>2, <2>3, GoneOnCalmly DEF Step
<1> QED
  BY <1>3, <1>4, <1>5

LEMMA LaunchEdgeKeeps ==
  ASSUME IInv, LaunchEdge
  PROVE  IInv'
<1>1. /\ At("launch") /\ Tame /\ UNCHANGED <<dying, job, holds, output>>
      /\ Mine("edge") \notin alive
  BY DEF LaunchEdge, Tame, IInv, TypeOK, EdgeOK, At, worldVars
<1>2. /\ conv \in ConvType /\ Working = {} /\ ~At("idle")
      /\ conv.step \notin {"settle", "cleanup", "returned"}
  BY <1>1, Nobody DEF IInv, CallsOK, At
<1>3. CASE /\ UNCHANGED <<alive, suspended>>
           /\ \/ Settle("CANCELLED") /\ Guard = "CANCELLED"
              \/ Settle("FAILED")
              \/ AttemptFailed(TRUE)
  <2>1. Calm
    BY <1>1, <1>3 DEF Calm, procVars
  <2>2. GivesUp \/ Retries
    BY <1>2, <1>3, SettleIs, AttemptFailedIs, GuardIs DEF GivesUp
  <2> QED
    BY <1>1, <1>2, <2>1, <2>2, GivenUpCalmly, TriedAgainCalmly
<1>4. CASE /\ alive' = alive \cup {Mine("edge")} /\ suspended' = suspended \cup {Mine("edge")}
           /\ Go("assign")
  <2>1. Moves("assign")
    BY <1>2, <1>4, MoveIs DEF Step
  <2>2. conv'.step = "assign" /\ conv'.call = conv.call /\ conv'.attempt = conv.attempt
        /\ conv'.overlapped = conv.overlapped
        /\ conv'.result = conv.result
    BY <2>1 DEF Moves, Keeps
  <2>3. ProcTypes' /\ \A p \in alive' : p[2] <= calls
    BY <1>1, <1>2, <1>4, Called DEF IInv, TypeOK, CallsOK, ProcTypes, Kind
  <2>4. ProcsOK'
    BY <1>1, <1>2, <1>4, Called DEF IInv, ProcsOK, TypeOK, EdgeKind
  <2>5. Working' = {}
    BY <1>1, <1>2, <1>4, <2>2, Called, SameCall DEF Working, Renderers
  <2>6. PlaceOK'
    BY <2>5 DEF PlaceOK
  <2>7. EdgeOK'
    BY <1>4, <2>2, SameCall DEF EdgeOK, At
  <2>8. OutputOK'
    BY <1>1, <2>2, ConversionAssumption DEF OutputOK, OwnOutput, At, IInv, ResultOK
  <2> QED
    BY <1>1, <1>2, <2>1, <2>3, <2>4, <2>6, <2>7, <2>8, GoneOn DEF Step
<1> QED
  BY <1>3, <1>4 DEF LaunchEdge

LEMMA AssignToJobKeeps ==
  ASSUME IInv, AssignToJob
  PROVE  IInv'
<1>1. /\ At("assign") /\ Tame /\ output' = output
      /\ Mine("edge") \in suspended
  BY DEF AssignToJob, Tame, IInv, TypeOK, EdgeOK, At, worldVars
<1>2. /\ conv \in ConvType /\ Working = {} /\ ~At("idle")
      /\ conv.step \notin {"settle", "cleanup", "returned"}
  BY <1>1, Nobody DEF IInv, CallsOK, At
<1>3. CASE Terminate({Mine("edge")}) /\ Settle("FAILED")
  <2>1. GivesUp /\ conv'.call = conv.call
    BY <1>2, <1>3, SettleIs DEF GivesUp, Settles, Keeps
  <2> QED
    BY <1>1, <1>2, <1>3, <2>1, TerminateKeeps, GivenUp
<1>4. CASE /\ job' = job \cup {Mine("edge")} /\ suspended' = suspended \ {Mine("edge")}
           /\ Go("supervise") /\ UNCHANGED <<alive, dying, holds>>
  <2>1. Moves("supervise")
    BY <1>2, <1>4, MoveIs DEF Step
  <2>2. conv'.step = "supervise" /\ conv'.call = conv.call /\ conv'.attempt = conv.attempt
        /\ conv'.overlapped = conv.overlapped
        /\ conv'.result = conv.result
    BY <2>1 DEF Moves, Keeps
  <2>3. ProcTypes' /\ \A p \in alive' : p[2] <= calls
    BY <1>1, <1>4 DEF IInv, TypeOK, CallsOK, ProcTypes
  <2>4. ProcsOK'
    BY <1>2, <1>4, Called DEF IInv, ProcsOK, EdgeKind
  <2>5. Working' \subseteq {Mine("edge")} /\ Mine("edge")' = Mine("edge")
    BY <1>2, <1>4, <2>2, SameCall DEF Working, Renderers
  <2>6. PlaceOK'
    BY <1>2, <1>4, <2>2, <2>5, Called DEF PlaceOK, At
  <2>7. EdgeOK'
    BY <1>4, <2>2, <2>5 DEF EdgeOK, At
  <2>8. OutputOK'
    BY <1>1, <2>2, ConversionAssumption DEF OutputOK, OwnOutput, At, IInv, ResultOK
  <2> QED
    BY <1>1, <1>2, <2>1, <2>3, <2>4, <2>6, <2>7, <2>8, GoneOn DEF Step
<1> QED
  BY <1>3, <1>4 DEF AssignToJob

LEMMA SupervisedIs ==
  ASSUME NEW state \in {"cancelled", "timeout", "start_failed", "completed"},
         conv \in ConvType, Supervised(state)
  PROVE  /\ Keeps /\ conv'.step \in {"drain", "outcome"} /\ conv'.state = state
         /\ conv'.result = conv.result /\ conv'.artifact = conv.artifact
BY DEF Supervised, Keeps, ConvType, Step

\* The job has been told to end, or has ended.
LEMMA SuperviseKeeps ==
  ASSUME IInv, Supervise
  PROVE  IInv'
<1>1. At("supervise") /\ Tame /\ UNCHANGED <<output, timeup, cancel>>
  BY DEF Supervise, Tame, IInv, TypeOK, worldVars
<1>2. conv \in ConvType /\ Working \subseteq job /\ ~At("idle")
  BY <1>1 DEF IInv, CallsOK, PlaceOK, At
<1>3. \E state \in {"cancelled", "timeout", "start_failed", "completed"} :
        /\ Supervised(state)
        /\ state = "cancelled" => cancel
        /\ state = "timeout" => "conversion" \in timeup
        /\ state = "completed" => EdgeTreeEnded /\ UNCHANGED <<procVars, holds>>
        /\ state # "completed" => Terminate(job)
  BY DEF Supervise
<1>4. PICK state \in {"cancelled", "timeout", "start_failed", "completed"} :
        /\ Supervised(state)
        /\ state = "cancelled" => cancel
        /\ state = "timeout" => "conversion" \in timeup
        /\ state = "completed" => EdgeTreeEnded /\ UNCHANGED <<procVars, holds>>
        /\ state # "completed" => Terminate(job)
  BY <1>3
<1>5. /\ conv' \in ConvType /\ conv'.call = conv.call /\ conv'.attempt = conv.attempt
      /\ conv'.overlapped = conv.overlapped
      /\ conv'.step \in {"drain", "outcome"} /\ conv'.state = state
      /\ conv'.result = conv.result /\ conv'.artifact = conv.artifact
  BY <1>2, <1>4, SupervisedIs DEF Keeps
<1>6. /\ ProcTypes' /\ \A p \in alive' : p[2] <= calls
      /\ ProcsOK' /\ Working' = {}
      /\ state = "completed" => Mine("edge") \notin alive'
  <2>1. CASE state = "completed"
    <3>1. job = {} /\ UNCHANGED <<alive, dying, suspended, job, holds>>
      BY <1>4, <2>1 DEF EdgeTreeEnded, procVars
    <3>2. Working' = {} /\ Mine("edge") \notin alive'
      BY <1>1, <1>2, <1>5, <3>1, SameCall DEF Working, Renderers, IInv, EdgeOK
    <3> QED
      BY <3>1, <3>2 DEF IInv, TypeOK, CallsOK, ProcTypes, ProcsOK
  <2>2. CASE state # "completed"
    BY <1>2, <1>4, <1>5, <2>2, TerminateKeeps
  <2> QED
    BY <2>1, <2>2
<1>7. TypeOK' /\ CallsOK'
  BY <1>1, <1>2, <1>5, <1>6, TypesKept
<1>8. PlaceOK'
  BY <1>6 DEF PlaceOK
<1>9. EdgeOK'
  BY <1>1, <1>4, <1>5, <1>6, SameCall DEF EdgeOK, At
<1>10. OutputOK' /\ ResultOK'
  BY <1>1, <1>5, ConversionAssumption DEF OutputOK, OwnOutput, ResultOK, At, IInv
<1> QED
  BY <1>6, <1>7, <1>8, <1>9, <1>10 DEF IInv

LEMMA DrainKeeps ==
  ASSUME IInv, Drain
  PROVE  IInv'
<1>1. /\ At("drain") /\ Tame /\ job' = {}
      /\ UNCHANGED <<alive, dying, suspended, holds, output, timeup, cancel>>
  BY DEF Drain, Tame, IInv, TypeOK, childVars, worldVars, bounds
<1>2. /\ conv \in ConvType /\ Working = {} /\ ~At("idle")
      /\ conv.step \notin {"settle", "cleanup", "returned"}
  BY <1>1, Nobody DEF IInv, CallsOK, At
<1>3. Moves("outcome")
  BY <1>2, MoveIs DEF Drain, Step
<1>4. conv'.step = "outcome" /\ conv'.call = conv.call /\ conv'.attempt = conv.attempt
      /\ conv'.overlapped = conv.overlapped
      /\ conv'.result = conv.result /\ conv'.state = conv.state
  BY <1>3 DEF Moves, Keeps
<1>5. ProcTypes' /\ (\A p \in alive' : p[2] <= calls) /\ ProcsOK' /\ Working' = {}
  BY <1>1, <1>2, <1>4, SameCall DEF IInv, TypeOK, CallsOK, ProcTypes, ProcsOK, Working, Renderers
<1>6. PlaceOK'
  BY <1>5 DEF PlaceOK
<1>7. EdgeOK'
  BY <1>1, <1>4, SameCall DEF EdgeOK, At, IInv
<1>8. OutputOK'
  BY <1>1, <1>4, ConversionAssumption DEF OutputOK, OwnOutput, At, IInv, ResultOK
<1> QED
  BY <1>1, <1>2, <1>3, <1>5, <1>6, <1>7, <1>8, GoneOn DEF Step

LEMMA EdgeOutcomeKeeps ==
  ASSUME IInv, EdgeOutcome
  PROVE  IInv'
<1>1. At("outcome") /\ Calm /\ UNCHANGED <<alive, output>>
  BY DEF EdgeOutcome, Calm, Tame, IInv, TypeOK, procVars, childVars, worldVars, bounds
<1>2. /\ conv \in ConvType /\ Working = {} /\ ~At("idle")
      /\ conv.step \notin {"settle", "cleanup", "returned"}
      /\ conv.state \in {"cancelled", "timeout", "start_failed", "completed"}
      /\ conv.state = "cancelled" => cancel
      /\ conv.state = "timeout" => Guard # "none"
      /\ conv.state = "completed" => Mine("edge") \notin alive
  BY <1>1, Nobody, GuardIs DEF IInv, CallsOK, EdgeOK, At
<1>3. CASE conv.state \in {"cancelled", "start_failed"}
  <2>1. GivesUp
    BY <1>2, <1>3, SettleIs DEF EdgeOutcome, GivesUp
  <2> QED
    BY <1>1, <1>2, <2>1, GivenUpCalmly
<1>4. CASE conv.state \in {"timeout", "completed"} /\ \E retry \in BOOLEAN : AttemptFailed(retry)
  <2>1. GivesUp \/ Retries
    BY <1>2, <1>4, AttemptFailedIs
  <2> QED
    BY <1>1, <1>2, <1>4, <2>1, GivenUpCalmly, TriedAgainCalmly
<1>5. CASE conv.state = "completed" /\ Go("check")
  <2>1. Moves("check")
    BY <1>2, <1>5, MoveIs DEF Step
  <2>2. conv'.step = "check" /\ conv'.call = conv.call /\ conv'.attempt = conv.attempt
        /\ conv'.overlapped = conv.overlapped
        /\ conv'.result = conv.result
    BY <2>1 DEF Moves, Keeps
  <2>3. EdgeOK'
    BY <1>1, <1>2, <1>5, <2>2, SameCall DEF EdgeOK, At
  <2>4. OutputOK'
    BY <1>1, <2>2, ConversionAssumption DEF OutputOK, OwnOutput, At, IInv, ResultOK
  <2> QED
    BY <1>1, <1>2, <2>1, <2>3, <2>4, GoneOnCalmly DEF Step
<1> QED
  BY <1>2, <1>3, <1>4, <1>5 DEF EdgeOutcome

LEMMA CheckPdfKeeps ==
  ASSUME IInv, CheckPdf
  PROVE  IInv'
<1>1. At("check") /\ Calm /\ output' = output
  BY DEF CheckPdf, Calm, Tame, IInv, TypeOK, procVars, childVars, worldVars
<1>2. /\ conv \in ConvType /\ Working = {} /\ ~At("idle")
      /\ conv.step \notin {"settle", "cleanup", "returned"}
      /\ Mine("edge") \notin alive /\ OwnOutput
  BY <1>1, Nobody DEF IInv, CallsOK, EdgeOK, OutputOK, At
<1>3. \/ Settle("SUCCESS") /\ output # None /\ output.whole
      \/ Settle("CANCELLED") /\ cancel
      \/ \E retry \in BOOLEAN : AttemptFailed(retry)
  BY GuardIs DEF CheckPdf
<1>4. CASE Settle("SUCCESS") /\ output # None /\ output.whole
  BY <1>1, <1>2, <1>4, SettleIs, Succeeded
<1>5. CASE (Settle("CANCELLED") /\ cancel) \/ \E retry \in BOOLEAN : AttemptFailed(retry)
  <2>1. GivesUp \/ Retries
    BY <1>2, <1>5, SettleIs, AttemptFailedIs DEF GivesUp
  <2> QED
    BY <1>1, <1>2, <2>1, GivenUpCalmly, TriedAgainCalmly
<1> QED
  BY <1>3, <1>4, <1>5

-----------------------------------------------------------------------------
(* The end *)

LEMMA StoreArtifactKeeps ==
  ASSUME IInv, StoreArtifact
  PROVE  IInv'
<1>1. At("settle") /\ Calm /\ UNCHANGED <<alive, output, cancel>>
  BY DEF StoreArtifact, Calm, Tame, IInv, TypeOK, procVars, childVars, worldVars
<1>2. conv \in ConvType /\ Working = {} /\ ~At("idle")
  BY <1>1, Nobody DEF IInv, CallsOK, At
<1>3. /\ conv' \in ConvType /\ conv'.step = "cleanup" /\ conv'.call = conv.call
      /\ conv'.attempt = conv.attempt
      /\ conv'.overlapped = conv.overlapped /\ conv'.result = conv.result /\ conv'.sane = conv.sane
      /\ conv'.artifact => conv.artifact \/ (conv.result = "FAILED" /\ conv.sane)
  BY <1>2 DEF StoreArtifact, Go, ConvType, Step
<1>4. TypeOK' /\ CallsOK' /\ ProcsOK' /\ Working' = {}
  BY <1>1, <1>2, <1>3, CalmKeeps
<1>5. PlaceOK' /\ EdgeOK'
  BY <1>3, <1>4 DEF PlaceOK, EdgeOK, At
<1>6. OutputOK' /\ ResultOK'
  BY <1>1, <1>3 DEF OutputOK, OwnOutput, ResultOK, At, IInv
<1> QED
  BY <1>4, <1>5, <1>6 DEF IInv

\* The file of a conversion without success goes, or is told to be left.
LEMMA CleanUpKeeps ==
  ASSUME IInv, CleanUp
  PROVE  IInv'
<1>1. At("cleanup") /\ Calm /\ UNCHANGED <<alive, cancel>>
  BY DEF CleanUp, Calm, Tame, IInv, TypeOK, procVars, bounds
<1>2. conv \in ConvType /\ Working = {} /\ ~At("idle")
  BY <1>1, Nobody DEF IInv, CallsOK, At
<1>3. PICK busy \in SUBSET {"root"} :
        conv' = [conv EXCEPT !.step = "returned",
                   !.left = (IF conv.result # "SUCCESS" /\ ~Deletable THEN {"output"} ELSE {})
                            \cup busy]
  BY DEF CleanUp
<1>4. /\ conv' \in ConvType /\ conv'.step = "returned" /\ conv'.call = conv.call
      /\ conv'.attempt = conv.attempt
      /\ conv'.overlapped = conv.overlapped /\ conv'.result = conv.result /\ conv'.sane = conv.sane
      /\ conv'.artifact = conv.artifact
      /\ conv.result # "SUCCESS" /\ ~Deletable => "output" \in conv'.left
  BY <1>2, <1>3 DEF ConvType, Step
<1>5. output' = IF conv.result # "SUCCESS" /\ Deletable THEN None ELSE output
  BY DEF CleanUp
<1>6. TypeOK' /\ CallsOK' /\ ProcsOK' /\ Working' = {}
  BY <1>1, <1>2, <1>4, CalmKeeps
<1>7. PlaceOK' /\ EdgeOK'
  BY <1>4, <1>6 DEF PlaceOK, EdgeOK, At
<1>8. OutputOK'
  BY <1>1, <1>4, <1>5 DEF OutputOK, OwnOutput, At, IInv
<1>9. ResultOK'
  BY <1>1, <1>4 DEF ResultOK, At, IInv
<1> QED
  BY <1>6, <1>7, <1>8, <1>9 DEF IInv

\* Nothing is in progress any more.
LEMMA Rested ==
  ASSUME IInv, conv' = NoConversion, calls' = calls, output' \in {output, None},
         timeup' = {}, cancel' = FALSE, roots' \subseteq Call,
         ProcTypes', \A p \in alive' : p[2] <= calls, ProcsOK', Working' = {}
  PROVE  IInv'
<1>1. conv' = [step |-> "idle", call |-> 0, attempt |-> 0, result |-> None,
               state |-> None, sane |-> FALSE, artifact |-> FALSE, left |-> {},
               overlapped |-> FALSE]
  BY DEF NoConversion
<1>2. conv' \in ConvType
  <2>1. 0 \in 0 .. MaxCall /\ 0 \in 0 .. MaxAttempt /\ "idle" \in Step
    BY ConversionAssumption DEF Step
  <2> QED
    BY <1>1, <2>1 DEF ConvType
<1>3. CallsOK'
  BY <1>1, <1>2 DEF IInv, CallsOK, At
<1>4. TypeOK'
  BY <1>1, <1>2, <1>3 DEF IInv, TypeOK, CallsOK, ProcTypes, File, ConvType
<1>5. PlaceOK'
  BY <1>1 DEF IInv, PlaceOK, At
<1>6. EdgeOK' /\ OutputOK' /\ ResultOK'
  BY <1>1, ConversionAssumption DEF EdgeOK, OutputOK, ResultOK, At
<1> QED
  BY <1>3, <1>4, <1>5, <1>6 DEF IInv

\* Then it waits for nobody.
LEMMA Deserted ==
  ASSUME conv' = NoConversion, ProcTypes', Renderers' \subseteq Renderers,
         \A p \in Renderers' : p[1] = "worker"
  PROVE  Working' = {}
<1>1. Mine("worker")' = <<"worker", 0>>
  BY DEF NoConversion, Mine
<1>2. <<"worker", 0>> \notin alive'
  BY ConversionAssumption DEF ProcTypes, ProcSet, Call
<1> QED
  BY <1>1, <1>2 DEF Working, Renderers

LEMMA TakeResultKeeps ==
  ASSUME IInv, TakeResult
  PROVE  IInv'
<1>1. /\ conv' = NoConversion /\ calls' = calls /\ output' \in {output, None}
      /\ timeup' = {} /\ cancel' = FALSE /\ roots' \subseteq Call
      /\ UNCHANGED <<alive, dying, suspended, job, holds>>
  BY DEF TakeResult, Forget, IInv, TypeOK, procVars, bounds
<1>2. /\ ProcTypes' /\ \A p \in alive' : p[2] <= calls
      /\ ProcsOK' /\ Renderers' = Renderers
  BY <1>1 DEF IInv, TypeOK, CallsOK, ProcTypes, ProcsOK, Renderers
<1>3. \A p \in Renderers : p[1] = "worker"
  BY DEF TakeResult, At, IInv, PlaceOK, Working
<1>4. Working' = {}
  BY <1>1, <1>2, <1>3, Deserted
<1> QED
  BY <1>1, <1>2, <1>4, Rested

LEMMA CrashKeeps ==
  ASSUME IInv, Crash
  PROVE  IInv'
<1>1. /\ conv' = NoConversion /\ calls' = calls /\ output' \in {output, None}
      /\ timeup' = {} /\ cancel' = FALSE /\ roots' \subseteq Call
      /\ Terminate(job)
  BY DEF Crash, Forget, IInv, TypeOK
<1>2. /\ ProcTypes' /\ \A p \in alive' : p[2] <= calls
      /\ ProcsOK' /\ Renderers' \subseteq Renderers \ job
  BY <1>1, TerminateKeeps
<1>3. \A p \in Renderers : p[1] = "worker" \/ p \in job
  BY DEF IInv, PlaceOK, Working, At, Mine
<1>4. Working' = {}
  BY <1>1, <1>2, <1>3, Deserted
<1> QED
  BY <1>1, <1>2, <1>4, Rested

-----------------------------------------------------------------------------
(* The children and the world *)

\* Steps beside the conversion: nothing that it has seen is taken back.
LEMMA Beside ==
  ASSUME IInv, conv' = conv, calls' = calls, output' \in File \cup {None}, roots' = roots,
         timeup \subseteq timeup', timeup' \subseteq {"conversion", "renderer"},
         cancel' \in BOOLEAN, cancel => cancel',
         ProcTypes', \A p \in alive' : p[2] <= calls,
         ProcsOK', PlaceOK', OutputOK',
         Mine("edge") \in alive' => Mine("edge") \in alive,
         Mine("edge") \in suspended => Mine("edge") \in suspended',
         Mine("edge") \in alive' /\ Mine("edge") \in job => Mine("edge") \in job'
  PROVE  IInv'
<1>1. CallsOK'
  BY DEF IInv, CallsOK, At
<1>2. TypeOK'
  BY <1>1 DEF IInv, TypeOK, CallsOK, ProcTypes, File
<1>3. Mine("edge")' = Mine("edge")
  BY DEF Mine
<1>4. Guard # "none" => Guard' # "none"
  BY DEF Guard
<1>5. EdgeOK'
  BY <1>3, <1>4 DEF IInv, EdgeOK, At
<1>6. ResultOK'
  BY DEF IInv, ResultOK, At
<1> QED
  BY <1>1, <1>2, <1>5, <1>6 DEF IInv

LEMMA PlaceKept ==
  ASSUME IInv, conv' = conv, Working' \subseteq Working,
         \A p \in Working' : p \in job => p \in job'
  PROVE  PlaceOK'
BY DEF IInv, PlaceOK, At, Mine

LEMMA OutputKept ==
  ASSUME IInv, conv' = conv, output' = output
  PROVE  OutputOK'
BY DEF IInv, OutputOK, OwnOutput, At

LEMMA ValidatorEndsKeeps ==
  ASSUME IInv, ValidatorEnds
  PROVE  IInv'
<1>1. /\ conv' = conv /\ calls' = calls /\ output' = output /\ roots' = roots
      /\ timeup' = timeup /\ cancel' = cancel
      /\ UNCHANGED <<dying, suspended, job, holds>>
  BY DEF ValidatorEnds, worldVars
<1>2. PICK p \in alive : p[1] = "validator" /\ p \notin dying /\ alive' = alive \ {p}
  BY DEF ValidatorEnds, Live
<1>3. p \notin suspended \cup job \cup holds
  BY <1>2 DEF IInv, ProcsOK, EdgeKind
<1>4. ProcTypes' /\ (\A q \in alive' : q[2] <= calls) /\ ProcsOK' /\ Working' \subseteq Working
  BY <1>1, <1>2, <1>3 DEF IInv, TypeOK, CallsOK, ProcTypes, ProcsOK, Working, Renderers, Mine
<1>5. PlaceOK' /\ OutputOK'
  BY <1>1, <1>4, PlaceKept, OutputKept
<1> QED
  BY <1>1, <1>2, <1>4, <1>5, Beside DEF IInv, TypeOK, CallsOK

LEMMA WorkerEndsKeeps ==
  ASSUME IInv, WorkerEnds
  PROVE  IInv'
<1>1. /\ conv' = conv /\ calls' = calls /\ output' = output /\ roots' = roots
      /\ timeup' = timeup /\ cancel' = cancel
      /\ UNCHANGED <<dying, suspended, job>>
  BY DEF WorkerEnds, worldVars
<1>2. PICK p \in alive : /\ p[1] = "worker" /\ p \notin dying
                         /\ alive' = alive \ {p} /\ holds' = holds \ {p}
  BY DEF WorkerEnds, Live
<1>3. p \notin suspended \cup job
  BY <1>2 DEF IInv, ProcsOK, EdgeKind
<1>4. ProcTypes' /\ (\A q \in alive' : q[2] <= calls) /\ ProcsOK' /\ Working' \subseteq Working
  BY <1>1, <1>2, <1>3 DEF IInv, TypeOK, CallsOK, ProcTypes, ProcsOK, Working, Renderers, Mine
<1>5. PlaceOK' /\ OutputOK'
  BY <1>1, <1>4, PlaceKept, OutputKept
<1> QED
  BY <1>1, <1>2, <1>4, <1>5, Beside DEF IInv, TypeOK, CallsOK

LEMMA EdgeEndsKeeps ==
  ASSUME IInv, EdgeEnds
  PROVE  IInv'
<1>1. /\ conv' = conv /\ calls' = calls /\ output' = output /\ roots' = roots
      /\ timeup' = timeup /\ cancel' = cancel
      /\ UNCHANGED <<dying, suspended>>
  BY DEF EdgeEnds, worldVars
<1>2. PICK p \in alive : /\ p \notin dying /\ p \notin suspended
                         /\ alive' = alive \ {p} /\ job' = job \ {p} /\ holds' = holds \ {p}
  BY DEF EdgeEnds, Live
<1>3. ProcTypes' /\ (\A q \in alive' : q[2] <= calls) /\ ProcsOK'
  BY <1>1, <1>2 DEF IInv, TypeOK, CallsOK, ProcTypes, ProcsOK
<1>4. Working' \subseteq Working /\ \A q \in Working' : q \in job => q \in job'
  BY <1>1, <1>2 DEF Working, Renderers, Mine
<1>5. PlaceOK' /\ OutputOK'
  BY <1>1, <1>4, PlaceKept, OutputKept
<1> QED
  BY <1>1, <1>2, <1>3, <1>5, Beside DEF IInv, TypeOK, CallsOK

LEMMA GoneKeeps ==
  ASSUME IInv, Gone
  PROVE  IInv'
<1>1. /\ conv' = conv /\ calls' = calls /\ output' = output /\ roots' = roots
      /\ timeup' = timeup /\ cancel' = cancel /\ suspended' = suspended
  BY DEF Gone, worldVars, bounds
<1>2. PICK p \in dying : /\ alive' = alive \ {p} /\ dying' = dying \ {p}
                         /\ job' = job \ {p} /\ holds' = holds \ {p}
  BY DEF Gone
<1>3. p \notin suspended
  BY DEF IInv, ProcsOK
<1>4. ProcTypes' /\ (\A q \in alive' : q[2] <= calls) /\ ProcsOK'
  BY <1>1, <1>2, <1>3 DEF IInv, TypeOK, CallsOK, ProcTypes, ProcsOK
<1>5. Working' \subseteq Working /\ \A q \in Working' : q \in job => q \in job'
  BY <1>1, <1>2 DEF Working, Renderers, Mine
<1>6. PlaceOK' /\ OutputOK'
  BY <1>1, <1>5, PlaceKept, OutputKept
<1> QED
  BY <1>1, <1>2, <1>4, <1>6, Beside DEF IInv, TypeOK, CallsOK

\* Edge starts others only while its job is watched, and they are in the job.
LEMMA EdgeForksKeeps ==
  ASSUME IInv, EdgeForks
  PROVE  IInv'
<1>1. /\ conv' = conv /\ calls' = calls /\ output' = output /\ roots' = roots
      /\ timeup' = timeup /\ cancel' = cancel /\ At("supervise")
      /\ UNCHANGED <<dying, suspended, holds>>
      /\ alive' = alive \cup {Mine("edgeChild")} /\ job' = job \cup {Mine("edgeChild")}
  BY DEF EdgeForks, childVars, worldVars, bounds
<1>2. /\ Mine("edgeChild") \in ProcSet /\ Mine("edgeChild")[1] = "edgeChild"
      /\ Mine("edgeChild")[2] <= calls /\ Mine("edge")[1] = "edge"
  BY <1>1, Called DEF Kind, At
<1>3. ProcTypes' /\ (\A q \in alive' : q[2] <= calls) /\ ProcsOK'
  BY <1>1, <1>2 DEF IInv, TypeOK, CallsOK, ProcTypes, ProcsOK, EdgeKind
<1>4. Working' \subseteq job' \cap {Mine("edge"), Mine("edgeChild")}
  BY <1>1 DEF IInv, PlaceOK, Working, Renderers, Mine
<1>5. PlaceOK'
  BY <1>1, <1>2, <1>4 DEF PlaceOK, At, Mine
<1>6. OutputOK'
  BY <1>1, OutputKept
<1> QED
  BY <1>1, <1>2, <1>3, <1>5, <1>6, Beside DEF IInv, TypeOK, CallsOK

\* Whoever opens or completes the file works for this attempt, or for an application
\* that has died.
LEMMA Written ==
  ASSUME WholeInv, NEW p \in alive, p[1] # "validator", OpenOutput(p) \/ CloseOutput(p),
         UNCHANGED <<conv, procVars, timeup, cancel, roots, calls>>
  PROVE  IInv'
<1>1. /\ p \in Renderers /\ IInv /\ ApartOK
      /\ UNCHANGED <<alive, dying, suspended, job>>
      /\ holds' \subseteq holds \cup {p} /\ p \notin suspended
  BY DEF WholeInv, IInv, ProcsOK, OpenOutput, CloseOutput, Live, Renderers, procVars
<1>2. PICK whole \in BOOLEAN : output' = [by |-> Writer(p), whole |-> whole]
  BY DEF OpenOutput, CloseOutput
<1>3. p[2] \in Nat /\ conv.attempt \in Nat
  BY <1>1, ConversionAssumption DEF IInv, TypeOK, ProcSet, Call
<1>4. output' \in File
  BY <1>2, <1>3 DEF File, Writer
<1>5. ProcTypes' /\ (\A q \in alive' : q[2] <= calls) /\ ProcsOK' /\ Working' = Working
  BY <1>1 DEF IInv, TypeOK, CallsOK, ProcTypes, ProcsOK, Working, Renderers, Mine
<1>6. PlaceOK'
  BY <1>1, <1>5, PlaceKept
<1>7. OutputOK'
  <2>1. CASE conv.overlapped \/ At("idle")
    BY <1>1, <2>1, ConversionAssumption DEF IInv, ResultOK, OutputOK, OwnOutput, At
  <2>2. CASE ~conv.overlapped /\ ~At("idle")
    <3>1. p \in Working
      BY <1>1, <2>2 DEF ApartOK
    <3>2. conv.step \in {"rendering", "supervise"} /\ conv.result = None
      BY <1>1, <3>1 DEF IInv, PlaceOK, ResultOK
    <3>3. output'.by = [call |-> conv.call, attempt |-> conv.attempt]
      <4>1. CASE conv.step = "rendering"
        <5>1. p = Mine("worker") /\ conv.attempt = 0
          BY <1>1, <3>1, <4>1 DEF IInv, PlaceOK, OutputOK, At
        <5> QED
          BY <1>2, <5>1 DEF Writer, Mine
      <4>2. CASE conv.step = "supervise"
        <5>1. p[2] = conv.call /\ p[1] # "worker"
          BY <1>1, <3>1, <4>2 DEF IInv, PlaceOK, At, Mine
        <5> QED
          BY <1>2, <5>1 DEF Writer
      <4> QED
        BY <3>2, <4>1, <4>2
    <3> QED
      BY <1>1, <3>2, <3>3, ConversionAssumption DEF IInv, OutputOK, OwnOutput, At
  <2> QED
    BY <2>1, <2>2
<1> QED
  BY <1>1, <1>4, <1>5, <1>6, <1>7, Beside DEF IInv, TypeOK, CallsOK

LEMMA WorkerWritesKeeps ==
  ASSUME WholeInv, WorkerWrites
  PROVE  IInv'
<1>1. UNCHANGED <<conv, procVars, timeup, cancel, roots, calls>>
  BY DEF WorkerWrites, worldVars, bounds
<1>2. PICK p \in alive : p[1] = "worker" /\ (OpenOutput(p) \/ CloseOutput(p))
  BY DEF WorkerWrites
<1> QED
  BY <1>1, <1>2, Written

LEMMA EdgeWritesKeeps ==
  ASSUME WholeInv, EdgeWrites
  PROVE  IInv'
<1>1. UNCHANGED <<conv, procVars, timeup, cancel, roots, calls>>
  BY DEF EdgeWrites, worldVars, bounds
<1>2. PICK p \in alive : p[1] = "edgeChild" /\ (OpenOutput(p) \/ CloseOutput(p))
  BY DEF EdgeWrites
<1> QED
  BY <1>1, <1>2, Written

LEMMA WorldKeeps ==
  ASSUME IInv, UNCHANGED <<conv, procVars, output, holds, roots, calls>>,
         timeup \subseteq timeup', timeup' \subseteq {"conversion", "renderer"},
         cancel' \in BOOLEAN, cancel => cancel'
  PROVE  IInv'
<1>1. UNCHANGED <<alive, dying, suspended, job>>
  BY DEF procVars
<1>2. ProcTypes' /\ (\A q \in alive' : q[2] <= calls) /\ ProcsOK' /\ Working' = Working
  BY <1>1 DEF IInv, TypeOK, CallsOK, ProcTypes, ProcsOK, Working, Renderers, Mine
<1>3. PlaceOK' /\ OutputOK'
  BY <1>1, <1>2, PlaceKept, OutputKept
<1> QED
  BY <1>1, <1>2, <1>3, Beside DEF IInv, CallsOK

-----------------------------------------------------------------------------
(* The theorem *)

LEMMA InitIInv ==
  ASSUME Init
  PROVE  IInv
<1>1. /\ conv = [step |-> "idle", call |-> 0, attempt |-> 0, result |-> None,
                 state |-> None, sane |-> FALSE, artifact |-> FALSE, left |-> {},
                 overlapped |-> FALSE]
      /\ output = None /\ holds = {} /\ alive = {} /\ dying = {} /\ suspended = {} /\ job = {}
      /\ timeup = {} /\ cancel = FALSE /\ roots = {} /\ calls = 0
  BY DEF Init, NoConversion
<1>2. 0 \in 0 .. MaxCall /\ 0 \in 0 .. MaxAttempt /\ "idle" \in Step
  BY ConversionAssumption DEF Step
<1>3. TypeOK /\ CallsOK
  <2>1. conv \in ConvType /\ conv.step = "idle"
    BY <1>1, <1>2 DEF ConvType
  <2>2. CallsOK
    BY <1>1, <1>2, <2>1, ConversionAssumption DEF CallsOK, At
  <2>3. TypeOK
    BY <1>1, <2>1 DEF TypeOK, ConvType
  <2> QED
    BY <2>2, <2>3
<1>4. ProcsOK /\ PlaceOK
  BY <1>1 DEF ProcsOK, PlaceOK, Working, Renderers, At
<1>5. EdgeOK /\ OutputOK /\ ResultOK
  BY <1>1, ConversionAssumption DEF EdgeOK, OutputOK, ResultOK, At
<1> QED
  BY <1>3, <1>4, <1>5 DEF IInv

LEMMA NextKeeps ==
  ASSUME WholeInv, [Next]_vars
  PROVE  IInv'
<1> IInv
  BY DEF WholeInv
<1>1. CASE Convert
  BY <1>1, ConvertKeeps
<1>2. CASE Converter
  BY <1>2, BeginConversionKeeps, StartValidatorKeeps, WatchValidatorKeeps,
     StartWorkerKeeps, WatchWorkerKeeps, FindEdgeKeeps, VerifyEdgeKeeps,
     BeginAttemptKeeps, LaunchEdgeKeeps, AssignToJobKeeps, SuperviseKeeps, DrainKeeps,
     EdgeOutcomeKeeps, CheckPdfKeeps, StoreArtifactKeeps, CleanUpKeeps DEF Converter
<1>3. CASE TakeResult \/ Crash
  BY <1>3, TakeResultKeeps, CrashKeeps
<1>4. CASE ValidatorEnds \/ WorkerWrites \/ WorkerEnds
  BY <1>4, ValidatorEndsKeeps, WorkerWritesKeeps, WorkerEndsKeeps
<1>5. CASE EdgeForks \/ EdgeWrites \/ EdgeEnds \/ Gone
  BY <1>5, EdgeForksKeeps, EdgeWritesKeeps, EdgeEndsKeeps, GoneKeeps
<1>6. CASE \E limit \in {"conversion", "renderer"} : TimePasses(limit)
  BY <1>6, WorldKeeps DEF TimePasses, childVars, bounds, IInv, TypeOK
<1>7. CASE Cancel
  BY <1>7, WorldKeeps DEF Cancel, childVars, bounds, IInv, TypeOK
<1>8. CASE UNCHANGED vars
  BY <1>8, WorldKeeps DEF vars, childVars, worldVars, bounds, IInv, TypeOK
<1> QED
  BY <1>1, <1>2, <1>3, <1>4, <1>5, <1>6, <1>7, <1>8 DEF Next

\* Workers are started for the conversion in progress only, and nothing that has been
\* terminated comes back.
Sprouts == \A p \in alive' \ dying' :
             p[1] = "worker" => p \in alive \ dying \/ p = Mine("worker")

SameConversion == conv'.call = conv.call /\ conv'.overlapped = conv.overlapped

LEMMA StaysApart ==
  ASSUME IInv, IInv', ApartOK, ~At("idle"), SameConversion, Sprouts
  PROVE  ApartOK'
<1>1. SUFFICES ASSUME ~conv.overlapped, NEW p \in Renderers', p[1] = "worker"
               PROVE  p = Mine("worker")
  BY SameCall DEF ApartOK, Working, SameConversion
<1>2. CASE p \in alive \ dying
  <2>1. p \notin suspended
    BY <1>1 DEF IInv, ProcsOK, EdgeKind
  <2>2. p \in Renderers
    BY <1>1, <1>2, <2>1 DEF Renderers
  <2> QED
    BY <1>1, <2>2 DEF ApartOK, Working
<1> QED
  BY <1>1, <1>2 DEF Sprouts, Renderers

LEMMA TerminateSprouts ==
  ASSUME NEW procs, Terminate(procs)
  PROVE  Sprouts
BY DEF Terminate, Sprouts

LEMMA ConverterStays ==
  ASSUME IInv, Converter
  PROVE  ~At("idle") /\ SameConversion /\ Sprouts
<1>1. conv \in ConvType
  BY DEF IInv, CallsOK
<1>0. Mine("validator")[1] = "validator" /\ Mine("edge")[1] = "edge"
  BY DEF Mine
<1>2. CASE BeginConversion \/ StartValidator \/ StartWorker
  <2>1. ~At("idle") /\ SameConversion
    BY <1>1, <1>2 DEF BeginConversion, StartValidator, StartWorker, At, Go, Settle,
       SameConversion, ConvType
  <2>2. Sprouts
    BY <1>0, <1>2 DEF BeginConversion, StartValidator, StartWorker, Sprouts, procVars
  <2> QED
    BY <2>1, <2>2
<1>3. CASE WatchValidator \/ WatchWorker
  <2>1. ~At("idle") /\ SameConversion
    BY <1>1, <1>3 DEF WatchValidator, WatchWorker, LeaveWorker, At, Go, Settle,
       SameConversion, ConvType
  <2>2. Sprouts
    BY <1>3, TerminateSprouts DEF WatchValidator, WatchWorker, Sprouts, procVars
  <2> QED
    BY <2>1, <2>2
<1>4. CASE FindEdge \/ VerifyEdge \/ BeginAttempt
  BY <1>1, <1>4 DEF FindEdge, VerifyEdge, BeginAttempt, At, Go, Settle,
     SameConversion, Sprouts, procVars, ConvType
<1>5. CASE LaunchEdge \/ AssignToJob \/ Supervise
  <2>1. ~At("idle") /\ SameConversion
    BY <1>1, <1>5 DEF LaunchEdge, AssignToJob, Supervise, Supervised, AttemptFailed, At, Go,
       Settle, SameConversion, ConvType
  <2>2. Sprouts
    BY <1>0, <1>5, TerminateSprouts DEF LaunchEdge, AssignToJob, Supervise, Sprouts, procVars
  <2> QED
    BY <2>1, <2>2
<1>6. CASE Drain \/ EdgeOutcome \/ CheckPdf \/ StoreArtifact \/ CleanUp
  <2>1. ~At("idle") /\ SameConversion
    <3>1. CASE Drain \/ StoreArtifact \/ CleanUp
      BY <1>1, <3>1 DEF Drain, StoreArtifact, CleanUp, At, Go, SameConversion, ConvType
    <3>2. CASE CheckPdf
      BY <1>1, <3>2 DEF CheckPdf, AttemptFailed, At, Settle, SameConversion, ConvType
    <3>3. CASE EdgeOutcome
      <4>1. \/ \E status \in {"CANCELLED", "FAILED"} : Settle(status)
            \/ \E retry \in BOOLEAN : AttemptFailed(retry)
            \/ Go("check")
            \/ conv.state \notin {"cancelled", "timeout", "start_failed", "completed"}
        BY <3>3 DEF EdgeOutcome
      <4>2. conv.state \in {"cancelled", "timeout", "start_failed", "completed"}
        BY <3>3 DEF EdgeOutcome, IInv, EdgeOK, At
      <4> QED
        BY <1>1, <3>3, <4>1, <4>2 DEF EdgeOutcome, AttemptFailed, At, Go, Settle,
           SameConversion, ConvType
    <3> QED
      BY <1>6, <3>1, <3>2, <3>3
  <2>2. Sprouts
    BY <1>6 DEF Drain, EdgeOutcome, CheckPdf, StoreArtifact, CleanUp, Sprouts, procVars
  <2> QED
    BY <2>1, <2>2
<1> QED
  BY <1>2, <1>3, <1>4, <1>5, <1>6 DEF Converter

\* A conversion that begins beside nobody stays so.
LEMMA NextApart ==
  ASSUME WholeInv, [Next]_vars
  PROVE  ApartOK'
<1>1. IInv /\ ApartOK /\ IInv'
  BY NextKeeps DEF WholeInv
<1>2. CASE Convert
  <2>1. conv'.overlapped = (Orphans # {}) /\ UNCHANGED <<alive, dying, suspended>> /\ At("idle")
    BY <1>2 DEF Convert, NoConversion, procVars
  <2>2. ~conv'.overlapped => \A p \in Renderers' : p[1] # "worker"
    BY <2>1 DEF Orphans, Renderers
  <2> QED
    BY <2>2 DEF ApartOK, Working
<1>3. CASE Converter
  BY <1>1, <1>3, ConverterStays, StaysApart
<1>4. CASE TakeResult \/ Crash
  BY <1>4 DEF TakeResult, Crash, NoConversion, ApartOK, At
<1>5. CASE \/ ValidatorEnds \/ WorkerWrites \/ WorkerEnds
           \/ EdgeForks \/ EdgeWrites \/ EdgeEnds \/ Gone
           \/ \E limit \in {"conversion", "renderer"} : TimePasses(limit)
           \/ Cancel \/ UNCHANGED vars
  <2>1. conv' = conv
    BY <1>5 DEF ValidatorEnds, WorkerWrites, WorkerEnds, EdgeForks, EdgeWrites, EdgeEnds, Gone,
       TimePasses, Cancel, vars
  <2>2. Sprouts
    BY <1>5 DEF ValidatorEnds, WorkerWrites, WorkerEnds, EdgeForks, EdgeWrites, EdgeEnds, Gone,
       TimePasses, Cancel, vars, procVars, Sprouts, Mine
  <2>3. CASE At("idle")
    BY <2>1, <2>3 DEF ApartOK, At
  <2>4. CASE ~At("idle")
    BY <1>1, <2>1, <2>2, <2>4, StaysApart DEF SameConversion
  <2> QED
    BY <2>3, <2>4
<1> QED
  BY <1>2, <1>3, <1>4, <1>5 DEF Next

LEMMA Invariance ==
  Spec => []WholeInv
<1>1. Init => WholeInv
  <2>1. Init => At("idle")
    BY DEF Init, NoConversion, At
  <2> QED
    BY <2>1, InitIInv DEF WholeInv, ApartOK
<1>2. WholeInv /\ [Next]_vars => WholeInv'
  BY NextKeeps, NextApart DEF WholeInv
<1> QED
  BY <1>1, <1>2, PTL DEF Spec

LEMMA WholeIs ==
  ASSUME WholeInv
  PROVE  PdfIsWhole
<1> IInv /\ ApartOK
  BY DEF WholeInv
<1>1. OutputTrue
  <2>1. CASE ~conv.overlapped /\ At("returned") /\ conv.result = "SUCCESS"
    <3>1. /\ output.by = [call |-> conv.call, attempt |-> conv.attempt]
          /\ output.whole /\ output \in File
      BY <2>1 DEF IInv, OutputOK, OwnOutput, CallsOK
    <3>2. output = [by |-> output.by, whole |-> output.whole] /\ output.whole = TRUE
      BY <3>1 DEF File
    <3> QED
      BY <2>1, <3>1, <3>2 DEF OutputTrue, OutputTrueAlways
  <2>2. CASE ~(~conv.overlapped /\ At("returned") /\ conv.result = "SUCCESS")
    BY <2>2 DEF IInv, OutputOK, OutputTrue, OutputTrueAlways
  <2> QED
    BY <2>1, <2>2
<1>2. RenderersApart
  <2>1. \A p \in Renderers : p[1] \in EdgeKind => p \in Working
    BY DEF Working, EdgeKind
  <2>2. {p \in Renderers : p[1] \in EdgeKind} # {} => At("supervise")
    BY <2>1 DEF IInv, PlaceOK, At, Mine, EdgeKind
  <2>3. At("supervise") => Mine("worker") \notin Renderers
    BY DEF IInv, PlaceOK, Working, Mine
  <2>4. ASSUME ~At("idle"), ~conv.overlapped
        PROVE  RenderersApartAlways
    <3>1. Renderers \subseteq Working
      BY <2>4 DEF ApartOK
    <3>2. At("returned") => Renderers = {}
      BY <3>1 DEF IInv, PlaceOK, At
    <3>3. ASSUME NEW p \in Renderers, NEW q \in Renderers, p[1] = "worker"
          PROVE  q = p
      BY <3>1, <3>3 DEF IInv, PlaceOK, At, Mine
    <3> QED
      BY <3>2, <3>3 DEF RenderersApartAlways
  <2> QED
    BY <2>2, <2>3, <2>4 DEF RenderersApart, At
<1>3. ArtifactOfFailure
  BY DEF IInv, ResultOK, ArtifactOfFailure
<1> QED
  BY <1>1, <1>2, <1>3 DEF IInv, PdfIsWhole

\* A conversion that reports success hands over the complete file of the last renderer it
\* has asked, nobody can write to it any more, and anything else leaves no file unsaid
\* (html_to_pdf.py:956, http_client.py:954): for each conversion that begins while no
\* worker of an application that has died is still at work.  Edge is beside no other
\* renderer of its application in any conversion.
THEOREM PdfIsWholeHolds ==
  Spec => []PdfIsWhole
<1>1. WholeInv => PdfIsWhole
  BY WholeIs
<1> QED
  BY <1>1, Invariance, PTL

-----------------------------------------------------------------------------
(* The lists of schedules: types and the inductive invariant *)

Versions == [Schedules -> Nat]
ScheduleNo == Schedules \cup {0}
Values == [of : ScheduleNo, version : Nat]
Editors == [what : {"editor", "delete"}, of : ScheduleNo, from : Values]

Queries ==
  [step : {"none", "asked", "revised", "answered"}, again : BOOLEAN, target : ScheduleNo,
   rows : Versions, failed : BOOLEAN]
Details == [step : {"none", "asked", "answered"}, of : ScheduleNo, version : Nat]
Actions ==
  [step : {"none", "sent", "passed", "done"},
   what : {"", "save", "delete", "repair", "duplicate", "run"}, of : ScheduleNo,
   retry : Seq(Editors), passes : Nat, result : {"", "done", "conflict", "failed"}]

Dialogs ==
  [open : BOOLEAN, query : Queries, later : BOOLEAN, revision : Nat, rows : Versions,
   selected : ScheduleNo, config : Values, detail : Details, action : Actions,
   modals : Seq(Editors), draft : Seq(Editors), opens : Nat, clicks : Nat]

Registries == [rev : Nat, of : Versions, others : SUBSET Schedules, faults : Nat]

\* What the main window shows may be anything.
Lists(rows) ==
  [service : BOOLEAN, step : {"none", "asked", "answered"}, again : BOOLEAN, later : BOOLEAN,
   suspended : BOOLEAN, rows : {rows}]

\* An action that runs has what it would open again; an answer says how it went.
ActionOK(d) ==
  /\ d.action.step = "none" => d.action.retry = <<>>
  /\ d.action.step = "done" => d.action.result # ""

\* What is shown, and what an editor starts from, is of the schedule it is for.
OwnValues(m) == m.from # NoConfig => m.from.of = m.of
ShownOK(d) ==
  /\ d.config # NoConfig => d.config.of = d.selected
  /\ \A m \in Held(d) : OwnValues(m)

DialogOK(d) ==
  /\ d \in Dialogs /\ ActionOK(d) /\ ShownOK(d)
  /\ d.detail.step # "none" => d.detail.of \in Schedules

\* A query is under way or due.
Asks(d) == d.open => d.query.step # "none" \/ d.later
ListAsks(l) == l.service => l.step # "none" \/ l.later \/ l.suspended

ListsInv ==
  /\ registry \in Registries
  /\ schedules \in Lists(schedules.rows) /\ ListAsks(schedules)
  /\ DialogOK(dialog) /\ Asks(dialog)
  /\ schedules.suspended => dialog.open

\* The values that are lost from d to e.
Returns(d, e) ==
  d.open /\ e.open =>
    \A m \in Held(d) \ Held(e) :
      \/ m \in Range(d.modals)
      \/ d.action.step = "done" /\ d.action.result = "done"
      \/ m \in Range(d.draft) /\ d.action.result = "conflict"

-----------------------------------------------------------------------------
(* What the operators of the dialog make of it *)

LEMMA NothingTyped == Nothing \in Versions
BY DEF Nothing, Versions

LEMMA NoConfigTyped == NoConfig \in Values
BY DEF NoConfig, Config, Values, ScheduleNo

LEMMA NoQueryTyped == NoQuery \in Queries
BY NothingTyped DEF NoQuery, Queries, ScheduleNo

LEMMA ConfigTyped ==
  ASSUME NEW rows \in Versions, NEW s \in ScheduleNo
  PROVE  /\ ConfigOf(s, rows) \in Values
         /\ ConfigOf(s, rows) # NoConfig => ConfigOf(s, rows).of = s
BY NoConfigTyped DEF ConfigOf, Config, Values, Versions, In

\* A set of numbers that is not empty has a smallest one.
LEMMA SmallestIn ==
  ASSUME NEW S \in SUBSET Nat, S # {}
  PROVE  Min(S) \in S
<1> DEFINE Less == OpToRel(<, Nat)
<1>1. IsWellFoundedOn(Less, Nat)
  BY NatLessThanWellFounded
<1>2. \A m, n \in Nat : m < n => <<m, n>> \in Less
  BY DEF OpToRel
<1> HIDE DEF Less
<1>3. \E x \in S : \A y \in S : ~ (<<y, x>> \in Less)
  BY <1>1, WFMin
<1>4. \A m, n \in S : ~ (<<m, n>> \in Less) => n <= m
  BY <1>2
<1>5. \E x \in S : \A y \in S : x <= y
  BY <1>3, <1>4
<1> QED
  BY <1>5 DEF Min

LEMMA FirstTyped ==
  ASSUME NEW rows \in Versions
  PROVE  First(rows) \in ScheduleNo
<1>1. In(rows) \in SUBSET Nat /\ In(rows) \subseteq Schedules
  BY SchedulesAssumption DEF In
<1> QED
  BY <1>1, SmallestIn DEF First, ScheduleNo

LEMMA SelectedTyped ==
  ASSUME NEW d \in Dialogs
  PROVE  SelectedAfter(d) \in ScheduleNo
<1> DEFINE Good(s) ==
      CASE d.selected \in In(d.query.rows) -> s = d.selected
        [] d.selected \notin In(d.query.rows) /\ d.query.target \in In(d.query.rows) ->
             s = d.query.target
        [] OTHER -> s = First(d.query.rows)
<1>1. \E s \in {d.selected, d.query.target, First(d.query.rows)} : Good(s)
  OBVIOUS
<1>2. SelectedAfter(d) \in {d.selected, d.query.target, First(d.query.rows)}
  BY <1>1 DEF SelectedAfter
<1>3. {d.selected, d.query.target, First(d.query.rows)} \subseteq ScheduleNo
  BY FirstTyped DEF Dialogs, Queries
<1> QED
  BY <1>2, <1>3

LEMMA RangeOfConcat ==
  ASSUME NEW S, NEW s \in Seq(S), NEW t \in Seq(S)
  PROVE  s \o t \in Seq(S) /\ Range(s \o t) = Range(s) \cup Range(t)
<1>1. s \o t \in Seq(S)
  OBVIOUS
<1>2. Range(s) \subseteq Range(s \o t)
  <2> SUFFICES ASSUME NEW i \in DOMAIN s
               PROVE  \E j \in DOMAIN (s \o t) : (s \o t)[j] = s[i]
    BY DEF Range
  <2> QED
    BY i \in DOMAIN (s \o t), (s \o t)[i] = s[i]
<1>3. Range(t) \subseteq Range(s \o t)
  <2> SUFFICES ASSUME NEW i \in DOMAIN t
               PROVE  \E j \in DOMAIN (s \o t) : (s \o t)[j] = t[i]
    BY DEF Range
  <2> QED
    BY Len(s) + i \in DOMAIN (s \o t), (s \o t)[Len(s) + i] = t[i]
<1>4. Range(s \o t) \subseteq Range(s) \cup Range(t)
  <2> SUFFICES ASSUME NEW i \in DOMAIN (s \o t)
               PROVE  (s \o t)[i] \in Range(s) \cup Range(t)
    BY DEF Range
  <2>1. CASE i <= Len(s)
    BY <2>1, i \in DOMAIN s, (s \o t)[i] = s[i] DEF Range
  <2>2. CASE i > Len(s)
    BY <2>2, i - Len(s) \in DOMAIN t, (s \o t)[i] = t[i - Len(s)] DEF Range
  <2> QED
    BY <2>1, <2>2
<1> QED
  BY <1>1, <1>2, <1>3, <1>4

LEMMA RangeOfFront ==
  ASSUME NEW S, NEW s \in Seq(S), s # <<>>
  PROVE  /\ Front(s) \in Seq(S) /\ Last(s) \in S
         /\ Last(s) \in Range(s) /\ Range(Front(s)) \subseteq Range(s)
<1>1. Len(s) \in Nat \ {0} /\ DOMAIN s = 1 .. Len(s)
  OBVIOUS
<1>2. Front(s) \in Seq(S) /\ \A i \in DOMAIN Front(s) : i \in DOMAIN s /\ Front(s)[i] = s[i]
  BY <1>1 DEF Front
<1> QED
  BY <1>1, <1>2 DEF Range, Last

LEMMA RangeTyped ==
  ASSUME NEW S, NEW s \in Seq(S)
  PROVE  Range(s) \subseteq S
BY DEF Range

LEMMA RangeOfNone == Range(<<>>) = {}
BY DEF Range

\* The parts of a dialog that a change of other parts leaves alone.
LEMMA Unpacked ==
  ASSUME NEW d, DialogOK(d)
  PROVE  /\ d.query \in Queries /\ d.detail \in Details /\ d.action \in Actions
         /\ d.modals \in Seq(Editors) /\ d.draft \in Seq(Editors) /\ d.rows \in Versions
         /\ d.action.retry \in Seq(Editors) /\ d.selected \in ScheduleNo
         /\ d.query.rows \in Versions /\ d.query.target \in ScheduleNo
         /\ d.open \in BOOLEAN /\ d.later \in BOOLEAN
BY DEF DialogOK, Dialogs, Queries, Actions

\* A query is begun or asked for again.
LEMMA RefreshingKeeps ==
  ASSUME NEW d, DialogOK(d)
  PROVE  /\ DialogOK(Refreshing(d)) /\ Asks(Refreshing(d))
         /\ Held(Refreshing(d)) = Held(d) /\ Refreshing(d).open = d.open
         /\ Refreshing(d).modals = d.modals /\ Refreshing(d).draft = d.draft
         /\ Refreshing(d).action = d.action
<1> DEFINE q == IF d.query.step = "none"
                THEN [NoQuery EXCEPT !.step = "asked", !.target = d.selected]
                ELSE [d.query EXCEPT !.again = TRUE]
<1>1. q \in Queries /\ q.step # "none"
  BY Unpacked, NoQueryTyped DEF Queries
<1>2. Refreshing(d) = [d EXCEPT !.query = q]
  BY Unpacked DEF Refreshing, DialogOK, Dialogs
<1> HIDE DEF q
<1> QED
  BY <1>1, <1>2 DEF DialogOK, Dialogs, Asks, Held, ActionOK, ShownOK

\* Another row is selected.
LEMMA SelectingKeeps ==
  ASSUME NEW d, DialogOK(d), NEW s \in In(d.rows)
  PROVE  /\ DialogOK(Selecting(d, s)) /\ Held(Selecting(d, s)) = Held(d)
         /\ Selecting(d, s).open = d.open /\ Selecting(d, s).query = d.query
         /\ Selecting(d, s).later = d.later
<1>1. s \in Schedules /\ s \in ScheduleNo
  BY DEF In, ScheduleNo
<1>2. /\ ConfigOf(s, d.rows) \in Values
      /\ ConfigOf(s, d.rows) # NoConfig => ConfigOf(s, d.rows).of = s
  BY <1>1, Unpacked, ConfigTyped
<1>3. [step |-> "asked", of |-> s, version |-> 0] \in Details
  BY <1>1 DEF Details
<1> QED
  BY <1>1, <1>2, <1>3 DEF Selecting, DialogOK, Dialogs, Held, ActionOK, ShownOK

\* The query failed.
LEMMA KeepsRowsKeeps ==
  ASSUME NEW d, DialogOK(d)
  PROVE  DialogOK(KeepsRows(d)) /\ Asks(KeepsRows(d)) /\ Held(KeepsRows(d)) = Held(d)
<1> DEFINE kept == [d EXCEPT !.query = NoQuery, !.later = TRUE]
<1>1. DialogOK(kept) /\ Held(kept) = Held(d) /\ kept.later /\ kept.rows = d.rows
  BY NoQueryTyped DEF DialogOK, Dialogs, Held, ActionOK, ShownOK
<1>2. KeepsRows(d) = (IF d.query.target \in In(d.rows) \ {d.selected}
                      THEN Selecting(kept, d.query.target) ELSE kept)
  BY DEF KeepsRows
<1> HIDE DEF kept
<1> QED
  BY <1>1, <1>2, SelectingKeeps DEF Asks

\* The rows that were read are shown, and what waits for them comes to the front.
LEMMA ShowsKeeps ==
  ASSUME NEW d, DialogOK(d)
  PROVE  DialogOK(Shows(d)) /\ Asks(Shows(d)) /\ Held(Shows(d)) = Held(d)
<1> DEFINE s == SelectedAfter(d)
           rows == d.query.rows
           config == ConfigOf(s, rows)
           modals == d.modals \o d.draft
           none == <<>>
<1>1. s \in ScheduleNo
  BY SelectedTyped DEF DialogOK
<1>2. config \in Values /\ (config # NoConfig => config.of = s)
  BY <1>1, Unpacked, ConfigTyped
<1>3. modals \in Seq(Editors) /\ Range(modals) = Range(d.modals) \cup Range(d.draft)
  BY Unpacked, RangeOfConcat
<1>4. Shows(d) = [d EXCEPT !.query = NoQuery, !.later = TRUE, !.rows = rows,
                           !.selected = s, !.config = config, !.modals = modals, !.draft = none]
  BY DEF Shows, DialogOK, Dialogs
<1>5. rows \in Versions /\ none \in Seq(Editors) /\ Range(none) = {}
  BY Unpacked, RangeOfNone
<1> HIDE DEF s, rows, config, modals, none
<1>6. Shows(d) \in Dialogs
  <2> DEFINE e == [d EXCEPT !.query = NoQuery, !.later = TRUE, !.rows = rows]
  <2>1. e \in Dialogs
    BY <1>5, NoQueryTyped DEF DialogOK, Dialogs
  <2>2. Shows(d) = [e EXCEPT !.selected = s, !.config = config, !.modals = modals, !.draft = none]
    BY <1>4
  <2> HIDE DEF e
  <2> QED
    BY <1>1, <1>2, <1>3, <1>5, <2>1, <2>2 DEF Dialogs
<1>7. /\ Shows(d).modals = modals /\ Shows(d).draft = none /\ Shows(d).action = d.action
      /\ Shows(d).config = config /\ Shows(d).selected = s /\ Shows(d).detail = d.detail
      /\ Shows(d).later
  BY <1>4 DEF DialogOK, Dialogs
<1>8. Held(Shows(d)) = Held(d)
  BY <1>3, <1>5, <1>7 DEF Held
<1> QED
  BY <1>2, <1>6, <1>7, <1>8 DEF DialogOK, Asks, ActionOK, ShownOK

\* An action is begun, unless one runs.
LEMMA ActingKeeps ==
  ASSUME NEW d, DialogOK(d), NEW s \in ScheduleNo, NEW retry \in Seq(Editors),
         NEW what \in {"save", "delete", "repair", "duplicate", "run"},
         \A m \in Range(retry) : OwnValues(m)
  PROVE  /\ DialogOK(Acting(d, what, s, retry))
         /\ Held(d) \subseteq Held(Acting(d, what, s, retry))
         /\ Acting(d, what, s, retry).open = d.open
         /\ Acting(d, what, s, retry).query = d.query /\ Acting(d, what, s, retry).later = d.later
<1>1. CASE d.action.step # "none"
  BY <1>1 DEF Acting
<1>2. CASE d.action.step = "none"
  <2> DEFINE action == [NoAction EXCEPT !.step = "sent", !.what = what, !.of = s, !.retry = retry]
             e == Acting(d, what, s, retry)
  <2>1. action \in Actions /\ action.step = "sent" /\ action.retry = retry
    BY DEF Actions, NoAction, ScheduleNo
  <2>2. e = [d EXCEPT !.action = action]
    BY <1>2 DEF Acting
  <2>3. Range(d.action.retry) = {}
    BY <1>2, RangeOfNone DEF DialogOK, ActionOK
  <2> HIDE DEF action
  <2>4. /\ e \in Dialogs /\ e.action = action /\ e.modals = d.modals /\ e.draft = d.draft
        /\ e.config = d.config /\ e.selected = d.selected /\ e.detail = d.detail
        /\ e.open = d.open /\ e.query = d.query /\ e.later = d.later
    BY <2>1, <2>2 DEF DialogOK, Dialogs
  <2> HIDE DEF e
  <2>5. Held(e) = Held(d) \cup Range(retry)
    BY <2>1, <2>3, <2>4 DEF Held
  <2>6. DialogOK(e)
    BY <2>1, <2>4, <2>5 DEF DialogOK, ActionOK, ShownOK
  <2> QED
    BY <2>4, <2>5, <2>6 DEF e
<1> QED
  BY <1>1, <1>2

\* The answer of an action is taken.
LEMMA ToldKeeps ==
  ASSUME NEW d, DialogOK(d), d.action.step = "done"
  PROVE  /\ DialogOK(Told(d)) /\ Told(d).open = d.open
         /\ Asks(d) => Asks(Told(d))
         /\ d.action.result = "conflict" => Held(d) \subseteq Held(Told(d)) \cup Range(d.draft)
         /\ d.action.result = "failed" => Held(d) \subseteq Held(Told(d))
<1> DEFINE free == [d EXCEPT !.action = NoAction]
           retry == d.action.retry
           waiting == [free EXCEPT !.draft = retry]
           again == [free EXCEPT !.modals = @ \o retry]
<1>1. d.action.result \in {"done", "conflict", "failed"}
  BY Unpacked DEF DialogOK, ActionOK, Actions
<1>2. NoAction \in Actions /\ NoAction.step = "none" /\ NoAction.retry = <<>>
  BY DEF NoAction, Actions, ScheduleNo
<1>3. /\ free \in Dialogs /\ free.modals = d.modals /\ free.draft = d.draft
      /\ free.action = NoAction /\ free.config = d.config /\ free.selected = d.selected
      /\ free.detail = d.detail /\ free.query = d.query /\ free.later = d.later
      /\ free.open = d.open
  BY <1>2 DEF DialogOK, Dialogs
<1>4. retry \in Seq(Editors) /\ Range(retry) \subseteq Held(d)
  BY Unpacked DEF Held
<1>5. Told(d) = CASE d.action.result = "done" -> Refreshing(free)
                  [] d.action.result = "conflict" -> Refreshing(waiting)
                  [] d.action.result = "failed" -> again
  BY DEF Told
<1> HIDE DEF free, retry
<1>6. DialogOK(free) /\ Held(free) = Range(d.modals) \cup Range(d.draft)
  <2>1. Held(free) = Range(d.modals) \cup Range(d.draft)
    BY <1>2, <1>3, RangeOfNone DEF Held
  <2> QED
    BY <1>2, <1>3, <2>1 DEF DialogOK, ActionOK, ShownOK, Held
<1>7. DialogOK(waiting) /\ Held(waiting) = Range(d.modals) \cup Range(retry) /\ waiting.open = d.open
  <2>1. /\ waiting \in Dialogs /\ waiting.modals = d.modals /\ waiting.draft = retry
        /\ waiting.action = NoAction /\ waiting.config = d.config
        /\ waiting.selected = d.selected /\ waiting.detail = d.detail /\ waiting.open = d.open
    BY <1>3, <1>4 DEF Dialogs
  <2> HIDE DEF waiting
  <2>2. Held(waiting) = Range(d.modals) \cup Range(retry)
    BY <1>2, <2>1, RangeOfNone DEF Held
  <2> QED
    BY <1>2, <1>4, <2>1, <2>2 DEF DialogOK, ActionOK, ShownOK, Held
<1>8. /\ DialogOK(again) /\ Held(again) = Held(d)
      /\ again.open = d.open /\ again.query = d.query /\ again.later = d.later
  <2>1. /\ d.modals \o retry \in Seq(Editors)
        /\ Range(d.modals \o retry) = Range(d.modals) \cup Range(retry)
    BY <1>4, Unpacked, RangeOfConcat
  <2>2. /\ again \in Dialogs /\ again.modals = d.modals \o retry /\ again.draft = d.draft
        /\ again.action = NoAction /\ again.config = d.config
        /\ again.selected = d.selected /\ again.detail = d.detail /\ again.open = d.open
        /\ again.query = d.query /\ again.later = d.later
    BY <1>3, <2>1 DEF Dialogs
  <2> HIDE DEF again
  <2>3. Held(again) = Held(d)
    BY <1>2, <2>1, <2>2, RangeOfNone DEF Held, retry
  <2> QED
    BY <1>2, <2>2, <2>3 DEF DialogOK, ActionOK, ShownOK
<1> HIDE DEF waiting, again
<1>9. CASE d.action.result = "done"
  BY <1>3, <1>5, <1>6, <1>9, RefreshingKeeps
<1>10. CASE d.action.result = "conflict"
  BY <1>5, <1>7, <1>10, RefreshingKeeps DEF Held, retry
<1>11. CASE d.action.result = "failed"
  BY <1>5, <1>8, <1>11 DEF Asks
<1> QED
  BY <1>1, <1>9, <1>10, <1>11

-----------------------------------------------------------------------------
(* The steps of the dialog *)

\* What a step of the dialog has to show.
Kept == registry' \in Registries /\ DialogOK(dialog') /\ Asks(dialog') /\ Returns(dialog, dialog')

LEMMA SameHeld ==
  ASSUME NEW d, NEW e, Held(d) \subseteq Held(e)
  PROVE  Returns(d, e)
BY DEF Returns

LEMMA FailTyped ==
  ASSUME registry \in Registries, CallFails
  PROVE  registry' \in Registries /\ registry'.of = registry.of
BY DEF CallFails, Registries

LEMMA RefreshTimerKeeps ==
  ASSUME ListsInv, RefreshTimer
  PROVE  Kept
<1> DEFINE d == [dialog EXCEPT !.later = FALSE]
<1>1. DialogOK(d) /\ Held(d) = Held(dialog)
  BY DEF ListsInv, DialogOK, Dialogs, Held, ActionOK, ShownOK
<1>2. dialog' = Refreshing(d) /\ registry' = registry
  BY DEF RefreshTimer
<1> HIDE DEF d
<1> QED
  BY <1>1, <1>2, RefreshingKeeps, SameHeld DEF Kept, ListsInv

\* A step of the query that leaves the rest alone.
LEMMA QueryKeeps ==
  ASSUME ListsInv, NEW q \in Queries, NEW revision \in Nat, q.step # "none",
         dialog' = [dialog EXCEPT !.query = q, !.revision = revision]
  PROVE  DialogOK(dialog') /\ Asks(dialog') /\ Held(dialog') = Held(dialog)
BY DEF ListsInv, DialogOK, Dialogs, Held, ActionOK, ShownOK, Asks

LEMMA ReadKeeps ==
  ASSUME ListsInv, ReadRevision \/ ReadRows
  PROVE  Kept
<1>1. /\ dialog \in Dialogs /\ dialog.query \in Queries /\ dialog.revision \in Nat
      /\ registry \in Registries /\ registry.rev \in Nat /\ registry.of \in Versions
  BY DEF ListsInv, DialogOK, Dialogs, Registries
<1>2. CASE QueryFails
  <2> DEFINE q == [dialog.query EXCEPT !.step = "answered", !.failed = TRUE]
  <2>1. q \in Queries /\ q.step # "none"
    BY <1>1 DEF Queries
  <2>2. dialog' = [dialog EXCEPT !.query = q, !.revision = dialog.revision]
    BY <1>1, <1>2 DEF QueryFails, Dialogs
  <2> HIDE DEF q
  <2> QED
    BY <1>1, <1>2, <2>1, <2>2, FailTyped, QueryKeeps, SameHeld DEF Kept, QueryFails
<1>3. CASE /\ dialog' = [dialog EXCEPT !.query.step = "revised", !.revision = registry.rev]
           /\ UNCHANGED registry
  <2> DEFINE q == [dialog.query EXCEPT !.step = "revised"]
  <2>1. q \in Queries /\ q.step # "none"
    BY <1>1 DEF Queries
  <2>2. dialog' = [dialog EXCEPT !.query = q, !.revision = registry.rev]
    BY <1>1, <1>3 DEF Dialogs
  <2> HIDE DEF q
  <2> QED
    BY <1>1, <1>3, <2>1, <2>2, QueryKeeps, SameHeld DEF Kept
<1>4. CASE /\ dialog' = [dialog EXCEPT !.query.step = "answered", !.query.rows = registry.of]
           /\ UNCHANGED registry
  <2> DEFINE q == [dialog.query EXCEPT !.step = "answered", !.rows = registry.of]
  <2>1. q \in Queries /\ q.step # "none"
    BY <1>1 DEF Queries
  <2>2. dialog' = [dialog EXCEPT !.query = q, !.revision = dialog.revision]
    BY <1>1, <1>4 DEF Dialogs
  <2> HIDE DEF q
  <2> QED
    BY <1>1, <1>4, <2>1, <2>2, QueryKeeps, SameHeld DEF Kept
<1> QED
  BY <1>2, <1>3, <1>4 DEF ReadRevision, ReadRows

LEMMA ApplyRefreshKeeps ==
  ASSUME ListsInv, ApplyRefresh
  PROVE  Kept
<1> DEFINE d == [dialog EXCEPT !.query = NoQuery]
<1>1. DialogOK(d) /\ Held(d) = Held(dialog)
  BY NoQueryTyped DEF ListsInv, DialogOK, Dialogs, Held, ActionOK, ShownOK
<1>2. /\ dialog' \in {Refreshing(d), KeepsRows(dialog), Shows(dialog)} /\ registry' = registry
  BY DEF ApplyRefresh
<1> HIDE DEF d
<1>3. DialogOK(dialog) /\ registry \in Registries
  BY DEF ListsInv
<1>4. DialogOK(dialog') /\ Asks(dialog') /\ Held(dialog') = Held(dialog)
  BY <1>1, <1>2, <1>3, RefreshingKeeps, KeepsRowsKeeps, ShowsKeeps
<1> QED
  BY <1>2, <1>3, <1>4, SameHeld DEF Kept

LEMMA DetailKeeps ==
  ASSUME ListsInv, ReadDetail \/ ApplyDetail
  PROVE  Kept
<1>1. /\ dialog \in Dialogs /\ dialog.detail \in Details /\ registry \in Registries
      /\ registry.of \in Versions /\ NoDetail \in Details
  BY DEF ListsInv, DialogOK, Dialogs, Registries, NoDetail, Details, ScheduleNo
<1>2. CASE dialog' = [dialog EXCEPT !.detail = NoDetail]
  <2>1. DialogOK(dialog') /\ Asks(dialog') /\ Held(dialog') = Held(dialog)
    BY <1>1, <1>2 DEF ListsInv, DialogOK, Dialogs, Held, ActionOK, ShownOK, Asks, NoDetail
  <2>2. registry' \in Registries
    BY <1>1, FailTyped DEF ReadDetail, ApplyDetail
  <2> QED
    BY <2>1, <2>2, SameHeld DEF Kept
<1>3. CASE /\ dialog.detail.step = "asked" /\ UNCHANGED registry
           /\ dialog' = [dialog EXCEPT !.detail.step = "answered",
                                       !.detail.version = registry.of[dialog.detail.of]]
  <2> DEFINE detail == [dialog.detail EXCEPT !.step = "answered",
                                             !.version = registry.of[dialog.detail.of]]
  <2>1. dialog.detail.of \in Schedules
    BY <1>3 DEF ListsInv, DialogOK
  <2>2. detail \in Details /\ detail.of \in Schedules
    BY <1>1, <2>1 DEF Details, Versions
  <2>3. dialog' = [dialog EXCEPT !.detail = detail]
    BY <1>1, <1>3 DEF Dialogs
  <2> HIDE DEF detail
  <2>4. DialogOK(dialog') /\ Asks(dialog') /\ Held(dialog') = Held(dialog)
    BY <2>2, <2>3 DEF ListsInv, DialogOK, Dialogs, Held, ActionOK, ShownOK, Asks
  <2> QED
    BY <1>1, <1>3, <2>4, SameHeld DEF Kept
<1>4. CASE \E s \in ScheduleNo, version \in Nat :
             /\ s = dialog.selected /\ UNCHANGED registry
             /\ dialog' = [dialog EXCEPT !.detail = NoDetail, !.rows[s] = version,
                                         !.config = Config(s, version)]
  <2>0. PICK s \in ScheduleNo, version \in Nat :
             /\ s = dialog.selected /\ UNCHANGED registry
             /\ dialog' = [dialog EXCEPT !.detail = NoDetail, !.rows[s] = version,
                                         !.config = Config(s, version)]
    BY <1>4
  <2> DEFINE rows == [dialog.rows EXCEPT ![s] = version]
             config == Config(s, version)
  <2>1. rows \in Versions
    BY DEF ListsInv, DialogOK, Dialogs, Versions
  <2>2. config \in Values /\ config.of = dialog.selected
    BY <2>0 DEF Config, Values
  <2>3. dialog' = [dialog EXCEPT !.detail = NoDetail, !.rows = rows, !.config = config]
    BY <1>1, <2>0 DEF Dialogs
  <2> HIDE DEF rows, config
  <2>4. DialogOK(dialog') /\ Asks(dialog') /\ Held(dialog') = Held(dialog)
    BY <1>1, <2>1, <2>2, <2>3
    DEF ListsInv, DialogOK, Dialogs, Held, ActionOK, ShownOK, Asks, NoDetail
  <2> QED
    BY <1>1, <2>0, <2>4, SameHeld DEF Kept
<1>5. dialog.detail.of \in ScheduleNo /\ dialog.detail.version \in Nat
  BY <1>1 DEF Details
<1> QED
  BY <1>2, <1>3, <1>4, <1>5 DEF ReadDetail, ApplyDetail

LEMMA PassKeeps ==
  ASSUME ListsInv, PassRevision
  PROVE  Kept
<1> DEFINE action == [dialog.action EXCEPT !.step = "passed", !.passes = dialog.revision]
<1>1. action \in Actions /\ action.step = "passed" /\ action.retry = dialog.action.retry
  BY DEF ListsInv, DialogOK, Dialogs, Actions
<1>2. dialog' = [dialog EXCEPT !.action = action] /\ registry' = registry
  BY DEF ListsInv, DialogOK, Dialogs, PassRevision
<1> HIDE DEF action
<1>3. DialogOK(dialog') /\ Asks(dialog') /\ Held(dialog') = Held(dialog)
  BY <1>1, <1>2 DEF ListsInv, DialogOK, Dialogs, Held, ActionOK, ShownOK, Asks
<1> QED
  BY <1>2, <1>3, SameHeld DEF Kept, ListsInv

\* The service has answered.
LEMMA ReturnedKeeps ==
  ASSUME ListsInv, NEW result \in {"done", "conflict", "failed"}, NEW revision \in Nat,
         dialog' = [Returned(result) EXCEPT !.revision = revision]
  PROVE  DialogOK(dialog') /\ Asks(dialog') /\ Held(dialog') = Held(dialog)
<1> DEFINE action == [dialog.action EXCEPT !.step = "done", !.result = result]
<1>1. action \in Actions /\ action.step = "done" /\ action.retry = dialog.action.retry
      /\ action.result = result
  BY DEF ListsInv, DialogOK, Dialogs, Actions
<1>2. dialog' = [dialog EXCEPT !.action = action, !.revision = revision]
  BY DEF ListsInv, DialogOK, Dialogs, Returned
<1> HIDE DEF action
<1> QED
  BY <1>1, <1>2 DEF ListsInv, DialogOK, Dialogs, Held, ActionOK, ShownOK, Asks

LEMMA PerformKeeps ==
  ASSUME ListsInv, Perform
  PROVE  Kept
<1>1. /\ dialog \in Dialogs /\ dialog.revision \in Nat /\ 0 \in Nat
      /\ registry \in Registries /\ registry.rev \in Nat /\ registry.of \in Versions
  BY DEF ListsInv, DialogOK, Dialogs, Registries
<1>2. CASE \E result \in {"done", "conflict", "failed"} :
             dialog' = Returned(result) /\ (UNCHANGED registry \/ CallFails)
  <2>1. PICK result \in {"done", "conflict", "failed"} :
          dialog' = Returned(result) /\ (UNCHANGED registry \/ CallFails)
    BY <1>2
  <2>2. Returned(result) = [Returned(result) EXCEPT !.revision = dialog.revision]
    BY <1>1 DEF Returned, Dialogs
  <2>3. registry' \in Registries
    BY <1>1, <2>1, FailTyped
  <2> QED
    BY <1>1, <2>1, <2>2, <2>3, ReturnedKeeps, SameHeld DEF Kept
<1>3. CASE /\ dialog' = [Returned("done") EXCEPT !.revision = 0]
           /\ \E s \in Schedules, version \in Nat :
                registry' = [registry EXCEPT !.rev = @ + 1, !.of[s] = version]
  <2>1. registry' \in Registries
    <3>1. PICK s \in Schedules, version \in Nat :
                registry' = [registry EXCEPT !.rev = @ + 1, !.of[s] = version]
      BY <1>3
    <3> DEFINE of == [registry.of EXCEPT ![s] = version]
               rev == registry.rev + 1
    <3>2. of \in Versions /\ rev \in Nat
      BY <1>1 DEF Versions
    <3>3. registry' = [registry EXCEPT !.rev = rev, !.of = of]
      BY <1>1, <3>1 DEF Registries
    <3> HIDE DEF of, rev
    <3> QED
      BY <1>1, <3>2, <3>3 DEF Registries
  <2> QED
    BY <1>1, <1>3, <2>1, ReturnedKeeps, SameHeld DEF Kept
<1>4. ASSUME NEW s \in IF dialog.action.of # 0 THEN {dialog.action.of} ELSE Free
      PROVE  s \in Schedules
  BY <1>1 DEF Dialogs, Actions, ScheduleNo, Free
<1>5. registry.rev + 1 \in Nat
  BY <1>1
<1> QED
  BY <1>1, <1>2, <1>3, <1>4, <1>5 DEF Perform

LEMMA FinishActionKeeps ==
  ASSUME ListsInv, FinishAction
  PROVE  Kept
<1>1. DialogOK(dialog) /\ dialog.action.step = "done" /\ registry' = registry /\ registry \in Registries
  BY DEF ListsInv, FinishAction
<1>2. CASE dialog.open
  <2>1. dialog' = Told(dialog)
    BY <1>2 DEF FinishAction
  <2>2. DialogOK(dialog') /\ Asks(dialog')
    BY <1>1, <2>1, ToldKeeps DEF ListsInv
  <2>3. dialog.action.result \in {"done", "conflict", "failed"}
    BY <1>1, Unpacked DEF DialogOK, ActionOK, Actions
  <2>4. Returns(dialog, dialog')
    BY <1>1, <2>1, <2>3, ToldKeeps DEF Returns
  <2> QED
    BY <1>1, <2>2, <2>4 DEF Kept
<1>3. CASE ~dialog.open
  <2>1. dialog' = [dialog EXCEPT !.action = NoAction]
    BY <1>3 DEF FinishAction
  <2>2. NoAction \in Actions /\ NoAction.step = "none" /\ NoAction.retry = <<>>
    BY DEF NoAction, Actions, ScheduleNo
  <2>3. DialogOK(dialog')
    BY <1>1, <2>1, <2>2, RangeOfNone DEF DialogOK, Dialogs, ActionOK, ShownOK, Held
  <2>4. ~dialog'.open
    BY <1>1, <1>3, <2>1 DEF DialogOK, Dialogs
  <2> QED
    BY <1>1, <2>3, <2>4 DEF Kept, Asks, Returns
<1> QED
  BY <1>2, <1>3

-----------------------------------------------------------------------------
(* The user in the dialog *)

\* One click fewer.
LEMMA ClickKeeps ==
  ASSUME NEW d, DialogOK(d), d.clicks > 0
  PROVE  /\ DialogOK(ClicksOnce(d)) /\ Held(ClicksOnce(d)) = Held(d)
         /\ ClicksOnce(d).rows = d.rows /\ ClicksOnce(d).open = d.open
         /\ ClicksOnce(d).query = d.query /\ ClicksOnce(d).later = d.later
         /\ ClicksOnce(d).action = d.action /\ ClicksOnce(d).draft = d.draft
<1> DEFINE clicks == d.clicks - 1
<1>1. clicks \in Nat
  BY DEF DialogOK, Dialogs
<1>2. ClicksOnce(d) = [d EXCEPT !.clicks = clicks]
  BY DEF ClicksOnce, DialogOK, Dialogs
<1> HIDE DEF clicks
<1> QED
  BY <1>1, <1>2 DEF DialogOK, Dialogs, Held, ActionOK, ShownOK

LEMMA SelectRowKeeps ==
  ASSUME ListsInv, SelectRow
  PROVE  Kept
<1>1. PICK s \in In(dialog.rows) : dialog' = Selecting(ClicksOnce(dialog), s)
  BY DEF SelectRow
<1>2. DialogOK(dialog) /\ dialog.clicks > 0 /\ Asks(dialog) /\ registry' = registry
  BY DEF ListsInv, SelectRow, Clicking
<1>3. DialogOK(dialog') /\ Asks(dialog') /\ Held(dialog') = Held(dialog)
  BY <1>1, <1>2, ClickKeeps, SelectingKeeps DEF Asks
<1> QED
  BY <1>2, <1>3, SameHeld DEF Kept, ListsInv

\* A question or an editor opens in front of nothing else.
LEMMA ModalOpens ==
  ASSUME ListsInv, dialog.clicks > 0, dialog.modals = <<>>, NEW m \in Editors, OwnValues(m),
         dialog' = [ClicksOnce(dialog) EXCEPT !.modals = <<m>>]
  PROVE  DialogOK(dialog') /\ Asks(dialog') /\ Held(dialog) \subseteq Held(dialog')
<1> DEFINE d == ClicksOnce(dialog)
<1>1. DialogOK(d) /\ Held(d) = Held(dialog) /\ Asks(d) /\ d.modals = <<>>
  <2>1. d.modals = <<>>
    BY DEF ClicksOnce, ListsInv, DialogOK, Dialogs
  <2> QED
    BY <2>1, ClickKeeps DEF ListsInv, Asks
<1>2. dialog' = [d EXCEPT !.modals = <<m>>]
  OBVIOUS
<1>3. <<m>> \in Seq(Editors) /\ Range(<<m>>) = {m}
  BY DEF Range
<1> HIDE DEF d
<1>4. /\ dialog' \in Dialogs /\ dialog'.modals = <<m>> /\ dialog'.draft = d.draft
      /\ dialog'.action = d.action /\ dialog'.config = d.config /\ dialog'.open = d.open
      /\ dialog'.selected = d.selected /\ dialog'.detail = d.detail
      /\ dialog'.query = d.query /\ dialog'.later = d.later
  BY <1>1, <1>2, <1>3 DEF DialogOK, Dialogs
<1>5. Held(dialog') = Held(d) \cup {m}
  BY <1>1, <1>3, <1>4, RangeOfNone DEF Held
<1> QED
  BY <1>1, <1>4, <1>5 DEF DialogOK, ActionOK, ShownOK, Asks

LEMMA ClickButtonKeeps ==
  ASSUME ListsInv, ClickButton
  PROVE  Kept
<1>1. /\ DialogOK(dialog) /\ dialog.clicks > 0 /\ dialog.modals = <<>> /\ Asks(dialog)
      /\ registry' = registry /\ registry \in Registries
  BY DEF ListsInv, ClickButton, Clicking
<1>2. /\ dialog.selected \in ScheduleNo /\ 0 \in ScheduleNo /\ dialog.config \in Values
      /\ NoConfig \in Values
      /\ dialog.config # NoConfig => dialog.config.of = dialog.selected
  BY <1>1, NoConfigTyped DEF DialogOK, Dialogs, ShownOK, ScheduleNo
<1>3. CASE \E m \in Editors : OwnValues(m) /\ dialog' = [ClicksOnce(dialog) EXCEPT !.modals = <<m>>]
  BY <1>1, <1>3, ModalOpens, SameHeld DEF Kept
<1>4. CASE \E what \in {"repair", "duplicate", "run"}, s \in ScheduleNo :
             dialog' = Acting(ClicksOnce(dialog), what, s, <<>>)
  <2>1. PICK what \in {"repair", "duplicate", "run"}, s \in ScheduleNo :
             dialog' = Acting(ClicksOnce(dialog), what, s, <<>>)
    BY <1>4
  <2> DEFINE d == ClicksOnce(dialog)
             retry == <<>>
  <2>2. /\ retry \in Seq(Editors) /\ \A m \in Range(retry) : OwnValues(m)
        /\ what \in {"save", "delete", "repair", "duplicate", "run"}
    BY RangeOfNone
  <2>3. DialogOK(d) /\ Held(d) = Held(dialog) /\ Asks(d)
    BY <1>1, ClickKeeps DEF Asks
  <2>4. dialog' = Acting(d, what, s, retry)
    BY <2>1
  <2> HIDE DEF d, retry
  <2>5. /\ DialogOK(dialog') /\ Held(d) \subseteq Held(dialog') /\ dialog'.open = d.open
        /\ dialog'.query = d.query /\ dialog'.later = d.later
    BY <2>2, <2>3, <2>4, ActingKeeps
  <2>6. Asks(dialog')
    BY <2>3, <2>5 DEF Asks
  <2> QED
    BY <1>1, <2>3, <2>5, <2>6, SameHeld DEF Kept
<1>5. /\ \A s \in ScheduleNo : Modal("editor", s, NoConfig) \in Editors
                               /\ OwnValues(Modal("editor", s, NoConfig))
      /\ \A s \in ScheduleNo : Modal("delete", s, NoConfig) \in Editors
                               /\ OwnValues(Modal("delete", s, NoConfig))
      /\ Modal("editor", dialog.selected, dialog.config) \in Editors
      /\ OwnValues(Modal("editor", dialog.selected, dialog.config))
  BY <1>2 DEF Modal, Editors, OwnValues
<1> QED
  BY <1>2, <1>3, <1>4, <1>5 DEF ClickButton

LEMMA AnswerModalKeeps ==
  ASSUME ListsInv, AnswerModal
  PROVE  Kept
<1> DEFINE m == Last(dialog.modals)
           rest == [dialog EXCEPT !.modals = Front(@)]
<1>1. /\ DialogOK(dialog) /\ Asks(dialog) /\ dialog.modals # <<>>
      /\ registry' = registry /\ registry \in Registries /\ dialog.modals \in Seq(Editors)
  BY Unpacked DEF ListsInv, AnswerModal
<1>2. /\ Front(dialog.modals) \in Seq(Editors) /\ m \in Editors /\ m \in Range(dialog.modals)
      /\ Range(Front(dialog.modals)) \subseteq Range(dialog.modals)
  BY <1>1, RangeOfFront
<1>3. OwnValues(m) /\ m.of \in ScheduleNo
  BY <1>1, <1>2 DEF DialogOK, ShownOK, Held, Editors
<1>4. /\ dialog' = rest \/ dialog' = Acting(rest, "delete", m.of, <<>>)
         \/ dialog' = Acting(rest, "save", m.of, <<m>>)
  BY DEF AnswerModal
<1>5. /\ rest \in Dialogs /\ rest.modals = Front(dialog.modals) /\ rest.draft = dialog.draft
      /\ rest.action = dialog.action /\ rest.config = dialog.config /\ rest.open = dialog.open
      /\ rest.selected = dialog.selected /\ rest.detail = dialog.detail
      /\ rest.query = dialog.query /\ rest.later = dialog.later
  BY <1>1, <1>2 DEF DialogOK, Dialogs
<1> HIDE DEF m, rest
<1>6. /\ Held(rest) \subseteq Held(dialog)
      /\ Held(dialog) \ Held(rest) \subseteq Range(dialog.modals)
  BY <1>2, <1>5 DEF Held
<1>7. DialogOK(rest) /\ Asks(rest)
  BY <1>1, <1>5, <1>6 DEF DialogOK, ActionOK, ShownOK, Asks
<1>8. /\ <<>> \in Seq(Editors) /\ <<m>> \in Seq(Editors)
      /\ \A x \in Range(<<>>) : OwnValues(x)
      /\ \A x \in Range(<<m>>) : OwnValues(x)
  BY <1>2, <1>3 DEF Range
<1>9. DialogOK(dialog') /\ Asks(dialog') /\ Held(rest) \subseteq Held(dialog')
  <2>1. CASE dialog' = rest
    BY <1>7, <2>1
  <2>2. ASSUME NEW retry \in {<<>>, <<m>>}, NEW what \in {"save", "delete"},
               dialog' = Acting(rest, what, m.of, retry)
        PROVE  /\ DialogOK(dialog') /\ Held(rest) \subseteq Held(dialog')
               /\ dialog'.open = rest.open
               /\ dialog'.query = rest.query /\ dialog'.later = rest.later
    <3>1. retry \in Seq(Editors) /\ \A x \in Range(retry) : OwnValues(x)
      BY <1>8
    <3>2. what \in {"save", "delete", "repair", "duplicate", "run"}
      OBVIOUS
    <3> QED
      BY <1>3, <1>7, <2>2, <3>1, <3>2, ActingKeeps
  <2>3. CASE dialog' # rest
    BY <1>4, <1>7, <2>2, <2>3 DEF Asks
  <2> QED
    BY <2>1, <2>3
<1> QED
  BY <1>1, <1>6, <1>9 DEF Kept, Returns

-----------------------------------------------------------------------------
(* The settings are opened and closed *)

LEMMA NewDialogTyped ==
  ASSUME NEW opens \in Nat, NEW clicks \in Nat
  PROVE  /\ DialogOK(NewDialog(opens, clicks)) /\ ~NewDialog(opens, clicks).open
         /\ NewDialog(opens, clicks).query.step = "none"
<1>1. /\ NoQuery \in Queries /\ NoQuery.step = "none"
      /\ NoDetail \in Details /\ NoDetail.step = "none"
      /\ NoAction \in Actions /\ NoAction.step = "none" /\ NoAction.retry = <<>>
      /\ NoConfig \in Values /\ Nothing \in Versions /\ <<>> \in Seq(Editors) /\ 0 \in ScheduleNo
  BY NoQueryTyped, NoConfigTyped, NothingTyped
  DEF NoQuery, NoDetail, Details, NoAction, Actions, ScheduleNo
<1> DEFINE d == NewDialog(opens, clicks)
<1>2. /\ d \in Dialogs /\ ~d.open /\ d.query = NoQuery /\ d.detail = NoDetail
      /\ d.action = NoAction /\ d.config = NoConfig /\ d.modals = <<>> /\ d.draft = <<>>
  BY <1>1 DEF NewDialog, Dialogs
<1> HIDE DEF d
<1>3. Held(d) = {}
  BY <1>1, <1>2, RangeOfNone DEF Held
<1>4. DialogOK(d) /\ ~d.open /\ d.query.step = "none"
  BY <1>1, <1>2, <1>3 DEF DialogOK, ActionOK, ShownOK
<1> QED
  BY <1>4 DEF d

LEMMA OpenKeeps ==
  ASSUME ListsInv, OpenSettings
  PROVE  ListsInv' /\ Returns(dialog, dialog')
<1> DEFINE d == NewDialog(dialog.opens - 1, dialog.clicks)
<1>1. dialog.opens - 1 \in Nat /\ dialog.clicks \in Nat
  BY DEF ListsInv, DialogOK, Dialogs, OpenSettings
<1>2. DialogOK(d)
  BY <1>1, NewDialogTyped
<1>3. /\ dialog' = [Refreshing(d) EXCEPT !.open = TRUE] /\ registry' = registry
      /\ schedules' = [schedules EXCEPT !.suspended = TRUE, !.later = FALSE]
  BY DEF OpenSettings
<1> HIDE DEF d
<1> DEFINE e == Refreshing(d)
<1>4. DialogOK(e) /\ e.query.step # "none"
  <2>1. DialogOK(e)
    BY <1>2, RefreshingKeeps
  <2>2. e.query.step # "none"
    BY <1>2, NoQueryTyped DEF Refreshing, DialogOK, Dialogs, Queries
  <2> QED
    BY <2>1, <2>2
<1>5. dialog' = [e EXCEPT !.open = TRUE]
  BY <1>3
<1> HIDE DEF e
<1>6. DialogOK(dialog') /\ Asks(dialog') /\ dialog'.open
  BY <1>4, <1>5 DEF DialogOK, Dialogs, ActionOK, ShownOK, Held, Asks
<1>7. schedules' \in Lists(schedules'.rows) /\ schedules'.suspended
  BY <1>3 DEF ListsInv, Lists
<1> QED
  BY <1>3, <1>6, <1>7 DEF ListsInv, ListAsks, Returns, OpenSettings

\* The main window asks.
LEMMA ListAskedKeeps ==
  ASSUME NEW l, l \in Lists(l.rows)
  PROVE  /\ ListAsked(l) \in Lists(ListAsked(l).rows)
         /\ ListAsks(ListAsked(l)) /\ ListAsked(l).suspended = l.suspended
<1> DEFINE m == ListAsked(l)
<1>1. CASE l.suspended \/ ~l.service
  BY <1>1 DEF ListAsked, ListAsks, Lists
<1>2. CASE ~(l.suspended \/ ~l.service) /\ l.step = "none"
  <2>1. m = [l EXCEPT !.step = "asked"]
    BY <1>2 DEF ListAsked
  <2> QED
    BY <2>1 DEF ListAsks, Lists
<1>3. CASE ~(l.suspended \/ ~l.service) /\ l.step # "none"
  <2>1. m = [l EXCEPT !.again = TRUE]
    BY <1>3 DEF ListAsked
  <2> QED
    BY <1>3, <2>1 DEF ListAsks, Lists
<1> QED
  BY <1>1, <1>2, <1>3

LEMMA CloseKeeps ==
  ASSUME ListsInv, CloseSettings
  PROVE  ListsInv' /\ Returns(dialog, dialog')
<1> DEFINE d == NewDialog(dialog.opens, dialog.clicks)
           l == [schedules EXCEPT !.suspended = FALSE]
<1>1. /\ dialog.opens \in Nat /\ dialog.clicks \in Nat /\ dialog.action \in Actions
      /\ dialog.revision \in Nat /\ ActionOK(dialog)
      /\ \A m \in Range(dialog.action.retry) : OwnValues(m)
      /\ registry \in Registries /\ registry.rev \in Nat /\ registry.of \in Versions
  BY DEF ListsInv, DialogOK, Dialogs, Registries, ShownOK, Held
<1>2. DialogOK(d) /\ ~d.open
  BY <1>1, NewDialogTyped
<1>3. /\ dialog' = [d EXCEPT !.action = dialog.action, !.revision = dialog.revision]
      /\ schedules' = ListAsked(l)
  BY DEF CloseSettings, DialogGone, Resumed
<1>4. d.modals = <<>> /\ d.draft = <<>>
  BY DEF NewDialog
<1> HIDE DEF d
<1>5. DialogOK(dialog') /\ ~dialog'.open
  <2>1. /\ dialog' \in Dialogs /\ ~dialog'.open /\ dialog'.action = dialog.action
        /\ dialog'.modals = <<>> /\ dialog'.draft = <<>> /\ dialog'.config = d.config
        /\ dialog'.selected = d.selected /\ dialog'.detail = d.detail
    BY <1>1, <1>2, <1>3, <1>4 DEF DialogOK, Dialogs
  <2>2. Held(dialog') = Range(dialog.action.retry)
    BY <2>1, RangeOfNone DEF Held
  <2> QED
    BY <1>1, <1>2, <2>1, <2>2 DEF DialogOK, ActionOK, ShownOK
<1>6. l \in Lists(l.rows) /\ ~l.suspended
  BY DEF ListsInv, Lists
<1> HIDE DEF l
<1>7. schedules' \in Lists(schedules'.rows) /\ ListAsks(schedules') /\ ~schedules'.suspended
  BY <1>3, <1>6, ListAskedKeeps
<1>8. registry' \in Registries
  <2>1. PICK upgraded \in SUBSET Schedules :
          registry' = [registry EXCEPT !.rev = @ + Cardinality(upgraded),
                         !.of = [s \in Schedules |-> IF s \in upgraded
                                                     THEN registry.rev + Cardinality(upgraded)
                                                     ELSE @[s]]]
    BY DEF CloseSettings, In
  <2>2. Cardinality(upgraded) \in Nat
    BY FS_Subset, FS_CardinalityType, SchedulesAssumption
  <2> DEFINE rev == registry.rev + Cardinality(upgraded)
             of == [s \in Schedules |-> IF s \in upgraded THEN rev ELSE registry.of[s]]
  <2>3. rev \in Nat
    BY <1>1, <2>2
  <2>4. of \in Versions
    BY <1>1, <2>3 DEF Versions
  <2>5. registry' = [registry EXCEPT !.rev = rev, !.of = of]
    BY <1>1, <2>1 DEF Registries
  <2> HIDE DEF rev, of
  <2> QED
    BY <1>1, <2>3, <2>4, <2>5 DEF Registries
<1> QED
  BY <1>5, <1>7, <1>8 DEF ListsInv, Asks, Returns

-----------------------------------------------------------------------------
(* The main window and the others *)

LEMMA ListTimerKeeps ==
  ASSUME ListsInv, ListTimer
  PROVE  ListsInv' /\ UNCHANGED dialog
<1> DEFINE l == [schedules EXCEPT !.later = FALSE]
<1>1. l \in Lists(l.rows) /\ l.suspended = schedules.suspended
  BY DEF ListsInv, Lists
<1>2. schedules' = ListAsked(l) /\ UNCHANGED <<registry, dialog>>
  BY DEF ListTimer
<1> HIDE DEF l
<1>3. /\ schedules' \in Lists(schedules'.rows) /\ ListAsks(schedules')
      /\ schedules'.suspended = schedules.suspended
  BY <1>1, <1>2, ListAskedKeeps
<1> QED
  BY <1>2, <1>3 DEF ListsInv

LEMMA ListReadsKeeps ==
  ASSUME ListsInv, NEW answer, ListReads(answer)
  PROVE  ListsInv' /\ UNCHANGED dialog
<1>1. schedules' = [schedules EXCEPT !.step = "answered"] /\ UNCHANGED dialog
  BY DEF ListReads
<1>2. /\ schedules' \in Lists(schedules'.rows) /\ ListAsks(schedules')
      /\ schedules'.suspended = schedules.suspended
  BY <1>1 DEF ListsInv, Lists, ListAsks
<1>3. registry' \in Registries
  BY FailTyped DEF ListsInv, ListReads
<1> QED
  BY <1>1, <1>2, <1>3 DEF ListsInv

LEMMA ListAnsweredKeeps ==
  ASSUME ListsInv, NEW answer, schedules' = ListAnswered(answer), UNCHANGED <<registry, dialog>>
  PROVE  ListsInv'
<1>1. CASE schedules.again
  <2> DEFINE l == [schedules EXCEPT !.step = "none", !.again = FALSE]
  <2>1. l \in Lists(l.rows) /\ l.suspended = schedules.suspended
    BY DEF ListsInv, Lists
  <2>2. schedules' = ListAsked(l)
    BY <1>1 DEF ListAnswered
  <2> HIDE DEF l
  <2>3. /\ schedules' \in Lists(schedules'.rows) /\ ListAsks(schedules')
        /\ schedules'.suspended = schedules.suspended
    BY <2>1, <2>2, ListAskedKeeps
  <2> QED
    BY <2>3 DEF ListsInv
<1>2. CASE ~schedules.again
  <2> DEFINE rows == IF answer.failed THEN schedules.rows ELSE answer.rows
  <2>1. schedules' = [schedules EXCEPT !.step = "none", !.later = ~schedules.suspended,
                                       !.rows = rows]
    BY <1>2 DEF ListAnswered, ListsInv, Lists
  <2> HIDE DEF rows
  <2>2. /\ schedules' \in Lists(schedules'.rows) /\ ListAsks(schedules')
        /\ schedules'.suspended = schedules.suspended
    BY <2>1 DEF ListsInv, Lists, ListAsks
  <2> QED
    BY <2>2 DEF ListsInv
<1> QED
  BY <1>1, <1>2

LEMMA OthersKeep ==
  ASSUME ListsInv, OthersEdit
  PROVE  ListsInv' /\ UNCHANGED dialog
<1>1. registry \in Registries /\ registry.rev \in Nat /\ registry.of \in Versions
      /\ registry.others \in SUBSET Schedules
  BY DEF ListsInv, Registries
<1>2. PICK s \in registry.others, version \in {0, registry.rev + 1} :
         registry' = [registry EXCEPT !.rev = @ + 1, !.of[s] = version, !.others = @ \ {s}]
  BY DEF OthersEdit
<1> DEFINE rev == registry.rev + 1
           of == [registry.of EXCEPT ![s] = version]
           others == registry.others \ {s}
<1>3. rev \in Nat /\ of \in Versions /\ others \in SUBSET Schedules
  BY <1>1 DEF Versions
<1>4. registry' = [registry EXCEPT !.rev = rev, !.of = of, !.others = others]
  BY <1>1, <1>2 DEF Registries
<1> HIDE DEF rev, of, others
<1>5. registry' \in Registries
  BY <1>1, <1>3, <1>4 DEF Registries
<1> QED
  BY <1>5 DEF ListsInv, OthersEdit

-----------------------------------------------------------------------------
(* All steps *)

LEMMA ListsInit == WindowInit => ListsInv
<1> SUFFICES ASSUME WindowInit PROVE ListsInv
  OBVIOUS
<1>1. PICK user \in ScheduleUsers : ScheduleInit(user)
  BY UsersAssumption DEF WindowInit
<1>2. /\ user.service \in BOOLEAN /\ user.registered \in SUBSET Schedules
      /\ user.others \in SUBSET Schedules /\ user.faults \in Nat
      /\ user.opens \in Nat /\ user.edits \in Nat
  BY DEF ScheduleUsers
<1>3. DialogOK(dialog) /\ ~dialog.open
  BY <1>1, <1>2, NewDialogTyped DEF ScheduleInit
<1>4. registry \in Registries
  BY <1>1, <1>2 DEF ScheduleInit, Registries, Versions
<1>5. schedules \in Lists(schedules.rows) /\ ListAsks(schedules) /\ ~schedules.suspended
  BY <1>1, <1>2 DEF ScheduleInit, Lists, ListAsks
<1> QED
  BY <1>3, <1>4, <1>5 DEF ListsInv, Asks

\* What the steps of the window do to the schedules.
LEMMA WindowMoves ==
  ASSUME [WindowNext]_windowVars
  PROVE  \/ UNCHANGED scheduleVars
         \/ \E answer : schedules' = ListAnswered(answer) /\ UNCHANGED <<registry, dialog>>
         \/ (\E answer : ListReads(answer)) \/ ListTimer \/ OthersEdit
         \/ RefreshStep \/ ReadDetail \/ ApplyDetail \/ ActionStep
         \/ OpenSettings \/ DialogUser
<1>1. CASE Poll
  <2>1. ASSUME NEW c, HandleCall(c)
        PROVE  \/ UNCHANGED scheduleVars
               \/ \E answer : schedules' = ListAnswered(answer) /\ UNCHANGED <<registry, dialog>>
    BY <2>1 DEF HandleCall, ResetDownload, HandleLoad, scheduleVars
  <2> QED
    BY <1>1, <2>1 DEF Poll, HandleEvent
<1>2. CASE ThreadStep \/ Worker \/ Editor \/ Finalize
  BY <1>2 DEF ThreadStep, Slot, Running, ThreadEnds, Worker, Editor, Finalize
<1>3. CASE ListStep \/ World
  BY <1>3 DEF ListStep, ListReader, ListDue, World
<1>4. CASE DialogRefresh \/ DialogDetail \/ DialogAction
  BY <1>4 DEF DialogRefresh, DialogDetail, DialogAction
<1>5. CASE User
  BY <1>5 DEF User, Start, CancelClick, Select, ReloadClick, Close, Settings
<1>6. CASE UNCHANGED windowVars
  BY <1>6 DEF windowVars, scheduleVars
<1> QED
  BY <1>1, <1>2, <1>3, <1>4, <1>5, <1>6 DEF WindowNext

\* Only opening and closing changes whether the dialog is there.
LEMMA OpenStays ==
  ASSUME ListsInv,
         RefreshStep \/ ReadDetail \/ ApplyDetail \/ ActionStep
           \/ SelectRow \/ ClickButton \/ AnswerModal
  PROVE  dialog'.open = dialog.open /\ UNCHANGED schedules
<1>1. dialog \in Dialogs
  BY DEF ListsInv, DialogOK
<1>2. CASE RefreshTimer
  BY <1>1, <1>2 DEF RefreshTimer, Refreshing, Dialogs
<1>3. CASE ReadRevision \/ ReadRows
  BY <1>1, <1>3 DEF ReadRevision, ReadRows, QueryFails, Dialogs
<1>4. CASE ApplyRefresh
  BY <1>1, <1>4 DEF ApplyRefresh, Refreshing, KeepsRows, Selecting, Shows, Dialogs
<1>5. CASE ReadDetail \/ ApplyDetail
  BY <1>1, <1>5 DEF ReadDetail, ApplyDetail, Dialogs
<1>6. CASE PassRevision
  BY <1>1, <1>6 DEF PassRevision, Dialogs
<1>7. CASE Perform
  BY <1>1, <1>7 DEF Perform, Returned, Dialogs
<1>8. CASE FinishAction
  BY <1>1, <1>8, ToldKeeps DEF FinishAction, ListsInv, Dialogs
<1>9. CASE SelectRow \/ ClickButton \/ AnswerModal
  BY <1>1, <1>9 DEF SelectRow, ClickButton, AnswerModal, Selecting, ClicksOnce, Acting, Dialogs
<1> QED
  BY <1>2, <1>3, <1>4, <1>5, <1>6, <1>7, <1>8, <1>9 DEF RefreshStep, ActionStep

LEMMA ListsKeep ==
  ASSUME ListsInv, [WindowNext]_windowVars
  PROVE  ListsInv' /\ Returns(dialog, dialog')
<1>1. ASSUME UNCHANGED dialog
      PROVE  Returns(dialog, dialog')
  BY <1>1, SameHeld
<1>2. CASE UNCHANGED scheduleVars
  BY <1>1, <1>2 DEF scheduleVars, ListsInv
<1>3. CASE \E answer : schedules' = ListAnswered(answer) /\ UNCHANGED <<registry, dialog>>
  BY <1>1, <1>3, ListAnsweredKeeps
<1>4. CASE (\E answer : ListReads(answer)) \/ ListTimer \/ OthersEdit
  BY <1>1, <1>4, ListReadsKeeps, ListTimerKeeps, OthersKeep
<1>5. CASE OpenSettings \/ CloseSettings
  BY <1>5, OpenKeeps, CloseKeeps
<1>6. CASE RefreshStep \/ ReadDetail \/ ApplyDetail \/ ActionStep
           \/ SelectRow \/ ClickButton \/ AnswerModal
  <2>1. Kept
    BY <1>6, RefreshTimerKeeps, ReadKeeps, ApplyRefreshKeeps, DetailKeeps, PassKeeps,
       PerformKeeps, FinishActionKeeps, SelectRowKeeps, ClickButtonKeeps, AnswerModalKeeps
    DEF RefreshStep, ActionStep
  <2>2. dialog'.open = dialog.open /\ schedules' = schedules
    BY <1>6, OpenStays
  <2> QED
    BY <2>1, <2>2 DEF Kept, ListsInv
<1> QED
  BY <1>2, <1>3, <1>4, <1>5, <1>6, WindowMoves DEF DialogUser

LEMMA ListsInvariance == WindowSpec => []ListsInv
<1>1. WindowInit => ListsInv
  BY ListsInit
<1>2. ListsInv /\ [WindowNext]_windowVars => ListsInv'
  BY ListsKeep
<1> QED
  BY <1>1, <1>2, PTL DEF WindowSpec

\* Whatever list shows something else than what is registered will be read again
\* (gui/main_window.py _apply_schedule_collection, gui/settings_dialog.py
\* _apply_multi_schedule_refresh), however queries fail and whoever edits meanwhile.
THEOREM ListsCatchUpHolds == WindowSpec => []ListsCatchUp
<1>1. ListsInv => ListsCatchUp
  BY DEF ListsInv, Asks, ListAsks, ListsCatchUp, DialogAsks, MainListAsks
<1> QED
  BY <1>1, ListsInvariance, PTL

\* What the dialog shows and edits is of the selected schedule, and what the user has
\* typed comes back from every refusal (gui/settings_dialog.py
\* _finish_multi_schedule_action).
THEOREM EditsKeptHolds == WindowSpec => EditsKept
<1>1. ListsInv => ShownIsSelected
  <2> SUFFICES ASSUME ListsInv PROVE ShownIsSelected
    OBVIOUS
  <2>1. \A i \in DOMAIN dialog.modals : dialog.modals[i] \in Held(dialog)
    BY DEF Held, Range
  <2> QED
    BY <2>1 DEF ListsInv, DialogOK, ShownOK, OwnValues, ShownIsSelected
<1>2. ListsInv /\ ListsInv' /\ [WindowNext]_windowVars => [ShownIsSelected' /\ EditsReturn]_dialog
  <2> SUFFICES ASSUME ListsInv, ListsInv', [WindowNext]_windowVars
               PROVE  ShownIsSelected' /\ EditsReturn
    OBVIOUS
  <2>1. ShownIsSelected'
    BY <1>1, PTL
  <2>2. Returns(dialog, dialog')
    BY ListsKeep
  <2>3. Held(dialog)' = Held(dialog')
    BY DEF Held
  <2> QED
    BY <2>1, <2>2, <2>3 DEF Returns, EditsReturn
<1> QED
  BY <1>2, ListsInvariance, PTL DEF WindowSpec, EditsKept

-----------------------------------------------------------------------------
(* Folds over sequences.  FoldLeft is a function on the sets of positions, *)
(* which takes the greatest one off; on the first k positions it is what a *)
(* loop has after k rounds.                                                *)

\* A set of numbers that has zero and with each number the next has them all.
LEMMA NatSetInduction ==
  ASSUME NEW S, 0 \in S, \A n \in Nat : n \in S => n + 1 \in S
  PROVE  Nat \subseteq S
<1> DEFINE Less == OpToRel(<, Nat)
<1>1. IsWellFoundedOn(Less, Nat)
  BY NatLessThanWellFounded
<1>2. \A m, n \in Nat : m < n => <<m, n>> \in Less
  BY DEF OpToRel
<1> SUFFICES ASSUME Nat \ S # {} PROVE FALSE
  OBVIOUS
<1> HIDE DEF Less
<1>3. PICK x \in Nat \ S : \A y \in Nat \ S : <<y, x>> \notin Less
  <2> DEFINE T == Nat \ S
  <2>1. T \subseteq Nat /\ T # {}
    OBVIOUS
  <2> HIDE DEF T
  <2>2. \E x \in T : \A y \in T : ~ (<<y, x>> \in Less)
    BY <1>1, <2>1, WFMin
  <2> QED
    BY <2>2 DEF T
<1>4. x # 0 /\ x - 1 \in Nat /\ x - 1 < x /\ x - 1 + 1 = x
  BY <1>3
<1>5. x - 1 \notin S
  BY <1>2, <1>3, <1>4
<1> QED
  BY <1>2, <1>3, <1>4, <1>5

\* f takes off the greatest position of a set, as far as n.
Rounds(f, A, base, n, G) ==
  /\ f \in [SUBSET (1 .. n) -> A]
  /\ \A s \in SUBSET (1 .. n) :
        f[s] = IF s = {} THEN base ELSE G[<<Max(s), f[s \ {Max(s)}]>>]

LEMMA GreatestOf ==
  ASSUME NEW n \in Nat, NEW s \in SUBSET (1 .. n + 1), n + 1 \in s
  PROVE  Max(s) = n + 1
<1> DEFINE Top(x) == x \in s /\ \A y \in s : x >= y
<1>1. Top(n + 1)
  OBVIOUS
<1>2. \A x : Top(x) => x = n + 1
  OBVIOUS
<1> QED
  BY <1>1, <1>2 DEF Max

LEMMA RoundsExist ==
  ASSUME NEW A, NEW base \in A, NEW n \in Nat, NEW G \in [(1 .. n) \X A -> A]
  PROVE  \E f : Rounds(f, A, base, n, G)
<1> DEFINE S == {m \in Nat : m <= n => \E f : Rounds(f, A, base, m, G)}
<1>1. 0 \in S
  <2> DEFINE f == [s \in SUBSET (1 .. 0) |-> base]
  <2>1. Rounds(f, A, base, 0, G)
    BY DEF Rounds
  <2> QED
    BY <2>1
<1>2. ASSUME NEW m \in Nat, m \in S PROVE m + 1 \in S
  <2> SUFFICES ASSUME m + 1 <= n PROVE \E f : Rounds(f, A, base, m + 1, G)
    OBVIOUS
  <2>1. PICK g : Rounds(g, A, base, m, G)
    BY <1>2
  <2> DEFINE h == [s \in SUBSET (1 .. m + 1) |->
                     IF m + 1 \in s THEN G[<<m + 1, g[s \ {m + 1}]>>] ELSE g[s]]
  <2>2. ASSUME NEW s \in SUBSET (1 .. m + 1)
        PROVE  /\ s \ {m + 1} \in SUBSET (1 .. m)
               /\ m + 1 \notin s => s \in SUBSET (1 .. m)
    OBVIOUS
  <2>3. \A s \in SUBSET (1 .. m) : g[s] \in A
    BY <2>1 DEF Rounds
  <2>4. m + 1 \in 1 .. n
    OBVIOUS
  <2>5. ASSUME NEW s \in SUBSET (1 .. m + 1)
        PROVE  /\ h[s] \in A
               /\ h[s] = IF s = {} THEN base ELSE G[<<Max(s), h[s \ {Max(s)}]>>]
    <3>1. CASE m + 1 \in s
      <4>1. Max(s) = m + 1 /\ s # {}
        BY <3>1, GreatestOf
      <4>2. h[s] = G[<<m + 1, g[s \ {m + 1}]>>] /\ h[s \ {m + 1}] = g[s \ {m + 1}]
        BY <2>2, <3>1
      <4>3. h[s] \in A
        BY <2>2, <2>3, <2>4, <4>2
      <4> QED
        BY <4>1, <4>2, <4>3
    <3>2. CASE m + 1 \notin s
      <4>1. s \in SUBSET (1 .. m) /\ h[s] = g[s]
        BY <2>2, <3>2
      <4>2. g[s] \in A /\ g[s] = IF s = {} THEN base ELSE G[<<Max(s), g[s \ {Max(s)}]>>]
        BY <2>1, <4>1 DEF Rounds
      <4>3. /\ s \ {Max(s)} \in SUBSET (1 .. m + 1) /\ m + 1 \notin s \ {Max(s)}
        BY <3>2
      <4>4. h[s \ {Max(s)}] = g[s \ {Max(s)}]
        BY <4>3
      <4> QED
        BY <4>1, <4>2, <4>4
    <3> QED
      BY <3>1, <3>2
  <2>6. h \in [SUBSET (1 .. m + 1) -> A]
    <3> SUFFICES ASSUME NEW s \in SUBSET (1 .. m + 1) PROVE h[s] \in A
      BY DEF h
    <3> QED
      BY <2>5
  <2> HIDE DEF h
  <2>7. Rounds(h, A, base, m + 1, G)
    BY <2>5, <2>6 DEF Rounds
  <2> QED
    BY <2>7
<1> HIDE DEF S
<1>3. Nat \subseteq S
  BY <1>1, <1>2, NatSetInduction
<1> QED
  BY <1>3 DEF S

LEMMA GreatestIn ==
  ASSUME NEW n \in Nat, NEW s \in SUBSET (1 .. n), s # {}
  PROVE  Max(s) \in s
<1> DEFINE S == {m \in Nat : \A t \in SUBSET (1 .. m) : t # {} => Max(t) \in t}
<1>1. 0 \in S
  BY 1 .. 0 = {}
<1>2. ASSUME NEW m \in Nat, m \in S PROVE m + 1 \in S
  <2> SUFFICES ASSUME NEW t \in SUBSET (1 .. m + 1), t # {} PROVE Max(t) \in t
    OBVIOUS
  <2>1. CASE m + 1 \in t
    BY <2>1, GreatestOf
  <2>2. CASE m + 1 \notin t
    <3>1. t \in SUBSET (1 .. m)
      BY <2>2
    <3> QED
      BY <1>2, <3>1
  <2> QED
    BY <2>1, <2>2
<1> HIDE DEF S
<1>3. Nat \subseteq S
  BY <1>1, <1>2, NatSetInduction
<1> QED
  BY <1>3 DEF S

\* The positions of the first k rounds.
LEMMA PositionsOf ==
  ASSUME NEW n \in Nat, NEW k \in 1 .. n
  PROVE  /\ 1 .. k \in SUBSET (1 .. n) /\ 1 .. k # {} /\ Max(1 .. k) = k
         /\ (1 .. k) \ {k} = 1 .. k - 1
<1>1. k - 1 \in Nat /\ k - 1 + 1 = k /\ k \in 1 .. k
  OBVIOUS
<1>2. \A m \in Nat : m + 1 = k => Max(1 .. m + 1) = m + 1
  BY GreatestOf
<1> QED
  BY <1>1, <1>2

\* The rounds of the loop that leaves out what it has met.
LEMMA DeduplicatedRounds ==
  ASSUME NEW S, NEW s \in Seq(S)
  PROVE  \E g :
           /\ Deduplicated(s) = g[Len(s)]
           /\ g[0] = <<>>
           /\ \A k \in 1 .. Len(s) :
                g[k] = IF s[k] \in ToSet(g[k - 1]) THEN g[k - 1] ELSE Append(g[k - 1], s[k])
<1> DEFINE n == Len(s)
           Op(kept, d) == IF d \in ToSet(kept) THEN kept ELSE Append(kept, d)
           G == [p \in (1 .. n) \X Seq(S) |-> Op(p[2], s[p[1]])]
           F(f) == [x \in SUBSET DOMAIN s |->
                      IF x = {} THEN <<>> ELSE Op(f[x \ {Max(x)}], s[Max(x)])]
<1>1. n \in Nat /\ DOMAIN s = 1 .. n /\ <<>> \in Seq(S)
  OBVIOUS
<1>2. \A k \in 1 .. n, x \in Seq(S) : Op(x, s[k]) \in Seq(S)
  OBVIOUS
<1>3. G \in [(1 .. n) \X Seq(S) -> Seq(S)]
  BY <1>2
<1>4. \A k \in 1 .. n, x \in Seq(S) : G[<<k, x>>] = Op(x, s[k])
  OBVIOUS
<1> HIDE DEF G, Op, n
<1>5. PICK f : Rounds(f, Seq(S), <<>>, n, G)
  BY <1>1, <1>3, RoundsExist
<1>6. f = F(f)
  <2>1. ASSUME NEW x \in SUBSET (1 .. n), x # {}
        PROVE  f[x] = Op(f[x \ {Max(x)}], s[Max(x)])
    <3>1. Max(x) \in 1 .. n
      BY <1>1, <2>1, GreatestIn
    <3>2. x \ {Max(x)} \in SUBSET (1 .. n)
      OBVIOUS
    <3>3. f[x \ {Max(x)}] \in Seq(S)
      BY <1>5, <3>2 DEF Rounds
    <3>4. f[x] = G[<<Max(x), f[x \ {Max(x)}]>>]
      BY <1>5, <2>1 DEF Rounds
    <3> QED
      BY <1>4, <3>1, <3>3, <3>4
  <2>2. f[{}] = <<>> /\ f = [x \in SUBSET (1 .. n) |-> f[x]]
    BY <1>5 DEF Rounds
  <2> QED
    BY <1>1, <2>1, <2>2
<1> DEFINE total == CHOOSE h : h = F(h)
<1>7. total = F(total)
  BY <1>6
<1>8. Deduplicated(s) = total[DOMAIN s]
  BY DEF Deduplicated, FoldLeft, MapThenFoldSet, Op
<1> HIDE DEF total
<1>9. total[{}] = <<>>
  BY <1>1, <1>7
<1>10. \A k \in 1 .. n : total[1 .. k] = Op(total[1 .. k - 1], s[k])
  <2> TAKE k \in 1 .. n
  <2>1. 1 .. k \in SUBSET (1 .. n) /\ 1 .. k # {} /\ Max(1 .. k) = k /\ (1 .. k) \ {k} = 1 .. k - 1
    BY <1>1, PositionsOf
  <2> QED
    BY <1>1, <1>7, <2>1
<1> DEFINE g == [k \in 0 .. n |-> total[1 .. k]]
<1>11. g[n] = Deduplicated(s)
  BY <1>1, <1>8
<1>12. g[0] = <<>>
  BY <1>1, <1>9
<1>13. \A k \in 1 .. n : g[k] = Op(g[k - 1], s[k])
  BY <1>1, <1>10
<1> QED
  BY <1>11, <1>12, <1>13 DEF Op, n

\* The rounds of the loop that keeps what passes the filter.
LEMMA TargetsRounds ==
  ASSUME NEW S, NEW r, r.files \in Seq(S)
  PROVE  \E g :
           /\ Targets(r) = g[Len(r.files)]
           /\ g[0] = <<>>
           /\ \A k \in 1 .. Len(r.files) :
                g[k] = IF r.files[k] \in Wanted THEN Append(g[k - 1], r.files[k]) ELSE g[k - 1]
<1> DEFINE s == r.files
           n == Len(s)
           Op(kept, d) == IF d \in Wanted THEN Append(kept, d) ELSE kept
           G == [p \in (1 .. n) \X Seq(S) |-> Op(p[2], s[p[1]])]
           F(f) == [x \in SUBSET DOMAIN s |->
                      IF x = {} THEN <<>> ELSE Op(f[x \ {Max(x)}], s[Max(x)])]
<1>1. n \in Nat /\ DOMAIN s = 1 .. n /\ <<>> \in Seq(S)
  OBVIOUS
<1>2. \A k \in 1 .. n, x \in Seq(S) : Op(x, s[k]) \in Seq(S)
  OBVIOUS
<1>3. G \in [(1 .. n) \X Seq(S) -> Seq(S)]
  BY <1>2
<1>4. \A k \in 1 .. n, x \in Seq(S) : G[<<k, x>>] = Op(x, s[k])
  OBVIOUS
<1> HIDE DEF G, Op, n
<1>5. PICK f : Rounds(f, Seq(S), <<>>, n, G)
  BY <1>1, <1>3, RoundsExist
<1>6. f = F(f)
  <2>1. ASSUME NEW x \in SUBSET (1 .. n), x # {}
        PROVE  f[x] = Op(f[x \ {Max(x)}], s[Max(x)])
    <3>1. Max(x) \in 1 .. n
      BY <1>1, <2>1, GreatestIn
    <3>2. x \ {Max(x)} \in SUBSET (1 .. n)
      OBVIOUS
    <3>3. f[x \ {Max(x)}] \in Seq(S)
      BY <1>5, <3>2 DEF Rounds
    <3>4. f[x] = G[<<Max(x), f[x \ {Max(x)}]>>]
      BY <1>5, <2>1 DEF Rounds
    <3> QED
      BY <1>4, <3>1, <3>3, <3>4
  <2>2. f[{}] = <<>> /\ f = [x \in SUBSET (1 .. n) |-> f[x]]
    BY <1>5 DEF Rounds
  <2> QED
    BY <1>1, <2>1, <2>2
<1> DEFINE total == CHOOSE h : h = F(h)
<1>7. total = F(total)
  BY <1>6
<1>8. Targets(r) = total[DOMAIN s]
  BY DEF Targets, FoldLeft, MapThenFoldSet, Op
<1> HIDE DEF total
<1>9. total[{}] = <<>>
  BY <1>1, <1>7
<1>10. \A k \in 1 .. n : total[1 .. k] = Op(total[1 .. k - 1], s[k])
  <2> TAKE k \in 1 .. n
  <2>1. 1 .. k \in SUBSET (1 .. n) /\ 1 .. k # {} /\ Max(1 .. k) = k /\ (1 .. k) \ {k} = 1 .. k - 1
    BY <1>1, PositionsOf
  <2> QED
    BY <1>1, <1>7, <2>1
<1> DEFINE g == [k \in 0 .. n |-> total[1 .. k]]
<1>11. g[n] = Targets(r)
  BY <1>1, <1>8
<1>12. g[0] = <<>>
  BY <1>1, <1>9
<1>13. \A k \in 1 .. n : g[k] = Op(g[k - 1], s[k])
  BY <1>1, <1>10
<1> QED
  BY <1>11, <1>12, <1>13 DEF Op, n

\* What an element at the end adds.
LEMMA AppendIs ==
  ASSUME NEW S, NEW s \in Seq(S), NEW x \in S
  PROVE  /\ Append(s, x) \in Seq(S) /\ ToSet(Append(s, x)) = ToSet(s) \cup {x}
         /\ IsInjective(s) /\ x \notin ToSet(s) => IsInjective(Append(s, x))
<1> DEFINE t == Append(s, x)
           n == Len(s)
<1>1. /\ n \in Nat /\ DOMAIN s = 1 .. n /\ t \in Seq(S) /\ DOMAIN t = 1 .. n + 1
      /\ t[n + 1] = x /\ \A i \in 1 .. n : t[i] = s[i]
  BY AppendProperties
<1> HIDE DEF t, n
<1>2. ToSet(t) = ToSet(s) \cup {x}
  <2>1. \A i \in 1 .. n + 1 : i = n + 1 \/ i \in 1 .. n
    BY <1>1
  <2>2. \A i \in 1 .. n : i \in 1 .. n + 1
    BY <1>1
  <2>3. n + 1 \in 1 .. n + 1
    BY <1>1
  <2> QED
    BY <1>1, <2>1, <2>2, <2>3 DEF ToSet
<1>3. ASSUME IsInjective(s), x \notin ToSet(s) PROVE IsInjective(t)
  <2> SUFFICES ASSUME NEW i \in 1 .. n + 1, NEW j \in 1 .. n + 1, t[i] = t[j] PROVE i = j
    BY <1>1 DEF IsInjective
  <2>1. \A k \in 1 .. n : t[k] # x
    BY <1>1, <1>3 DEF ToSet
  <2>2. (i = n + 1 \/ i \in 1 .. n) /\ (j = n + 1 \/ j \in 1 .. n)
    BY <1>1
  <2>3. CASE i \in 1 .. n /\ j \in 1 .. n
    BY <1>1, <1>3, <2>3 DEF IsInjective
  <2> QED
    BY <1>1, <2>1, <2>2, <2>3
<1> QED
  BY <1>1, <1>2, <1>3 DEF t

\* What the first k elements of a sequence are.
FirstOf(s, k) == {s[i] : i \in 1 .. k}

LEMMA FirstOfIs ==
  ASSUME NEW S, NEW s \in Seq(S)
  PROVE  /\ FirstOf(s, 0) = {} /\ FirstOf(s, Len(s)) = ToSet(s)
         /\ \A k \in 1 .. Len(s) : s[k] \in S /\ FirstOf(s, k) = FirstOf(s, k - 1) \cup {s[k]}
<1>1. ASSUME NEW k \in 1 .. Len(s)
      PROVE  s[k] \in S /\ FirstOf(s, k) = FirstOf(s, k - 1) \cup {s[k]}
  <2>1. \A i : i \in 1 .. k <=> i \in 1 .. k - 1 \/ i = k
    OBVIOUS
  <2> QED
    BY <2>1 DEF FirstOf
<1> QED
  BY <1>1 DEF FirstOf, ToSet

LEMMA NoneIsInjective ==
  ASSUME NEW S
  PROVE  <<>> \in Seq(S) /\ ToSet(<<>>) = {} /\ IsInjective(<<>>)
BY DEF ToSet, IsInjective

\* Every document once, and none is lost.
LEMMA DeduplicatedIs ==
  ASSUME NEW S, NEW s \in Seq(S)
  PROVE  /\ Deduplicated(s) \in Seq(S)
         /\ ToSet(Deduplicated(s)) = ToSet(s) /\ IsInjective(Deduplicated(s))
<1>1. PICK g : /\ Deduplicated(s) = g[Len(s)]
               /\ g[0] = <<>>
               /\ \A k \in 1 .. Len(s) :
                    g[k] = IF s[k] \in ToSet(g[k - 1]) THEN g[k - 1] ELSE Append(g[k - 1], s[k])
  BY DeduplicatedRounds
<1> DEFINE n == Len(s)
           Good(k) == /\ g[k] \in Seq(S) /\ ToSet(g[k]) = FirstOf(s, k) /\ IsInjective(g[k])
           T == {k \in Nat : k <= n => Good(k)}
<1>2. n \in Nat
  OBVIOUS
<1>3. 0 \in T
  <2>1. FirstOf(s, 0) = {}
    BY FirstOfIs
  <2>2. g[0] \in Seq(S) /\ ToSet(g[0]) = {} /\ IsInjective(g[0])
    BY <1>1, NoneIsInjective
  <2> QED
    BY <2>1, <2>2
<1>4. ASSUME NEW k \in Nat, k \in T PROVE k + 1 \in T
  <2> SUFFICES ASSUME k + 1 <= n PROVE Good(k + 1)
    OBVIOUS
  <2>1. k + 1 \in 1 .. n /\ k + 1 - 1 = k /\ Good(k)
    BY <1>2, <1>4
  <2>2. s[k + 1] \in S /\ FirstOf(s, k + 1) = FirstOf(s, k) \cup {s[k + 1]}
    BY <2>1, FirstOfIs
  <2>3. g[k + 1] = IF s[k + 1] \in ToSet(g[k]) THEN g[k] ELSE Append(g[k], s[k + 1])
    BY <1>1, <2>1
  <2>4. CASE s[k + 1] \in ToSet(g[k])
    BY <2>1, <2>2, <2>3, <2>4
  <2>5. CASE s[k + 1] \notin ToSet(g[k])
    <3>1. /\ g[k + 1] \in Seq(S) /\ ToSet(g[k + 1]) = ToSet(g[k]) \cup {s[k + 1]}
          /\ IsInjective(g[k + 1])
      BY <2>1, <2>2, <2>3, <2>5, AppendIs
    <3> QED
      BY <2>1, <2>2, <3>1
  <2> QED
    BY <2>4, <2>5
<1> HIDE DEF T
<1>5. Nat \subseteq T
  BY <1>3, <1>4, NatSetInduction
<1> QED
  BY <1>1, <1>2, <1>5, FirstOfIs DEF T

\* The documents that pass the filter, each as often as it was there.
LEMMA TargetsAre ==
  ASSUME NEW S, NEW r, r.files \in Seq(S)
  PROVE  /\ Targets(r) \in Seq(S) /\ ToSet(Targets(r)) = ToSet(r.files) \cap Wanted
         /\ IsInjective(r.files) => IsInjective(Targets(r))
<1>1. PICK g : /\ Targets(r) = g[Len(r.files)]
               /\ g[0] = <<>>
               /\ \A k \in 1 .. Len(r.files) :
                    g[k] = IF r.files[k] \in Wanted THEN Append(g[k - 1], r.files[k]) ELSE g[k - 1]
  BY TargetsRounds
<1> DEFINE s == r.files
           n == Len(s)
           Good(k) == /\ g[k] \in Seq(S) /\ ToSet(g[k]) = FirstOf(s, k) \cap Wanted
                      /\ IsInjective(s) => IsInjective(g[k])
           T == {k \in Nat : k <= n => Good(k)}
<1>2. n \in Nat /\ DOMAIN s = 1 .. n
  OBVIOUS
<1>3. 0 \in T
  <2>1. FirstOf(s, 0) = {}
    BY FirstOfIs
  <2>2. g[0] \in Seq(S) /\ ToSet(g[0]) = {} /\ IsInjective(g[0])
    BY <1>1, NoneIsInjective
  <2> QED
    BY <2>1, <2>2
<1>4. ASSUME NEW k \in Nat, k \in T PROVE k + 1 \in T
  <2> SUFFICES ASSUME k + 1 <= n PROVE Good(k + 1)
    OBVIOUS
  <2>1. k + 1 \in 1 .. n /\ k + 1 - 1 = k /\ Good(k)
    BY <1>2, <1>4
  <2>2. s[k + 1] \in S /\ FirstOf(s, k + 1) = FirstOf(s, k) \cup {s[k + 1]}
    BY <2>1, FirstOfIs
  <2>3. g[k + 1] = IF s[k + 1] \in Wanted THEN Append(g[k], s[k + 1]) ELSE g[k]
    BY <1>1, <2>1
  <2>4. IsInjective(s) => s[k + 1] \notin FirstOf(s, k)
    <3>1. \A i \in 1 .. k : i \in DOMAIN s /\ i # k + 1
      BY <1>2, <2>1
    <3> QED
      BY <1>2, <2>1, <3>1 DEF IsInjective, FirstOf
  <2> QED
    BY <2>1, <2>2, <2>3, <2>4, AppendIs
<1> HIDE DEF T
<1>5. Nat \subseteq T
  BY <1>3, <1>4, NatSetInduction
<1> QED
  BY <1>1, <1>2, <1>5, FirstOfIs DEF T

\* A finite set as a sequence has all of it.
LEMMA SetToSeqIs ==
  ASSUME NEW S, IsFiniteSet(S)
  PROVE  SetToSeq(S) \in Seq(S) /\ ToSet(SetToSeq(S)) = S
<1> DEFINE n == Cardinality(S)
           s == SetToSeq(S)
<1>1. n \in Nat /\ ExistsBijection(1 .. n, S)
  BY FS_CardinalityType
<1>2. \E f \in [1 .. n -> S] : IsInjective(f)
  BY <1>1 DEF ExistsBijection, Bijection, Injection
<1>3. s \in [1 .. n -> S] /\ IsInjective(s)
  BY <1>2 DEF SetToSeq
<1>4. IsFiniteSet(1 .. n) /\ Cardinality(1 .. n) = n
  BY <1>1, FS_Interval
<1>5. s \in Injection(1 .. n, S)
  BY <1>3 DEF Injection
<1>6. s \in Surjection(1 .. n, S)
  BY <1>4, <1>5, FS_Injection
<1>7. s \in Seq(S) /\ DOMAIN s = 1 .. n
  BY <1>1, <1>3
<1> QED
  BY <1>6, <1>7 DEF Surjection, ToSet

-----------------------------------------------------------------------------
(* Summaries.  What counts of a list of projects is who has been read.     *)

\* What a project goes by: its number, or its row.
Ids == DOMAIN DocsOf \cup (Nat \X Nat \X Nat)

ProjectLists == UNION {[D -> Classes] : D \in SUBSET Ids}

Summaries ==
  {s \in [projects : ProjectLists, counts : [Classes -> Int]] :
      IsFiniteSet(DOMAIN s.projects) /\ s.counts = Recount(s.projects)}

ReadOnes(ps) == {id \in DOMAIN ps : ps[id] # FAILED_DETAIL}

LEMMA NoSummaryTyped == NoSummary \in Summaries /\ ReadOnes(NoSummary.projects) = {}
<1>1. NoProjects \in [{} -> Classes] /\ DOMAIN NoProjects = {}
  BY DEF NoProjects
<1>2. NoProjects \in ProjectLists
  BY <1>1 DEF ProjectLists
<1>3. Recount(NoProjects) = [c \in Classes |-> 0]
  BY <1>1, FS_EmptySet DEF Recount
<1> QED
  BY <1>1, <1>2, <1>3, FS_EmptySet DEF NoSummary, Summaries, ReadOnes

\* One more project in a list, or another class of one that is there.
LEMMA EntryJoined ==
  ASSUME NEW ps \in ProjectLists, NEW id \in Ids, NEW class \in Classes
  PROVE  LET new == Joined(Entry(id, class), ps)
         IN  /\ new \in ProjectLists /\ DOMAIN new = DOMAIN ps \cup {id} /\ new[id] = class
             /\ \A x \in DOMAIN ps \ {id} : new[x] = ps[x]
<1> DEFINE new == Joined(Entry(id, class), ps)
<1>1. DOMAIN ps \in SUBSET Ids /\ \A x \in DOMAIN ps : ps[x] \in Classes
  BY DEF ProjectLists
<1>2. new = [x \in DOMAIN ps \cup {id} |-> IF x = id THEN class ELSE ps[x]]
  BY DEF Joined, Entry
<1>3. new \in [DOMAIN ps \cup {id} -> Classes]
  BY <1>1, <1>2
<1>4. DOMAIN ps \cup {id} \in SUBSET Ids
  BY <1>1
<1> HIDE DEF new
<1>5. new \in ProjectLists
  BY <1>3, <1>4 DEF ProjectLists
<1> QED
  BY <1>2, <1>5 DEF new

\* Taking back what a project added and adding what it is now counts anew.
LEMMA EntryCounted ==
  ASSUME NEW ps \in ProjectLists, IsFiniteSet(DOMAIN ps), NEW id \in Ids, NEW class \in Classes,
         NEW counts, counts = Recount(ps)
  PROVE  LET new == Joined(Entry(id, class), ps)
             rest == IF id \in DOMAIN ps THEN Contribution(counts, ps[id], -1) ELSE counts
         IN  /\ IsFiniteSet(DOMAIN new)
             /\ Contribution(rest, class, 1) = Recount(new)
             /\ Recount(new) \in [Classes -> Int]
<1> DEFINE new == Joined(Entry(id, class), ps)
           rest == IF id \in DOMAIN ps THEN Contribution(counts, ps[id], -1) ELSE counts
           Of(f, c) == {x \in DOMAIN f : f[x] = c}
<1>1. /\ new \in ProjectLists /\ DOMAIN new = DOMAIN ps \cup {id} /\ new[id] = class
      /\ \A x \in DOMAIN ps \ {id} : new[x] = ps[x]
  BY EntryJoined
<1>2. IsFiniteSet(DOMAIN new)
  BY <1>1, FS_AddElement
<1>3. \A c \in Classes : IsFiniteSet(Of(ps, c)) /\ Cardinality(Of(ps, c)) \in Nat
  BY FS_Subset, FS_CardinalityType
<1>4. counts = [c \in Classes |-> Cardinality(Of(ps, c))]
  BY DEF Recount
<1>5. Recount(new) = [c \in Classes |-> Cardinality(Of(new, c))]
  BY DEF Recount
<1>6. id \in DOMAIN ps => ps[id] \in Classes
  BY DEF ProjectLists
<1> HIDE DEF new
<1>7. ASSUME NEW c \in Classes
      PROVE  Of(new, c) = IF c = class THEN Of(ps, c) \cup {id} ELSE Of(ps, c) \ {id}
  BY <1>1
<1>8. ASSUME NEW c \in Classes
      PROVE  Cardinality(Of(new, c)) =
               Cardinality(Of(ps, c)) - (IF id \in Of(ps, c) THEN 1 ELSE 0)
                                      + (IF c = class THEN 1 ELSE 0)
  <2> DEFINE T == Of(ps, c)
  <2>1. IsFiniteSet(T) /\ Cardinality(T) \in Nat
    BY <1>3
  <2>2. Of(new, c) = IF c = class THEN T \cup {id} ELSE T \ {id}
    BY <1>7
  <2> HIDE DEF T, Of
  <2>3. Cardinality(T \cup {id}) = IF id \in T THEN Cardinality(T) ELSE Cardinality(T) + 1
    BY <2>1, FS_AddElement
  <2>4. Cardinality(T \ {id}) = IF id \in T THEN Cardinality(T) - 1 ELSE Cardinality(T)
    BY <2>1, FS_RemoveElement
  <2>5. Cardinality(Of(new, c)) =
          Cardinality(T) - (IF id \in T THEN 1 ELSE 0) + (IF c = class THEN 1 ELSE 0)
    BY <2>1, <2>2, <2>3, <2>4
  <2> QED
    BY <2>5 DEF T
<1>9. \A c \in Classes : id \in Of(ps, c) <=> id \in DOMAIN ps /\ ps[id] = c
  OBVIOUS
<1> DEFINE n == [c \in Classes |-> Cardinality(Of(ps, c))]
<1>10. \A c \in Classes : n[c] \in Nat
  BY <1>3
<1> HIDE DEF Of
<1>11. rest = [c \in Classes |-> n[c] - (IF id \in Of(ps, c) THEN 1 ELSE 0)]
  <2>1. CASE id \in DOMAIN ps
    <3>1. rest = [n EXCEPT ![ps[id]] = n[ps[id]] + -1]
      BY <1>4, <2>1 DEF Contribution
    <3>2. rest = [c \in Classes |-> IF c = ps[id] THEN n[c] + -1 ELSE n[c]]
      BY <1>6, <2>1, <3>1
    <3>3. \A c \in Classes : id \in Of(ps, c) <=> c = ps[id]
      BY <1>9, <2>1
    <3>4. \A c \in Classes : (IF c = ps[id] THEN n[c] + -1 ELSE n[c])
                               = n[c] - (IF id \in Of(ps, c) THEN 1 ELSE 0)
      BY <1>10, <3>3
    <3> HIDE DEF n
    <3> QED
      BY <3>2, <3>4
  <2>2. CASE id \notin DOMAIN ps
    <3>1. rest = n /\ \A c \in Classes : n[c] - 0 = n[c]
      BY <1>4, <1>10, <2>2
    <3> QED
      BY <1>9, <2>2, <3>1
  <2> QED
    BY <2>1, <2>2
<1>12. Contribution(rest, class, 1)
         = [c \in Classes |-> n[c] - (IF id \in Of(ps, c) THEN 1 ELSE 0)
                                  + (IF c = class THEN 1 ELSE 0)]
  <2> DEFINE added == [rest EXCEPT ![class] = rest[class] + 1]
  <2>1. \A c \in Classes : added[c] = n[c] - (IF id \in Of(ps, c) THEN 1 ELSE 0)
                                           + (IF c = class THEN 1 ELSE 0)
    BY <1>10, <1>11
  <2>2. added = [c \in Classes |-> added[c]]
    BY <1>11
  <2> QED
    BY <2>1, <2>2 DEF Contribution
<1>13. \A c \in Classes : Recount(new)[c] = n[c] - (IF id \in Of(ps, c) THEN 1 ELSE 0)
                                                 + (IF c = class THEN 1 ELSE 0)
  BY <1>5, <1>8
<1>14. Contribution(rest, class, 1) = Recount(new) /\ Recount(new) \in [Classes -> Int]
  BY <1>5, <1>10, <1>12, <1>13
<1> QED
  BY <1>2, <1>14 DEF new

\* A project is counted once, and what was read is not lost.
LEMMA UpsertIs ==
  ASSUME NEW s \in Summaries, NEW id \in Ids, NEW class \in Classes
  PROVE  /\ Upsert(s, id, class) \in Summaries
         /\ DOMAIN Upsert(s, id, class).projects = DOMAIN s.projects \cup {id}
         /\ ReadOnes(s.projects) \subseteq ReadOnes(Upsert(s, id, class).projects)
         /\ class # FAILED_DETAIL => id \in ReadOnes(Upsert(s, id, class).projects)
<1> DEFINE ps == s.projects
           new == Joined(Entry(id, class), ps)
           rest == IF id \in DOMAIN ps THEN Contribution(s.counts, ps[id], -1) ELSE s.counts
<1>1. ps \in ProjectLists /\ IsFiniteSet(DOMAIN ps) /\ s.counts = Recount(ps)
  BY DEF Summaries
<1>2. /\ new \in ProjectLists /\ DOMAIN new = DOMAIN ps \cup {id} /\ new[id] = class
      /\ \A x \in DOMAIN ps \ {id} : new[x] = ps[x]
  BY <1>1, EntryJoined
<1>3. /\ IsFiniteSet(DOMAIN new) /\ Contribution(rest, class, 1) = Recount(new)
      /\ Recount(new) \in [Classes -> Int]
  BY <1>1, EntryCounted
<1>4. CASE Preferred(s, id, class)
  <2>1. Upsert(s, id, class) = [projects |-> new, counts |-> Contribution(rest, class, 1)]
    BY <1>4 DEF Upsert
  <2> HIDE DEF new, rest
  <2>2. Upsert(s, id, class) \in Summaries
    BY <1>2, <1>3, <2>1 DEF Summaries
  <2>3. ReadOnes(ps) \subseteq ReadOnes(new)
    BY <1>2, <1>4 DEF ReadOnes, Preferred
  <2> QED
    BY <1>2, <2>1, <2>2, <2>3 DEF ReadOnes
<1>5. CASE ~Preferred(s, id, class)
  BY <1>5 DEF Upsert, Preferred, ReadOnes
<1> QED
  BY <1>4, <1>5

\* The rounds of a merge.
LEMMA MergeRounds ==
  ASSUME NEW s \in Summaries, NEW t \in Summaries
  PROVE  LET seq == SetToSeq(DOMAIN t.projects)
         IN  \E g :
               /\ MergeProjects(s, t) = g[Len(seq)]
               /\ g[0] = s
               /\ \A k \in 1 .. Len(seq) :
                    g[k] = Upsert(g[k - 1], seq[k], t.projects[seq[k]])
<1> DEFINE D == DOMAIN t.projects
           seq == SetToSeq(D)
           n == Len(seq)
           Op(sum, id) == Upsert(sum, id, t.projects[id])
           G == [p \in (1 .. n) \X Summaries |-> Op(p[2], seq[p[1]])]
           F(f) == [x \in SUBSET DOMAIN seq |->
                      IF x = {} THEN s ELSE Op(f[x \ {Max(x)}], seq[Max(x)])]
<1>0. seq \in Seq(D) /\ D \subseteq Ids /\ \A id \in D : t.projects[id] \in Classes
  BY SetToSeqIs DEF Summaries, ProjectLists
<1>1. n \in Nat /\ DOMAIN seq = 1 .. n
  BY <1>0
<1>2. \A k \in 1 .. n, x \in Summaries : Op(x, seq[k]) \in Summaries
  BY <1>0, <1>1, UpsertIs
<1>3. G \in [(1 .. n) \X Summaries -> Summaries]
  BY <1>2
<1>4. \A k \in 1 .. n, x \in Summaries : G[<<k, x>>] = Op(x, seq[k])
  OBVIOUS
<1> HIDE DEF G, Op, n, seq, D
<1>5. PICK f : Rounds(f, Summaries, s, n, G)
  BY <1>1, <1>3, RoundsExist
<1>6. f = F(f)
  <2>1. ASSUME NEW x \in SUBSET (1 .. n), x # {}
        PROVE  f[x] = Op(f[x \ {Max(x)}], seq[Max(x)])
    <3>1. Max(x) \in 1 .. n
      BY <1>1, <2>1, GreatestIn
    <3>2. x \ {Max(x)} \in SUBSET (1 .. n)
      OBVIOUS
    <3>3. f[x \ {Max(x)}] \in Summaries
      BY <1>5, <3>2 DEF Rounds
    <3>4. f[x] = G[<<Max(x), f[x \ {Max(x)}]>>]
      BY <1>5, <2>1 DEF Rounds
    <3> QED
      BY <1>4, <3>1, <3>3, <3>4
  <2>2. f[{}] = s /\ f = [x \in SUBSET (1 .. n) |-> f[x]]
    BY <1>5 DEF Rounds
  <2> QED
    BY <1>1, <2>1, <2>2
<1> DEFINE total == CHOOSE h : h = F(h)
<1>7. total = F(total)
  BY <1>6
<1>8. MergeProjects(s, t) = total[DOMAIN seq]
  BY DEF MergeProjects, FoldLeft, MapThenFoldSet, Op, seq, D
<1> HIDE DEF total
<1>9. total[{}] = s
  BY <1>1, <1>7
<1>10. \A k \in 1 .. n : total[1 .. k] = Op(total[1 .. k - 1], seq[k])
  <2> TAKE k \in 1 .. n
  <2>1. 1 .. k \in SUBSET (1 .. n) /\ 1 .. k # {} /\ Max(1 .. k) = k /\ (1 .. k) \ {k} = 1 .. k - 1
    BY <1>1, PositionsOf
  <2> QED
    BY <1>1, <1>7, <2>1
<1> DEFINE g == [k \in 0 .. n |-> total[1 .. k]]
<1>11. g[n] = MergeProjects(s, t)
  BY <1>1, <1>8
<1>12. g[0] = s
  BY <1>1, <1>9
<1>13. \A k \in 1 .. n : g[k] = Op(g[k - 1], seq[k])
  BY <1>1, <1>10
<1> QED
  BY <1>11, <1>12, <1>13 DEF Op, n, seq, D

\* The projects of both, what was read of either stays read.
LEMMA MergeIs ==
  ASSUME NEW s \in Summaries, NEW t \in Summaries
  PROVE  /\ MergeProjects(s, t) \in Summaries
         /\ ReadOnes(s.projects) \cup ReadOnes(t.projects)
              \subseteq ReadOnes(MergeProjects(s, t).projects)
<1> DEFINE D == DOMAIN t.projects
           seq == SetToSeq(D)
           n == Len(seq)
<1>0. IsFiniteSet(D) /\ D \subseteq Ids /\ \A id \in D : t.projects[id] \in Classes
  BY DEF Summaries, ProjectLists
<1>1. seq \in Seq(D) /\ ToSet(seq) = D
  BY <1>0, SetToSeqIs
<1>2. PICK g : /\ MergeProjects(s, t) = g[n]
               /\ g[0] = s
               /\ \A k \in 1 .. n : g[k] = Upsert(g[k - 1], seq[k], t.projects[seq[k]])
  BY MergeRounds
<1> DEFINE Good(k) == /\ g[k] \in Summaries /\ ReadOnes(s.projects) \subseteq ReadOnes(g[k].projects)
                      /\ FirstOf(seq, k) \cap ReadOnes(t.projects) \subseteq ReadOnes(g[k].projects)
           T == {k \in Nat : k <= n => Good(k)}
<1> HIDE DEF seq
<1>3. n \in Nat
  BY <1>1
<1>4. 0 \in T
  <2>1. FirstOf(seq, 0) = {}
    BY <1>1, FirstOfIs
  <2> QED
    BY <1>2, <2>1
<1>5. ASSUME NEW k \in Nat, k \in T PROVE k + 1 \in T
  <2> SUFFICES ASSUME k + 1 <= n PROVE Good(k + 1)
    OBVIOUS
  <2>1. k + 1 \in 1 .. n /\ k + 1 - 1 = k /\ Good(k)
    BY <1>3, <1>5
  <2> DEFINE id == seq[k + 1]
  <2>2. id \in D /\ FirstOf(seq, k + 1) = FirstOf(seq, k) \cup {id}
    BY <1>1, <2>1, FirstOfIs
  <2>3. g[k + 1] = Upsert(g[k], id, t.projects[id])
    BY <1>2, <2>1
  <2> HIDE DEF id
  <2>4. id \in Ids /\ t.projects[id] \in Classes
    BY <1>0, <2>2
  <2>5. /\ g[k + 1] \in Summaries
        /\ ReadOnes(g[k].projects) \subseteq ReadOnes(g[k + 1].projects)
        /\ t.projects[id] # FAILED_DETAIL => id \in ReadOnes(g[k + 1].projects)
    <3> DEFINE before == g[k]
               class == t.projects[id]
    <3>1. before \in Summaries /\ class \in Classes
      BY <2>1, <2>4
    <3> HIDE DEF before, class
    <3>2. /\ Upsert(before, id, class) \in Summaries
          /\ ReadOnes(before.projects) \subseteq ReadOnes(Upsert(before, id, class).projects)
          /\ class # FAILED_DETAIL => id \in ReadOnes(Upsert(before, id, class).projects)
      BY <2>4, <3>1, UpsertIs
    <3> QED
      BY <2>3, <3>2 DEF before, class
  <2>6. id \in ReadOnes(t.projects) => t.projects[id] # FAILED_DETAIL
    BY DEF ReadOnes
  <2> QED
    BY <2>1, <2>2, <2>5, <2>6
<1> HIDE DEF T
<1>6. Nat \subseteq T
  BY <1>4, <1>5, NatSetInduction
<1>7. Good(n) /\ FirstOf(seq, n) = D
  BY <1>1, <1>3, <1>6, FirstOfIs DEF T
<1>8. ReadOnes(t.projects) \subseteq D
  BY DEF ReadOnes
<1> QED
  BY <1>2, <1>7, <1>8

-----------------------------------------------------------------------------
(* The inductive invariant of a run.                                       *)

Docs == UNION {DocsOf[p] : p \in DOMAIN DocsOf}

Searching == {"page", "row", "detail", "rowsRead", "nextPage"}
Extracting == {"begin", "url", "submit", "plain"} \cup Searching
Over == {"extracted", "filter", "download", "done"}

Statuses ==
  {"EXCLUDED_EXPIRED", "NOT_EVALUATED", "DOWNLOAD_TARGET", "EXCLUDED_FILTER",
   "EXCLUDED_FILE_TYPE", "DOWNLOADED", "REUSED", "FAILED", "CANCELLED"}
Answers == {"completed", "skipped", "failed", "cancelled"}

NoOutcome == ""

Runs ==
  [plan : Plans, stage : Extracting \cup Over, url : Nat, page : Nat, row : Nat, gen : Nat,
   here : Summaries, found : Seq(Docs), bad : BOOLEAN, matched : BOOLEAN,
   read : Summaries, files : Seq(Docs), decided : UNION {[D -> Statuses] : D \in SUBSET Docs},
   failed : BOOLEAN, complete : BOOLEAN, tasks : Seq(Answers),
   outcome : {NoOutcome, "SUCCESS", "PARTIAL", "FAILED", "CANCELLED", "NO_MATCH"}]

PagesOf(r) == r.plan.urls[r.url]

\* Where in its plan the run is.
PlaceOf(r) ==
  /\ r.stage \in Extracting \ {"begin"} => r.url # 0
  /\ r.stage \in {"submit", "plain"} \cup Searching =>
        r.url \in DOMAIN r.plan.urls /\ (r.plan.search <=> r.stage # "plain")
  /\ r.stage \in Searching => r.page # 0
  /\ r.stage = "page" => r.page = 1 \/ r.page <= Len(PagesOf(r))
  /\ r.stage \in Searching \ {"page"} => r.page \in DOMAIN PagesOf(r)
  /\ r.stage \in {"row", "detail"} => r.row # 0
  /\ r.stage = "detail" => r.row \in DOMAIN PagesOf(r)[r.page]

\* The row w was read and the documents of its detail page were found.
Covered(r, ps, fs, w) ==
  LET p == r.plan.urls[w[1]][w[2]][w[3]]
  IN  /\ r.plan.search => {w, p} \cap ReadOnes(ps) # {}
      /\ p \notin ListedOnly =>
            /\ Public(p) \subseteq ToSet(fs)
            /\ r.plan.search => Public(p) \subseteq DOMAIN r.decided

RowsOf(plan) == UNION {UNION {{<<u, i, j>> : j \in DOMAIN plan.urls[u][i]} :
                                 i \in DOMAIN plan.urls[u]} : u \in DOMAIN plan.urls}

\* Rows of the search at hand that the run is past.
Passed(r, w) ==
  /\ w[1] = r.url
  /\ \/ w[2] < r.page
     \/ w[2] = r.page /\ r.stage \in {"row", "detail"} /\ w[3] < r.row
     \/ w[2] = r.page /\ r.stage \in {"rowsRead", "nextPage"}

\* Nothing is passed over in silence, within the search at hand and before it.
CoverOf(r, cancelled) ==
  /\ r.stage \in Searching /\ ~r.bad /\ ~cancelled =>
        \A w \in RowsOf(r.plan) : Passed(r, w) => Covered(r, r.here.projects, r.found, w)
  /\ r.complete =>
        \A w \in RowsOf(r.plan) : w[1] < r.url => Covered(r, r.read.projects, r.files, w)

\* A search that is not complete is known to be: it was cancelled or has failed.
CompleteOf(r, cancelled) ==
  /\ r.stage \in Extracting \cup {"extracted"} => r.complete \/ r.failed \/ cancelled
  /\ r.stage = "extracted" => cancelled \/ r.url > Len(r.plan.urls)
  /\ r.stage \in {"filter", "download"} =>
        (r.complete \/ r.failed) /\ r.url > Len(r.plan.urls)

\* What becomes of the documents up to the downloads.
DecidedOf(r) ==
  /\ r.stage \in Extracting \cup {"extracted", "filter"} =>
        \A d \in DOMAIN r.decided :
           \/ d \in Ended /\ r.decided[d] = "EXCLUDED_EXPIRED"
           \/ /\ d \notin Ended /\ r.decided[d] = "NOT_EVALUATED"
              /\ d \in ToSet(r.files) \/ (r.stage \in Searching /\ d \in ToSet(r.found))
  /\ r.stage = "download" =>
        \A d \in DOMAIN r.decided :
           \/ r.decided[d] \in {"EXCLUDED_EXPIRED", "EXCLUDED_FILTER", "EXCLUDED_FILE_TYPE"}
           \/ r.decided[d] = "DOWNLOAD_TARGET" /\ d \in ToSet(Targets(r))
  /\ r.stage \in {"begin"} => r.files = <<>>
  /\ r.stage \in Over => IsInjective(r.files)

\* What the outcome promises.
PromiseOf(r) ==
  /\ r.stage # "done" => r.outcome = NoOutcome
  /\ r.outcome \in {"NO_MATCH", "SUCCESS"} => r.complete /\ r.url > Len(r.plan.urls)
  /\ r.outcome = "NO_MATCH" => ToSet(r.files) \cap Wanted = {}
  /\ r.outcome = "SUCCESS" => ToSet(r.tasks) \subseteq {"completed", "skipped"}
  /\ r.outcome \in {"SUCCESS", "PARTIAL", "NO_MATCH"} =>
        \A d \in DOMAIN r.decided : r.decided[d] \notin {"DOWNLOAD_TARGET", "NOT_EVALUATED"}
  /\ r.outcome = "SUCCESS" =>
        \A d \in DOMAIN r.decided :
           /\ r.decided[d] \notin {"FAILED", "CANCELLED"}
           /\ d \in ToSet(Targets(r)) => r.decided[d] \in {"DOWNLOADED", "REUSED"}

Good(r, cancelled) ==
  /\ r \in Runs
  /\ PlaceOf(r) /\ CoverOf(r, cancelled) /\ CompleteOf(r, cancelled)
  /\ DecidedOf(r) /\ PromiseOf(r)

RunInv == cancelFlag \in BOOLEAN /\ Good(run, cancelFlag)

\* What is covered stays so while lists and documents are added.
LEMMA CoveredStays ==
  ASSUME NEW r, NEW q, NEW ps, NEW qs, NEW fs, NEW gs, NEW w, Covered(r, ps, fs, w),
         q.plan = r.plan, ReadOnes(ps) \subseteq ReadOnes(qs), ToSet(fs) \subseteq ToSet(gs),
         DOMAIN r.decided \subseteq DOMAIN q.decided
  PROVE  Covered(q, qs, gs, w)
BY DEF Covered

LEMMA NoOutcomeIs ==
  NoOutcome \notin {"SUCCESS", "PARTIAL", "FAILED", "CANCELLED", "NO_MATCH"}
BY DEF NoOutcome

\* A run that is not over has promised nothing.
LEMMA NothingPromised ==
  ASSUME NEW r, r.outcome = NoOutcome
  PROVE  PromiseOf(r)
BY NoOutcomeIs DEF PromiseOf

LEMMA PlanTyped ==
  ASSUME NEW r \in Runs
  PROVE  /\ r.plan.urls \in Seq(Seq(Seq(DOMAIN DocsOf))) /\ r.plan.search \in BOOLEAN
         /\ ~r.plan.search => \A u \in DOMAIN r.plan.urls : Len(r.plan.urls[u]) = 1
         /\ Len(r.plan.urls) \in Nat /\ DOMAIN r.plan.urls = 1 .. Len(r.plan.urls)
<1>1. r.plan \in Plans
  BY DEF Runs
<1>2. r.plan \in PlanType /\ (~r.plan.search => \A u \in DOMAIN r.plan.urls : Len(r.plan.urls[u]) = 1)
  BY <1>1, SiteAssumption
<1>3. r.plan.urls \in Seq(Seq(Seq(DOMAIN DocsOf))) /\ r.plan.search \in BOOLEAN
  BY <1>2 DEF PlanType
<1>4. Len(r.plan.urls) \in Nat /\ DOMAIN r.plan.urls = 1 .. Len(r.plan.urls)
  BY <1>3
<1> QED
  BY <1>2, <1>3, <1>4

\* A row by its parts.
LEMMA RowIs ==
  ASSUME NEW r \in Runs, NEW w \in RowsOf(r.plan)
  PROVE  /\ w[1] \in 1 .. Len(r.plan.urls) /\ w[2] \in DOMAIN r.plan.urls[w[1]]
         /\ w[3] \in DOMAIN r.plan.urls[w[1]][w[2]] /\ w = <<w[1], w[2], w[3]>>
         /\ w \in Ids /\ w[1] \in Nat \ {0} /\ w[2] \in Nat \ {0} /\ w[3] \in Nat \ {0}
         /\ r.plan.urls[w[1]] \in Seq(Seq(DOMAIN DocsOf))
         /\ r.plan.urls[w[1]][w[2]] \in Seq(DOMAIN DocsOf)
         /\ r.plan.urls[w[1]][w[2]][w[3]] \in DOMAIN DocsOf
<1>1. PICK u \in DOMAIN r.plan.urls : \E i \in DOMAIN r.plan.urls[u] :
         \E j \in DOMAIN r.plan.urls[u][i] : w = <<u, i, j>>
  BY DEF RowsOf
<1>2. PICK i \in DOMAIN r.plan.urls[u] : \E j \in DOMAIN r.plan.urls[u][i] : w = <<u, i, j>>
  BY <1>1
<1>3. PICK j \in DOMAIN r.plan.urls[u][i] : w = <<u, i, j>>
  BY <1>2
<1>4. r.plan.urls \in Seq(Seq(Seq(DOMAIN DocsOf)))
  BY PlanTyped
<1>5. r.plan.urls[u] \in Seq(Seq(DOMAIN DocsOf)) /\ u \in Nat \ {0} /\ u \in 1 .. Len(r.plan.urls)
  BY <1>4
<1>6. r.plan.urls[u][i] \in Seq(DOMAIN DocsOf) /\ i \in Nat \ {0}
  BY <1>5
<1>7. r.plan.urls[u][i][j] \in DOMAIN DocsOf /\ j \in Nat \ {0}
  BY <1>6
<1>8. w[1] = u /\ w[2] = i /\ w[3] = j /\ w \in Nat \X Nat \X Nat
  BY <1>3, <1>5, <1>6, <1>7
<1> QED
  BY <1>3, <1>5, <1>6, <1>7, <1>8 DEF Ids

\* A step of the run that neither reads nor drops anything.
LEMMA CoverStays ==
  ASSUME NEW c \in BOOLEAN, NEW r, CoverOf(r, c), NEW q, q.stage \notin Searching,
         q.plan = r.plan, q.url = r.url, q.read = r.read, q.decided = r.decided,
         ToSet(r.files) \subseteq ToSet(q.files), q.complete => r.complete
  PROVE  CoverOf(q, c)
<1> SUFFICES ASSUME q.complete, NEW w \in RowsOf(q.plan), w[1] < q.url
             PROVE  Covered(q, q.read.projects, q.files, w)
  BY DEF CoverOf
<1>1. Covered(r, r.read.projects, r.files, w)
  BY DEF CoverOf
<1> QED
  BY <1>1, CoveredStays

\* The end of a run.
LEMMA EndRunKeeps ==
  ASSUME NEW c \in BOOLEAN, NEW r \in Runs, NEW e,
         NEW o \in {"SUCCESS", "PARTIAL", "FAILED", "CANCELLED", "NO_MATCH"},
         EndRun(r, o, e),
         r.complete => \A w \in RowsOf(r.plan) : w[1] < r.url =>
                          Covered(r, r.read.projects, r.files, w),
         IsInjective(r.files),
         PromiseOf([r EXCEPT !.stage = "done", !.outcome = o])
  PROVE  Good(run', c)
<1>1. run' = [r EXCEPT !.stage = "done", !.outcome = o]
  BY DEF EndRun
<1>2. run' \in Runs
  BY <1>1 DEF Runs, Over
<1>3. /\ run'.stage = "done" /\ run'.plan = r.plan /\ run'.complete = r.complete
      /\ run'.url = r.url /\ run'.read = r.read /\ run'.files = r.files
      /\ run'.decided = r.decided
  BY <1>1 DEF Runs
<1>4. PlaceOf(run') /\ CompleteOf(run', c)
  BY <1>3 DEF PlaceOf, CompleteOf, Extracting, Searching
<1>5. CoverOf(run', c)
  BY <1>3, CoveredStays DEF CoverOf, Searching
<1>6. DecidedOf(run')
  BY <1>3 DEF DecidedOf, Extracting, Searching
<1> QED
  BY <1>1, <1>2, <1>4, <1>5, <1>6 DEF Good

\* An end that promises nothing.
LEMMA FailureKeeps ==
  ASSUME NEW c \in BOOLEAN, NEW r \in Runs, NEW e, NEW o \in {"FAILED", "CANCELLED"},
         EndRun(r, o, e), CoverOf(r, c), IsInjective(r.files)
  PROVE  Good(run', c)
<1> DEFINE q == [r EXCEPT !.stage = "done", !.outcome = o]
<1>1. q.stage = "done" /\ q.outcome = o
  BY DEF Runs
<1> HIDE DEF q
<1>2. PromiseOf(q)
  BY <1>1 DEF PromiseOf
<1> QED
  BY <1>2, EndRunKeeps DEF q, CoverOf

LEMMA PlaceAtUrl ==
  ASSUME NEW r, r.stage = "url", r.url # 0
  PROVE  PlaceOf(r)
BY DEF PlaceOf, Searching

LEMMA BeginKeeps ==
  ASSUME RunInv, Begin
  PROVE  Good(run', cancelFlag)
<1>1. run \in Runs /\ run.stage = "begin" /\ run.files = <<>> /\ run.outcome = NoOutcome
  BY DEF RunInv, Good, Begin, DecidedOf, PromiseOf
<1>2. CASE run' = [run EXCEPT !.stage = "url", !.url = 1]
  <2>1. run' \in Runs
    BY <1>1, <1>2 DEF Runs, Extracting
  <2>2. /\ run'.stage = "url" /\ run'.url = 1 /\ run'.plan = run.plan
        /\ run'.complete = run.complete /\ run'.failed = run.failed
        /\ run'.decided = run.decided /\ run'.files = run.files /\ run'.outcome = NoOutcome
    BY <1>1, <1>2 DEF Runs
  <2>3. PlaceOf(run')
    BY <2>2, PlaceAtUrl
  <2>31. CompleteOf(run', cancelFlag)
    BY <1>1, <2>2 DEF RunInv, Good, CompleteOf, Extracting
  <2>4. CoverOf(run', cancelFlag)
    <3>1. \A w \in RowsOf(run'.plan) : w[1] \in 1 .. Len(run'.plan.urls)
      BY <2>1, RowIs
    <3>2. \A w \in RowsOf(run'.plan) : ~(w[1] < 1)
      BY <3>1
    <3> QED
      BY <2>2, <3>2 DEF CoverOf, Searching
  <2>5. DecidedOf(run')
    BY <1>1, <2>2 DEF RunInv, Good, DecidedOf, Extracting, Searching, Over
  <2>6. PromiseOf(run')
    BY <2>2, NothingPromised
  <2> QED
    BY <2>1, <2>3, <2>31, <2>4, <2>5, <2>6 DEF Good
<1>3. CASE FinishesAs("FAILED", <<>>)
  BY <1>1, <1>3, FailureKeeps, NoneIsInjective DEF FinishesAs, RunInv, Good
<1> QED
  BY <1>2, <1>3 DEF Begin

LEMMA NextUrlKeeps ==
  ASSUME RunInv, NextUrl
  PROVE  Good(run', cancelFlag)
<1>1. run \in Runs /\ run.stage = "url" /\ run.outcome = NoOutcome /\ run.url # 0 /\ Good(run, cancelFlag)
  BY DEF RunInv, Good, NextUrl, PromiseOf, PlaceOf, Extracting
<1>2. CASE cancelFlag \/ run.url > Len(run.plan.urls)
  <2>1. run' = [run EXCEPT !.stage = "extracted", !.files = Deduplicated(run.files),
                           !.complete = run.complete /\ ~cancelFlag]
    BY <1>2 DEF NextUrl
  <2>2. /\ Deduplicated(run.files) \in Seq(Docs) /\ IsInjective(Deduplicated(run.files))
        /\ ToSet(Deduplicated(run.files)) = ToSet(run.files)
    BY <1>1, DeduplicatedIs DEF Runs
  <2>3. run' \in Runs
    BY <1>1, <2>1, <2>2 DEF Runs, Over
  <2>4. /\ run'.stage = "extracted" /\ run'.url = run.url /\ run'.plan = run.plan
        /\ run'.complete = (run.complete /\ ~cancelFlag) /\ run'.failed = run.failed
        /\ run'.decided = run.decided /\ run'.files = Deduplicated(run.files)
        /\ run'.read = run.read /\ run'.outcome = NoOutcome
    BY <1>1, <2>1 DEF Runs
  <2>5. PlaceOf(run') /\ CompleteOf(run', cancelFlag)
    BY <1>1, <1>2, <2>4 DEF Good, PlaceOf, CompleteOf, Extracting, Searching
  <2>6. CoverOf(run', cancelFlag)
    BY <1>1, <2>2, <2>4, CoverStays DEF RunInv, Good, Searching
  <2>7. DecidedOf(run')
    BY <1>1, <2>2, <2>4 DEF Good, DecidedOf, Extracting, Searching
  <2>8. PromiseOf(run')
    BY <2>4, NothingPromised
  <2> QED
    BY <2>3, <2>5, <2>6, <2>7, <2>8 DEF Good
<1>3. CASE ~(cancelFlag \/ run.url > Len(run.plan.urls))
  <2>1. run' = [run EXCEPT !.stage = IF run.plan.search THEN "submit" ELSE "plain"]
    BY <1>3 DEF NextUrl
  <2>2. run' \in Runs
    BY <1>1, <2>1 DEF Runs, Extracting
  <2>3. /\ run'.stage = (IF run.plan.search THEN "submit" ELSE "plain")
        /\ run'.url = run.url /\ run'.plan = run.plan
        /\ run'.complete = run.complete /\ run'.failed = run.failed
        /\ run'.decided = run.decided /\ run'.files = run.files
        /\ run'.read = run.read /\ run'.outcome = NoOutcome
    BY <1>1, <2>1 DEF Runs
  <2>4. run.url \in DOMAIN run.plan.urls
    <3>1. run.url \in Nat
      BY <1>1 DEF Runs
    <3>2. Len(run.plan.urls) \in Nat /\ DOMAIN run.plan.urls = 1 .. Len(run.plan.urls)
      BY <1>1, PlanTyped
    <3>3. run.url >= 1
      BY <1>1, <3>1
    <3>4. run.url <= Len(run.plan.urls)
      BY <1>3, <3>1, <3>2
    <3> QED
      BY <3>1, <3>2, <3>3, <3>4
  <2>5. PlaceOf(run') /\ CompleteOf(run', cancelFlag)
    BY <1>1, <2>3, <2>4 DEF Good, PlaceOf, CompleteOf, Extracting, Searching
  <2>6. CoverOf(run', cancelFlag)
    BY <1>1, <2>3, CoverStays DEF RunInv, Good, Searching
  <2>7. DecidedOf(run')
    BY <1>1, <2>3 DEF Good, DecidedOf, Extracting, Searching, Over
  <2>8. PromiseOf(run')
    BY <2>3, NothingPromised
  <2> QED
    BY <2>2, <2>5, <2>6, <2>7, <2>8 DEF Good
<1> QED
  BY <1>2, <1>3

\* What is known of a run that is not over.
LEMMA Unfinished ==
  ASSUME RunInv, run.stage # "done"
  PROVE  /\ run \in Runs /\ Good(run, cancelFlag) /\ cancelFlag \in BOOLEAN
         /\ run.outcome = NoOutcome /\ run.url \in Nat /\ run.page \in Nat /\ run.row \in Nat
         /\ run.here \in Summaries /\ run.read \in Summaries /\ run.gen \in Nat
         /\ run.found \in Seq(Docs) /\ run.files \in Seq(Docs)
         /\ run.bad \in BOOLEAN /\ run.failed \in BOOLEAN /\ run.complete \in BOOLEAN
BY DEF RunInv, Good, PromiseOf, Runs

LEMMA UrlFailsKeeps ==
  ASSUME RunInv, run.stage \in {"submit", "plain"}, UrlFails
  PROVE  Good(run', cancelFlag)
<1>1. run \in Runs /\ Good(run, cancelFlag) /\ cancelFlag \in BOOLEAN
      /\ run.outcome = NoOutcome /\ run.url \in Nat
  BY Unfinished
<1>2. run' = [run EXCEPT !.stage = "url", !.url = run.url + 1, !.failed = TRUE, !.complete = FALSE]
  BY DEF UrlFails
<1>3. run' \in Runs
  <2>1. run.url + 1 \in Nat /\ "url" \in Extracting \cup Over
    BY <1>1 DEF Extracting
  <2> QED
    BY <1>1, <1>2, <2>1 DEF Runs
<1>4. /\ run'.stage = "url" /\ run'.url = run.url + 1 /\ run'.failed = TRUE
      /\ run'.complete = FALSE /\ run'.decided = run.decided /\ run'.files = run.files
      /\ run'.outcome = NoOutcome
  BY <1>1, <1>2 DEF Runs
<1>5. PlaceOf(run')
  BY <1>1, <1>4, PlaceAtUrl
<1>6. CoverOf(run', cancelFlag) /\ CompleteOf(run', cancelFlag)
  BY <1>4 DEF CoverOf, CompleteOf, Searching
<1>7. DecidedOf(run')
  BY <1>1, <1>4 DEF Good, DecidedOf, Extracting, Searching, Over
<1> QED
  BY <1>3, <1>4, <1>5, <1>6, <1>7, NothingPromised DEF Good

LEMMA SubmitKeeps ==
  ASSUME RunInv, Submit
  PROVE  Good(run', cancelFlag)
<1>1. run \in Runs /\ Good(run, cancelFlag) /\ cancelFlag \in BOOLEAN
      /\ run.outcome = NoOutcome /\ run.gen \in Nat
  BY Unfinished DEF Submit
<1>2. CASE UrlFails
  BY <1>2, UrlFailsKeeps DEF Submit
<1>3. CASE ~UrlFails
  <2>1. run' = [run EXCEPT !.stage = "page", !.page = 1, !.gen = run.gen + 1,
                           !.here = NoSummary, !.found = <<>>, !.bad = FALSE]
    BY <1>3 DEF Submit
  <2>2. run' \in Runs
    <3>1. /\ run.gen + 1 \in Nat /\ "page" \in Extracting \cup Over
          /\ NoSummary \in Summaries /\ <<>> \in Seq(Docs)
      BY <1>1, NoSummaryTyped DEF Extracting, Searching
    <3> QED
      BY <1>1, <2>1, <3>1 DEF Runs
  <2>3. /\ run'.stage = "page" /\ run'.page = 1 /\ run'.url = run.url /\ run'.plan = run.plan
        /\ run'.complete = run.complete /\ run'.failed = run.failed /\ run'.read = run.read
        /\ run'.decided = run.decided /\ run'.files = run.files /\ run'.outcome = NoOutcome
    BY <1>1, <2>1 DEF Runs
  <2>4. run.stage = "submit"
    BY DEF Submit
  <2>5. PlaceOf(run')
    BY <1>1, <2>3, <2>4 DEF Good, PlaceOf, Extracting, Searching
  <2>6. CoverOf(run', cancelFlag)
    <3>1. ASSUME NEW w \in RowsOf(run'.plan) PROVE ~Passed(run', w)
      <4>1. w[2] \in Nat \ {0}
        BY <2>2, RowIs
      <4>2. ~(w[2] < 1)
        BY <4>1
      <4> QED
        BY <2>3, <4>2 DEF Passed
    <3>2. ASSUME run'.complete, NEW w \in RowsOf(run'.plan), w[1] < run'.url
          PROVE  Covered(run', run'.read.projects, run'.files, w)
      <4>1. Covered(run, run.read.projects, run.files, w)
        BY <1>1, <2>3, <3>2 DEF Good, CoverOf
      <4> QED
        BY <2>3, <4>1, CoveredStays
    <3> QED
      BY <3>1, <3>2 DEF CoverOf
  <2>7. CompleteOf(run', cancelFlag)
    BY <1>1, <2>3, <2>4 DEF Good, CompleteOf, Extracting, Searching
  <2>8. DecidedOf(run')
    BY <1>1, <2>3, <2>4 DEF Good, DecidedOf, Extracting, Searching, Over
  <2> QED
    BY <2>2, <2>3, <2>5, <2>6, <2>7, <2>8, NothingPromised DEF Good
<1> QED
  BY <1>2, <1>3

\* The documents of a set of projects are finitely many.
LEMMA DocsFinite ==
  ASSUME NEW p \in DOMAIN DocsOf
  PROVE  IsFiniteSet(Public(p)) /\ Public(p) \subseteq Docs /\ DocsOf[p] \subseteq Docs
BY SiteAssumption, FS_Subset DEF Public, Docs

LEMMA PageDocsFinite ==
  ASSUME NEW page \in Seq(DOMAIN DocsOf)
  PROVE  /\ IsFiniteSet(UNION {Public(p) : p \in ToSet(page)})
         /\ UNION {Public(p) : p \in ToSet(page)} \subseteq Docs
<1> DEFINE n == Len(page)
           T == {Public(p) : p \in ToSet(page)}
           f == [i \in 1 .. n |-> Public(page[i])]
<1>1. n \in Nat /\ DOMAIN page = 1 .. n /\ \A i \in 1 .. n : page[i] \in DOMAIN DocsOf
  OBVIOUS
<1>2. f \in Surjection(1 .. n, T)
  BY <1>1 DEF Surjection, ToSet
<1>3. IsFiniteSet(1 .. n)
  BY <1>1, FS_Interval
<1>4. IsFiniteSet(T)
  BY <1>2, <1>3, FS_Surjection
<1>5. \A D \in T : IsFiniteSet(D) /\ D \subseteq Docs
  BY <1>1, DocsFinite DEF ToSet
<1> HIDE DEF T
<1>6. IsFiniteSet(UNION T)
  BY <1>4, <1>5, FS_UNION
<1> QED
  BY <1>5, <1>6 DEF T

LEMMA ToSetOfConcat ==
  ASSUME NEW S, NEW s \in Seq(S), NEW t \in Seq(S)
  PROVE  s \o t \in Seq(S) /\ ToSet(s \o t) = ToSet(s) \cup ToSet(t)
<1>1. s \o t \in Seq(S) /\ Range(s \o t) = Range(s) \cup Range(t)
  BY RangeOfConcat
<1> QED
  BY <1>1 DEF Range, ToSet

LEMMA PlainPageKeeps ==
  ASSUME RunInv, PlainPage
  PROVE  Good(run', cancelFlag)
<1>1. run \in Runs /\ Good(run, cancelFlag) /\ cancelFlag \in BOOLEAN
      /\ run.outcome = NoOutcome /\ run.url \in Nat /\ run.files \in Seq(Docs)
  BY Unfinished DEF PlainPage
<1>2. CASE UrlFails
  BY <1>2, UrlFailsKeeps DEF PlainPage
<1>3. CASE ~UrlFails
  <2> DEFINE new == UNION {Public(p) : p \in ToSet(Pages[1])}
             fs == run.files \o SetToSeq(new)
  <2>1. run' = [run EXCEPT !.stage = "url", !.url = run.url + 1, !.files = fs]
    BY <1>3 DEF PlainPage
  <2>2. run.stage = "plain" /\ run.url \in DOMAIN run.plan.urls /\ ~run.plan.search
    BY <1>1 DEF PlainPage, Good, PlaceOf
  <2>3. Pages \in Seq(Seq(DOMAIN DocsOf)) /\ Len(Pages) = 1
    BY <1>1, <2>2, PlanTyped DEF Pages
  <2>4. Pages[1] \in Seq(DOMAIN DocsOf)
    BY <2>3
  <2>5. fs \in Seq(Docs) /\ ToSet(fs) = ToSet(run.files) \cup new
    <3>1. IsFiniteSet(new) /\ new \subseteq Docs
      BY <2>4, PageDocsFinite
    <3> HIDE DEF new
    <3>2. SetToSeq(new) \in Seq(new) /\ ToSet(SetToSeq(new)) = new
      BY <3>1, SetToSeqIs
    <3>3. SetToSeq(new) \in Seq(Docs)
      BY <3>1, <3>2, SeqMonotonic
    <3> QED
      BY <1>1, <3>2, <3>3, ToSetOfConcat
  <2> HIDE DEF fs
  <2>6. run' \in Runs
    <3>1. run.url + 1 \in Nat /\ "url" \in Extracting \cup Over
      BY <1>1 DEF Extracting
    <3> QED
      BY <1>1, <2>1, <2>5, <3>1 DEF Runs
  <2>7. /\ run'.stage = "url" /\ run'.url = run.url + 1 /\ run'.plan = run.plan
        /\ run'.complete = run.complete /\ run'.failed = run.failed /\ run'.read = run.read
        /\ run'.decided = run.decided /\ run'.files = fs /\ run'.outcome = NoOutcome
    BY <1>1, <2>1 DEF Runs
  <2>8. PlaceOf(run')
    BY <1>1, <2>7, PlaceAtUrl
  <2>9. CoverOf(run', cancelFlag)
    <3> SUFFICES ASSUME run'.complete, NEW w \in RowsOf(run.plan), w[1] < run.url + 1
                 PROVE  Covered(run', run'.read.projects, run'.files, w)
      BY <2>7 DEF CoverOf, Searching
    <3>1. /\ w[1] \in Nat /\ w[2] \in DOMAIN run.plan.urls[w[1]]
          /\ w[3] \in DOMAIN run.plan.urls[w[1]][w[2]]
      BY <1>1, RowIs
    <3>2. CASE w[1] < run.url
      <4>1. Covered(run, run.read.projects, run.files, w)
        BY <1>1, <2>7, <3>2 DEF Good, CoverOf
      <4>2. ToSet(run.files) \subseteq ToSet(fs)
        BY <2>5
      <4> QED
        BY <2>7, <4>1, <4>2, CoveredStays
    <3>3. CASE w[1] = run.url
      <4>1. w[2] = 1
        BY <2>3, <3>1, <3>3 DEF Pages
      <4>2. run.plan.urls[w[1]][w[2]][w[3]] \in ToSet(Pages[1])
        BY <3>1, <3>3, <4>1 DEF ToSet, Pages
      <4>3. Public(run.plan.urls[w[1]][w[2]][w[3]]) \subseteq ToSet(fs)
        BY <2>5, <4>2
      <4> QED
        BY <2>2, <2>7, <4>3 DEF Covered
    <3> QED
      BY <1>1, <3>1, <3>2, <3>3
  <2>10. CompleteOf(run', cancelFlag)
    BY <1>1, <2>2, <2>7 DEF Good, CompleteOf, Extracting, Searching
  <2>11. DecidedOf(run')
    BY <1>1, <2>2, <2>5, <2>7 DEF Good, DecidedOf, Extracting, Searching, Over
  <2> QED
    BY <2>6, <2>7, <2>8, <2>9, <2>10, <2>11, NothingPromised DEF Good
<1> QED
  BY <1>2, <1>3

\* The end of a search: if it could be complete every row of it was passed.
LEMMA EndSearchKeeps ==
  ASSUME RunInv, run.stage \in Searching, NEW broken \in BOOLEAN, EndSearch(run, broken),
         ~broken /\ ~cancelFlag =>
            \A w \in RowsOf(run.plan) : w[1] = run.url => Passed(run, w)
  PROVE  Good(run', cancelFlag)
<1>1. run \in Runs /\ Good(run, cancelFlag) /\ cancelFlag \in BOOLEAN
      /\ run.outcome = NoOutcome /\ run.url \in Nat /\ run.files \in Seq(Docs)
      /\ run.found \in Seq(Docs) /\ run.here \in Summaries /\ run.read \in Summaries
      /\ run.bad \in BOOLEAN /\ run.failed \in BOOLEAN /\ run.complete \in BOOLEAN
  BY Unfinished DEF Searching
<1> DEFINE fs == run.files \o run.found
           ss == MergeProjects(run.read, run.here)
           failed == run.bad \/ broken
<1>2. run' = [run EXCEPT !.stage = "url", !.url = run.url + 1, !.files = fs, !.read = ss,
                         !.failed = run.failed \/ failed,
                         !.complete = run.complete /\ ~failed /\ ~cancelFlag]
  BY DEF EndSearch
<1>3. fs \in Seq(Docs) /\ ToSet(fs) = ToSet(run.files) \cup ToSet(run.found)
  BY <1>1, ToSetOfConcat
<1>4. /\ ss \in Summaries /\ ReadOnes(run.read.projects) \subseteq ReadOnes(ss.projects)
      /\ ReadOnes(run.here.projects) \subseteq ReadOnes(ss.projects)
  BY <1>1, MergeIs
<1> HIDE DEF fs, ss
<1>5. run' \in Runs
  <2>1. /\ run.url + 1 \in Nat /\ "url" \in Extracting \cup Over
        /\ (run.failed \/ failed) \in BOOLEAN
        /\ (run.complete /\ ~failed /\ ~cancelFlag) \in BOOLEAN
    BY <1>1 DEF Extracting
  <2> QED
    BY <1>1, <1>2, <1>3, <1>4, <2>1 DEF Runs
<1>6. /\ run'.stage = "url" /\ run'.url = run.url + 1 /\ run'.plan = run.plan
      /\ run'.complete = (run.complete /\ ~failed /\ ~cancelFlag)
      /\ run'.failed = (run.failed \/ failed) /\ run'.read = ss
      /\ run'.decided = run.decided /\ run'.files = fs /\ run'.outcome = NoOutcome
  BY <1>1, <1>2 DEF Runs
<1>7. PlaceOf(run')
  BY <1>1, <1>6, PlaceAtUrl
<1>8. CoverOf(run', cancelFlag)
  <2> SUFFICES ASSUME run'.complete, NEW w \in RowsOf(run.plan), w[1] < run.url + 1
               PROVE  Covered(run', run'.read.projects, run'.files, w)
    BY <1>6 DEF CoverOf, Searching
  <2>1. run.complete /\ ~failed /\ ~cancelFlag
    BY <1>6
  <2>2. w[1] \in Nat
    BY <1>1, RowIs
  <2>3. CASE w[1] < run.url
    <3>1. Covered(run, run.read.projects, run.files, w)
      BY <1>1, <2>1, <2>3 DEF Good, CoverOf
    <3> QED
      BY <1>3, <1>4, <1>6, <3>1, CoveredStays
  <2>4. CASE w[1] = run.url
    <3>1. Passed(run, w)
      BY <2>1, <2>4
    <3>2. Covered(run, run.here.projects, run.found, w)
      BY <1>1, <2>1, <3>1 DEF Good, CoverOf
    <3> QED
      BY <1>3, <1>4, <1>6, <3>2, CoveredStays
  <2> QED
    BY <1>1, <2>2, <2>3, <2>4
<1>9. CompleteOf(run', cancelFlag)
  BY <1>1, <1>6 DEF Good, CompleteOf, Extracting, Searching
<1>10. DecidedOf(run')
  BY <1>1, <1>3, <1>6 DEF Good, DecidedOf, Extracting, Searching, Over
<1> QED
  BY <1>5, <1>6, <1>7, <1>8, <1>9, <1>10, NothingPromised DEF Good

-----------------------------------------------------------------------------
(* The steps of a search.                                                  *)

\* A step of the search that reads nothing.
LEMMA SearchGoesOn ==
  ASSUME RunInv, run.stage \in Searching, NEW stage \in Searching, NEW page \in Nat, NEW row \in Nat,
         NEW matched \in BOOLEAN,
         run' = [run EXCEPT !.stage = stage, !.page = page, !.row = row, !.matched = matched],
         PlaceOf(run'),
         ~cancelFlag => \A w \in RowsOf(run.plan) : Passed(run', w) => Passed(run, w)
  PROVE  Good(run', cancelFlag)
<1>1. run \in Runs /\ Good(run, cancelFlag) /\ cancelFlag \in BOOLEAN /\ run.outcome = NoOutcome
  BY Unfinished DEF Searching
<1>2. run' \in Runs
  <2>1. stage \in Extracting \cup Over
    BY DEF Extracting
  <2> QED
    BY <1>1, <2>1 DEF Runs
<1>3. /\ run'.stage = stage /\ run'.url = run.url /\ run'.plan = run.plan
      /\ run'.complete = run.complete /\ run'.failed = run.failed /\ run'.read = run.read
      /\ run'.decided = run.decided /\ run'.files = run.files /\ run'.outcome = NoOutcome
      /\ run'.here = run.here /\ run'.found = run.found /\ run'.bad = run.bad
  BY <1>1 DEF Runs
<1>4. CoverOf(run', cancelFlag)
  <2>1. ASSUME ~run.bad, ~cancelFlag, NEW w \in RowsOf(run.plan), Passed(run', w)
        PROVE  Covered(run', run.here.projects, run.found, w)
    <3>1. Covered(run, run.here.projects, run.found, w)
      BY <1>1, <2>1 DEF Good, CoverOf
    <3> QED
      BY <1>3, <3>1 DEF Covered
  <2>2. ASSUME run.complete, NEW w \in RowsOf(run.plan), w[1] < run.url
        PROVE  Covered(run', run.read.projects, run.files, w)
    <3>1. Covered(run, run.read.projects, run.files, w)
      BY <1>1, <2>2 DEF Good, CoverOf
    <3> QED
      BY <1>3, <3>1 DEF Covered
  <2> QED
    BY <1>3, <2>1, <2>2 DEF CoverOf
<1>5. CompleteOf(run', cancelFlag)
  BY <1>1, <1>3 DEF Good, CompleteOf, Extracting, Searching
<1>6. DecidedOf(run')
  BY <1>1, <1>3 DEF Good, DecidedOf, Extracting, Searching, Over
<1> QED
  BY <1>2, <1>3, <1>4, <1>5, <1>6, NothingPromised DEF Good

\* Where a search is.
LEMMA SearchPlace ==
  ASSUME RunInv, run.stage \in Searching
  PROVE  /\ run \in Runs /\ run.url \in DOMAIN run.plan.urls /\ run.plan.search
         /\ run.page \in Nat /\ run.row \in Nat /\ run.page # 0 /\ run.url # 0
         /\ Pages \in Seq(Seq(DOMAIN DocsOf)) /\ Pages = PagesOf(run)
         /\ Len(Pages) \in Nat /\ DOMAIN Pages = 1 .. Len(Pages)
         /\ run.stage # "page" =>
               /\ run.page \in DOMAIN Pages /\ Rows = PagesOf(run)[run.page]
               /\ Rows \in Seq(DOMAIN DocsOf)
               /\ Len(Rows) \in Nat /\ DOMAIN Rows = 1 .. Len(Rows)
<1>1. run \in Runs /\ Good(run, cancelFlag) /\ run.page \in Nat /\ run.row \in Nat
  BY Unfinished DEF Searching
<1>2. /\ run.url \in DOMAIN run.plan.urls /\ run.plan.search /\ run.page # 0 /\ run.url # 0
      /\ run.stage # "page" => run.page \in DOMAIN PagesOf(run)
  BY <1>1 DEF Good, PlaceOf, Searching, Extracting
<1>3. Pages \in Seq(Seq(DOMAIN DocsOf)) /\ Pages = PagesOf(run)
  BY <1>1, <1>2, PlanTyped DEF Pages, PagesOf
<1>4. Len(Pages) \in Nat /\ DOMAIN Pages = 1 .. Len(Pages)
  BY <1>3
<1>5. run.stage # "page" => Rows = PagesOf(run)[run.page] /\ Rows \in Seq(DOMAIN DocsOf)
  BY <1>2, <1>3 DEF Rows
<1>6. run.stage # "page" => Len(Rows) \in Nat /\ DOMAIN Rows = 1 .. Len(Rows)
  BY <1>5
<1> QED
  BY <1>1, <1>2, <1>3, <1>4, <1>5, <1>6

LEMMA PageKeeps ==
  ASSUME RunInv, Page
  PROVE  Good(run', cancelFlag)
<1>1. run.stage = "page" /\ run.stage \in Searching
  BY DEF Page, Searching
<1>2. /\ run \in Runs /\ run.url \in DOMAIN run.plan.urls /\ run.plan.search
      /\ run.page \in Nat /\ run.page # 0 /\ run.url # 0
      /\ Pages \in Seq(Seq(DOMAIN DocsOf)) /\ Pages = PagesOf(run)
      /\ Len(Pages) \in Nat /\ DOMAIN Pages = 1 .. Len(Pages)
  BY <1>1, SearchPlace
<1>3. CASE cancelFlag /\ EndSearch(run, FALSE)
  BY <1>1, <1>3, EndSearchKeeps
<1>4. CASE EndSearch(run, TRUE)
  BY <1>1, <1>4, EndSearchKeeps
<1>5. CASE Pages = <<>> /\ EndSearch(run, FALSE)
  <2>1. ASSUME NEW w \in RowsOf(run.plan), w[1] = run.url PROVE FALSE
    <3>1. w[2] \in DOMAIN Pages
      BY <1>2, <2>1, RowIs DEF Pages
    <3> QED
      BY <1>5, <3>1
  <2> QED
    BY <1>1, <1>5, <2>1, EndSearchKeeps
<1>6. CASE Pages # <<>> /\ run' = [run EXCEPT !.stage = "row", !.row = 1, !.matched = TRUE]
  <2>1. run' = [run EXCEPT !.stage = "row", !.page = run.page, !.row = 1, !.matched = TRUE]
    BY <1>2, <1>6 DEF Runs
  <2>2. /\ run'.stage = "row" /\ run'.url = run.url /\ run'.plan = run.plan
        /\ run'.page = run.page /\ run'.row = 1
    BY <1>2, <2>1 DEF Runs
  <2>3. run.page \in DOMAIN PagesOf(run')
    <3>1. run.page = 1 \/ run.page <= Len(Pages)
      BY <1>1, <1>2 DEF RunInv, Good, PlaceOf
    <3>2. Len(Pages) # 0
      BY <1>2, <1>6, EmptySeq
    <3> QED
      BY <1>2, <2>2, <3>1, <3>2 DEF PagesOf
  <2>4. PlaceOf(run')
    BY <1>2, <2>2, <2>3 DEF PlaceOf, Searching, Extracting
  <2>5. ASSUME NEW w \in RowsOf(run.plan), Passed(run', w) PROVE Passed(run, w)
    <3>1. w[3] \in Nat \ {0}
      BY <1>2, RowIs
    <3>2. ~(w[3] < 1)
      BY <3>1
    <3> QED
      BY <2>2, <2>5, <3>2 DEF Passed
  <2>6. "row" \in Searching /\ TRUE \in BOOLEAN /\ 1 \in Nat
    BY DEF Searching
  <2> QED
    BY <1>1, <1>2, <2>1, <2>4, <2>5, <2>6, SearchGoesOn
<1> QED
  BY <1>3, <1>4, <1>5, <1>6 DEF Page

LEMMA RowKeeps ==
  ASSUME RunInv, Row
  PROVE  Good(run', cancelFlag)
<1>1. run.stage = "row" /\ run.stage \in Searching
  BY DEF Row, Searching
<1>2. /\ run \in Runs /\ run.url \in DOMAIN run.plan.urls /\ run.plan.search
      /\ run.page \in Nat /\ run.row \in Nat /\ run.page # 0 /\ run.url # 0
      /\ Pages = PagesOf(run) /\ run.page \in DOMAIN PagesOf(run) /\ Rows = PagesOf(run)[run.page]
      /\ Len(Rows) \in Nat /\ DOMAIN Rows = 1 .. Len(Rows)
  BY <1>1, SearchPlace
<1>3. run.row # 0
  BY <1>1 DEF RunInv, Good, PlaceOf
<1> DEFINE stage == IF cancelFlag \/ run.row > Len(Rows) THEN "rowsRead" ELSE "detail"
<1>4. run' = [run EXCEPT !.stage = stage]
  BY DEF Row
<1>5. stage \in {"rowsRead", "detail"} /\ stage \in Searching
  BY DEF Searching
<1>6. stage = "detail" => run.row \in DOMAIN Rows
  BY <1>2, <1>3
<1>7. stage = "rowsRead" => cancelFlag \/ run.row > Len(Rows)
  OBVIOUS
<1> HIDE DEF stage
<1>8. run.matched \in BOOLEAN
  BY <1>2 DEF Runs
<1>9. run' = [run EXCEPT !.stage = stage, !.page = run.page, !.row = run.row, !.matched = run.matched]
  BY <1>2, <1>4 DEF Runs
<1>10. /\ run'.stage = stage /\ run'.url = run.url /\ run'.plan = run.plan
       /\ run'.page = run.page /\ run'.row = run.row
  BY <1>2, <1>4 DEF Runs
<1>11. PagesOf(run') = PagesOf(run)
  BY <1>10 DEF PagesOf
<1>12. PlaceOf(run')
  BY <1>2, <1>3, <1>5, <1>6, <1>10, <1>11 DEF PlaceOf, Searching, Extracting
<1>13. ASSUME ~cancelFlag, NEW w \in RowsOf(run.plan), Passed(run', w) PROVE Passed(run, w)
  <2>1. CASE w[1] = run.url /\ w[2] = run.page /\ stage = "rowsRead"
    <3>1. w[3] \in DOMAIN Rows
      BY <1>2, <2>1, RowIs DEF PagesOf
    <3>2. w[3] < run.row
      BY <1>2, <1>7, <1>13, <2>1, <3>1
    <3> QED
      BY <1>1, <2>1, <3>2 DEF Passed
  <2>2. CASE ~(w[1] = run.url /\ w[2] = run.page /\ stage = "rowsRead")
    BY <1>1, <1>5, <1>10, <1>13, <2>2 DEF Passed
  <2> QED
    BY <2>1, <2>2
<1> QED
  BY <1>1, <1>2, <1>5, <1>8, <1>9, <1>12, <1>13, SearchGoesOn

\* One detail page, however it was read: what it lists and what was found
\* on it go together, and a page that was read covers its row.
LEMMA DetailIsKeeps ==
  ASSUME RunInv, run.stage = "detail", NEW class \in Classes, NEW listed, NEW docs,
         listed \subseteq Docs, docs \subseteq Docs, IsFiniteSet(docs), listed \ Ended \subseteq docs,
         class # FAILED_DETAIL /\ Project \notin ListedOnly =>
            Public(Project) \subseteq docs /\ Public(Project) \subseteq listed,
         DetailIs(class, listed, docs)
  PROVE  Good(run', cancelFlag)
<1>1. run.stage \in Searching
  BY DEF Searching
<1>2. /\ run \in Runs /\ run.url \in DOMAIN run.plan.urls /\ run.plan.search
      /\ run.page \in Nat /\ run.row \in Nat /\ run.page # 0 /\ run.url # 0
      /\ Pages = PagesOf(run) /\ run.page \in DOMAIN PagesOf(run) /\ Rows = PagesOf(run)[run.page]
      /\ Rows \in Seq(DOMAIN DocsOf) /\ Len(Rows) \in Nat /\ DOMAIN Rows = 1 .. Len(Rows)
  BY <1>1, SearchPlace
<1>3. run.row # 0 /\ run.row \in DOMAIN Rows
  BY <1>2 DEF RunInv, Good, PlaceOf
<1>4. Project \in DOMAIN DocsOf
  BY <1>2, <1>3 DEF Project
<1>5. /\ Good(run, cancelFlag) /\ cancelFlag \in BOOLEAN /\ run.outcome = NoOutcome
      /\ run.url \in Nat /\ run.here \in Summaries /\ run.found \in Seq(Docs) /\ run.bad \in BOOLEAN
  BY Unfinished
<1> DEFINE row == <<run.url, run.page, run.row>>
           id == ProjectId(row, Project, class)
           here == Upsert(run.here, id, class)
           found == run.found \o SetToSeq(docs)
           decided == Joined(run.decided, AsListed(listed))
           bad == run.bad \/ class = FAILED_DETAIL
<1>6. run' = [run EXCEPT !.stage = "row", !.row = run.row + 1, !.here = here,
                         !.decided = decided, !.bad = bad, !.found = found]
  BY DEF DetailIs
<1>7. id \in {row, Project} /\ id \in Ids
  <2>1. row \in Ids
    BY <1>2, <1>5 DEF Ids
  <2> QED
    BY <1>4, <2>1 DEF ProjectId, Ids
<1>8. /\ here \in Summaries /\ ReadOnes(run.here.projects) \subseteq ReadOnes(here.projects)
      /\ class # FAILED_DETAIL => id \in ReadOnes(here.projects)
  <2> HIDE DEF id
  <2> QED
    BY <1>5, <1>7, UpsertIs
<1>9. found \in Seq(Docs) /\ ToSet(found) = ToSet(run.found) \cup docs
  <2>1. SetToSeq(docs) \in Seq(docs) /\ ToSet(SetToSeq(docs)) = docs
    BY SetToSeqIs
  <2>2. SetToSeq(docs) \in Seq(Docs)
    BY <2>1, SeqMonotonic
  <2> QED
    BY <1>5, <2>1, <2>2, ToSetOfConcat
<1>10. PICK D \in SUBSET Docs : run.decided \in [D -> Statuses]
  BY <1>2 DEF Runs
<1>11. /\ DOMAIN decided = D \cup listed
       /\ \A d \in D : decided[d] = run.decided[d]
       /\ \A d \in listed \ D : decided[d] = IF d \in Ended THEN "EXCLUDED_EXPIRED" ELSE "NOT_EVALUATED"
       /\ decided \in [D \cup listed -> Statuses]
  BY <1>10 DEF Joined, AsListed, Statuses
<1> HIDE DEF id, here, found, decided, bad, row
<1>12. run' \in Runs
  <2>1. run.row + 1 \in Nat /\ "row" \in Extracting \cup Over
    BY <1>2 DEF Extracting, Searching
  <2>2. bad \in BOOLEAN
    BY <1>5 DEF bad
  <2>3. D \cup listed \in SUBSET Docs
    BY <1>10
  <2>4. decided \in UNION {[E -> Statuses] : E \in SUBSET Docs}
    BY <1>11, <2>3
  <2> QED
    BY <1>2, <1>6, <1>8, <1>9, <2>1, <2>2, <2>4 DEF Runs
<1>13. /\ run'.stage = "row" /\ run'.url = run.url /\ run'.plan = run.plan
       /\ run'.page = run.page /\ run'.row = run.row + 1
       /\ run'.complete = run.complete /\ run'.failed = run.failed /\ run'.read = run.read
       /\ run'.decided = decided /\ run'.files = run.files /\ run'.outcome = NoOutcome
       /\ run'.here = here /\ run'.found = found /\ run'.bad = bad
  BY <1>2, <1>5, <1>6 DEF Runs
<1>14. PlaceOf(run')
  <2>1. PagesOf(run') = PagesOf(run)
    BY <1>13 DEF PagesOf
  <2>2. run.row + 1 # 0
    BY <1>2
  <2> QED
    BY <1>2, <1>13, <2>1, <2>2 DEF PlaceOf, Searching, Extracting
<1>15. DOMAIN run.decided \subseteq DOMAIN decided
  BY <1>10, <1>11
<1>16. CoverOf(run', cancelFlag)
  <2>1. ASSUME ~bad, ~cancelFlag, NEW w \in RowsOf(run.plan), Passed(run', w)
        PROVE  Covered(run', here.projects, found, w)
    <3>1. class # FAILED_DETAIL /\ ~run.bad
      BY <2>1 DEF bad
    <3>2. /\ w[3] \in Nat /\ w = <<w[1], w[2], w[3]>>
      BY <1>2, RowIs
    <3>3. CASE Passed(run, w)
      <4>1. Covered(run, run.here.projects, run.found, w)
        BY <1>1, <1>5, <2>1, <3>1, <3>3 DEF Good, CoverOf
      <4>2. ToSet(run.found) \subseteq ToSet(found)
        BY <1>9
      <4> QED
        BY <1>8, <1>13, <1>15, <4>1, <4>2 DEF Covered
    <3>4. CASE ~Passed(run, w)
      <4>1. w[1] = run.url /\ w[2] = run.page /\ w[3] < run.row + 1 /\ ~(w[3] < run.row)
        BY <1>13, <2>1, <3>4 DEF Passed
      <4>2. w[3] = run.row
        BY <1>2, <3>2, <4>1
      <4>3. w = row /\ run.plan.urls[w[1]][w[2]][w[3]] = Project
        BY <1>2, <3>2, <4>1, <4>2 DEF row, Project, Rows, Pages
      <4>4. {w, Project} \cap ReadOnes(here.projects) # {}
        BY <1>7, <1>8, <3>1, <4>3
      <4>5. Project \notin ListedOnly =>
               Public(Project) \subseteq ToSet(found) /\ Public(Project) \subseteq DOMAIN decided
        BY <1>9, <1>11, <3>1
      <4> QED
        BY <1>13, <4>3, <4>4, <4>5 DEF Covered
    <3> QED
      BY <3>3, <3>4
  <2>2. ASSUME run.complete, NEW w \in RowsOf(run.plan), w[1] < run.url
        PROVE  Covered(run', run.read.projects, run.files, w)
    <3>1. Covered(run, run.read.projects, run.files, w)
      BY <1>5, <2>2 DEF Good, CoverOf
    <3> QED
      BY <1>13, <1>15, <3>1 DEF Covered
  <2> QED
    BY <1>13, <2>1, <2>2 DEF CoverOf
<1>17. CompleteOf(run', cancelFlag)
  BY <1>1, <1>5, <1>13 DEF Good, CompleteOf, Extracting, Searching
<1>18. DecidedOf(run')
  <2>1. ASSUME NEW d \in DOMAIN decided
        PROVE  \/ d \in Ended /\ decided[d] = "EXCLUDED_EXPIRED"
               \/ /\ d \notin Ended /\ decided[d] = "NOT_EVALUATED"
                  /\ d \in ToSet(run.files) \/ d \in ToSet(found)
    <3>1. CASE d \in D
      <4>1. \/ d \in Ended /\ run.decided[d] = "EXCLUDED_EXPIRED"
            \/ /\ d \notin Ended /\ run.decided[d] = "NOT_EVALUATED"
               /\ d \in ToSet(run.files) \/ d \in ToSet(run.found)
        BY <1>1, <1>5, <1>10, <3>1 DEF Good, DecidedOf, Extracting
      <4> QED
        BY <1>9, <1>11, <3>1, <4>1
    <3>2. CASE d \notin D
      BY <1>9, <1>11, <3>2
    <3> QED
      BY <3>1, <3>2
  <2> QED
    BY <1>13, <2>1 DEF DecidedOf, Extracting, Searching, Over
<1> QED
  BY <1>12, <1>13, <1>14, <1>16, <1>17, <1>18, NothingPromised DEF Good

LEMMA DetailPageKeeps ==
  ASSUME RunInv, Detail
  PROVE  Good(run', cancelFlag)
<1>1. run.stage = "detail" /\ run.stage \in Searching
  BY DEF Detail, Searching
<1>2. /\ run \in Runs /\ run.url \in DOMAIN run.plan.urls /\ run.plan.search
      /\ run.page \in Nat /\ run.row \in Nat /\ run.page # 0 /\ run.url # 0
      /\ Pages = PagesOf(run) /\ run.page \in DOMAIN PagesOf(run) /\ Rows = PagesOf(run)[run.page]
      /\ Rows \in Seq(DOMAIN DocsOf) /\ Len(Rows) \in Nat /\ DOMAIN Rows = 1 .. Len(Rows)
  BY <1>1, SearchPlace
<1>3. run.row # 0 /\ run.row \in DOMAIN Rows
  BY <1>1, <1>2 DEF RunInv, Good, PlaceOf
<1>4. Project \in DOMAIN DocsOf
  BY <1>2, <1>3 DEF Project
<1>5. IsFiniteSet(Public(Project)) /\ Public(Project) \subseteq Docs /\ DocsOf[Project] \subseteq Docs
  BY <1>4, DocsFinite
<1>6. IsFiniteSet({})
  BY FS_EmptySet
<1>7. CASE DetailIs(FAILED_DETAIL, {}, {})
  BY <1>1, <1>6, <1>7, DetailIsKeeps DEF Classes
<1>8. CASE /\ Project \notin ListedOnly
           /\ DetailIs(Class(DocsOf[Project]), DocsOf[Project], Public(Project))
  <2>1. Class(DocsOf[Project]) \in Classes
    BY DEF Class, Classes
  <2>2. DocsOf[Project] \ Ended \subseteq Public(Project) /\ Public(Project) \subseteq DocsOf[Project]
    BY DEF Public
  <2> QED
    BY <1>1, <1>5, <1>8, <2>1, <2>2, DetailIsKeeps
<1>9. CASE Project \in ListedOnly /\ DetailIs("NO_DOCUMENTS", {}, Public(Project))
  BY <1>1, <1>5, <1>9, DetailIsKeeps DEF Classes
<1>10. CASE Project \in ListedOnly /\ DetailIs("NO_DOCUMENTS", {}, {})
  BY <1>1, <1>6, <1>10, DetailIsKeeps DEF Classes
<1>11. CASE cancelFlag /\ DetailSkipped
  <2>1. run' = [run EXCEPT !.stage = "row", !.row = run.row + 1]
    BY <1>11 DEF DetailSkipped
  <2>2. run.matched \in BOOLEAN /\ run.row + 1 \in Nat /\ "row" \in Searching
    BY <1>2 DEF Runs, Searching
  <2>3. run' = [run EXCEPT !.stage = "row", !.page = run.page, !.row = run.row + 1,
                           !.matched = run.matched]
    BY <1>2, <2>1 DEF Runs
  <2>4. /\ run'.stage = "row" /\ run'.url = run.url /\ run'.plan = run.plan
        /\ run'.page = run.page /\ run'.row = run.row + 1
    BY <1>2, <2>1 DEF Runs
  <2>5. PlaceOf(run')
    <3>1. PagesOf(run') = PagesOf(run) /\ run.row + 1 # 0
      BY <1>2, <2>4 DEF PagesOf
    <3> QED
      BY <1>2, <2>4, <3>1 DEF PlaceOf, Searching, Extracting
  <2> QED
    BY <1>1, <1>2, <1>11, <2>2, <2>3, <2>5, SearchGoesOn
<1> QED
  BY <1>7, <1>8, <1>9, <1>10, <1>11 DEF Detail

LEMMA RowsReadKeeps ==
  ASSUME RunInv, RowsRead
  PROVE  Good(run', cancelFlag)
<1>1. run.stage = "rowsRead" /\ run.stage \in Searching
  BY DEF RowsRead, Searching
<1>2. /\ run \in Runs /\ run.url \in DOMAIN run.plan.urls /\ run.plan.search
      /\ run.page \in Nat /\ run.row \in Nat /\ run.page # 0 /\ run.url # 0
      /\ run.page \in DOMAIN Pages /\ Pages = PagesOf(run)
  BY <1>1, SearchPlace
<1>3. CASE cancelFlag
  BY <1>1, <1>3, EndSearchKeeps DEF RowsRead
<1>4. CASE ~cancelFlag
  <2>1. run' = [run EXCEPT !.stage = "nextPage"]
    BY <1>4 DEF RowsRead
  <2>2. run.matched \in BOOLEAN /\ "nextPage" \in Searching
    BY <1>2 DEF Runs, Searching
  <2>3. run' = [run EXCEPT !.stage = "nextPage", !.page = run.page, !.row = run.row,
                           !.matched = run.matched]
    BY <1>2, <2>1 DEF Runs
  <2>4. /\ run'.stage = "nextPage" /\ run'.url = run.url /\ run'.plan = run.plan
        /\ run'.page = run.page /\ run'.row = run.row
    BY <1>2, <2>1 DEF Runs
  <2>5. PlaceOf(run')
    <3>1. PagesOf(run') = PagesOf(run)
      BY <2>4 DEF PagesOf
    <3> QED
      BY <1>2, <2>4, <3>1 DEF PlaceOf, Searching, Extracting
  <2>6. ASSUME NEW w \in RowsOf(run.plan), Passed(run', w) PROVE Passed(run, w)
    BY <1>1, <2>4, <2>6 DEF Passed
  <2> QED
    BY <1>1, <1>2, <2>2, <2>3, <2>5, <2>6, SearchGoesOn
<1> QED
  BY <1>3, <1>4

LEMMA NextPageKeeps ==
  ASSUME RunInv, NextPage
  PROVE  Good(run', cancelFlag)
<1>1. run.stage = "nextPage" /\ run.stage \in Searching
  BY DEF NextPage, Searching
<1>2. /\ run \in Runs /\ run.url \in DOMAIN run.plan.urls /\ run.plan.search
      /\ run.page \in Nat /\ run.row \in Nat /\ run.page # 0 /\ run.url # 0
      /\ run.page \in DOMAIN Pages /\ Pages = PagesOf(run)
      /\ Len(Pages) \in Nat /\ DOMAIN Pages = 1 .. Len(Pages)
  BY <1>1, SearchPlace
<1>3. CASE cancelFlag /\ EndSearch(run, FALSE)
  BY <1>1, <1>3, EndSearchKeeps
<1>4. CASE EndSearch(run, TRUE)
  BY <1>1, <1>4, EndSearchKeeps
<1>5. CASE run.page = Len(Pages) /\ EndSearch(run, FALSE)
  <2>1. ASSUME NEW w \in RowsOf(run.plan), w[1] = run.url PROVE Passed(run, w)
    <3>1. w[2] \in DOMAIN Pages
      BY <1>2, <2>1, RowIs DEF Pages
    <3>2. w[2] < run.page \/ w[2] = run.page
      BY <1>2, <1>5, <3>1
    <3> QED
      BY <1>1, <2>1, <3>2 DEF Passed
  <2> QED
    BY <1>1, <1>5, <2>1, EndSearchKeeps
<1>6. CASE run.page < Len(Pages) /\ run' = [run EXCEPT !.stage = "page", !.page = run.page + 1]
  <2>1. run.matched \in BOOLEAN /\ "page" \in Searching /\ run.page + 1 \in Nat
    BY <1>2 DEF Runs, Searching
  <2>2. run' = [run EXCEPT !.stage = "page", !.page = run.page + 1, !.row = run.row,
                           !.matched = run.matched]
    BY <1>2, <1>6 DEF Runs
  <2>3. /\ run'.stage = "page" /\ run'.url = run.url /\ run'.plan = run.plan
        /\ run'.page = run.page + 1 /\ run'.row = run.row
    BY <1>2, <1>6 DEF Runs
  <2>4. PlaceOf(run')
    <3>1. PagesOf(run') = PagesOf(run) /\ run.page + 1 # 0 /\ run.page + 1 <= Len(PagesOf(run))
      BY <1>2, <1>6, <2>3 DEF PagesOf
    <3> QED
      BY <1>2, <2>3, <3>1 DEF PlaceOf, Searching, Extracting
  <2>5. ASSUME NEW w \in RowsOf(run.plan), Passed(run', w) PROVE Passed(run, w)
    <3>1. w[2] \in Nat
      BY <1>2, RowIs
    <3>2. w[1] = run.url /\ w[2] < run.page + 1
      BY <2>3, <2>5 DEF Passed
    <3>3. w[2] < run.page \/ w[2] = run.page
      BY <1>2, <3>1, <3>2
    <3> QED
      BY <1>1, <3>2, <3>3 DEF Passed
  <2> QED
    BY <1>1, <1>2, <2>1, <2>2, <2>4, <2>5, SearchGoesOn
<1> QED
  BY <1>3, <1>4, <1>5, <1>6 DEF NextPage, BeyondLimit

-----------------------------------------------------------------------------
(* The end of a run, and the window around it.                             *)

\* What is known of a run that has found its documents.
LEMMA FoundAll ==
  ASSUME RunInv, run.stage \in {"extracted", "filter", "download"}
  PROVE  /\ run \in Runs /\ Good(run, cancelFlag) /\ cancelFlag \in BOOLEAN
         /\ run.outcome = NoOutcome /\ run.files \in Seq(Docs) /\ IsInjective(run.files)
         /\ CoverOf(run, cancelFlag)
         /\ run.complete => \A w \in RowsOf(run.plan) : w[1] < run.url =>
                               Covered(run, run.read.projects, run.files, w)
<1>1. /\ run \in Runs /\ Good(run, cancelFlag) /\ cancelFlag \in BOOLEAN
      /\ run.outcome = NoOutcome /\ run.files \in Seq(Docs)
  BY Unfinished
<1>2. CoverOf(run, cancelFlag) /\ IsInjective(run.files)
  BY <1>1 DEF Good, DecidedOf, Over
<1> QED
  BY <1>1, <1>2 DEF CoverOf

LEMMA ExtractedKeeps ==
  ASSUME RunInv, Extracted
  PROVE  Good(run', cancelFlag)
<1> DEFINE told == IF run.files = <<>> /\ run.matched THEN <<Summary(run)>> ELSE <<>>
<1>0. run.stage = "extracted"
  BY DEF Extracted
<1>1. /\ run \in Runs /\ Good(run, cancelFlag) /\ cancelFlag \in BOOLEAN
      /\ run.outcome = NoOutcome /\ run.files \in Seq(Docs) /\ IsInjective(run.files)
      /\ CoverOf(run, cancelFlag)
      /\ run.complete => \A w \in RowsOf(run.plan) : w[1] < run.url =>
                            Covered(run, run.read.projects, run.files, w)
  BY <1>0, FoundAll
<1>2. /\ run.complete \/ run.failed \/ cancelFlag
      /\ cancelFlag \/ run.url > Len(run.plan.urls)
      /\ \A d \in DOMAIN run.decided :
            \/ d \in Ended /\ run.decided[d] = "EXCLUDED_EXPIRED"
            \/ d \notin Ended /\ run.decided[d] = "NOT_EVALUATED" /\ d \in ToSet(run.files)
  BY <1>0, <1>1 DEF Good, CompleteOf, DecidedOf, Extracting, Searching
<1>3. \/ cancelFlag /\ EndRun(run, "CANCELLED", told)
      \/ ~cancelFlag /\ run.files = <<>> /\ EndRun(run, EmptyOutcome(run), told)
      \/ ~cancelFlag /\ run.files # <<>> /\ run' = [run EXCEPT !.stage = "filter"]
  BY DEF Extracted, FinishesAs
<1> HIDE DEF told
<1>4. CASE EndRun(run, "CANCELLED", told)
  BY <1>1, <1>4, FailureKeeps
<1>5. CASE ~cancelFlag /\ run.files = <<>> /\ EndRun(run, EmptyOutcome(run), told)
  <2>1. CASE run.failed
    BY <1>1, <1>5, <2>1, FailureKeeps DEF EmptyOutcome
  <2>2. CASE ~run.failed
    <3> DEFINE q == [run EXCEPT !.stage = "done", !.outcome = "NO_MATCH"]
    <3>1. EndRun(run, "NO_MATCH", told)
      BY <1>5, <2>2 DEF EmptyOutcome
    <3>2. /\ q.stage = "done" /\ q.outcome = "NO_MATCH" /\ q.complete = run.complete
          /\ q.url = run.url /\ q.plan = run.plan /\ q.files = run.files
          /\ q.decided = run.decided
      BY <1>1 DEF Runs
    <3>3. ToSet(run.files) = {}
      BY <1>5, NoneIsInjective
    <3> HIDE DEF q
    <3>4. PromiseOf(q)
      BY <1>2, <1>5, <2>2, <3>2, <3>3 DEF PromiseOf
    <3> QED
      BY <1>1, <3>1, <3>4, EndRunKeeps DEF q
  <2> QED
    BY <2>1, <2>2
<1>6. CASE ~cancelFlag /\ run' = [run EXCEPT !.stage = "filter"]
  <2>1. run' \in Runs
    BY <1>1, <1>6 DEF Runs, Over
  <2>2. /\ run'.stage = "filter" /\ run'.url = run.url /\ run'.plan = run.plan
        /\ run'.complete = run.complete /\ run'.failed = run.failed /\ run'.read = run.read
        /\ run'.decided = run.decided /\ run'.files = run.files /\ run'.outcome = NoOutcome
    BY <1>1, <1>6 DEF Runs
  <2>3. PlaceOf(run') /\ CompleteOf(run', cancelFlag)
    BY <1>2, <1>6, <2>2 DEF PlaceOf, CompleteOf, Extracting, Searching
  <2>4. CoverOf(run', cancelFlag)
    BY <1>1, <2>2, CoverStays DEF Searching
  <2>5. DecidedOf(run')
    BY <1>1, <1>2, <2>2 DEF DecidedOf, Extracting, Searching
  <2> QED
    BY <2>1, <2>2, <2>3, <2>4, <2>5, NothingPromised DEF Good
<1> QED
  BY <1>3, <1>4, <1>5, <1>6

LEMMA FilterKeeps ==
  ASSUME RunInv, Filter
  PROVE  Good(run', cancelFlag)
<1> DEFINE told == <<Event("MESSAGE"), Summary(run)>>
           decided == FilterDecisions(run)
           r == [run EXCEPT !.decided = decided]
<1>0. run.stage = "filter"
  BY DEF Filter
<1>1. /\ run \in Runs /\ Good(run, cancelFlag) /\ cancelFlag \in BOOLEAN
      /\ run.outcome = NoOutcome /\ run.files \in Seq(Docs) /\ IsInjective(run.files)
      /\ CoverOf(run, cancelFlag)
      /\ run.complete => \A w \in RowsOf(run.plan) : w[1] < run.url =>
                            Covered(run, run.read.projects, run.files, w)
  BY <1>0, FoundAll
<1>2. /\ run.complete \/ run.failed
      /\ run.url > Len(run.plan.urls)
      /\ \A d \in DOMAIN run.decided :
            \/ d \in Ended /\ run.decided[d] = "EXCLUDED_EXPIRED"
            \/ d \notin Ended /\ run.decided[d] = "NOT_EVALUATED" /\ d \in ToSet(run.files)
  BY <1>0, <1>1 DEF Good, CompleteOf, DecidedOf, Extracting, Searching
<1>3. \/ cancelFlag /\ EndRun(r, "CANCELLED", told)
      \/ Targets(run) = <<>> /\ EndRun(r, EmptyOutcome(run), told)
      \/ Targets(run) # <<>> /\ run' = [r EXCEPT !.stage = "download"]
  BY DEF Filter
<1>4. PICK D \in SUBSET Docs : run.decided \in [D -> Statuses]
  BY <1>1 DEF Runs
<1>5. /\ decided \in [D -> Statuses]
      /\ \A d \in D : \/ decided[d] \in {"EXCLUDED_EXPIRED", "EXCLUDED_FILTER", "EXCLUDED_FILE_TYPE"}
                      \/ decided[d] = "DOWNLOAD_TARGET" /\ d \in ToSet(Targets(run))
  <2>1. DOMAIN run.decided = D
    BY <1>4
  <2>2. \A d \in D : \/ decided[d] \in {"EXCLUDED_EXPIRED", "EXCLUDED_FILTER", "EXCLUDED_FILE_TYPE"}
                     \/ decided[d] = "DOWNLOAD_TARGET" /\ d \in ToSet(Targets(run))
    BY <1>2, <2>1 DEF FilterDecisions
  <2>3. decided = [d \in D |-> decided[d]]
    BY <2>1 DEF FilterDecisions
  <2> HIDE DEF decided
  <2>4. decided \in [D -> Statuses]
    BY <2>2, <2>3 DEF Statuses
  <2> QED
    BY <2>2, <2>4
<1>6. DOMAIN run.decided = D /\ DOMAIN decided = D
  BY <1>4, <1>5
<1> HIDE DEF decided, told
<1>7. r \in Runs
  <2>1. decided \in UNION {[E -> Statuses] : E \in SUBSET Docs}
    BY <1>4, <1>5
  <2> QED
    BY <1>1, <2>1 DEF Runs
<1>8. /\ r.stage = "filter" /\ r.url = run.url /\ r.plan = run.plan
      /\ r.complete = run.complete /\ r.failed = run.failed /\ r.read = run.read
      /\ r.decided = decided /\ r.files = run.files /\ r.outcome = NoOutcome
  BY <1>0, <1>1 DEF Runs
<1> HIDE DEF r
<1>9. r.complete => \A w \in RowsOf(r.plan) : w[1] < r.url =>
                       Covered(r, r.read.projects, r.files, w)
  BY <1>1, <1>6, <1>8 DEF Covered
<1>10. CoverOf(r, cancelFlag)
  BY <1>8, <1>9 DEF CoverOf, Searching
<1>11. ToSet(Targets(run)) = ToSet(run.files) \cap Wanted
  BY <1>1, TargetsAre
<1>12. CASE EndRun(r, "CANCELLED", told)
  BY <1>1, <1>7, <1>8, <1>10, <1>12, FailureKeeps
<1>13. CASE Targets(run) = <<>> /\ EndRun(r, EmptyOutcome(run), told)
  <2>1. CASE run.failed
    BY <1>1, <1>7, <1>8, <1>10, <1>13, <2>1, FailureKeeps DEF EmptyOutcome
  <2>2. CASE ~run.failed
    <3> DEFINE q == [r EXCEPT !.stage = "done", !.outcome = "NO_MATCH"]
    <3>1. EndRun(r, "NO_MATCH", told)
      BY <1>13, <2>2 DEF EmptyOutcome
    <3>2. /\ q.stage = "done" /\ q.outcome = "NO_MATCH" /\ q.complete = run.complete
          /\ q.url = run.url /\ q.plan = run.plan /\ q.files = run.files
          /\ q.decided = decided
      BY <1>7, <1>8 DEF Runs
    <3>3. ToSet(Targets(run)) = {}
      BY <1>13, NoneIsInjective
    <3> HIDE DEF q
    <3>4. PromiseOf(q)
      BY <1>2, <1>5, <1>6, <1>11, <2>2, <3>2, <3>3 DEF PromiseOf
    <3> QED
      BY <1>1, <1>7, <1>8, <1>9, <3>1, <3>4, EndRunKeeps DEF q
  <2> QED
    BY <2>1, <2>2
<1>14. CASE run' = [r EXCEPT !.stage = "download"]
  <2>1. run' \in Runs
    BY <1>7, <1>14 DEF Runs, Over
  <2>2. /\ run'.stage = "download" /\ run'.url = run.url /\ run'.plan = run.plan
        /\ run'.complete = run.complete /\ run'.failed = run.failed /\ run'.read = run.read
        /\ run'.decided = decided /\ run'.files = run.files /\ run'.outcome = NoOutcome
    BY <1>7, <1>8, <1>14 DEF Runs
  <2>3. PlaceOf(run') /\ CompleteOf(run', cancelFlag)
    BY <1>2, <2>2 DEF PlaceOf, CompleteOf, Extracting, Searching
  <2>4. CoverOf(run', cancelFlag)
    BY <1>8, <1>10, <2>2, CoverStays, <1>1 DEF Searching
  <2>5. DecidedOf(run')
    <3>1. ToSet(Targets(run')) = ToSet(run.files) \cap Wanted
      BY <1>1, <2>2, TargetsAre
    <3> QED
      BY <1>1, <1>5, <1>6, <1>11, <2>2, <3>1 DEF DecidedOf, Extracting, Searching
  <2> QED
    BY <2>1, <2>2, <2>3, <2>4, <2>5, NothingPromised DEF Good
<1> QED
  BY <1>3, <1>12, <1>13, <1>14

LEMMA DownloadKeeps ==
  ASSUME RunInv, Download
  PROVE  Good(run', cancelFlag)
<1>0. run.stage = "download"
  BY DEF Download
<1>1. /\ run \in Runs /\ Good(run, cancelFlag) /\ cancelFlag \in BOOLEAN
      /\ run.outcome = NoOutcome /\ run.files \in Seq(Docs) /\ CoverOf(run, cancelFlag)
  BY <1>0, FoundAll
<1>2. PICK answer \in Answers : run' = [run EXCEPT !.tasks = Append(run.tasks, answer)]
  BY DEF Download, Answered, Answers
<1>3. Append(run.tasks, answer) \in Seq(Answers)
  BY <1>1 DEF Runs
<1>4. run' \in Runs
  BY <1>1, <1>2, <1>3 DEF Runs
<1>5. /\ run'.stage = "download" /\ run'.url = run.url /\ run'.plan = run.plan
      /\ run'.complete = run.complete /\ run'.failed = run.failed /\ run'.read = run.read
      /\ run'.decided = run.decided /\ run'.files = run.files /\ run'.outcome = NoOutcome
  BY <1>0, <1>1, <1>2 DEF Runs
<1>6. PlaceOf(run') /\ CompleteOf(run', cancelFlag)
  BY <1>0, <1>1, <1>5 DEF Good, PlaceOf, CompleteOf, Extracting, Searching
<1>7. CoverOf(run', cancelFlag)
  BY <1>1, <1>5, CoverStays DEF Searching
<1>8. DecidedOf(run')
  <2>1. /\ ToSet(Targets(run')) = ToSet(run.files) \cap Wanted
        /\ ToSet(Targets(run)) = ToSet(run.files) \cap Wanted
    BY <1>1, <1>5, TargetsAre
  <2> QED
    BY <1>0, <1>1, <1>5, <2>1 DEF Good, DecidedOf, Extracting, Searching
<1> QED
  BY <1>4, <1>5, <1>6, <1>7, <1>8, NothingPromised DEF Good

\* Each target by its task: what is said of a document once they are over.
LEMMA DownloadDecisionsAre ==
  ASSUME NEW r \in Runs, NEW D, r.decided \in [D -> Statuses], Len(r.tasks) = Len(Targets(r))
  PROVE  /\ DownloadDecisions(r) \in [D -> Statuses]
         /\ \A d \in D \ ToSet(Targets(r)) : DownloadDecisions(r)[d] = r.decided[d]
         /\ \A d \in D \cap ToSet(Targets(r)) : \E i \in DOMAIN r.tasks :
               DownloadDecisions(r)[d] = [completed |-> "DOWNLOADED", skipped |-> "REUSED",
                                          failed |-> "FAILED", cancelled |-> "CANCELLED"][r.tasks[i]]
<1> DEFINE of == [completed |-> "DOWNLOADED", skipped |-> "REUSED",
                  failed |-> "FAILED", cancelled |-> "CANCELLED"]
           targets == Targets(r)
           task == [i \in DOMAIN r.tasks |-> targets[i]]
           new == DownloadDecisions(r)
           Of(d) == CHOOSE i \in DOMAIN task : task[i] = d
<1>1. r.tasks \in Seq(Answers) /\ targets \in Seq(Docs)
  BY TargetsAre DEF Runs
<1>2. DOMAIN r.tasks = DOMAIN targets /\ DOMAIN r.decided = D
  BY <1>1
<1>3. new = [d \in D |-> IF d \in ToSet(task) THEN of[r.tasks[Of(d)]] ELSE r.decided[d]]
  BY <1>2 DEF DownloadDecisions
<1> HIDE DEF new, targets
<1>4. ToSet(task) = ToSet(targets) /\ DOMAIN task = DOMAIN r.tasks
  BY <1>2 DEF ToSet
<1>5. ASSUME NEW d \in ToSet(task) PROVE Of(d) \in DOMAIN r.tasks
  <2>1. \E i \in DOMAIN task : task[i] = d
    BY DEF ToSet
  <2> HIDE DEF task
  <2> QED
    BY <1>4, <2>1
<1>6. \A i \in DOMAIN r.tasks : r.tasks[i] \in Answers
  BY <1>1
<1>7. \A a \in Answers : of[a] \in Statuses
  BY DEF Answers, Statuses
<1> HIDE DEF Of, of, task
<1>8. new \in [D -> Statuses]
  BY <1>3, <1>4, <1>5, <1>6, <1>7
<1>9. \A d \in D \ ToSet(targets) : new[d] = r.decided[d]
  BY <1>3, <1>4
<1>10. \A d \in D \cap ToSet(targets) : \E i \in DOMAIN r.tasks : new[d] = of[r.tasks[i]]
  BY <1>3, <1>4, <1>5
<1> QED
  BY <1>8, <1>9, <1>10 DEF new, targets, of

LEMMA DownloadedKeeps ==
  ASSUME RunInv, Downloaded
  PROVE  Good(run', cancelFlag)
<1> DEFINE told == <<Summary(run)>>
           decided == DownloadDecisions(run)
           r == [run EXCEPT !.decided = decided]
           o == RunOutcome(run)
           of == [completed |-> "DOWNLOADED", skipped |-> "REUSED",
                  failed |-> "FAILED", cancelled |-> "CANCELLED"]
           q == [r EXCEPT !.stage = "done", !.outcome = o]
<1>0. run.stage = "download" /\ Len(run.tasks) = Len(Targets(run)) /\ EndRun(r, o, told)
  BY DEF Downloaded
<1>1. /\ run \in Runs /\ Good(run, cancelFlag) /\ cancelFlag \in BOOLEAN
      /\ run.outcome = NoOutcome /\ run.files \in Seq(Docs) /\ IsInjective(run.files)
      /\ CoverOf(run, cancelFlag)
      /\ run.complete => \A w \in RowsOf(run.plan) : w[1] < run.url =>
                            Covered(run, run.read.projects, run.files, w)
  BY <1>0, FoundAll
<1>2. /\ run.complete \/ run.failed
      /\ run.url > Len(run.plan.urls)
      /\ \A d \in DOMAIN run.decided :
            \/ run.decided[d] \in {"EXCLUDED_EXPIRED", "EXCLUDED_FILTER", "EXCLUDED_FILE_TYPE"}
            \/ run.decided[d] = "DOWNLOAD_TARGET" /\ d \in ToSet(Targets(run))
  BY <1>0, <1>1 DEF Good, CompleteOf, DecidedOf
<1>3. PICK D \in SUBSET Docs : run.decided \in [D -> Statuses]
  BY <1>1 DEF Runs
<1>4. /\ decided \in [D -> Statuses]
      /\ \A d \in D \ ToSet(Targets(run)) : decided[d] = run.decided[d]
      /\ \A d \in D \cap ToSet(Targets(run)) : \E i \in DOMAIN run.tasks : decided[d] = of[run.tasks[i]]
  <2> HIDE DEF decided, r, o, q
  <2>1. /\ DownloadDecisions(run) \in [D -> Statuses]
        /\ \A d \in D \ ToSet(Targets(run)) : DownloadDecisions(run)[d] = run.decided[d]
        /\ \A d \in D \cap ToSet(Targets(run)) : \E i \in DOMAIN run.tasks :
              DownloadDecisions(run)[d] = of[run.tasks[i]]
    BY <1>0, <1>1, <1>3, DownloadDecisionsAre
  <2> QED
    BY <2>1 DEF decided
<1>5. DOMAIN run.decided = D /\ DOMAIN decided = D
  BY <1>3, <1>4
<1>6. run.tasks \in Seq(Answers) /\ \A i \in DOMAIN run.tasks : run.tasks[i] \in Answers
  BY <1>1 DEF Runs
<1> HIDE DEF decided, told, o
<1>7. r \in Runs
  <2>1. decided \in UNION {[E -> Statuses] : E \in SUBSET Docs}
    BY <1>3, <1>4
  <2> QED
    BY <1>1, <2>1 DEF Runs
<1>8. /\ r.stage = "download" /\ r.url = run.url /\ r.plan = run.plan
      /\ r.complete = run.complete /\ r.failed = run.failed /\ r.read = run.read
      /\ r.decided = decided /\ r.files = run.files /\ r.tasks = run.tasks
  BY <1>0, <1>1 DEF Runs
<1> HIDE DEF r
<1>9. r.complete => \A w \in RowsOf(r.plan) : w[1] < r.url =>
                       Covered(r, r.read.projects, r.files, w)
  BY <1>1, <1>5, <1>8 DEF Covered
<1>10. o \in {"SUCCESS", "PARTIAL", "FAILED", "CANCELLED"}
  BY DEF o, RunOutcome, ResultOutcome
<1>11. o = "SUCCESS" => /\ ~run.failed
                        /\ \A i \in DOMAIN run.tasks : run.tasks[i] \in {"completed", "skipped"}
  <2> HAVE o = "SUCCESS"
  <2>1. ~run.failed /\ ResultOutcome(run.tasks) = "SUCCESS"
    BY DEF o, RunOutcome
  <2>2. "cancelled" \notin ToSet(run.tasks) /\ "failed" \notin ToSet(run.tasks)
    BY <2>1 DEF ResultOutcome
  <2>3. \A i \in DOMAIN run.tasks : run.tasks[i] \in ToSet(run.tasks)
    BY DEF ToSet
  <2> QED
    BY <1>6, <2>1, <2>2, <2>3 DEF Answers
<1>12. /\ q.stage = "done" /\ q.outcome = o /\ q.complete = run.complete
       /\ q.url = run.url /\ q.plan = run.plan /\ q.files = run.files
       /\ q.decided = decided /\ q.tasks = run.tasks
  BY <1>7, <1>8 DEF Runs
<1> HIDE DEF q
<1>13. ToSet(Targets(q)) = ToSet(run.files) \cap Wanted /\ ToSet(Targets(run)) = ToSet(run.files) \cap Wanted
  BY <1>1, <1>12, TargetsAre
<1>14. PromiseOf(q)
  <2>1. ASSUME NEW d \in D PROVE decided[d] \notin {"DOWNLOAD_TARGET", "NOT_EVALUATED"}
    <3>1. CASE d \in ToSet(Targets(run))
      <4>1. PICK i \in DOMAIN run.tasks : decided[d] = of[run.tasks[i]]
        BY <1>4, <3>1
      <4>2. run.tasks[i] \in Answers
        BY <1>6
      <4> QED
        BY <4>1, <4>2 DEF Answers
    <3>2. CASE d \notin ToSet(Targets(run))
      BY <1>2, <1>4, <1>5, <3>2
    <3> QED
      BY <3>1, <3>2
  <2>2. ASSUME o = "SUCCESS", NEW d \in D
        PROVE  /\ decided[d] \notin {"FAILED", "CANCELLED"}
               /\ d \in ToSet(Targets(run)) => decided[d] \in {"DOWNLOADED", "REUSED"}
    <3>1. CASE d \in ToSet(Targets(run))
      <4>1. PICK i \in DOMAIN run.tasks : decided[d] = of[run.tasks[i]]
        BY <1>4, <3>1
      <4>2. run.tasks[i] \in {"completed", "skipped"}
        BY <1>11, <2>2
      <4> QED
        BY <4>1, <4>2
    <3>2. CASE d \notin ToSet(Targets(run))
      BY <1>2, <1>4, <1>5, <3>2
    <3> QED
      BY <3>1, <3>2
  <2>3. o = "SUCCESS" => ToSet(run.tasks) \subseteq {"completed", "skipped"} /\ run.complete
    BY <1>2, <1>11 DEF ToSet
  <2>4. o # "NO_MATCH"
    BY <1>10
  <2> HIDE DEF of
  <2> QED
    BY <1>2, <1>5, <1>12, <1>13, <2>1, <2>2, <2>3, <2>4 DEF PromiseOf
<1> QED
  BY <1>0, <1>1, <1>7, <1>8, <1>9, <1>10, <1>14, EndRunKeeps DEF q

LEMMA RaiseKeeps ==
  ASSUME RunInv, Raise
  PROVE  Good(run', cancelFlag)
<1>1. run.stage \in {"filter", "download"} /\ EndRun(run, "FAILED", <<>>)
  BY DEF Raise, FinishesAs
<1>2. /\ run \in Runs /\ cancelFlag \in BOOLEAN /\ IsInjective(run.files)
      /\ CoverOf(run, cancelFlag)
  BY <1>1, FoundAll
<1> QED
  BY <1>1, <1>2, FailureKeeps

LEMMA RunStepKeeps ==
  ASSUME RunInv, RunStep
  PROVE  Good(run', cancelFlag)
BY BeginKeeps, NextUrlKeeps, SubmitKeeps, PlainPageKeeps, PageKeeps, RowKeeps, DetailPageKeeps,
   RowsReadKeeps, NextPageKeeps, ExtractedKeeps, FilterKeeps, DownloadKeeps, DownloadedKeeps,
   RaiseKeeps DEF RunStep

\* Cancelling takes nothing back: no more is asked of a cancelled search.
LEMMA CancelledIsGood ==
  ASSUME NEW r, NEW c \in BOOLEAN, Good(r, c)
  PROVE  Good(r, TRUE)
BY DEF Good, CoverOf, CompleteOf

\* A run that has not begun has nothing to answer for.
LEMMA NewRunIsGood ==
  ASSUME NEW plan \in Plans, NEW gen \in Nat, NEW c \in BOOLEAN, NEW r,
         \/ r = NewRun(plan, gen)
         \/ r = [NewRun(plan, gen) EXCEPT !.stage = "done"]
  PROVE  Good(r, c)
<1> DEFINE n == NewRun(plan, gen)
<1>1. n \in Runs
  <2>1. NoSummary \in Summaries
    BY NoSummaryTyped
  <2>2. <<>> \in Seq(Docs) /\ <<>> \in Seq(Answers)
    OBVIOUS
  <2>3. <<>> \in UNION {[D -> Statuses] : D \in SUBSET Docs}
    <3>1. <<>> \in [{} -> Statuses]
      OBVIOUS
    <3> QED
      BY <3>1
  <2>4. "begin" \in Extracting \cup Over
    BY DEF Extracting
  <2> QED
    BY <2>1, <2>2, <2>3, <2>4 DEF NewRun, Runs, NoOutcome
<1>2. /\ n.stage = "begin" /\ n.url = 0 /\ n.plan = plan /\ n.complete = TRUE
      /\ n.decided = <<>> /\ n.files = <<>> /\ n.outcome = NoOutcome
  BY DEF NewRun, NoOutcome
<1> HIDE DEF n
<1>3. /\ r \in Runs /\ r.stage \in {"begin", "done"} /\ r.url = 0 /\ r.plan = plan
      /\ r.complete = TRUE /\ r.decided = <<>> /\ r.files = <<>> /\ r.outcome = NoOutcome
  <2>1. CASE r = n
    BY <1>1, <1>2, <2>1
  <2>2. CASE r = [n EXCEPT !.stage = "done"]
    <3>1. r \in Runs
      BY <1>1, <2>2 DEF Runs, Over
    <3> QED
      BY <1>1, <1>2, <2>2, <3>1 DEF Runs
  <2> QED
    BY <2>1, <2>2 DEF n
<1>4. PlaceOf(r) /\ CompleteOf(r, c)
  BY <1>3 DEF PlaceOf, CompleteOf, Extracting, Searching
<1>5. CoverOf(r, c)
  <2>1. \A w \in RowsOf(r.plan) : w[1] \in Nat
    BY <1>3, RowIs
  <2>2. \A w \in RowsOf(r.plan) : ~(w[1] < 0)
    BY <2>1
  <2> QED
    BY <1>3, <2>2 DEF CoverOf, Searching
<1>6. DecidedOf(r)
  <2>1. DOMAIN r.decided = {}
    BY <1>3
  <2> QED
    BY <1>3, <2>1, NoneIsInjective DEF DecidedOf
<1> QED
  BY <1>3, <1>4, <1>5, <1>6, NothingPromised DEF Good

LEMMA RunStarts ==
  ASSUME WindowInit
  PROVE  RunInv
<1>1. (CHOOSE p \in Plans : TRUE) \in Plans
  BY SiteAssumption
<1>2. run = [NewRun(CHOOSE p \in Plans : TRUE, 0) EXCEPT !.stage = "done"] /\ cancelFlag = FALSE
  BY DEF WindowInit
<1> DEFINE plan == CHOOSE p \in Plans : TRUE
<1> HIDE DEF plan
<1>3. Good([NewRun(plan, 0) EXCEPT !.stage = "done"], FALSE)
  BY <1>1, NewRunIsGood DEF plan
<1> QED
  BY <1>2, <1>3 DEF RunInv, plan

LEMMA StartKeepsRun ==
  ASSUME RunInv, Start
  PROVE  RunInv'
<1>1. PICK plan \in Plans : run' = NewRun(plan, run.gen)
  BY DEF Start
<1>2. cancelFlag' = FALSE /\ run.gen \in Nat
  BY DEF Start, RunInv, Good, Runs
<1>3. Good(NewRun(plan, run.gen), FALSE)
  BY <1>2, NewRunIsGood
<1> QED
  BY <1>1, <1>2, <1>3 DEF RunInv

\* The other steps of the window leave the run alone, but for a cancellation.
LEMMA WindowStepKeepsRun ==
  ASSUME RunInv, [WindowNext]_windowVars
  PROVE  RunInv'
<1>1. CASE UNCHANGED <<run, cancelFlag>>
  BY <1>1 DEF RunInv, Good
<1>2. CASE run' = run /\ cancelFlag' = TRUE
  <2>1. Good(run, TRUE)
    BY CancelledIsGood DEF RunInv
  <2> QED
    BY <1>2, <2>1 DEF RunInv
<1>3. CASE RunStep /\ cancelFlag' = cancelFlag
  <2>1. Good(run', cancelFlag)
    BY <1>3, RunStepKeeps
  <2> QED
    BY <1>3, <2>1 DEF RunInv
<1>4. CASE Start
  BY <1>4, StartKeepsRun
<1>5. \/ UNCHANGED <<run, cancelFlag>>
      \/ run' = run /\ cancelFlag' = TRUE
      \/ RunStep /\ cancelFlag' = cancelFlag
      \/ Start
  BY DEF WindowNext, Poll, ThreadStep, Slot, Running, ThreadEnds, Worker, Editor, ListStep,
         ListReader, ListDue, DialogRefresh, DialogDetail, DialogAction, World, User, CancelClick,
         Select, ReloadClick, Close, Settings, Finalize, ownVars, windowVars
<1> QED
  BY <1>1, <1>2, <1>3, <1>4, <1>5

\* A complete search is one that covers every row of its plan.
LEMMA AllCovered ==
  ASSUME RunInv, run.complete, run.url > Len(run.plan.urls), NEW w \in PlanRows
  PROVE  /\ run.plan.search => Read(w)
         /\ ProjectAt(w) \notin ListedOnly => Public(ProjectAt(w)) \subseteq ToSet(run.files)
         /\ run.plan.search /\ ProjectAt(w) \notin ListedOnly =>
               Public(ProjectAt(w)) \subseteq DOMAIN run.decided
<1>1. run \in Runs /\ CoverOf(run, cancelFlag) /\ run.url \in Nat
  BY DEF RunInv, Good, Runs
<1>2. w \in RowsOf(run.plan)
  BY DEF PlanRows, RowsOf
<1>3. w[1] < run.url
  <2>1. w[1] \in 1 .. Len(run.plan.urls) /\ Len(run.plan.urls) \in Nat
    BY <1>1, <1>2, RowIs, PlanTyped
  <2> QED
    BY <1>1, <2>1
<1>4. Covered(run, run.read.projects, run.files, w)
  BY <1>1, <1>2, <1>3 DEF CoverOf
<1> QED
  BY <1>4 DEF Covered, Read, ReadOnes, ProjectAt

LEMMA OutcomeFollows ==
  ASSUME RunInv
  PROVE  OutcomeTrue
<1>1. run \in Runs /\ PromiseOf(run) /\ DecidedOf(run) /\ run.files \in Seq(Docs)
      /\ run.here \in Summaries /\ run.read \in Summaries
  BY DEF RunInv, Good, Runs
<1>2. SummaryCounted
  BY <1>1 DEF SummaryCounted, Summaries
<1>3. /\ ToSet(Targets(run)) = ToSet(run.files) \cap Wanted
      /\ IsInjective(run.files) => IsInjective(Targets(run))
  BY <1>1, TargetsAre
<1>4. run.outcome \in {"NO_MATCH", "SUCCESS"} => Shown \subseteq ToSet(run.files)
  <2> SUFFICES ASSUME run.outcome \in {"NO_MATCH", "SUCCESS"}, NEW w \in PlanRows,
                      ProjectAt(w) \notin ListedOnly
               PROVE  Public(ProjectAt(w)) \subseteq ToSet(run.files)
    BY DEF Shown
  <2>1. run.complete /\ run.url > Len(run.plan.urls)
    BY <1>1 DEF PromiseOf
  <2> QED
    BY <2>1, AllCovered
<1>5. CompleteIsTrue
  BY AllCovered DEF CompleteIsTrue
<1>6. NothingHidden
  <2>1. run.outcome \in {"NO_MATCH", "SUCCESS"} /\ run.plan.search => \A w \in PlanRows : Read(w)
    BY <1>1, AllCovered DEF PromiseOf
  <2>2. run.outcome = "NO_MATCH" => Shown \cap Wanted = {}
    BY <1>1, <1>4 DEF PromiseOf
  <2>3. run.outcome = "SUCCESS" => /\ Shown \cap Wanted \subseteq ToSet(run.files)
                                   /\ ToSet(run.tasks) \subseteq {"completed", "skipped"}
    BY <1>1, <1>4 DEF PromiseOf
  <2> QED
    BY <2>1, <2>2, <2>3 DEF NothingHidden
<1>7. DocumentsSettled
  <2>1. run.stage \in {"download", "done"} => IsInjective(Targets(run))
    BY <1>1, <1>3 DEF DecidedOf, Over
  <2>2. ASSUME run.outcome = "SUCCESS", run.plan.search, NEW d \in Shown \cap Wanted
        PROVE  run.decided[d] \in {"DOWNLOADED", "REUSED"}
    <3>1. run.complete /\ run.url > Len(run.plan.urls)
      BY <1>1, <2>2 DEF PromiseOf
    <3>2. PICK w \in PlanRows : ProjectAt(w) \notin ListedOnly /\ d \in Public(ProjectAt(w))
      BY <2>2 DEF Shown
    <3>3. d \in DOMAIN run.decided
      BY <2>2, <3>1, <3>2, AllCovered
    <3>4. d \in ToSet(Targets(run))
      BY <1>3, <1>4, <2>2
    <3> QED
      BY <1>1, <2>2, <3>3, <3>4 DEF PromiseOf
  <2> QED
    BY <1>1, <2>1, <2>2 DEF DocumentsSettled, PromiseOf
<1> QED
  BY <1>2, <1>5, <1>6, <1>7 DEF OutcomeTrue

\* Whatever is searched, fails or is cancelled at any step, a run that says
\* there was nothing, or that all is well, has read every project of every page
\* and leaves no wanted document behind; a search that calls itself complete
\* is; the counts are those of the list; and every listed document is settled by
\* the outcome (app/service.py run, core/scraper.py).
THEOREM OutcomeIsTrue == WindowSpec => []OutcomeTrue
<1>1. WindowInit => RunInv
  BY RunStarts
<1>2. RunInv /\ [WindowNext]_windowVars => RunInv'
  BY WindowStepKeepsRun
<1>3. RunInv => OutcomeTrue
  BY OutcomeFollows
<1> QED
  BY <1>1, <1>2, <1>3, PTL DEF WindowSpec

=============================================================================
