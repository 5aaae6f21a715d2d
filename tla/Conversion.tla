----------------------------- MODULE Conversion -----------------------------
(***************************************************************************)
(* A bid sheet in HTML becomes a PDF: HtmlToPdfConverter.convert of        *)
(* src/src/core/html_to_pdf.py with the child processes it starts.  One    *)
(* child checks and sanitises the source, one renders it with ReportLab,   *)
(* and when that fails Edge is tried up to twice, each time in a Windows   *)
(* job object (windows_process_supervisor.py).  All renderers write to one *)
(* .part file.  The user cancels, clocks run out, children hang, die or    *)
(* hold files open, and the application itself may die.                    *)
(***************************************************************************)
EXTENDS Naturals, FiniteSets

CONSTANTS MaxCall,    \* bound: conversions begun
          MaxFault,   \* bound: calls of the system that fail
          MaxCrash,   \* bound: deaths of the application
          MaxAttempt, \* max_edge_attempts
          None

ASSUME ConversionAssumption ==
  /\ MaxCall \in Nat /\ MaxFault \in Nat /\ MaxCrash \in Nat
  /\ MaxAttempt \in {1, 2}
  /\ None \notin Nat \cup {"SUCCESS", "FAILED", "CANCELLED"}

Call == 1 .. MaxCall

\* Edge is a tree: its first process, and one that writes the file.
Kind == {"validator", "worker", "edge", "edgeChild"}
EdgeKind == {"edge", "edgeChild"}

VARIABLES conv,      \* the conversion in progress
          output,    \* what the .part file holds: writer and whether it is whole, or None
          holds,     \* the processes that have it open
          alive,     \* the processes that exist, as kind and number of the call
          dying,     \* those that are terminated but not yet gone
          suspended, \* those that do not run yet
          job,       \* those in the job object
          reply,     \* what the validator or worker has sent, or None
          exit,      \* exit code of Edge: "zero", "bad", or None
          timeup,    \* the limits that have passed: "conversion", "renderer"
          cancel,    \* cancel_check
          roots,     \* calls whose temporary folder exists
          calls, faults, crashes

procVars == <<alive, dying, suspended, job>>
childVars == <<output, holds, reply, exit>>
worldVars == <<timeup, cancel, roots>>
bounds == <<calls, faults, crashes>>
vars == <<conv, procVars, childVars, worldVars, bounds>>

NoConversion == [step |-> "idle", call |-> 0, attempt |-> 0, result |-> None,
                 state |-> None, sane |-> FALSE, artifact |-> FALSE, left |-> {},
                 overlapped |-> FALSE]

Init ==
  /\ conv = NoConversion /\ output = None /\ holds = {}
  /\ alive = {} /\ dying = {} /\ suspended = {} /\ job = {}
  /\ reply = None /\ exit = None
  /\ timeup = {} /\ cancel = FALSE /\ roots = {}
  /\ calls = 0 /\ faults = 0 /\ crashes = 0

At(step) == conv.step = step
Go(step) == conv' = [conv EXCEPT !.step = step]
Mine(kind) == <<kind, conv.call>>
Live(p) == p \in alive /\ p \notin dying
Failing == faults < MaxFault /\ faults' = faults + 1

\* What belongs to one call only.
Forget == timeup' = {} /\ cancel' = FALSE /\ reply' = None /\ exit' = None

\* A result is there: the artifact and the cleaning follow.
Settle(status) == conv' = [conv EXCEPT !.step = "settle", !.result = status]

\* Mutant: the deadline of the conversion is not looked at.
GuardWithoutClock == IF cancel THEN "CANCELLED" ELSE "none"

\* _guard_conversion: a cancellation goes before the common deadline.
Guard == IF cancel THEN "CANCELLED" ELSE IF "conversion" \in timeup THEN "FAILED" ELSE "none"

\* A file can be deleted when nobody has it open.
Deletable == holds = {}

\* Terminated processes are soon gone, or still hold what they have open.
Terminate(procs) ==
  \/ /\ alive' = alive \ procs /\ dying' = dying \ procs
     /\ holds' = holds \ procs /\ suspended' = suspended \ procs /\ job' = job \ procs
  \/ /\ dying' = dying \cup (procs \cap alive) /\ suspended' = suspended \ procs
     /\ UNCHANGED <<alive, holds, job>>

-----------------------------------------------------------------------------
(* Preparation *)

\* The worker of an application that has died is no daemon and in no job: it goes on.
Orphans == {p \in alive : p[1] = "worker" /\ p \notin dying}

\* The caller asks again for the document whose .part file this is; nothing looks for
\* orphans, that there are some is recorded for the properties only.
Convert ==
  /\ At("idle") /\ calls < MaxCall /\ calls' = calls + 1
  /\ conv' = [NoConversion EXCEPT !.step = "begin", !.call = calls + 1,
                                  !.overlapped = Orphans # {}]
  /\ UNCHANGED <<procVars, childVars, worldVars, faults, crashes>>

\* recover_stale_temporary_roots: old folders, where no process has their owner's number.
StaleRoots == SUBSET roots

\* Old folders go, then what an interrupted conversion has left; the source is neither
\* too large nor unreadable, and gets a folder.
BeginConversion ==
  /\ At("begin")
  /\ \E stale \in StaleRoots :
       \/ /\ Deletable /\ output' = None /\ Guard = "none"
          /\ roots' = (roots \ stale) \cup {conv.call} /\ Go("validate") /\ UNCHANGED faults
       \/ /\ Deletable /\ output' = None /\ Guard # "none"
          /\ roots' = roots \ stale /\ Settle(Guard) /\ UNCHANGED faults
       \/ /\ ~Deletable /\ UNCHANGED output
          /\ roots' = roots \ stale /\ Settle("FAILED") /\ UNCHANGED faults
       \/ /\ Deletable /\ output' = None /\ Failing
          /\ roots' = roots \ stale /\ Settle("FAILED")
  /\ UNCHANGED <<procVars, holds, reply, exit, timeup, cancel, calls, crashes>>

StartValidator ==
  /\ At("validate")
  /\ \/ alive' = alive \cup {Mine("validator")} /\ Go("validating") /\ UNCHANGED faults
     \/ UNCHANGED alive /\ Settle("FAILED") /\ Failing
  /\ UNCHANGED <<dying, suspended, job, childVars, worldVars, calls, crashes>>

\* validate_and_sanitize_bid_sheet_html: it is the sheet that was asked for, or not.
Verdict == {"ok", "bad"}

\* The child writes the sanitised source and tells its verdict, or dies.
ValidatorEnds ==
  \E p \in alive, r \in Verdict \cup {None} :
    /\ p[1] = "validator" /\ Live(p)
    /\ IF r = "ok" THEN UNCHANGED faults ELSE Failing
    /\ alive' = alive \ {p}
    /\ reply' = IF p = Mine("validator") THEN r ELSE reply
    /\ UNCHANGED <<conv, dying, suspended, job, output, holds, exit, worldVars, calls, crashes>>

\* The loop of _prepare_in_process_with_monitor and the guard after it.
WatchValidator ==
  /\ At("validating")
  /\ \/ /\ Guard # "none" /\ Settle(Guard) /\ Terminate({Mine("validator")})
     \/ /\ Guard = "none" /\ Mine("validator") \notin alive
        /\ IF reply = "ok" THEN conv' = [conv EXCEPT !.step = "internal", !.sane = TRUE]
           ELSE Settle("FAILED")
        /\ UNCHANGED <<procVars, holds>>
  /\ UNCHANGED <<output, reply, exit, worldVars, bounds>>

-----------------------------------------------------------------------------
(* ReportLab in a process of its own *)

StartWorker ==
  /\ At("internal")
  /\ \/ /\ Deletable /\ output' = None /\ reply' = None
        /\ alive' = alive \cup {Mine("worker")} /\ Go("rendering") /\ UNCHANGED faults
     \* the sheet cannot be modelled, the font is missing, no process
     \/ Go("edge") /\ Failing /\ UNCHANGED <<alive, output, reply>>
     \/ ~Deletable /\ Go("edge") /\ UNCHANGED <<alive, output, reply, faults>>
  /\ UNCHANGED <<dying, suspended, job, holds, exit, worldVars, calls, crashes>>

\* A renderer opens the file and then completes it; attempt 0 is the worker.
Writer(p) == [call |-> p[2], attempt |-> IF p[1] = "worker" THEN 0 ELSE conv.attempt]

OpenOutput(p) ==
  /\ Live(p) /\ p \notin suspended /\ p \notin holds
  /\ output' = [by |-> Writer(p), whole |-> FALSE] /\ holds' = holds \cup {p}

CloseOutput(p) ==
  /\ Live(p) /\ p \in holds
  /\ output' = [by |-> Writer(p), whole |-> TRUE] /\ holds' = holds \ {p}

WorkerWrites ==
  \E p \in alive :
    /\ p[1] = "worker"
    /\ \/ OpenOutput(p) /\ (p = Mine("worker") => reply = None)
       \/ CloseOutput(p)
    /\ reply' = IF p = Mine("worker") /\ p \notin holds' THEN "ok" ELSE reply
    /\ UNCHANGED <<conv, procVars, exit, worldVars, bounds>>

\* It ends when it is done, or dies before.
WorkerEnds ==
  \E p \in alive :
    /\ p[1] = "worker" /\ Live(p)
    /\ alive' = alive \ {p} /\ holds' = holds \ {p}
    /\ IF p = Mine("worker") /\ reply # "ok" THEN Failing ELSE UNCHANGED faults
    /\ UNCHANGED <<conv, dying, suspended, job, output, reply, exit, worldVars, calls, crashes>>

\* Every way out but success deletes the file; where it cannot, that is one more failure.
LeaveWorker(way) ==
  \/ holds' = {} /\ output' = None /\ (IF way = "cancel" THEN Settle("CANCELLED") ELSE Go("edge"))
  \/ holds' # {} /\ UNCHANGED output /\ Go("edge")

\* The worker has answered, and its file can be read again as a whole.
Rendered == reply = "ok" /\ output # None /\ output.whole

\* The loop of render: cancelled, too late, or the worker has ended.
WatchWorker ==
  /\ At("rendering")
  /\ \/ /\ Mine("worker") \in alive /\ UNCHANGED faults
        /\ \/ cancel /\ Terminate({Mine("worker")}) /\ LeaveWorker("cancel")
           \/ ~cancel /\ "renderer" \in timeup /\ Terminate({Mine("worker")}) /\ LeaveWorker("late")
     \/ /\ Mine("worker") \notin alive /\ UNCHANGED <<procVars, holds>>
        /\ \/ Rendered /\ Settle("SUCCESS") /\ UNCHANGED <<output, faults>>
           \* a bad exit code after the answer, or not the content that was asked for
           \/ Rendered /\ LeaveWorker("failed") /\ Failing
           \/ ~Rendered /\ LeaveWorker("failed") /\ UNCHANGED faults
  /\ UNCHANGED <<reply, exit, worldVars, calls, crashes>>

-----------------------------------------------------------------------------
(* Edge in a job object *)

\* Not a success: another attempt for a failure that may pass, or the end.
AttemptFailed(retry) ==
  IF retry /\ conv.attempt < MaxAttempt
  THEN conv' = [conv EXCEPT !.step = "attempt", !.attempt = @ + 1]
  ELSE Settle("FAILED")

\* Edge is where Windows keeps it.
FindEdge ==
  /\ At("edge")
  /\ \/ Guard # "none" /\ Settle(Guard) /\ UNCHANGED faults
     \/ Guard = "none" /\ Go("verify") /\ UNCHANGED faults
     \/ Guard = "none" /\ Settle("FAILED") /\ Failing
  /\ UNCHANGED <<procVars, childVars, worldVars, calls, crashes>>

\* Its signature is one of Microsoft.
VerifyEdge ==
  /\ At("verify")
  /\ \/ conv' = [conv EXCEPT !.step = "attempt", !.attempt = 1] /\ UNCHANGED faults
     \/ Settle("FAILED") /\ Failing
  /\ UNCHANGED <<procVars, childVars, worldVars, calls, crashes>>

\* Mutant: what the last attempt has written stays.
BeginAttemptOverOld ==
  /\ At("attempt")
  /\ IF Guard # "none" THEN Settle(Guard) ELSE Go("launch")
  /\ UNCHANGED <<procVars, childVars, worldVars, bounds>>

\* The file of the last attempt goes.
BeginAttempt ==
  /\ At("attempt")
  /\ \/ Guard # "none" /\ Settle(Guard) /\ UNCHANGED output
     \/ Guard = "none" /\ Deletable /\ output' = None /\ Go("launch")
     \/ Guard = "none" /\ ~Deletable /\ Settle("FAILED") /\ UNCHANGED output
  /\ UNCHANGED <<procVars, holds, reply, exit, worldVars, bounds>>

\* Edge is created suspended, with a fresh profile.
LaunchEdge ==
  /\ At("launch")
  /\ \/ /\ Guard # "none" /\ UNCHANGED <<alive, suspended, exit, faults>>
        /\ IF Guard = "CANCELLED" THEN Settle("CANCELLED") ELSE AttemptFailed(TRUE)
     \/ /\ Guard = "none"
        /\ alive' = alive \cup {Mine("edge")} /\ suspended' = suspended \cup {Mine("edge")}
        /\ exit' = None /\ Go("assign") /\ UNCHANGED faults
     \/ Guard = "none" /\ Failing /\ Settle("FAILED") /\ UNCHANGED <<alive, suspended, exit>>
  /\ UNCHANGED <<dying, job, output, holds, reply, worldVars, calls, crashes>>

\* Only a process in the job may run; one that cannot be put into it is terminated.
AssignToJob ==
  /\ At("assign")
  /\ \/ /\ job' = job \cup {Mine("edge")} /\ suspended' = suspended \ {Mine("edge")}
        /\ Go("supervise") /\ UNCHANGED <<alive, dying, holds, faults>>
     \/ Terminate({Mine("edge")}) /\ Settle("FAILED") /\ Failing
  /\ UNCHANGED <<output, reply, exit, worldVars, calls, crashes>>

\* Edge writes once in an attempt.
HasWritten(p) == output # None /\ output.by = Writer(p)

EdgeForks ==
  /\ Live(Mine("edge")) /\ Mine("edge") \in job /\ At("supervise") /\ exit = None
  /\ Mine("edgeChild") \notin alive /\ ~HasWritten(Mine("edgeChild"))
  /\ alive' = alive \cup {Mine("edgeChild")} /\ job' = job \cup {Mine("edgeChild")}
  /\ UNCHANGED <<conv, dying, suspended, childVars, worldVars, bounds>>

EdgeWrites ==
  \E p \in alive :
    /\ p[1] = "edgeChild"
    /\ \/ OpenOutput(p) /\ ~HasWritten(p)
       \/ CloseOutput(p)
    /\ UNCHANGED <<conv, procVars, reply, exit, worldVars, bounds>>

\* The first process may end before the one that writes.
EdgeEnds ==
  \E p \in alive, code \in {"zero", "bad"} :
    /\ p[1] \in EdgeKind /\ Live(p) /\ p \notin suspended
    /\ alive' = alive \ {p} /\ job' = job \ {p} /\ holds' = holds \ {p}
    /\ exit' = IF p = Mine("edge") THEN code ELSE exit
    /\ code = "bad" => Failing
    /\ code = "zero" => UNCHANGED faults
    /\ UNCHANGED <<conv, dying, suspended, output, reply, worldVars, calls, crashes>>

\* ActiveProcesses = 0
EdgeTreeEnded == job = {}

\* The job ends as state; nothing waits for the tree of one that could not be started.
Supervised(state) ==
  conv' = [conv EXCEPT !.state = state,
                       !.step = IF state \in {"cancelled", "timeout"} THEN "drain" ELSE "outcome"]

\* The loop of run.  An error of the system counts as a start that failed; closing the
\* job kills what is in it.
Supervise ==
  /\ At("supervise")
  /\ \/ cancel /\ Supervised("cancelled") /\ Terminate(job) /\ UNCHANGED faults
     \/ ~cancel /\ EdgeTreeEnded /\ Supervised("completed") /\ UNCHANGED <<procVars, holds, faults>>
     \/ /\ ~cancel /\ ~EdgeTreeEnded /\ "conversion" \in timeup
        /\ Supervised("timeout") /\ Terminate(job) /\ UNCHANGED faults
     \/ Supervised("start_failed") /\ Terminate(job) /\ Failing
  /\ UNCHANGED <<output, reply, exit, worldVars, calls, crashes>>

\* The tree has ended, or five seconds have passed; then the job is closed.
Drain ==
  /\ At("drain") /\ Go("outcome") /\ job' = {}
  /\ UNCHANGED <<alive, dying, suspended, childVars, worldVars, bounds>>

\* How Edge has ended, and whether another attempt may help: not when a policy forbids it.
EdgeOutcome ==
  /\ At("outcome")
  /\ CASE conv.state = "cancelled" -> Settle("CANCELLED")
       [] conv.state = "start_failed" -> Settle("FAILED")
       [] conv.state = "timeout" -> AttemptFailed(TRUE)
       [] conv.state = "completed" /\ exit = "bad" -> \E policy \in BOOLEAN : AttemptFailed(~policy)
       [] conv.state = "completed" /\ exit # "bad" -> Go("check")
  /\ UNCHANGED <<procVars, childVars, worldVars, bounds>>

\* _validate_pdf: a signature at the start, the mark at the end.
CheckPdf ==
  /\ At("check")
  /\ \/ /\ Guard # "none" /\ UNCHANGED faults
        /\ IF Guard = "CANCELLED" THEN Settle("CANCELLED") ELSE AttemptFailed(TRUE)
     \/ /\ Guard = "none" /\ UNCHANGED faults
        /\ IF output # None /\ output.whole THEN Settle("SUCCESS") ELSE AttemptFailed(TRUE)
     \/ Guard = "none" /\ output # None /\ AttemptFailed(FALSE) /\ Failing
  /\ UNCHANGED <<procVars, childVars, worldVars, calls, crashes>>

-----------------------------------------------------------------------------
(* The end *)

\* store_failure: the sanitised source is kept when the conversion has failed.
StoreArtifact ==
  /\ At("settle")
  /\ \/ /\ conv.result = "FAILED" /\ conv.sane
        /\ conv' = [conv EXCEPT !.step = "cleanup", !.artifact = TRUE] /\ UNCHANGED faults
     \/ conv.result = "FAILED" /\ conv.sane /\ Go("cleanup") /\ Failing
     \/ ~(conv.result = "FAILED" /\ conv.sane) /\ Go("cleanup") /\ UNCHANGED faults
  /\ UNCHANGED <<procVars, childVars, worldVars, calls, crashes>>

\* _safe_unlink and _safe_rmtree try until their deadline and report what they leave.
CleanUp ==
  /\ At("cleanup")
  /\ LET unlink == conv.result # "SUCCESS"
         stuck == IF unlink /\ ~Deletable THEN {"output"} ELSE {}
     IN  \E busy \in SUBSET {"root"} :
           /\ busy # {} => \E p \in alive : p[2] = conv.call
           /\ output' = IF unlink /\ Deletable THEN None ELSE output
           /\ roots' = IF busy = {} THEN roots \ {conv.call} ELSE roots
           /\ conv' = [conv EXCEPT !.step = "returned", !.left = stuck \cup busy]
  /\ UNCHANGED <<procVars, holds, reply, exit, timeup, cancel, bounds>>

\* download_file commits the file or removes it; neither can be done while it is open.
TakeResult ==
  /\ At("returned")
  /\ output' = IF Deletable THEN None ELSE output
  /\ conv' = NoConversion /\ Forget
  /\ UNCHANGED <<procVars, holds, roots, bounds>>

-----------------------------------------------------------------------------
(* The world *)

InProgress == conv.step \notin {"idle", "returned"}

Gone ==
  \E p \in dying :
    /\ alive' = alive \ {p} /\ dying' = dying \ {p} /\ holds' = holds \ {p} /\ job' = job \ {p}
    /\ UNCHANGED <<conv, suspended, output, reply, exit, worldVars, bounds>>

TimePasses(limit) ==
  /\ InProgress /\ limit \notin timeup
  /\ limit = "renderer" => At("rendering")
  /\ timeup' = timeup \cup {limit}
  /\ UNCHANGED <<conv, procVars, childVars, cancel, roots, bounds>>

Cancel ==
  /\ InProgress /\ ~cancel /\ cancel' = TRUE
  /\ UNCHANGED <<conv, procVars, childVars, timeup, roots, bounds>>

\* The application dies.  Its job is closed and kills Edge; the other children go on, and
\* one that was never resumed waits for ever.
Crash ==
  /\ conv.step # "idle" /\ crashes < MaxCrash /\ crashes' = crashes + 1
  /\ conv' = NoConversion /\ Forget
  /\ Terminate(job)
  /\ UNCHANGED <<output, roots, calls, faults>>

Converter ==
  \/ BeginConversion \/ StartValidator \/ WatchValidator
  \/ StartWorker \/ WatchWorker
  \/ FindEdge \/ VerifyEdge \/ BeginAttempt \/ LaunchEdge \/ AssignToJob
  \/ Supervise \/ Drain \/ EdgeOutcome \/ CheckPdf
  \/ StoreArtifact \/ CleanUp

Next ==
  \/ Convert \/ Converter \/ TakeResult
  \/ ValidatorEnds \/ WorkerWrites \/ WorkerEnds
  \/ EdgeForks \/ EdgeWrites \/ EdgeEnds \/ Gone
  \/ \E limit \in {"conversion", "renderer"} : TimePasses(limit)
  \/ Cancel \/ Crash

Spec == Init /\ [][Next]_vars

\* The converter is scheduled and the clocks go on; no child need ever end.
FairSpec ==
  /\ Spec /\ WF_vars(Converter)
  /\ WF_vars(TimePasses("conversion")) /\ WF_vars(TimePasses("renderer"))

-----------------------------------------------------------------------------
(* Properties *)

ProcSet == Kind \X Call

\* Those that can write to the file.
Renderers == {p \in alive : p \notin dying \cup suspended /\ p[1] # "validator"}

TypeOK ==
  /\ conv.call \in 0 .. MaxCall /\ conv.attempt \in 0 .. MaxAttempt
  /\ conv.result \in {None, "SUCCESS", "FAILED", "CANCELLED"}
  /\ conv.sane \in BOOLEAN /\ conv.artifact \in BOOLEAN /\ conv.left \subseteq {"output", "root"}
  /\ output = None \/ output.whole \in BOOLEAN
  /\ alive \subseteq ProcSet /\ dying \subseteq alive /\ suspended \subseteq alive
  /\ job \subseteq alive /\ holds \subseteq alive
  /\ timeup \subseteq {"conversion", "renderer"} /\ cancel \in BOOLEAN /\ roots \subseteq Call

(* What the documentation says and the code does not do. *)

\* Nothing but what was read again and found whole is saved, and a conversion that has
\* failed leaves no file in its place (README.md:63, pdf_conversion_reliability.md:11).
\* The code does so unless a worker of an application that died writes there too.
OutputTrueAlways ==
  At("returned") =>
    IF conv.result = "SUCCESS"
    THEN output = [by |-> [call |-> conv.call, attempt |-> conv.attempt], whole |-> TRUE]
    ELSE output = None \/ "output" \in conv.left

\* Edge is tried only when the worker has failed, and the result is read after all
\* processes have ended (pdf_conversion_reliability.md:10, 19).
RenderersApartAlways ==
  /\ \A p, q \in Renderers : p[1] = "worker" => q = p
  /\ At("returned") => Renderers = {}

(* What it does. *)

\* A success hands over the whole file that the last renderer asked has written, not
\* one that an earlier attempt has left; anything else hands over no file, or says that
\* it is left.  No worker of a dead application was there when the conversion began.
OutputTrue ==
  ~conv.overlapped => OutputTrueAlways

\* Two renderers never run at once, and none when the conversion has returned: the file
\* cannot change any more under the caller that commits it.  Edge is never beside
\* another renderer of its own application, and goes with it, whatever is left of
\* an earlier one.
RenderersApart ==
  /\ conv.step # "idle" /\ ~conv.overlapped => RenderersApartAlways
  /\ {p \in Renderers : p[1] \in EdgeKind} # {} => At("supervise") /\ Mine("worker") \notin Renderers

\* The sanitised source is kept only of a conversion that failed after its check, never
\* of one that ended as cancelled; and only a request of the user ends it so.
ArtifactOfFailure ==
  /\ conv.artifact => conv.result = "FAILED" /\ conv.sane
  /\ conv.result = "CANCELLED" => cancel

\* The .part file that the caller gets (html_to_pdf.py:956, http_client.py:954).
PdfIsWhole == TypeOK /\ OutputTrue /\ RenderersApart /\ ArtifactOfFailure

\* convert returns though its children hang: cancelled, late or with an answer.
ConvertReturns == InProgress ~> ~InProgress
=============================================================================
