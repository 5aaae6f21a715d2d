---------------------------- MODULE HttpDownload ----------------------------
(***************************************************************************)
(* One document over HTTP: HTTPClient.download_file of                     *)
(* src/src/utils/http_client.py.  The body goes to a .part file beside the *)
(* target and replaces it once it is whole and of the right kind; every    *)
(* failure and every cancellation removes the .part file.  At most three   *)
(* attempts, with waits between them that the user may cut short.          *)
(***************************************************************************)
EXTENDS Naturals, FiniteSets

CONSTANTS Doc, Path,
          MaxAttempt, \* max_retries: attempts in all
          MaxFault,   \* bound: calls of the system and of the network that fail
          None

ASSUME HttpAssumption ==
  MaxAttempt \in Nat \ {0} /\ MaxFault \in Nat /\ None \notin Doc \cup Path \cup Nat

VARIABLES site,    \* when each document was last changed on the site
          file,    \* the document and its revision that each path holds, or None
          part,    \* the targets with a .part file
          http,    \* the call in progress
          cancel,  \* cancel_check
          faults

httpVars == <<site, file, part, http, cancel, faults>>

NoCall == [step |-> "idle", doc |-> None, path |-> None, attempt |-> 0,
           content |-> None, before |-> None, result |-> None, dirty |-> FALSE]

InitHttp ==
  /\ site = [d \in Doc |-> 0] /\ file = [p \in Path |-> None] /\ part = {}
  /\ http = NoCall /\ cancel = FALSE /\ faults = 0

Failing == faults < MaxFault /\ faults' = faults + 1
HttpAt(step) == http.step = step
HttpGo(step) == http' = [http EXCEPT !.step = step]

\* The call returns; dirty when its work files could not be removed.
Result(status, dirty) ==
  http' = [http EXCEPT !.step = "end", !.result = status, !.dirty = dirty]

\* cleanup_work_files, at the end of a call that does not succeed.
Clean(status) ==
  \/ part' = part \ {http.path} /\ Result(status, FALSE) /\ UNCHANGED faults
  \/ http.path \in part /\ UNCHANGED part /\ Result(status, TRUE) /\ Failing

-----------------------------------------------------------------------------

Call(d, p) ==
  http' = [NoCall EXCEPT !.step = "attempt", !.doc = d, !.path = p,
                         !.attempt = 1, !.before = file[p]]

\* What an interrupted attempt has left is removed first, or the call fails.
Attempt ==
  /\ HttpAt("attempt")
  /\ \/ /\ ~cancel
        /\ part' = part \ {http.path}
        /\ HttpGo("request") /\ UNCHANGED faults
     \/ /\ cancel
        /\ part' = part \ {http.path}
        /\ Result("CANCELLED", FALSE) /\ UNCHANGED faults
     \/ /\ http.path \in part /\ UNCHANGED part
        /\ Result("FAILED", TRUE) /\ Failing
  /\ UNCHANGED <<site, file, cancel>>

\* The site answers with what it has; nothing is known of its length yet.
Respond ==
  /\ HttpAt("request") /\ ~cancel
  /\ part' = part \cup {http.path}
  /\ http' = [http EXCEPT !.step = "body", !.content = [doc |-> http.doc, rev |-> site[http.doc]]]
  /\ UNCHANGED <<site, file, cancel, faults>>

\* As many bytes as announced, and the signature of the expected format.
Body ==
  /\ HttpAt("body") /\ ~cancel
  /\ HttpGo("whole")
  /\ UNCHANGED <<site, file, part, cancel, faults>>

\* A wait between attempts, or the last failure.
RetryOrFail ==
  IF http.attempt < MaxAttempt
  THEN part' = part \ {http.path} /\ HttpGo("wait") /\ UNCHANGED cancel
  ELSE part' = part \ {http.path} /\ Result("FAILED", FALSE) /\ UNCHANGED cancel

\* 429, 5xx, a time-out, a lost connection, a body that is too short.
Transient ==
  /\ http.step \in {"request", "body"} /\ Failing
  /\ RetryOrFail
  /\ UNCHANGED <<site, file>>

\* Mutant: the .part file of a refused body stays.
PermanentLeavesPart ==
  /\ http.step \in {"request", "body", "whole"} /\ Failing
  /\ UNCHANGED part /\ Result("FAILED", FALSE)
  /\ UNCHANGED <<site, file, cancel>>

\* 4xx, no length, another format, a conversion that fails, a full disk: no retry.
Permanent ==
  /\ http.step \in {"request", "body", "whole"} /\ Failing
  /\ part' = part \ {http.path}
  /\ Result("FAILED", FALSE)
  /\ UNCHANGED <<site, file, cancel>>

\* The cancellation is seen at a chunk, in the throttle, in a wait, before the commit.
Cancelled ==
  /\ http.step \in {"request", "body", "whole", "wait"} /\ cancel
  /\ Clean("CANCELLED")
  /\ UNCHANGED <<site, file, cancel>>

Wait ==
  /\ HttpAt("wait") /\ ~cancel
  /\ http' = [http EXCEPT !.step = "attempt", !.attempt = @ + 1]
  /\ UNCHANGED <<site, file, part, cancel, faults>>

\* os.replace
Commit ==
  /\ HttpAt("whole") /\ ~cancel
  /\ file' = [file EXCEPT ![http.path] = http.content]
  /\ part' = part \ {http.path}
  /\ Result("SUCCESS", FALSE)
  /\ UNCHANGED <<site, cancel, faults>>

HttpStep ==
  \/ Attempt \/ Respond \/ Body \/ Transient \/ Permanent
  \/ Cancelled \/ Wait \/ Commit

-----------------------------------------------------------------------------

\* A call that succeeds has put the whole document in its place; any other has left
\* the place as it was, and no work file that it does not report.
FetchIsAtomic ==
  http.step = "end" =>
    /\ http.result = "SUCCESS" => http.content # None /\ file[http.path] = http.content
    /\ http.result # "SUCCESS" => file[http.path] = http.before
    /\ http.dirty \/ http.path \notin part
=============================================================================
