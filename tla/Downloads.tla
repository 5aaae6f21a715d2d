------------------------------- MODULE Downloads -------------------------------
(***************************************************************************)
(* The download engine and its history: Downloader.download_files and      *)
(* _DownloadHistory of src/src/core/downloader.py.  A run is given the     *)
(* documents that a search has found, plans a place for each, looks into   *)
(* the history for a file that it may keep, and fetches the rest one after *)
(* another (HttpDownload).  The history is a file that is only appended to;*)
(* of a key it is the last line that counts.  Between and during the runs  *)
(* the site changes documents, the user removes, replaces and cancels, and *)
(* the program may die.                                                    *)
(*                                                                         *)
(* The clock: a line's completed_at is not before the date of a document's *)
(* revision r exactly if the site had revision r when the line was         *)
(* written, so `seen' is site[d] at that moment.                           *)
(***************************************************************************)
EXTENDS HttpDownload

CONSTANTS Name,       \* the names that the naming rules give
          Unresolved, \* those below 99_分類未解決
          Plans,      \* the names a run may give, per document; None: the rules fail
          Dated,      \* the documents whose date the site tells
          Policies,   \* subset of {"REUSE", "FORCE"}
          MaxCopy,    \* bound: places _1, _2, ... tried (the code: 1000)
          MaxRun, MaxChange, MaxCrash

Order == {o \in [1..Cardinality(Doc) -> Doc] : \A i, j \in DOMAIN o : o[i] = o[j] => i = j}

Content == [doc : Doc, rev : 0..MaxChange]
Lines == [path : Path, status : {"SUCCESS", "FAILED", "CANCELLED"}, content : Content \cup {None},
          seen : 0..MaxChange, alias : BOOLEAN]

ASSUME DownloadsAssumption ==
  /\ Path = [name : Name, id : Doc \cup {None}, copy : 0..MaxCopy]
  /\ IsFiniteSet(Doc) /\ Unresolved \subseteq Name /\ Dated \subseteq Doc
  /\ Plans \subseteq [Doc -> Name \cup {None}]
  /\ Policies \subseteq {"REUSE", "FORCE"}
  /\ {MaxCopy, MaxRun, MaxChange, MaxCrash} \subseteq Nat
  /\ None \notin Name \cup Content \cup Lines \cup (Order \X Plans)
  /\ None \notin {"SUCCESS", "FAILED", "CANCELLED", "completed", "skipped", "failed", "cancelled"}

VARIABLES disk,    \* .ippi-download-history.jsonl, as its two indexes
          torn,    \* its last line has no end
          mem,     \* the indexes of the run
          run,     \* the run in progress, or the last one
          result,  \* the result of each document in it
          at,      \* local_path of the result
          runs, changes, crashes,
          raced,   \* auxiliary: changed on the site while it was being fetched
          settled, \* auxiliary: nothing has changed since a run with all documents in place
          owned    \* auxiliary: the place whose file a fetch has replaced, and what it held

downloadVars == <<disk, torn, mem, run, result, at, runs, changes, crashes, raced, settled, owned>>
vars == <<httpVars, downloadVars>>

NoIndex == [exact |-> [k \in Doc \X Path |-> None], latest |-> [d \in Doc |-> None]]
NoRun == [pc |-> "idle", order |-> None, plan |-> None, policy |-> None, i |-> 0,
          listed |-> None, target |-> None, quiet |-> FALSE]

Init ==
  /\ InitHttp /\ disk = NoIndex /\ torn = FALSE /\ mem = NoIndex /\ run = NoRun
  /\ result = [d \in Doc |-> None] /\ at = [d \in Doc |-> None]
  /\ runs = 0 /\ changes = 0 /\ crashes = 0 /\ raced = {}
  /\ settled = None /\ owned = None

Running == run.pc # "idle"
Current == run.order[run.i]
Plain(n) == [name |-> n, id |-> None, copy |-> 0]
Own(n, d) == [name |-> n, id |-> d, copy |-> 0]

\* FileUtils.ensure_unique: the place itself, or its first copy that is free, if there is one.
Free(p) == {q \in Path : q.name = p.name /\ q.id = p.id /\ q.copy >= p.copy /\ file[q] = None}
EnsureUnique(p) == {q \in Free(p) : \A r \in Free(p) : q.copy <= r.copy}

-----------------------------------------------------------------------------
(* The history *)

Put(index, d, t, rec) ==
  [exact |-> [index.exact EXCEPT ![<<d, t>>] = rec], latest |-> [index.latest EXCEPT ![d] = rec]]

Line(d, p, status, content, seen, alias) ==
  [path |-> p, status |-> status, content |-> content, seen |-> seen, alias |-> alias]

\* append_record.  The line is glued to one without an end and lost with it, but the
\* run itself remembers it; an error is logged and forgotten.
AppendRecord(d, t, rec) ==
  \/ /\ disk' = IF torn THEN disk ELSE Put(disk, d, t, rec)
     /\ torn' = FALSE /\ mem' = Put(mem, d, t, rec) /\ UNCHANGED faults
  \/ UNCHANGED <<disk, torn, mem>> /\ Failing

\* Mutant: the time must be later than the document's date.
FreshStrictly(rec, d) == rec.seen > run.listed[d]

Fresh(rec, d) == rec.seen >= run.listed[d]
NoLookup == [has |-> FALSE, path |-> None, match |-> FALSE, alias |-> FALSE,
             invalid |-> FALSE, needs |-> FALSE, rec |-> None]

\* Mutant: the date of the document is not asked for.
EvaluateWithoutDate(rec, d, alias) ==
  IF rec.status # "SUCCESS"
  THEN [NoLookup EXCEPT !.has = ~alias, !.path = IF alias THEN None ELSE rec.path]
  ELSE IF file[rec.path] # rec.content
  THEN [NoLookup EXCEPT !.has = ~alias, !.path = rec.path, !.invalid = TRUE]
  ELSE [has |-> TRUE, path |-> rec.path, match |-> TRUE, invalid |-> FALSE,
        alias |-> alias \/ rec.alias, needs |-> alias, rec |-> rec]

\* lookup, once a line is found: it must tell of a success, not be older than the
\* document, and the file must be the one it tells of.
Evaluate(rec, d, alias) ==
  IF rec.status # "SUCCESS" \/ (d \in Dated /\ ~Fresh(rec, d))
  THEN [NoLookup EXCEPT !.has = ~alias, !.path = IF alias THEN None ELSE rec.path]
  ELSE IF file[rec.path] # rec.content
  THEN [NoLookup EXCEPT !.has = ~alias, !.path = rec.path, !.invalid = TRUE]
  ELSE [has |-> TRUE, path |-> rec.path, match |-> TRUE, invalid |-> FALSE,
        alias |-> alias \/ rec.alias, needs |-> alias, rec |-> rec]

LookupExact(d, t) ==
  LET rec == mem.exact[<<d, t>>] IN IF rec = None THEN NoLookup ELSE Evaluate(rec, d, FALSE)

\* The last line of the document under whatever name, if it is known to be fresh.
LookupAlias(d) ==
  LET rec == mem.latest[d]
  IN  IF rec = None \/ d \notin Dated \/ ~Fresh(rec, d) THEN NoLookup ELSE Evaluate(rec, d, TRUE)

Nothing(look) == ~look.has /\ ~look.match /\ ~look.invalid

\* Where the document shall go, and what the history says of it: the planned place; the
\* document's own place when a file that the history does not explain is there; failing
\* both, the place it had under an earlier name.
Decision(d) ==
  LET first == LookupExact(d, run.target[d])
      moved == Nothing(first) /\ file[run.target[d]] # None
      place == IF moved THEN Own(run.plan[d], d) ELSE run.target[d]
      exact == IF moved THEN LookupExact(d, place) ELSE first
  IN  [place |-> place, look |-> IF Nothing(exact) THEN LookupAlias(d) ELSE exact]

\* _requires_legacy_path_redownload
LegacyRedo(dec) ==
  /\ dec.look.match /\ dec.look.alias
  /\ dec.look.path.name \in Unresolved /\ dec.place.name \notin Unresolved

\* The place that the fetched document gets; none when every copy is taken.
SavePath(dec, d) ==
  IF LegacyRedo(dec) /\ file[dec.place] # None THEN EnsureUnique(Own(run.plan[d], d))
  ELSE IF ~dec.look.has THEN EnsureUnique(dec.place)
  ELSE IF dec.look.path # None /\ ~(dec.look.match /\ dec.look.alias) THEN {dec.look.path}
  ELSE {dec.place}

Kept(dec) == dec.look.match /\ ~LegacyRedo(dec) /\ run.policy = "REUSE"

-----------------------------------------------------------------------------
(* A run *)

\* _plan_downloads: of two documents with one name the later goes to its own place.
Targets(order, plan) ==
  [d \in Doc |->
     IF plan[d] = None THEN None
     ELSE IF \E i, j \in DOMAIN order : i < j /\ order[j] = d /\ plan[order[i]] = plan[d]
     THEN Own(plan[d], d) ELSE Plain(plan[d])]

Start(order, plan, policy) ==
  /\ ~Running /\ runs < MaxRun /\ runs' = runs + 1
  /\ run' = [pc |-> "next", order |-> order, plan |-> plan, policy |-> policy, i |-> 1,
             listed |-> site, target |-> Targets(order, plan),
             quiet |-> policy = "REUSE" /\ settled = <<order, plan>>]
  /\ result' = [d \in Doc |-> None] /\ at' = [d \in Doc |-> None]
  /\ mem' = disk /\ cancel' = FALSE /\ owned' = None
  /\ settled' = <<order, plan>>
  /\ UNCHANGED <<site, file, part, http, faults, disk, torn, changes, crashes, raced>>

Answer(d, r, p) == result' = [result EXCEPT ![d] = r] /\ at' = [at EXCEPT ![d] = p]
NextDocument == run' = [run EXCEPT !.pc = "next", !.i = @ + 1]

More == run.pc = "next" /\ run.i <= Cardinality(Doc)

\* The documents from the i-th on are reported as cancelled before they were started.
CancelledFrom(res, i) ==
  [d \in Doc |-> IF \E j \in DOMAIN run.order : j >= i /\ run.order[j] = d THEN "cancelled" ELSE res[d]]

Stopped ==
  /\ More /\ cancel
  /\ result' = CancelledFrom(result, run.i) /\ run' = [run EXCEPT !.pc = "idle"]
  /\ settled' = None
  /\ UNCHANGED <<httpVars, disk, torn, mem, at, runs, changes, crashes, raced, owned>>

\* The naming rules fail, or no copy of the place is free.
NamingFails ==
  /\ More /\ ~cancel
  /\ run.plan[Current] # None =>
       LET dec == Decision(Current) IN ~Kept(dec) /\ SavePath(dec, Current) = {}
  /\ Answer(Current, "failed", None) /\ NextDocument
  /\ settled' = None
  /\ UNCHANGED <<httpVars, disk, torn, mem, runs, changes, crashes, raced, owned>>

\* A file that is kept; if it was found under an earlier name the new one is written down.
Reuse ==
  /\ More /\ ~cancel /\ run.plan[Current] # None
  /\ LET d == Current dec == Decision(d) IN
     /\ Kept(dec)
     /\ IF dec.look.needs
        THEN AppendRecord(d, dec.place, Line(d, dec.look.path, "SUCCESS", dec.look.rec.content,
                                       dec.look.rec.seen, TRUE))
        ELSE UNCHANGED <<disk, torn, mem, faults>>
     /\ Answer(d, "skipped", dec.look.path)
     /\ settled' = IF faults' # faults \/ torn THEN None ELSE settled
  /\ NextDocument
  /\ UNCHANGED <<site, file, part, http, cancel, runs, changes, crashes, raced, owned>>

Fetch ==
  /\ More /\ ~cancel /\ run.plan[Current] # None
  /\ LET d == Current dec == Decision(d) IN
     /\ ~Kept(dec)
     /\ \E p \in SavePath(dec, d) : Call(d, p)
     /\ run' = [run EXCEPT !.pc = "fetch", !.target[d] = dec.place]
  /\ UNCHANGED <<site, file, part, cancel, faults, disk, torn, mem, result, at, runs, changes,
                 crashes, raced, settled, owned>>

Http ==
  /\ run.pc = "fetch" /\ HttpStep
  /\ owned' = IF http'.result # "SUCCESS" THEN owned
              ELSE [path |-> http.path, held |-> file[http.path], by |-> http.doc]
  /\ UNCHANGED <<disk, torn, mem, run, result, at, runs, changes, crashes, raced, settled>>

Returned == run.pc = "fetch" /\ HttpAt("end")

\* append_success or append_terminal, then the result; a cancelled document ends the run.
Record ==
  /\ Returned
  /\ LET d == http.doc
         ok == http.result = "SUCCESS"
         rec == Line(d, http.path, http.result, IF ok THEN http.content ELSE None, site[d], FALSE)
         name == CASE ok -> "completed" [] http.result = "FAILED" -> "failed" [] OTHER -> "cancelled"
     IN  /\ AppendRecord(d, run.target[d], rec)
         /\ at' = [at EXCEPT ![d] = http.path]
         /\ IF name = "cancelled"
            THEN /\ result' = CancelledFrom(result, run.i)
                 /\ run' = [run EXCEPT !.pc = "idle"]
            ELSE /\ result' = [result EXCEPT ![d] = name] /\ NextDocument
         /\ settled' = IF faults' # faults \/ torn \/ ~ok \/ owned.held # None THEN None ELSE settled
  /\ http' = NoCall
  /\ UNCHANGED <<site, file, part, cancel, runs, changes, crashes, raced, owned>>

Finished ==
  /\ run.pc = "next" /\ run.i > Cardinality(Doc)
  /\ run' = [run EXCEPT !.pc = "idle"]
  /\ UNCHANGED <<httpVars, disk, torn, mem, result, at, runs, changes, crashes, raced, settled, owned>>

-----------------------------------------------------------------------------
(* The world *)

Changed == changes < MaxChange /\ changes' = changes + 1

Update(d) ==
  /\ Changed /\ site' = [site EXCEPT ![d] = @ + 1]
  /\ raced' = IF run.pc = "fetch" /\ http.doc = d THEN raced \cup {d} ELSE raced
  /\ settled' = None /\ run' = [run EXCEPT !.quiet = FALSE]
  /\ UNCHANGED <<file, part, http, cancel, faults, disk, torn, mem, result, at, runs, crashes, owned>>

Remove(p) ==
  /\ Changed /\ file[p] # None /\ file' = [file EXCEPT ![p] = None]
  /\ ~(run.pc = "fetch" /\ http.path = p)
  /\ settled' = None /\ run' = [run EXCEPT !.quiet = FALSE]
  /\ UNCHANGED <<site, part, http, cancel, faults, disk, torn, mem, result, at, runs, crashes, raced, owned>>

Cancel ==
  /\ Running /\ ~cancel /\ cancel' = TRUE
  /\ UNCHANGED <<site, file, part, http, faults, downloadVars>>

\* The program dies, perhaps with half a line written.
Crash ==
  /\ Running /\ crashes < MaxCrash /\ crashes' = crashes + 1
  /\ torn' \in {torn, Returned}
  /\ run' = [run EXCEPT !.pc = "idle"] /\ http' = NoCall /\ mem' = NoIndex /\ settled' = None
  /\ UNCHANGED <<site, file, part, cancel, faults, disk, result, at, runs, changes, raced, owned>>

Work == Stopped \/ NamingFails \/ Reuse \/ Fetch \/ Http \/ Record \/ Finished

Next ==
  \/ \E o \in Order, pl \in Plans, po \in Policies : Start(o, pl, po)
  \/ Work
  \/ \E d \in Doc : Update(d)
  \/ \E p \in Path : Remove(p)
  \/ Cancel \/ Crash

Spec == Init /\ [][Next]_vars

-----------------------------------------------------------------------------

TypeOK ==
  /\ site \in [Doc -> 0..MaxChange] /\ file \in [Path -> Content \cup {None}]
  /\ part \subseteq Path /\ cancel \in BOOLEAN /\ torn \in BOOLEAN
  /\ \A ix \in {disk, mem} : /\ ix.exact \in [Doc \X Path -> Lines \cup {None}]
                             /\ ix.latest \in [Doc -> Lines \cup {None}]
  /\ run.pc \in {"idle", "next", "fetch"}
  /\ result \in [Doc -> {None, "completed", "skipped", "failed", "cancelled"}]
  /\ at \in [Doc -> Path \cup {None}] /\ raced \subseteq Doc
  /\ runs \in 0..MaxRun /\ changes \in 0..MaxChange /\ crashes \in 0..MaxCrash /\ faults \in 0..MaxFault

\* A document that is reported as kept is there, is that document, and, when the site
\* tells its date, is at least as new as what the search has listed; unless the site
\* changed it while it was fetched, when the line's time says more than the file.
ReusedIsCurrent ==
  [][\A d \in Doc : result[d] # "skipped" /\ result'[d] = "skipped" /\ d \notin raced =>
       /\ file[at'[d]] # None /\ file[at'[d]].doc = d
       /\ d \in Dated => file[at'[d]].rev >= run.listed[d] ]_vars

\* A run that is repeated, with the same documents in the same order and under the same
\* names, after a run that put everything in place, fetches nothing.
SecondRunIdle == run.quiet => run.pc # "fetch"

\* A fetch replaces only a file of the document it fetches.
OverwritesOnlyOwn == owned # None /\ owned.held # None => owned.held.doc = owned.by

\* Every document of a run that was not killed has a result, and none is worked on after
\* the first that was cancelled.
EveryDocumentAnswered ==
  run.pc = "next" /\ run.i > Cardinality(Doc) => \A d \in Doc : result[d] \in {"completed", "skipped", "failed"}

\* A place changes only by a whole document, and a run that ends has answered for all.
PlacesTrue ==
  /\ TypeOK
  /\ FetchIsAtomic
  /\ EveryDocumentAnswered

=============================================================================
