------------------------------ MODULE Reclassify ------------------------------
(***************************************************************************)
(* Moving saved documents out of 99_分類未解決 (ReclassificationService of  *)
(* src/src/storage/reclassification.py): a scan of a run root finds the    *)
(* candidates, the user confirms some, and each is moved, or a file that   *)
(* is there already is declared the right one, under a journal: PREPARED,  *)
(* the rename, FILE_MOVED, the history line, HISTORY_APPENDED, no journal. *)
(* Scan and apply hold the download guard but give it back in between;     *)
(* downloads then save documents again, and the user may touch the files   *)
(* at any time.  Whether a dead move is finished or undone is told by the  *)
(* history line, not by the journal's state.                               *)
(***************************************************************************)
EXTENDS Naturals, FiniteSets

CONSTANTS Doc, None,
          Evidence,  \* what each document's history line tells of its agency
          MaxFault,  \* bound: calls of the file system that fail
          MaxCrash, MaxTouch, MaxLoad

\* What the journal tells of a move.
Journal == [doc : Doc, op : {"MOVE", "REUSE_TARGET"}, old : 1..MaxLoad + 1,
            state : {"PREPARED", "FILE_MOVED", "HISTORY_APPENDED"}]

ASSUME ReclassifyAssumption ==
  /\ IsFiniteSet(Doc) /\ None \notin Nat \cup Doc \cup Journal \cup {"own", "other"}
  /\ Evidence \in [Doc -> [levels : 1..4, office : {"same", "other", None}, id : BOOLEAN, matches : Nat]]
  /\ {MaxFault, MaxCrash, MaxTouch, MaxLoad} \subseteq Nat

VARIABLES source, target, \* at each document's old and new place: "own", "other" or None
          line,    \* the history: the number of the last line for the old place, the number
                   \* of the line that a move has replaced, a line for the new place
          torn,    \* the history's last line has no end
          journal,
          plan,    \* the numbers of the lines that the preview offers to move, or 0
          job,     \* the application in progress
          cancel, faults, crashes, touches, loads,
          foreign, \* auxiliary: documents that others have touched, or saved in the middle
                   \* of their move
          lost     \* auxiliary: documents that were moved while a line without an end took
                   \* the line of the move

files == <<source, target>>
bounds == <<faults, crashes, touches, loads>>
ghosts == <<foreign, lost>>
vars == <<source, target, line, torn, journal, plan, job, cancel, bounds, ghosts>>

NoJob == [pc |-> "idle", doc |-> None, op |-> None, todo |-> {}, recovered |-> FALSE, exc |-> None]
NoPlan == [d \in Doc |-> 0]

Init ==
  /\ source = [d \in Doc |-> "own"] /\ target \in [Doc -> {None, "other"}]
  /\ line = [d \in Doc |-> [old |-> 1, moved |-> 0, new |-> FALSE]]
  /\ torn = FALSE /\ journal = None /\ plan = NoPlan /\ job = NoJob /\ cancel = FALSE
  /\ faults = 0 /\ crashes = 0 /\ touches = 0 /\ loads = 0 /\ foreign = {} /\ lost = {}

At(pc) == job.pc = pc
Goto(pc) == job' = [job EXCEPT !.pc = pc]
Fails(pc, exc) ==
  /\ faults < MaxFault /\ faults' = faults + 1 /\ UNCHANGED <<crashes, touches, loads>>
  /\ job' = [job EXCEPT !.pc = pc, !.exc = exc]

-----------------------------------------------------------------------------
(* The journal of a dead or failed move *)

\* Mutant: the journal's state tells whether the move was committed.
ContainsByState(j) == j.state = "HISTORY_APPENDED"

\* _history_contains_id: the line of this move is in the history, whole.
Contains(j) == line[j.doc].moved = j.old

Finishable(j) == /\ target[j.doc] = "own"
                 /\ source[j.doc] = IF j.op = "MOVE" THEN None ELSE "own"
\* Mutant: a file at the new place is never as it should be.
UntouchedAsMove(j) == source[j.doc] = "own" /\ target[j.doc] = None

Untouched(j) == /\ source[j.doc] = "own"
                /\ target[j.doc] = IF j.op = "MOVE" THEN None ELSE "own"
Moved(j) == j.op = "MOVE" /\ source[j.doc] = None /\ target[j.doc] = "own"

\* Mutant: undone on paper only.
RenameBackForgotten(j) == UNCHANGED <<files, lost>>

RenameBack(j) ==
  /\ source' = [source EXCEPT ![j.doc] = "own"] /\ target' = [target EXCEPT ![j.doc] = None]
  /\ lost' = lost \ {j.doc}

\* _finish_committed_journal or _rollback_journal; neither deletes a journal that does
\* not describe what it finds.
Settle(j) ==
  /\ journal' = None
  /\ IF Contains(j) THEN Finishable(j) /\ UNCHANGED <<files, lost>>
     ELSE \/ Untouched(j) /\ UNCHANGED <<files, lost>>
          \/ Moved(j) /\ RenameBack(j)
Settleable(j) == IF Contains(j) THEN Finishable(j) ELSE Untouched(j) \/ Moved(j)

-----------------------------------------------------------------------------
(* The preview *)

\* _resolve_segments: four levels must agree with the office of the detail page or, when
\* it has none, with the agency's code; three need exactly one child with its name.
Resolved(e) ==
  \/ e.levels = 4 /\ e.office = "same"
  \/ e.levels = 4 /\ e.office = None /\ e.id
  \/ e.levels = 3 /\ e.office # None /\ e.matches = 1

\* A line whose place a move has given up is a candidate only if the new file is invalid.
Superseded(d) == line[d].moved = line[d].old /\ target[d] = "own"

Actionable(d) ==
  /\ ~Superseded(d) /\ Resolved(Evidence[d])
  /\ source[d] = "own" /\ target[d] # "other"

Offer == [d \in Doc |-> IF Actionable(d) THEN line[d].old ELSE 0]

\* The plan is made after the recovery; a root whose journal stays is passed over.
Scan ==
  /\ At("idle")
  /\ \/ /\ journal = None /\ plan' = Offer /\ UNCHANGED <<files, lost, journal, faults>>
     \/ /\ journal # None /\ Settleable(journal) /\ Settle(journal)
        /\ plan' = [d \in Doc |-> IF source'[d] = "own" /\ target'[d] # "other" /\ Resolved(Evidence[d])
                                     /\ ~(line[d].moved = line[d].old /\ target'[d] = "own")
                                  THEN line[d].old ELSE 0]
        /\ UNCHANGED faults
     \/ /\ journal # None /\ plan' = NoPlan /\ UNCHANGED <<files, lost, journal>>
        /\ \/ ~Settleable(journal) /\ UNCHANGED faults
           \/ faults < MaxFault /\ faults' = faults + 1
  /\ cancel' = FALSE
  /\ UNCHANGED <<line, torn, job, crashes, touches, loads, foreign>>

-----------------------------------------------------------------------------
(* The application *)

Confirm(S) ==
  /\ At("idle") /\ S # {} /\ \A d \in S : plan[d] # 0
  /\ job' = [NoJob EXCEPT !.pc = "next", !.todo = S] /\ cancel' = FALSE
  /\ UNCHANGED <<files, line, torn, journal, plan, bounds, ghosts>>

Finish == job' = NoJob /\ plan' = NoPlan

\* Nothing is left, or the user has stopped it.
Stop ==
  /\ At("next") /\ (job.todo = {} \/ cancel)
  /\ Finish
  /\ UNCHANGED <<files, line, torn, journal, cancel, bounds, ghosts>>

Take(d) == job' = [job EXCEPT !.todo = @ \ {d}]

\* Once per application, before its first candidate: the journal of an earlier one.
RecoverFirst(d) ==
  /\ At("next") /\ d \in job.todo /\ ~cancel /\ ~job.recovered /\ journal # None
  /\ \/ Settle(journal) /\ job' = [job EXCEPT !.recovered = TRUE] /\ UNCHANGED bounds
     \/ /\ Take(d) /\ UNCHANGED <<files, lost, journal, crashes, touches, loads>>
        /\ \/ ~Settleable(journal) /\ UNCHANGED faults
           \/ faults < MaxFault /\ faults' = faults + 1
  /\ UNCHANGED <<line, torn, plan, cancel, foreign>>

Current(d) == line[d].old = plan[d] /\ line[d].moved # line[d].old

\* Stale, invalid or a conflict: the candidate is left alone.
Refuse(d) ==
  /\ At("next") /\ d \in job.todo /\ ~cancel /\ (job.recovered \/ journal = None)
  /\ ~Current(d) \/ source[d] # "own" \/ target[d] = "other"
  /\ job' = [job EXCEPT !.todo = @ \ {d}, !.recovered = TRUE]
  /\ UNCHANGED <<files, line, torn, journal, plan, cancel, bounds, ghosts>>

\* The journal is written, over what an earlier candidate may have left, or cannot be.
Prepare(d) ==
  LET op == IF target[d] = None THEN "MOVE" ELSE "REUSE_TARGET" IN
  /\ At("next") /\ d \in job.todo /\ ~cancel /\ (job.recovered \/ journal = None)
  /\ Current(d) /\ source[d] = "own" /\ target[d] # "other"
  /\ \/ /\ journal' = [doc |-> d, op |-> op, old |-> line[d].old, state |-> "PREPARED"]
        /\ job' = [job EXCEPT !.pc = "rename", !.doc = d, !.op = op, !.todo = @ \ {d},
                              !.recovered = TRUE]
        /\ UNCHANGED faults
     \/ /\ job' = [job EXCEPT !.todo = @ \ {d}, !.recovered = TRUE]
        /\ faults < MaxFault /\ faults' = faults + 1 /\ UNCHANGED journal
  /\ UNCHANGED <<files, line, torn, plan, cancel, crashes, touches, loads, ghosts>>

\* os.rename to a free place, or the file that is there is still the same document.
Rename ==
  LET d == job.doc
      ready == IF job.op = "MOVE" THEN source[d] # None /\ target[d] = None ELSE target[d] = "own"
  IN
  /\ At("rename")
  /\ \/ /\ ready /\ Goto("note") /\ UNCHANGED bounds
        /\ IF job.op = "MOVE"
           THEN source' = [source EXCEPT ![d] = None] /\ target' = [target EXCEPT ![d] = source[d]]
           ELSE UNCHANGED files
     \/ ~ready /\ job' = [job EXCEPT !.pc = "failed", !.exc = "exists"] /\ UNCHANGED <<files, bounds>>
     \/ Fails("failed", "error") /\ UNCHANGED files
  /\ UNCHANGED <<line, torn, journal, plan, cancel, ghosts>>

Mark(from, state, to) ==
  /\ At(from)
  /\ \/ journal' = [journal EXCEPT !.state = state] /\ Goto(to) /\ UNCHANGED bounds
     \/ Fails("failed", "error") /\ UNCHANGED journal
  /\ UNCHANGED <<files, line, torn, plan, cancel, ghosts>>

Note == Mark("note", "FILE_MOVED", "append")
NoteAppended == Mark("mark", "HISTORY_APPENDED", "finish")

WithMove(d) == [line EXCEPT ![d].moved = journal.old, ![d].new = TRUE]

\* The durable line; cancelled before it, failing without it, failing after it was written.
\* After a line without an end it is part of that line, which nobody can read.
AppendLine ==
  LET d == job.doc
      written == /\ line' = IF torn THEN line ELSE WithMove(d)
                 /\ lost' = IF torn /\ job.op = "MOVE" THEN lost \cup {d} ELSE lost
                 /\ torn' = FALSE
  IN
  /\ At("append")
  /\ \/ ~cancel /\ written /\ Goto("mark") /\ UNCHANGED bounds
     \/ ~cancel /\ written /\ Fails("failed", "error")
     \/ Fails("failed", "error") /\ UNCHANGED <<line, torn, lost>>
     \/ cancel /\ job' = [job EXCEPT !.pc = "failed", !.exc = "cancelled"]
        /\ UNCHANGED <<line, torn, lost, bounds>>
  /\ UNCHANGED <<files, journal, plan, cancel, foreign>>

\* A journal that cannot be deleted is only warned of.
FinishMove ==
  /\ At("finish")
  /\ \/ Finishable(journal) /\ journal' = None /\ UNCHANGED faults
     \/ ~Finishable(journal) /\ UNCHANGED <<journal, faults>>
     \/ UNCHANGED journal /\ faults < MaxFault /\ faults' = faults + 1
  /\ Goto("next")
  /\ UNCHANGED <<files, line, torn, plan, cancel, crashes, touches, loads, ghosts>>

\* Any failure after PREPARED: finished if the line is there, undone if not; if neither is
\* possible the journal stays and the next candidate is taken.
Unwind ==
  /\ At("failed")
  /\ \/ /\ Settle(journal) /\ UNCHANGED faults
        /\ IF job.exc = "cancelled" /\ ~Contains(journal) THEN Finish ELSE Goto("next") /\ UNCHANGED plan
     \/ /\ UNCHANGED <<files, lost, journal, plan>> /\ Goto("next")
        /\ \/ ~Settleable(journal) /\ UNCHANGED faults
           \/ faults < MaxFault /\ faults' = faults + 1
  /\ UNCHANGED <<line, torn, cancel, crashes, touches, loads, foreign>>

-----------------------------------------------------------------------------
(* The others *)

AddForeign(d) ==
  foreign' = IF journal # None /\ journal.doc = d THEN foreign \cup {d} ELSE foreign

\* A download run saves the document again, under its old name or under the right one.
LoadOld(d) ==
  /\ At("idle") /\ loads < MaxLoad /\ loads' = loads + 1
  /\ source' = [source EXCEPT ![d] = "own"]
  /\ line' = IF torn THEN line ELSE [line EXCEPT ![d].old = @ + 1]
  /\ torn' = FALSE /\ AddForeign(d)
  /\ UNCHANGED <<target, journal, plan, job, cancel, faults, crashes, touches, lost>>

LoadNew(d) ==
  /\ At("idle") /\ loads < MaxLoad /\ loads' = loads + 1 /\ target[d] = None
  /\ target' = [target EXCEPT ![d] = "own"]
  /\ line' = IF torn THEN line ELSE [line EXCEPT ![d].new = TRUE]
  /\ torn' = FALSE /\ AddForeign(d)
  /\ UNCHANGED <<source, journal, plan, job, cancel, faults, crashes, touches, lost>>

Touch(d) ==
  /\ touches < MaxTouch /\ touches' = touches + 1 /\ foreign' = foreign \cup {d}
  /\ \/ \E x \in {None, "other"} : source' = [source EXCEPT ![d] = x] /\ UNCHANGED target
     \/ \E x \in {None, "other"} : target' = [target EXCEPT ![d] = x] /\ UNCHANGED source
  /\ UNCHANGED <<line, torn, journal, plan, job, cancel, faults, crashes, loads, lost>>

Cancel == /\ ~At("idle") /\ ~cancel /\ cancel' = TRUE
          /\ UNCHANGED <<files, line, torn, journal, plan, job, bounds, ghosts>>

\* The program dies, perhaps within the line.  A second window may have the same
\* preview still open.
Crash ==
  /\ ~At("idle") /\ crashes < MaxCrash /\ crashes' = crashes + 1
  /\ torn' \in {torn, At("append")}
  /\ job' = NoJob /\ plan' \in {NoPlan, plan}
  /\ UNCHANGED <<files, line, journal, cancel, faults, touches, loads, ghosts>>

Step ==
  \/ Stop \/ Rename \/ Note \/ AppendLine \/ NoteAppended \/ FinishMove \/ Unwind
  \/ \E d \in Doc : RecoverFirst(d) \/ Refuse(d) \/ Prepare(d)

Next ==
  \/ Scan \/ Step \/ Cancel \/ Crash
  \/ \E S \in SUBSET Doc : Confirm(S)
  \/ \E d \in Doc : LoadOld(d) \/ LoadNew(d) \/ Touch(d)

Spec == Init /\ [][Next]_vars
\* An application goes on; the user looks at the preview again and again.
FairSpec == Spec /\ WF_vars(Step) /\ SF_vars(Scan)

-----------------------------------------------------------------------------

TypeOK ==
  /\ source \in [Doc -> {"own", "other", None}] /\ target \in [Doc -> {"own", "other", None}]
  /\ line \in [Doc -> [old : 1..MaxLoad + 1, moved : 0..MaxLoad + 1, new : BOOLEAN]]
  /\ torn \in BOOLEAN /\ cancel \in BOOLEAN /\ foreign \subseteq Doc /\ lost \subseteq Doc
  /\ journal \in {None} \cup Journal
  /\ plan \in [Doc -> 0..MaxLoad + 1]
  /\ job \in [pc : {"idle", "next", "rename", "note", "append", "mark", "finish", "failed"},
              doc : Doc \cup {None}, op : {"MOVE", "REUSE_TARGET", None}, todo : SUBSET Doc,
              recovered : BOOLEAN, exc : {None, "exists", "error", "cancelled"}]
  /\ faults \in 0..MaxFault /\ crashes \in 0..MaxCrash /\ touches \in 0..MaxTouch /\ loads \in 0..MaxLoad

\* A document that has left its old place without a line for the new one is in the
\* journal, or its line was lost to the line of a dead process.
HalfMoved(d) == target[d] = "own" /\ source[d] = None /\ ~line[d].new
HalfMovedIsJournalled ==
  \A d \in Doc \ foreign : HalfMoved(d) => (journal # None /\ journal.doc = d) \/ d \in lost

\* The history tells where a document is.
Told(d) ==
  \/ source[d] = "own" /\ line[d].moved # line[d].old
  \/ target[d] = "own" /\ line[d].new

\* When nothing is under way the history tells where each document is; a process that
\* dies within a line costs one document at most its own.
HistoryIsTrue ==
  /\ At("idle") /\ journal = None => \A d \in Doc \ (foreign \cup lost) : Told(d)
  /\ Cardinality(lost) <= crashes

\* A move whose line is written is never undone.
CommitIsFinal ==
  [][\A d \in Doc : line[d].moved = line[d].old /\ Moved([doc |-> d, op |-> "MOVE"]) =>
       ~(source'[d] = "own" /\ target'[d] = None)]_vars

\* A journal that a dead or failed application has left is settled by the looks that
\* follow, unless others have changed the files of its document.
JournalSettled == journal # None ~> journal = None \/ journal.doc \in foreign

\* What is half moved is in the journal.
MoveIsJournalled ==
  /\ TypeOK
  /\ HalfMovedIsJournalled

-----------------------------------------------------------------------------
(* What the documentation says, and the code does not do *)

\* A move whose line is not in the history is undone or is in the journal.  A line that
\* is appended to one without an end is in no history, and the move ends all the same.
MoveIsJournalledAlways ==
  \A d \in Doc \ foreign : HalfMoved(d) => journal # None /\ journal.doc = d

HistoryIsTrueAlways ==
  At("idle") /\ journal = None => \A d \in Doc \ foreign : Told(d)

\* Every journal is settled.  A document that is saved again under its old name leaves
\* two files, and the journal stays for ever.
JournalSettledAlways == journal # None ~> journal = None

=============================================================================
