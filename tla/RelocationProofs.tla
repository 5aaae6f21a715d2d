-------------------------- MODULE RelocationProofs --------------------------
(***************************************************************************)
(* Proofs about Relocation, for any schedules and scheduled runs, failures *)
(* and deaths of the GUI: a move is done, or not begun, or the journal     *)
(* says that it is half done, and a run of the new place that was accepted *)
(* keeps its snapshot.                                                     *)
(***************************************************************************)
EXTENDS Relocation, TLAPS

-----------------------------------------------------------------------------
(* Types *)

Root == {"old", "new"}
Location == {"old", "new", None}
Config == {"old", "new", "outside"}
Entry ==
  [snap : Snap, root : Root, enabled : BOOLEAN, kept : SUBSET Snap, archived : SUBSET Snap]
Entries == [Schedule -> Entry]
Task == [snap : Snap, root : Root]
Tasks == [Schedule -> Task \cup {None}]
State == [schedule : Schedule, entry : Entry, task : Task \cup {None}]

BeforeType ==
  [entry : Entries, task : Tasks, file : SUBSET Snap,
   location : Location, retired : BOOLEAN, config : Config]

Forward == {"next", "task", "put", "archive", "retire", "locate", "commit"}
Working == Forward \cup {"journal", "undo"}

OpType ==
  [step : Working \cup {"idle", "queue", "done", "failed"}, todo : SUBSET Schedule,
   states : Seq(State), before : BeforeType \cup {None}, resumed : BOOLEAN,
   errors : BOOLEAN, wrote : SUBSET {"retired", "location"},
   schedule : Schedule \cup {None}, new : Snap \cup {None}]

RunType ==
  [step : {"idle", "started", "queued", "running", "ended"}, root : Root \cup {None},
   schedule : Schedule \cup {None}, snap : Snap \cup {None}]

RegistryType ==
  /\ entry \in Entries /\ task \in Tasks
  /\ paths \in [Snap -> Config] /\ file \subseteq Snap
FilesType ==
  location \in Location /\ retired \in BOOLEAN /\ journal \in BOOLEAN /\ config \in Config

Types ==
  /\ place \in Places /\ copied \in BOOLEAN
  /\ RegistryType /\ FilesType
  /\ protected \subseteq Snap
  /\ op \in OpType
  /\ run \in [Run -> RunType]

-----------------------------------------------------------------------------
(* The inductive invariant *)

\* Only a folder that was moved has an old place.
PlaceOK ==
  place # "folder" => ~journal /\ location # "old" /\ config # "old"

\* A snapshot is of one schedule, and the one in use is there and is not superseded.
OwnersOK ==
  /\ \A s, t \in Schedule : s # t => SnapsOf(entry[s]) \cap SnapsOf(entry[t]) = {}
  /\ \A s \in Schedule : entry[s].snap \in file /\ entry[s].snap \notin entry[s].kept

TaskOf(e) == IF e.enabled THEN [snap |-> e.snap, root |-> "new"] ELSE None

\* A schedule at the new place is there with its task and its paths.
NewOK ==
  \A s \in Schedule :
    entry[s].root = "new" => task[s] = TaskOf(entry[s]) /\ paths[entry[s].snap] # "old"

\* A move is not begun, or everything is at the new place.
Whole(e, l, c) ==
  \/ l # "new" /\ \A s \in Schedule : e[s].root = "old"
  \/ l = "new" /\ c # "old" /\ \A s \in Schedule : e[s].root = "new"

Settled == place = "folder" /\ ~journal => Whole(entry, location, config)

\* The schedule that is just rewritten was captured last; its new snapshot is its own.
InHand == op.step \in {"task", "put"}

HandOK ==
  /\ InHand => /\ op.schedule \in Schedule /\ op.states # <<>>
               /\ Last(op.states).schedule = op.schedule
               /\ entry[op.schedule].root = "old"
  /\ At("put") =>
       LET e == entry[op.schedule] IN
       /\ op.new \in file /\ paths[op.new] # "old"
       /\ task[op.schedule] = TaskOf([e EXCEPT !.snap = op.new])
       /\ op.new = e.snap \/ \A t \in Schedule : op.new \notin SnapsOf(entry[t])

\* What was captured can be brought back.
Captured == {op.states[i].schedule : i \in DOMAIN op.states}

StateIsKept(state) ==
  LET e == state.entry IN
  /\ e.root = "old" /\ e.snap \in file /\ e.snap \notin e.kept
  /\ SnapsOf(e) \subseteq SnapsOf(entry[state.schedule])
  /\ op.before.entry[state.schedule].root = "old"

StatesOK ==
  /\ \A i \in DOMAIN op.states : StateIsKept(op.states[i])
  /\ \A i, j \in DOMAIN op.states :
       i # j => op.states[i].schedule # op.states[j].schedule

\* What is still to do is at the old place, everything else has been done.
TodoOK ==
  /\ op.step \in Forward =>
       /\ op.todo \cap Captured = {}
       /\ \A s \in Schedule \ op.todo : entry[s].root = "old" => InHand /\ s = op.schedule
  /\ op.step \in {"queue", "journal"} => op.states = <<>> /\ op.wrote = {}
  /\ At("journal") => \A s \in Schedule \ op.todo : entry[s].root = "new"
  /\ op.step \in {"journal"} \cup Forward => \A s \in op.todo : entry[s].root = "old"
  /\ op.step \in {"queue", "journal"} \cup Forward => ~op.errors
  /\ op.step \in {"archive", "retire", "locate", "commit"} => op.todo = {}

\* The other files, one after the other.
FilesOK ==
  /\ op.step \in {"archive", "retire", "locate", "commit", "done"} => config # "old"
  /\ op.step \in {"locate", "commit", "done"} => (copied => retired)
  /\ op.step \in {"commit", "done"} => location = "new"
  /\ At("done") => ~journal /\ \A s \in Schedule : entry[s].root = "new"

\* What a rollback begins with, and what is left to undo.
BeforeOK ==
  Rewriting =>
    /\ op.before \in BeforeType
    /\ IF op.resumed THEN journal
       ELSE IF place = "folder" THEN Whole(op.before.entry, op.before.location, op.before.config)
       ELSE op.before.location # "old" /\ op.before.config # "old"
    /\ \A s \in Schedule :
         s \in Captured \/ op.errors \/ entry[s].root = op.before.entry[s].root
    /\ "location" \notin op.wrote => location = op.before.location
    /\ op.step \in Forward \/ op.states # <<>> \/ op.errors => journal
    /\ StatesOK

\* As long as the user is offered a relocation no run of the new place is accepted.
RequiredOK ==
  op.step \in {"queue"} \cup Working /\ Schedule # {} => RequiredHeadless

Accepted(r) == run[r].step \in {"started", "queued", "running"} /\ run[r].root = "new"

RunsOK ==
  \A r \in Run : Accepted(r) =>
    /\ ~RequiredHeadless /\ run[r].schedule \in Schedule
    /\ run[r].snap = entry[run[r].schedule].snap

IInv ==
  /\ Types
  /\ PlaceOK /\ OwnersOK /\ NewOK /\ Settled
  /\ HandOK /\ TodoOK /\ FilesOK /\ BeforeOK
  /\ RequiredOK /\ RunsOK

-----------------------------------------------------------------------------
(* Lemmas *)

LEMMA OpIs ==
  ASSUME Types
  PROVE  /\ op.step \in Working \cup {"idle", "queue", "done", "failed"}
         /\ op.todo \subseteq Schedule /\ op.states \in Seq(State)
         /\ op.before \in BeforeType \cup {None}
         /\ op.resumed \in BOOLEAN /\ op.errors \in BOOLEAN
         /\ op.wrote \subseteq {"retired", "location"}
         /\ op.schedule \in Schedule \cup {None} /\ op.new \in Snap \cup {None}
BY DEF Types, OpType

LEMMA StateIs ==
  ASSUME Types, NEW i \in DOMAIN op.states
  PROVE  /\ op.states[i] \in State
         /\ op.states[i].schedule \in Schedule /\ op.states[i].entry \in Entry
         /\ op.states[i].task \in Task \cup {None}
<1>1. op.states \in Seq(State)
  BY OpIs
<1>2. op.states[i] \in State
  BY <1>1
<1> QED
  BY <1>2 DEF State

LEMMA IdleIs ==
  /\ Idle \in OpType
  /\ \A todo \in SUBSET Schedule :
       [Idle EXCEPT !.step = "queue", !.todo = todo] \in OpType
<1>1. <<>> \in Seq(State)
  OBVIOUS
<1> QED
  BY <1>1 DEF Idle, OpType

\* With no relocation at work nothing is asked of one.
LEMMA AtRest ==
  ASSUME op'.step \in {"idle", "failed"}
  PROVE  HandOK' /\ TodoOK' /\ FilesOK' /\ BeforeOK' /\ RequiredOK'
BY DEF HandOK, InHand, At, TodoOK, FilesOK, BeforeOK, Rewriting, RequiredOK, Forward, Working

LEMMA StoresFrame ==
  ASSUME UNCHANGED <<place, location, journal, config>>, UNCHANGED registry
  PROVE  /\ PlaceOK => PlaceOK' 
         /\ OwnersOK => OwnersOK' 
         /\ NewOK => NewOK' 
         /\ Settled => Settled'
BY DEF registry, PlaceOK, OwnersOK, SnapsOf, NewOK, TaskOf, Settled, Whole

LEMMA AskedFrame ==
  ASSUME UNCHANGED <<location, journal, entry, paths>>
  PROVE  RequiredHeadless' <=> RequiredHeadless
BY DEF RequiredHeadless, RecordedElsewhere, Affected

LEMMA RunsFrame ==
  ASSUME RunsOK, UNCHANGED <<location, journal, entry, paths, run>>
  PROVE  RunsOK'
BY AskedFrame DEF RunsOK, Accepted

\* A relocation that is asked for keeps the runs of the new place out.
LEMMA NobodyIn ==
  ASSUME IInv, op.step \in {"queue"} \cup Working, UNCHANGED run
  PROVE  RunsOK'
BY DEF IInv, RequiredOK, RunsOK, Accepted

\* What is asked of the user is asked of a scheduled run.
LEMMA OfferedAsks ==
  ASSUME IInv, Required, Schedule # {}
  PROVE  RequiredHeadless
<1> SUFFICES ASSUME ~RequiredHeadless
             PROVE  FALSE
  OBVIOUS
<1>1. config = "old" /\ ~journal /\ location # "old" /\ Affected = {}
  BY DEF Required, RequiredHeadless, RecordedElsewhere
<1>2. Whole(entry, location, config)
  BY <1>1 DEF IInv, PlaceOK, Settled
<1> QED
  BY <1>1, <1>2 DEF Whole, Affected

LEMMA AffectedIsOld ==
  ASSUME IInv
  PROVE  Affected = {s \in Schedule : entry[s].root = "old"}
BY DEF IInv, NewOK, Affected, Types, RegistryType, Entries, Entry, Root

-----------------------------------------------------------------------------
(* Up to the first change *)

LEMMA ConfirmKeeps ==
  ASSUME IInv, Confirm
  PROVE  IInv'
<1>1. /\ op' = [Idle EXCEPT !.step = "queue", !.todo = Affected] /\ Required
      /\ UNCHANGED <<place, copied, files, registry, protected, run>>
  BY DEF Confirm, world
<1>2. Types'
  BY <1>1, IdleIs DEF IInv, Types, RegistryType, FilesType, registry, files, Affected
<1>3. /\ op'.step = "queue" /\ op'.states = <<>> /\ op'.errors = FALSE /\ op'.wrote = {}
  BY <1>1 DEF Idle
<1>4. HandOK' /\ TodoOK' /\ FilesOK' /\ BeforeOK'
  BY <1>3 DEF HandOK, InHand, At, TodoOK, FilesOK, BeforeOK, Rewriting, Forward
<1>5. PlaceOK' /\ OwnersOK' /\ NewOK' /\ Settled' /\ RunsOK'
  BY <1>1, StoresFrame, RunsFrame DEF IInv, files, registry
<1>6. RequiredOK'
  BY <1>1, OfferedAsks, AskedFrame DEF RequiredOK, files, registry
<1> QED
  BY <1>2, <1>4, <1>5, <1>6 DEF IInv

LEMMA TakeGuardKeeps ==
  ASSUME IInv, TakeGuard
  PROVE  IInv'
<1>1. /\ At("queue") /\ op' = [op EXCEPT !.step = "journal", !.before = Before, !.resumed = journal]
      /\ op.todo = Affected
      /\ UNCHANGED <<place, copied, files, registry, protected, run>>
  BY DEF TakeGuard, world
<1>2. Before \in BeforeType
  BY DEF IInv, Types, RegistryType, FilesType, Before, BeforeType
<1>3. Types'
  BY <1>1, <1>2 DEF IInv, Types, OpType, Working, RegistryType, FilesType, registry, files
<1>4. /\ op'.step = "journal" /\ op'.before = Before /\ op'.resumed = journal
      /\ op'.todo = op.todo /\ op'.states = <<>> /\ op'.errors = FALSE /\ op'.wrote = {}
  BY <1>1 DEF IInv, Types, OpType, TodoOK, At
<1>5. HandOK' /\ FilesOK' /\ TodoOK'
  BY <1>1, <1>4, AffectedIsOld
     DEF IInv, Types, RegistryType, Entries, Entry, Root, HandOK, InHand, FilesOK, TodoOK, At,
         Forward, registry
<1>6. BeforeOK'
  <2>1. /\ op'.before.entry = entry /\ op'.before.location = location
        /\ op'.before.config = config
    BY <1>4 DEF Before
  <2>2. IF op'.resumed THEN journal'
        ELSE IF place' = "folder"
             THEN Whole(op'.before.entry, op'.before.location, op'.before.config)
             ELSE op'.before.location # "old" /\ op'.before.config # "old"
    BY <1>1, <1>4, <2>1 DEF IInv, Settled, PlaceOK, files
  <2>3. StatesOK'
    BY <1>4 DEF StatesOK
  <2> QED
    BY <1>1, <1>2, <1>4, <2>1, <2>2, <2>3 DEF BeforeOK, files, registry, Whole, Forward
<1>7. PlaceOK' /\ OwnersOK' /\ NewOK' /\ Settled' /\ RunsOK'
  BY <1>1, StoresFrame, RunsFrame DEF IInv, files, registry
<1>8. RequiredOK'
  BY <1>1, AskedFrame DEF IInv, RequiredOK, At, files, registry
<1> QED
  BY <1>3, <1>5, <1>6, <1>7, <1>8 DEF IInv

\* The application is over, or dies, before, in the middle or at the end.
LEMMA RestKeeps ==
  ASSUME IInv, op' = Idle, protected' \in {{}, protected},
         UNCHANGED <<world, files, registry, run>>
  PROVE  IInv'
<1>1. UNCHANGED <<place, copied, location, retired, journal, config, entry, paths, file, task>>
  BY DEF world, files, registry
<1>2. Types'
  BY <1>1, IdleIs DEF IInv, Types, RegistryType, FilesType
<1>3. op'.step = "idle"
  BY DEF Idle
<1> QED
  BY <1>1, <1>2, <1>3, AtRest, StoresFrame, RunsFrame DEF IInv

-----------------------------------------------------------------------------
(* To a rollback *)

\* A state can be brought back after a step.
KeptAfter(state) ==
  LET e == state.entry IN
  /\ e.root = "old" /\ e.snap \in file' /\ e.snap \notin e.kept
  /\ SnapsOf(e) \subseteq SnapsOf(entry'[state.schedule])
  /\ op'.before.entry[state.schedule].root = "old"

LEMMA StatesAfter ==
  ASSUME StatesOK, op'.states = op.states, \A i \in DOMAIN op.states : KeptAfter(op.states[i])
  PROVE  StatesOK' /\ Captured' = Captured
BY DEF StatesOK, StateIsKept, KeptAfter, SnapsOf, Captured

LEMMA StatesFrame ==
  ASSUME StatesOK, op'.states = op.states, op'.before = op.before, entry' = entry,
         file \subseteq file'
  PROVE  StatesOK' /\ Captured' = Captured
<1>1. \A i \in DOMAIN op.states : KeptAfter(op.states[i])
  BY DEF StatesOK, StateIsKept, KeptAfter
<1> QED
  BY <1>1, StatesAfter

\* A step fails that is not the last.
LEMMA ToUndo ==
  ASSUME IInv, op.step \in Forward \cup {"journal"},
         NEW w \in SUBSET {"retired", "location"}, op.wrote \subseteq w,
         op' = [op EXCEPT !.step = "undo", !.wrote = w],
         UNCHANGED <<place, location, journal, config, entry, paths, run>>,
         Types', OwnersOK', NewOK', StatesOK'
  PROVE  IInv'
<1>1. /\ op'.step = "undo" /\ op'.states = op.states /\ op'.before = op.before
      /\ op'.resumed = op.resumed /\ op'.errors = op.errors /\ op'.wrote = w
  BY DEF IInv, Types, OpType
<1>2. HandOK' /\ TodoOK' /\ FilesOK'
  BY <1>1 DEF HandOK, InHand, TodoOK, FilesOK, At, Forward
<1>3. BeforeOK'
  <2>1. Captured' = Captured
    BY <1>1 DEF Captured
  <2>2. Rewriting /\ (op.step \in Forward \/ op.states # <<>> \/ op.errors => journal)
    BY DEF IInv, BeforeOK, Rewriting, Forward
  <2>3. op.states # <<>> \/ op.errors => journal
    BY <2>2
  <2> QED
    BY <1>1, <2>1, <2>2, <2>3 DEF IInv, BeforeOK, Whole, Forward
<1>4. RequiredOK'
  BY AskedFrame DEF IInv, RequiredOK, Working
<1>5. PlaceOK' /\ Settled' /\ RunsOK'
  BY NobodyIn DEF IInv, PlaceOK, Settled, Whole, Working
<1> QED
  BY <1>2, <1>3, <1>4, <1>5 DEF IInv

\* It changes nothing beside the step and what it has tried to write.
LEMMA GivesUp ==
  ASSUME IInv, op.step \in Forward \cup {"journal"},
         NEW w \in SUBSET {"retired", "location"}, op.wrote \subseteq w,
         op' = [op EXCEPT !.step = "undo", !.wrote = w],
         UNCHANGED <<world, files, registry, protected, run>>
  PROVE  IInv'
<1>1. UNCHANGED <<place, copied, location, retired, journal, config, entry, paths, file, task>>
  BY DEF world, files, registry
<1>2. op' \in OpType
  BY DEF IInv, Types, OpType, Working
<1>3. Types'
  BY <1>1, <1>2 DEF IInv, Types, RegistryType, FilesType
<1>4. OwnersOK' /\ NewOK'
  BY <1>1, StoresFrame DEF IInv, registry
<1>5. StatesOK'
  <2>1. op'.states = op.states /\ op'.before = op.before
    BY DEF IInv, Types, OpType
  <2>2. StatesOK
    BY DEF IInv, BeforeOK, Rewriting, Forward
  <2> QED
    BY <1>1, <2>1, <2>2, StatesFrame
<1> QED
  BY <1>1, <1>3, <1>4, <1>5, ToUndo

\* GivesUp, of a step that has not tried to write a location file.
LEMMA FailsKeeps ==
  ASSUME IInv, op.step \in Forward \cup {"journal"}, Go("undo"),
         UNCHANGED <<world, files, registry, protected, run>>
  PROVE  IInv'
<1>1. op' = [op EXCEPT !.step = "undo", !.wrote = op.wrote]
  BY DEF Go, IInv, Types, OpType
<1>2. op.wrote \in SUBSET {"retired", "location"}
  BY OpIs DEF IInv
<1> QED
  BY <1>1, <1>2, GivesUp

-----------------------------------------------------------------------------
(* The journal, the configuration and the location files *)

\* The journal is there, so the relocation is of a folder that was moved.
LEMMA Marked ==
  ASSUME IInv, op.step \in Forward
  PROVE  journal /\ place = "folder" /\ Rewriting /\ StatesOK
BY DEF IInv, BeforeOK, Rewriting, Forward, PlaceOK

LEMMA JournalKept ==
  ASSUME Types, PlaceOK', Settled', HandOK', TodoOK', FilesOK', BeforeOK', journal',
         Types', OwnersOK', NewOK', RunsOK'
  PROVE  IInv'
BY DEF IInv, RequiredOK, RequiredHeadless, RecordedElsewhere

LEMMA WriteJournalKeeps ==
  ASSUME IInv, WriteJournal
  PROVE  IInv'
<1>1. /\ At("journal") /\ op.step = "journal"
      /\ UNCHANGED <<world, location, retired, config, registry, protected, run>>
      /\ UNCHANGED <<place, copied, entry, paths, file, task>>
  BY DEF WriteJournal, At, world, registry
<1>2. CASE Go("undo") /\ UNCHANGED journal
  BY <1>1, <1>2, FailsKeeps DEF files
<1>3. CASE Go("next") /\ journal' = TRUE /\ (journal = TRUE \/ place = "folder")
  <2>1. op' = [op EXCEPT !.step = "next"]
    BY <1>3 DEF Go
  <2>2. Types' /\ PlaceOK' /\ Settled' /\ OwnersOK' /\ NewOK' /\ journal'
    <3>1. op' \in OpType
      BY <2>1 DEF IInv, Types, OpType, Working, Forward
    <3>2. journal' \in BOOLEAN
      BY <1>3
    <3>3. Types'
      BY <1>1, <3>1, <3>2 DEF IInv, Types, RegistryType, FilesType
    <3>4. PlaceOK' /\ Settled'
      BY <1>1, <1>3 DEF IInv, PlaceOK, Settled
    <3>5. OwnersOK' /\ NewOK'
      BY <1>1 DEF IInv, OwnersOK, NewOK, SnapsOf, TaskOf
    <3> QED
      BY <1>3, <3>3, <3>4, <3>5
  <2>3. /\ op'.step = "next" /\ op'.states = op.states /\ op'.before = op.before
        /\ op'.todo = op.todo /\ op'.resumed = op.resumed
        /\ op'.errors = op.errors /\ op'.wrote = op.wrote
    BY <2>1 DEF IInv, Types, OpType
  <2>4. HandOK' /\ FilesOK'
    BY <2>3 DEF HandOK, InHand, FilesOK, At
  <2>5. TodoOK'
    <3>1. Captured' = {}
      BY <1>1, <2>3 DEF IInv, TodoOK, Captured
    <3> QED
      BY <1>1, <2>3, <3>1 DEF IInv, TodoOK, At, Forward
  <2>6. BeforeOK'
    <3>1. Rewriting /\ BeforeOK
      BY <1>1 DEF IInv, Rewriting
    <3>2. StatesOK' /\ Captured' = Captured
      BY <1>1, <2>3, <3>1, StatesFrame DEF BeforeOK
    <3> QED
      BY <1>1, <1>3, <2>3, <3>1, <3>2 DEF BeforeOK, Whole
  <2> QED
    BY <1>1, <2>2, <2>4, <2>5, <2>6, NobodyIn, JournalKept DEF IInv, Working
<1>4. journal \in BOOLEAN
  BY DEF IInv, Types, FilesType
<1> QED
  BY <1>2, <1>3, <1>4 DEF WriteJournal, Resumable

\* A step on from one of the last steps, which write the files: of the relocation
\* only the step and what it wrote change, of the files not the journal.
LEMMA FilesStepKeeps ==
  ASSUME IInv, op.step \in {"next", "archive", "retire", "locate"}, op.todo = {},
         NEW step \in {"archive", "retire", "locate", "commit"},
         NEW w \in SUBSET {"retired", "location"}, op.wrote \subseteq w,
         op' = [op EXCEPT !.step = step, !.wrote = w],
         UNCHANGED <<place, copied, journal, paths, file, task, protected, run>>,
         location' \in Location, retired' \in BOOLEAN, config' \in Config,
         "location" \notin w => location' = location,
         entry' \in Entries,
         \A s \in Schedule :
           /\ entry'[s].snap = entry[s].snap /\ entry'[s].root = entry[s].root
           /\ entry'[s].enabled = entry[s].enabled /\ SnapsOf(entry'[s]) = SnapsOf(entry[s])
           /\ entry'[s].kept \subseteq entry[s].kept,
         FilesOK'
  PROVE  IInv'
<1>1. journal /\ place = "folder" /\ Rewriting /\ StatesOK
  BY Marked DEF Forward
<1>2. Types'
  <2>1. op' \in OpType
    BY DEF IInv, Types, OpType, Working, Forward
  <2> QED
    BY <2>1 DEF IInv, Types, RegistryType, FilesType
<1>3. PlaceOK' /\ Settled' /\ OwnersOK' /\ NewOK' /\ journal'
  <2>1. OwnersOK'
    BY DEF IInv, OwnersOK
  <2>2. NewOK'
    BY DEF IInv, NewOK, TaskOf
  <2> QED
    BY <1>1, <2>1, <2>2 DEF PlaceOK, Settled
<1>4. /\ op'.step = step /\ op'.states = op.states /\ op'.before = op.before /\ op'.todo = {}
      /\ op'.resumed = op.resumed /\ op'.errors = op.errors /\ op'.wrote = w
  BY DEF IInv, Types, OpType
<1>5. HandOK'
  BY <1>4 DEF HandOK, InHand, At
<1>6. StatesOK' /\ Captured' = Captured
  <2>1. \A i \in DOMAIN op.states : op.states[i].schedule \in Schedule
    BY StateIs DEF IInv
  <2>2. \A i \in DOMAIN op.states : KeptAfter(op.states[i])
    <3> TAKE i \in DOMAIN op.states
    <3>1. StateIsKept(op.states[i]) /\ op.states[i].schedule \in Schedule
      BY <1>1, <2>1 DEF StatesOK
    <3> QED
      BY <1>4, <3>1 DEF StateIsKept, KeptAfter
  <2> QED
    BY <1>1, <1>4, <2>2, StatesAfter
<1>7. TodoOK'
  BY <1>4 DEF IInv, TodoOK, InHand, At, Forward
<1>8. BeforeOK'
  BY <1>1, <1>4, <1>6 DEF IInv, BeforeOK, Whole, Forward
<1> QED
  BY <1>2, <1>3, <1>5, <1>6, <1>7, <1>8, NobodyIn, JournalKept DEF IInv, Working, Forward

LEMMA SaveConfigKeeps ==
  ASSUME IInv, SaveConfig
  PROVE  IInv'
<1>1. /\ At("next") /\ op.todo = {} /\ op.step = "next"
      /\ UNCHANGED <<world, location, retired, journal, registry, protected, run>>
      /\ UNCHANGED <<place, copied, entry, paths, file, task>>
  BY DEF SaveConfig, At, world, registry
<1>2. CASE Go("undo") /\ UNCHANGED config
  BY <1>1, <1>2, FailsKeeps DEF files, Forward
<1>3. CASE Go("archive") /\ config' = IF config = "old" THEN "new" ELSE config
  <2>1. op' = [op EXCEPT !.step = "archive", !.wrote = op.wrote] /\ op'.step = "archive"
    BY <1>3 DEF Go, IInv, Types, OpType
  <2>2. /\ op.wrote \in SUBSET {"retired", "location"} /\ location \in Location
        /\ retired \in BOOLEAN /\ config' \in Config /\ entry \in Entries
    BY <1>3, OpIs DEF IInv, Types, FilesType, RegistryType, Config
  <2>3. FilesOK'
    BY <1>3, <2>1 DEF FilesOK, At
  <2> QED
    BY <1>1, <2>1, <2>2, <2>3, FilesStepKeeps
<1> QED
  BY <1>2, <1>3 DEF SaveConfig

LEMMA ArchiveKeeps ==
  ASSUME IInv, Archive
  PROVE  IInv'
<1>1. /\ At("archive") /\ op.step = "archive" /\ op.todo = {}
      /\ UNCHANGED <<world, files, paths, file, task, protected, run>>
      /\ UNCHANGED <<place, copied, location, retired, journal, config>>
  BY DEF Archive, At, world, files, IInv, TodoOK
<1>2. CASE Go("undo") /\ UNCHANGED entry
  BY <1>1, <1>2, FailsKeeps DEF registry, Forward
<1>3. CASE /\ Go("retire")
           /\ entry' = [s \in Schedule |->
                [entry[s] EXCEPT !.archived = ArchivedOf(entry[s]),
                                 !.kept = @ \ ArchivedOf(entry[s])]]
  <2>1. op' = [op EXCEPT !.step = "retire", !.wrote = op.wrote] /\ op'.step = "retire"
    BY <1>3 DEF Go, IInv, Types, OpType
  <2>2. /\ op.wrote \in SUBSET {"retired", "location"} /\ location \in Location
        /\ retired \in BOOLEAN /\ config \in Config /\ entry \in Entries
    BY OpIs DEF IInv, Types, FilesType, RegistryType
  <2>3. \A s \in Schedule :
          /\ entry'[s] \in Entry
          /\ entry'[s].snap = entry[s].snap /\ entry'[s].root = entry[s].root
          /\ entry'[s].enabled = entry[s].enabled /\ SnapsOf(entry'[s]) = SnapsOf(entry[s])
          /\ entry'[s].kept \subseteq entry[s].kept
    <3> TAKE s \in Schedule
    <3> DEFINE e == entry[s]
               a == ArchivedOf(e)
    <3>1. e \in Entry
      BY <2>2 DEF Entries
    <3>2. e.archived \subseteq a /\ a \subseteq e.archived \cup e.kept
      BY DEF ArchivedOf
    <3>3. entry'[s] = [e EXCEPT !.archived = a, !.kept = e.kept \ a]
      BY <1>3, Zenon
    <3> HIDE DEF e, a
    <3>4. /\ entry'[s] \in Entry
          /\ entry'[s].snap = e.snap /\ entry'[s].root = e.root
          /\ entry'[s].enabled = e.enabled /\ entry'[s].kept = e.kept \ a
          /\ entry'[s].archived = a
      BY <3>1, <3>2, <3>3 DEF Entry
    <3>5. SnapsOf(entry'[s]) = SnapsOf(e)
      BY <3>2, <3>4 DEF SnapsOf
    <3> QED
      BY <3>4, <3>5 DEF e
  <2>4. entry' \in Entries
    BY <1>3, <2>3 DEF Entries
  <2>5. FilesOK'
    BY <1>1, <2>1 DEF IInv, FilesOK, At
  <2> QED
    BY <1>1, <2>1, <2>2, <2>3, <2>4, <2>5, FilesStepKeeps
<1> QED
  BY <1>2, <1>3 DEF Archive

LEMMA RetireKeeps ==
  ASSUME IInv, Retire
  PROVE  IInv'
<1> DEFINE w == op.wrote \cup {"retired"}
<1>1. /\ At("retire") /\ op.step = "retire" /\ op.todo = {}
      /\ UNCHANGED <<world, location, journal, config, registry, protected, run>>
      /\ UNCHANGED <<place, copied, entry, paths, file, task>>
      /\ w \in SUBSET {"retired", "location"} /\ op.wrote \subseteq w
  BY OpIs DEF Retire, At, world, registry, IInv, TodoOK
<1>2. CASE op' = [op EXCEPT !.step = "undo", !.wrote = w] /\ UNCHANGED retired
  BY <1>1, <1>2, GivesUp DEF files, Forward
<1>3. CASE op' = [op EXCEPT !.step = "locate", !.wrote = w] /\ retired' = (retired \/ copied)
  <2>1. op'.step = "locate"
    BY <1>3 DEF IInv, Types, OpType
  <2>2. /\ location \in Location /\ config \in Config /\ entry \in Entries
        /\ retired' \in BOOLEAN /\ (copied => retired')
    BY <1>3 DEF IInv, Types, FilesType, RegistryType
  <2>3. FilesOK'
    BY <1>1, <2>1, <2>2 DEF IInv, FilesOK, At
  <2> QED
    BY <1>1, <1>3, <2>2, <2>3, FilesStepKeeps
<1> QED
  BY <1>2, <1>3 DEF Retire

LEMMA LocateKeeps ==
  ASSUME IInv, Locate
  PROVE  IInv'
<1> DEFINE w == op.wrote \cup {"location"}
<1>1. /\ At("locate") /\ op.step = "locate" /\ op.todo = {}
      /\ UNCHANGED <<world, retired, journal, config, registry, protected, run>>
      /\ UNCHANGED <<place, copied, entry, paths, file, task>>
      /\ w \in SUBSET {"retired", "location"} /\ op.wrote \subseteq w
  BY OpIs DEF Locate, At, world, registry, IInv, TodoOK
<1>2. CASE op' = [op EXCEPT !.step = "undo", !.wrote = w] /\ UNCHANGED location
  BY <1>1, <1>2, GivesUp DEF files, Forward
<1>3. CASE op' = [op EXCEPT !.step = "commit", !.wrote = w] /\ location' = "new"
  <2>1. op'.step = "commit"
    BY <1>3 DEF IInv, Types, OpType
  <2>2. /\ location' \in Location /\ config \in Config /\ entry \in Entries /\ retired \in BOOLEAN
    BY <1>3 DEF IInv, Types, FilesType, RegistryType, Location
  <2>3. FilesOK'
    BY <1>1, <1>3, <2>1 DEF IInv, FilesOK, At
  <2> QED
    BY <1>1, <1>3, <2>2, <2>3, FilesStepKeeps
<1> QED
  BY <1>2, <1>3 DEF Locate

LEMMA CommitKeeps ==
  ASSUME IInv, Commit
  PROVE  IInv'
<1>1. /\ At("commit") /\ op.step = "commit"
      /\ UNCHANGED <<world, location, retired, config, registry, run>>
      /\ UNCHANGED <<place, copied, entry, paths, file, task>>
  BY DEF Commit, At, world, registry
<1>2. CASE Go("undo") /\ UNCHANGED <<journal, protected>>
  BY <1>1, <1>2, FailsKeeps DEF files, Forward
<1>3. CASE Go("done") /\ journal' = FALSE /\ protected' = {}
  <2>1. op' = [op EXCEPT !.step = "done"] /\ op'.step = "done"
    BY <1>3 DEF Go, IInv, Types, OpType
  <2>2. Types'
    <3>1. op' \in OpType
      BY <2>1 DEF IInv, Types, OpType
    <3> QED
      BY <1>1, <1>3, <3>1 DEF IInv, Types, RegistryType, FilesType
  <2>3. \A s \in Schedule : entry[s].root = "new"
    BY <1>1 DEF IInv, TodoOK, InHand, Forward, Types, RegistryType, Entries, Entry, Root
  <2>4. config # "old" /\ (copied => retired) /\ location = "new"
    BY <1>1 DEF IInv, FilesOK
  <2>5. FilesOK' /\ Settled' /\ PlaceOK'
    BY <1>1, <1>3, <2>1, <2>3, <2>4 DEF IInv, FilesOK, Settled, PlaceOK, Whole, At
  <2>6. HandOK' /\ TodoOK' /\ BeforeOK' /\ RequiredOK'
    BY <2>1 DEF HandOK, InHand, TodoOK, BeforeOK, Rewriting, RequiredOK, At, Forward, Working
  <2>7. OwnersOK' /\ NewOK' /\ RunsOK'
    BY <1>1, NobodyIn DEF IInv, OwnersOK, NewOK, SnapsOf, TaskOf, Working, Forward
  <2> QED
    BY <2>2, <2>5, <2>6, <2>7 DEF IInv
<1> QED
  BY <1>2, <1>3 DEF Commit

-----------------------------------------------------------------------------
(* The schedules *)

LEMMA Appended ==
  ASSUME Types, NEW state \in State, op'.states = Append(op.states, state)
  PROVE  /\ op'.states \in Seq(State) /\ op'.states # <<>> /\ Last(op'.states) = state
         /\ Captured' = Captured \cup {state.schedule}
         /\ DOMAIN op'.states = DOMAIN op.states \cup {Len(op.states) + 1}
         /\ \A i \in DOMAIN op.states : i # Len(op.states) + 1 /\ op'.states[i] = op.states[i]
         /\ op'.states[Len(op.states) + 1] = state
<1>1. op.states \in Seq(State)
  BY OpIs
<1>2. /\ op'.states \in Seq(State) /\ Len(op'.states) = Len(op.states) + 1
      /\ op'.states # <<>> /\ op'.states[Len(op.states) + 1] = state
      /\ \A i \in 1 .. Len(op.states) : op'.states[i] = op.states[i]
  BY <1>1
<1>3. DOMAIN op.states = 1 .. Len(op.states) /\ DOMAIN op'.states = 1 .. Len(op.states) + 1
  BY <1>1, <1>2
<1>4. Len(op.states) \in Nat
  BY <1>1
<1>5. /\ DOMAIN op'.states = DOMAIN op.states \cup {Len(op.states) + 1}
      /\ \A i \in DOMAIN op.states : i # Len(op.states) + 1 /\ op'.states[i] = op.states[i]
  BY <1>2, <1>3, <1>4
<1>6. Captured' = Captured \cup {state.schedule}
  BY <1>2, <1>5 DEF Captured
<1> QED
  BY <1>2, <1>5, <1>6 DEF Last

LEMMA CaptureKeeps ==
  ASSUME IInv, Capture
  PROVE  IInv'
<1>1. PICK s \in op.todo :
        /\ op' = [op EXCEPT !.step = "task", !.schedule = s, !.todo = @ \ {s},
                            !.new = None, !.states = Append(@, StateOf(s))]
        /\ protected' = protected \cup SnapsOf(entry[s])
  BY DEF Capture
<1>2. /\ At("next") /\ op.step = "next" /\ s \in Schedule
      /\ UNCHANGED <<place, copied, location, retired, journal, config>>
      /\ UNCHANGED <<entry, paths, file, task, run>>
  BY OpIs DEF Capture, At, world, files, registry, IInv
<1>3. journal /\ place = "folder" /\ Rewriting /\ StatesOK
  BY <1>2, Marked DEF Forward
<1>4. StateOf(s) \in State /\ entry[s] \in Entry /\ SnapsOf(entry[s]) \subseteq Snap
      /\ StateOf(s).schedule = s /\ StateOf(s).entry = entry[s]
  BY <1>2 DEF IInv, Types, RegistryType, Entries, Entry, Tasks, StateOf, State, SnapsOf
<1>5. /\ op'.step = "task" /\ op'.schedule = s /\ op'.todo = op.todo \ {s}
      /\ op'.states = Append(op.states, StateOf(s)) /\ op'.before = op.before
      /\ op'.resumed = op.resumed /\ op'.errors = op.errors /\ op'.wrote = op.wrote
  BY <1>1 DEF IInv, Types, OpType
<1>6. /\ op'.states \in Seq(State) /\ op'.states # <<>> /\ Last(op'.states) = StateOf(s)
      /\ Captured' = Captured \cup {s}
      /\ DOMAIN op'.states = DOMAIN op.states \cup {Len(op.states) + 1}
      /\ \A i \in DOMAIN op.states : i # Len(op.states) + 1 /\ op'.states[i] = op.states[i]
      /\ op'.states[Len(op.states) + 1] = StateOf(s)
  BY <1>4, <1>5, Appended DEF IInv
<1>7. s \notin Captured /\ entry[s].root = "old" /\ ~op.errors
  BY <1>2 DEF IInv, TodoOK, Forward
<1>8. op.before.entry[s].root = "old"
  BY <1>2, <1>3, <1>7 DEF IInv, BeforeOK
<1>9. Types'
  <2>1. op' \in OpType
    BY <1>1, <1>2, <1>5, <1>6 DEF IInv, Types, OpType, Working, Forward
  <2> QED
    BY <1>1, <1>2, <1>4, <2>1 DEF IInv, Types, RegistryType, FilesType
<1>10. PlaceOK' /\ Settled' /\ OwnersOK' /\ NewOK'
  BY <1>2, <1>3, StoresFrame DEF IInv, registry
<1>11. HandOK'
  BY <1>2, <1>4, <1>5, <1>6, <1>7 DEF HandOK, InHand, At
<1>12. TodoOK' /\ FilesOK'
  BY <1>2, <1>5, <1>6, <1>7 DEF IInv, TodoOK, FilesOK, InHand, At, Forward
<1>13. StatesOK'
  <2>1. \A i \in DOMAIN op.states : KeptAfter(op.states[i])
    BY <1>2, <1>3, <1>5 DEF StatesOK, StateIsKept, KeptAfter
  <2>2. KeptAfter(StateOf(s))
    BY <1>2, <1>4, <1>5, <1>7, <1>8 DEF IInv, OwnersOK, KeptAfter
  <2>3. \A i \in DOMAIN op'.states : KeptAfter(op'.states[i])
    BY <1>6, <2>1, <2>2
  <2>4. \A i \in DOMAIN op.states : op.states[i].schedule # s
    BY <1>7 DEF Captured
  <2>5. \A i, j \in DOMAIN op'.states :
          i # j => op'.states[i].schedule # op'.states[j].schedule
    BY <1>3, <1>4, <1>6, <2>4 DEF StatesOK
  <2> QED
    BY <2>3, <2>5 DEF StatesOK, StateIsKept, KeptAfter, SnapsOf
<1>14. BeforeOK'
  BY <1>2, <1>3, <1>5, <1>6, <1>13 DEF IInv, BeforeOK, Whole
<1> QED
  BY <1>2, <1>3, <1>9, <1>10, <1>11, <1>12, <1>14, NobodyIn, JournalKept DEF IInv, Working, Forward

LEMMA CaptureFailsKeeps ==
  ASSUME IInv, CaptureFails
  PROVE  IInv'
BY FailsKeeps DEF CaptureFails, At, Forward

LEMMA ReplaceFailsKeeps ==
  ASSUME IInv, ReplaceFails
  PROVE  IInv'
BY FailsKeeps DEF ReplaceFails, At, Forward

LEMMA ReplaceTaskKeeps ==
  ASSUME IInv, ReplaceTask
  PROVE  IInv'
<1> DEFINE s == op.schedule
           n == SnapFor(s)
<1>1. /\ At("task") /\ op.step = "task"
      /\ op' = [op EXCEPT !.step = "put", !.new = n]
      /\ task' = [task EXCEPT ![s] =
           IF entry[s].enabled THEN [snap |-> n, root |-> "new"] ELSE None]
      /\ UNCHANGED <<place, copied, location, retired, journal, config, entry, protected, run>>
  BY DEF ReplaceTask, At, world, files
<1>2. journal /\ place = "folder" /\ Rewriting /\ StatesOK
  BY <1>1, Marked DEF Forward
<1>3. s \in Schedule /\ entry[s] \in Entry /\ entry[s].root = "old" /\ task \in Tasks
      /\ op.states # <<>> /\ Last(op.states).schedule = s
  BY <1>1 DEF IInv, HandOK, InHand, Types, RegistryType, Entries
<1>4. /\ n \in Snap /\ n \in file' /\ file \subseteq file' /\ file' \subseteq Snap
      /\ paths' \in [Snap -> Config] /\ paths'[n] # "old"
      /\ n = entry[s].snap \/ \A t \in Schedule : n \notin SnapsOf(entry[t])
      /\ \A k \in Snap : k # n => paths'[k] = paths[k]
      /\ \A t \in Schedule : paths[entry[t].snap] # "old" => paths'[entry[t].snap] # "old"
  <2>1. CASE Moved(s)
    <3>1. n = Fresh /\ Unused # {}
      BY <2>1 DEF ReplaceTask, SnapFor
    <3>2. n \in Unused
      BY <3>1 DEF Fresh
    <3>3. n \in Snap /\ \A t \in Schedule : n \notin SnapsOf(entry[t])
      BY <3>2 DEF Unused
    <3>4. file' = file \cup {n} /\ paths' = [paths EXCEPT ![n] = "new"]
      BY <2>1 DEF ReplaceTask
    <3>5. paths \in [Snap -> Config] /\ file \subseteq Snap
      BY DEF IInv, Types, RegistryType
    <3> HIDE DEF n
    <3> QED
      BY <3>3, <3>4, <3>5 DEF Config
  <2>2. CASE ~Moved(s)
    <3>1. n = entry[s].snap /\ UNCHANGED <<file, paths>>
      BY <2>2 DEF ReplaceTask, SnapFor
    <3>2. paths[n] # "old"
      BY <1>2, <2>2, <3>1 DEF Moved
    <3> HIDE DEF n
    <3> QED
      BY <1>3, <3>1, <3>2 DEF IInv, Types, RegistryType, OwnersOK, Entry
  <2> QED
    BY <2>1, <2>2
<1> HIDE DEF n
<1>5. /\ op'.step = "put" /\ op'.schedule = s /\ op'.todo = op.todo /\ op'.new = n
      /\ op'.states = op.states /\ op'.before = op.before
      /\ op'.resumed = op.resumed /\ op'.errors = op.errors /\ op'.wrote = op.wrote
  BY <1>1 DEF IInv, Types, OpType
<1>6. /\ task' \in Tasks
      /\ task'[s] = IF entry[s].enabled THEN [snap |-> n, root |-> "new"] ELSE None
      /\ \A t \in Schedule : t # s => task'[t] = task[t]
  BY <1>1, <1>3, <1>4 DEF Tasks, Task, Root
<1>7. Types'
  <2>1. op' \in OpType
    BY <1>1, <1>4 DEF IInv, Types, OpType, Working, Forward
  <2> QED
    BY <1>1, <1>4, <1>6, <2>1 DEF IInv, Types, RegistryType, FilesType
<1>8. PlaceOK' /\ Settled' /\ OwnersOK'
  BY <1>1, <1>2, <1>4 DEF IInv, PlaceOK, Settled, OwnersOK, SnapsOf
<1>9. NewOK'
  BY <1>1, <1>3, <1>4, <1>6 DEF IInv, NewOK, TaskOf
<1>10. HandOK'
  <2>1. [entry[s] EXCEPT !.snap = n].enabled = entry[s].enabled
        /\ [entry[s] EXCEPT !.snap = n].snap = n
    BY <1>3 DEF Entry
  <2> QED
    BY <1>1, <1>3, <1>4, <1>5, <1>6, <2>1 DEF HandOK, InHand, At, SnapsOf, TaskOf
<1>11. StatesOK' /\ Captured' = Captured
  BY <1>1, <1>2, <1>4, <1>5, StatesFrame
<1>12. TodoOK' /\ FilesOK'
  BY <1>1, <1>5, <1>11 DEF IInv, TodoOK, FilesOK, InHand, At, Forward
<1>13. BeforeOK'
  BY <1>1, <1>2, <1>5, <1>11 DEF IInv, BeforeOK, Whole
<1> QED
  BY <1>1, <1>2, <1>7, <1>8, <1>9, <1>10, <1>12, <1>13, NobodyIn, JournalKept
     DEF IInv, Working, Forward

LEMMA PutEntryKeeps ==
  ASSUME IInv, PutEntry
  PROVE  IInv'
<1> DEFINE s == op.schedule
           e == entry[s]
           n == op.new
           f == entry'[s]
<1>1. /\ At("put") /\ op.step = "put" /\ op' = [op EXCEPT !.step = "next"]
      /\ UNCHANGED <<place, copied, location, retired, journal, config, paths, file, task,
                     protected, run>>
      /\ entry' = [entry EXCEPT ![s] =
           [e EXCEPT !.snap = n, !.root = "new",
                     !.kept = IF n = e.snap THEN @ ELSE @ \cup {e.snap}]]
  BY DEF PutEntry, At, Go, world, files
<1>2. journal /\ place = "folder" /\ Rewriting /\ StatesOK
  BY <1>1, Marked DEF Forward
<1>3. /\ s \in Schedule /\ e \in Entry /\ e.root = "old" /\ entry \in Entries
      /\ op.states # <<>> /\ Last(op.states).schedule = s
      /\ n \in file /\ n \in Snap /\ paths[n] # "old"
      /\ n = e.snap \/ \A t \in Schedule : n \notin SnapsOf(entry[t])
      /\ task[s] = TaskOf([e EXCEPT !.snap = n])
  BY <1>1 DEF IInv, HandOK, InHand, Types, RegistryType, Entries
<1>4. /\ f \in Entry /\ f.snap = n /\ f.root = "new" /\ f.enabled = e.enabled
      /\ f.kept = (IF n = e.snap THEN e.kept ELSE e.kept \cup {e.snap})
      /\ f.archived = e.archived
      /\ entry' \in Entries
      /\ \A t \in Schedule : t # s => entry'[t] = entry[t]
  <2>1. f = [e EXCEPT !.snap = n, !.root = "new",
                      !.kept = IF n = e.snap THEN e.kept ELSE e.kept \cup {e.snap}]
    BY <1>1, <1>3 DEF Entries
  <2>2. f \in Entry
    <3> DEFINE k == IF n = e.snap THEN e.kept ELSE e.kept \cup {e.snap}
    <3>1. k \in SUBSET Snap
      BY <1>3 DEF Entry
    <3>2. f = [e EXCEPT !.snap = n, !.root = "new", !.kept = k]
      BY <2>1
    <3> HIDE DEF e, f, k
    <3> QED
      BY <1>3, <3>1, <3>2 DEF Entry, Root
  <2>3. entry' \in Entries /\ \A t \in Schedule : t # s => entry'[t] = entry[t]
    BY <1>1, <1>3, <2>2 DEF Entries
  <2> QED
    BY <1>3, <2>1, <2>2, <2>3 DEF Entry
<1>5. /\ SnapsOf(e) \subseteq SnapsOf(f) /\ SnapsOf(f) = SnapsOf(e) \cup {n} /\ n \notin f.kept
  <2>1. e.snap \notin e.kept
    BY <1>3 DEF IInv, OwnersOK
  <2> QED
    BY <1>3, <1>4, <2>1 DEF SnapsOf
<1>6. /\ op'.step = "next" /\ op'.schedule = s /\ op'.todo = op.todo
      /\ op'.states = op.states /\ op'.before = op.before
      /\ op'.resumed = op.resumed /\ op'.errors = op.errors /\ op'.wrote = op.wrote
  BY <1>1 DEF IInv, Types, OpType
<1>7. task[s] = TaskOf(f)
  <2>1. [e EXCEPT !.snap = n].enabled = e.enabled /\ [e EXCEPT !.snap = n].snap = n
    BY <1>3 DEF Entry
  <2> QED
    BY <1>3, <1>4, <2>1 DEF TaskOf
<1> HIDE DEF n, e, f
<1>8. Types'
  <2>1. op' \in OpType
    BY <1>1 DEF IInv, Types, OpType, Working, Forward
  <2> QED
    BY <1>1, <1>4, <2>1 DEF IInv, Types, RegistryType, FilesType
<1>9. PlaceOK' /\ Settled'
  BY <1>1, <1>2 DEF IInv, PlaceOK, Settled
<1>10. OwnersOK'
  <2>1. \A t \in Schedule : entry'[t].snap \in file' /\ entry'[t].snap \notin entry'[t].kept
    BY <1>1, <1>3, <1>4, <1>5 DEF IInv, OwnersOK, f
  <2>2. \A t \in Schedule \ {s} : SnapsOf(entry[t]) \cap SnapsOf(f) = {}
    <3>1. \A t \in Schedule \ {s} : SnapsOf(entry[t]) \cap SnapsOf(e) = {}
      BY <1>3 DEF IInv, OwnersOK, e
    <3>2. n \in SnapsOf(e) \/ \A t \in Schedule : n \notin SnapsOf(entry[t])
      BY <1>3 DEF SnapsOf
    <3> QED
      BY <1>5, <3>1, <3>2
  <2>3. \A t \in Schedule : SnapsOf(entry[t])' = SnapsOf(entry'[t])
    BY DEF SnapsOf
  <2>4. \A t, u \in Schedule : t # u => SnapsOf(entry'[t]) \cap SnapsOf(entry'[u]) = {}
    BY <1>4, <2>2 DEF IInv, OwnersOK, f
  <2> QED
    BY <2>1, <2>3, <2>4 DEF OwnersOK
<1>11. NewOK'
  BY <1>1, <1>3, <1>4, <1>7 DEF IInv, NewOK, f, TaskOf
<1>12. HandOK' /\ FilesOK'
  BY <1>6 DEF HandOK, FilesOK, InHand, At
<1>13. StatesOK' /\ Captured' = Captured /\ s \in Captured
  <2>1. \A i \in DOMAIN op.states : op.states[i].schedule \in Schedule
    BY StateIs DEF IInv
  <2>2. \A t \in Schedule : SnapsOf(entry[t]) \subseteq SnapsOf(entry'[t])
    BY <1>4, <1>5 DEF e, f
  <2>3. \A i \in DOMAIN op.states : KeptAfter(op.states[i])
    BY <1>1, <1>2, <1>6, <2>1, <2>2 DEF StatesOK, StateIsKept, KeptAfter
  <2>4. StatesOK' /\ Captured' = Captured
    BY <1>2, <1>6, <2>3, StatesAfter
  <2>5. Len(op.states) \in DOMAIN op.states
    BY <1>3, OpIs DEF IInv
  <2> QED
    BY <1>3, <2>4, <2>5 DEF Captured, Last
<1>14. TodoOK'
  <2>1. s \notin op.todo
    BY <1>1, <1>13 DEF IInv, TodoOK, Forward
  <2>2. op'.step \in Forward /\ ~op.errors /\ op.todo \cap Captured = {}
    BY <1>1, <1>6 DEF IInv, TodoOK, Forward
  <2>3. /\ \A t \in Schedule \ op.todo : entry'[t].root # "old"
        /\ \A t \in op.todo : entry'[t].root = "old"
    <3>1. /\ \A t \in Schedule \ op.todo : entry[t].root = "old" => t = s
          /\ \A t \in op.todo : t \in Schedule /\ entry[t].root = "old"
      BY <1>1, OpIs DEF IInv, TodoOK, Forward
    <3> QED
      BY <1>4, <2>1, <3>1 DEF f
  <2> QED
    BY <1>6, <1>13, <2>2, <2>3 DEF TodoOK, At
<1>15. BeforeOK'
  BY <1>1, <1>2, <1>4, <1>6, <1>13 DEF IInv, BeforeOK, Whole
<1> QED
  BY <1>1, <1>2, <1>8, <1>9, <1>10, <1>11, <1>12, <1>14, <1>15, NobodyIn, JournalKept
     DEF IInv, Working, Forward

LEMMA PutFailsKeeps ==
  ASSUME IInv, PutFails
  PROVE  IInv'
<1> DEFINE s == op.schedule
           n == op.new
<1>1. /\ At("put") /\ op.step = "put" /\ op.step \in Forward
      /\ op' = [op EXCEPT !.step = "undo", !.wrote = op.wrote]
      /\ UNCHANGED <<place, copied, location, retired, journal, config, entry, paths,
                     protected, run>>
  BY DEF PutFails, At, Go, world, files, Forward, IInv, Types, OpType
<1>2. journal /\ place = "folder" /\ Rewriting /\ StatesOK
  BY <1>1, Marked
<1>3. /\ s \in Schedule /\ entry[s].root = "old" /\ op.states # <<>>
      /\ n = entry[s].snap \/ \A t \in Schedule : n \notin SnapsOf(entry[t])
      /\ task \in Tasks /\ file \subseteq Snap /\ op.wrote \in SUBSET {"retired", "location"}
  BY <1>1, OpIs DEF IInv, HandOK, InHand, Types, RegistryType
<1>4. Len(op.states) \in DOMAIN op.states
  BY <1>3, OpIs DEF IInv
<1>5. Last(op.states).task \in Task \cup {None}
  BY <1>4, StateIs DEF IInv, Last
<1>6. /\ task' \in Tasks /\ \A t \in Schedule : t # s => task'[t] = task[t]
      /\ file' \subseteq file
      /\ \A t \in Schedule : \A k \in SnapsOf(entry[t]) : k \in file => k \in file'
  <2>1. CASE UNCHANGED <<task, file>>
    BY <1>3, <2>1
  <2>2. CASE /\ task' = [task EXCEPT ![s] = Last(op.states).task]
             /\ file' = IF n = entry[s].snap THEN file ELSE file \ {n}
    BY <1>3, <1>5, <2>2 DEF Tasks
  <2> QED
    BY <2>1, <2>2 DEF PutFails
<1>7. Types'
  <2>1. op' \in OpType
    BY <1>1 DEF IInv, Types, OpType, Working
  <2> QED
    BY <1>1, <1>3, <1>6, <2>1 DEF IInv, Types, RegistryType, FilesType
<1>8. OwnersOK' /\ NewOK'
  BY <1>1, <1>3, <1>6 DEF IInv, OwnersOK, NewOK, SnapsOf, TaskOf
<1>9. StatesOK'
  <2>1. op'.states = op.states /\ op'.before = op.before
    BY <1>1 DEF IInv, Types, OpType
  <2>2. \A i \in DOMAIN op.states : op.states[i].schedule \in Schedule
    BY StateIs DEF IInv
  <2>3. \A i \in DOMAIN op.states : KeptAfter(op.states[i])
    <3> TAKE i \in DOMAIN op.states
    <3>1. StateIsKept(op.states[i])
      BY <1>2 DEF StatesOK
    <3>2. op.states[i].entry.snap \in SnapsOf(entry[op.states[i].schedule])
      BY <3>1 DEF StateIsKept, SnapsOf
    <3> QED
      BY <1>1, <1>6, <2>1, <2>2, <3>1, <3>2 DEF StateIsKept, KeptAfter
  <2> QED
    BY <1>2, <2>1, <2>3, StatesAfter
<1> QED
  BY <1>1, <1>3, <1>7, <1>8, <1>9, ToUndo

-----------------------------------------------------------------------------
(* The rollback *)

LEMMA Shortened ==
  ASSUME Types, op.states # <<>>, op'.states = Front(op.states)
  PROVE  /\ op'.states \in Seq(State)
         /\ Len(op.states) \in DOMAIN op.states
         /\ \A i \in DOMAIN op'.states :
              i \in DOMAIN op.states /\ i # Len(op.states) /\ op'.states[i] = op.states[i]
         /\ \A i \in DOMAIN op.states : i # Len(op.states) => i \in DOMAIN op'.states
         /\ Captured = Captured' \cup {Last(op.states).schedule}
<1> DEFINE n == Len(op.states)
<1>1. op.states \in Seq(State) /\ n \in Nat /\ n # 0
  BY OpIs
<1>2. /\ op'.states = SubSeq(op.states, 1, n - 1)
      /\ op'.states \in Seq(State) /\ Len(op'.states) = n - 1
      /\ \A i \in 1 .. n - 1 : op'.states[i] = op.states[i]
  BY <1>1 DEF Front
<1>3. DOMAIN op.states = 1 .. n /\ DOMAIN op'.states = 1 .. n - 1
  BY <1>1, <1>2
<1>4. /\ n \in DOMAIN op.states
      /\ \A i \in DOMAIN op'.states :
           i \in DOMAIN op.states /\ i # n /\ op'.states[i] = op.states[i]
      /\ \A i \in DOMAIN op.states : i # n => i \in DOMAIN op'.states
  BY <1>1, <1>2, <1>3
<1>5. Captured = Captured' \cup {op.states[n].schedule}
  <2>1. \A i \in DOMAIN op.states : op.states[i].schedule \in Captured' \cup {op.states[n].schedule}
    BY <1>4 DEF Captured
  <2> QED
    BY <1>4, <2>1 DEF Captured
<1> QED
  BY <1>2, <1>4, <1>5 DEF Last

LEMMA UndoScheduleKeeps ==
  ASSUME IInv, UndoSchedule
  PROVE  IInv'
<1> DEFINE state == Last(op.states)
           s == state.schedule
           e == state.entry
           current == entry[s] = e /\ task[s] = state.task
<1>1. /\ At("undo") /\ op.step = "undo" /\ op.states # <<>> /\ protected' \subseteq protected
      /\ UNCHANGED <<place, copied, location, retired, journal, config, paths, run>>
  BY DEF UndoSchedule, Release, RestoredBy, At, world, files, registry
<1>2. journal /\ place = "folder" /\ Rewriting /\ StatesOK /\ BeforeOK
  BY <1>1 DEF IInv, BeforeOK, Rewriting, PlaceOK
<1>3. \/ op' = [op EXCEPT !.states = Front(@)] /\ op'.errors = op.errors
      \/ /\ op' = [op EXCEPT !.states = Front(@), !.errors = TRUE] /\ op'.errors = TRUE
         /\ UNCHANGED registry
  BY DEF UndoSchedule, IInv, Types, OpType
<1>4. /\ op'.step = "undo" /\ op'.states = Front(op.states) /\ op'.before = op.before
      /\ op'.resumed = op.resumed /\ op'.wrote = op.wrote /\ op'.errors \in BOOLEAN
  BY <1>1, <1>3 DEF IInv, Types, OpType
<1>5. /\ op'.states \in Seq(State) /\ Len(op.states) \in DOMAIN op.states
      /\ \A i \in DOMAIN op'.states :
           i \in DOMAIN op.states /\ i # Len(op.states) /\ op'.states[i] = op.states[i]
      /\ Captured = Captured' \cup {s}
  BY <1>1, <1>4, Shortened DEF IInv
<1>6. state \in State /\ s \in Schedule /\ e \in Entry /\ state.task \in Task \cup {None}
  BY <1>5, StateIs DEF IInv, Last
<1>7. /\ e.root = "old" /\ e.snap \in file /\ e.snap \notin e.kept
      /\ SnapsOf(e) \subseteq SnapsOf(entry[s]) /\ op.before.entry[s].root = "old"
  BY <1>2, <1>5 DEF StatesOK, StateIsKept, Last
<1>8. \A i \in DOMAIN op'.states : op.states[i].schedule \in Schedule \ {s}
  BY <1>2, <1>5, StateIs DEF IInv, StatesOK, Last
<1>9. entry \in Entries /\ task \in Tasks /\ file \subseteq Snap
  BY DEF IInv, Types, RegistryType
\* Whatever is done, the schedule is as it was or as captured, and the others are left alone.
<1>10. /\ entry' \in Entries /\ task' \in Tasks /\ file' \subseteq file
       /\ \A t \in Schedule : t # s => entry'[t] = entry[t] /\ task'[t] = task[t]
       /\ \/ entry' = entry /\ task' = task /\ file' = file
          \/ entry'[s] = e /\ \A k \in file : k \in file' \/ (k = entry[s].snap /\ k # e.snap)
  <2>1. CASE UNCHANGED registry
    BY <1>9, <2>1 DEF registry
  <2>2. CASE RestoredBy(state)
    <3>1. /\ entry' = [entry EXCEPT ![s] = e]
          /\ file' = IF entry[s].snap = e.snap THEN file ELSE file \ {entry[s].snap}
      BY <2>2 DEF RestoredBy
    <3>2. [snap |-> e.snap, root |-> e.root] \in Task
      BY <1>6 DEF Task, Entry
    <3>3. PICK new \in Task \cup {None} : task' = [task EXCEPT ![s] = new]
      BY <1>6, <2>2, <3>2 DEF RestoredBy
    <3> HIDE DEF s, e
    <3> QED
      BY <1>6, <1>9, <3>1, <3>3 DEF Entries, Tasks
  <2> QED
    BY <2>1, <2>2 DEF UndoSchedule
<1>11. op'.errors \/ entry'[s].root = "old" \/ entry'[s].root = op.before.entry[s].root
  <2>1. CASE op'.errors = TRUE
    BY <2>1
  <2>2. CASE current
    BY <1>7, <1>10, <2>2
  <2>3. CASE RestoredBy(state)
    BY <1>6, <1>7, <1>9, <2>3 DEF RestoredBy, Entries
  <2>4. op' = [op EXCEPT !.states = Front(@), !.errors = TRUE] => op'.errors = TRUE
    BY DEF IInv, Types, OpType
  <2>5. current \/ RestoredBy(state) \/ op' = [op EXCEPT !.states = Front(@), !.errors = TRUE]
    BY DEF UndoSchedule
  <2> QED
    BY <2>1, <2>2, <2>3, <2>4, <2>5
<1> HIDE DEF state, s, e, current
<1>12. Types'
  <2>1. op' \in OpType
    <3> DEFINE front == Front(op.states)
    <3>1. front \in Seq(State) /\ op \in OpType
      BY <1>4, <1>5 DEF IInv, Types
    <3>2. op' = [op EXCEPT !.states = front] \/ op' = [op EXCEPT !.states = front, !.errors = TRUE]
      BY <1>3
    <3> HIDE DEF front
    <3>3. CASE op' = [op EXCEPT !.states = front]
      BY <3>1, <3>3 DEF OpType
    <3>4. CASE op' = [op EXCEPT !.states = front, !.errors = TRUE]
      BY <3>1, <3>4 DEF OpType
    <3> QED
      BY <3>2, <3>3, <3>4
  <2> QED
    BY <1>1, <1>10, <2>1 DEF IInv, Types, RegistryType, FilesType
<1>13. OwnersOK'
  <2>1. \A t \in Schedule : SnapsOf(entry'[t]) \subseteq SnapsOf(entry[t])
    BY <1>7, <1>10
  <2>2. \A t \in Schedule : entry'[t].snap \in file' /\ entry'[t].snap \notin entry'[t].kept
    <3> TAKE t \in Schedule
    <3>1. CASE t = s
      BY <1>6, <1>7, <1>10, <3>1 DEF IInv, OwnersOK
    <3>2. CASE t # s
      <4>1. entry[t].snap # entry[s].snap
        BY <1>6, <3>2 DEF IInv, OwnersOK, SnapsOf
      <4> QED
        BY <1>6, <1>10, <3>2, <4>1 DEF IInv, OwnersOK
    <3> QED
      BY <3>1, <3>2
  <2>3. \A t, u \in Schedule : t # u => SnapsOf(entry'[t]) \cap SnapsOf(entry'[u]) = {}
    BY <2>1 DEF IInv, OwnersOK
  <2> QED
    BY <2>2, <2>3 DEF OwnersOK, SnapsOf
<1>14. NewOK'
  BY <1>1, <1>6, <1>7, <1>10 DEF IInv, NewOK, TaskOf
<1>15. StatesOK'
  <2>1. \A i \in DOMAIN op'.states : KeptAfter(op'.states[i])
    <3> TAKE i \in DOMAIN op'.states
    <3>1. /\ op'.states[i] = op.states[i] /\ StateIsKept(op.states[i])
          /\ op.states[i].schedule \in Schedule \ {s}
      BY <1>2, <1>5, <1>8 DEF StatesOK
    <3>2. op.states[i].entry.snap # entry[s].snap
      BY <1>6, <3>1 DEF IInv, OwnersOK, StateIsKept, SnapsOf
    <3> QED
      BY <1>4, <1>10, <3>1, <3>2 DEF StateIsKept, KeptAfter
  <2>2. \A i, j \in DOMAIN op'.states :
          i # j => op'.states[i].schedule # op'.states[j].schedule
    BY <1>2, <1>5 DEF StatesOK
  <2> QED
    BY <2>1, <2>2 DEF StatesOK, StateIsKept, KeptAfter, SnapsOf
<1>16. PlaceOK' /\ Settled'
  BY <1>1, <1>2 DEF PlaceOK, Settled
<1>17. HandOK' /\ TodoOK' /\ FilesOK'
  BY <1>4 DEF HandOK, InHand, TodoOK, FilesOK, At, Forward
<1>18. BeforeOK'
  <2>1. \A t \in Schedule :
          t \in Captured' \/ op'.errors \/ entry'[t].root = op.before.entry[t].root
    BY <1>2, <1>3, <1>5, <1>7, <1>10, <1>11 DEF BeforeOK
  <2> QED
    BY <1>1, <1>2, <1>4, <1>15, <2>1 DEF BeforeOK, Whole
<1> QED
  BY <1>1, <1>2, <1>12, <1>13, <1>14, <1>16, <1>17, <1>18, NobodyIn, JournalKept
     DEF IInv, Working

\* The files are as before the relocation, or some could not be restored.
LEMMA UndoFilesKeeps ==
  ASSUME IInv, UndoFiles
  PROVE  IInv'
<1>1. /\ At("undo") /\ op.step = "undo" /\ op.states = <<>>
      /\ UNCHANGED <<place, copied, entry, paths, file, task, protected, run>>
  BY DEF UndoFiles, At, world, registry
<1>2. Rewriting /\ BeforeOK
  BY <1>1 DEF IInv, Rewriting
<1>3. op' = [op EXCEPT !.step = "failed"] \/ op' = [op EXCEPT !.step = "failed", !.errors = TRUE]
  BY DEF UndoFiles, Go
<1>4. op' \in OpType /\ op'.step = "failed"
  <2>1. op \in OpType
    BY DEF IInv, Types
  <2>2. CASE op' = [op EXCEPT !.step = "failed"]
    BY <2>1, <2>2 DEF OpType
  <2>3. CASE op' = [op EXCEPT !.step = "failed", !.errors = TRUE]
    BY <2>1, <2>3 DEF OpType
  <2> QED
    BY <1>3, <2>2, <2>3
<1>5. OwnersOK' /\ NewOK' /\ RunsOK'
  BY <1>1, NobodyIn DEF IInv, OwnersOK, NewOK, SnapsOf, TaskOf, Working
<1>6. CASE UNCHANGED files
  <2>1. Types'
    BY <1>1, <1>4, <1>6 DEF IInv, Types, RegistryType, FilesType, files
  <2>2. PlaceOK' /\ Settled'
    BY <1>1, <1>6 DEF IInv, PlaceOK, Settled, Whole, files
  <2> QED
    BY <1>4, <1>5, <2>1, <2>2, AtRest DEF IInv
<1>7. CASE /\ config' = op.before.config
           /\ retired' = AsBefore("retired", retired)
           /\ location' = AsBefore("location", location)
           /\ journal' = JournalAfter
  <2>1. op.before \in BeforeType /\ op.resumed \in BOOLEAN /\ op.errors \in BOOLEAN
    BY <1>2, OpIs DEF IInv, BeforeOK
  <2>2. /\ config' \in Config /\ location' = op.before.location /\ location' \in Location
        /\ retired' \in BOOLEAN
    <3>1. location' = op.before.location
      BY <1>2, <1>7 DEF BeforeOK, AsBefore
    <3>2. retired' = retired \/ retired' = op.before.retired
      BY <1>7 DEF AsBefore
    <3> QED
      BY <1>7, <2>1, <3>1, <3>2 DEF BeforeType, IInv, Types, FilesType
  <2>3. journal' <=> journal /\ (op.resumed \/ op.errors)
    BY <1>7 DEF JournalAfter
  <2>4. journal' \in BOOLEAN
    BY <1>7 DEF JournalAfter
  <2>5. Types'
    BY <1>1, <1>4, <2>2, <2>4 DEF IInv, Types, RegistryType, FilesType
  <2>6. \A s \in Schedule : op.errors \/ entry[s].root = op.before.entry[s].root
    <3>1. Captured = {}
      BY <1>1 DEF Captured
    <3> QED
      BY <1>2, <3>1 DEF BeforeOK
  <2>7. PlaceOK'
    BY <1>1, <1>2, <1>7, <2>2, <2>3 DEF IInv, PlaceOK, BeforeOK
  <2>8. Settled'
    <3> SUFFICES ASSUME place = "folder", ~journal'
                 PROVE  Whole(entry, op.before.location, op.before.config)
      BY <1>1, <1>7, <2>2 DEF Settled, Whole
    <3>1. ~op.resumed /\ ~op.errors
      BY <1>2, <2>3 DEF BeforeOK
    <3> QED
      BY <1>2, <2>6, <3>1 DEF BeforeOK, Whole
  <2> QED
    BY <1>4, <1>5, <2>5, <2>7, <2>8, AtRest DEF IInv
<1> QED
  BY <1>6, <1>7 DEF UndoFiles

LEMMA ShowKeeps ==
  ASSUME IInv, Show \/ Refuse \/ Crash
  PROVE  IInv'
BY RestKeeps DEF Show, Refuse, Crash

-----------------------------------------------------------------------------
(* What goes on beside it *)

LEMMA ConfirmCurrentKeeps ==
  ASSUME IInv, ConfirmCurrent
  PROVE  IInv'
<1>1. /\ op.step = "idle" /\ op' = op /\ ~Required /\ location' \in {"new", location}
      /\ UNCHANGED <<place, copied, retired, journal, config>>
      /\ UNCHANGED <<entry, paths, file, task, protected, run>>
  BY DEF ConfirmCurrent, At, world, registry
<1>2. Types'
  BY <1>1 DEF IInv, Types, RegistryType, FilesType, Location
<1>3. config # "old" /\ \A s \in Schedule : entry[s].root = "new"
  BY <1>1, AffectedIsOld DEF Required, IInv, Types, RegistryType, Entries, Entry, Root
<1>4. PlaceOK' /\ Settled' /\ OwnersOK' /\ NewOK'
  BY <1>1, <1>3 DEF IInv, PlaceOK, Settled, Whole, OwnersOK, NewOK, SnapsOf, TaskOf
<1>5. RunsOK'
  BY <1>1 DEF IInv, RunsOK, Accepted, RequiredHeadless, RecordedElsewhere, Affected
<1> QED
  BY <1>1, <1>2, <1>4, <1>5, AtRest DEF IInv

\* While a relocation is at work nothing beside it changes what it works on.
LEMMA BesideFrame ==
  ASSUME IInv, op' = op,
         UNCHANGED <<place, copied, location, retired, journal, config, entry, paths, file, task>>
  PROVE  HandOK' /\ TodoOK' /\ FilesOK' /\ BeforeOK' /\ RequiredOK'
<1>1. HandOK' /\ TodoOK' /\ FilesOK'
  BY DEF IInv, HandOK, InHand, At, TodoOK, Captured, FilesOK, SnapsOf, TaskOf
<1>2. StatesOK => StatesOK'
  BY StatesFrame
<1>3. BeforeOK'
  BY <1>2 DEF IInv, BeforeOK, Rewriting, Captured, Whole
<1>4. RequiredOK'
  BY AskedFrame DEF IInv, RequiredOK
<1> QED
  BY <1>1, <1>3, <1>4

LEMMA RunsKeep ==
  ASSUME IInv, run' \in [Run -> RunType], RunsOK',
         UNCHANGED <<world, files, registry, protected, op>>
  PROVE  IInv'
<1>1. UNCHANGED <<place, copied, location, retired, journal, config, entry, paths, file, task, op>>
  BY DEF world, files, registry
<1>2. Types'
  BY <1>1 DEF IInv, Types, RegistryType, FilesType
<1> QED
  BY <1>1, <1>2, StoresFrame, BesideFrame DEF IInv, registry

LEMMA StartKeeps ==
  ASSUME IInv, NEW r \in Run, NEW s \in Schedule, Start(r, s)
  PROVE  IInv'
<1>1. /\ task[s] # None /\ UNCHANGED <<world, files, registry, protected, op>>
      /\ UNCHANGED <<location, journal, entry, paths>>
      /\ run' = [run EXCEPT ![r] = [step |-> "started", root |-> task[s].root,
                                    schedule |-> s, snap |-> task[s].snap]]
      /\ task[s].root # "old" => ~RequiredHeadless
  BY DEF Start, files, registry
<1>2. task[s] \in Task
  BY <1>1 DEF IInv, Types, RegistryType, Tasks
<1>3. run' \in [Run -> RunType]
  BY <1>1, <1>2 DEF IInv, Types, RunType, Task
<1>4. RunsOK'
  <2> SUFFICES ASSUME NEW q \in Run, Accepted(q)'
               PROVE  /\ ~RequiredHeadless /\ run'[q].schedule \in Schedule
                      /\ run'[q].snap = entry[run'[q].schedule].snap
    BY <1>1, AskedFrame DEF RunsOK
  <2>1. CASE q # r
    BY <1>1, <2>1 DEF IInv, RunsOK, Accepted, Types
  <2>2. CASE q = r
    <3>1. run'[r] = [step |-> "started", root |-> task[s].root,
                     schedule |-> s, snap |-> task[s].snap]
      BY <1>1 DEF IInv, Types
    <3>2. task[s].root = "new" /\ ~RequiredHeadless
      BY <1>1, <2>2, <3>1 DEF Accepted
    <3>3. entry[s].root = "new"
      BY <3>2, AffectedIsOld
         DEF RequiredHeadless, IInv, Types, RegistryType, Entries, Entry, Root
    <3>4. task[s] = TaskOf(entry[s])
      BY <3>3 DEF IInv, NewOK
    <3>5. task[s] = [snap |-> entry[s].snap, root |-> "new"]
      BY <1>1, <3>4 DEF TaskOf
    <3> QED
      BY <2>2, <3>1, <3>2, <3>5
  <2> QED
    BY <2>1, <2>2
<1> QED
  BY <1>1, <1>3, <1>4, RunsKeep

LEMMA RunStepKeeps ==
  ASSUME IInv, NEW r \in Run, RunStep(r)
  PROVE  IInv'
<1>1. /\ UNCHANGED <<world, files, registry, protected, op>>
      /\ UNCHANGED <<location, journal, entry, paths>>
  BY DEF RunStep, files, registry
<1>2. PICK step \in {"queued", "running", "ended"} :
        /\ run' = [run EXCEPT ![r].step = step]
        /\ run[r].step \in {"started", "queued", "running"}
  BY DEF RunStep, Goes
<1>3. run' \in [Run -> RunType]
  BY <1>2 DEF IInv, Types, RunType
<1>4. \A q \in Run : /\ run'[q].root = run[q].root /\ run'[q].snap = run[q].snap
                     /\ run'[q].schedule = run[q].schedule
                     /\ Accepted(q)' => Accepted(q)
  BY <1>2 DEF IInv, Types, RunType, Accepted
<1>5. RunsOK'
  BY <1>1, <1>4, AskedFrame DEF IInv, RunsOK
<1> QED
  BY <1>1, <1>3, <1>5, RunsKeep

\* A cleanup takes superseded snapshots only, and not during a relocation.
LEMMA RefreshKeeps ==
  ASSUME IInv, Refresh
  PROVE  IInv'
<1>0. PICK s \in Schedule : \E gone \in SUBSET entry[s].kept :
        file' = file \ gone /\ entry' = [entry EXCEPT ![s].kept = @ \ gone]
  BY DEF Refresh
<1>1. PICK gone \in SUBSET entry[s].kept :
        file' = file \ gone /\ entry' = [entry EXCEPT ![s].kept = @ \ gone]
  BY <1>0
<1>2. /\ ~Rewriting /\ op' = op
      /\ UNCHANGED <<place, copied, location, retired, journal, config>>
      /\ UNCHANGED <<paths, task, protected, run>>
  BY DEF Refresh, world, files
<1>3. /\ entry \in Entries /\ entry[s] \in Entry /\ file \subseteq Snap
  BY DEF IInv, Types, RegistryType, Entries
<1>4. /\ entry'[s] = [entry[s] EXCEPT !.kept = entry[s].kept \ gone]
      /\ \A t \in Schedule : t # s => entry'[t] = entry[t]
  BY <1>1, <1>3 DEF Entries
<1>5. entry'[s] \in Entry /\ entry'[s].kept = entry[s].kept \ gone
  BY <1>3, <1>4 DEF Entry
<1>6. entry' \in Entries
  BY <1>1, <1>3, <1>5 DEF Entries
<1>7. \A t \in Schedule :
        /\ entry'[t].snap = entry[t].snap /\ entry'[t].root = entry[t].root
        /\ entry'[t].enabled = entry[t].enabled /\ entry'[t].archived = entry[t].archived
        /\ entry'[t].kept \subseteq entry[t].kept
  BY <1>3, <1>4, <1>5 DEF Entry
<1>8. Types'
  BY <1>1, <1>2, <1>3, <1>6 DEF IInv, Types, RegistryType, FilesType
<1>9. OwnersOK'
  <2>1. \A t \in Schedule : entry[t].snap \notin gone
    BY <1>1 DEF IInv, OwnersOK, SnapsOf
  <2>2. \A t \in Schedule : SnapsOf(entry'[t]) \subseteq SnapsOf(entry[t])
    BY <1>7 DEF SnapsOf
  <2>3. \A t \in Schedule : entry'[t].snap \in file' /\ entry'[t].snap \notin entry'[t].kept
    BY <1>1, <1>7, <2>1 DEF IInv, OwnersOK
  <2>4. \A t, u \in Schedule : t # u => SnapsOf(entry'[t]) \cap SnapsOf(entry'[u]) = {}
    BY <2>2 DEF IInv, OwnersOK
  <2> QED
    BY <2>3, <2>4 DEF OwnersOK, SnapsOf
<1>10. PlaceOK' /\ Settled' /\ NewOK'
  BY <1>2, <1>7 DEF IInv, PlaceOK, Settled, Whole, NewOK, TaskOf
<1>11. RequiredHeadless' <=> RequiredHeadless
  BY <1>2, <1>7 DEF RequiredHeadless, RecordedElsewhere, Affected
<1>12. RunsOK'
  BY <1>2, <1>7, <1>11 DEF IInv, RunsOK, Accepted
<1>13. HandOK' /\ TodoOK' /\ FilesOK' /\ BeforeOK' /\ RequiredOK'
  <2>1. op.step \in {"idle", "queue", "done", "failed"}
    BY <1>2 DEF Rewriting
  <2> QED
    BY <1>2, <1>7, <1>11, <2>1
       DEF IInv, HandOK, InHand, TodoOK, FilesOK, BeforeOK, Rewriting, RequiredOK, At, Forward
<1> QED
  BY <1>8, <1>9, <1>10, <1>12, <1>13 DEF IInv

-----------------------------------------------------------------------------
(* The theorems *)

\* At first the schedules have different snapshots.
LEMMA NumberIs ==
  /\ number \in [Schedule -> Snap]
  /\ \A s, t \in Schedule : s # t => number[s] # number[t]
BY RelocationAssumption DEF number

LEMMA InitIInv ==
  ASSUME Init
  PROVE  IInv
<1>1. /\ \A s \in Schedule :
           /\ entry[s].snap = number[s] /\ entry[s].root = Registered(place)
           /\ entry[s].enabled \in BOOLEAN /\ entry[s].kept = {} /\ entry[s].archived = {}
           /\ task[s] = IF entry[s].enabled
                        THEN [snap |-> number[s], root |-> Registered(place)] ELSE None
      /\ entry \in Entries /\ task \in Tasks
  <2>1. PICK enabled \in [Schedule -> BOOLEAN] :
          /\ entry = [s \in Schedule |->
               [snap |-> number[s], root |-> Registered(place), enabled |-> enabled[s],
                kept |-> {}, archived |-> {}]]
          /\ task = [s \in Schedule |->
               IF enabled[s] THEN [snap |-> number[s], root |-> Registered(place)] ELSE None]
    BY DEF Init
  <2>2. Registered(place) \in Root
    BY DEF Registered, Root
  <2>3. \A s \in Schedule : number[s] \in Snap /\ enabled[s] \in BOOLEAN
    BY NumberIs
  <2> QED
    BY <2>1, <2>2, <2>3 DEF Entries, Entry, Tasks, Task
<1>2. /\ paths \in [Snap -> Config]
      /\ place # "folder" => \A n \in Snap : paths[n] # "old"
      /\ file = {number[s] : s \in Schedule} /\ file \subseteq Snap
  BY NumberIs DEF Init, Config
<1>3. place \in {"folder", "program", "new"} /\ place \in Places
  BY RelocationAssumption DEF Init
<1>4. /\ place = "folder" => location \in {"old", None} /\ config \in {"old", "outside"}
      /\ place # "folder" => location \in {"new", None} /\ config = "new"
      /\ location \in Location /\ config \in Config /\ copied \in BOOLEAN
      /\ retired = FALSE /\ journal = FALSE /\ op = Idle /\ protected = {}
      /\ run = [r \in Run |-> NoRun]
  BY <1>3 DEF Init, Location, Config
<1>5. Types
  <2>1. run \in [Run -> RunType]
    BY <1>4 DEF NoRun, RunType
  <2> QED
    BY <1>1, <1>2, <1>3, <1>4, <2>1, IdleIs DEF Types, RegistryType, FilesType
<1>6. OwnersOK
  <2>1. \A s \in Schedule : SnapsOf(entry[s]) = {number[s]}
    BY <1>1 DEF SnapsOf
  <2>2. \A s, t \in Schedule : s # t => SnapsOf(entry[s]) \cap SnapsOf(entry[t]) = {}
    BY <2>1, NumberIs
  <2>3. \A s \in Schedule : entry[s].snap \in file /\ entry[s].snap \notin entry[s].kept
    BY <1>1, <1>2
  <2> QED
    BY <2>2, <2>3 DEF OwnersOK
<1>7. NewOK
  <2> SUFFICES ASSUME NEW s \in Schedule, entry[s].root = "new"
               PROVE  task[s] = TaskOf(entry[s]) /\ paths[entry[s].snap] # "old"
    BY DEF NewOK
  <2>1. Registered(place) = "new" /\ entry[s].snap \in Snap
    BY <1>1, NumberIs
  <2>2. place # "folder"
    BY <2>1 DEF Registered
  <2>3. task[s] = TaskOf(entry[s])
    BY <1>1, <2>1 DEF TaskOf
  <2> QED
    BY <1>2, <2>1, <2>2, <2>3
<1>8. PlaceOK /\ Settled
  <2>1. "new" # None
    BY RelocationAssumption
  <2>2. PlaceOK
    BY <1>4, RelocationAssumption DEF PlaceOK
  <2>3. place = "folder" => location # "new" /\ \A s \in Schedule : entry[s].root = "old"
    BY <1>1, <1>4, <2>1 DEF Registered
  <2> QED
    BY <2>2, <2>3 DEF Settled, Whole
<1>9. op.step = "idle"
  BY <1>4 DEF Idle
<1>10. HandOK /\ TodoOK /\ FilesOK /\ BeforeOK /\ RequiredOK
  BY <1>9 DEF HandOK, InHand, At, TodoOK, FilesOK, BeforeOK, Rewriting, RequiredOK, Forward, Working
<1>11. RunsOK
  BY <1>4 DEF RunsOK, Accepted, NoRun
<1> QED
  BY <1>5, <1>6, <1>7, <1>8, <1>10, <1>11 DEF IInv

LEMMA NextKeeps ==
  ASSUME IInv, [Next]_vars
  PROVE  IInv'
<1>1. CASE Apply
  BY <1>1, ConfirmKeeps, TakeGuardKeeps, WriteJournalKeeps, CaptureKeeps, CaptureFailsKeeps,
     ReplaceTaskKeeps, ReplaceFailsKeeps, PutEntryKeeps, PutFailsKeeps, SaveConfigKeeps,
     ArchiveKeeps, RetireKeeps, LocateKeeps, CommitKeeps, UndoScheduleKeeps, UndoFilesKeeps,
     ShowKeeps DEF Apply
<1>2. CASE ConfirmCurrent \/ Crash \/ Refresh
  BY <1>2, ConfirmCurrentKeeps, ShowKeeps, RefreshKeeps
<1>3. CASE \E r \in Run : RunStep(r) \/ \E s \in Schedule : Start(r, s)
  BY <1>3, RunStepKeeps, StartKeeps
<1>4. CASE UNCHANGED vars
  <2>1. /\ UNCHANGED <<world, files, registry, protected, op, run>>
        /\ UNCHANGED <<location, journal, entry, paths, run>>
    BY <1>4 DEF vars, files, registry
  <2> QED
    BY <2>1, RunsFrame, RunsKeep DEF IInv, Types
<1> QED
  BY <1>1, <1>2, <1>3, <1>4 DEF Next

LEMMA Invariance == Spec => []IInv
<1>1. Init => IInv
  BY InitIInv
<1>2. IInv /\ [Next]_vars => IInv'
  BY NextKeeps
<1> QED
  BY <1>1, <1>2, PTL DEF Spec

\* A relocation that reports success has moved everything, and as long as a part of the
\* schedules is at the new place the journal says so (scheduler/service.py:3136-3306),
\* whatever failed, was undone or died in between.
THEOREM MoveIsWholeHolds == Spec => []MoveIsWhole
<1>1. IInv => TypeOK
  BY StateIs DEF IInv, Types, RegistryType, FilesType, TypeOK, Entries, Entry, Tasks, Task,
     Location, Config, Root
<1>2. IInv => SuccessIsComplete
  <2> SUFFICES ASSUME IInv, At("done")
               PROVE  /\ ~Required /\ location = "new" /\ (copied => retired)
                      /\ \A s \in Schedule :
                           /\ entry[s].snap \in file
                           /\ task[s] = IF entry[s].enabled
                                        THEN [snap |-> entry[s].snap, root |-> "new"] ELSE None
    BY DEF SuccessIsComplete
  <2>1. /\ location = "new" /\ (copied => retired) /\ config # "old" /\ ~journal
        /\ \A s \in Schedule : entry[s].root = "new"
    BY DEF IInv, FilesOK, At
  <2>2. Affected = {}
    BY <2>1, AffectedIsOld
  <2> QED
    BY <2>1, <2>2 DEF IInv, OwnersOK, NewOK, TaskOf, Required, RecordedElsewhere
<1>3. IInv => HalfMovedIsMarked
  BY DEF IInv, Settled, Whole, HalfMovedIsMarked
<1>4. IInv => MoveIsWhole
  BY <1>1, <1>2, <1>3 DEF MoveIsWhole
<1> QED
  BY <1>4, Invariance, PTL

\* A run of the new place that was accepted (main.py:1384) keeps its snapshot, and no
\* relocation begins before it is over.
THEOREM AcceptedRunsKeepSnapshotHolds == Spec => []AcceptedRunsKeepSnapshot
<1>1. IInv => AcceptedRunsKeepSnapshot
  BY DEF IInv, RunsOK, OwnersOK, Accepted, AcceptedRunsKeepSnapshot
<1> QED
  BY <1>1, Invariance, PTL

=============================================================================
