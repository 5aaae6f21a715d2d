----------------------------- MODULE Relocation -----------------------------
(***************************************************************************)
(* Moving an installation: ScheduleService.apply_installation_relocation   *)
(* (src/src/scheduler/service.py) with the stores of                       *)
(* src/src/scheduler/installation.py.  A folder that was moved or copied   *)
(* is recognised by what it recorded about its place.  The GUI then        *)
(* rewrites every schedule, the configuration and two location files, one  *)
(* after the other, under a journal; a failure undoes them in reverse, a   *)
(* crash leaves the journal, and the next confirmation does the rest.      *)
(* Scheduled runs start from the old folder or from the new one meanwhile. *)
(***************************************************************************)
EXTENDS Naturals, FiniteSets, Sequences, SequencesExt

CONSTANTS Schedule,
          Run,        \* processes that the task of a schedule starts
          MaxSnap,    \* bound: snapshots that exist at a time
          MaxFault,   \* bound: calls of the system that fail
          MaxCrash,   \* bound: deaths of the GUI
          Places,     \* "folder" when the folder is at another place, "program"
                      \* when another program runs at the same place, "new" when
                      \* its place has not been recorded yet
          None

Snap == 1 .. MaxSnap

\* There is room for the snapshots that the schedules have at first.
ASSUME RelocationAssumption ==
  /\ MaxSnap \in Nat /\ MaxFault \in Nat /\ MaxCrash \in Nat
  /\ Places \subseteq {"folder", "program", "new"}
  /\ None \notin Run \cup Schedule \cup Nat \cup {"old", "new"}
  /\ \E f \in [Schedule -> Snap] : \A s, t \in Schedule : s # t => f[s] # f[t]

VARIABLES place,      \* what has changed, see Places
          copied,     \* the old folder is still there
          location,   \* what install-location.json says here: "old", "new" or None
          retired,    \* what it says there: TRUE once it is retired
          journal,    \* installation-relocation-journal.json exists
          config,     \* the configuration names paths "old", "new" or "outside"
          entry,      \* the registrations
          paths,      \* the paths that a snapshot names
          file,       \* the snapshots that exist
          task,       \* the snapshot and the program of each task, or None
          protected,  \* _protected_snapshot_ids, in the memory of the GUI
          op,         \* the relocation in progress
          run,        \* the processes that tasks have started
          faults, crashes,
          first       \* history: the snapshots at the beginning

world == <<place, copied, first>>
files == <<location, retired, journal, config>>
registry == <<entry, paths, file, task>>
bounds == <<faults, crashes>>
vars == <<world, files, registry, protected, op, run, bounds>>

\* What a rollback has to bring back.
Before == [entry |-> entry, task |-> task, file |-> file,
           location |-> location, retired |-> retired, config |-> config]

Idle == [step |-> "idle", todo |-> {}, states |-> <<>>, before |-> None,
         resumed |-> FALSE, errors |-> FALSE, wrote |-> {},
         schedule |-> None, new |-> None]

NoRun == [step |-> "idle", root |-> None, schedule |-> None, snap |-> None]

\* The snapshots that the schedules have at first.
number == CHOOSE f \in [Schedule -> Snap] : \A s, t \in Schedule : s # t => f[s] # f[t]

\* The program that the registrations name at first.
Registered(p) == IF p = "new" THEN "new" ELSE "old"

\* Each schedule has its snapshot, its task if it is enabled, and its program.
Init ==
  /\ place \in Places
  /\ copied \in (IF place = "folder" THEN BOOLEAN ELSE {FALSE})
  /\ location \in CASE place = "folder" -> {"old", None}
                     [] place = "program" -> {"new"}
                     [] place = "new" -> {None}
  /\ retired = FALSE /\ journal = FALSE
  /\ config \in (IF place = "folder" THEN {"old", "outside"} ELSE {"new"})
  /\ \E enabled \in [Schedule -> BOOLEAN],
        inside \in [Schedule -> BOOLEAN] :
       /\ entry = [s \in Schedule |->
            [snap |-> number[s], root |-> Registered(place), enabled |-> enabled[s],
             kept |-> {}, archived |-> {}]]
       /\ task = [s \in Schedule |->
            IF enabled[s] THEN [snap |-> number[s], root |-> Registered(place)] ELSE None]
       /\ paths = [n \in Snap |->
            IF place = "folder" /\ \E s \in Schedule : number[s] = n /\ inside[s]
            THEN "old" ELSE "outside"]
       /\ file = {number[s] : s \in Schedule}
  /\ protected = {} /\ op = Idle
  /\ run = [r \in Run |-> NoRun]
  /\ faults = 0 /\ crashes = 0
  /\ first = file

-----------------------------------------------------------------------------
(* What is asked of the stores *)

\* preview_installation_relocation: _current_action_changes, and the paths of the
\* snapshot when the old place is another one.
Affected ==
  {s \in Schedule : entry[s].root = "old" \/ paths[entry[s].snap] = "old"}

\* _recorded_installation_root is another one: the journal's, or the recorded place.
RecordedElsewhere == journal \/ location = "old"

Required == RecordedElsewhere \/ Affected # {} \/ config = "old"

\* Mutant: the journal of an interrupted relocation is not looked at.
RequiredByPlaces == location = "old" \/ Affected # {}

\* Without its configuration a headless process asks the same question.
RequiredHeadless == RecordedElsewhere \/ Affected # {}

\* Processes that are not over.
Waiting(r) == run[r].step \in {"queued", "running"}
RunsNow(s) == \E r \in Run : run[r].schedule = s /\ run[r].step \in {"started", "queued", "running"}

\* DOWNLOAD_RUN_GUARD: a run downloads, or the relocation is at work.
Rewriting == op.step \notin {"idle", "queue", "done", "failed"}
Downloading == \E r \in Run : run[r].step = "running"

At(step) == op.step = step
Go(step) == op' = [op EXCEPT !.step = step]
Failing == faults < MaxFault /\ faults' = faults + 1 /\ UNCHANGED crashes

SnapsOf(e) == {e.snap} \cup e.kept \cup e.archived

-----------------------------------------------------------------------------
(* apply_installation_relocation, up to its first change *)

\* The user confirms the preview; nothing waits or runs in the queue.
Confirm ==
  /\ At("idle") /\ Required
  /\ ~\E r \in Run : Waiting(r)
  /\ op' = [Idle EXCEPT !.step = "queue", !.todo = Affected]
  /\ UNCHANGED <<world, files, registry, protected, run, bounds>>

\* The guard is had, the preview has not changed and no affected task runs.
TakeGuard ==
  /\ At("queue") /\ ~Downloading
  /\ op.todo = Affected /\ ~\E s \in op.todo : RunsNow(s)
  /\ op' = [op EXCEPT !.step = "journal", !.before = Before, !.resumed = journal]
  /\ UNCHANGED <<world, files, registry, protected, run, bounds>>

Refuse ==
  /\ At("queue") /\ (Downloading \/ op.todo # Affected \/ \E s \in op.todo : RunsNow(s))
  /\ op' = Idle
  /\ UNCHANGED <<world, files, registry, protected, run, bounds>>

\* Mutant: a journal that is there is always of another move.
NeverResumable == FALSE

\* The journal of an interrupted relocation, to the same place.
Resumable == journal

\* The journal is written unless it can be resumed; it refuses to be written when
\* the place has not changed.
WriteJournal ==
  /\ At("journal")
  /\ \/ Resumable /\ Go("next") /\ UNCHANGED <<journal, bounds>>
     \/ ~journal /\ place = "folder" /\ journal' = TRUE /\ Go("next") /\ UNCHANGED bounds
     \/ /\ (~Resumable /\ journal) \/ place # "folder"
        /\ Go("undo") /\ UNCHANGED <<journal, bounds>>
     \/ ~journal /\ Failing /\ Go("undo") /\ UNCHANGED journal
  /\ UNCHANGED <<world, location, retired, config, registry, protected, run>>

-----------------------------------------------------------------------------
(* A place that needs nothing rewritten *)

\* confirm_current_installation: the GUI records it as it starts.
ConfirmCurrent ==
  /\ At("idle") /\ ~Required /\ location # "new"
  /\ \/ location' = "new" /\ UNCHANGED bounds
     \/ Failing /\ UNCHANGED location
  /\ UNCHANGED <<world, retired, journal, config, registry, protected, op, run>>

-----------------------------------------------------------------------------
(* The schedules, one after the other *)

\* capture_registration_state
StateOf(s) == [schedule |-> s, entry |-> entry[s], task |-> task[s]]

Capture ==
  /\ At("next")
  /\ \E s \in op.todo :
       /\ op' = [op EXCEPT !.step = "task", !.schedule = s, !.todo = @ \ {s},
                           !.new = None, !.states = Append(@, StateOf(s))]
       /\ protected' = protected \cup SnapsOf(entry[s])
  /\ UNCHANGED <<world, files, registry, run, bounds>>

CaptureFails ==
  /\ At("next") /\ op.todo # {} /\ Failing
  /\ Go("undo")
  /\ UNCHANGED <<world, files, registry, protected, run>>

Moved(s) == place = "folder" /\ paths[entry[s].snap] = "old"

\* Numbers that no file and no registration uses.
Unused == {k \in Snap : k \notin file /\ \A t \in Schedule : k \notin SnapsOf(entry[t])}
Fresh == CHOOSE k \in Unused : TRUE

SnapFor(s) == IF Moved(s) THEN Fresh ELSE entry[s].snap

\* update_schedule writes a new snapshot when paths change; repair_schedule and
\* disable_schedule keep it.  Then the task is replaced, or removed.
ReplaceTask ==
  LET s == op.schedule
      n == SnapFor(s)
  IN
  /\ At("task")
  /\ Moved(s) => Unused # {}
  /\ IF Moved(s)
     THEN file' = file \cup {n} /\ paths' = [paths EXCEPT ![n] = "new"]
     ELSE UNCHANGED <<file, paths>>
  /\ task' = [task EXCEPT ![s] =
       IF entry[s].enabled THEN [snap |-> n, root |-> "new"] ELSE None]
  /\ op' = [op EXCEPT !.step = "put", !.new = n]
  /\ UNCHANGED <<world, files, entry, protected, run, bounds>>

\* The task is not replaced: the operation undoes itself, the relocation follows.
ReplaceFails ==
  /\ At("task") /\ Failing
  /\ Go("undo")
  /\ UNCHANGED <<world, files, registry, protected, run>>

PutEntry ==
  LET s == op.schedule
      e == entry[s]
  IN
  /\ At("put")
  /\ entry' = [entry EXCEPT ![s] =
       [e EXCEPT !.snap = op.new, !.root = "new",
                 !.kept = IF op.new = e.snap THEN @ ELSE @ \cup {e.snap}]]
  /\ Go("next")
  /\ UNCHANGED <<world, files, paths, file, task, protected, run, bounds>>

\* The registry is not written: the operation restores the task and deletes its
\* snapshot, or fails in that as well and leaves both.
PutFails ==
  LET s == op.schedule
      captured == Last(op.states)
  IN
  /\ At("put")
  /\ \/ /\ Failing
        /\ task' = [task EXCEPT ![s] = captured.task]
        /\ file' = IF op.new = entry[s].snap THEN file ELSE file \ {op.new}
     \/ /\ entry[s].enabled
        /\ faults + 1 < MaxFault /\ faults' = faults + 2 /\ UNCHANGED crashes
        /\ UNCHANGED <<task, file>>
  /\ Go("undo")
  /\ UNCHANGED <<world, files, entry, paths, protected, run>>

-----------------------------------------------------------------------------
(* The other files *)

\* save_config
SaveConfig ==
  /\ At("next") /\ op.todo = {}
  /\ \/ /\ config' = IF config = "old" THEN "new" ELSE config
        /\ Go("archive") /\ UNCHANGED bounds
     \/ config = "old" /\ Failing /\ Go("undo") /\ UNCHANGED config
  /\ UNCHANGED <<world, location, retired, journal, registry, protected, run>>


\* _archive_relocation_snapshots, then _archive_interrupted_relocation_snapshots:
\* the snapshots of before the move are no longer up for collection.
ArchivedOf(e) ==
  e.archived
    \cup {n \in e.kept : \E i \in DOMAIN op.states : op.states[i].entry.snap = n}
    \cup {n \in e.kept \cap file : paths[n] = "old"}

Archive ==
  /\ At("archive")
  /\ \/ /\ entry' = [s \in Schedule |->
             [entry[s] EXCEPT !.archived = ArchivedOf(entry[s]),
                              !.kept = @ \ ArchivedOf(entry[s])]]
        /\ Go("retire") /\ UNCHANGED bounds
     \/ Failing /\ Go("undo") /\ UNCHANGED entry
  /\ UNCHANGED <<world, files, paths, file, task, protected, run>>

\* write_retired, where the old folder exists.
Retire ==
  /\ At("retire")
  /\ \/ /\ retired' = (retired \/ copied)
        /\ op' = [op EXCEPT !.step = "locate", !.wrote = @ \cup {"retired"}]
        /\ UNCHANGED bounds
     \/ /\ copied /\ Failing /\ UNCHANGED retired
        /\ op' = [op EXCEPT !.step = "undo", !.wrote = @ \cup {"retired"}]
  /\ UNCHANGED <<world, location, journal, config, registry, protected, run>>

Locate ==
  /\ At("locate")
  /\ \/ /\ location' = "new" /\ UNCHANGED bounds
        /\ op' = [op EXCEPT !.step = "commit", !.wrote = @ \cup {"location"}]
     \/ /\ Failing /\ UNCHANGED location
        /\ op' = [op EXCEPT !.step = "undo", !.wrote = @ \cup {"location"}]
  /\ UNCHANGED <<world, retired, journal, config, registry, protected, run>>

\* The journal is deleted: the relocation is over.
Commit ==
  /\ At("commit")
  /\ \/ journal' = FALSE /\ protected' = {} /\ Go("done") /\ UNCHANGED bounds
     \/ Failing /\ Go("undo") /\ UNCHANGED <<journal, protected>>
  /\ UNCHANGED <<world, location, retired, config, registry, run>>

-----------------------------------------------------------------------------
(* Rollback *)

\* restore_registration_state: the task, the entry, and the newer snapshot goes.
RestoredBy(state) ==
  LET s == state.schedule IN
  /\ entry' = [entry EXCEPT ![s] = state.entry]
  /\ task' = [task EXCEPT ![s] =
       IF state.task = None /\ state.entry.enabled
       THEN [snap |-> state.entry.snap, root |-> state.entry.root]
       ELSE state.task]
  /\ file' = IF entry[s].snap = state.entry.snap THEN file ELSE file \ {entry[s].snap}

\* release_registration_state: its snapshots may be collected again.
Release(state) == protected' = protected \ SnapsOf(state.entry)

\* The last schedule that was captured is restored, unless it is as it was.
UndoSchedule ==
  LET state == Last(op.states)
      s == state.schedule
      current == entry[s] = state.entry /\ task[s] = state.task
  IN
  /\ At("undo") /\ op.states # <<>>
  /\ Release(state)
  /\ \/ /\ IF current THEN UNCHANGED registry
           ELSE RestoredBy(state) /\ UNCHANGED paths
        /\ op' = [op EXCEPT !.states = Front(@)]
        /\ UNCHANGED bounds
     \/ /\ ~current /\ Failing
        /\ op' = [op EXCEPT !.states = Front(@), !.errors = TRUE]
        /\ UNCHANGED registry
  /\ UNCHANGED <<world, files, run>>

\* Mutant: a rollback that is incomplete deletes the journal as well.
JournalOfOthers == journal /\ op.resumed

JournalAfter == journal /\ (op.resumed \/ op.errors)

\* _atomic_restore_file: only what this call has tried to write.
AsBefore(f, now) == IF f \in op.wrote THEN op.before[f] ELSE now

\* The configuration and the two location files, then the journal if this call
\* wrote it and everything else is back.
UndoFiles ==
  /\ At("undo") /\ op.states = <<>>
  /\ \/ /\ config' = op.before.config
        /\ retired' = AsBefore("retired", retired)
        /\ location' = AsBefore("location", location)
        /\ journal' = JournalAfter
        /\ Go("failed") /\ UNCHANGED bounds
     \/ /\ op.wrote # {} /\ Failing
        /\ op' = [op EXCEPT !.step = "failed", !.errors = TRUE]
        /\ UNCHANGED files
  /\ UNCHANGED <<world, registry, protected, run>>

\* The result is shown; the user may confirm again.
Show ==
  /\ op.step \in {"done", "failed"}
  /\ op' = Idle
  /\ UNCHANGED <<world, files, registry, protected, run, bounds>>

-----------------------------------------------------------------------------
(* What goes on beside it *)

\* The GUI dies; the next one knows what is on the disk.
Crash ==
  /\ crashes < MaxCrash /\ crashes' = crashes + 1 /\ UNCHANGED faults
  /\ op # Idle
  /\ op' = Idle /\ protected' = {}
  /\ UNCHANGED <<world, files, registry, run>>

\* The list of schedules is refreshed: cleanup_retained_snapshots.
Refresh ==
  /\ ~Rewriting /\ ~Downloading
  /\ \E s \in Schedule :
       LET gone == entry[s].kept \ (protected \cup {run[r].snap : r \in {q \in Run : Waiting(q)}})
       IN /\ ~RunsNow(s) /\ gone # {}
          /\ file' = file \ gone
          /\ entry' = [entry EXCEPT ![s].kept = @ \ gone]
  /\ UNCHANGED <<world, files, paths, task, protected, op, run, bounds>>

\* A task fires.  The old program exists where the folder was copied, or under its
\* old name here; the new one checks its place before anything else.
Start(r, s) ==
  /\ run[r].step = "idle" /\ task[s] # None
  /\ IF task[s].root = "old" THEN copied /\ ~retired ELSE ~RequiredHeadless
  /\ run' = [run EXCEPT ![r] = [step |-> "started", root |-> task[s].root,
                                schedule |-> s, snap |-> task[s].snap]]
  /\ UNCHANGED <<world, files, registry, protected, op, bounds>>

\* It puts its ticket in the queue, gets its turn and ends; or it is refused.
Goes(r, from, to) == run[r].step = from /\ run' = [run EXCEPT ![r].step = to]

RunStep(r) ==
  /\ \/ Goes(r, "started", "queued")
     \/ Goes(r, "queued", "running") /\ ~Rewriting /\ ~Downloading
     \/ Goes(r, "running", "ended")
  /\ UNCHANGED <<world, files, registry, protected, op, bounds>>

-----------------------------------------------------------------------------

Apply ==
  \/ Confirm \/ TakeGuard \/ Refuse \/ WriteJournal
  \/ Capture \/ CaptureFails \/ ReplaceTask \/ ReplaceFails \/ PutEntry \/ PutFails
  \/ SaveConfig \/ Archive \/ Retire \/ Locate \/ Commit
  \/ UndoSchedule \/ UndoFiles \/ Show

Next ==
  \/ Apply \/ ConfirmCurrent \/ Crash \/ Refresh
  \/ \E r \in Run : RunStep(r) \/ \E s \in Schedule : Start(r, s)

Spec == Init /\ [][Next]_vars

\* The user confirms until the relocation is done, and processes get on.
FairSpec == Spec /\ WF_vars(Apply) /\ \A r \in Run : WF_vars(RunStep(r))

-----------------------------------------------------------------------------
(* Properties *)

TypeOK ==
  /\ location \in {"old", "new", None} /\ config \in {"old", "new", "outside"}
  /\ retired \in BOOLEAN /\ journal \in BOOLEAN
  /\ \A s \in Schedule :
       /\ entry[s].snap \in Snap /\ entry[s].kept \cup entry[s].archived \subseteq Snap
       /\ entry[s].root \in {"old", "new"} /\ entry[s].enabled \in BOOLEAN
       /\ task[s] # None => task[s].snap \in Snap
  /\ file \subseteq Snap /\ protected \subseteq Snap
  /\ \A i \in DOMAIN op.states : op.states[i].schedule \in Schedule

\* A relocation that reports success has moved everything: every registration and its
\* task, the configuration, both location files, and no journal is left.
SuccessIsComplete ==
  At("done") =>
    /\ ~Required /\ location = "new" /\ copied => retired
    /\ \A s \in Schedule :
         /\ entry[s].snap \in file
         /\ task[s] = IF entry[s].enabled THEN [snap |-> entry[s].snap, root |-> "new"] ELSE None

\* One that reports a failure, and not of its rollback, has changed nothing but which
\* superseded snapshots are archived.
FailureChangesNothing ==
  [][UndoFiles /\ ~op'.errors =>
       /\ \A s \in Schedule :
            /\ entry'[s].kept \cup entry'[s].archived
                 = op.before.entry[s].kept \cup op.before.entry[s].archived
            /\ [entry'[s] EXCEPT !.kept = {}, !.archived = {}]
                 = [op.before.entry[s] EXCEPT !.kept = {}, !.archived = {}]
       /\ Before' = [op.before EXCEPT !.file = file', !.entry = entry']
       /\ op.before.file \subseteq file'
       /\ crashes = 0 /\ faults < 2 => file' = op.before.file
       /\ journal' = op.resumed]_vars

\* As long as anything is unfinished the journal says so, whatever failed or crashed
\* in between: only then may a part of the schedules be at the new place.
HalfMovedIsMarked ==
  /\ place = "folder"
  /\ \/ \E s, t \in Schedule : entry[s].root # entry[t].root
     \/ \E s \in Schedule : entry[s].root = "new" /\ location # "new"
  => journal

\* A run of the new place never starts in the middle, and the snapshot that it needs
\* is never taken from it, by a rollback or by a cleanup.
AcceptedRunsKeepSnapshot ==
  \A r \in Run : run[r].step \in {"started", "queued", "running"} /\ run[r].root = "new" =>
    ~RequiredHeadless /\ run[r].snap \in file

\* The snapshots of before the move stay.
OldSnapshotsStay == first \subseteq file

\* No run of the old folder downloads once it is retired.
RetiredDoesNotRun ==
  \A r \in Run : run[r].step = "running" /\ run[r].root = "old" => ~retired

\* A relocation that the user was offered can be done: it fails only when something
\* of the system fails.
OfferedCanBeDone == At("failed") => faults > 0

\* A user who confirms as often as it takes gets the installation to its new place.
Relocated == place = "folder" => <>[](~Required)

\* A move is done, or not begun, or the journal says that it is half done.
MoveIsWhole ==
  /\ TypeOK
  /\ SuccessIsComplete
  /\ HalfMovedIsMarked

=============================================================================
