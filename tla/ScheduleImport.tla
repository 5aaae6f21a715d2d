--------------------------- MODULE ScheduleImport ---------------------------
(***************************************************************************)
(* Taking over a schedule from another installation:                       *)
(* ScheduleService.import_external_schedule, its journal and the recovery  *)
(* that every start of a process performs (src/src/scheduler/service.py).  *)
(* Four stores change one after the other: the registry here, the task     *)
(* here, the registry of the old place and its task.  The transaction of   *)
(* the old registry is held throughout, and given up by a process that     *)
(* dies; the journal then says that something is unfinished, and the       *)
(* stores themselves say what.  The phase in the journal is read by nobody *)
(* and is left out, but writing it is a call that can fail.                *)
(***************************************************************************)
EXTENDS Naturals, FiniteSets

CONSTANTS Schedule,
          Window,     \* processes with a GUI, which the user starts and closes
          Starter,    \* scheduled runs, which ask at their start and once
          MaxFault,   \* bound: calls of the system that fail
          MaxCrash,   \* bound: processes that die
          MaxFire,    \* bound: runs of tasks
          Edits,      \* what users do to imported schedules and to external tasks
          Nil

ASSUME ImportAssumption ==
  /\ MaxFault \in Nat /\ MaxCrash \in Nat /\ MaxFire \in Nat
  /\ Window \cap Starter = {}
  /\ Edits \subseteq {"delete", "toggle", "remove"}
  /\ Nil \notin Window \cup Starter \cup Schedule
  /\ Nil \notin {"enabled", "disabled", "foreign", "damaged", "PENDING", "COMPLETED"}
  /\ Nil \notin [schedule : Schedule, oldEnabled : BOOLEAN]

Proc == Window \cup Starter

VARIABLES source,     \* the registration in the old place
          old,        \* the state of its task: "enabled", "disabled", "foreign"
                      \* (not the one the registration describes) or Nil
          target,     \* the registration here: "enabled", "disabled", "damaged" (its
                      \* snapshot is gone) or Nil
          task,       \* whether its task exists
          journal,    \* schedule-migration-journal.json: the schedule, or Nil
          holder,     \* who is in the transaction of the old registry
          op,         \* what each process is doing
          running,    \* the schedules that run: <<"old" or "new", schedule>>
          merged,     \* schedules with their history here
          warned,     \* schedules of whose history the user was told that it is not
          first,      \* history: the registrations and tasks at the beginning
          edited,     \* history: the schedules that a user has changed since
          faults, crashes, fires

stores == <<source, old, target, task>>
history == <<merged, warned>>
ghosts == <<first, edited>>
bounds == <<faults, crashes, fires>>
importVars == <<stores, journal, holder, op, running, history, ghosts, bounds>>

Resting == [step |-> "idle", schedule |-> Nil, old |-> Nil, enabled |-> FALSE,
         wasEnabled |-> FALSE, marked |-> FALSE, pending |-> FALSE,
         imported |-> FALSE, errors |-> FALSE]
Off == [Resting EXCEPT !.step = "off"]

\* Somebody may have disabled, changed or deleted the old task by hand, or damaged
\* the snapshot of the search conditions.
ImportInit ==
  /\ \E f \in [Schedule -> {<<TRUE, "enabled", TRUE>>, <<TRUE, "disabled", TRUE>>,
                            <<TRUE, Nil, TRUE>>, <<FALSE, Nil, TRUE>>,
                            <<TRUE, "foreign", TRUE>>, <<TRUE, "enabled", FALSE>>}] :
       /\ source = [s \in Schedule |->
            [enabled |-> f[s][1], migrated |-> FALSE, cleanup |-> Nil, whole |-> f[s][3]]]
       /\ old = [s \in Schedule |-> f[s][2]]
       /\ first = f
  /\ target = [s \in Schedule |-> Nil] /\ task = [s \in Schedule |-> FALSE]
  /\ journal = Nil /\ holder = Nil
  /\ op = [p \in Proc |-> Off]
  /\ running = {} /\ merged = {} /\ warned = {} /\ edited = {}
  /\ faults = 0 /\ crashes = 0 /\ fires = 0

-----------------------------------------------------------------------------

AtStep(p, step) == op[p].step = step
Go(p, step) == op' = [op EXCEPT ![p].step = step]
Failing == faults < MaxFault /\ faults' = faults + 1 /\ UNCHANGED <<crashes, fires>>

\* The process is done with the old registry.
Rest(p) == IF p \in Window THEN Resting ELSE [Resting EXCEPT !.step = "gone"]
End(p) == op' = [op EXCEPT ![p] = Rest(p)] /\ holder' = Nil

Marked(s, wasOld) == [schedule |-> s, oldEnabled |-> wasOld = "enabled"]

\* The task runs the snapshot of the registration, by its name, its arguments and its
\* definition (_validate_external_task_definition).
TaskMatches(s) == old[s] # "foreign"

\* _inspect_external_document: the schedule is neither taken over already nor known
\* here, its snapshot can be read and belongs to the registration (fingerprint,
\* schedule, settings), and the task does not run and can be restored.
Importable(s) ==
  /\ ~source[s].migrated
  /\ target[s] = Nil
  /\ source[s].whole
  /\ <<"old", s>> \notin running
  /\ TaskMatches(s)

\* The inspection in the transaction of the old registry, and the journal.
Begin(w, s) ==
  /\ AtStep(w, "idle") /\ holder = Nil
  /\ journal = Nil
  /\ Importable(s)
  /\ holder' = w /\ journal' = Marked(s, old[s])
  /\ op' = [op EXCEPT ![w] = [Resting EXCEPT !.step = "create", !.schedule = s, !.old = old[s],
                                          !.wasEnabled = source[s].enabled]]
  /\ UNCHANGED <<stores, running, history, ghosts, bounds>>

\* A step of the import: it is done and recorded in the journal; it fails; or it is
\* done and the journal cannot be written.
Effect(w, step, next) ==
  /\ AtStep(w, step)
  /\ \/ Go(w, next) /\ UNCHANGED bounds
     \/ Go(w, "undo") /\ Failing

NoEffect(w, step) == AtStep(w, step) /\ Failing /\ Go(w, "undo")

\* create_schedule, always disabled.  The cleanup of old snapshots at its end may fail when
\* the registration is written, and the snapshot is deleted then.
Create(w) ==
  LET s == op[w].schedule IN
  /\ AtStep(w, "create")
  /\ \/ /\ \/ op' = [op EXCEPT ![w].imported = TRUE, ![w].step = "disable"] /\ UNCHANGED bounds
           \/ op' = [op EXCEPT ![w].imported = TRUE, ![w].step = "undo"] /\ Failing
        /\ target' = [target EXCEPT ![s] = "disabled"]
     \/ Failing /\ Go(w, "undo") /\ target' = [target EXCEPT ![s] = "damaged"]
  /\ UNCHANGED <<source, old, task, journal, holder, running, history, ghosts>>

\* The old task is disabled when it was enabled.
DisableOld(w) ==
  /\ Effect(w, "disable", "enable")
  /\ old' = [old EXCEPT ![op[w].schedule] = IF @ = "enabled" THEN "disabled" ELSE @]
  /\ UNCHANGED <<source, target, task, journal, holder, running, history, ghosts>>

\* Mutant: what is imported is always enabled.
EnableAlways(w) ==
  /\ Effect(w, "enable", "mark")
  /\ target' = [target EXCEPT ![op[w].schedule] = "enabled"]
  /\ task' = [task EXCEPT ![op[w].schedule] = TRUE]
  /\ UNCHANGED <<source, old, journal, holder, running, history, ghosts>>

\* enable_schedule, when the schedule was enabled in the old place.
EnableTarget(w) ==
  LET s == op[w].schedule IN
  /\ Effect(w, "enable", "mark")
  /\ IF op[w].wasEnabled
     THEN target' = [target EXCEPT ![s] = "enabled"] /\ task' = [task EXCEPT ![s] = TRUE]
     ELSE UNCHANGED <<target, task>>
  /\ UNCHANGED <<source, old, journal, holder, running, history, ghosts>>

\* The registration in the old place becomes MIGRATED_OUT.
MarkSource(w) ==
  /\ AtStep(w, "mark")
  /\ \/ op' = [op EXCEPT ![w].marked = TRUE, ![w].step = "merge"] /\ UNCHANGED bounds
     \/ op' = [op EXCEPT ![w].marked = TRUE, ![w].step = "undo"] /\ Failing
  /\ source' = [source EXCEPT ![op[w].schedule] =
       [@ EXCEPT !.enabled = FALSE, !.migrated = TRUE]]
  /\ UNCHANGED <<old, target, task, journal, holder, running, history, ghosts>>

StepFails(w) ==
  /\ \/ \E step \in {"create", "mark"} : NoEffect(w, step)
     \/ op[w].old = "enabled" /\ NoEffect(w, "disable")
     \/ op[w].wasEnabled /\ NoEffect(w, "enable")
  /\ UNCHANGED <<stores, journal, holder, running, history, ghosts>>

\* RunLedger.merge_from; a failure is only shown.
MergeHistory(w) ==
  LET s == op[w].schedule IN
  /\ AtStep(w, "merge") /\ Go(w, IF op[w].old = Nil THEN "finish" ELSE "delete")
  /\ \/ merged' = merged \cup {s} /\ UNCHANGED <<warned, bounds>>
     \/ warned' = warned \cup {s} /\ UNCHANGED merged /\ Failing
  /\ UNCHANGED <<stores, journal, holder, running, ghosts>>

DeleteOld(w) ==
  /\ AtStep(w, "delete")
  /\ old' = [old EXCEPT ![op[w].schedule] = Nil]
  /\ Go(w, "finish")
  /\ UNCHANGED <<source, target, task, journal, holder, running, history, ghosts, bounds>>

\* EXTERNAL_TASK_CLEANUP_PENDING: the old registry is written again, or not, the
\* journal stays; when that cannot be recorded in it the import is undone.
DeleteOldFails(w) ==
  LET s == op[w].schedule
      gone == op[w].old # Nil /\ old[s] = Nil   \* somebody else has deleted it
  IN
  /\ AtStep(w, "delete")
  /\ \/ /\ \/ gone /\ UNCHANGED bounds
           \/ Failing
        /\ source' = [source EXCEPT ![s].cleanup = "PENDING"]
        /\ End(w)
     \/ /\ faults + 1 < MaxFault /\ faults' = faults + 2 /\ UNCHANGED <<crashes, fires>>
        /\ \/ UNCHANGED source /\ End(w)
           \/ /\ source' = [source EXCEPT ![s].cleanup = "PENDING"]
              /\ op' = [op EXCEPT ![w].step = "undo", ![w].pending = TRUE]
              /\ UNCHANGED holder
  /\ UNCHANGED <<old, target, task, journal, running, history, ghosts>>

\* The journal is deleted; when it stays the next start looks at it again.
Finish(w) ==
  /\ AtStep(w, "finish")
  /\ \/ journal' = Nil /\ UNCHANGED bounds
     \/ UNCHANGED journal /\ Failing
  /\ End(w)
  /\ UNCHANGED <<stores, running, history, ghosts>>

-----------------------------------------------------------------------------
(* The import fails *)

\* The old registry as it was.  Its revision has moved when the pending cleanup was
\* written to it, and then it refuses.
UndoSource(w) ==
  LET s == op[w].schedule IN
  /\ AtStep(w, "undo")
  /\ \/ /\ op[w].marked => ~op[w].pending
        /\ source' = IF op[w].marked
                     THEN [source EXCEPT ![s] = [@ EXCEPT !.enabled = op[w].wasEnabled,
                                                          !.migrated = FALSE]]
                     ELSE source
        /\ Go(w, "undo target") /\ UNCHANGED bounds
     \/ /\ op[w].marked /\ UNCHANGED source
        /\ IF op[w].pending THEN UNCHANGED bounds ELSE Failing
        /\ op' = [op EXCEPT ![w].step = "undo target", ![w].errors = TRUE]
  /\ UNCHANGED <<old, target, task, journal, holder, running, history, ghosts>>

\* delete_schedule; it puts back the task when it fails, unless it is the cleanup after it.
UndoTarget(w) ==
  LET s == op[w].schedule IN
  /\ AtStep(w, "undo target")
  /\ \/ /\ IF op[w].imported
           THEN target' = [target EXCEPT ![s] = Nil] /\ task' = [task EXCEPT ![s] = FALSE]
           ELSE UNCHANGED <<target, task>>
        /\ Go(w, "undo old") /\ UNCHANGED bounds
     \/ /\ op[w].imported /\ Failing
        /\ op' = [op EXCEPT ![w].step = "undone", ![w].errors = TRUE]
        /\ \/ UNCHANGED <<target, task>>
           \/ target' = [target EXCEPT ![s] = Nil] /\ task' = [task EXCEPT ![s] = FALSE]
  /\ UNCHANGED <<source, old, journal, holder, running, history, ghosts>>

\* The old task from its definition, as it was exported at the beginning.
UndoOld(w) ==
  LET s == op[w].schedule IN
  /\ AtStep(w, "undo old")
  /\ \/ /\ old' = [old EXCEPT ![s] = IF op[w].old = Nil THEN @ ELSE op[w].old]
        /\ Go(w, "undone") /\ UNCHANGED bounds
     \/ /\ op[w].old # Nil /\ Failing /\ UNCHANGED old
        /\ op' = [op EXCEPT ![w].step = "undone", ![w].errors = TRUE]
  /\ UNCHANGED <<source, target, task, journal, holder, running, history, ghosts>>

Undone(w) ==
  /\ AtStep(w, "undone")
  /\ \/ journal' = (IF op[w].errors THEN journal ELSE Nil) /\ UNCHANGED bounds
     \/ ~op[w].errors /\ UNCHANGED journal /\ Failing
  /\ End(w)
  /\ UNCHANGED <<stores, running, history, ghosts>>

-----------------------------------------------------------------------------
(* _recover_migration_journal, at the start of every process *)

\* _migration_recovery_busy: any run has the global guard.
Busy == running # {}

\* The journal is read before the transaction is entered.
Open(p) ==
  /\ AtStep(p, "off")
  /\ IF journal = Nil \/ Busy
     THEN op' = [op EXCEPT ![p] = Rest(p)]
     ELSE op' = [op EXCEPT ![p] = [Resting EXCEPT !.step = "wait", !.schedule = journal.schedule,
                                                  !.enabled = journal.oldEnabled]]
  /\ UNCHANGED <<stores, journal, holder, running, history, ghosts, bounds>>

\* The transaction is had within 30 seconds, or not.
Enter(p) ==
  LET s == op[p].schedule IN
  /\ AtStep(p, "wait") /\ holder = Nil /\ holder' = p
  /\ Go(p, IF source[s].migrated /\ target[s] # Nil THEN "commit" ELSE "roll back")
  /\ UNCHANGED <<stores, journal, running, history, ghosts, bounds>>

GiveUpWaiting(p) ==
  /\ AtStep(p, "wait") /\ holder # Nil
  /\ op' = [op EXCEPT ![p] = Rest(p)]
  /\ UNCHANGED <<stores, journal, holder, running, history, ghosts, bounds>>

\* A warning, and the journal stays.
RecoveryFails(p) ==
  /\ op[p].step \in {"commit", "commit old", "commit delete", "committed",
                     "roll back", "roll back old", "roll back source"}
  /\ Failing
  /\ End(p)
  /\ UNCHANGED <<stores, journal, running, history, ghosts>>

\* _recover_committed_migration: the task here exists, and neither of them runs.
Commit(p) ==
  LET s == op[p].schedule IN
  /\ AtStep(p, "commit")
  /\ task' = [task EXCEPT ![s] = @ \/ target[s] = "enabled"]
  /\ IF running \cap {<<"new", s>>, <<"old", s>>} # {}
     THEN End(p)
     ELSE Go(p, IF old[s] = Nil THEN "committed" ELSE "commit old") /\ UNCHANGED holder
  /\ UNCHANGED <<source, old, target, journal, running, history, ghosts, bounds>>

CommitOld(p) ==
  LET s == op[p].schedule IN
  /\ \/ AtStep(p, "commit old") /\ Go(p, "commit delete")
        /\ old' = [old EXCEPT ![s] = IF @ = "enabled" THEN "disabled" ELSE @]
     \/ AtStep(p, "commit delete") /\ Go(p, "committed") /\ old' = [old EXCEPT ![s] = Nil]
  /\ UNCHANGED <<source, target, task, journal, holder, running, history, ghosts, bounds>>

\* Mutant: the transaction is left with the journal.
CommittedWithJournal(p) ==
  LET s == op[p].schedule IN
  /\ AtStep(p, "committed")
  /\ source' = [source EXCEPT ![s].cleanup = IF @ = Nil THEN Nil ELSE "COMPLETED"]
  /\ End(p)
  /\ UNCHANGED <<old, target, task, journal, running, history, ghosts, bounds>>

Committed(p) ==
  LET s == op[p].schedule IN
  /\ AtStep(p, "committed")
  /\ source' = [source EXCEPT ![s].cleanup = IF @ = Nil THEN Nil ELSE "COMPLETED"]
  /\ \/ journal' = Nil /\ UNCHANGED bounds
     \/ UNCHANGED journal /\ Failing
  /\ End(p)
  /\ UNCHANGED <<old, target, task, running, history, ghosts>>

\* _rollback_interrupted_migration, unless the old task is gone.
RollBack(p) ==
  LET s == op[p].schedule IN
  /\ AtStep(p, "roll back")
  /\ IF old[s] = Nil /\ op[p].enabled
     THEN End(p) /\ UNCHANGED <<target, task>>
     ELSE /\ target' = [target EXCEPT ![s] = Nil] /\ task' = [task EXCEPT ![s] = FALSE]
          /\ Go(p, "roll back old") /\ UNCHANGED holder
  /\ UNCHANGED <<source, old, journal, running, history, ghosts, bounds>>

RollBackOld(p) ==
  LET s == op[p].schedule IN
  /\ AtStep(p, "roll back old")
  /\ old' = [old EXCEPT ![s] =
       IF @ = Nil THEN Nil ELSE IF op[p].enabled THEN "enabled" ELSE "disabled"]
  /\ Go(p, "roll back source")
  /\ UNCHANGED <<source, target, task, journal, holder, running, history, ghosts, bounds>>

\* The registration in the old place as its stored schedule says.
RollBackSource(p) ==
  LET s == op[p].schedule IN
  /\ AtStep(p, "roll back source")
  /\ source' = IF source[s].migrated
               THEN [source EXCEPT ![s] =
                      [@ EXCEPT !.enabled = first[s][1], !.migrated = FALSE, !.cleanup = Nil]]
               ELSE source
  /\ \/ journal' = Nil /\ UNCHANGED bounds
     \/ UNCHANGED journal /\ Failing
  /\ End(p)
  /\ UNCHANGED <<old, target, task, running, history, ghosts>>

-----------------------------------------------------------------------------
(* What goes on beside it *)

\* A process dies and leaves the transaction.
Crash(p) ==
  /\ crashes < MaxCrash /\ crashes' = crashes + 1 /\ UNCHANGED <<faults, fires>>
  /\ op[p].step \notin {"off", "idle", "gone"}
  /\ op' = [op EXCEPT ![p] = IF p \in Window THEN Off ELSE [Resting EXCEPT !.step = "gone"]]
  /\ holder' = IF holder = p THEN Nil ELSE holder
  /\ UNCHANGED <<stores, journal, running, history, ghosts>>

\* The user closes the window; a later start recovers.
Close(w) ==
  /\ AtStep(w, "idle") /\ journal # Nil
  /\ op' = [op EXCEPT ![w] = Off]
  /\ UNCHANGED <<stores, journal, holder, running, history, ghosts, bounds>>

\* The schedule is deleted, or switched, in the window.
Delete(s) ==
  /\ "delete" \in Edits /\ target[s] # Nil
  /\ target' = [target EXCEPT ![s] = Nil] /\ task' = [task EXCEPT ![s] = FALSE]
  /\ UNCHANGED <<source, old>>

Switch(s) ==
  /\ "toggle" \in Edits /\ target[s] \in {"enabled", "disabled"}
  /\ target' = [target EXCEPT ![s] = IF @ = "enabled" THEN "disabled" ELSE "enabled"]
  /\ task' = [task EXCEPT ![s] = target[s] = "disabled"]
  /\ UNCHANGED <<source, old>>

\* remove_external_task, of a task that does not run.
RemoveExternal(s) ==
  /\ "remove" \in Edits /\ old[s] # Nil /\ <<"old", s>> \notin running
  /\ old' = [old EXCEPT ![s] = Nil]
  /\ UNCHANGED <<source, target, task>>

\* None of them takes the transaction of the old registry.
Edit(w) ==
  /\ AtStep(w, "idle")
  /\ \E s \in Schedule \ edited :
       /\ Delete(s) \/ Switch(s) \/ RemoveExternal(s)
       /\ edited' = edited \cup {s}
  /\ UNCHANGED <<journal, holder, op, running, history, first, bounds>>

\* A task fires.  The global guard lets one run at a time.
Fire ==
  /\ fires < MaxFire /\ fires' = fires + 1 /\ UNCHANGED <<faults, crashes>>
  /\ running = {}
  /\ \E s \in Schedule :
       \/ old[s] = "enabled" /\ running' = {<<"old", s>>}
       \/ task[s] /\ running' = {<<"new", s>>}
  /\ UNCHANGED <<stores, journal, holder, op, history, ghosts>>

RunEnds ==
  /\ running # {} /\ running' = {}
  /\ UNCHANGED <<stores, journal, holder, op, history, ghosts, bounds>>

-----------------------------------------------------------------------------

Import(w) ==
  \/ Create(w) \/ DisableOld(w) \/ EnableTarget(w) \/ MarkSource(w) \/ StepFails(w)
  \/ MergeHistory(w) \/ DeleteOld(w) \/ DeleteOldFails(w) \/ Finish(w)
  \/ UndoSource(w) \/ UndoTarget(w) \/ UndoOld(w) \/ Undone(w)

Recover(p) ==
  \/ Open(p) \/ Enter(p) \/ GiveUpWaiting(p)
  \/ Commit(p) \/ CommitOld(p) \/ Committed(p)
  \/ RollBack(p) \/ RollBackOld(p) \/ RollBackSource(p)

ImportNext ==
  \/ \E w \in Window : Import(w) \/ Edit(w) \/ Close(w) \/ \E s \in Schedule : Begin(w, s)
  \/ \E p \in Proc : Recover(p) \/ RecoveryFails(p) \/ Crash(p)
  \/ Fire \/ RunEnds

ImportSpec == ImportInit /\ [][ImportNext]_importVars

\* Processes get on, runs end, and the user closes and starts the program again.
FairSpec ==
  /\ ImportSpec /\ WF_importVars(RunEnds)
  /\ \A w \in Window : WF_importVars(Import(w)) /\ WF_importVars(Close(w))
  /\ \A p \in Proc : WF_importVars(Recover(p))

-----------------------------------------------------------------------------
(* Properties *)

ImportTypeOK ==
  /\ \A s \in Schedule :
       /\ source[s].enabled \in BOOLEAN /\ source[s].migrated \in BOOLEAN
       /\ source[s].cleanup \in {Nil, "PENDING", "COMPLETED"}
       /\ old[s] \in {Nil, "enabled", "disabled", "foreign"}
       /\ target[s] \in {Nil, "enabled", "disabled", "damaged"} /\ task[s] \in BOOLEAN
  /\ journal # Nil => journal.schedule \in Schedule /\ journal.oldEnabled \in BOOLEAN
  /\ holder \in Proc \cup {Nil}
  /\ \A p \in Proc : op[p].schedule \in Schedule \cup {Nil}

\* requirements.md:464: the old task and the new one are never enabled at the same
\* time, whatever fails or dies in between.
NeverBothEnabled == \A s \in Schedule : ~(old[s] = "enabled" /\ task[s])

\* The same, for a schedule that the user leaves alone.
ImportNeverEnablesBoth == \A s \in Schedule \ edited : ~(old[s] = "enabled" /\ task[s])

\* The schedule is where it was, or here and nowhere else.
Untouched(s) ==
  /\ target[s] = Nil /\ ~task[s] /\ ~source[s].migrated
  /\ source[s].enabled = first[s][1] /\ old[s] = first[s][2]
\* The same, but a registration without a snapshot is left here, which no later import
\* can replace.
Damaged(s) ==
  /\ target[s] = "damaged" /\ ~task[s] /\ ~source[s].migrated
  /\ source[s].enabled = first[s][1] /\ old[s] = first[s][2]
TakenOver(s) ==
  /\ source[s].migrated /\ old[s] = Nil
  /\ target[s] = IF first[s][1] THEN "enabled" ELSE "disabled"
  /\ task[s] = first[s][1]

\* A schedule is half imported only while the journal names it; otherwise it works in one
\* place only, and there as it was: requirements.md:464.
HalfImportedIsMarked ==
  \A s \in Schedule \ edited :
    Untouched(s) \/ Damaged(s) \/ TakenOver(s) \/ (journal # Nil /\ journal.schedule = s)

\* What the inspection refuses stays in the old place as it is: a task that was changed
\* by hand, and a schedule whose search conditions are damaged.
RefusedStaysPut ==
  \A s \in Schedule \ edited :
    first[s][2] = "foreign" \/ ~first[s][3] => Untouched(s)

\* What is unfinished is finished, or undone, by the starts that follow, unless the
\* user changes the schedule meanwhile.
Recovered == (journal # Nil) ~> (journal = Nil \/ edited # {})

\* README.md:224: the history is taken over as well, or the user is warned.
HistoryFollows == \A s \in Schedule :
  journal = Nil /\ source[s].migrated => s \in merged \cup warned

\* An imported schedule that the user has deleted does not come back in the old place.
DeletedStaysDeleted ==
  [][\A s \in edited : source[s].migrated => source'[s].migrated]_importVars

\* However an import ends, one installation owns the schedule, or the journal says
\* which one is to get it; two tasks are never enabled.
OwnedOnce ==
  /\ ImportTypeOK
  /\ ImportNeverEnablesBoth
  /\ HalfImportedIsMarked
  /\ RefusedStaysPut

-----------------------------------------------------------------------------
(* What the documentation says, and the code does not do *)

\* scheduler/service.py:4207: when an import fails on its way the registry here, the old one
\* and the old task are put back.  A failing cleanup leaves a registration without a
\* snapshot, and no journal.
FailedImportLeavesNothing ==
  \A s \in Schedule \ edited :
    Untouched(s) \/ TakenOver(s) \/ (journal # Nil /\ journal.schedule = s)

=============================================================================
