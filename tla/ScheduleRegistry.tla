-------------------------- MODULE ScheduleRegistry --------------------------
(***************************************************************************)
(* The registrations of scheduled runs: ScheduleService of                 *)
(* src/src/scheduler/service.py on the registry document, the immutable    *)
(* snapshots and the tasks of Windows.  An operation changes the three     *)
(* stores one after the other, under the transaction of the registry, and  *)
(* rolls back by hand.  Tasks fire and their runs queue, load a snapshot   *)
(* and end beside it (main.py); they only share the files, the tickets and *)
(* two guards.  A superseded snapshot stays until a cleanup finds nobody   *)
(* that needs it.                                                          *)
(***************************************************************************)
EXTENDS Naturals, FiniteSets, FiniteSetsExt

CONSTANTS Schedule,
          Window,     \* processes that edit the registrations
          Run,        \* processes that a task starts
          MaxSnap,    \* bound: snapshots created
          MaxCall,    \* bound: calls of the service begun
          MaxFault,   \* bound: calls of the system that fail
          MaxCrash,   \* bound: processes that die
          Fails,      \* the calls of the system that may fail
          Unknown,    \* the task could not be queried
          None

Snap == 1 .. MaxSnap

\* A registration: its snapshot and those it retains, its folder, and which of the
\* schedules made so far it is.
Entry == [snap : Snap, enabled : BOOLEAN, kept : SUBSET Snap, key : Nat, life : Nat]

ASSUME RegistryAssumption ==
  /\ MaxSnap \in Nat /\ MaxCall \in Nat /\ MaxFault \in Nat /\ MaxCrash \in Nat
  /\ Window \cap Run = {}
  /\ Fails \subseteq {"query", "queue", "task", "restore", "put", "collect", "sweep"}
  /\ None \notin Schedule \cup Window \cup Run \cup Nat \cup Entry
  /\ Unknown \notin Nat \cup {None}

Proc == Window \cup Run

VARIABLES rev,        \* revision of the registry
          entry,      \* its registrations: snap, enabled, kept, storage key and life
          dropped,    \* its retained_snapshots: <<schedule, snap>> of deleted entries
          sequence,   \* its next_storage_sequence
          file,       \* the snapshots that exist
          made,       \* how many snapshots have been created
          task,       \* the snapshot that the Windows task of a schedule runs, or None
          holder,     \* who is in the transaction of the registry
          op,         \* the call in progress of each process
          seen,       \* what the process of a window listed last: revision and
                      \* registrations, or None
          run,        \* step, schedule and snapshot of each started process
          ticket,     \* the runs that have a ticket in the run queue
          dispatcher, \* the run that has the dispatcher's lease
          serves,     \* the run whose ticket it serves
          lives,      \* history: how often a schedule was created
          folders,    \* history: <<storage key, life>> handed out
          spoiled,    \* history: schedules whose last edit failed in its cleanup
          calls, faults, crashes

stores == <<rev, entry, dropped, sequence, file, made, task>>
registryVars == <<rev, entry, dropped, sequence>>
runVars == <<run, ticket, dispatcher, serves>>
ghosts == <<lives, folders, spoiled>>
bounds == <<calls, faults, crashes>>
vars == <<stores, holder, op, seen, runVars, ghosts, bounds>>

Idle == [call |-> "none", step |-> "idle", schedule |-> None, new |-> None,
         prev |-> None, prevTask |-> None, running |-> FALSE,
         completed |-> None, at |-> None,
         queued |-> {}, todo |-> {}, removed |-> {}]

NoRun == [step |-> "idle", schedule |-> None, snap |-> None]

Init ==
  /\ rev = 0 /\ sequence = 1 /\ made = 0
  /\ entry = [s \in Schedule |-> None]
  /\ dropped = {} /\ file = {}
  /\ task = [s \in Schedule |-> None]
  /\ holder = None
  /\ op = [p \in Proc |-> Idle]
  /\ seen = [w \in Window |-> None]
  /\ run = [r \in Run |-> NoRun]
  /\ ticket = {} /\ dispatcher = None /\ serves = None
  /\ lives = 0 /\ folders = {} /\ spoiled = {}
  /\ calls = 0 /\ faults = 0 /\ crashes = 0

-----------------------------------------------------------------------------
(* What the operations ask *)

At(p, step) == op[p].step = step
Go(p, step) == op' = [op EXCEPT ![p].step = step]

\* The call returns and leaves the transaction; a window looks again before it edits.
End(p) ==
  /\ op' = [op EXCEPT ![p] = Idle] /\ holder' = None
  /\ seen' = IF p \in Window THEN [seen EXCEPT ![p] = None] ELSE seen

\* The system fails in the call named by kind.
Failing(kind) == kind \in Fails /\ faults < MaxFault /\ faults' = faults + 1

\* Windows shows an instance of the task as running while its process lives.
Alive == {"loaded", "queued", "dispatching", "turn", "running", "complete", "leaving"}
RunningTask(s) == \E r \in Run : run[r].schedule = s /\ run[r].step \in Alive

Active == {entry[s].snap : s \in {t \in Schedule : entry[t] # None}}

\* _snapshot_ids_for_entry
SnapsOf(e) == IF e = None THEN {} ELSE e.kept \cup {e.snap}

\* The snapshots of tickets that wait or run.
QueuedSnaps == {run[r].snap : r \in ticket}

\* next_storage_key: the number never goes back.
NextKey ==
  Max({sequence} \cup {entry[s].key + 1 : s \in {t \in Schedule : entry[t] # None}})

\* _prepare_schedule_storage: a registered schedule keeps its folder.
KeyFor(prev) == IF prev = None THEN NextKey ELSE prev.key

\* _make_entry: the snapshots of the previous entry are retained.
EntryFor(o, enabled) ==
  [snap |-> o.new, enabled |-> enabled, kept |-> SnapsOf(o.prev) \ {o.new},
   key |-> KeyFor(o.prev), life |-> IF o.prev = None THEN lives ELSE o.prev.life]

\* write_unlocked replaces the file atomically and raises the revision.
WriteRegistry(e, d) ==
  /\ entry' = e /\ dropped' = d /\ rev' = rev + 1
  /\ sequence' = Max({sequence} \cup
                     {e[s].key + 1 : s \in {t \in Schedule : e[t] # None}})

-----------------------------------------------------------------------------
(* Beginning a call *)

\* The process of a window lists the registrations, in its window or for the
\* refresh in the background: the adapter keeps the revision of the latest list.
Look(w) ==
  /\ At(w, "idle") /\ holder = None
  /\ calls < MaxCall
  /\ seen[w] # None => seen[w].rev # rev
  /\ seen' = [seen EXCEPT ![w] = [rev |-> rev, entry |-> entry]]
  /\ UNCHANGED <<stores, holder, op, runVars, ghosts, bounds>>

\* What an edit remembers when it is in the transaction.
Started(call, step, s, prevTask) ==
  [Idle EXCEPT !.call = call, !.step = step, !.schedule = s,
               !.prev = entry[s], !.prevTask = prevTask,
               !.running = (prevTask \notin {None, Unknown}) /\ RunningTask(s)]

\* An edit says the revision of the latest list, if there is one since the last
\* edit: the current one, or it is refused.
RevisionFits(w) == seen[w] # None => seen[w].rev = rev

\* The query of the task, which may fail.
Queried(s, answer) ==
  \/ answer = task[s] /\ UNCHANGED faults
  \/ answer = Unknown /\ Failing("query")

Enter(w) ==
  /\ At(w, "idle") /\ holder = None /\ holder' = w
  /\ calls < MaxCall /\ calls' = calls + 1

\* register_schedule and _save_disabled_schedule, through create_schedule and
\* update_schedule: the new snapshot is written first.
BeginSave(w, s, call) ==
  /\ Enter(w) /\ made < MaxSnap
  /\ RevisionFits(w)
  /\ \E answer \in {task[s], Unknown} :
       /\ Queried(s, answer)
       /\ op' = [op EXCEPT ![w] =
            [Started(call, "task", s, answer) EXCEPT !.new = made + 1]]
  /\ made' = made + 1 /\ file' = file \cup {made + 1}
  /\ lives' = IF entry[s] = None THEN lives + 1 ELSE lives
  /\ UNCHANGED <<registryVars, task, seen, runVars, folders, spoiled, crashes>>

\* _apply_existing_registration: enable, disable and repair keep the snapshot,
\* which must be readable.
BeginApply(w, s, call) ==
  /\ Enter(w)
  /\ entry[s] # None /\ entry[s].snap \in file
  /\ RevisionFits(w)
  /\ \E answer \in {task[s], Unknown} :
       /\ Queried(s, answer)
       /\ op' = [op EXCEPT ![w] = Started(call, "task", s, answer)]
  /\ UNCHANGED <<stores, seen, runVars, ghosts, crashes>>

\* delete_schedule
BeginDelete(w, s) ==
  /\ Enter(w)
  /\ entry[s] # None
  /\ RevisionFits(w)
  /\ \E answer \in {task[s], Unknown} :
       /\ Queried(s, answer)
       /\ op' = [op EXCEPT ![w] = Started("delete", "task", s, answer)]
  /\ UNCHANGED <<stores, seen, runVars, ghosts, crashes>>

\* _require_revision refuses an edit of what another process has changed.
Conflict(w) ==
  /\ Enter(w) /\ seen[w] # None /\ seen[w].rev # rev
  /\ op' = [op EXCEPT ![w].step = "conflict"]
  /\ UNCHANGED <<stores, seen, runVars, ghosts, faults, crashes>>

ConflictReported(w) ==
  /\ At(w, "conflict") /\ End(w)
  /\ UNCHANGED <<stores, runVars, ghosts, bounds>>

-----------------------------------------------------------------------------
(* The three stores, one after the other *)

\* Mutant: disabling only changes the registration.
TaskAfterKept(o) ==
  CASE o.call = "register" -> o.new
    [] o.call \in {"enable", "disable"} -> o.prev.snap
    [] OTHER -> None

\* The snapshot that the task is to run, None to delete the task.
TaskAfter(o) ==
  CASE o.call = "register" -> o.new
    [] o.call = "enable" -> o.prev.snap
    [] OTHER -> None

\* A rollback has to follow when the task was changed; a task that could not be
\* queried counts as changed only by register and enable.
TaskChanged(o) ==
  o.call \in {"register", "enable"} \/ o.prevTask \notin {None, Unknown}

SetTask(w) ==
  /\ At(w, "task")
  /\ task' = [task EXCEPT ![op[w].schedule] = TaskAfter(op[w])]
  /\ Go(w, "put")
  /\ UNCHANGED <<registryVars, file, made, holder, seen, runVars, ghosts, bounds>>

\* The task was not changed: the new snapshot has to go, and delete restores anyway.
SetTaskFails(w) ==
  /\ At(w, "task") /\ Failing("task")
  /\ Go(w, IF op[w].call = "delete" /\ TaskChanged(op[w]) THEN "restore" ELSE "discard")
  /\ UNCHANGED <<stores, holder, seen, runVars, ghosts, calls, crashes>>

EntryAfter(o) ==
  CASE o.call = "register" -> EntryFor(o, TRUE)
    [] o.call = "save" -> EntryFor(o, FALSE)
    [] o.call = "enable" -> [o.prev EXCEPT !.enabled = TRUE]
    [] o.call = "disable" -> [o.prev EXCEPT !.enabled = FALSE]
    [] o.call = "delete" -> None

\* What a call has to look at: the retained snapshots of one schedule or of all.
Retained(s) ==
  {c \in Schedule \X Snap :
     /\ s \in {None, c[1]}
     /\ c \in dropped \/ (entry[c[1]] # None /\ c[2] \in entry[c[1]].kept)}

\* A call that found the task idle cleans up what its schedule retains; enabling
\* ends with a look at the status, which cleans up what all schedules retain.
Tidies(o) ==
  \/ /\ o.call \in {"register", "save", "delete"}
     /\ o.prevTask # Unknown /\ ~o.running
  \/ o.call = "enable" /\ ~RunningTask(o.schedule) /\ Retained(None) # {}

\* The registry is written, and the call returns or tidies up.
Put(w) ==
  LET o == op[w] IN
  /\ At(w, "put")
  /\ WriteRegistry([entry EXCEPT ![o.schedule] = EntryAfter(o)],
       IF o.call = "delete"
       THEN dropped \cup {<<o.schedule, n>> : n \in SnapsOf(o.prev)}
       ELSE dropped)
  /\ folders' = IF o.call \in {"register", "save"} /\ o.prev = None
                THEN folders \cup {<<KeyFor(o.prev), lives>>} ELSE folders
  /\ spoiled' = spoiled \ {o.schedule}
  /\ IF Tidies(o)
     THEN /\ op' = [op EXCEPT ![w].step = "queue",
                             ![w].schedule = IF o.call = "enable" THEN None ELSE @]
          /\ UNCHANGED <<holder, seen>>
     ELSE End(w)
  /\ UNCHANGED <<file, made, task, runVars, lives, bounds>>

PutFails(w) ==
  /\ At(w, "put") /\ Failing("put")
  /\ Go(w, IF TaskChanged(op[w]) THEN "restore" ELSE "discard")
  /\ UNCHANGED <<stores, holder, seen, runVars, ghosts, calls, crashes>>

\* Mutant: the previous task is not looked at.
TaskBeforeDeleted(o) == None

\* _restore_task: the task as it was, or as the previous entry says.
TaskBefore(o) ==
  CASE o.prevTask \notin {None, Unknown} -> o.prevTask
    [] o.prevTask \in {None, Unknown} /\ o.prev # None /\ o.prev.enabled -> o.prev.snap
    [] OTHER -> None

RestoreTask(w) ==
  /\ At(w, "restore")
  /\ task' = [task EXCEPT ![op[w].schedule] = TaskBefore(op[w])]
  /\ Go(w, "discard")
  /\ UNCHANGED <<registryVars, file, made, holder, seen, runVars, ghosts, bounds>>

\* Mutant: the new snapshot goes although the task still runs it.
RestoreFailsAndDiscards(w) ==
  /\ At(w, "restore") /\ Failing("restore")
  /\ End(w)
  /\ file' = file \ {op[w].new}
  /\ UNCHANGED <<registryVars, made, task, runVars, ghosts, calls, crashes>>

\* REGISTRATION_ROLLBACK_FAILED: register leaves its snapshot, which the task runs;
\* a disabled schedule has no task, and its snapshot goes.
RestoreFails(w) ==
  /\ At(w, "restore") /\ Failing("restore")
  /\ End(w)
  /\ file' = IF op[w].call = "save" THEN file \ {op[w].new} ELSE file
  /\ UNCHANGED <<registryVars, made, task, runVars, ghosts, calls, crashes>>

\* The call fails; the snapshot that it has created is deleted.
Discard(w) ==
  /\ At(w, "discard")
  /\ End(w)
  /\ file' = file \ {op[w].new}
  /\ UNCHANGED <<registryVars, made, task, runVars, ghosts, bounds>>

-----------------------------------------------------------------------------
(* cleanup_retained_snapshots *)

\* A window refreshes its list while snapshots are retained, or the dispatcher
\* finalises the run that has its record: the queue is read before the transaction.
BeginCleanup(p) ==
  /\ At(p, "idle")
  /\ \/ /\ p \in Window /\ calls < MaxCall /\ calls' = calls + 1
        /\ dropped # {} \/ \E s \in Schedule : entry[s] # None /\ entry[s].kept # {}
        /\ op' = [op EXCEPT ![p] =
             [Idle EXCEPT !.call = "cleanup", !.step = "wait", !.queued = QueuedSnaps]]
        /\ UNCHANGED run
     \/ /\ p \in Run /\ p = dispatcher /\ run[p].step = "running"
        /\ op' = [op EXCEPT ![p] =
             [Idle EXCEPT !.call = "finalize", !.step = "wait", !.queued = QueuedSnaps,
                          !.schedule = run[serves].schedule,
                          !.completed = run[serves].snap]]
        /\ run' = [run EXCEPT ![p].step = "complete"]
        /\ UNCHANGED calls
  /\ UNCHANGED <<stores, holder, seen, ticket, dispatcher, serves, ghosts, faults, crashes>>

\* In the transaction the registry is read.
Scan(p) ==
  /\ \/ At(p, "wait") /\ holder = None
        /\ op' = [op EXCEPT ![p].step = "collect", ![p].todo = Retained(op[p].schedule)]
     \/ At(p, "queue")
        /\ op' = [op EXCEPT ![p].step = "collect", ![p].todo = Retained(op[p].schedule),
                            ![p].queued = QueuedSnaps]
  /\ holder' = p
  /\ UNCHANGED <<stores, seen, runVars, ghosts, bounds>>

\* The queue cannot be read: nothing is collected.
QueueUnreadable(p) ==
  /\ At(p, "queue") /\ Failing("queue")
  /\ End(p)
  /\ UNCHANGED <<stores, runVars, ghosts, calls, crashes>>

\* Who holds the guard of a schedule, and the guard of all downloads.
ScheduleBusy(s) ==
  \/ serves # None /\ run[dispatcher].step \in {"running", "complete"}
     /\ run[serves].schedule = s
  \/ \E p \in Proc : At(p, "unlink") /\ op[p].at[1] = s
GloballyBusy ==
  \/ serves # None /\ run[dispatcher].step \in {"running", "complete"}
  \/ \E p \in Proc : At(p, "unlink") /\ op[p].completed = None

\* Mutant: the guards alone decide.
MayUnlinkByGuards(p, c) ==
  /\ c[2] \notin Active \cup op[p].queued
  /\ ~ScheduleBusy(c[1]) /\ ~GloballyBusy

\* delete_if_safe, up to the decision: neither active nor queued, both guards
\* taken, and no instance of the task runs.  The snapshot of a completed run is
\* decided by the guard of its schedule alone.
MayUnlink(p, c) ==
  /\ c[2] \notin Active \cup op[p].queued
  /\ ~ScheduleBusy(c[1])
  /\ op[p].completed # c[2] => ~GloballyBusy /\ ~RunningTask(c[1])

\* One retained snapshot: it stays, or the guards are held until it is unlinked.
Inspect(p) ==
  /\ At(p, "collect")
  /\ \E c \in op[p].todo :
       \/ /\ MayUnlink(p, c) /\ UNCHANGED faults
          /\ op' = [op EXCEPT ![p].step = "unlink", ![p].at = c]
       \/ /\ (~MayUnlink(p, c) /\ UNCHANGED faults) \/ Failing("query")
          /\ op' = [op EXCEPT ![p].todo = @ \ {c}]
  /\ UNCHANGED <<stores, holder, seen, runVars, ghosts, calls, crashes>>

Unlink(p) ==
  /\ At(p, "unlink")
  /\ file' = file \ {op[p].at[2]}
  /\ op' = [op EXCEPT ![p].step = "collect", ![p].todo = @ \ {op[p].at},
                      ![p].removed = @ \cup {op[p].at}]
  /\ UNCHANGED <<registryVars, made, task, holder, seen, runVars, ghosts, bounds>>

\* The registrations without the snapshots that were unlinked.
Swept(removed) ==
  [s \in Schedule |->
     IF entry[s] = None THEN None
     ELSE [entry[s] EXCEPT !.kept = @ \ {c[2] : c \in removed}]]

\* Everything was looked at; a registry that names less is written.
Collected(p) ==
  /\ At(p, "collect") /\ op[p].todo = {}
  /\ End(p)
  /\ IF op[p].removed = {} THEN UNCHANGED registryVars
     ELSE WriteRegistry(Swept(op[p].removed), dropped \ op[p].removed)
  /\ UNCHANGED <<file, made, task, runVars, ghosts, bounds>>

\* The write fails.  Within register and save the error rolls the task back and
\* deletes the new snapshot, although the entry that names it was written.
CollectFails(p) ==
  /\ At(p, "collect") /\ op[p].todo = {} /\ op[p].removed # {}
  /\ Failing(IF op[p].call \in {"register", "save"} THEN "collect" ELSE "sweep")
  /\ IF op[p].call \in {"register", "save"}
     THEN /\ op' = [op EXCEPT ![p].step = IF TaskChanged(op[p]) THEN "restore" ELSE "discard"]
          /\ spoiled' = spoiled \cup {op[p].schedule}
          /\ UNCHANGED <<holder, seen>>
     ELSE End(p) /\ UNCHANGED spoiled
  /\ UNCHANGED <<stores, runVars, lives, folders, calls, crashes>>

-----------------------------------------------------------------------------
(* Scheduled runs *)

RunGoes(r, step) == run' = [run EXCEPT ![r].step = step]

\* The task fires, by its trigger or by run_schedule_now, and its process loads the
\* snapshot; without it the run is refused and nothing happens here.
Fire(r, s) ==
  /\ run[r].step = "idle" /\ task[s] \in file
  /\ run' = [run EXCEPT ![r] = [step |-> "loaded", schedule |-> s, snap |-> task[s]]]
  /\ UNCHANGED <<stores, holder, op, seen, ticket, dispatcher, serves, ghosts, bounds>>

\* Its request gets a ticket unless its schedule has one.
Queue(r) ==
  /\ run[r].step = "loaded"
  /\ IF \E q \in ticket : run[q].schedule = run[r].schedule
     THEN RunGoes(r, "ended") /\ UNCHANGED ticket
     ELSE RunGoes(r, "queued") /\ ticket' = ticket \cup {r}
  /\ UNCHANGED <<stores, holder, op, seen, dispatcher, serves, ghosts, bounds>>

\* The process becomes the dispatcher, or leaves its ticket to the one there is.
Lease(r) ==
  /\ run[r].step = "queued"
  /\ IF dispatcher = None
     THEN dispatcher' = r /\ RunGoes(r, "dispatching")
     ELSE UNCHANGED dispatcher /\ RunGoes(r, "ended")
  /\ UNCHANGED <<stores, holder, op, seen, ticket, serves, ghosts, bounds>>

\* The dispatcher claims a ticket and has its turn.
Claim(r) ==
  /\ run[r].step = "dispatching" /\ dispatcher = r
  /\ \E q \in ticket : serves' = q
  /\ RunGoes(r, "turn")
  /\ UNCHANGED <<stores, holder, op, seen, ticket, dispatcher, ghosts, bounds>>

\* A ticket of another process is served from its snapshot; without it, or with
\* the schedule busy, the request ends with a record of its failure.
Serve(r) ==
  /\ run[r].step = "turn" /\ ~GloballyBusy
  /\ IF (serves = r \/ run[serves].snap \in file) /\ ~ScheduleBusy(run[serves].schedule)
     THEN RunGoes(r, "running") /\ UNCHANGED <<ticket, serves>>
     ELSE /\ RunGoes(r, "dispatching")
          /\ ticket' = ticket \ {serves} /\ serves' = None
  /\ UNCHANGED <<stores, holder, op, seen, dispatcher, ghosts, bounds>>

\* The snapshot was finalised: the ticket goes.
Complete(r) ==
  /\ run[r].step = "complete" /\ At(r, "idle")
  /\ RunGoes(r, "dispatching")
  /\ ticket' = ticket \ {serves} /\ serves' = None
  /\ UNCHANGED <<stores, holder, op, seen, dispatcher, ghosts, bounds>>

\* The queue is empty: the dispatcher gives up its lease, a moment later.
FindEmpty(r) ==
  /\ run[r].step = "dispatching" /\ dispatcher = r /\ ticket = {}
  /\ RunGoes(r, "leaving")
  /\ UNCHANGED <<stores, holder, op, seen, ticket, dispatcher, serves, ghosts, bounds>>

Leave(r) ==
  /\ run[r].step = "leaving"
  /\ RunGoes(r, "ended") /\ dispatcher' = None
  /\ UNCHANGED <<stores, holder, op, seen, ticket, serves, ghosts, bounds>>

\* A process dies: its locks go, what it has written stays.
Crash(p) ==
  /\ crashes < MaxCrash /\ crashes' = crashes + 1
  /\ op[p] # Idle \/ (p \in Run /\ run[p].step \in Alive)
  /\ op' = [op EXCEPT ![p] = Idle]
  /\ holder' = IF holder = p THEN None ELSE holder
  /\ run' = IF p \in Run THEN [run EXCEPT ![p].step = "ended"] ELSE run
  /\ IF dispatcher = p THEN dispatcher' = None /\ serves' = None
     ELSE UNCHANGED <<dispatcher, serves>>
  /\ seen' = IF p \in Window THEN [seen EXCEPT ![p] = None] ELSE seen
  /\ UNCHANGED <<stores, ticket, ghosts, calls, faults>>

-----------------------------------------------------------------------------

Edit(w) ==
  \/ Look(w) \/ Conflict(w) \/ ConflictReported(w)
  \/ \E s \in Schedule : \/ BeginSave(w, s, "register") \/ BeginSave(w, s, "save")
                         \/ BeginApply(w, s, "enable") \/ BeginApply(w, s, "disable")
                         \/ BeginDelete(w, s)
  \/ SetTask(w) \/ SetTaskFails(w) \/ Put(w) \/ PutFails(w)
  \/ RestoreTask(w) \/ RestoreFails(w) \/ Discard(w)

Cleanup(p) ==
  \/ BeginCleanup(p) \/ Scan(p) \/ QueueUnreadable(p) \/ Inspect(p) \/ Unlink(p)
  \/ Collected(p) \/ CollectFails(p)

RunStep(r) ==
  \/ \E s \in Schedule : Fire(r, s)
  \/ Queue(r) \/ Lease(r) \/ Claim(r) \/ Serve(r)
  \/ Complete(r) \/ FindEmpty(r) \/ Leave(r)

Next ==
  \/ \E w \in Window : Edit(w)
  \/ \E p \in Proc : Cleanup(p) \/ Crash(p)
  \/ \E r \in Run : RunStep(r)

Spec == Init /\ [][Next]_vars

-----------------------------------------------------------------------------
(* Properties *)

TypeOK ==
  /\ rev \in Nat /\ sequence \in Nat /\ made \in 0 .. MaxSnap
  /\ entry \in [Schedule -> Entry \cup {None}]
  /\ task \in [Schedule -> Snap \cup {None}]
  /\ dropped \subseteq Schedule \X Snap /\ file \subseteq Snap
  /\ holder \in Proc \cup {None}
  /\ ticket \subseteq Run /\ dispatcher \in Run \cup {None} /\ serves \in ticket \cup {None}

\* A schedule in the registry has its snapshot, whatever failed or crashed: an
\* operation that cannot finish keeps the old one or the new one.  Only an edit
\* that fails in the cleanup after its write spoils its schedule until the next one.
EntryHasSnapshot ==
  \A s \in Schedule \ spoiled : entry[s] # None => entry[s].snap \in file

\* So does a task that Windows may start at any moment.
TaskHasSnapshot ==
  \A s \in Schedule \ spoiled : task[s] # None => task[s] \in file

\* A call that gives up, before a cleanup has unlinked anything, leaves the
\* registration as it was, and the task as it was or as the registration says.
LeavesAsBefore(w) ==
  LET o == op[w]
      s == o.schedule
  IN Discard(w) /\ o.prevTask # Unknown /\ o.removed = {} =>
       /\ entry'[s] = o.prev
       /\ \/ task'[s] = o.prevTask
          \/ o.prevTask = None /\ o.prev.enabled /\ task'[s] = o.prev.snap

\* An operation that reports a failure, other than of its rollback or of the cleanup
\* after its write, leaves the registration as it was, and the task as it was or as
\* the registration says.
FailureChangesNothing == [][\A w \in Window : LeavesAsBefore(w)]_vars

\* A cleanup never unlinks the snapshot of a run whose process lives, nor that of
\* the run that the dispatcher executes, unless the schedule is spoiled: its task
\* may then run a retained snapshot.
CleanupSparesRuns ==
  \A p \in Proc : At(p, "unlink") =>
    \A r \in Run : run[r].snap = op[p].at[2] /\ run[r].schedule \notin spoiled =>
      /\ run[r].step \notin Alive
      /\ serves = r => run[dispatcher].step = "turn"

\* A folder is never given to a second schedule, even after the first was deleted.
FolderOfOneSchedule ==
  \A f, g \in folders : f[1] = g[1] => f = g

\* Every snapshot belongs to a registration, a retained entry or a call in
\* progress, unless a process died or something failed twice.
NoSnapshotForgotten ==
  crashes = 0 /\ faults < 2 =>
    file \subseteq Active \cup {c[2] : c \in Retained(None)}
                   \cup {op[w].new : w \in Window}
                   \cup UNION {{c[2] : c \in op[p].removed} : p \in Proc}

\* What is registered, or may be started by Windows, has its snapshot, no other
\* snapshot is forgotten, and folders stay with their schedules.
SnapshotsKept ==
  /\ TypeOK
  /\ EntryHasSnapshot
  /\ TaskHasSnapshot
  /\ NoSnapshotForgotten
  /\ FolderOfOneSchedule

-----------------------------------------------------------------------------
(* What the documentation and the comments say, and the code does not do *)

\* A cleanup never unlinks the snapshot that a ticket needs.
CleanupSparesTickets ==
  \A p \in Proc : At(p, "unlink") => \A r \in ticket : run[r].snap # op[p].at[2]

\* What is registered has its snapshot, also after a cleanup has failed: it runs
\* within the try block of the registration (service.py).
EntryAlwaysHasSnapshot == \A s \in Schedule : entry[s] # None => entry[s].snap \in file

=============================================================================
