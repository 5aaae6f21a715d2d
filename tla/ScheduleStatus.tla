--------------------------- MODULE ScheduleStatus ---------------------------
(***************************************************************************)
(* The status that get_statuses of src/src/scheduler/service.py gives each *)
(* row of the list of schedules.  It is put together from four sources     *)
(* that no lock holds together: the registrations read in a transaction    *)
(* (Look), the snapshot files, the tasks of Windows and the run queue,     *)
(* which are asked afterwards.  The checks of paths, commands and          *)
(* fingerprints, which all end in "repair" as well, and the result of the  *)
(* last run are data and are left out.                                     *)
(***************************************************************************)
EXTENDS ScheduleRegistry, NextRun

-----------------------------------------------------------------------------
(* One row *)

\* What a run would load: the checks of the snapshot, its path and its command.
Readable(e) == e.snap \in file

\* The task of an enabled registration must be there with its definition.
TaskStatus(e, query, running) ==
  CASE query # e.snap -> "repair"
    [] query = e.snap /\ running -> "running"
    [] query = e.snap /\ ~running -> "registered"

\* _inspect_disabled_registration: a disabled one has what enabling it takes, and
\* no task.
DisabledStatus(e, query) ==
  IF Readable(e) /\ query = None THEN "disabled" ELSE "repair"

\* A task that no registration owns.
OrphanStatus(query) == IF query = None THEN "disabled" ELSE "external"

\* _status_from_entry of a task that could be queried.
StatusFromEntry(e, query, running) ==
  CASE e = None -> OrphanStatus(query)
    [] e # None /\ ~e.enabled -> DisabledStatus(e, query)
    [] e # None /\ e.enabled /\ ~Readable(e) -> "repair"
    [] e # None /\ e.enabled /\ Readable(e) -> TaskStatus(e, query, running)

\* _decorate_queue_status: the process of a waiting run is alive, and the run of
\* another process is executed by the dispatcher: the ticket knows better.
Decorated(status, s) ==
  CASE status = "repair" -> status
    [] status # "repair" /\ serves # None /\ run[serves].schedule = s -> "running"
    [] status # "repair" /\ \E r \in ticket \ {serves} : run[r].schedule = s -> "queued"
    [] OTHER -> status

\* What the registrations reg make of a schedule now.
StatusIn(reg, s) ==
  Decorated(StatusFromEntry(reg[s], task[s], RunningTask(s)), s)

\* Tasks of this installation that nobody registered.
Orphans(reg) == {s \in Schedule : reg[s] = None /\ task[s] # None}

\* The rows of the list.
Listed(reg) == {s \in Schedule : reg[s] # None} \cup Orphans(reg)

\* The row of a window that read the registrations a moment ago.
Shown(w, s) == StatusIn(seen[w].entry, s)

\* Rows that ask the user to repair or to remove something.
Alarm(status) == status \in {"repair", "external"}

-----------------------------------------------------------------------------
(* Properties *)

\* The status of a list is true although its sources are read one after the
\* other: unless a process died, two calls failed or the cleanup within its last
\* edit did, no row of a list of the current revision asks for a repair while
\* nobody edits.  And repairing helps: whatever failed or crashed before, the
\* registration that an operation has written shows no alarm (EditHeals).
NoFalseAlarm ==
  crashes = 0 /\ faults < 2 /\ holder = None =>
    \A w \in Window : seen[w] # None /\ seen[w].rev = rev =>
      \A s \in Listed(seen[w].entry) \ spoiled : ~Alarm(Shown(w, s))

EditHeals ==
  \A w \in Window, s \in Schedule :
    Put(w) /\ op[w].schedule = s => ~Alarm(StatusIn(entry, s))'

\* ... and the time of the next run that a row tells is right (NextRunTrue).  No
\* list has been read in an initial state.
StatusTrue == [][NoFalseAlarm' /\ EditHeals /\ NextRunTrue]_vars

=============================================================================
