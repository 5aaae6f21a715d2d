# ippi-down in TLA+

ippi-down downloads public-works documents from i-ppi.jp on Windows, from a GUI,
from the command line and from scheduled runs started by the Windows Task
Scheduler.  The programs that run at the same time (several scheduled runs, a GUI,
a `--run-once`) are separate processes that share named mutexes and files; nothing
coordinates them but those.  Inside the GUI there are threads that share queues.
This directory holds TLA+ models of all of that, the TLC configurations that check
them on small instances, and TLAPS proofs for instances of any size.  Paths below
are relative to the repository's `src/`.

## 1. Inventory

| Part | State it keeps | Operations | What is hard |
|---|---|---|---|
| Run guards, `app/run_guard.py` | one kernel object or file lock per name, one `threading.Lock` per `RunGuard` | `try_acquire` | exclusion by existence of a kernel object; crash; transient handles of refused callers |
| Identifiers, `app/run_queue.py`, `scheduler/service.py` | one file per user, one per installation | find, take over, create, read | two first starts at once, a file created and not yet written |
| Run queue, `app/run_queue.py` | one JSON ticket per waiting or running request (`queued`, `running`, `retry_waiting`), state lock, dispatcher lease | enqueue, claim, turn, state change, complete, list, manual slot, wait for turn | requeue of tickets of dead dispatchers, FIFO against a clock that jumps, manual runs that must not overtake |
| Dispatcher, `main.py` `_run_cli_mode` | nothing of its own but locks; the ticket it serves | launch, enqueue, lease, claim, turn, load, schedule lease, run, record, notify, complete | crash at any step, hand-over to the next launch, duplicated notifications, faults of the queue |
| Headless execution, `app/headless.py` | attempts, retries, processing deadline | `execute_headless` | deadline against retries and queue waits, exactly one record, counts over attempts |
| Run history, `scheduler/ledger.py` | append-only JSONL file | `append`, `recent`, `latest`, `merge_from` | torn tail after a crash, two ledgers merged in both directions at once |
| Notifications, `utils/scheduled_notifier.py` | run ids seen by this process | `notify` | once per run although processes crash and take over |
| Schedule registration, `scheduler/service.py`, `registration.py` | registry document with a revision, snapshots, Windows tasks | register, save, enable, disable, repair, delete, cleanup, status | three stores changed without a transaction; crash between steps; revision conflicts; snapshots that waiting tickets still need |
| Relocation, `scheduler/installation.py`, `service.py` | two location files, journal | confirm the present place, apply, undo, resume | restart in the middle, journal replay, runs that start meanwhile |
| Import from another installation, `scheduler/service.py` | migration journal, both registries, both tasks | preview, import, recover, remove the old task | ownership must never be in two places, crash between steps |
| Reclassification, `storage/reclassification.py` | journal, files, history aliases | scan, apply, recover | crash in the middle of a list of moves, plans made from an older preview |
| Download engine, `core/downloader.py` | files, download history | run, download, reuse, cancel | history against file, partial failure, cancellation |
| HTTP client, `utils/http_client.py`, `utils/outbound_policy.py` | `.part` files, rate window, retry state | `download_file`, get, post | retries and waits against cancellation, what a dead attempt has left |
| HTML to PDF, `core/html_to_pdf.py`, `core/windows_process_supervisor.py` | child processes, job object, temporary files | convert, supervise, terminate | time-outs against late exits, children of children, cleanup |
| Application run, `app/service.py`, `core/scraper.py` | projects, summary, decisions, outcome | search, extract, filter, download | partial failures must not become "nothing found" |
| Agency hierarchy, `core/extractor/agency_hierarchy_service.py` | catalogue and list branches per search target | look up, refresh, publish | two sources that contradict each other, stale branches |
| GUI events and option loads, `gui/event_handler.py`, `gui/option_load_coordinator.py` | two queues and a merged slot, the tasks of one worker | emit, call, poll, request, cancel | events of a run that is over, stale answers, a full queue |
| Main window, `gui/main_window.py` | what is shown, the download thread | start, cancel, select, reload, close | an answer that arrives after another selection, a reload or a close |
| Settings dialog, `gui/settings_dialog.py`, `schedule_management.py` | list, selection, detail, open editors, drafts | refresh, select, edit, save | conflicts with other processes, answers in any order, editors that open again |
| Configuration, names, parsing, editor and result dialogs | documents, text, widgets | load, save, parse, show | data, not control |

The parts interact as follows.  Windows starts one process per due schedule; it
validates its installation and snapshot (`main`), recovers an unfinished import, puts a
ticket in the queue and tries to become the dispatcher.  The dispatcher takes the oldest
ticket, waits until it is the head of the queue and the global guard is free, loads the
ticket's snapshot, takes the guard of the schedule, executes the job with its
retries, appends a record to the history, shows a notification, and deletes the
ticket.  A job is one `ApplicationService.run`: it searches, reads detail pages, decides
about every document and hands the list to the download engine, which fetches through the
HTTP client and converts bid sheets to PDF in child processes.  The GUI takes the global
guard only when no ticket waits; `--run-once` takes it whenever it is free.  The download
thread, the option worker and the threads of the lists of schedules tell the window
through one event handler.  The schedule service of the GUI changes the registrations,
moves them when the installation was moved, takes over those of other installations, and
removes snapshots that neither a task, a ticket nor a run needs.

What makes each part correct is stated by the properties of section 4; the hazards, at the
lines where they bite, are in `PROJECT.json`, with those that found no place there at the
end of section 8.

## 2. Plan, and what is done of it

The order was that of importance: what decides whether scheduled runs happen at all, then
what may lose or mix up registrations, then files, then what the user sees.

| Step | Modules | Proofs | State |
|---|---|---|---|
| 1. the lock | `TryLock`, `RunGuard`, `Identity` | `IdentityProofs` | done |
| 2. processes around the queue | `RunQueue`, `Dispatcher` | `DispatcherProofs` | done |
| 3. a job | `Job`, `Headless` | `ExecutionProofs` | done |
| 4. the history | `Ledger` | `ExecutionProofs` | done |
| 5. registrations | `ScheduleRegistry`, `ScheduleStatus`, `NextRun` | `RegistryProofs` | done |
| 6. moving and taking over | `Relocation`, `ScheduleImport` | `RelocationProofs`, `IdentityProofs` (import) | done |
| 7. files | `HttpDownload`, `Downloads`, `Reclassify`, `Conversion` | `DownloadsProofs`, `ReclassifyProofs`, `DesktopProofs` | done |
| 8. the program's run and the window | `ApplicationRun`, `AgencyCatalog`, `EventHandler`, `OptionLoads`, `ScheduleManager`, `MainWindow` | `DesktopProofs` (the run, the lists of schedules) | partly proved |

Wanted next: the notifications' set of seen runs; the policy of allowed hosts; the schedule
editor as a component of its own.

How modules compose: `Identity` extends `RunGuard` (the state lock of the queue whose
name the processes agree on first); `Dispatcher` extends `RunQueue` and uses the guards
as `TryLock` promises them; `Headless` implements `Job`, which is all `Dispatcher` knows
of a job; `Downloads` extends `HttpDownload`; `ScheduleStatus` extends
`ScheduleRegistry` and `NextRun`; `MainWindow` extends `ApplicationRun`, `OptionLoads`
(with `EventHandler` and `AgencyCatalog`) and `ScheduleManager`.


## 3. Modules and the code

### TryLock, RunGuard, Identity: `app/run_guard.py`, `app/run_queue.py`, `scheduler/service.py`

`TryLock` is what `with guard.try_acquire() as acquired` promises its users: one
variable, `holder`.  All other modules use guards in this form.  `RunGuard` is the
code: the lock of the `RunGuard` object (`local`), then the mutex of the system.  On
Windows the guard rests on whether `CreateMutexW` *created* the kernel object, so the
model has the open `handles`, those of refused callers too; elsewhere it rests on
`flock`.  `windows` is chosen in the initial state, so one run covers both.  Each
system call is an action; `ProcessEnds` takes a process away at any point and the
system closes its handles.

`Identity` stands before the guard of the queue: processes that do not know the same
identifier do not ask for the same mutex.  `id[p]` is what a process knows (of its queue,
for coordination and as namespace of tasks), `file` what the identifier files hold, `Empty`
between `open("x")` and the write.  A caller of `RunGuard` may begin only when its process has
found its queue, so `OneQueue` is about both.

### RunQueue, Dispatcher: `app/run_queue.py`, `main.py`

`RunQueue` holds the ticket files (`state`, `disp`, `order`) and the operations on
them.  Each public operation holds the state lock throughout and replaces one file
atomically, so it is one step; each begins with `_read_tickets_locked`, which is not
a mere read: `AfterRead` is what it leaves.  A detached ticket is the request of a
scheduled run and keeps the identity of the process that made it.

`Dispatcher` is `_run_cli_mode` around it, with one action per point at which another
process may get between: launch, enqueue, lease, claim, turn, load, schedule guard,
job (`Finish`, `WaitForRetry`, `RetryJob`), record, notify, release, complete, exit.
`cur` is the ticket that a process works on, which is usually not its own.  Beside the
scheduled runs stand the GUI (`ManualStart`; the cleanup of snapshots, which takes
the guards of schedules; a reader that unlinks a ticket it cannot read) and
`--run-once`.  `Crash` ends any process at any step.  `Fault` marks every action in
which a file or lock operation fails; `crashes` and `faults` bound them and let
properties say "unless".  `arrival`, `ran`, `records`, `notified` are history: the true
order of arrival, which the clock in `order` need not agree with, and how often a
request was executed, recorded and notified.

### Job, Headless: `app/headless.py`

`Job` is the part of a job that `Dispatcher` sees; `Headless` implements it
(`ImplementsJob`), with `phase` and `retried` read off its step and its retries.
`Headless` is `execute_headless` for its three callers (`mode`); the queued one, which waits for its
turn within the execution, is that of the tests, for the program calls with the turn already taken
(`main.py:1355`, `1509`).  Time is a counter that
waits and attempts advance; `Overshoot` is how late a wait or a check may notice that its
time has come.  The runner returns any result that `ApplicationService.run` can
(`RunnerReturns`): each document saved, found saved, failed with transient or lasting
codes, or missed by the search.  `store` is what is on the disk, so that the counts of
the record can be compared with what happened.

### Ledger: `scheduler/ledger.py`

`lines` and `open` are the text of each history file, up to what a reader can tell: which
lines are records and whether the last one ends with a newline.  `append` and `merge_from`
take the guards (a merge takes two, in the order of their paths), read and write once.  A
write that is cut short leaves any prefix of the text, as a crash or a full disk does.  An
append is of a new run or of one that is repeated under its run_id (`main.py:1066`), of the
schedule that the run is of (`ScheduleOf`).  `Recent` is what readers show, without their
filters and limits.

### ScheduleRegistry, ScheduleStatus, NextRun: `scheduler/service.py`, `scheduler/registration.py`

Three stores: the registry document (`rev`, `entry`, `dropped`, `sequence`), the snapshots
(`file`) and the tasks of Windows (`task`).  A process that edits is a record `op[p]`: the
call, the step it has reached, what it has read (`prev`, `prevTask`) and what it has
written.  One action is one write of one store, each with a twin that fails; `Discard` and
`RestoreTask` are the rollback by hand in the handlers.  `seen` is the list that the process of a
window has read last, whose revision its next call passes.  `spoiled` is history: the schedules
whose last edit failed in its cleanup.  Scheduled runs fire from their task,
queue a ticket, load the snapshot their task named and end; the cleanup asks the queue, takes
the transaction and the guards, and unlinks one file after the other.  `Fails` says which
calls of the system may fail in an instance.  `ScheduleStatus` adds the lists that windows
read: each source at a moment of its own (`seen`), and the row put together from them.
`NextRun` is `calculate_next_run` on days and times of day.

### Relocation, ScheduleImport: `scheduler/service.py`, `scheduler/installation.py`

`Relocation` is `apply_installation_relocation`: capture every registration, archive, write
the journal, rewrite every schedule, the configuration and two location files, and undo all
that in reverse after a failure.  `op` keeps what was captured, `Before` what a failure must
restore; the start of the GUI and of scheduled runs decides whether a relocation is required.
`ScheduleImport` is `import_external_schedule` over four stores (`source` and `old` in the old
place, `target` and `task` here) under `journal`, with the recovery that every start of any
process performs, and `remove_external_task`.

### HttpDownload, Downloads, Reclassify, Conversion

`HttpDownload` is `download_file`: attempts, waits, the `.part` file, commit or removal.
`Downloads` is the engine around it: plan, lookup in the history, reuse, choice of a free
name, fetch, history line.  A place is a name, a qualifier and a copy number; `disk` is the
history as its readers see it, with a torn tail, and `files` what really is there.
`Reclassify` moves documents out of `99_分類未解決` under its journal, with downloads and users
that touch the files between its steps; `torn` says that the history ends with half a line, `lost`
is history: the documents whose line was appended to one.  `Conversion` is `HtmlToPdfConverter.convert` with its
children as pairs of a kind and the number of the call: which are alive, terminated but not
yet gone (`dying`), suspended, in the job object, and which have the `.part` file open
(`holds`), for a file that is open cannot be deleted.  `overlapped` is history: a worker of a dead
application was there when the conversion began.

### ApplicationRun, AgencyCatalog, EventHandler, OptionLoads, ScheduleManager, MainWindow: the GUI

`ApplicationRun` is `ApplicationService.run` as a walk over URLs, pages and projects, with
what each step tells the callback (`out`).  `EventHandler` is the two queues and the merged
slot of search progress.  `AgencyCatalog` is the shared cache of agencies, written by two
sources; `OptionLoads` the fields that read it through one worker.  `ScheduleManager` is the two
lists of schedules and the dialog's threads.  `MainWindow` composes them: the window takes one
item of the handler at a time (`Poll`), the user clicks in between, and the threads run
beside it.  `win.told`, `win.late`, `loads.since` are history for the properties.

### MC modules

`MCRunGuard`, `MCDispatcher`, `MCHeadless`, `MCLedger`, `MCScheduleRegistry`, `MCRelocation`,
`MCScheduleImport`, `MCDownloads`, `MCReclassify`, `MCMainWindow` and `MCConversion` only name
small instances and symmetry sets.  Definitions marked "Mutant" beside an operator are
plausible mistakes in its code; `PROJECT.json` pairs every property with one that breaks it.

## 4. Runs and bounds

| Run | Properties | Instance and why it suffices | Distinct states |
|---|---|---|---|
| `guard` | `OneQueue`, `NothingLeftBehind`, `ImplementsTryLock`, `QueueIsReached` | two threads of one process (one instance lock) and two guards of another process, of one installation or of two, in six conditions of the identifier files: both levels of locking are contended, a third party meets the handle of a refused one, and two first starts meet | 126 thousand |
| `dispatch` | `OneTicketPerSchedule`, `OldestServedFirst`, `RecordedBeforeRemoved`, `TakenOver` | three scheduled runs, two of one schedule; clock readings that jump back, one crash, no fault: requeue, duplicate, older and newer request all occur together, and the ticket of a crashed dispatcher meets a run of its own schedule and one of another | 256 thousand |
| `dispatch_live` | `RepeatedOnlyAfterFailure`, `LaunchesEnd`, `OneDownloadAtATime` | two runs of different schedules, one with a broken snapshot, a `--run-once`, a GUI that may never end and cleans up; one retry, one crash and one fault, which may meet | 488 thousand |
| `headless` | `DeadlineKept`, `ImplementsJob` | two documents, two attempts, a limit shorter than attempts, waits and retries together: it falls before, in and after each; one fault; all three callers | 706 thousand |
| `ledger` | `HistoryKept`, `WaitsInOrder`, `MergeNotStale` | four calls on two files, so two merges in opposite directions and two appends beside them; three runs of two schedules, any of which may be repeated; a torn write per file, one crash or time-out | 88 thousand |
| `registry` | `SnapshotsKept`, `CleanupSparesRuns`, `FailureChangesNothing`, `StatusTrue` | two windows, one schedule, one run, three calls and three snapshots, two failures (of a rollback and of the cleanup within a registration among them) and one death; a long month and a short one | 750 thousand |
| `relocation` | `MoveIsWhole`, `AcceptedRunsKeepSnapshot`, `Relocated` | two schedules, moved or copied folder, one scheduled run, two failures and one death: a rollback that fails, and a confirmation after a crash | 1.1 million |
| `import` | `OwnedOnce`, `Recovered` | one schedule, one window, two starting runs that recover, two failures (of the cleanup after the registration among them) and two deaths: a recovery that dies, and another after it; the user may delete, switch and remove at any time | 766 thousand |
| `download` | `PlacesTrue`, `SecondRunIdle`, `ReusedIsCurrent` | two runs over two documents whose names collide, with two attempts each; one failure, one change of the site or the disk, one death | 1.8 million |
| `reclassify` | `MoveIsJournalled`, `HistoryIsTrue`, `JournalSettled` | two candidates, one failure, one crash that may leave half a line, one touch by the user and one download between | 278 thousand |
| `gui` | `ListsCatchUp`, `WindowTellsTheRun`, `OutcomeTrue`, `CandidatesTrue`, `WindowIsFreed`, `EditsKept` | two fields, two versions of the site, two plans, seven users, each with the clicks that make one kind of overlap possible: two runs, cancel and close, select and reload, an editor beside it, an edit that is refused | 643 thousand |
| `conversion` | `PdfIsWhole`, `ConvertReturns` | two conversions of one document, one failure, one death after which the worker may go on, two attempts of Edge: what an earlier attempt or call left meets the next one | 1.0 million |

A property of a run that is a conjunction has its parts in the module: `OneQueue` is
`OneIdentity` and `MutualExclusion`; `SnapshotsKept` is `TypeOK`, `EntryHasSnapshot`,
`TaskHasSnapshot`, `NoSnapshotForgotten` and `FolderOfOneSchedule`; `StatusTrue` is
`NoFalseAlarm`, `EditHeals` and `NextRunTrue`; `MoveIsWhole` is `TypeOK`,
`SuccessIsComplete` and `HalfMovedIsMarked`; `OwnedOnce` is `ImportTypeOK`,
`ImportNeverEnablesBoth`, `HalfImportedIsMarked` and `RefusedStaysPut`; `PlacesTrue` is
`TypeOK`, `FetchIsAtomic` and `EveryDocumentAnswered`; `DeadlineKept` is `TypeOK`, `EndsInTime`,
`TimeoutReported`, `RetryFlagCleared`, `OnlyTransientRetried` and `CountsTrue`;
`HistoryKept` is `TypeOK`, `NoRunTwice` and `LossBounded`; `PdfIsWhole` is `TypeOK`,
`OutputTrue`, `RenderersApart` and `ArtifactOfFailure`; and so on for the window.

Where deadlock is not checked the system may really stop: every process has ended, the
bounds are used up, or an idle user does nothing more.  What must not get stuck is stated by
the liveness properties.  In `headless`, `ledger`, `guard` and `reclassify` deadlock is checked.

What the bounds leave out: more failures or deaths together than the table says, clocks with
more than two readings, more than one retry, more than two windows on one schedule, longer
queues of events than six.  The proofs of section 6 cover these for what they state.  Bounds
that hide something known are named in section 8.

## 5. Fairness

- `FairQueueSpec` of `Identity`: threads of a started process keep running, and a caller
  that is refused tries again (`RunQueue._state_lock` polls); strong fairness of `TakeMutex`
  says that a mutex that can be had again and again is not missed at every poll.
  `QueueIsReached` is stated for flock only; over the Windows mutex it fails (section 8).
- `FairSpec` of `Dispatcher`: weak fairness of each scheduled run's own steps.  None of its waits
  is unbounded: two hours for the turn (`TurnTimesOut`), half a second for the lease, a bounded
  number of retries with bounded intervals, and a runner whose requests all have time-outs.
  Nothing is assumed of the GUI, of `--run-once` or of Windows: a manual run may go on for ever.
- `HandoffSuffices = TRUE` in `dispatch_live` assumes that a dispatcher on its way out gives
  up its lease within the half second that a new launch waits for it.  The code narrows
  this window and does not close it; with FALSE a request may wait for the next launch.
- `FairSpec` of `Headless`: the execution's own steps, and the runner returns.
- `FairSpec` of `Relocation`: processes get on, and the user confirms until there is nothing to
  confirm.  Of `ScheduleImport`: processes get on, scheduled runs end, and a user who closes the
  program starts it again, since a recovery happens at a start only.
- `FairSpec` of `Reclassify`: the program gets on, and the user looks again and again (`Scan`,
  strongly fair, since a look needs the download guard, which others have at times).
- `FairWindow` of `MainWindow`: the window's loop goes round, and the download thread and the worker
  run.  The user, the editor and the site do what they like.
- `FairSpec` of `Conversion`: the converter is scheduled and clocks go on; no child need ever end.

## 6. Proofs

TLAPS proves the following for all values of the constants that satisfy the assumptions in the
modules, which only give the constants their types, keep the sets of processes apart and `None` (`Nil`)
out of the values, and say of a calendar that a month has at least 28 days.

**The lock.**  `IdentityProofs`, first part: mutual exclusion, `NothingLeftBehind` and the refinement of
`TryLock`.  Mutual exclusion does not follow from itself: the invariant adds that the owner of
the lock is inside the body and has an open handle (`LockerInside`), that open handles are those
of callers at a step that will close them (`HandlesAccountedFor`), and that an instance lock
belongs to a caller of that instance (`LocalAccountedFor`).  Second part: all who know the
identifier of a file know the same one, `OneQueueHolds` puts both together, with processes that
start and end around the guard.  The invariant says of every step between `exists()` and the
last read what the file may hold by then.  `QueueExcludes` is a refinement: every step of
`Identity` is one of `RunGuard` or leaves its variables alone.

**The calendar.**  Near the end of `RegistryProofs`: the next run is the first instant strictly after now at which
the schedule runs, daily, weekly or monthly, for any calendar.

**The dispatcher.**  `DispatcherProofs`: type correctness, `OneDownloadAtATime`,
`GuardsAccountedFor`, `OneTicketPerSchedule`, `AtMostOneServed`, `OldestServedFirst`,
`RecordedBeforeRemoved`, `RepeatedOnlyAfterFailure`.  The inductive invariant `IInv` adds to them:

- every process at a step that needs a guard holds it (`GuardsOK`), and one that serves has a
  ticket to serve (`WorkOK`);
- every ticket in the queue has arrived, at a time of its own, and `order` agrees with `arrival`
  (`ArrivalOK`): this is where `NewOrder`'s maximum over the queue is needed, whatever the clock
  says;
- a ticket whose process is past its record has one (`RecordOK`);
- a dispatcher works on a ticket that was in the queue, and a process without the lease only
  reports its own request, which never was (`LinkOK`);
- a ticket that may still be worked on has one execution left, unless somebody works on it
  (`CountOK`).  `Within(t, n)` says that ticket `t` was not executed, recorded or notified more
  than `n` times beyond the failures: it is `Within(t, 1)` always, and `Within(t, 0)` where the
  execution is still to come.  `RepeatedOnlyAfterFailure` alone is not inductive: at its limit a
  second claim of a ticket that is already served would exceed it.  That there is none is
  `AtMostOneServed`, `OneTicketPerSchedule` and the guards (lemma `AloneOnTicket`).

One lemma per conjunct says that a step preserves it.  To keep the conjuncts from each visiting
every action, frame lemmas first reduce a step to what it does to the queue (`QueueFrame`:
nothing, an insertion, a deletion, a claim), to the path of each process (`PathFrame`) and to
what is counted (`CountFrame`); the later lemmas split on those few cases only.

**A job.**  `ExecutionProofs`, first part: the refinement of `Job`, and `DeadlineKept`, for any
limits, number of retries and faults and any finite set of documents.  The invariant has one part per
conjunct of `DeadlineKept`:

- up to the first turn only the queue takes time, and from then on no step begins after the
  deadline, so one attempt or one poll is all that may overrun it (`Time`);
- a result that the deadline has passed is a failure before it is recorded (`Reported`), no attempt
  before another had a lasting failure (`Lasting`), and only an execution that sleeps says that it
  waits (`Flag`);
- what the attempts have saved adds up to the documents that are new on the disk, and the last
  attempt cannot have found more saved than those of before and those of the earlier attempts
  (`Counts`).  This is why `_record_from_result` may subtract: a document that an earlier attempt
  saved is found saved by a later one, and would count as reused and as new.

**The history.**  `ExecutionProofs`, second part: `WaitsInOrder` and `MergeNotStale`, from the invariant
that a call has its guards in the order of the files and has all of them when it reads (`LedgerInv`).
`MergeNotStale` needs the guard of the *source* file too: without it another process may append between
reading and writing.  `HistoryKept` adds (`HistoryInv`):

- a line of a run that an earlier line of the file is of was not copied (`OnceOK`): a merge adds what its
  target does not have *when it writes* (`MergeNotStale`), each run once (`MissingOK`), while an append
  of a repeated run adds a second line (`NewOK`), which the property allows;
- reported records that have no line *with a newline* are counted, and one more is set aside for a file
  that ends without newline (`LossOK`): the write that continues that line loses it at last, but the
  tear has been paid for by then.  `LossBounded` itself is not inductive, since the torn line may still
  be read as the record it is;
- the types of the lines (`TextOK`), and that nobody writes nothing (`WritesOK`): an empty write would end
  a torn line without a line of its own.

Both parts follow a recursive function along a sequence (`NewCount`, `LinesAt`).  The induction is that
of a *set* of numbers, which has a least one that is missing (`NatSetInduction`); `Recursion` shows
that a function defined by recursion up to n exists, and the lemmas after it give its equations.

**The downloads.**  `DownloadsProofs`: `PlacesTrue`, `SecondRunIdle` and `ReusedIsCurrent`, for any finite set of
documents, any names and plans, orders, policies, retries, failures of the network, the disk and the
history, changes of the site, removals by the user and deaths of the program.  In the run the copies
`_1`, `_2` never run out; the theorems cover that too.  The invariant:

- a call is in progress exactly while the run is at its fetch, of the run's own document, and the place
  holds what it held before the call until the commit, and the whole document after it (`FetchOK`);
- the documents before the current one have an answer (`AnsweredOK`);
- a history line tells of its own document and of a revision that is as new as the line's time says,
  unless the site changed the document during a fetch (`LinesTrue`).  With the comparison of the
  file with the line it gives `ReusedIsCurrent`; without the exception it is false (section 8);
- while nothing has changed since a run, what that run has answered for has a line that a later run
  finds and keeps (`Good`), under the planned name or, past a file that nobody knows, under the
  document's own (`Strange`): `InPlace` for the documents that are done (`EarlierInPlace`), as planned for
  those to come (`LaterAsPlanned`, `CurrentAsPlanned`), which together are `SettledOK`.  A line that is
  written must not take away what another document rests on: it has its own key in the exact index, and a
  document is only found by its latest line when it has no exact one;
- hence in a repeated run every document is kept (`QuietOK`), and `SecondRunIdle` follows.

**The registrations.**  `RegistryProofs`: `SnapshotsKept`, `CleanupSparesRuns`, `FailureChangesNothing` and
`StatusTrue`.  All failures of calls, of rollbacks and of the cleanup within a registration too, and deaths
of any process may come at any step and in any number.  What the failing cleanup costs is in the
properties: an edit that fails there has written its entry and deletes the snapshot of it, and
its schedule is `spoiled` until its next edit.  The theorems say that nothing but that schedule suffers, and
that the next edit repairs it.

- `Registered` says the types (`StoreType`), where runs and calls are and that
  a call beyond its first step is alone in the transaction (`RunsOK`, `CallsOK`), that what a
  window has read is what is registered or has an older revision (`RevisionsOK`), and that numbers
  of folders are given once (`FoldersOK`).
- `Kept` is what keeps snapshots.  Its heart is `OwnersOK`: a snapshot has to do with one schedule
  (`Owns`: a task, an entry, a retained one, a run or an edit), so what one edit discards or one cleanup
  sweeps is never another's.  `EditsOK` says at every step of an edit what is still true of the
  entry, the task and the new snapshot, so that a rollback that begins there restores what was;
  `SnapsOK` that what is registered or has a task exists and is not retained; `SweepsOK` that a
  cleanup only looks at what is retained; `FileOK` that no snapshot is nobody's; `FinalizeOK` that a
  dispatcher that finalises a run still has its ticket, and therefore unlinks nothing.
- As there are thirty actions and twelve conjuncts, each conjunct is not shown for each action.  Steps are put into a few
  classes by what they do to the stores: nothing that matters (`Quiet`), an edit that begins,
  one that goes on, an unlinking, a collection; each action is shown to be of one class, once,
  and a conjunct is shown for the classes.
- `TasksAgree` is what `StatusTrue` adds, and it needs the bound of the property (no death, fewer than
  two failures): except between the two writes of an edit the task of every schedule is the one that
  its registration says, and an edit that may have to roll back knows a task to restore that agrees
  with the old registration, or could not query it, which was the one failure.  A list that holds the
  present revision then finds the two in agreement, although it reads them at different moments.  That
  a write heals whatever was wrong before needs no such bound: `TaskOK` says what the task is by then.

**The relocation.**  `RelocationProofs`: `MoveIsWhole` and `AcceptedRunsKeepSnapshot`, for any number
of schedules, scheduled runs, failures (of the rollback too) and deaths of the GUI.  The invariant:

- without a journal nothing or everything is at the new place (`Settled`); while a relocation is at
  work it has a journal from its first change on, and what it began with was settled unless it
  resumes another (`BeforeOK`), so a complete rollback that deletes the journal may do so;
- what was captured can be brought back: it is of the old place, its snapshot is there, and the
  present registration still names all its snapshots (`StatesOK`).  With `OwnersOK`, a snapshot is of
  one schedule, no rollback of one schedule takes a snapshot of another;
- what is not in the list of what is to do is done (`TodoOK`, `HandOK`, `FilesOK`, `NewOK`);
- whatever is asked of the user is asked of a scheduled run, which then does not start
  (`RequiredOK`).  Hence a run that was accepted stays out of every relocation (`RunsOK`).

**The import.**  `IdentityProofs`, last part, for any number of windows, starting runs, failures, deaths and
edits.  `OwnedAlone` is `OwnedOnce` for the import of one schedule.  With several schedules the part
`HalfImportedIsMarked` of it is false of the code: a recovery reads the journal before it has the
transaction (`service.py:4718`), and may work on that of an import that is over while it deletes that of
the next (section 8).  What holds all the same, for any number of schedules and without any
condition, is `NeverTwoTasks`: the two tasks of a schedule are never enabled at once, and what the
inspection refuses stays where it is.  Its invariant `ApartInv` must not speak of the journal, which may be
another import's: it says at which steps the new registration is not there yet and the old task not
enabled (`ApartAt`), whatever was recorded.  TLC has checked it with two schedules too (11.8 million
states, too many for the runs).  The invariant `ImportInv` of `OwnedAlone` says

- who is at work has the transaction, and the journal, if there is one, is about its schedule
  (`WorkersOK`, `WorkOK`);
- what holds of the four stores at every moment (`Coherent`): the old task is as it was found, or
  stopped, or gone once the registration has moved; the new one is enabled only after the old one
  is not; the journal names only what was not refused, and has the right state of the old task;
- what is done at each step of an import and of its undoing (`ImportAt`), where the four steps that
  may fail between effect and record differ from one another only in `imported`, `marked` and `errors`;
- that a recovery is on the side of the point of no return on which the stores are (`RecoveryAt`).

A schedule that the user has changed since is taken out of `Coherent` (`edited`), as in the properties.
One lemma says what a process at work leaves alone (`WorkerStep`), one what a process at rest does
(`RestingStep`), and every action has its lemma above them.

**The reclassification.**  `ReclassifyProofs`: `MoveIsJournalled` and `HistoryIsTrue`, as long as
at most one call of the file system has failed (`faults < 2`), for any number of documents,
applications, downloads, touches by others and deaths of the program.  With two failures
`MoveIsJournalled` is false of the code (section 8), so the bound is part of the theorems.  Both except the
documents whose line was appended to half a line of a dead process (`lost`); that these are at most as many
as the program has died is a part of `HistoryIsTrue`, and that one crash can cost one is what the code does
(section 8).  The invariant adds

- that lost documents and a line without an end are together no more than the deaths (`LostOK`);
- that the journal describes the files before its rename or after it, and every other document
  is where the history tells, unless others have touched it (`DocsOK`);
- on which side of the rename the candidate at hand is (`PathOK`);
- how an application comes to unwind (`FailedOK`): others put a file at the new place, the user
  cancelled, or the one failure has happened, so that the rollback itself does not fail;
- that a journal which the unwinding leaves, and which the next candidate writes over, is about a
  document whose history is true (`LeftOK`).  With two failures it is this part that breaks.

**The conversion.**  `DesktopProofs`: `PdfIsWhole`, for any number of calls, of failures and of
deaths of the application.  A worker of an application that has died may be at work when the next
conversion begins; then that conversion is `overlapped`, and nothing is promised of its file, since the
code promises nothing (section 8), but everything else is.  The property says what the caller gets; to be
inductive it needs who may write at each step before:

- `Working`, the processes that may write to the file, is empty except while the converter waits
  for them: for its worker (`rendering`) or for the two processes of Edge, both in the job
  (`supervise`; `PlaceOK`).  Workers of applications that have died are the only others, and a conversion
  that was not `overlapped` meets none (`ApartOK`);
- no Edge of an earlier attempt exists when the next one is started, unless it is too late for a
  next one: a job that ran out of time means that the limit of the conversion has passed, which
  `BeginAttempt` looks at first (`EdgeOK`).  Otherwise the two attempts would be one process;
- from the step on that removes the file of the last renderer, what it holds is of this call and
  this attempt (`OutputOK`).

Each step is first shown to give up, to try again, to succeed or to go on (`GivesUp`, `Retries`,
`Settles`, `Moves`), with the processes as they were or terminated; lemmas say once what each of
these needs.

**The lists of schedules.**  `DesktopProofs`, second part: `ListsCatchUp` and the action property
`EditsKept` of `MainWindow`, for any schedules, edits of other processes and failed calls of the
service, whatever the window's other threads do: of these the proof only needs that they leave the
schedules alone (`WindowMoves`).  The inductive invariant (`ListsInv`) is stronger than what the run
checks, and TLC has checked it too:

- a query is under way or due always, not only when a list is old (`Asks`, `ListAsks`), and the
  main window's timer is suspended only while the dialog is there;
- what an editor starts from is of its own schedule also while it waits for the list or for the
  action that saves it (`ShownOK`), since from there it comes back to the front;
- an action holds the editor it would open again until its answer is taken, and nothing else when
  none runs (`ActionOK`): otherwise beginning another one would lose it.

**The run.**  `DesktopProofs`, last part: `OutcomeTrue`, for any plans, pages and projects, any limit of
pages and any failures and cancellations, under `WindowSpec`, where the other threads of the window and
a cancellation may come between any two steps.  `SiteAssumption` gives the plans their types: a plain URL is
one page, a project has finitely many documents.  The invariant `RunInv`, which TLC has checked on the
run `gui` too, says where in its plan the run is (`PlaceOf`) and

- what "nothing is passed over in silence" means while the search goes on (`CoverOf`): a row of the search
  at hand that the run is past (`Passed`) was read into `here` and its public documents are in `found`,
  unless the search is known to be broken (`bad`) or cancelled; a row of an earlier URL is in `read` and
  `files`, as long as the run calls itself complete.  `EndSearch` turns one into the other;
- that a run which is not complete has failed or is cancelled (`CompleteOf`), so that NO_MATCH and
  SUCCESS, which ask for neither, imply completeness;
- what may be said of a document at each stage (`DecidedOf`): what is not yet evaluated was found, and what
  is a target has a task, so that no decision is left over at the end;
- what the outcome promises (`PromiseOf`).

A cancellation only weakens these (`CancelledIsGood`).  The run is full of loops over sequences, written
with `FoldLeft`, which is a recursive function on sets of positions: `RoundsExist` shows by the induction
of a set of numbers that it exists, and `DeduplicatedRounds`, `TargetsRounds` and `MergeRounds` give each
loop as what it has after every round.  A summary is merged in an order that nobody knows
(`SetToSeq`); `MergeIs` only uses that every project comes.  `SelectSeq` and the operators `:>` and
`@@` of the module TLC are opaque to the prover: the models say `Targets`, `Entry` and `Joined` without
them.

Only model-checked, because the prover cannot do it: everything under fairness (`LaunchesEnd`,
`TakenOver`, `QueueIsReached`, `Relocated`, `Recovered`, `JournalSettled`, `WindowIsFreed`,
`ConvertReturns`).  The library's induction theorems take an operator as a parameter, which no
installed prover can instantiate; what is defined by recursion or by a fold is followed as above.  Left to
TLC are also `CandidatesTrue` and `WindowTellsTheRun`, which are about all entries that wait in the
queues of the window (`SelectSeq`, folds over events and fields).

## 7. What is not modelled

Whole parts: notifications beyond one step, the schedule editor and the result dialogs (widgets; the
editor's reads are in `OptionLoads`), parsing of pages, configuration files, names and small
utilities; `self-check`; the in-process scheduler, which `scheduler/service.py:2414` no longer
lets anyone register, and `_SingleScheduleServiceBase` (`service.py:584`), which nothing uses.

Inside the modelled parts:

- Queue and dispatcher: the age of transient tickets, the sweep of temporary files, reuse of a
  process id by Windows; the argument checks of `main` are one choice between accepted and rejected.
- Identity: the directory that `RunQueue` takes when `LOCALAPPDATA` is not set.
- Jobs and history: exit codes, log texts, readers' filters and limits.
- Registrations: the text of a task, its fingerprint; `UPDATE_REQUIRED`, `LAST_FAILED` and
  `RETRY_WAITING` in a status.  Relocation: guessing the old place from paths, an unreadable
  journal.  Import: what an inspection finds is one bit for the snapshot and one state of the task.
- Downloads: metadata and diagnostics, the policy of allowed hosts, `get` and `post`; kinds of
  responses are those that are tried again and those that are not; failures of an append to the
  history, which the code ignores, leave the line out.
- Conversion: the path without a job object and the validating thread, which are for tests; what
  makes a sheet valid; audit lines.
- A run: documents of a type that was not asked for, the filter of project names, rows without a
  link, the refusal of `hachu_multi`, the download page of a project that has only expired documents.
- GUI: place and category fields, switching the search target, the gates of a start that come from a
  pending relocation or a waiting queue, the limit of 64 option tasks and of 100 events per poll,
  selection and detail in the main window's list, switching a schedule on and off, external tasks,
  history and the question about equal conditions in the settings dialog.  Settings are opened only
  while no candidates are read, and the window is not closed while they are open.

## 8. What the models show about the code

Properties that state what a document or a comment says and that fail for what the code does are
in the modules, and in no run; TLC shows each of them by a run of the module with the property
added.  Paths are relative to `src/src` unless they name a document.

| Property | Where | What the code does |
|---|---|---|
| `WithinProcessingLimit` (`Headless`) | `app/headless.py:548` | scheduled runs are executed by the dispatcher, which passes no queue (`main.py:1355`), so no processing deadline is set; `docs/implementation_design.md:165` says 「実処理上限は2時間」 |
| `TakenOverByNext` (`Dispatcher`) | `main.py:1189` | `docs/memory_resource_management.md:31` says that the ticket of a dispatcher that ended abnormally is taken over 「次の起動時に」; the next start is usually one of the same schedule, which is refused as a duplicate of that ticket and leaves before it asks for the lease.  `TakenOver` is about runs of other schedules |
| `RunShownOnce` (`Ledger`) | `main.py:1066`, `1361` | a run that is repeated under its run_id, after a crash between its record and the deletion of its ticket, appends a second record, while a merge takes the run_id for the identity of a record, and README.md:232 promises one notification per run_id after the final record |
| `ReportedIsShown` (`Ledger`) | `scheduler/ledger.py:67` | a write cut short leaves a line without newline, and the next record is glued to it: both are unreadable.  `LossBounded` shows that this is the worst, one reported record per tear |
| `EntryAlwaysHasSnapshot` (`ScheduleRegistry`) | `scheduler/service.py:2493` | the cleanup is inside the `try` that ends with the written registration; when it fails the handler deletes the new snapshot, although the registration names it already.  `SnapshotsKept` shows that only that schedule is hurt, and only until its next edit |
| `OldListsRefused` (`ScheduleManager`) | `gui/settings_dialog.py:1886`, `1897` | the expected revision is read by the worker from the shared adapter, which background refreshes renew and an edit empties, so an edit made from old rows passes the check that `gui/schedule_management.py:490` calls 「古い一覧を基に上書きしないための楽観ロック値」 |
| `CleanupSparesTickets` (`ScheduleRegistry`) | `scheduler/service.py:6134` | the tickets are read before the guards are taken: a ticket that comes in between, and whose process has left again, is not spared; README.md:246 says that snapshots go when no ticket refers to them |
| `OfferedCanBeDone` (`Relocation`) | `scheduler/service.py:3191` | a relocation is required also when only the program of the actions has changed; then both roots are equal and the journal refuses them (`installation.py:226`): every confirmation fails, while downloads stay blocked |
| `OldSnapshotsStay`, `RetiredDoesNotRun` (`Relocation`) | `scheduler/service.py:3965`, `3066` | after a crash the refresh of the list collects the snapshots of before the move; a run that queues after the tickets were looked at downloads in a place that is retired by then |
| `FailedImportLeavesNothing` (`ScheduleImport`) | `scheduler/service.py:1139`, `2493`, `3430` | its comment (4207) says 「途中失敗時は現在台帳、旧台帳、旧タスクを復元する。」; when the cleanup after the new registration fails, the registration stays without its snapshot, and the journal goes |
| `HistoryFollows` (`ScheduleImport`) | `scheduler/service.py:4380` | a process that dies between the old registration and the merge leaves an import that the recovery completes (`4773`) without ever merging the history; README.md:224 promises a warning at least |
| `NeverBothEnabled`, `DeletedStaysDeleted` (`ScheduleImport`) | `scheduler/service.py:2387`, `4782` | the warning of a deferred recovery is shown nowhere, and the user may enable the half imported schedule beside the old task; one that is deleted while its old task waits for removal is rolled back into the old place |
| `OverwritesOnlyOwn` (`Downloads`) | `core/downloader.py:1632` | a document with a FAILED line is saved at that line's path without a look at who is there; `docs/download_folder_spec.md:133` says 「既存ファイルを根拠なく上書きしません」 |
| `MoveIsJournalled`, with two failures (`HalfMovedIsJournalled` of `Reclassify`) | `storage/reclassification.py:603` | when the rollback of a candidate fails as well, the next candidate writes its own journal over the first: the moved file has neither a history line nor a journal |
| `MoveIsJournalledAlways`, `HistoryIsTrueAlways` (`Reclassify`) | `core/downloader.py:624` | `docs/download_folder_spec.md:195` says 「1件ごとに再検証し、処理ジャーナルを残してからファイルと履歴を更新します。」; a crash within a history line leaves half of it, the recovery renames the file back, and the line of the move that is tried again is glued to that half: nobody can read it, but the move goes on and deletes its journal (`storage/reclassification.py:1360`, `1710`).  One crash costs one document (`HistoryIsTrue`) |
| `JournalSettledAlways` (`Reclassify`) | `storage/reclassification.py:1691` | recovery refuses when both places hold a file; a download that saves the document in between makes that so for ever |
| `OutputTrueAlways`, `RenderersApartAlways` (`Conversion`) | `core/bid_sheet_pdf.py:448` | README.md:63 and `docs/pdf_conversion_reliability.md:10`, `11` and `19` say that only what was read again is saved, that Edge comes after the worker, and that all processes have ended; the worker is no daemon and in no job, so it survives the program and writes to the `.part` name (`utils/http_client.py:591`) that the next conversion of the document uses |
| `TargetsApart` (`MainWindow`), with a site of its own per target | `core/extractor/agency_hierarchy_service.py:307` | `bootstrap_catalog` publishes the list branches of both search targets of a host under the keys of the other; its comment (304) says they are apart.  The `gui` run uses one site for both |

Seen while modelling, in the models without a property of their own:

- **Queue and dispatcher.**  With one schedule the ticket of a crashed dispatcher stays, later runs are
  refused as its duplicates, and the GUI may not download (`TakenOverByNext`).
  The queue is shared by all installations of a user, but the dispatcher looks for
  a snapshot in its own profiles (`main.py:1263`), so it drops another installation's request as
  CONFIG_INVALID (`ServedAcrossInstallations`).  A crash between the notification and the deletion of
  the ticket notifies twice, where README.md:232 promises one.  The cleanup of snapshots tests idleness
  by taking the guard that a starting job needs (`scheduler/service.py:6179`), which is then recorded
  as busy.  The cleanup after a run (`main.py:1074`) never collects, for the dispatcher's own ticket and
  guard are still there.
- **Guard and identity.**  Over the Windows mutex, contenders that poll can refuse one another with
  nobody inside, since the handle of a refused caller refuses the next.  A crash between
  `open("x")` and the write leaves an empty identifier file, and every later start fails.  The first
  read after `exists()` is not tried again, so a racing first start can fail.  Two installations with
  broken registries take the coordination identifier as namespace (`service.py:2296`), copies of an
  installation share theirs.
- **Jobs and history.**  The reason of a job that overran is that of its first failed document when it
  has one, RUN_TIMEOUT otherwise.  A run that is cancelled on the control path counts no documents,
  whatever it saved.  A merge appends older runs behind newer ones, and readers take the last line for
  the latest; of a run that was repeated under its run_id a merge takes the first record only.
- **Import.**  The journal is read before the transaction is entered (`service.py:4718`): a recovery that
  waited may work on the journal of an import that is over and delete that of the next, one of another
  schedule.  `HalfImportedIsMarked` therefore fails for two schedules.
- **Downloads.**  A document that the site changes while it is fetched looks fresh afterwards.
- **Conversion.**  An error of `TerminateJobObject` in the branch of a cancellation makes it FAILED, with an
  artifact.
- **Window.**  The START of a run goes through the ordinary queue (`gui/event_handler.py:272`): if the loop
  stalls for a whole run, the end is handled first and START and PROGRESS over it, and the end of the next
  run may be dropped (excluded by `InOrder`).  A call dropped at the limit of the queue (302) leaves
  `_pending_option_loads`, `_agency_reload_running` or `_schedule_status_query_running` as they were.
  A failed reload, while a load was under way, leaves a field without candidates that are cached.
  A page that could not be read near `core/scraper.py:3540` is swallowed, so that NO_MATCH remains
  possible (`ListedOnly`).
- **Settings dialog.**  An older answer may overwrite a newer detail; a second
  conflict of another action clears the waiting draft (2445), which `EditsReturn` excepts; an editor that
  opens again and is saved while another action runs is dropped (2366); the result of an action is not
  told when the dialog was closed.

Hazards of lesser weight that `PROJECT.json` does not list: a reader of the history that cannot get its
guard in ten seconds shows none (`scheduler/ledger.py:140`); any `OSError` of a read unlinks a ticket
(`app/run_queue.py:703`), and a failed turn deletes one without a record (`main.py:1224`); both are steps of
`Dispatcher` under `Fault`; a launch that gives up after half a second leaves its ticket to the next one
(`main.py:1210`, section 5).

## 9. Running it

    tlc -workers 2 -config Dispatch.cfg MCDispatcher.tla     (any run of PROJECT.json)
    tlapm RegistryProofs.tla

The runs take between a few seconds and five minutes each with two workers; the proof modules up to
four minutes each, from nothing (`DesktopProofs` ten).  A proof module is named after the module it is about
(`RegistryProofs`: `ScheduleRegistry` and, at its end, `NextRun`; `IdentityProofs`: `RunGuard`,
`Identity` and, at its end, `ScheduleImport`; `ExecutionProofs`: `Headless` and `Ledger`).
