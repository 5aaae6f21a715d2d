----------------------------- MODULE Dispatcher -----------------------------
(***************************************************************************)
(* The processes of ippi-down that run downloads, composed around the run  *)
(* queue: scheduled runs (main._run_cli_mode: enqueue, become dispatcher or*)
(* leave, serve tickets), the GUI (download_files, the cleanup of snapshots*)
(* by its schedule service) and --run-once.  One action per step at which  *)
(* another process may interleave.  The named guards are the abstract lock *)
(* TryLock, one variable each; a crash gives up the guards of the process. *)
(***************************************************************************)
EXTENDS RunQueue, Sequences

CONSTANTS Run,             \* scheduled runs: process, run_id and ticket
          Gui,             \* GUI processes
          Cli,             \* --run-once processes
          Home,            \* the installation whose profiles a run loads
          BrokenSnapshot,  \* runs whose snapshot is invalid when loaded again
          MaxRetry,        \* bound: retry_count of a job
          MaxCrash,        \* bound: processes that crash
          MaxFault,        \* bound: failures of queue and history files
          HandoffSuffices  \* TRUE: a dispatcher on its way out gives up its
                           \* lease within the 0.5 s a new one waits for it

Proc == Run \cup Gui \cup Cli

ASSUME DispatcherAssumption ==
  /\ Detached = Run
  /\ Run \cap Gui = {} /\ Run \cap Cli = {} /\ Gui \cap Cli = {}
  /\ None \notin Proc
  /\ MaxRetry \in Nat /\ MaxCrash \in Nat /\ MaxFault \in Nat
  /\ HandoffSuffices \in BOOLEAN
  /\ BrokenSnapshot \in SUBSET Run

VARIABLES pc,        \* where each process is
          cur,       \* the ticket a scheduled run works on
          verdict,   \* the result it will record for that ticket
          retries,   \* retries of the job so far
          global,    \* holder of DOWNLOAD_RUN_GUARD
          lease,     \* holder of the dispatcher lease
          sched,     \* holder of the guard of each schedule
          records,   \* results in the history, per run_id
          notified,  \* notifications shown, per run_id
          ran,       \* executions started, per run_id
          arrival,   \* when a ticket entered the queue: 0 is never
          arrivals,  \* tickets that entered the queue
          crashes, faults

procVars == <<pc, cur, verdict, retries>>
guardVars == <<global, lease, sched>>
logVars == <<records, notified, ran>>
historyVars == <<arrival, arrivals>>
boundVars == <<crashes, faults>>
vars == <<queueVars, alive, procVars, guardVars, logVars, historyVars, boundVars>>

RunStep == {"idle", "enqueue", "lease", "claim", "turn", "load", "schedule",
            "run", "retry", "record", "notify", "release", "complete", "abort",
            "exit", "done", "crashed"}
OtherStep == {"idle", "manual", "cleanup", "sweep", "crashed"}
Result == {"busy", "queue_timeout", "config_invalid", "finished"}

\* From the turn of a ticket to the end of its job.
Serving == {"load", "schedule", "run", "retry"}

Init ==
  /\ QueueInit
  /\ alive = {}
  /\ pc = [p \in Proc |-> "idle"]
  /\ cur = [r \in Run |-> None]
  /\ verdict = [r \in Run |-> None]
  /\ retries = [r \in Run |-> 0]
  /\ global = None
  /\ lease = None
  /\ sched = [s \in Schedule |-> None]
  /\ records = [r \in Run |-> <<>>]
  /\ notified = [r \in Run |-> 0]
  /\ ran = [r \in Run |-> 0]
  /\ arrival = [r \in Run |-> 0]
  /\ arrivals = 0
  /\ crashes = 0
  /\ faults = 0

Goto(p, step) == pc' = [pc EXCEPT ![p] = step]

At(p, step) == pc[p] = step

\* Process r has a result for ticket t and goes on to record it.
Conclude(r, t, result) ==
  /\ Goto(r, "record")
  /\ cur' = [cur EXCEPT ![r] = t]
  /\ verdict' = [verdict EXCEPT ![r] = result]

NoFault == UNCHANGED boundVars

\* A file or lock operation fails.
Fault ==
  /\ faults < MaxFault
  /\ faults' = faults + 1
  /\ UNCHANGED crashes

\* Process p gives up its run guards: the with statements are left.
DropRunGuards(p) ==
  /\ global' = IF global = p THEN None ELSE global
  /\ sched' = [s \in Schedule |-> IF sched[s] = p THEN None ELSE sched[s]]

-----------------------------------------------------------------------------
(* A scheduled run, up to the dispatcher lease. *)

\* Windows starts the process; main checks the installation and the snapshot.
Launch(r) ==
  /\ At(r, "idle")
  /\ alive' = alive \cup {r}
  /\ \/ Goto(r, "enqueue") /\ UNCHANGED <<cur, verdict>>
     \/ Conclude(r, r, "config_invalid")
  /\ NoFault
  /\ UNCHANGED <<queueVars, retries, guardVars, logVars, historyVars>>

\* The request becomes a ticket, or is refused as a duplicate.
Enqueue(r) ==
  /\ At(r, "enqueue")
  /\ \/ /\ Duplicate(r)
        /\ ReadOnly({})
        /\ Conclude(r, r, "busy")
        /\ UNCHANGED historyVars
     \/ /\ ~Duplicate(r)
        /\ Insert(r)
        /\ Goto(r, "lease")
        /\ arrival' = [arrival EXCEPT ![r] = arrivals + 1]
        /\ arrivals' = arrivals + 1
        /\ UNCHANGED <<cur, verdict>>
  /\ NoFault
  /\ UNCHANGED <<alive, retries, guardVars, logVars>>

\* RunQueueError: the state lock or the ticket file is out of reach.
EnqueueFails(r) ==
  /\ At(r, "enqueue")
  /\ Conclude(r, r, "queue_timeout")
  /\ Fault
  /\ UNCHANGED <<queueVars, alive, retries, guardVars, logVars, historyVars>>

\* dispatcher_lease yields True
TakeLease(r) ==
  /\ At(r, "lease")
  /\ lease = None
  /\ lease' = r
  /\ Goto(r, "claim")
  /\ NoFault
  /\ UNCHANGED <<queueVars, alive, cur, verdict, retries, global, sched,
                 logVars, historyVars>>

\* ... or False: the ticket is left to the dispatcher, and the process ends.
LeaveToDispatcher(r) ==
  /\ At(r, "lease")
  /\ lease # None
  /\ HandoffSuffices => pc[lease] # "exit"
  /\ Goto(r, "done")
  /\ alive' = alive \ {r}
  /\ NoFault
  /\ UNCHANGED <<queueVars, cur, verdict, retries, guardVars, logVars,
                 historyVars>>

-----------------------------------------------------------------------------
(* The dispatcher loop. *)

Claim(r) ==
  /\ At(r, "claim")
  /\ \/ \E t \in Run :
          /\ ClaimNext(r, t)
          /\ cur' = [cur EXCEPT ![r] = t]
          /\ Goto(r, "turn")
     \/ NothingToClaim /\ Goto(r, "exit") /\ UNCHANGED cur
  /\ NoFault
  /\ UNCHANGED <<alive, verdict, retries, guardVars, logVars, historyVars>>

\* The exception leaves the loop and the process, with the lease.
ClaimFails(r) ==
  /\ At(r, "claim")
  /\ Goto(r, "exit")
  /\ Fault
  /\ UNCHANGED <<queueVars, alive, cur, verdict, retries, guardVars, logVars,
                 historyVars>>

\* Mutant: the dispatcher runs the job although the guard is taken.
TurnIgnoresGuard(r) ==
  /\ At(r, "turn")
  /\ AtHead(AfterRead({cur[r]}), cur[r])
  /\ global' = r
  /\ Goto(r, "load")
  /\ ReadOnly({cur[r]})
  /\ NoFault
  /\ UNCHANGED <<alive, cur, verdict, retries, lease, sched, logVars,
                 historyVars>>

\* dispatch_turn: one round of its loop finds the ticket at the head and the
\* global guard free.  A round that does not is the read alone, which changes
\* nothing: the claim of the same process has requeued what there was.
Turn(r) ==
  /\ At(r, "turn")
  /\ AtHead(AfterRead({cur[r]}), cur[r])
  /\ global = None
  /\ global' = r
  /\ Goto(r, "load")
  /\ ReadOnly({cur[r]})
  /\ NoFault
  /\ UNCHANGED <<alive, cur, verdict, retries, lease, sched, logVars,
                 historyVars>>

\* Two hours since the ticket was made, which may be before the first round.
TurnTimesOut(r) ==
  /\ At(r, "turn")
  /\ Conclude(r, cur[r], "queue_timeout")
  /\ NoFault
  /\ UNCHANGED <<queueVars, alive, retries, guardVars, logVars, historyVars>>

\* RunQueueError: the ticket is completed in the finally, nothing is recorded,
\* and the exception ends the dispatcher.
TurnFails(r) ==
  /\ At(r, "turn")
  /\ Goto(r, "abort")
  /\ Fault
  /\ UNCHANGED <<queueVars, alive, cur, verdict, retries, guardVars, logVars,
                 historyVars>>

\* The dispatcher's own ticket has its configuration at hand; any other is
\* loaded by its snapshot_id from the profiles of the dispatcher's own
\* installation, and may have become invalid.
Loadable(r, t) ==
  \/ t = r
  \/ Home[t] = Home[r] /\ t \notin BrokenSnapshot

Load(r) ==
  /\ At(r, "load")
  /\ \/ Loadable(r, cur[r]) /\ Goto(r, "schedule") /\ UNCHANGED <<cur, verdict>>
     \/ ~Loadable(r, cur[r]) /\ Conclude(r, cur[r], "config_invalid")
  /\ NoFault
  /\ UNCHANGED <<queueVars, alive, retries, guardVars, logVars, historyVars>>

\* schedule_lease, and the start of _execute_cli_mode
TakeSchedule(r) ==
  LET s == SchedOf[cur[r]] IN
  /\ At(r, "schedule")
  /\ sched[s] = None
  /\ sched' = [sched EXCEPT ![s] = r]
  /\ Goto(r, "run")
  /\ retries' = [retries EXCEPT ![r] = 0]
  /\ ran' = [ran EXCEPT ![cur[r]] = @ + 1]
  /\ NoFault
  /\ UNCHANGED <<queueVars, alive, cur, verdict, global, lease, records,
                 notified, historyVars>>

ScheduleBusy(r) ==
  /\ At(r, "schedule")
  /\ sched[SchedOf[cur[r]]] # None
  /\ Conclude(r, cur[r], "busy")
  /\ NoFault
  /\ UNCHANGED <<queueVars, alive, retries, guardVars, logVars, historyVars>>

\* The last attempt ends; how it ended is the subject of Headless.
Finish(r) ==
  /\ At(r, "run")
  /\ Conclude(r, cur[r], "finished")
  /\ NoFault
  /\ UNCHANGED <<queueVars, alive, retries, guardVars, logVars, historyVars>>

\* An attempt failed for a transient reason: update_retry_wait, whose failure
\* execute_headless swallows.
WaitForRetry(r) ==
  /\ At(r, "run")
  /\ retries[r] < MaxRetry
  /\ retries' = [retries EXCEPT ![r] = @ + 1]
  /\ Goto(r, "retry")
  /\ \/ SetDispatchState(cur[r], "retry_waiting") /\ NoFault
     \/ UNCHANGED queueVars /\ Fault
  /\ UNCHANGED <<alive, cur, verdict, guardVars, logVars, historyVars>>

RetryJob(r) ==
  /\ At(r, "retry")
  /\ Goto(r, "run")
  /\ \/ SetDispatchState(cur[r], "running") /\ NoFault
     \/ UNCHANGED queueVars /\ Fault
  /\ UNCHANGED <<alive, cur, verdict, retries, guardVars, logVars, historyVars>>

-----------------------------------------------------------------------------
(* The end of a ticket, or of a request that was refused. *)

\* The history sink; its failure is logged and swallowed.
Record(r) ==
  /\ At(r, "record")
  /\ \/ /\ records' = [records EXCEPT ![cur[r]] = Append(@, verdict[r])]
        /\ NoFault
     \/ UNCHANGED records /\ Fault
  /\ Goto(r, "notify")
  /\ UNCHANGED <<queueVars, alive, cur, verdict, retries, guardVars, notified,
                 ran, historyVars>>

\* ScheduledRunNotifier.notify: this process has not seen this run_id.  A
\* process that is no dispatcher has reported its own request, and ends.
Notify(r) ==
  /\ At(r, "notify")
  /\ notified' = [notified EXCEPT ![cur[r]] = @ + 1]
  /\ \/ lease = r /\ Goto(r, "release") /\ UNCHANGED <<alive, cur>>
     \/ /\ lease # r
        /\ Goto(r, "done")
        /\ alive' = alive \ {r}
        /\ cur' = [cur EXCEPT ![r] = None]
  /\ verdict' = [verdict EXCEPT ![r] = None]
  /\ NoFault
  /\ UNCHANGED <<queueVars, retries, guardVars, records, ran, historyVars>>

\* The guards of the schedule and of the run are left, in this order.  The own
\* ticket still keeps every other user of the queue away.
Release(r) ==
  /\ At(r, "release")
  /\ DropRunGuards(r)
  /\ Goto(r, "complete")
  /\ NoFault
  /\ UNCHANGED <<queueVars, alive, cur, verdict, retries, lease, logVars,
                 historyVars>>

\* Mutant: a ticket is completed without being deleted.
CompleteKeepsTicket(r) ==
  /\ pc[r] \in {"complete", "abort"}
  /\ Goto(r, IF At(r, "complete") THEN "claim" ELSE "exit")
  /\ cur' = [cur EXCEPT ![r] = None]
  /\ NoFault
  /\ UNCHANGED <<queueVars, alive, verdict, retries, guardVars, logVars,
                 historyVars>>

\* Mutant: the dispatcher serves one ticket and leaves.
CompleteAndLeave(r) ==
  /\ pc[r] \in {"complete", "abort"}
  /\ Delete(cur[r])
  /\ Goto(r, "exit")
  /\ cur' = [cur EXCEPT ![r] = None]
  /\ NoFault
  /\ UNCHANGED <<alive, verdict, retries, guardVars, logVars, historyVars>>

\* The finally: the ticket is deleted, unless that fails, which is swallowed.
Complete(r) ==
  /\ pc[r] \in {"complete", "abort"}
  /\ \/ Delete(cur[r]) /\ NoFault
     \/ UNCHANGED queueVars /\ Fault
  /\ Goto(r, IF At(r, "complete") THEN "claim" ELSE "exit")
  /\ cur' = [cur EXCEPT ![r] = None]
  /\ UNCHANGED <<alive, verdict, retries, guardVars, logVars, historyVars>>

\* The lease is given up and the process ends.
Exit(r) ==
  /\ At(r, "exit")
  /\ lease' = None
  /\ Goto(r, "done")
  /\ alive' = alive \ {r}
  /\ NoFault
  /\ UNCHANGED <<queueVars, cur, verdict, retries, global, sched, logVars,
                 historyVars>>

RunStepOf(r) ==
  \/ Enqueue(r)       \/ EnqueueFails(r) \/ TakeLease(r)    \/ LeaveToDispatcher(r)
  \/ Claim(r)         \/ ClaimFails(r)   \/ Turn(r)         \/ TurnTimesOut(r)
  \/ TurnFails(r)     \/ Load(r)         \/ TakeSchedule(r) \/ ScheduleBusy(r)
  \/ Finish(r)        \/ WaitForRetry(r) \/ RetryJob(r)     \/ Record(r)
  \/ Notify(r)        \/ Release(r)      \/ Complete(r)     \/ Exit(r)

-----------------------------------------------------------------------------
(* The other users of the guards. *)

\* try_acquire_manual: a download or a reclassification starts from the GUI if
\* no ticket waits.  Otherwise it is the read alone, like list_queue.
ManualStart(g) ==
  /\ At(g, "idle")
  /\ ReadOnly({})
  /\ IF Listed(AfterRead({})) = {} /\ global = None
     THEN global' = g /\ Goto(g, "manual")
     ELSE UNCHANGED <<global, pc>>
  /\ NoFault
  /\ UNCHANGED <<alive, cur, verdict, retries, lease, sched, logVars,
                 historyVars>>

\* A ticket file that cannot be read at the moment is unlinked by the reader.
UnreadableTicket(g) ==
  /\ At(g, "idle")
  /\ \E t \in Listed(state) :
       /\ state' = [AfterRead({}) EXCEPT ![t] = "absent"]
       /\ disp' = [DispAfterRead EXCEPT ![t] = None]
       /\ order' = [order EXCEPT ![t] = 0]
  /\ Fault
  /\ UNCHANGED <<alive, procVars, guardVars, logVars, historyVars>>

\* cleanup_retained_snapshots looks whether a schedule is idle by taking its
\* guard, and keeps it until the snapshot is deleted ...
CleanupTakesSchedule(g, s) ==
  /\ At(g, "idle")
  /\ sched[s] = None
  /\ sched' = [sched EXCEPT ![s] = g]
  /\ Goto(g, "cleanup")
  /\ NoFault
  /\ UNCHANGED <<queueVars, alive, cur, verdict, retries, global, lease,
                 logVars, historyVars>>

\* ... after taking the global guard as well.
CleanupTakesGlobal(g) ==
  /\ At(g, "cleanup")
  /\ global = None
  /\ global' = g
  /\ Goto(g, "sweep")
  /\ NoFault
  /\ UNCHANGED <<queueVars, alive, cur, verdict, retries, lease, sched,
                 logVars, historyVars>>

\* run_scheduled_download for --run-once: only the guard is asked.
OneShotStart(c) ==
  /\ At(c, "idle")
  /\ global = None
  /\ global' = c
  /\ Goto(c, "manual")
  /\ NoFault
  /\ UNCHANGED <<queueVars, alive, cur, verdict, retries, lease, sched,
                 logVars, historyVars>>

\* The end of a manual run or of a cleanup.
OtherEnds(p) ==
  /\ pc[p] \in {"manual", "cleanup", "sweep"}
  /\ DropRunGuards(p)
  /\ Goto(p, "idle")
  /\ NoFault
  /\ UNCHANGED <<queueVars, alive, cur, verdict, retries, lease, logVars,
                 historyVars>>

\* A process is killed at any step, for example by the four-hour limit of its
\* Windows task: tickets stay, guards go.
Crash(p) ==
  /\ pc[p] \notin {"idle", "done", "crashed"}
  /\ crashes < MaxCrash
  /\ crashes' = crashes + 1
  /\ Goto(p, "crashed")
  /\ alive' = alive \ {p}
  /\ DropRunGuards(p)
  /\ lease' = IF lease = p THEN None ELSE lease
  /\ cur' = [r \in Run |-> IF r = p THEN None ELSE cur[r]]
  /\ verdict' = [r \in Run |-> IF r = p THEN None ELSE verdict[r]]
  /\ UNCHANGED <<queueVars, retries, logVars, historyVars, faults>>

Next ==
  \/ \E r \in Run : Launch(r) \/ RunStepOf(r)
  \/ \E g \in Gui : ManualStart(g) \/ UnreadableTicket(g)
  \/ \E g \in Gui : CleanupTakesGlobal(g)
  \/ \E g \in Gui, s \in Schedule : CleanupTakesSchedule(g, s)
  \/ \E c \in Cli : OneShotStart(c)
  \/ \E p \in Gui \cup Cli : OtherEnds(p)
  \/ \E p \in Proc : Crash(p)

Spec == Init /\ [][Next]_vars

\* A process that was started keeps going: its waits are bounded (two hours for
\* the turn, half a second for the lease, a job's retries), so it always has a
\* step to take until it ends or crashes.  Nothing else is assumed, not even
\* that a manual run ends or that Windows starts another run.
FairSpec == Spec /\ \A r \in Run : WF_vars(RunStepOf(r))

-----------------------------------------------------------------------------
(* Safety *)

TypeOK ==
  /\ QueueTypeOK
  /\ disp \in [Ticket -> Run \cup {None}]
  /\ alive \in SUBSET Run
  /\ pc \in [Proc -> RunStep \cup OtherStep]
  /\ cur \in [Run -> Run \cup {None}]
  /\ verdict \in [Run -> Result \cup {None}]
  /\ retries \in [Run -> 0 .. MaxRetry]
  /\ global \in Proc \cup {None}
  /\ lease \in Run \cup {None}
  /\ sched \in [Schedule -> Proc \cup {None}]
  /\ records \in [Run -> Seq(Result)]
  /\ notified \in [Run -> Nat]
  /\ ran \in [Run -> Nat]
  /\ arrival \in [Run -> Nat]
  /\ arrivals \in Nat
  /\ crashes \in 0 .. MaxCrash
  /\ faults \in 0 .. MaxFault

\* Of all processes, of all kinds, at most one is between the moment it gets
\* the run guard and the end of its job: two downloads never write the same
\* folders, and no snapshot is deleted while a job that may need it runs.
OneDownloadAtATime ==
  \A p, q \in Proc :
    /\ pc[p] \in Serving \cup {"manual", "sweep"}
    /\ pc[q] \in Serving \cup {"manual", "sweep"}
    => p = q

\* A job is served only while no older request waits, whatever the clock does
\* and although tickets of dead dispatchers return to the queue.
OldestServedFirst ==
  \A r \in Run :
    pc[r] \in Serving /\ state[cur[r]] # "absent" =>
      \A u \in Run : state[u] # "absent" => arrival[cur[r]] <= arrival[u]

\* A request that was accepted leaves the queue only with a result in the
\* history, crashes included.  (A failure of a queue or history file is the one
\* exception: see TurnFails and Record.)
RecordedBeforeRemoved ==
  \A t \in Run :
    faults = 0 /\ arrival[t] > 0 /\ state[t] = "absent" => records[t] # <<>>

\* A request is executed, recorded and notified again only if a process crashed
\* or a file operation failed in between.
RepeatedOnlyAfterFailure ==
  \A t \in Run :
    /\ ran[t] <= 1 + crashes + faults
    /\ Len(records[t]) <= 1 + crashes + faults
    /\ notified[t] <= 1 + crashes + faults

\* Every guard that is taken belongs to a process that is at a step where it
\* still will give it up: no path through the dispatcher leaks a guard.
GuardsAccountedFor ==
  /\ global # None =>
       pc[global] \in Serving \cup {"record", "notify", "release", "manual", "sweep"}
  /\ lease # None =>
       pc[lease] \in Serving \cup {"claim", "turn", "record", "notify", "release",
                                  "complete", "abort", "exit"}
  /\ \A s \in Schedule : sched[s] # None =>
       pc[sched[s]] \in {"run", "retry", "record", "notify", "release",
                         "cleanup", "sweep"}

-----------------------------------------------------------------------------
(* Liveness *)

\* Unless a process crashes or a file operation fails, and if the lease changes
\* hands in time, every request that was accepted gets a result, also if a
\* download that holds the guard never ends.
ServedEventually ==
  \A t \in Run : pc[t] = "lease" ~> records[t] # <<>> \/ crashes + faults > 0

\* No scheduled process stays for ever, whatever fails.
RunsEnd ==
  \A r \in Run : pc[r] = "enqueue" ~> pc[r] \in {"done", "crashed"}

\* Every launch comes to its end: the process, and the request that it made.
LaunchesEnd ==
  /\ ServedEventually
  /\ RunsEnd

\* A ticket that a crashed dispatcher was serving is dealt with once a later
\* request of any other schedule gets to the lease, unless a file operation
\* fails.  (While the ticket is there a run of its own schedule does not get
\* that far: it is a duplicate.  See TakenOverByNext.)
TakenOver ==
  \A t \in Run :
    (/\ state[t] \in Active /\ disp[t] # None /\ pc[disp[t]] = "crashed"
     /\ \E s \in Run : pc[s] = "lease"
     /\ faults = 0)
      ~> state[t] = "absent" \/ faults > 0

-----------------------------------------------------------------------------
(* What the documentation says and the code does not do. *)

\* "dispatcherの異常終了は、次の起動時に...引き継ぎます": the next scheduled run
\* that Windows starts takes over the ticket of a crashed dispatcher.  A run of
\* the ticket's own schedule, usually the next there is, does not: it reports
\* busy and leaves without having asked for the lease.
TakenOverByNext ==
  \A t \in Run :
    (/\ state[t] \in Active /\ disp[t] # None /\ pc[disp[t]] = "crashed"
     /\ \E s \in Run : pc[s] = "enqueue"
     /\ faults = 0)
      ~> state[t] = "absent" \/ faults > 0

\* "全配置を通してFIFOで1件ずつ処理する": a request with a valid snapshot is
\* not answered with an invalid configuration because the dispatcher happens
\* to be a process of another installation.
ServedAcrossInstallations ==
  \A r \in Run :
    pc[r] = "record" /\ verdict[r] = "config_invalid" /\ cur[r] # r
      => cur[r] \in BrokenSnapshot

=============================================================================
