----------------------------- MODULE MainWindow -----------------------------
(***************************************************************************)
(* The window and its threads (gui/main_window.py, gui/event_handler.py,   *)
(* main.py download_files): the thread of a download runs module           *)
(* ApplicationRun, the option worker module OptionLoads, the lists of      *)
(* schedules module ScheduleManager, and they tell the window through one  *)
(* EventHandler, of which the window takes one item at a time.  Between    *)
(* two items the user clicks.                                              *)
(*                                                                         *)
(* win is the window:                                                      *)
(*   thread      the download thread: "none" (download_thread is None),    *)
(*               "new", "run", "over" (its finally block), "dead"          *)
(*   outcome     _last_run_outcome, "" for None                            *)
(*   bar         what the progress text says: an outcome or a kind of text *)
(*   view        the projects of the search and its generation             *)
(*   closing, destroyed                                                    *)
(*   clicks      what the user will still do                               *)
(* and, for the properties only, told: the view after every search event   *)
(* of this run in its order; late: the end of a run was handled while its  *)
(* START still waited; began: the run has got the slot for manual runs.    *)
(***************************************************************************)
EXTENDS ApplicationRun, OptionLoads, ScheduleManager

CONSTANT Users        \* what a user does and meets: clicks, the editor's loads and
                      \* reloads, pages of candidates that cannot be read, whether
                      \* there is a schedule service, what is done in the settings

ASSUME UsersAssumption == \A user \in Users : user.schedules \in ScheduleUsers

VARIABLE win

windowVars == <<run, out, cancelFlag, failures, loads, handler, service, editor, site, misses, win,
          scheduleVars>>
loadVars == <<loads, service, editor, site, misses>>
ownVars == <<run, out, cancelFlag, failures>>

NoView == [gen |-> 0, projects |-> NoProjects]

WindowInit ==
    /\ \E user \in Users :
          /\ win = [thread |-> "none", outcome |-> "", bar |-> "loading", view |-> NoView,
                    closing |-> FALSE, destroyed |-> FALSE, told |-> NoView,
                    late |-> FALSE, began |-> FALSE, clicks |-> user.clicks]
          /\ editor = [step |-> "idle", target |-> Active,
                       loads |-> user.editorLoads, reloads |-> user.editorReloads]
          /\ ScheduleInit(user.schedules)
          /\ misses = MaxMiss - user.misses
    /\ LET asked == InitialLoad(Request(NewLoads, NewHandler, 1))
       IN  loads = asked.l /\ handler = asked.h
    /\ service = NoCatalog /\ site = 1
    /\ run = [NewRun(CHOOSE p \in Plans : TRUE, 0) EXCEPT !.stage = "done"]
    /\ out = <<>> /\ cancelFlag = FALSE /\ failures = 0

-----------------------------------------------------------------------------
(* What an event does to the window.                                       *)

\* _consume_search_metadata: projects of another search go
Consume(view, e) ==
    LET kept == IF e.gen = 0 \/ view.gen \in {0, e.gen} THEN view.projects ELSE NoProjects
    IN  [gen |-> IF e.gen = 0 THEN view.gen ELSE e.gen,
         projects |-> Joined(e.deltas, IF e.full = <<>> THEN kept ELSE e.full[1])]

IsSearch(e) == e.type = "SEARCH"

\* every search event of a run, one by one
ConsumeAll(view, es) == FoldLeft(Consume, view, SelectSeq(es, IsSearch))

\* _handle_event; progress that comes after the end of its run is not shown
Display(w, h, e) ==
    CASE IsSearch(e) -> IF h.seen THEN w
                        ELSE [w EXCEPT !.view = Consume(@, e), !.bar = "search"]
      [] e.type = "PROGRESS" -> IF h.seen THEN w ELSE [w EXCEPT !.bar = "progress"]
      [] e.type \in {"COMPLETE", "FAIL"} ->
            [w EXCEPT !.outcome = e.outcome, !.bar = e.outcome,
                      !.late = @ \/ \E i \in DOMAIN h.queue : h.queue[i].type = "START"]
      [] OTHER -> w

Seen(h, e) == IF e.type = "START" THEN FALSE
              ELSE h.seen \/ e.type \in {"COMPLETE", "FAIL"}

HandleEvent(e) ==
    /\ win' = Display(win, handler, e)
    /\ handler' = [Taken(handler) EXCEPT !.seen = Seen(handler, e)]
    /\ UNCHANGED <<loads, scheduleVars>>

\* _reset_download_ui: a run that told no outcome gets one
ResetDownload ==
    LET outcome == IF win.outcome # "" THEN win.outcome
                   ELSE IF cancelFlag THEN "CANCELLED" ELSE "FAILED"
    IN  /\ win' = [win EXCEPT !.thread = "none", !.outcome = outcome,
                              !.bar = IF win.outcome = "" THEN outcome ELSE @]
        /\ handler' = Taken(handler) /\ UNCHANGED <<loads, scheduleVars>>

\* the text of the bar after a call that may begin or finish loads
LoadText(l) ==
    IF l.pending > loads.pending THEN "loading"
    ELSE IF l.pending = 0 /\ win.thread = "none" THEN "idle" ELSE win.bar

HandleLoad(c) ==
    LET done == Handle(loads, Taken(handler), c)
    IN  /\ Becomes(done)
        /\ win' = [win EXCEPT !.bar = LoadText(done.l)]
        /\ UNCHANGED scheduleVars

HandleCall(c) ==
    CASE c.what = "reset" -> ResetDownload
      [] c.what = "message" ->
            handler' = Taken(handler) /\ UNCHANGED <<win, loads, scheduleVars>>
      [] c.what = "schedules" ->
            /\ handler' = Taken(handler) /\ schedules' = ListAnswered(c.answer)
            /\ UNCHANGED <<win, loads, registry, dialog>>
      [] OTHER -> HandleLoad(c)

\* one item of _poll_events
Poll ==
    /\ HasItem(handler)
    /\ LET x == NextItem(handler)
       IN  IF x.type = "CALL" THEN HandleCall(x.call) ELSE HandleEvent(x)
    /\ UNCHANGED <<ownVars, service, editor, site, misses>>

-----------------------------------------------------------------------------
(* The download thread.                                                    *)

\* download_files: the slot is taken, refused, or asking for it raises
Slot ==
    /\ win.thread = "new"
    /\ \/ win' = [win EXCEPT !.thread = "run", !.began = TRUE] /\ UNCHANGED handler
       \/ /\ win' = [win EXCEPT !.thread = "over"]
          /\ handler' \in {Emit(handler, Event("MESSAGE")), CallSoon(handler, [what |-> "message"])}
    /\ UNCHANGED <<ownVars, loadVars, scheduleVars>>

Running ==
    /\ win.thread = "run" /\ RunStep /\ UNCHANGED <<cancelFlag, loadVars, scheduleVars>>
    /\ handler' = EmitAll(handler, out')
    /\ win' = [win EXCEPT !.told = ConsumeAll(@, out'),
                          !.thread = IF run'.stage = "done" THEN "over" ELSE @]

\* the finally block of _download_thread
Reset(h) == CallCritical(h, [what |-> "reset"])

ThreadEnds ==
    /\ win.thread = "over"
    /\ win' = [win EXCEPT !.thread = "dead"]
    /\ handler' = Reset(handler)
    /\ UNCHANGED <<ownVars, loadVars, scheduleVars>>

ThreadStep == Slot \/ Running \/ ThreadEnds

Worker == WorkerStep /\ UNCHANGED <<ownVars, win, scheduleVars>>

Editor == EditorStep /\ UNCHANGED <<ownVars, win, scheduleVars>>

\* the thread that reads the schedules for the window
ListReader ==
    /\ \E answer \in {[failed |-> FALSE, rows |-> registry.of], [failed |-> TRUE, rows |-> Nothing]} :
          /\ ListReads(answer)
          /\ handler' = CallSoon(handler, [what |-> "schedules", answer |-> answer])
    /\ UNCHANGED <<ownVars, loadVars, win>>

ListDue == ~win.closing /\ ListTimer /\ UNCHANGED <<ownVars, loadVars, handler, win>>

ListStep == ListReader \/ ListDue

\* the threads and callbacks of the settings dialog
DialogRefresh == RefreshStep /\ UNCHANGED <<ownVars, loadVars, handler, win>>
DialogDetail == (ReadDetail \/ ApplyDetail) /\ UNCHANGED <<ownVars, loadVars, handler, win>>
DialogAction == ActionStep /\ UNCHANGED <<ownVars, loadVars, handler, win>>

World ==
    \/ SiteChanges /\ UNCHANGED <<ownVars, win, scheduleVars>>
    \/ OthersEdit /\ UNCHANGED <<ownVars, loadVars, handler, win>>

-----------------------------------------------------------------------------
(* The user.                                                               *)

Clicks(what) == ~win.closing /\ win.clicks[what] > 0
Clicked(what) == [win EXCEPT !.clicks[what] = @ - 1]

Alive == win.thread \in {"new", "run", "over"}

\* on_download_start; its button is disabled until the reset is handled
Start ==
    /\ Clicks("start") /\ win.thread = "none" /\ loads.pending = 0 /\ Searchable(loads)
    /\ cancelFlag' = FALSE
    /\ \E plan \in Plans : run' = NewRun(plan, run.gen)
    /\ out' = <<>>
    /\ win' = [Clicked("start") EXCEPT !.thread = "new", !.outcome = "", !.bar = "search",
                                       !.view = NoView, !.told = NoView,
                                       !.began = FALSE]
    /\ UNCHANGED <<failures, handler, loadVars, scheduleVars>>

\* the button is enabled from the start until the reset
CancelClick ==
    /\ Clicks("cancel") /\ win.thread # "none" /\ ~cancelFlag
    /\ cancelFlag' = TRUE
    /\ win' = [Clicked("cancel") EXCEPT !.bar = "cancelling"]
    /\ UNCHANGED <<run, out, failures, handler, loadVars, scheduleVars>>

Select ==
    /\ Clicks("select")
    /\ \E f \in Fields : \E v \in {""} \cup loads.shown[f] :
          LET done == Selected(loads, handler, f, v)
          IN  /\ Selectable(loads, f)
              /\ Becomes(done)
              /\ win' = [Clicked("select") EXCEPT !.bar = LoadText(done.l)]
    /\ UNCHANGED <<ownVars, service, editor, site, misses, scheduleVars>>

ReloadClick ==
    /\ Clicks("reload") /\ ~loads.reloading
    /\ Becomes(Reload(loads, handler))
    /\ win' = Clicked("reload")
    /\ UNCHANGED <<ownVars, service, editor, site, misses, scheduleVars>>

\* on_close
Close ==
    /\ Clicks("close") /\ ~dialog.open
    /\ win' = [Clicked("close") EXCEPT !.closing = TRUE]
    /\ cancelFlag' = TRUE
    /\ loads' = LoadsStop(loads) /\ handler' = Stop(handler)
    /\ UNCHANGED <<run, out, failures, service, editor, site, misses, scheduleVars>>

FinalizeAfterReset ==
    /\ win.closing /\ ~win.destroyed
    /\ win.thread = "none" /\ loads.active = <<>> /\ loads.tasks = <<>>
    /\ win' = [win EXCEPT !.destroyed = TRUE]
    /\ UNCHANGED <<ownVars, handler, loadVars, scheduleVars>>

\* _finish_close_when_idle and _finalize_close, which closes the client
Finalize ==
    /\ win.closing /\ ~win.destroyed
    /\ ~Alive /\ loads.active = <<>> /\ loads.tasks = <<>>
    /\ win' = [win EXCEPT !.destroyed = TRUE]
    /\ UNCHANGED <<ownVars, handler, loadVars, scheduleVars>>

\* the settings are opened while no candidates are read (bound), and used
Settings ==
    /\ \/ ~win.closing /\ loads.pending = 0 /\ OpenSettings
       \/ DialogUser
    /\ UNCHANGED <<ownVars, loadVars, handler, win>>

User == Start \/ CancelClick \/ Select \/ ReloadClick \/ Close \/ Settings

WindowNext ==
    \/ Poll \/ ThreadStep \/ Worker \/ Editor \/ ListStep
    \/ DialogRefresh \/ DialogDetail \/ DialogAction
    \/ World \/ User \/ Finalize

WindowSpec == WindowInit /\ [][WindowNext]_windowVars

\* The threads get on and the window's loop goes round; the user, the
\* schedule editor and the site do what they like.  Weak fairness of the
\* window's loop, the download thread and the worker, with what enables
\* them written out: each has a step in every such state.
FairWindow ==
    /\ WindowSpec /\ WF_windowVars(Finalize)
    /\ []<>~HasItem(handler) \/ []<><<Poll>>_windowVars
    /\ []<>~Alive \/ []<><<ThreadStep>>_windowVars
    /\ []<>(loads.active = <<>> /\ loads.tasks = <<>>) \/ []<><<Worker>>_windowVars

-----------------------------------------------------------------------------
(* Properties.                                                             *)

WindowTypeOK ==
    /\ win.thread \in {"none", "new", "run", "over", "dead"}
    /\ win.outcome \in {"", "SUCCESS", "PARTIAL", "FAILED", "CANCELLED", "NO_MATCH"}
    /\ Len(handler.queue) <= MaxQueued /\ Len(handler.search) <= 1
    /\ loads.pending \in Nat /\ loads.loading \subseteq Fields /\ loads.invalid \subseteq Fields
    /\ site \in DOMAIN Site

\* the end of a run is in the priority queue, its START still behind it
Overtaken == /\ handler.terminal # <<>>
             /\ \E i \in DOMAIN handler.queue : handler.queue[i].type = "START"

InOrder == ~win.late /\ ~Overtaken /\ ~handler.dropped /\ ~handler.stopped

\* Merging search progress loses nothing: what the window shows and what
\* still waits make up what all the events of the run, taken one by one,
\* would show (gui/event_handler.py _coalesce_search_progress, emit).
ViewIsTold ==
    InOrder =>
        ConsumeAll(win.view, SelectSeq(handler.terminal, LAMBDA x : x.type = "SEARCH")
                             \o handler.search) = win.told

\* When the buttons are back, the outcome that is shown is the one of the
\* run, with all projects it found, or a failure or cancellation if the run
\* never began; no progress text stays behind (_reset_download_ui,
\* set_run_outcome; event_handler.py emit, _terminal_seen).
OutcomeShown ==
    win.thread = "none" /\ win.outcome # "" /\ InOrder =>
        /\ win.outcome = IF win.began THEN run.outcome
                         ELSE IF cancelFlag THEN "CANCELLED" ELSE "FAILED"
        /\ win.began /\ run.matched /\ win.outcome \notin {"CANCELLED", "FAILED"}
               => win.view.projects = run.read.projects
        /\ win.bar \notin {"progress", "search"}

\* The download button waits for exactly the loads that have not come back
\* (_pending_option_loads; option_load_coordinator.py on_discard).
PendingCounted ==
    ~handler.dropped /\ ~handler.stopped =>
        loads.pending =
            Len(SelectSeq(loads.tasks, Counted))
            + Len(SelectSeq(loads.active, LAMBDA a : Counted(a.task)))
            + Len(SelectSeq(handler.queue, LAMBDA x : x.type = "CALL"
                                               /\ x.call.what \in {"finish", "apply"}))

\* the labels the site has under a path at a version, in its tree or list
SiteLabels(path, v) ==
    {LabelsIn(branches[path]) : branches \in
        {b \in {Tree(Active, v), List(Active, v)} : path \in DOMAIN b}}

\* A field offers the children of what is selected above it, whatever was
\* selected while they were read (_apply_agency_options).
OffersChildren ==
    \A f \in Fields : loads.shown[f] # {} =>
        \E v \in 1 .. site : loads.shown[f] \in SiteLabels(Parents(loads, f), v)

\* A search that may start is for agencies the site has listed since the
\* candidates were last renewed (_validate_dynamic_search_selections,
\* _refresh_agency_cache_sync).
StartableIsListed ==
    Searchable(loads) /\ loads.pending = 0 /\ ~win.closing =>
        \A f \in Fields : loads.value[f] # "" =>
            \E v \in loads.since .. site : \E labels \in SiteLabels(Parents(loads, f), v) :
                loads.value[f] \in labels

Waiting(whats) ==
    \E i \in DOMAIN handler.queue :
        handler.queue[i].type = "CALL" /\ handler.queue[i].call.what \in whats

\* When nothing is loading any more, a field offers what its start would be
\* checked against (_request_agency_options, generations and cancel events).
ShownIsCached ==
    /\ loads.pending = 0 /\ ~loads.reloading /\ ~loads.stale /\ loads.invalid = {}
    /\ editor.step = "idle"
    /\ ~handler.dropped /\ ~handler.stopped /\ ~Waiting({"apply", "editorReloaded"})
    => \A f \in Fields : Parents(loads, f) \in DOMAIN loads.cache =>
           loads.shown[f] = LabelsIn(loads.cache[Parents(loads, f)])

\* The list search decides where the catalogue contradicts it.
ListBelieved == ListIsBelieved(service)

\* Koji and gyomu do not get each other's candidates.
TargetsApart == OwnCandidates(service)

\* A run gives the buttons back, however full the queue is
\* (call_soon_critical); closing the window is the other end.
RunComesBack == (win.thread # "none") ~> (win.thread = "none" \/ win.closing)

\* The window closes once it was told to, whatever is running.
CloseEnds == win.closing ~> win.destroyed

\* No field stays disabled as loading: a load is still under way, or its answer
\* waits for the window, unless it was dropped from the full queue.
LoadingIsAwaited ==
    loads.loading # {} /\ ~handler.dropped /\ ~handler.stopped
        => loads.pending > 0 \/ Waiting({"apply"})

\* A list that shows something else than what is registered will be read again: a
\* query is under way or due, whatever was asked while one was running and however
\* queries failed, unless an answer was dropped from the full queue.  The main
\* window leaves it to the dialog while that is open.
MainListAsks ==
    schedules.service /\ ~win.closing /\ ~handler.dropped /\ schedules.rows # registry.of
        => schedules.step # "none" \/ schedules.later \/ dialog.open

ListsCatchUp == DialogAsks /\ MainListAsks

\* The window tells what the run did, while it runs and when it is over.
WindowTellsTheRun ==
  /\ WindowTypeOK
  /\ ViewIsTold
  /\ OutcomeShown

\* The fields offer what was read for what is selected above them, the list search is
\* believed, the button and the fields wait for what is still read, and what a search
\* may start with is listed.
CandidatesTrue ==
  /\ PendingCounted
  /\ OffersChildren
  /\ ShownIsCached
  /\ ListBelieved
  /\ StartableIsListed
  /\ LoadingIsAwaited

\* The window gets free again: from its run, and when it is closed.
WindowIsFreed ==
  /\ RunComesBack
  /\ CloseEnds

=============================================================================
