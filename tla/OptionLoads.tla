---------------------------- MODULE OptionLoads ----------------------------
(***************************************************************************)
(* The candidates of the agency fields of the window (gui/main_window.py,  *)
(* gui/option_load_coordinator.py).  A field offers the children of what   *)
(* is selected in the fields before it; they are read by one worker thread *)
(* from module AgencyCatalog and come back through module EventHandler.    *)
(* By then the user may have selected something else, asked for a reload   *)
(* or closed the window, and the editor of the schedules, whose worker     *)
(* shares the catalogue, may have reloaded it.                             *)
(*                                                                         *)
(* loads is the window's and the worker's state:                           *)
(*   value      what is selected per field ("" for nothing)                *)
(*   shown      the labels a field offers                                  *)
(*   gen        _agency_generations      loading  _agency_loading_fields   *)
(*   request    the parents and the cancel event of the field's open       *)
(*              request, <<>> for none; a cancel event is named by the     *)
(*              field and the generation it was made for                   *)
(*   invalid    _agency_invalid_fields   pending  _pending_option_loads    *)
(*   reloading, again, stale             a reload runs, another was asked  *)
(*              for, the last one failed (_agency_catalog_refresh_error)   *)
(*   tasks      the coordinator's tasks in the order of their sequence     *)
(*   active     the task the worker runs, the level it reads, the epoch of  *)
(*              its cache key and what was read, <<>> for none             *)
(*   cancelled  the cancel events that are set                             *)
(*   cache      _agency_option_cache of the present epoch, by parents      *)
(*   epoch, boot      _agency_cache_epoch and _agency_catalog_epoch        *)
(*   since      the site's version the epoch began with (for properties)   *)
(*   accepting  ~_stopped of the coordinator                               *)
(* editor is the worker of the schedule editor, site the site's version.   *)
(***************************************************************************)
EXTENDS EventHandler, AgencyCatalog

CONSTANTS
    Depth,          \* how many agency fields there are (4 in the code)
    Active,         \* the search target of the window
    MaxMiss         \* how often a page of the site cannot be read

VARIABLES loads, handler, service, editor, site, misses

Fields == 1 .. Depth

\* what is selected in the fields before f
Parents(l, f) == [i \in 1 .. f - 1 |-> l.value[i]]

Closed(ps) == \A i \in DOMAIN ps : ps[i] # ""

NewLoads ==
    [value |-> [f \in Fields |-> ""], shown |-> [f \in Fields |-> {}],
     gen |-> [f \in Fields |-> 0], loading |-> {}, request |-> [f \in Fields |-> <<>>],
     invalid |-> {}, pending |-> 0, reloading |-> FALSE, again |-> FALSE,
     stale |-> FALSE, tasks |-> <<>>, active |-> <<>>, cancelled |-> {},
     cache |-> <<>>, epoch |-> 0, boot |-> 0 - 1, since |-> 1, accepting |-> TRUE]

\* what the operators of the window take and give: its state and the handler
Pair(l, h) == [l |-> l, h |-> h]
Becomes(pair) == loads' = pair.l /\ handler' = pair.h

-----------------------------------------------------------------------------
(* The coordinator: of every key the newest task.  Tasks of the user's own *)
(* choice come before prefetches.                                          *)

Finish == [what |-> "finish"]

\* the same key: the same agency field, or another load of the same kind
SameKey(t, u) == t.kind = u.kind /\ (t.kind = "agency" => t.field = u.field)
Others(l, task) == SelectSeq(l.tasks, LAMBDA t : ~SameKey(t, task))

Counted(task) == task.kind # "reload"        \* finish_on_discard

\* a replaced task still counts as pending until its discard is handled
SubmitTask(l, h, task) ==
    LET discarded == SelectSeq(l.tasks, LAMBDA t : SameKey(t, task) /\ Counted(t))
    IN  Pair([l EXCEPT !.tasks = Append(Others(l, task), task)],
             IF discarded = <<>> THEN h ELSE CallSoon(h, Finish))

\* the oldest task of the best priority
NextTask(l) ==
    LET best == {i \in DOMAIN l.tasks :
                    \/ l.tasks[i].kind # "initial"
                    \/ \A j \in DOMAIN l.tasks : l.tasks[j].kind = "initial"}
    IN  CHOOSE i \in best : \A j \in best : i <= j

-----------------------------------------------------------------------------
(* What the window does with a field.                                      *)

\* an answer is applied if it is of the field's newest request, and for
\* what is still selected above it
StillWanted(l, f, gen, parents) == l.gen[f] = gen /\ parents = Parents(l, f)

\* _mark_agency_branch_invalid
Branch(l, f) == {f} \cup {d \in f + 1 .. Depth : l.value[d] # ""}

\* _apply_agency_options: a value that is no longer offered stays, marked
Place(l, f, options, error) ==
    LET settled == [l EXCEPT !.loading = @ \ {f}, !.request[f] = <<>>]
        listed == l.value[f] = "" \/ l.value[f] \in LabelsIn(options)
    IN  IF error
        THEN [settled EXCEPT !.invalid = IF l.value[f] = "" THEN @ ELSE @ \cup Branch(l, f)]
        ELSE [settled EXCEPT !.shown[f] = LabelsIn(options),
                             !.invalid = IF listed THEN @ \ {f} ELSE @ \cup Branch(l, f)]

\* the selected value is offered: the next field is asked for
Descends(l, f, options, error) ==
    ~error /\ l.value[f] # "" /\ l.value[f] \in LabelsIn(options)

\* the cancel events of the open requests of some fields
OpenRequests(l, fs) == {l.request[f][2] : f \in {g \in fs : l.request[g] # <<>>}}

\* a request for other parents cancels the one that is open
SameRequest(l, f, parents) == l.request[f] # <<>> /\ l.request[f][1] = parents
OtherRequest(l, f, parents) ==
    IF SameRequest(l, f, parents) THEN {} ELSE OpenRequests(l, {f})

\* _request_agency_options of a field with nothing in the cache: a request
\* for the same parents keeps the cancel event
Ask(l, h, f, parents) ==
    LET gen == l.gen[f] + 1
        event == IF SameRequest(l, f, parents) THEN l.request[f][2] ELSE <<f, gen>>
    IN  SubmitTask([l EXCEPT !.gen[f] = gen, !.loading = @ \cup {f},
                         !.request[f] = <<parents, event>>, !.pending = @ + 1,
                         !.cancelled = @ \cup OtherRequest(l, f, parents)],
               h, [kind |-> "agency", field |-> f, gen |-> gen,
                   parents |-> parents, event |-> event])

\* and of one whose candidates are there: they are applied at once
Cached(l, f, parents) ==
    Place([l EXCEPT !.gen[f] = @ + 1, !.cancelled = @ \cup OtherRequest(l, f, parents)],
          f, l.cache[parents], FALSE)

RequestOne(acc, f) ==
    LET parents == Parents(acc.l, f)
        cached == parents \in DOMAIN acc.l.cache
        asked == Ask(acc.l, acc.h, f, parents)
        placed == Cached(acc.l, f, parents)
    IN  IF ~acc.goesOn THEN acc
        ELSE IF cached
             THEN [l |-> placed, h |-> acc.h,
                   goesOn |-> Descends(placed, f, acc.l.cache[parents], FALSE)]
             ELSE [l |-> asked.l, h |-> asked.h, goesOn |-> FALSE]

\* a field, and those below it as far as the cache answers
Request(l, h, f) ==
    LET asked == FoldLeft(RequestOne, [l |-> l, h |-> h, goesOn |-> TRUE],
                          [i \in 1 .. Depth - f + 1 |-> f + i - 1])
    IN  Pair(asked.l, asked.h)

InitialLoad(pair) ==
    SubmitTask([pair.l EXCEPT !.pending = @ + 1], pair.h, [kind |-> "initial"])

\* _prepare_agency_reload_ui: nothing that is on its way is wanted any more
Prepared(l) ==
    [l EXCEPT !.cancelled = @ \cup OpenRequests(l, Fields),
              !.request = [f \in Fields |-> <<>>], !.gen = [f \in Fields |-> @[f] + 1],
              !.loading = {}, !.invalid = {}]

\* reload_agency_options
Reload(l, h) ==
    IF l.reloading
    THEN Pair([l EXCEPT !.again = TRUE], h)
    ELSE SubmitTask([Prepared(l) EXCEPT !.reloading = TRUE, !.again = FALSE], h, [kind |-> "reload"])

\* _finish_option_load
Finished(l) == [l EXCEPT !.pending = IF @ > 0 THEN @ - 1 ELSE 0]

-----------------------------------------------------------------------------
(* The calls that come back to the window.                                 *)

Apply(l, h, c) ==
    LET placed == Place(l, c.field, c.options, c.error)
        next == IF Descends(placed, c.field, c.options, c.error) /\ c.field < Depth
                THEN Request(placed, h, c.field + 1) ELSE Pair(placed, h)
        done == IF StillWanted(l, c.field, c.gen, c.parents) THEN next ELSE Pair(l, h)
    IN  Pair(Finished(done.l), done.h)

\* _finish_agency_reload
Reloaded(l, h, c) ==
    LET over == [l EXCEPT !.reloading = FALSE, !.stale = c.error]
        done == IF c.error
                THEN Pair([over EXCEPT !.invalid = @ \cup {f \in Fields : l.value[f] # ""}], h)
                ELSE InitialLoad(Request(over, h, 1))
    IN  IF l.again
        THEN Reload([done.l EXCEPT !.again = FALSE], done.h)
        ELSE done

EditorReloadedQuietly(l, h) == Pair(Prepared(l), h)

\* _finish_schedule_agency_reload
EditorReloaded(l, h) == Request(Prepared(l), h, 1)

Handle(l, h, c) ==
    CASE c.what = "finish" -> Pair(Finished(l), h)
      [] c.what = "apply" -> Apply(l, h, c)
      [] c.what = "reloaded" -> Reloaded(l, h, c)
      [] c.what = "editorReloaded" -> EditorReloaded(l, h)

-----------------------------------------------------------------------------
(* The worker.                                                             *)

Miss == misses < MaxMiss /\ misses' = misses + 1
NoMiss == UNCHANGED misses

\* the path of the level the worker reads
Level(a) == SubSeq(a.task.parents, 1, a.level)

TakeTask ==
    /\ loads.active = <<>> /\ loads.tasks # <<>>
    /\ loads' = [loads EXCEPT !.active = <<[task |-> loads.tasks[NextTask(loads)],
                                            level |-> 0, epoch |-> 0 - 1,
                                            got |-> <<>>]>>,
                              !.tasks = RemoveAt(@, NextTask(loads))]
    /\ UNCHANGED <<handler, service, editor, site, misses>>

WorkingOn(kind) == loads.active # <<>> /\ loads.active[1].task.kind = kind

\* the task ends and its result goes to the window
Answer(l, h, c) == Pair([l EXCEPT !.active = <<>>], CallSoon(h, c))

AgencyAnswer(l, h, options, error) ==
    LET t == l.active[1].task
    IN  Answer(l, h, [what |-> "apply", field |-> t.field, gen |-> t.gen,
                      parents |-> t.parents, options |-> options, error |-> error])

\* one level was read: the next one, or the answer; a label of the path
\* that is not there is an error
LevelRead(l, h, options) ==
    LET a == l.active[1]
    IN  IF a.level = Len(a.task.parents) THEN AgencyAnswer(l, h, options, FALSE)
        ELSE IF a.task.parents[a.level + 1] \in LabelsIn(options)
             THEN Pair([l EXCEPT !.active[1].level = @ + 1, !.active[1].epoch = 0 - 1,
                                    !.active[1].got = <<>>], h)
             ELSE AgencyAnswer(l, h, {}, TRUE)

\* _get_agency_children_singleflight: a cached level needs no request, and
\* is used even for a cancelled one; otherwise the cache's key is made first
LookUp ==
    /\ WorkingOn("agency") /\ loads.active[1].epoch = 0 - 1
    /\ LET path == Level(loads.active[1])
       IN  IF path \in DOMAIN loads.cache
           THEN Becomes(LevelRead(loads, handler, loads.cache[path]))
           ELSE Becomes(Pair([loads EXCEPT !.active[1].epoch = loads.epoch], handler))
    /\ UNCHANGED <<service, editor, site, misses>>

\* what was read goes under the key that was made before it was read
PutInCache(l, path, options) ==
    IF l.active[1].epoch = l.epoch THEN [l EXCEPT !.cache = (path :> options) @@ @] ELSE l

\* the first request of an epoch asks for the catalogue, whatever its level;
\* one that is cancelled may have been cancelled while it read
ReadLevel ==
    /\ WorkingOn("agency") /\ loads.active[1].epoch # 0 - 1 /\ loads.active[1].got = <<>>
    /\ LET a == loads.active[1]
           path == Level(a)
           booting == loads.boot # loads.epoch
           l == [loads EXCEPT !.boot = loads.epoch]
       IN  \/ /\ a.task.event \in loads.cancelled
              /\ Becomes(AgencyAnswer(loads, handler, {}, TRUE))
              /\ service' \in {service, GetChildren(service, Active, path, site, FALSE, FALSE).s}
              /\ NoMiss
           \/ /\ a.task.event \notin loads.cancelled
              /\ \E treeFails, listFails \in BOOLEAN :
                    LET booted == IF booting /\ ~treeFails
                                  THEN Bootstrap(service, Active, site) ELSE service
                        got == GetChildren(booted, Active, path, site, treeFails, listFails)
                    IN  /\ IF treeFails \/ listFails THEN Miss ELSE NoMiss
                        /\ service' = got.s
                        /\ Becomes(IF got.error
                                   THEN AgencyAnswer(l, handler, {}, TRUE)
                                   ELSE Pair([l EXCEPT !.active[1].got = <<got.options>>],
                                             handler))
    /\ UNCHANGED <<editor, site>>

\* the scraper's lock is released before the window's cache is written
KeepLevel ==
    /\ WorkingOn("agency") /\ loads.active[1].got # <<>>
    /\ LET a == loads.active[1]
       IN  Becomes(LevelRead(PutInCache(loads, Level(a), a.got[1]), handler, a.got[1]))
    /\ UNCHANGED <<service, editor, site, misses>>

\* _refresh_agency_cache_sync: the catalogue first, then the window's cache
NewEpoch(l, v) ==
    [l EXCEPT !.epoch = @ + 1, !.boot = l.epoch + 1, !.since = v, !.cache = <<>>]

ReloadTask ==
    /\ WorkingOn("reload")
    /\ \/ /\ Miss /\ UNCHANGED service
          /\ Becomes(Answer(loads, handler, [what |-> "reloaded", error |-> TRUE]))
       \/ /\ NoMiss /\ service' = Refresh(service, Active, site)
          /\ Becomes(Answer(NewEpoch(loads, site), handler, [what |-> "reloaded", error |-> FALSE]))
    /\ UNCHANGED <<editor, site>>

\* load_initial_search_options: the other fields of the search page
InitialTask ==
    /\ WorkingOn("initial")
    /\ \/ Miss /\ UNCHANGED service
       \/ NoMiss /\ service' = Prime(service, Active, site)
    /\ Becomes(Answer(loads, handler, Finish))
    /\ UNCHANGED <<editor, site>>

WorkerStep == TakeTask \/ LookUp \/ ReadLevel \/ KeepLevel \/ ReloadTask \/ InitialTask

-----------------------------------------------------------------------------
(* The worker of the schedule editor, for a target t of its own.           *)

EditorTo(step, t) == editor' = [editor EXCEPT !.step = step, !.target = t]

\* a field of it: of the search page, or the agencies of the first level
EditorLoads ==
    /\ editor.step = "idle" /\ editor.loads > 0 /\ UNCHANGED misses
    /\ \E t \in SearchTargets :
          /\ editor' = [editor EXCEPT !.loads = @ - 1]
          /\ service' \in {Prime(service, t, site),
                           GetChildren(service, t, <<>>, site, FALSE, FALSE).s}
    /\ UNCHANGED <<loads, handler, site>>

\* _reload_agency_options_for_schedule: the catalogue under the scraper's
\* lock, the window's cache after it is released, then the window is told
EditorRefreshes ==
    /\ editor.step = "idle" /\ editor.reloads > 0
    /\ \E t \in SearchTargets :
          /\ editor' = [editor EXCEPT !.reloads = @ - 1, !.target = t,
                                      !.step = IF t = Active THEN "refreshed" ELSE "tell"]
          /\ service' = Refresh(service, t, site)
    /\ UNCHANGED <<loads, handler, site, misses>>

EditorBumps ==
    /\ editor.step = "refreshed" /\ EditorTo("tell", editor.target)
    /\ loads' = NewEpoch(loads, service.snap[Active])
    /\ UNCHANGED <<handler, service, site, misses>>

EditorTells ==
    /\ editor.step = "tell" /\ EditorTo("idle", editor.target)
    /\ handler' = CallSoon(handler, [what |-> "editorReloaded"])
    /\ UNCHANGED <<loads, service, site, misses>>

EditorStep == EditorLoads \/ EditorRefreshes \/ EditorBumps \/ EditorTells

\* the site gets new agencies
SiteChanges ==
    /\ site < Len(Site) /\ site' = site + 1
    /\ UNCHANGED <<loads, handler, service, editor, misses>>

-----------------------------------------------------------------------------
(* The user.                                                               *)

\* _reconcile_agency_field_validity
Reconciled(l, f) ==
    LET ps == Parents(l, f)
        known == ps \in DOMAIN l.cache /\ l.value[f] \in LabelsIn(l.cache[ps])
    IN  [l EXCEPT !.invalid = IF l.value[f] = "" \/ known THEN @ \ {f} ELSE @ \cup {f}]

\* _invalidate_agency_descendants: what is below f starts from nothing
BelowCleared(l, f) ==
    LET below == f + 1 .. Depth
    IN  [l EXCEPT !.gen = [d \in Fields |-> IF d \in below THEN @[d] + 1 ELSE @[d]],
                  !.cancelled = @ \cup OpenRequests(l, below),
                  !.request = [d \in Fields |-> IF d \in below THEN <<>> ELSE @[d]],
                  !.loading = @ \ below, !.invalid = @ \ below,
                  !.value = [d \in Fields |-> IF d \in below THEN "" ELSE @[d]],
                  !.shown = [d \in Fields |-> IF d \in below THEN {} ELSE @[d]]]

\* the list of a field is disabled while it loads and until all above it is
\* selected; it offers nothing, its candidates and the value it has
Selectable(l, f) == f \notin l.loading /\ Closed(Parents(l, f))

Selected(l, h, f, v) ==
    LET cleared == BelowCleared(Reconciled([l EXCEPT !.value[f] = v], f), f)
    IN  IF v # "" /\ Closed(Parents(l, f)) THEN Request(cleared, h, f + 1) ELSE Pair(cleared, h)

\* what may be searched for (_validate_dynamic_search_selections)
Searchable(l) ==
    LET selected == {f \in Fields : l.value[f] # ""}
    IN  /\ selected # {} => ~l.reloading /\ ~l.stale
        /\ l.invalid = {}
        /\ \A f \in selected :
              /\ Closed(Parents(l, f))
              /\ Parents(l, f) \in DOMAIN l.cache
              /\ l.value[f] \in LabelsIn(l.cache[Parents(l, f)])

\* the window goes: cancel events set, waiting tasks gone
LoadsStop(l) ==
    [l EXCEPT !.accepting = FALSE, !.tasks = <<>>,
              !.cancelled = @ \cup OpenRequests(l, Fields)]

=============================================================================
