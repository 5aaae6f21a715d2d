--------------------------- MODULE ScheduleManager --------------------------
(***************************************************************************)
(* The two lists of schedules, in the main window (gui/main_window.py) and *)
(* in the settings dialog (gui/settings_dialog.py), which read the         *)
(* registrations through ScheduleServiceAdapter of                         *)
(* gui/schedule_management.py in threads of their own, one query of a list *)
(* at a time, and the edits that the dialog makes from what it shows.      *)
(* Another process edits the registrations as well.  Callbacks that the    *)
(* code orders with after(0) happen at once here, and the payloads of the  *)
(* dialog's threads are taken in any order, as a thread may be interrupted *)
(* between reading and putting.                                            *)
(*   registry   revision and the version of each registration (0: none),   *)
(*              a version being the revision that wrote it; what others    *)
(*              will still edit, and how many reads and writes still fail  *)
(*   schedules  the list of the main window                                *)
(*   dialog     the settings dialog                                        *)
(* A question or an editor that waits for the user is one of dialog.modals,*)
(* the last one in front: what it edits (of, 0 for a new schedule) and the *)
(* registration that its values come from.                                 *)
(***************************************************************************)
EXTENDS Naturals, Sequences, SequencesExt, FiniteSetsExt

CONSTANT Schedules

ASSUME SchedulesAssumption == Schedules \subseteq Nat \ {0} /\ IsFiniteSet(Schedules)

VARIABLES registry, schedules, dialog

scheduleVars == <<registry, schedules, dialog>>

Nothing == [s \in Schedules |-> 0]
In(versions) == {s \in Schedules : versions[s] # 0}
Config(s, version) == [of |-> s, version |-> version]
NoConfig == Config(0, 0)

\* A query: again says that somebody asked while it was running (the generation
\* has moved on); target is what was selected when it began.
NoQuery == [step |-> "none", again |-> FALSE, target |-> 0,
            rows |-> Nothing, failed |-> FALSE]
NoDetail == [step |-> "none", of |-> 0, version |-> 0]
NoAction == [step |-> "none", what |-> "", of |-> 0, retry |-> <<>>, passes |-> 0, result |-> ""]

\* What the user of the schedules meets and does.
ScheduleUsers ==
  [service : BOOLEAN, registered : SUBSET Schedules, others : SUBSET Schedules,
   faults : Nat, opens : Nat, edits : Nat]

NewDialog(opens, clicks) ==
  [open |-> FALSE, query |-> NoQuery, later |-> FALSE, revision |-> 0,
   rows |-> Nothing, selected |-> 0, config |-> NoConfig,
   detail |-> NoDetail, action |-> NoAction, modals |-> <<>>, draft |-> <<>>,
   opens |-> opens, clicks |-> clicks]

\* set_schedule_service asks for the schedules at once; without a service there is none.
ScheduleInit(user) ==
  /\ registry = [rev |-> 1, of |-> [s \in Schedules |-> IF s \in user.registered THEN 1 ELSE 0],
                 others |-> user.others, faults |-> user.faults]
  /\ schedules = [service |-> user.service, step |-> IF user.service THEN "asked" ELSE "none",
                  again |-> FALSE, later |-> FALSE, suspended |-> FALSE, rows |-> Nothing]
  /\ dialog = NewDialog(user.opens, user.edits)

\* A call of the service fails.
CallFails == registry.faults > 0 /\ registry' = [registry EXCEPT !.faults = @ - 1]

\* Another process writes, creates or deletes a registration.
OthersEdit ==
  /\ \E s \in registry.others, version \in {0, registry.rev + 1} :
       /\ version = 0 => registry.of[s] # 0
       /\ registry' = [registry EXCEPT !.rev = @ + 1, !.of[s] = version, !.others = @ \ {s}]
  /\ UNCHANGED <<schedules, dialog>>

-----------------------------------------------------------------------------
(* The schedules of the main window *)

\* request_schedule_status_refresh
ListAsked(l) ==
  IF l.suspended \/ ~l.service THEN l
  ELSE IF l.step = "none" THEN [l EXCEPT !.step = "asked"]
  ELSE [l EXCEPT !.again = TRUE]

\* _poll_schedule_status
ListTimer ==
  /\ schedules.later
  /\ schedules' = ListAsked([schedules EXCEPT !.later = FALSE])
  /\ UNCHANGED <<registry, dialog>>

\* _query_schedule_status_worker: what it reads, or that it cannot read.
ListReads(answer) ==
  /\ schedules.step = "asked"
  /\ schedules' = [schedules EXCEPT !.step = "answered"]
  /\ \/ answer = [failed |-> FALSE, rows |-> registry.of] /\ UNCHANGED registry
     \/ answer = [failed |-> TRUE, rows |-> Nothing] /\ CallFails
  /\ UNCHANGED dialog

\* Mutant: an answer that somebody asked anew for is dropped, and that is all.
ListAnsweredOnce(answer) ==
  IF schedules.again
  THEN [schedules EXCEPT !.step = "none", !.again = FALSE]
  ELSE [schedules EXCEPT !.step = "none", !.later = ~schedules.suspended,
                    !.rows = IF answer.failed THEN @ ELSE answer.rows]

\* _apply_schedule_collection: the answer is shown, unless somebody has asked since.
\* A failure keeps the rows.  The next query is due later.
ListAnswered(answer) ==
  IF schedules.again
  THEN ListAsked([schedules EXCEPT !.step = "none", !.again = FALSE])
  ELSE [schedules EXCEPT !.step = "none", !.later = ~schedules.suspended,
                    !.rows = IF answer.failed THEN @ ELSE answer.rows]

-----------------------------------------------------------------------------
(* The schedules of the dialog *)

\* request_multi_schedule_refresh
Refreshing(d) ==
  IF d.query.step = "none"
  THEN [d EXCEPT !.query = [NoQuery EXCEPT !.step = "asked", !.target = d.selected]]
  ELSE [d EXCEPT !.query.again = TRUE]

RefreshTimer ==
  /\ dialog.open /\ dialog.later
  /\ dialog' = Refreshing([dialog EXCEPT !.later = FALSE])
  /\ UNCHANGED <<registry, schedules>>

QueryFails ==
  /\ CallFails
  /\ dialog' = [dialog EXCEPT !.query.step = "answered", !.query.failed = TRUE]

\* list_views remembers the revision before it reads the definitions.
ReadRevision ==
  /\ dialog.query.step = "asked"
  /\ \/ QueryFails
     \/ /\ dialog' = [dialog EXCEPT !.query.step = "revised", !.revision = registry.rev]
        /\ UNCHANGED registry
  /\ UNCHANGED schedules

\* list_views, and registered_config of each row (at once, as a bound)
ReadRows ==
  /\ dialog.query.step = "revised"
  /\ \/ QueryFails
     \/ /\ dialog' = [dialog EXCEPT !.query.step = "answered", !.query.rows = registry.of]
        /\ UNCHANGED registry
  /\ UNCHANGED schedules

First(versions) == IF In(versions) = {} THEN 0 ELSE Min(In(versions))

\* The selected row stays selected while it is listed.
SelectedAfter(d) ==
  CHOOSE s \in {d.selected, d.query.target, First(d.query.rows)} :
    CASE d.selected \in In(d.query.rows) -> s = d.selected
      [] d.selected \notin In(d.query.rows) /\ d.query.target \in In(d.query.rows) ->
           s = d.query.target
      [] OTHER -> s = First(d.query.rows)

ConfigOf(s, rows) == IF s \in In(rows) THEN Config(s, rows[s]) ELSE NoConfig

\* The rows are shown; an editor that waits for them opens again.
Shows(d) ==
  LET selected == SelectedAfter(d)
  IN  [d EXCEPT !.query = NoQuery, !.later = TRUE,
                !.rows = d.query.rows,
                !.selected = selected, !.config = ConfigOf(selected, d.query.rows),
                !.modals = @ \o d.draft, !.draft = <<>>]

\* _on_multi_schedule_selected: what is known is shown, and read anew.
Selecting(d, s) ==
  [d EXCEPT !.selected = s, !.config = ConfigOf(s, d.rows),
            !.detail = [step |-> "asked", of |-> s, version |-> 0]]

\* The query failed: the rows stay, and the row that was selected when it began is
\* selected again, as if the user had done so.
KeepsRows(d) ==
  LET kept == [d EXCEPT !.query = NoQuery, !.later = TRUE]
  IN  IF d.query.target \in In(d.rows) \ {d.selected}
      THEN Selecting(kept, d.query.target) ELSE kept

\* _apply_multi_schedule_refresh
ApplyRefresh ==
  /\ dialog.open /\ dialog.query.step = "answered"
  /\ dialog' = IF dialog.query.again THEN Refreshing([dialog EXCEPT !.query = NoQuery])
               ELSE IF dialog.query.failed THEN KeepsRows(dialog)
               ELSE Shows(dialog)
  /\ UNCHANGED <<registry, schedules>>

\* The worker of the newest selection; the answers of older ones are ignored.
ReadDetail ==
  /\ dialog.detail.step = "asked"
  /\ \/ /\ dialog' = [dialog EXCEPT !.detail = NoDetail] /\ CallFails
     \/ /\ dialog' = [dialog EXCEPT !.detail.step = "answered",
                                    !.detail.version = registry.of[dialog.detail.of]]
        /\ UNCHANGED registry
  /\ UNCHANGED schedules

\* _apply_multi_schedule_detail, of a row that is still selected
ApplyDetail ==
  /\ dialog.open /\ dialog.detail.step = "answered"
  /\ LET s == dialog.detail.of
         version == dialog.detail.version
     IN  dialog' = IF s = dialog.selected /\ version # 0
                   THEN [dialog EXCEPT !.detail = NoDetail, !.rows[s] = version,
                                       !.config = Config(s, version)]
                   ELSE [dialog EXCEPT !.detail = NoDetail]
  /\ UNCHANGED <<registry, schedules>>

-----------------------------------------------------------------------------
(* Edits *)

\* _start_multi_schedule_action: while one runs, another is not begun, silently.
Acting(d, what, s, retry) ==
  IF d.action.step # "none" THEN d
  ELSE [d EXCEPT !.action = [NoAction EXCEPT !.step = "sent", !.what = what, !.of = s,
                                             !.retry = retry]]

\* The revision that the call passes is read from the adapter when the thread
\* begins; without one (0) the service does not compare.
PassRevision ==
  /\ dialog.action.step = "sent"
  /\ dialog' = [dialog EXCEPT !.action.step = "passed", !.action.passes = dialog.revision]
  /\ UNCHANGED <<registry, schedules>>

Conflicts(a) == a.what # "run" /\ a.passes \notin {0, registry.rev}
Free == {s \in Schedules : registry.of[s] = 0}

\* The schedule is gone, or there is no room for a new one (bound: Schedules).
Refused(a) == IF a.of = 0 THEN Free = {} ELSE registry.of[a.of] = 0

Returned(result) == [dialog EXCEPT !.action.step = "done", !.action.result = result]

\* The service writes, starts the task, or refuses; after a success the adapter
\* has no revision until the next list (_run_mutation).
Perform ==
  LET a == dialog.action IN
  /\ a.step = "passed"
  /\ CASE Conflicts(a) -> dialog' = Returned("conflict") /\ UNCHANGED registry
       [] ~Conflicts(a) /\ Refused(a) -> dialog' = Returned("failed") /\ UNCHANGED registry
       [] OTHER ->
            \/ dialog' = Returned("failed") /\ CallFails
            \/ a.what = "run" /\ dialog' = Returned("done") /\ UNCHANGED registry
            \/ /\ a.what # "run"
               /\ dialog' = [Returned("done") EXCEPT !.revision = 0]
               /\ \E s \in IF a.of # 0 THEN {a.of} ELSE Free :
                    registry' = [registry EXCEPT !.rev = @ + 1,
                                   !.of[s] = IF a.what = "delete" THEN 0 ELSE registry.rev + 1]
  /\ UNCHANGED schedules

\* Mutant: a conflict only reads the list anew.
ToldForgetful(d) ==
  LET free == [d EXCEPT !.action = NoAction]
      retry == d.action.retry
  IN  IF d.action.result = "failed" THEN [free EXCEPT !.modals = @ \o retry]
      ELSE Refreshing(free)

\* _finish_multi_schedule_action: after a conflict the editor waits for the new
\* list, after another failure it opens again at once.
Told(d) ==
  LET free == [d EXCEPT !.action = NoAction]
      retry == d.action.retry
  IN  CASE d.action.result = "done" -> Refreshing(free)
        [] d.action.result = "conflict" -> Refreshing([free EXCEPT !.draft = retry])
        [] d.action.result = "failed" -> [free EXCEPT !.modals = @ \o retry]

\* The result of an action is taken, unless the dialog is gone.
FinishAction ==
  /\ dialog.action.step = "done"
  /\ dialog' = IF dialog.open THEN Told(dialog) ELSE [dialog EXCEPT !.action = NoAction]
  /\ UNCHANGED <<registry, schedules>>

-----------------------------------------------------------------------------
(* The user in the dialog *)

Clicking == dialog.open /\ dialog.modals = <<>> /\ dialog.clicks > 0
ClicksOnce(d) == [d EXCEPT !.clicks = @ - 1]

SelectRow ==
  /\ Clicking
  /\ \E s \in In(dialog.rows) \ {dialog.selected} :
       dialog' = Selecting(ClicksOnce(dialog), s)
  /\ UNCHANGED <<registry, schedules>>

\* Buttons are disabled while an action runs; editing needs the values of the row.
Button(what) ==
  /\ dialog.action.step = "none"
  /\ what # "add" => dialog.selected \in In(dialog.rows)
  /\ what = "edit" => dialog.config # NoConfig

Modal(what, s, from) == [what |-> what, of |-> s, from |-> from]

\* on_schedule_add, on_schedule_edit and on_schedule_delete open an editor or a
\* question.  Repair, duplicate and run begin at once; switching on or off asks like
\* delete and writes like repair, and is left out.
ClickButton ==
  /\ Clicking
  /\ \/ /\ Button("add")
        /\ dialog' = [ClicksOnce(dialog) EXCEPT !.modals = <<Modal("editor", 0, NoConfig)>>]
     \/ /\ Button("edit")
        /\ dialog' = [ClicksOnce(dialog) EXCEPT !.modals =
                        <<Modal("editor", dialog.selected, dialog.config)>>]
     \/ /\ Button("delete")
        /\ dialog' = [ClicksOnce(dialog) EXCEPT !.modals =
                        <<Modal("delete", dialog.selected, NoConfig)>>]
     \/ \E what \in {"repair", "duplicate", "run"} :
          /\ Button(what)
          /\ dialog' = Acting(ClicksOnce(dialog), what,
                             IF what = "duplicate" THEN 0 ELSE dialog.selected, <<>>)
  /\ UNCHANGED <<registry, schedules>>

\* The user answers the one in front: yes or no.
AnswerModal ==
  /\ dialog.modals # <<>>
  /\ LET m == Last(dialog.modals)
         rest == [dialog EXCEPT !.modals = Front(@)]
     IN  \/ dialog' = rest
         \/ m.what = "delete" /\ dialog' = Acting(rest, "delete", m.of, <<>>)
         \/ m.what = "editor" /\ dialog' = Acting(rest, "save", m.of, <<m>>)
  /\ UNCHANGED <<registry, schedules>>

\* on_settings_open: the main window stops asking while the dialog is open.
OpenSettings ==
  /\ ~dialog.open /\ dialog.opens > 0 /\ dialog.action.step = "none"
  /\ schedules' = [schedules EXCEPT !.suspended = TRUE, !.later = FALSE]
  /\ dialog' = [Refreshing(NewDialog(dialog.opens - 1, dialog.clicks)) EXCEPT !.open = TRUE]
  /\ UNCHANGED registry

\* _resume_schedule_status_poll
Resumed == ListAsked([schedules EXCEPT !.suspended = FALSE])

DialogGone(d) == [NewDialog(d.opens, d.clicks) EXCEPT !.action = d.action, !.revision = d.revision]

\* on_cancel, or on_save, which may bring registrations to the new layout, one
\* after the other and each with the revision of the moment (bound: all of them or none).
CloseSettings ==
  /\ dialog.open /\ dialog.modals = <<>>
  /\ dialog' = DialogGone(dialog) /\ schedules' = Resumed
  /\ \E upgraded \in {{}, In(registry.of)} :
       registry' = [registry EXCEPT !.rev = @ + Cardinality(upgraded),
                      !.of = [s \in Schedules |-> IF s \in upgraded
                                                  THEN registry.rev + Cardinality(upgraded)
                                                  ELSE @[s]]]

-----------------------------------------------------------------------------

\* The threads and the loop of the dialog, by what waits for them.
RefreshStep == RefreshTimer \/ ReadRevision \/ ReadRows \/ ApplyRefresh
ActionStep == PassRevision \/ Perform \/ FinishAction
DialogUser == SelectRow \/ ClickButton \/ AnswerModal \/ CloseSettings

-----------------------------------------------------------------------------
(* Properties *)

\* What the dialog shows of a schedule, and what its editor starts from, are the
\* values of that schedule, whatever was selected and listed in between.
ShownIsSelected ==
  /\ dialog.config # NoConfig => dialog.config.of = dialog.selected
  /\ \A i \in DOMAIN dialog.modals :
       dialog.modals[i].from # NoConfig => dialog.modals[i].from.of = dialog.modals[i].of

\* The editors whose values still exist: in front of the user, waiting for the list,
\* or with the action that saves them
Held(d) == Range(d.modals) \cup Range(d.draft) \cup Range(d.action.retry)

\* What the user has typed is lost only by the user's answer or by being saved,
\* however often the service refuses it and the list is read anew; or by another
\* action that is refused while the values wait for the list.
EditsReturn ==
  dialog.open /\ dialog'.open =>
    \A m \in Held(dialog) \ Held(dialog)' :
       \/ m \in Range(dialog.modals)
       \/ dialog.action.step = "done" /\ dialog.action.result = "done"
       \/ m \in Range(dialog.draft) /\ dialog.action.result = "conflict"

\* Both, at every change of the dialog; it is closed in the initial states.
EditsKept == [][ShownIsSelected' /\ EditsReturn]_dialog

\* see ListsCatchUp of module MainWindow
DialogAsks ==
  dialog.open /\ (\/ dialog.rows # registry.of
                  \/ dialog.config # ConfigOf(dialog.selected, registry.of))
    => dialog.query.step # "none" \/ dialog.later

-----------------------------------------------------------------------------
(* What the comment says, and the code does not do *)

\* Nothing is overwritten from an old list: what an editor saves replaces the values
\* that it began with.  The revision that a save passes is the adapter's when its
\* thread begins, and the refresh in the background has renewed it meanwhile.
OldListsRefused ==
  [][\A m \in Range(dialog.action.retry) :
       Perform /\ dialog'.action.result = "done" /\ m.of # 0
         => registry.of[m.of] = m.from.version]_scheduleVars

=============================================================================
