---------------------------- MODULE EventHandler ----------------------------
(***************************************************************************)
(* What lies between the worker threads and the window                     *)
(* (gui/event_handler.py): a bounded queue for ordinary events and calls,  *)
(* which drops its oldest entry when it is full, an unbounded queue for    *)
(* what ends a run, and one slot in which the progress of a search is      *)
(* merged.  The handler is one record:                                     *)
(*   queue     event_queue          terminal  _terminal_queue              *)
(*   search    the merged search progress, <<>> or one event               *)
(*   seen      _terminal_seen       dropped   dropped_events > 0           *)
(*   stopped   _stopped                                                    *)
(* A search event carries the generation of the search, a whole list of    *)
(* projects (full, <<>> or one list) and single projects (deltas); a list  *)
(* is a function from project ids to what is known of the project.         *)
(***************************************************************************)
EXTENDS Naturals, Sequences, SequencesExt, TLC

CONSTANT MaxQueued        \* _MAX_QUEUED_EVENTS

ASSUME QueueAssumption == MaxQueued \in Nat \ {0}

NoProjects == <<>>        \* the empty function

\* two lists in one; of a project in both, what f says
Joined(f, g) == [id \in DOMAIN f \cup DOMAIN g |-> IF id \in DOMAIN f THEN f[id] ELSE g[id]]

Event(t) == [type |-> t]
Outcome(t, o) == [type |-> t, outcome |-> o]
CallItem(c) == [type |-> "CALL", call |-> c]
SearchEvent(g, full, deltas) ==
    [type |-> "SEARCH", gen |-> g, full |-> full, deltas |-> deltas]

NewHandler == [queue |-> <<>>, terminal |-> <<>>, search |-> <<>>,
               seen |-> FALSE, dropped |-> FALSE, stopped |-> FALSE]

-----------------------------------------------------------------------------
(* Producers, on any thread.                                               *)

\* a full queue gives up its oldest entry, be it an event or a call
Put(h, x) ==
    IF Len(h.queue) < MaxQueued
    THEN [h EXCEPT !.queue = Append(@, x)]
    ELSE [h EXCEPT !.queue = Append(Tail(@), x), !.dropped = TRUE]

\* what waits in the slot, if it is of the same search
PendingFull(h, e) == IF h.search # <<>> /\ h.search[1].gen = e.gen
                     THEN h.search[1].full ELSE <<>>
PendingDeltas(h, e) == IF h.search # <<>> /\ h.search[1].gen = e.gen
                       THEN h.search[1].deltas ELSE NoProjects

\* a whole list replaces what waits, single projects are added to it
Merged(h, e) ==
    IF e.full # <<>>
    THEN e
    ELSE [e EXCEPT !.full = PendingFull(h, e), !.deltas = Joined(@, PendingDeltas(h, e))]

Coalesce(h, e) == [h EXCEPT !.search = <<Merged(h, e)>>]

PutTerminalAlone(h, e) == [h EXCEPT !.terminal = Append(@, e)]

\* the end of a run goes behind the search progress that still waits
PutTerminal(h, e) == [h EXCEPT !.terminal = @ \o h.search \o <<e>>, !.search = <<>>]

Emit(h, e) ==
    CASE h.stopped -> h
      [] ~h.stopped /\ e.type = "SEARCH" -> Coalesce(h, e)
      [] ~h.stopped /\ e.type \in {"COMPLETE", "FAIL"} -> PutTerminal(h, e)
      [] OTHER -> Put(h, e)

EmitAll(h, es) == FoldLeft(Emit, h, es)

CallSoon(h, c) == IF h.stopped THEN h ELSE Put(h, CallItem(c))

\* call_soon_critical: behind nothing but other ends of runs, never dropped
CallCritical(h, c) == IF h.stopped THEN h ELSE [h EXCEPT !.terminal = Append(@, CallItem(c))]

-----------------------------------------------------------------------------
(* The consumer, on the window's thread.                                   *)

HasItem(h) == ~h.stopped /\ (h.terminal # <<>> \/ h.queue # <<>> \/ h.search # <<>>)

NextItem(h) == IF h.terminal # <<>> THEN Head(h.terminal)
               ELSE IF h.queue # <<>> THEN Head(h.queue)
               ELSE Head(h.search)

Taken(h) == IF h.terminal # <<>> THEN [h EXCEPT !.terminal = Tail(@)]
            ELSE IF h.queue # <<>> THEN [h EXCEPT !.queue = Tail(@)]
            ELSE [h EXCEPT !.search = <<>>]

Stop(h) == [h EXCEPT !.stopped = TRUE, !.queue = <<>>, !.terminal = <<>>, !.search = <<>>]

=============================================================================
