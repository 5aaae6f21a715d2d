------------------------------ MODULE RunQueue ------------------------------
(***************************************************************************)
(* The ticket files of src/src/app/run_queue.py and the operations of class*)
(* RunQueue on them.  Every operation runs under the state lock and writes *)
(* a ticket with one os.replace, so each is one step here.  All begin with *)
(* _read_tickets_locked, which does more than read: it requeues the tickets*)
(* of dispatchers that died and drops the tickets of waiters that died.    *)
(*                                                                         *)
(* A ticket is identified with the process that made it.  A Detached ticket*)
(* is a dispatch request and survives that process; a Transient one belongs*)
(* to a process inside wait_for_turn.  Every map is total: a ticket without*)
(* a file is "absent".  Tickets with equal order do not occur (NewOrder),  *)
(* so the tie-break on ticket_id is left out, as is the age of a ticket.   *)
(***************************************************************************)
EXTENDS Naturals

CONSTANTS Detached,    \* tickets of enqueue_dispatch_request
          Transient,   \* tickets of wait_for_turn
          Schedule,    \* logical schedules
          SchedOf,     \* the schedule of each ticket
          OwnerOf,     \* the process that waits for a transient ticket
          Reading,     \* what the wall clock may read: it may jump back
          None

Ticket == Detached \cup Transient

ASSUME QueueAssumption ==
  /\ Detached \cap Transient = {}
  /\ SchedOf \in [Ticket -> Schedule]
  /\ Reading \in SUBSET Nat
  /\ None \notin Ticket

VARIABLES state,   \* of each ticket file
          disp,    \* dispatcher_pid of each ticket file
          order,   \* order of each ticket file
          alive    \* processes whose PID is found alive

queueVars == <<state, disp, order>>

Active == {"running", "retry_waiting"}
TicketState == {"absent", "queued"} \cup Active

-----------------------------------------------------------------------------
(* _read_tickets_locked *)

\* Mutant: the tickets of a dead dispatcher are left as they are.
OrphanedNever(t) == FALSE

\* A detached ticket whose dispatcher ended without completing it.
Orphaned(t) == t \in Detached /\ state[t] \in Active /\ disp[t] \notin alive

\* Mutant: any ticket whose process ended is dropped, requests included.
StaleByCreator(t) == state[t] # "absent" /\ t \notin alive

\* A transient ticket whose process ended (_is_stale).
Stale(t) == t \in Transient /\ state[t] # "absent" /\ OwnerOf[t] \notin alive

\* The ticket files as _read_tickets_locked returns and leaves them.
AfterRead(protected) ==
  [t \in Ticket |-> IF Orphaned(t) THEN "queued"
                    ELSE IF Stale(t) /\ t \notin protected THEN "absent"
                    ELSE state[t]]

DispAfterRead == [t \in Ticket |-> IF Orphaned(t) THEN None ELSE disp[t]]

ReadOnly(protected) ==
  /\ state' = AfterRead(protected)
  /\ disp' = DispAfterRead
  /\ UNCHANGED order

Listed(files) == {t \in Ticket : files[t] # "absent"}

\* tickets[0] of the sorted list
AtHead(files, t) ==
  /\ t \in Listed(files)
  /\ \A u \in Listed(files) : order[t] <= order[u]

-----------------------------------------------------------------------------
(* Enqueueing: _new_ticket and _write_ticket_locked *)

\* Mutant: the order is the clock reading, whatever the queue holds.
NewOrderClock(files, now, n) == n = now

\* max(clock, largest order in the queue + 1)
NewOrder(files, now, n) ==
  /\ n \in {now} \cup {order[u] + 1 : u \in Listed(files)}
  /\ n >= now
  /\ \A u \in Listed(files) : order[u] < n

Insert(t) ==
  LET files == AfterRead({}) IN
  /\ \E now \in Reading :
       \E n \in {now} \cup {order[u] + 1 : u \in Listed(files)} :
          /\ NewOrder(files, now, n)
          /\ order' = [order EXCEPT ![t] = n]
  /\ state' = [files EXCEPT ![t] = "queued"]
  /\ disp' = [DispAfterRead EXCEPT ![t] = None]

\* Mutant: only tickets that still wait are looked at.
DuplicateWaiting(t) ==
  \E u \in Ticket : AfterRead({})[u] = "queued" /\ SchedOf[u] = SchedOf[t]

\* enqueue_dispatch_request refuses a second ticket of a schedule.
Duplicate(t) ==
  \E u \in Listed(AfterRead({})) : SchedOf[u] = SchedOf[t]

-----------------------------------------------------------------------------
(* Operations of the dispatcher *)

\* The oldest dispatch request that waits, when none is active.
Claimable(t) ==
  LET files == AfterRead({}) IN
  /\ \A u \in Ticket : files[u] \notin Active
  /\ t \in Detached
  /\ files[t] = "queued"
  /\ \A u \in Detached : files[u] = "queued" => order[t] <= order[u]

\* claim_next_dispatch_request by process p
ClaimNext(p, t) ==
  /\ Claimable(t)
  /\ state' = [AfterRead({}) EXCEPT ![t] = "running"]
  /\ disp' = [DispAfterRead EXCEPT ![t] = p]
  /\ UNCHANGED order

\* ... returns None
NothingToClaim ==
  /\ \A t \in Detached : ~Claimable(t)
  /\ ReadOnly({})

\* set_dispatch_state; a ticket that is not active is a RunQueueError, which
\* changes no more than reading does.
SetDispatchState(t, next) ==
  /\ state' = IF AfterRead({})[t] \in Active
              THEN [AfterRead({}) EXCEPT ![t] = next]
              ELSE AfterRead({})
  /\ disp' = DispAfterRead
  /\ UNCHANGED order

\* complete_dispatch_request and _remove_ticket do not read.
Delete(t) ==
  /\ state' = [state EXCEPT ![t] = "absent"]
  /\ disp' = [disp EXCEPT ![t] = None]
  /\ order' = [order EXCEPT ![t] = 0]

-----------------------------------------------------------------------------

QueueInit ==
  /\ state = [t \in Ticket |-> "absent"]
  /\ disp = [t \in Ticket |-> None]
  /\ order = [t \in Ticket |-> 0]

QueueTypeOK ==
  /\ state \in [Ticket -> TicketState]
  /\ order \in [Ticket -> Nat]

\* No two tickets of dispatch requests are for one schedule, also after the
\* tickets of a dispatcher that died came back to the queue.
OneTicketPerSchedule ==
  \A t, u \in Detached :
    state[t] # "absent" /\ state[u] # "absent" /\ SchedOf[t] = SchedOf[u]
      => t = u

\* At most one ticket is being served, whichever dispatchers came and went.
AtMostOneServed ==
  \A t, u \in Detached : state[t] \in Active /\ state[u] \in Active => t = u
=============================================================================
