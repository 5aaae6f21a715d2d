-------------------------- MODULE DispatcherProofs --------------------------
(***************************************************************************)
(* Proofs about Dispatcher, for any number of runs, schedules, GUIs and    *)
(* --run-once processes, any bounds on crashes, faults and retries, any    *)
(* clock and any set of broken snapshots.                                  *)
(*                                                                         *)
(* The lemmas with one case per action say what a step may do: to types and*)
(* guards, to ticket files, to the place of a process, and to what counts. *)
(* All the rest follows from those, not from the actions.                  *)
(***************************************************************************)
EXTENDS Dispatcher, TLAPS, SequenceTheorems

-----------------------------------------------------------------------------
(* The inductive invariant *)

\* Where a process is the dispatcher, and where it holds the run guard.
AsDispatcher == Serving \cup {"claim", "turn", "release", "complete", "abort", "exit"}
AsRunner == Serving \cup {"manual", "sweep"}

\* Who holds a guard follows from where it is, and the other way round.  A
\* scheduled run holds the guards of a job only below the dispatcher lease.
GuardsOK ==
  /\ \A p \in Proc : pc[p] \in AsRunner => global = p
  /\ \A r \in Run : pc[r] \in AsDispatcher => lease = r
  /\ global \in Run => lease = global
  /\ \A s \in Schedule : sched[s] \in Run => lease = sched[s]
  /\ GuardsAccountedFor

\* A process between the claim of a ticket and its end works on a ticket.
WorkOK ==
  \A r \in Run :
    /\ pc[r] \in Serving \cup {"turn", "record", "notify", "release", "complete", "abort"}
         => cur[r] \in Run
    /\ At(r, "record") => verdict[r] \in Result

\* The order of the tickets in the queue is the order of their arrival.
ArrivalOK ==
  /\ \A t \in Run : arrival[t] <= arrivals
  /\ \A t \in Run : pc[t] \in {"idle", "enqueue"} => arrival[t] = 0
  /\ \A t \in Run : state[t] # "absent" => arrival[t] > 0
  /\ \A t, u \in Run :
       state[t] # "absent" /\ state[u] # "absent" /\ arrival[t] < arrival[u]
         => order[t] < order[u]
  /\ \A r \in Run : pc[r] \in Serving \cup {"turn"} => arrival[cur[r]] > 0

\* While no file operation has failed, a ticket that is about to be deleted has
\* its result in the history.
RecordOK ==
  /\ \A r \in Run :
       /\ faults = 0 /\ pc[r] \in {"notify", "release", "complete"}
            => records[cur[r]] # <<>>
       /\ At(r, "abort") => faults > 0
  /\ RecordedBeforeRemoved

\* The work on a ticket, before and after its execution has begun.
Early == {"turn", "load", "schedule"}
Late == {"run", "retry", "record", "notify", "release", "complete"}
Work == Early \cup Late \cup {"abort"}

Failures == crashes + faults

\* Ticket t was executed, recorded and notified at most n times more often than
\* something failed.
Within(t, n) ==
  ran[t] <= n + Failures /\ Len(records[t]) <= n + Failures /\ notified[t] <= n + Failures

LateOn(t) == \E r \in Run : cur[r] = t /\ pc[r] \in Late

\* Ticket t may still be worked on.
Open(t) == state[t] # "absent" \/ pc[t] \in {"idle", "enqueue"}

\* The dispatcher works on a ticket that was in the queue.  A process without
\* the lease only reports its own request, which never was.
LinkOK ==
  \A r \in Run :
    /\ pc[r] \in Work /\ lease = r => arrival[cur[r]] > 0
    /\ pc[r] \in Work /\ lease # r =>
         pc[r] \in {"record", "notify"} /\ cur[r] = r /\ arrival[r] = 0

\* A ticket that may still be worked on has one execution left, unless it is
\* being worked on.
CountOK ==
  /\ \A t \in Run : Within(t, 1) /\ (Open(t) /\ ~LateOn(t) => Within(t, 0))
  /\ \A r \in Run :
       /\ pc[r] \in Early => Within(cur[r], 0)
       /\ pc[r] \in {"run", "retry", "record"} => Len(records[cur[r]]) <= Failures
       /\ pc[r] \in {"run", "retry", "record", "notify"} => notified[cur[r]] <= Failures

IInv ==
  /\ TypeOK
  /\ GuardsOK
  /\ WorkOK
  /\ OneTicketPerSchedule
  /\ AtMostOneServed
  /\ ArrivalOK
  /\ OldestServedFirst
  /\ RecordOK
  /\ LinkOK
  /\ CountOK

\* The initial state satisfies the inductive invariant.
LEMMA InitIInv == Init => IInv
<1> SUFFICES ASSUME Init PROVE IInv
  OBVIOUS
<1> USE QueueAssumption, DispatcherAssumption
<1>1. TypeOK /\ GuardsOK /\ WorkOK
  BY DEF Init, QueueInit, TypeOK, QueueTypeOK, Ticket, TicketState, Active,
         RunStep, OtherStep, Proc, Result, GuardsOK, GuardsAccountedFor, WorkOK,
         AsDispatcher, AsRunner, Serving, At
<1>2. OneTicketPerSchedule /\ AtMostOneServed /\ ArrivalOK /\ OldestServedFirst
      /\ RecordOK
  BY DEF Init, QueueInit, Ticket, Active, Proc, OneTicketPerSchedule, AtMostOneServed,
         ArrivalOK, OldestServedFirst, RecordOK, RecordedBeforeRemoved, Serving, At
<1>3. \A r \in Run :
        /\ pc[r] = "idle"
        /\ ran[r] = 0 /\ records[r] = <<>> /\ notified[r] = 0
  BY DEF Init, Proc
<1>4. LinkOK
  BY <1>3 DEF LinkOK, Work, Early, Late
<1>5. Failures = 0
  BY DEF Init, Failures
<1>6. \A t \in Run : Within(t, 0) /\ Within(t, 1)
  BY <1>3, <1>5, EmptySeq DEF Within
<1>7. CountOK
  BY <1>3, <1>6 DEF CountOK, Early
<1> QED
  BY <1>1, <1>2, <1>4, <1>7 DEF IInv

-----------------------------------------------------------------------------
(* What a step may do *)

\* The queue keeps its tickets, in their order, and none becomes active.
Calm ==
  /\ \A t \in Run :
       /\ state'[t] = "absent" <=> state[t] = "absent"
       /\ order'[t] = order[t]
       /\ state'[t] \in Active => state[t] \in Active
  /\ UNCHANGED historyVars

\* Ticket t leaves the queue, and nothing else happens to the queue.
Leaves(t) ==
  /\ state'[t] = "absent"
  /\ \A u \in Run \ {t} :
       /\ state'[u] = "absent" <=> state[u] = "absent"
       /\ order'[u] = order[u]
       /\ state'[u] \in Active => state[u] \in Active
  /\ UNCHANGED historyVars

\* Reading the queue keeps its tickets, and makes none of them active.
LEMMA ReadKeeps ==
  ASSUME TypeOK, NEW protected
  PROVE  /\ AfterRead(protected) \in [Ticket -> TicketState]
         /\ DispAfterRead \in [Ticket -> Run \cup {None}]
         /\ \A t \in Run :
              /\ AfterRead(protected)[t] = "absent" <=> state[t] = "absent"
              /\ AfterRead(protected)[t] \in Active => state[t] \in Active
BY QueueAssumption, DispatcherAssumption
   DEF TypeOK, QueueTypeOK, AfterRead, DispAfterRead, Ticket, TicketState,
       Active, Orphaned, Stale

\* set_dispatch_state keeps the types and the tickets.
LEMMA SetDispatchKeeps ==
  ASSUME TypeOK, NEW t \in Run, NEW next \in Active, UNCHANGED historyVars,
         SetDispatchState(t, next) \/ UNCHANGED queueVars
  PROVE  QueueTypeOK' /\ disp' \in [Ticket -> Run \cup {None}] /\ Calm
<1> USE QueueAssumption, DispatcherAssumption
    DEF TypeOK, QueueTypeOK, Ticket, TicketState, Active, Calm, queueVars
<1>1. CASE UNCHANGED queueVars
  BY <1>1
<1>2. CASE SetDispatchState(t, next) /\ AfterRead({})[t] \in Active
  <2>1. state' = [AfterRead({}) EXCEPT ![t] = next]
    BY <1>2 DEF SetDispatchState
  <2>2. state[t] \in Active
    BY <1>2, ReadKeeps
  <2>3. disp' = DispAfterRead /\ UNCHANGED order
    BY <1>2 DEF SetDispatchState
  <2> QED
    BY <2>1, <2>2, <2>3, ReadKeeps
<1>3. CASE SetDispatchState(t, next) /\ AfterRead({})[t] \notin Active
  <2>1. state' = AfterRead({}) /\ disp' = DispAfterRead /\ UNCHANGED order
    BY <1>3 DEF SetDispatchState
  <2> QED
    BY <2>1, ReadKeeps
<1> QED
  BY <1>1, <1>2, <1>3

\* complete_dispatch_request keeps the types and removes one ticket.
LEMMA DeleteKeeps ==
  ASSUME TypeOK, NEW t \in Run, UNCHANGED historyVars, Delete(t)
  PROVE  QueueTypeOK' /\ disp' \in [Ticket -> Run \cup {None}] /\ Leaves(t)
BY QueueAssumption, DispatcherAssumption
   DEF TypeOK, QueueTypeOK, Ticket, TicketState, Active, Leaves, Delete

\* The deletion of a ticket file that cannot be read is like its completion.
LEMMA UnreadableKeeps ==
  ASSUME TypeOK, NEW g \in Gui, UnreadableTicket(g)
  PROVE  /\ QueueTypeOK'
         /\ disp' \in [Ticket -> Run \cup {None}]
         /\ Calm \/ \E t \in Run : Leaves(t)
<1> USE QueueAssumption, DispatcherAssumption
    DEF TypeOK, QueueTypeOK, Ticket, TicketState, Active
<1>1. PICK t \in Ticket :
        /\ state' = [AfterRead({}) EXCEPT ![t] = "absent"]
        /\ disp' = [DispAfterRead EXCEPT ![t] = None]
        /\ order' = [order EXCEPT ![t] = 0]
  BY DEF UnreadableTicket, Listed
<1>2. UNCHANGED historyVars
  BY DEF UnreadableTicket
<1>3. QueueTypeOK' /\ disp' \in [Ticket -> Run \cup {None}]
  BY <1>1, ReadKeeps
<1>4. CASE t \in Run
  <2>1. state'[t] = "absent"
    BY <1>1, ReadKeeps
  <2>2. \A u \in Run \ {t} : state'[u] = AfterRead({})[u] /\ order'[u] = order[u]
    BY <1>1, ReadKeeps
  <2>3. Leaves(t)
    BY ZenonT(40), <1>2, <2>1, <2>2, ReadKeeps DEF Leaves
  <2> QED
    BY <1>3, <1>4, <2>3
<1>5. CASE t \notin Run
  <2>1. Calm
    BY <1>1, <1>2, <1>5, ReadKeeps DEF Calm
  <2> QED
    BY <1>3, <2>1
<1> QED
  BY <1>4, <1>5

\* A history to which a result was appended is not empty.
LEMMA AppendNonEmpty ==
  ASSUME NEW S, NEW s \in Seq(S), NEW e \in S
  PROVE  Append(s, e) # <<>>
BY AppendProperties

\* The bounds on crashes and faults hold whether a step fails or not.
LEMMA BoundsKept ==
  ASSUME TypeOK, NoFault \/ Fault
  PROVE  crashes' \in 0 .. MaxCrash /\ faults' \in 0 .. MaxFault
BY DispatcherAssumption DEF TypeOK, NoFault, Fault, boundVars

\* A step preserves the type invariant.
LEMMA TypeStep ==
  ASSUME TypeOK, WorkOK, [Next]_vars
  PROVE  TypeOK'
<1> USE QueueAssumption, DispatcherAssumption
    DEF TypeOK, Proc, RunStep, OtherStep, Result, queueVars,
        procVars, guardVars, logVars, historyVars, Goto, At,
        Conclude, QueueTypeOK
<1>1. ASSUME NEW r \in Run, Launch(r)
      PROVE  TypeOK'
  <2> USE BoundsKept
  <2>1. alive' \in SUBSET Run
    BY <1>1 DEF Launch
  <2>2. CASE Goto(r, "enqueue") /\ UNCHANGED <<cur, verdict>>
    BY <1>1, <2>1, <2>2 DEF Launch
  <2>3. CASE Conclude(r, r, "config_invalid")
    BY <1>1, <2>1, <2>3 DEF Launch
  <2> QED
    BY <1>1, <2>2, <2>3 DEF Launch
<1>2. ASSUME NEW r \in Run, Enqueue(r)
      PROVE  TypeOK'
  <2> USE BoundsKept
  <2>1. CASE Conclude(r, r, "busy") /\ ReadOnly({}) /\ UNCHANGED historyVars
    BY <1>2, <2>1, ReadKeeps DEF Enqueue, ReadOnly, QueueTypeOK
  <2>2. CASE /\ Insert(r)
             /\ Goto(r, "lease")
             /\ arrival' = [arrival EXCEPT ![r] = arrivals + 1]
             /\ arrivals' = arrivals + 1
             /\ UNCHANGED <<cur, verdict>>
    <3>1. \E n \in Nat : order' = [order EXCEPT ![r] = n]
      <4>1. PICK now \in Reading :
              \E n \in {now} \cup {order[u] + 1 : u \in Listed(AfterRead({}))} :
                order' = [order EXCEPT ![r] = n]
        BY <2>2 DEF Insert
      <4>2. {order[u] + 1 : u \in Listed(AfterRead({}))} \subseteq Nat
        BY DEF Listed
      <4> QED
        BY <4>1, <4>2
    <3>2. /\ state' = [AfterRead({}) EXCEPT ![r] = "queued"]
          /\ disp' = [DispAfterRead EXCEPT ![r] = None]
      BY <2>2 DEF Insert
    <3>4. QueueTypeOK' /\ disp' \in [Ticket -> Run \cup {None}]
      <4>1. /\ AfterRead({}) \in [Ticket -> TicketState]
            /\ DispAfterRead \in [Ticket -> Run \cup {None}]
        BY ReadKeeps
      <4>2. r \in Ticket /\ "queued" \in TicketState
        BY DEF Ticket, TicketState
      <4> QED
        BY <3>1, <3>2, <4>1, <4>2
    <3>3. arrival' \in [Run -> Nat] /\ arrivals' \in Nat
      BY <2>2
    <3> QED
      BY <1>2, <2>2, <3>3, <3>4 DEF Enqueue
  <2> QED
    BY <1>2, <2>1, <2>2 DEF Enqueue
<1>3. ASSUME NEW r \in Run, EnqueueFails(r)
      PROVE  TypeOK'
  BY <1>3, BoundsKept DEF EnqueueFails
<1>4. ASSUME NEW r \in Run, TakeLease(r)
      PROVE  TypeOK'
  BY <1>4, BoundsKept DEF TakeLease
<1>5. ASSUME NEW r \in Run, LeaveToDispatcher(r)
      PROVE  TypeOK'
  BY <1>5, BoundsKept DEF LeaveToDispatcher
<1>6. ASSUME NEW r \in Run, Claim(r)
      PROVE  TypeOK'
  <2> USE BoundsKept
  <2>1. CASE Goto(r, "exit") /\ NothingToClaim /\ UNCHANGED cur
    BY <1>6, <2>1, ReadKeeps DEF Claim, NothingToClaim, ReadOnly, QueueTypeOK
  <2>2. ASSUME NEW t \in Run, ClaimNext(r, t), cur' = [cur EXCEPT ![r] = t],
               Goto(r, "turn")
        PROVE  TypeOK'
    <3>1. QueueTypeOK' /\ disp' \in [Ticket -> Run \cup {None}]
      BY <2>2, ReadKeeps DEF ClaimNext, QueueTypeOK, Ticket, TicketState, Active
    <3> QED
      BY <1>6, <2>2, <3>1 DEF Claim
  <2> QED
    BY <1>6, <2>1, <2>2 DEF Claim
<1>7. ASSUME NEW r \in Run, ClaimFails(r)
      PROVE  TypeOK'
  BY <1>7, BoundsKept DEF ClaimFails
<1>8. ASSUME NEW r \in Run, Turn(r)
      PROVE  TypeOK'
  <2>1. QueueTypeOK' /\ disp' \in [Ticket -> Run \cup {None}]
    BY <1>8, ReadKeeps DEF Turn, ReadOnly, QueueTypeOK
  <2>2. crashes' \in 0 .. MaxCrash /\ faults' \in 0 .. MaxFault
    BY <1>8, BoundsKept DEF Turn
  <2> QED
    BY <1>8, <2>1, <2>2 DEF Turn
<1>9. ASSUME NEW r \in Run, TurnTimesOut(r)
      PROVE  TypeOK'
  BY <1>9, BoundsKept DEF TurnTimesOut
<1>10. ASSUME NEW r \in Run, TurnFails(r)
       PROVE  TypeOK'
  BY <1>10, BoundsKept DEF TurnFails
<1>11. ASSUME NEW r \in Run, Load(r)
       PROVE  TypeOK'
  <2> USE BoundsKept
  <2>1. CASE Goto(r, "schedule") /\ UNCHANGED <<cur, verdict>>
    BY <1>11, <2>1 DEF Load
  <2>2. CASE Conclude(r, cur[r], "config_invalid")
    BY <1>11, <2>2 DEF Load
  <2> QED
    BY <1>11, <2>1, <2>2 DEF Load
<1>12. ASSUME NEW r \in Run, TakeSchedule(r)
       PROVE  TypeOK'
  <2>1. /\ Goto(r, "run")
        /\ retries' = [retries EXCEPT ![r] = 0]
        /\ ran' = [ran EXCEPT ![cur[r]] = @ + 1]
        /\ sched' = [sched EXCEPT ![SchedOf[cur[r]]] = r]
        /\ NoFault
        /\ UNCHANGED <<queueVars, alive, cur, verdict, global, lease, records,
                       notified, historyVars>>
    BY <1>12 DEF TakeSchedule
  <2>2. cur[r] \in Run
    BY <1>12 DEF TakeSchedule, WorkOK, Serving
  <2>3. ran' \in [Run -> Nat]
    <3>1. ran' = [ran EXCEPT ![cur[r]] = @ + 1]
      BY <2>1
    <3> QED
      BY <2>2, <3>1
  <2>4. sched' \in [Schedule -> Proc \cup {None}]
    <3>1. sched' = [sched EXCEPT ![SchedOf[cur[r]]] = r]
      BY <2>1
    <3> QED
      BY <2>2, <3>1 DEF Ticket
  <2>5. retries' \in [Run -> 0 .. MaxRetry] /\ pc' \in [Proc -> RunStep \cup OtherStep]
    BY SMTT(30), <2>1
  <2>6. crashes' \in 0 .. MaxCrash /\ faults' \in 0 .. MaxFault
    BY <2>1, BoundsKept
  <2> QED
    BY <2>1, <2>3, <2>4, <2>5, <2>6
<1>13. ASSUME NEW r \in Run, ScheduleBusy(r)
       PROVE  TypeOK'
  BY <1>13, BoundsKept DEF ScheduleBusy
<1>14. ASSUME NEW r \in Run, Finish(r)
       PROVE  TypeOK'
  BY <1>14, BoundsKept DEF Finish
<1>15. ASSUME NEW r \in Run, WaitForRetry(r)
       PROVE  TypeOK'
  <2>1. cur[r] \in Run /\ UNCHANGED historyVars
    BY <1>15 DEF WaitForRetry, WorkOK, Serving
  <2>2. QueueTypeOK' /\ disp' \in [Ticket -> Run \cup {None}]
    BY <1>15, <2>1, SetDispatchKeeps DEF WaitForRetry, Active
  <2>3. retries' \in [Run -> 0 .. MaxRetry]
    <3>1. retries[r] + 1 \in 0 .. MaxRetry
      <4>1. retries[r] < MaxRetry
        BY <1>15 DEF WaitForRetry
      <4> QED
        BY <4>1
    <3>2. retries' = [retries EXCEPT ![r] = retries[r] + 1]
      BY <1>15 DEF WaitForRetry
    <3> QED
      BY <3>1, <3>2
  <2>4. crashes' \in 0 .. MaxCrash /\ faults' \in 0 .. MaxFault
    BY <1>15, BoundsKept DEF WaitForRetry
  <2> QED
    BY <1>15, <2>2, <2>3, <2>4 DEF WaitForRetry
<1>16. ASSUME NEW r \in Run, RetryJob(r)
       PROVE  TypeOK'
  <2>1. cur[r] \in Run /\ UNCHANGED historyVars
    BY <1>16 DEF RetryJob, WorkOK, Serving
  <2>2. QueueTypeOK' /\ disp' \in [Ticket -> Run \cup {None}]
    BY <1>16, <2>1, SetDispatchKeeps DEF RetryJob, Active
  <2>3. retries' \in [Run -> 0 .. MaxRetry]
    BY <1>16 DEF RetryJob
  <2>4. crashes' \in 0 .. MaxCrash /\ faults' \in 0 .. MaxFault
    BY <1>16, BoundsKept DEF RetryJob
  <2> QED
    BY <1>16, <2>2, <2>3, <2>4 DEF RetryJob
<1>17. ASSUME NEW r \in Run, Record(r)
       PROVE  TypeOK'
  <2>1. records' \in [Run -> Seq(Result)]
    <3>1. CASE records' = [records EXCEPT ![cur[r]] = Append(@, verdict[r])]
      <4>1. cur[r] \in Run /\ verdict[r] \in Result
        BY <1>17 DEF Record, WorkOK
      <4>2. Append(records[cur[r]], verdict[r]) \in Seq(Result)
        BY <4>1, AppendProperties
      <4> QED
        BY <3>1, <4>1, <4>2
    <3>2. CASE UNCHANGED records
      BY <3>2
    <3> QED
      BY <1>17, <3>1, <3>2 DEF Record
  <2>2. NoFault \/ Fault
    BY <1>17 DEF Record
  <2> QED
    BY <1>17, <2>1, <2>2, BoundsKept DEF Record
<1>18. ASSUME NEW r \in Run, Notify(r)
       PROVE  TypeOK'
  <2> USE BoundsKept
  <2>1. notified' \in [Run -> Nat]
    <3>1. cur[r] \in Run /\ notified' = [notified EXCEPT ![cur[r]] = @ + 1]
      BY <1>18 DEF Notify, WorkOK
    <3> QED
      BY SMTT(30), <3>1
  <2>2. CASE lease = r /\ Goto(r, "release") /\ UNCHANGED <<alive, cur>>
    BY <1>18, <2>1, <2>2 DEF Notify
  <2>3. CASE /\ lease # r
             /\ Goto(r, "done")
             /\ alive' = alive \ {r}
             /\ cur' = [cur EXCEPT ![r] = None]
    BY <1>18, <2>1, <2>3 DEF Notify
  <2> QED
    BY <1>18, <2>2, <2>3 DEF Notify
<1>19. ASSUME NEW r \in Run, Release(r)
       PROVE  TypeOK'
  BY <1>19, BoundsKept DEF Release, DropRunGuards
<1>20. ASSUME NEW r \in Run, Complete(r)
       PROVE  TypeOK'
  <2>1. cur[r] \in Run /\ UNCHANGED historyVars
    BY <1>20 DEF Complete, WorkOK
  <2>2. QueueTypeOK' /\ disp' \in [Ticket -> Run \cup {None}]
    <3>1. CASE Delete(cur[r])
      BY <2>1, <3>1, DeleteKeeps
    <3>2. CASE UNCHANGED queueVars
      BY <3>2 DEF QueueTypeOK
    <3> QED
      BY <1>20, <3>1, <3>2 DEF Complete
  <2>3. crashes' \in 0 .. MaxCrash /\ faults' \in 0 .. MaxFault
    BY <1>20, BoundsKept DEF Complete
  <2> QED
    BY <1>20, <2>2, <2>3 DEF Complete
<1>21. ASSUME NEW r \in Run, Exit(r)
       PROVE  TypeOK'
  BY <1>21, BoundsKept DEF Exit
<1>22. ASSUME NEW g \in Gui, ManualStart(g)
       PROVE  TypeOK'
  <2>1. QueueTypeOK' /\ disp' \in [Ticket -> Run \cup {None}]
    BY <1>22, ReadKeeps DEF ManualStart, ReadOnly, QueueTypeOK
  <2>2. crashes' \in 0 .. MaxCrash /\ faults' \in 0 .. MaxFault
    BY <1>22, BoundsKept DEF ManualStart
  <2>3. CASE global' = g /\ Goto(g, "manual")
    BY <1>22, <2>1, <2>2, <2>3 DEF ManualStart
  <2>4. CASE UNCHANGED <<global, pc>>
    BY <1>22, <2>1, <2>2, <2>4 DEF ManualStart
  <2> QED
    BY <1>22, <2>3, <2>4 DEF ManualStart
<1>23. ASSUME NEW g \in Gui, UnreadableTicket(g)
       PROVE  TypeOK'
  <2>1. QueueTypeOK' /\ disp' \in [Ticket -> Run \cup {None}]
    BY <1>23, UnreadableKeeps
  <2>2. crashes' \in 0 .. MaxCrash /\ faults' \in 0 .. MaxFault
    BY <1>23, BoundsKept DEF UnreadableTicket
  <2> QED
    BY <1>23, <2>1, <2>2 DEF UnreadableTicket
<1>24. ASSUME NEW g \in Gui, CleanupTakesGlobal(g)
       PROVE  TypeOK'
  BY <1>24, BoundsKept DEF CleanupTakesGlobal
<1>25. ASSUME NEW g \in Gui, NEW s \in Schedule, CleanupTakesSchedule(g, s)
       PROVE  TypeOK'
  BY <1>25, BoundsKept DEF CleanupTakesSchedule
<1>26. ASSUME NEW c \in Cli, OneShotStart(c)
       PROVE  TypeOK'
  BY <1>26, BoundsKept DEF OneShotStart
<1>27. ASSUME NEW p \in Gui \cup Cli, OtherEnds(p)
       PROVE  TypeOK'
  BY <1>27, BoundsKept DEF OtherEnds, DropRunGuards
<1>28. ASSUME NEW p \in Proc, Crash(p)
       PROVE  TypeOK'
  BY SMTT(30), <1>28 DEF Crash, DropRunGuards, boundVars
<1>29. ASSUME UNCHANGED vars
       PROVE  TypeOK'
  BY <1>29 DEF vars, boundVars
<1> QED
  BY <1>1, <1>2, <1>3, <1>4, <1>5, <1>6, <1>7, <1>8, <1>9, <1>10,
     <1>11, <1>12, <1>13, <1>14, <1>15, <1>16, <1>17, <1>18, <1>19,
     <1>20, <1>21, <1>22, <1>23, <1>24, <1>25, <1>26, <1>27, <1>28,
     <1>29
     DEF Next, RunStepOf

\* A step preserves what relates the guards and the places of the processes.
LEMMA GuardStep ==
  ASSUME TypeOK, GuardsOK, [Next]_vars
  PROVE  GuardsOK'
<1> USE QueueAssumption, DispatcherAssumption
    DEF GuardsOK, GuardsAccountedFor, AsDispatcher, AsRunner,
        Serving, TypeOK, Proc, RunStep, OtherStep, Result,
        queueVars, procVars, guardVars, logVars, historyVars,
        boundVars, Goto, At, Conclude, NoFault, Fault
<1>1. ASSUME NEW r \in Run, Launch(r)
      PROVE  GuardsOK'
  <2>1. CASE Goto(r, "enqueue") /\ UNCHANGED <<cur, verdict>>
    BY <1>1, <2>1 DEF Launch
  <2>2. CASE Conclude(r, r, "config_invalid")
    BY <1>1, <2>2 DEF Launch
  <2> QED
    BY <1>1, <2>1, <2>2 DEF Launch
<1>2. ASSUME NEW r \in Run, Enqueue(r)
      PROVE  GuardsOK'
  <2>1. CASE Conclude(r, r, "busy") /\ UNCHANGED historyVars
    BY <1>2, <2>1 DEF Enqueue
  <2>2. CASE Goto(r, "lease") /\ UNCHANGED <<cur, verdict>>
    BY <1>2, <2>2 DEF Enqueue
  <2> QED
    BY <1>2, <2>1, <2>2 DEF Enqueue
<1>3. ASSUME NEW r \in Run, EnqueueFails(r)
      PROVE  GuardsOK'
  BY <1>3 DEF EnqueueFails
<1>4. ASSUME NEW r \in Run, TakeLease(r)
      PROVE  GuardsOK'
  BY <1>4 DEF TakeLease
<1>5. ASSUME NEW r \in Run, LeaveToDispatcher(r)
      PROVE  GuardsOK'
  BY <1>5 DEF LeaveToDispatcher
<1>6. ASSUME NEW r \in Run, Claim(r)
      PROVE  GuardsOK'
  <2>1. CASE \E t \in Run : cur' = [cur EXCEPT ![r] = t] /\ Goto(r, "turn")
    BY <1>6, <2>1 DEF Claim
  <2>2. CASE Goto(r, "exit") /\ UNCHANGED cur
    BY <1>6, <2>2 DEF Claim
  <2> QED
    BY <1>6, <2>1, <2>2 DEF Claim
<1>7. ASSUME NEW r \in Run, ClaimFails(r)
      PROVE  GuardsOK'
  BY <1>7 DEF ClaimFails
<1>8. ASSUME NEW r \in Run, Turn(r)
      PROVE  GuardsOK'
  BY <1>8 DEF Turn
<1>9. ASSUME NEW r \in Run, TurnTimesOut(r)
      PROVE  GuardsOK'
  BY <1>9 DEF TurnTimesOut
<1>10. ASSUME NEW r \in Run, TurnFails(r)
       PROVE  GuardsOK'
  BY <1>10 DEF TurnFails
<1>11. ASSUME NEW r \in Run, Load(r)
       PROVE  GuardsOK'
  <2>1. CASE Goto(r, "schedule") /\ UNCHANGED <<cur, verdict>>
    BY <1>11, <2>1 DEF Load
  <2>2. CASE Conclude(r, cur[r], "config_invalid")
    BY <1>11, <2>2 DEF Load
  <2> QED
    BY <1>11, <2>1, <2>2 DEF Load
<1>12. ASSUME NEW r \in Run, TakeSchedule(r)
       PROVE  GuardsOK'
  BY <1>12 DEF TakeSchedule
<1>13. ASSUME NEW r \in Run, ScheduleBusy(r)
       PROVE  GuardsOK'
  BY <1>13 DEF ScheduleBusy
<1>14. ASSUME NEW r \in Run, Finish(r)
       PROVE  GuardsOK'
  BY <1>14 DEF Finish
<1>15. ASSUME NEW r \in Run, WaitForRetry(r)
       PROVE  GuardsOK'
  BY <1>15 DEF WaitForRetry
<1>16. ASSUME NEW r \in Run, RetryJob(r)
       PROVE  GuardsOK'
  BY <1>16 DEF RetryJob
<1>17. ASSUME NEW r \in Run, Record(r)
       PROVE  GuardsOK'
  BY <1>17 DEF Record
<1>18. ASSUME NEW r \in Run, Notify(r)
       PROVE  GuardsOK'
  <2>1. CASE lease = r /\ Goto(r, "release") /\ UNCHANGED <<alive, cur>>
    BY <1>18, <2>1 DEF Notify
  <2>2. CASE lease # r /\ Goto(r, "done") /\ cur' = [cur EXCEPT ![r] = None]
    BY <1>18, <2>2 DEF Notify
  <2> QED
    BY <1>18, <2>1, <2>2 DEF Notify
<1>19. ASSUME NEW r \in Run, Release(r)
       PROVE  GuardsOK'
  BY <1>19 DEF Release, DropRunGuards
<1>20. ASSUME NEW r \in Run, Complete(r)
       PROVE  GuardsOK'
  BY <1>20 DEF Complete
<1>21. ASSUME NEW r \in Run, Exit(r)
       PROVE  GuardsOK'
  BY <1>21 DEF Exit
<1>22. ASSUME NEW g \in Gui, ManualStart(g)
       PROVE  GuardsOK'
  <2>1. CASE global = None /\ global' = g /\ Goto(g, "manual")
    BY <1>22, <2>1 DEF ManualStart
  <2>2. CASE UNCHANGED <<global, pc>>
    BY <1>22, <2>2 DEF ManualStart
  <2> QED
    BY <1>22, <2>1, <2>2 DEF ManualStart
<1>23. ASSUME NEW g \in Gui, UnreadableTicket(g)
       PROVE  GuardsOK'
  BY <1>23 DEF UnreadableTicket
<1>24. ASSUME NEW g \in Gui, CleanupTakesGlobal(g)
       PROVE  GuardsOK'
  BY <1>24 DEF CleanupTakesGlobal
<1>25. ASSUME NEW g \in Gui, NEW s \in Schedule, CleanupTakesSchedule(g, s)
       PROVE  GuardsOK'
  BY <1>25 DEF CleanupTakesSchedule
<1>26. ASSUME NEW c \in Cli, OneShotStart(c)
       PROVE  GuardsOK'
  BY <1>26 DEF OneShotStart
<1>27. ASSUME NEW p \in Gui \cup Cli, OtherEnds(p)
       PROVE  GuardsOK'
  BY <1>27 DEF OtherEnds, DropRunGuards
<1>28. ASSUME NEW p \in Proc, Crash(p)
       PROVE  GuardsOK'
  BY <1>28 DEF Crash, DropRunGuards
<1>29. ASSUME UNCHANGED vars
       PROVE  GuardsOK'
  BY <1>29 DEF vars
<1> QED
  BY <1>1, <1>2, <1>3, <1>4, <1>5, <1>6, <1>7, <1>8, <1>9, <1>10,
     <1>11, <1>12, <1>13, <1>14, <1>15, <1>16, <1>17, <1>18, <1>19,
     <1>20, <1>21, <1>22, <1>23, <1>24, <1>25, <1>26, <1>27, <1>28,
     <1>29
     DEF Next, RunStepOf

\* A step preserves what relates the places and the work of the processes.
LEMMA WorkStep ==
  ASSUME TypeOK, WorkOK, [Next]_vars
  PROVE  WorkOK'
<1> USE QueueAssumption, DispatcherAssumption
    DEF WorkOK, Serving, TypeOK, Proc, RunStep, OtherStep, Result,
        queueVars, procVars, guardVars, logVars, historyVars,
        boundVars, Goto, At, Conclude, NoFault, Fault
<1>1. ASSUME NEW r \in Run, Launch(r)
      PROVE  WorkOK'
  <2>1. CASE Goto(r, "enqueue") /\ UNCHANGED <<cur, verdict>>
    BY <1>1, <2>1 DEF Launch
  <2>2. CASE Conclude(r, r, "config_invalid")
    BY <1>1, <2>2 DEF Launch
  <2> QED
    BY <1>1, <2>1, <2>2 DEF Launch
<1>2. ASSUME NEW r \in Run, Enqueue(r)
      PROVE  WorkOK'
  <2>1. CASE Conclude(r, r, "busy") /\ UNCHANGED historyVars
    BY <1>2, <2>1 DEF Enqueue
  <2>2. CASE Goto(r, "lease") /\ UNCHANGED <<cur, verdict>>
    BY <1>2, <2>2 DEF Enqueue
  <2> QED
    BY <1>2, <2>1, <2>2 DEF Enqueue
<1>3. ASSUME NEW r \in Run, EnqueueFails(r)
      PROVE  WorkOK'
  BY <1>3 DEF EnqueueFails
<1>4. ASSUME NEW r \in Run, TakeLease(r)
      PROVE  WorkOK'
  BY <1>4 DEF TakeLease
<1>5. ASSUME NEW r \in Run, LeaveToDispatcher(r)
      PROVE  WorkOK'
  BY <1>5 DEF LeaveToDispatcher
<1>6. ASSUME NEW r \in Run, Claim(r)
      PROVE  WorkOK'
  <2>1. CASE \E t \in Run : cur' = [cur EXCEPT ![r] = t] /\ Goto(r, "turn")
    BY SMTT(30), <1>6, <2>1 DEF Claim
  <2>2. CASE Goto(r, "exit") /\ UNCHANGED cur
    BY <1>6, <2>2 DEF Claim
  <2> QED
    BY <1>6, <2>1, <2>2 DEF Claim
<1>7. ASSUME NEW r \in Run, ClaimFails(r)
      PROVE  WorkOK'
  BY <1>7 DEF ClaimFails
<1>8. ASSUME NEW r \in Run, Turn(r)
      PROVE  WorkOK'
  BY <1>8 DEF Turn
<1>9. ASSUME NEW r \in Run, TurnTimesOut(r)
      PROVE  WorkOK'
  BY <1>9 DEF TurnTimesOut
<1>10. ASSUME NEW r \in Run, TurnFails(r)
       PROVE  WorkOK'
  BY <1>10 DEF TurnFails
<1>11. ASSUME NEW r \in Run, Load(r)
       PROVE  WorkOK'
  <2>1. CASE Goto(r, "schedule") /\ UNCHANGED <<cur, verdict>>
    BY <1>11, <2>1 DEF Load
  <2>2. CASE Conclude(r, cur[r], "config_invalid")
    BY <1>11, <2>2 DEF Load
  <2> QED
    BY <1>11, <2>1, <2>2 DEF Load
<1>12. ASSUME NEW r \in Run, TakeSchedule(r)
       PROVE  WorkOK'
  BY <1>12 DEF TakeSchedule
<1>13. ASSUME NEW r \in Run, ScheduleBusy(r)
       PROVE  WorkOK'
  BY <1>13 DEF ScheduleBusy
<1>14. ASSUME NEW r \in Run, Finish(r)
       PROVE  WorkOK'
  BY <1>14 DEF Finish
<1>15. ASSUME NEW r \in Run, WaitForRetry(r)
       PROVE  WorkOK'
  BY <1>15 DEF WaitForRetry
<1>16. ASSUME NEW r \in Run, RetryJob(r)
       PROVE  WorkOK'
  BY <1>16 DEF RetryJob
<1>17. ASSUME NEW r \in Run, Record(r)
       PROVE  WorkOK'
  BY <1>17 DEF Record
<1>18. ASSUME NEW r \in Run, Notify(r)
       PROVE  WorkOK'
  <2>1. CASE lease = r /\ Goto(r, "release") /\ UNCHANGED <<alive, cur>>
    BY <1>18, <2>1 DEF Notify
  <2>2. CASE lease # r /\ Goto(r, "done") /\ cur' = [cur EXCEPT ![r] = None]
    BY <1>18, <2>2 DEF Notify
  <2> QED
    BY <1>18, <2>1, <2>2 DEF Notify
<1>19. ASSUME NEW r \in Run, Release(r)
       PROVE  WorkOK'
  BY <1>19 DEF Release, DropRunGuards
<1>20. ASSUME NEW r \in Run, Complete(r)
       PROVE  WorkOK'
  BY <1>20 DEF Complete
<1>21. ASSUME NEW r \in Run, Exit(r)
       PROVE  WorkOK'
  BY <1>21 DEF Exit
<1>22. ASSUME NEW g \in Gui, ManualStart(g)
       PROVE  WorkOK'
  <2>1. CASE global = None /\ global' = g /\ Goto(g, "manual")
    BY <1>22, <2>1 DEF ManualStart
  <2>2. CASE UNCHANGED <<global, pc>>
    BY <1>22, <2>2 DEF ManualStart
  <2> QED
    BY <1>22, <2>1, <2>2 DEF ManualStart
<1>23. ASSUME NEW g \in Gui, UnreadableTicket(g)
       PROVE  WorkOK'
  BY <1>23 DEF UnreadableTicket
<1>24. ASSUME NEW g \in Gui, CleanupTakesGlobal(g)
       PROVE  WorkOK'
  BY <1>24 DEF CleanupTakesGlobal
<1>25. ASSUME NEW g \in Gui, NEW s \in Schedule, CleanupTakesSchedule(g, s)
       PROVE  WorkOK'
  BY <1>25 DEF CleanupTakesSchedule
<1>26. ASSUME NEW c \in Cli, OneShotStart(c)
       PROVE  WorkOK'
  BY <1>26 DEF OneShotStart
<1>27. ASSUME NEW p \in Gui \cup Cli, OtherEnds(p)
       PROVE  WorkOK'
  BY <1>27 DEF OtherEnds, DropRunGuards
<1>28. ASSUME NEW p \in Proc, Crash(p)
       PROVE  WorkOK'
  BY <1>28 DEF Crash, DropRunGuards
<1>29. ASSUME UNCHANGED vars
       PROVE  WorkOK'
  BY <1>29 DEF vars
<1> QED
  BY <1>1, <1>2, <1>3, <1>4, <1>5, <1>6, <1>7, <1>8, <1>9, <1>10,
     <1>11, <1>12, <1>13, <1>14, <1>15, <1>16, <1>17, <1>18, <1>19,
     <1>20, <1>21, <1>22, <1>23, <1>24, <1>25, <1>26, <1>27, <1>28,
     <1>29
     DEF Next, RunStepOf

\* Process r puts its ticket at the end of the queue.
Joins(r) ==
  /\ pc[r] = "enqueue" /\ pc'[r] = "lease"
  /\ \A u \in Run : state[u] # "absent" => SchedOf[u] # SchedOf[r]
  /\ state'[r] = "queued"
  /\ \A u \in Run \ {r} :
       /\ state'[u] = "absent" <=> state[u] = "absent"
       /\ order'[u] = order[u]
       /\ state'[u] \in Active => state[u] \in Active
  /\ \A u \in Run : state[u] # "absent" => order[u] < order'[r]
  /\ arrival' = [arrival EXCEPT ![r] = arrivals + 1]
  /\ arrivals' = arrivals + 1

\* Ticket t becomes active, and no other is.
Starts(t) ==
  /\ \A u \in Run :
       /\ state'[u] = "absent" <=> state[u] = "absent"
       /\ order'[u] = order[u]
  /\ \A u \in Run \ {t} : state'[u] \notin Active
  /\ UNCHANGED historyVars

\* What a step may do to the queue.
QueueEffect ==
  \/ Calm
  \/ \E r \in Run : Joins(r)
  \/ \E t \in Run : Starts(t)
  \/ \E r \in Run : pc[r] \in {"complete", "abort"} /\ Leaves(cur[r])
  \/ faults' > 0 /\ \E t \in Run : Leaves(t)

\* Every step has one of these effects on the queue.
LEMMA QueueFrame ==
  ASSUME TypeOK, WorkOK, [Next]_vars
  PROVE  QueueEffect
<1> USE QueueAssumption, DispatcherAssumption
    DEF TypeOK, WorkOK, Proc, queueVars, historyVars, boundVars,
        NoFault, Fault, At, Goto, Serving, Ticket, TicketState,
        Calm, QueueEffect
<1>1. ASSUME NEW r \in Run, Launch(r)
      PROVE  QueueEffect
  <2>1. CASE Goto(r, "enqueue") /\ UNCHANGED <<cur, verdict>>
    BY <1>1, <2>1 DEF Launch
  <2>2. CASE Conclude(r, r, "config_invalid")
    BY <1>1, <2>2 DEF Launch
  <2> QED
    BY <1>1, <2>1, <2>2 DEF Launch
<1>2. ASSUME NEW r \in Run, Enqueue(r)
      PROVE  QueueEffect
  <2>1. CASE ReadOnly({}) /\ UNCHANGED historyVars
    BY <2>1, ReadKeeps DEF ReadOnly
  <2>2. CASE /\ ~Duplicate(r)
             /\ Insert(r)
             /\ Goto(r, "lease")
             /\ arrival' = [arrival EXCEPT ![r] = arrivals + 1]
             /\ arrivals' = arrivals + 1
    <3>1. pc[r] = "enqueue" /\ pc'[r] = "lease"
      BY <1>2, <2>2 DEF Enqueue
    <3>2. \A u \in Run : state[u] # "absent" => SchedOf[u] # SchedOf[r]
      BY <2>2, ReadKeeps DEF Duplicate, Listed
    <3>3. state' = [AfterRead({}) EXCEPT ![r] = "queued"]
      BY <2>2 DEF Insert
    <3>4. \E n : /\ order' = [order EXCEPT ![r] = n]
                 /\ \A u \in Listed(AfterRead({})) : order[u] < n
      BY <2>2 DEF Insert, NewOrder
    <3>5. /\ \A u \in Listed(AfterRead({})) : order[u] < order'[r]
          /\ \A u \in Run \ {r} : order'[u] = order[u]
      BY <3>4 DEF QueueTypeOK
    <3>6. \A u \in Run : state[u] # "absent" => u \in Listed(AfterRead({}))
      BY ReadKeeps DEF Listed
    <3>7. /\ state'[r] = "queued"
          /\ \A u \in Run \ {r} : state'[u] = AfterRead({})[u]
      BY <3>3, ReadKeeps
    <3>8. \A u \in Run \ {r} :
            /\ state'[u] = "absent" <=> state[u] = "absent"
            /\ state'[u] \in Active => state[u] \in Active
      BY SMTT(30), <3>7, ReadKeeps
    <3>9. \A u \in Run : state[u] # "absent" => order[u] < order'[r]
      BY <3>5, <3>6
    <3>10. Joins(r)
      BY <2>2, <3>1, <3>2, <3>5, <3>7, <3>8, <3>9 DEF Joins
    <3> QED
      BY <3>10
  <2> QED
    BY <1>2, <2>1, <2>2 DEF Enqueue
<1>3. ASSUME NEW r \in Run, EnqueueFails(r)
      PROVE  QueueEffect
  BY <1>3 DEF EnqueueFails
<1>4. ASSUME NEW r \in Run, TakeLease(r)
      PROVE  QueueEffect
  BY <1>4 DEF TakeLease
<1>5. ASSUME NEW r \in Run, LeaveToDispatcher(r)
      PROVE  QueueEffect
  BY <1>5 DEF LeaveToDispatcher
<1>6. ASSUME NEW r \in Run, Claim(r)
      PROVE  QueueEffect
  <2>1. UNCHANGED historyVars
    BY <1>6 DEF Claim
  <2>2. CASE NothingToClaim
    BY <2>1, <2>2, ReadKeeps DEF NothingToClaim, ReadOnly
  <2>3. ASSUME NEW t \in Run, ClaimNext(r, t) PROVE QueueEffect
    <3>1. /\ state' = [AfterRead({}) EXCEPT ![t] = "running"]
          /\ UNCHANGED order
          /\ AfterRead({})[t] = "queued"
          /\ \A u \in Run : AfterRead({})[u] \notin Active
      BY <2>3 DEF ClaimNext, Claimable
    <3>2. \A u \in Run \ {t} : state'[u] = AfterRead({})[u]
      BY <3>1, ReadKeeps
    <3>3. state'[t] # "absent" /\ state[t] # "absent"
      <4>1. AfterRead({})[t] # "absent"
        BY <3>1
      <4>2. state[t] # "absent"
        BY <4>1, ReadKeeps
      <4>3. state'[t] = "running"
        BY SMTT(30), <3>1, ReadKeeps
      <4> QED
        BY <4>2, <4>3
    <3>4. \A u \in Run \ {t} : state'[u] = "absent" <=> state[u] = "absent"
      BY <3>2, ReadKeeps
    <3>5. Starts(t)
      BY <2>1, <3>1, <3>2, <3>3, <3>4 DEF Starts
    <3> QED
      BY <3>5
  <2> QED
    BY <1>6, <2>2, <2>3 DEF Claim
<1>7. ASSUME NEW r \in Run, ClaimFails(r)
      PROVE  QueueEffect
  BY <1>7 DEF ClaimFails
<1>8. ASSUME NEW r \in Run, Turn(r)
      PROVE  QueueEffect
  <2>1. state' = AfterRead({cur[r]}) /\ UNCHANGED <<order, historyVars>>
    BY <1>8 DEF Turn, ReadOnly
  <2> QED
    BY <2>1, ReadKeeps
<1>9. ASSUME NEW r \in Run, TurnTimesOut(r)
      PROVE  QueueEffect
  BY <1>9 DEF TurnTimesOut
<1>10. ASSUME NEW r \in Run, TurnFails(r)
       PROVE  QueueEffect
  BY <1>10 DEF TurnFails
<1>11. ASSUME NEW r \in Run, Load(r)
       PROVE  QueueEffect
  <2>1. CASE Goto(r, "schedule") /\ UNCHANGED <<cur, verdict>>
    BY <1>11, <2>1 DEF Load
  <2>2. CASE Conclude(r, cur[r], "config_invalid")
    BY <1>11, <2>2 DEF Load
  <2> QED
    BY <1>11, <2>1, <2>2 DEF Load
<1>12. ASSUME NEW r \in Run, TakeSchedule(r)
       PROVE  QueueEffect
  BY <1>12 DEF TakeSchedule
<1>13. ASSUME NEW r \in Run, ScheduleBusy(r)
       PROVE  QueueEffect
  BY <1>13 DEF ScheduleBusy
<1>14. ASSUME NEW r \in Run, Finish(r)
       PROVE  QueueEffect
  BY <1>14 DEF Finish
<1>15. ASSUME NEW r \in Run, WaitForRetry(r)
       PROVE  QueueEffect
  <2>1. cur[r] \in Run /\ UNCHANGED historyVars
    BY <1>15 DEF WaitForRetry
  <2>2. Calm
    BY <1>15, <2>1, SetDispatchKeeps DEF WaitForRetry, Active
  <2> QED
    BY <2>2
<1>16. ASSUME NEW r \in Run, RetryJob(r)
       PROVE  QueueEffect
  <2>1. cur[r] \in Run /\ UNCHANGED historyVars
    BY <1>16 DEF RetryJob
  <2>2. Calm
    BY <1>16, <2>1, SetDispatchKeeps DEF RetryJob, Active
  <2> QED
    BY <2>2
<1>17. ASSUME NEW r \in Run, Record(r)
       PROVE  QueueEffect
  BY <1>17 DEF Record
<1>18. ASSUME NEW r \in Run, Notify(r)
       PROVE  QueueEffect
  <2>1. CASE lease = r /\ Goto(r, "release") /\ UNCHANGED <<alive, cur>>
    BY <1>18, <2>1 DEF Notify
  <2>2. CASE lease # r /\ Goto(r, "done") /\ cur' = [cur EXCEPT ![r] = None]
    BY <1>18, <2>2 DEF Notify
  <2> QED
    BY <1>18, <2>1, <2>2 DEF Notify
<1>19. ASSUME NEW r \in Run, Release(r)
       PROVE  QueueEffect
  BY <1>19 DEF Release, DropRunGuards
<1>20. ASSUME NEW r \in Run, Complete(r)
       PROVE  QueueEffect
  <2>1. /\ cur[r] \in Run /\ UNCHANGED historyVars
        /\ pc[r] \in {"complete", "abort"}
    BY <1>20 DEF Complete
  <2>2. CASE UNCHANGED queueVars
    BY <2>1, <2>2
  <2>3. CASE Delete(cur[r])
    BY <1>20, <2>1, <2>3, DeleteKeeps
  <2> QED
    BY <1>20, <2>2, <2>3 DEF Complete
<1>21. ASSUME NEW r \in Run, Exit(r)
       PROVE  QueueEffect
  BY <1>21 DEF Exit
<1>22. ASSUME NEW g \in Gui, ManualStart(g)
       PROVE  QueueEffect
  <2>1. state' = AfterRead({}) /\ UNCHANGED <<order, historyVars>>
    BY <1>22 DEF ManualStart, ReadOnly
  <2> QED
    BY <2>1, ReadKeeps
<1>23. ASSUME NEW g \in Gui, UnreadableTicket(g)
       PROVE  QueueEffect
  <2>1. faults' > 0
    BY <1>23 DEF UnreadableTicket, Fault
  <2> QED
    BY <1>23, <2>1, UnreadableKeeps
<1>24. ASSUME NEW g \in Gui, CleanupTakesGlobal(g)
       PROVE  QueueEffect
  BY <1>24 DEF CleanupTakesGlobal
<1>25. ASSUME NEW g \in Gui, NEW s \in Schedule, CleanupTakesSchedule(g, s)
       PROVE  QueueEffect
  BY <1>25 DEF CleanupTakesSchedule
<1>26. ASSUME NEW c \in Cli, OneShotStart(c)
       PROVE  QueueEffect
  BY <1>26 DEF OneShotStart
<1>27. ASSUME NEW p \in Gui \cup Cli, OtherEnds(p)
       PROVE  QueueEffect
  BY <1>27 DEF OtherEnds, DropRunGuards
<1>28. ASSUME NEW p \in Proc, Crash(p)
       PROVE  QueueEffect
  BY <1>28 DEF Crash, DropRunGuards
<1>29. ASSUME UNCHANGED vars
       PROVE  QueueEffect
  BY <1>29 DEF vars
<1> QED
  BY <1>1, <1>2, <1>3, <1>4, <1>5, <1>6, <1>7, <1>8, <1>9, <1>10,
     <1>11, <1>12, <1>13, <1>14, <1>15, <1>16, <1>17, <1>18, <1>19,
     <1>20, <1>21, <1>22, <1>23, <1>24, <1>25, <1>26, <1>27, <1>28,
     <1>29
     DEF Next, RunStepOf

\* Ticket t is at the head of the queue.
Oldest(t) ==
  /\ state[t] # "absent"
  /\ \A u \in Run : state[u] # "absent" => order[t] <= order[u]

\* What a step may do to the place of a process, to its ticket and to the
\* history.
PathEffect ==
  /\ \A r \in Run :
       /\ pc'[r] \in {"idle", "enqueue"} => pc[r] \in {"idle", "enqueue"}
       /\ pc'[r] \in Serving =>
            /\ cur'[r] = cur[r]
            /\ pc[r] \in Serving \/ (pc[r] = "turn" /\ Oldest(cur[r]))
       /\ pc'[r] = "turn" =>
            \/ cur'[r] \in Run /\ state[cur'[r]] # "absent"
            \/ pc[r] = "turn" /\ cur'[r] = cur[r]
       /\ pc'[r] \in {"notify", "release", "complete"} =>
            /\ cur'[r] = cur[r]
            /\ \/ pc[r] \in {"notify", "release", "complete"}
               \/ records'[cur[r]] # <<>>
               \/ faults' > 0
       /\ pc'[r] = "abort" => pc[r] = "abort" \/ faults' > 0
  /\ \A t \in Run : records[t] # <<>> => records'[t] # <<>>
  /\ faults <= faults'

\* Every step has one of these effects on the processes.
LEMMA PathFrame ==
  ASSUME TypeOK, WorkOK, [Next]_vars
  PROVE  PathEffect
<1> USE QueueAssumption, DispatcherAssumption
    DEF WorkOK, PathEffect, Serving, TypeOK, Proc, RunStep,
        OtherStep, queueVars, procVars, guardVars, logVars,
        historyVars, boundVars, Goto, At, Conclude, NoFault, Fault
<1>1. ASSUME NEW r \in Run, Launch(r)
      PROVE  PathEffect
  <2>1. CASE Goto(r, "enqueue") /\ UNCHANGED <<cur, verdict>>
    BY <1>1, <2>1 DEF Launch
  <2>2. CASE Conclude(r, r, "config_invalid")
    BY <1>1, <2>2 DEF Launch
  <2> QED
    BY <1>1, <2>1, <2>2 DEF Launch
<1>2. ASSUME NEW r \in Run, Enqueue(r)
      PROVE  PathEffect
  <2>1. CASE Conclude(r, r, "busy") /\ UNCHANGED historyVars
    BY <1>2, <2>1 DEF Enqueue
  <2>2. CASE Goto(r, "lease") /\ UNCHANGED <<cur, verdict>>
    BY <1>2, <2>2 DEF Enqueue
  <2> QED
    BY <1>2, <2>1, <2>2 DEF Enqueue
<1>3. ASSUME NEW r \in Run, EnqueueFails(r)
      PROVE  PathEffect
  BY <1>3 DEF EnqueueFails
<1>4. ASSUME NEW r \in Run, TakeLease(r)
      PROVE  PathEffect
  BY <1>4 DEF TakeLease
<1>5. ASSUME NEW r \in Run, LeaveToDispatcher(r)
      PROVE  PathEffect
  BY <1>5 DEF LeaveToDispatcher
<1>6. ASSUME NEW r \in Run, Claim(r)
      PROVE  PathEffect
  <2>1. /\ pc[r] = "claim" /\ UNCHANGED <<records, faults>>
    BY <1>6 DEF Claim
  <2>2. CASE Goto(r, "exit") /\ UNCHANGED cur
    BY <2>1, <2>2
  <2>3. ASSUME NEW t \in Run, ClaimNext(r, t), cur' = [cur EXCEPT ![r] = t],
               Goto(r, "turn")
        PROVE  PathEffect
    <3>1. state[t] # "absent"
      BY <2>3, ReadKeeps DEF ClaimNext, Claimable
    <3> QED
      BY <2>1, <2>3, <3>1
  <2> QED
    BY <1>6, <2>2, <2>3 DEF Claim
<1>7. ASSUME NEW r \in Run, ClaimFails(r)
      PROVE  PathEffect
  BY <1>7 DEF ClaimFails
<1>8. ASSUME NEW r \in Run, Turn(r)
      PROVE  PathEffect
  <2>1. At(r, "turn") /\ Goto(r, "load") /\ UNCHANGED <<cur, records, faults>>
    BY <1>8 DEF Turn
  <2>2. Oldest(cur[r])
    BY <1>8, ReadKeeps DEF Turn, AtHead, Listed, Oldest, Ticket
  <2> QED
    BY <2>1, <2>2
<1>9. ASSUME NEW r \in Run, TurnTimesOut(r)
      PROVE  PathEffect
  BY <1>9 DEF TurnTimesOut
<1>10. ASSUME NEW r \in Run, TurnFails(r)
       PROVE  PathEffect
  BY <1>10 DEF TurnFails
<1>11. ASSUME NEW r \in Run, Load(r)
       PROVE  PathEffect
  <2>1. CASE Goto(r, "schedule") /\ UNCHANGED <<cur, verdict>>
    BY <1>11, <2>1 DEF Load
  <2>2. CASE Conclude(r, cur[r], "config_invalid")
    BY <1>11, <2>2 DEF Load
  <2> QED
    BY <1>11, <2>1, <2>2 DEF Load
<1>12. ASSUME NEW r \in Run, TakeSchedule(r)
       PROVE  PathEffect
  BY <1>12 DEF TakeSchedule
<1>13. ASSUME NEW r \in Run, ScheduleBusy(r)
       PROVE  PathEffect
  BY <1>13 DEF ScheduleBusy
<1>14. ASSUME NEW r \in Run, Finish(r)
       PROVE  PathEffect
  BY <1>14 DEF Finish
<1>15. ASSUME NEW r \in Run, WaitForRetry(r)
       PROVE  PathEffect
  BY <1>15 DEF WaitForRetry
<1>16. ASSUME NEW r \in Run, RetryJob(r)
       PROVE  PathEffect
  BY <1>16 DEF RetryJob
<1>17. ASSUME NEW r \in Run, Record(r)
       PROVE  PathEffect
  <2>1. /\ At(r, "record") /\ Goto(r, "notify") /\ UNCHANGED cur
        /\ cur[r] \in Run /\ verdict[r] \in Result
    BY <1>17 DEF Record
  <2>2. /\ \A t \in Run : records[t] # <<>> => records'[t] # <<>>
        /\ faults <= faults'
        /\ records'[cur[r]] # <<>> \/ faults' > 0
    <3>1. CASE /\ records' = [records EXCEPT ![cur[r]] = Append(@, verdict[r])]
               /\ UNCHANGED faults
      <4>1. records[cur[r]] \in Seq(Result) /\ verdict[r] \in Result
        BY <2>1
      <4>2. Append(records[cur[r]], verdict[r]) # <<>>
        BY ONLY <4>1, AppendNonEmpty
      <4> QED
        BY <2>1, <3>1, <4>2
    <3>2. CASE UNCHANGED records /\ faults' = faults + 1
      BY <3>2
    <3> QED
      BY <1>17, <3>1, <3>2 DEF Record
  <2> QED
    BY <2>1, <2>2
<1>18. ASSUME NEW r \in Run, Notify(r)
       PROVE  PathEffect
  <2>1. CASE lease = r /\ Goto(r, "release") /\ UNCHANGED <<alive, cur>>
    BY <1>18, <2>1 DEF Notify
  <2>2. CASE lease # r /\ Goto(r, "done") /\ cur' = [cur EXCEPT ![r] = None]
    BY <1>18, <2>2 DEF Notify
  <2> QED
    BY <1>18, <2>1, <2>2 DEF Notify
<1>19. ASSUME NEW r \in Run, Release(r)
       PROVE  PathEffect
  BY <1>19 DEF Release, DropRunGuards
<1>20. ASSUME NEW r \in Run, Complete(r)
       PROVE  PathEffect
  BY <1>20 DEF Complete
<1>21. ASSUME NEW r \in Run, Exit(r)
       PROVE  PathEffect
  BY <1>21 DEF Exit
<1>22. ASSUME NEW g \in Gui, ManualStart(g)
       PROVE  PathEffect
  <2>1. CASE global = None /\ global' = g /\ Goto(g, "manual")
    BY <1>22, <2>1 DEF ManualStart
  <2>2. CASE UNCHANGED <<global, pc>>
    BY <1>22, <2>2 DEF ManualStart
  <2> QED
    BY <1>22, <2>1, <2>2 DEF ManualStart
<1>23. ASSUME NEW g \in Gui, UnreadableTicket(g)
       PROVE  PathEffect
  BY <1>23 DEF UnreadableTicket
<1>24. ASSUME NEW g \in Gui, CleanupTakesGlobal(g)
       PROVE  PathEffect
  BY <1>24 DEF CleanupTakesGlobal
<1>25. ASSUME NEW g \in Gui, NEW s \in Schedule, CleanupTakesSchedule(g, s)
       PROVE  PathEffect
  BY <1>25 DEF CleanupTakesSchedule
<1>26. ASSUME NEW c \in Cli, OneShotStart(c)
       PROVE  PathEffect
  BY <1>26 DEF OneShotStart
<1>27. ASSUME NEW p \in Gui \cup Cli, OtherEnds(p)
       PROVE  PathEffect
  BY <1>27 DEF OtherEnds, DropRunGuards
<1>28. ASSUME NEW p \in Proc, Crash(p)
       PROVE  PathEffect
  BY <1>28 DEF Crash, DropRunGuards
<1>29. ASSUME UNCHANGED vars
       PROVE  PathEffect
  BY <1>29 DEF vars
<1> QED
  BY <1>1, <1>2, <1>3, <1>4, <1>5, <1>6, <1>7, <1>8, <1>9, <1>10,
     <1>11, <1>12, <1>13, <1>14, <1>15, <1>16, <1>17, <1>18, <1>19,
     <1>20, <1>21, <1>22, <1>23, <1>24, <1>25, <1>26, <1>27, <1>28,
     <1>29
     DEF Next, RunStepOf

-----------------------------------------------------------------------------
(* What follows from the effects of a step *)

\* A step preserves what the queue promises about schedules and active tickets.
LEMMA TicketStep ==
  ASSUME TypeOK, OneTicketPerSchedule, AtMostOneServed, QueueEffect
  PROVE  OneTicketPerSchedule' /\ AtMostOneServed'
<1> USE DispatcherAssumption
    DEF OneTicketPerSchedule, AtMostOneServed, Active
<1>1. CASE Calm
  BY <1>1 DEF Calm
<1>2. ASSUME NEW r \in Run, Joins(r)
      PROVE  OneTicketPerSchedule' /\ AtMostOneServed'
  BY <1>2 DEF Joins
<1>3. ASSUME NEW t \in Run, Starts(t)
      PROVE  OneTicketPerSchedule' /\ AtMostOneServed'
  BY <1>3 DEF Starts
<1>4. ASSUME NEW t, Leaves(t)
      PROVE  OneTicketPerSchedule' /\ AtMostOneServed'
  BY <1>4 DEF Leaves
<1> QED
  BY <1>1, <1>2, <1>3, <1>4 DEF QueueEffect

\* A step preserves the order of the queue.
LEMMA ArrivalStep ==
  ASSUME TypeOK, WorkOK, ArrivalOK, QueueEffect, PathEffect, TypeOK', WorkOK'
  PROVE  ArrivalOK'
<1>1. \A t \in Run : arrival[t] \in Nat /\ arrivals \in Nat
  BY DEF TypeOK
<1>2. ASSUME UNCHANGED historyVars,
             \A t \in Run : state'[t] # "absent" =>
               state[t] # "absent" /\ order'[t] = order[t]
      PROVE  ArrivalOK'
  BY <1>1, <1>2 DEF ArrivalOK, PathEffect, WorkOK, Serving, historyVars
<1>3. ASSUME NEW r \in Run, Joins(r)
      PROVE  ArrivalOK'
  <2>1. /\ arrival'[r] = arrivals + 1 /\ arrivals' = arrivals + 1
        /\ \A t \in Run \ {r} : arrival'[t] = arrival[t]
    BY <1>3 DEF Joins, TypeOK
  <2>2. \A t \in Run : arrival'[t] <= arrivals'
    BY <1>1, <2>1 DEF ArrivalOK
  <2>3. \A t \in Run : pc'[t] \in {"idle", "enqueue"} => arrival'[t] = 0
    BY <1>3, <2>1 DEF ArrivalOK, PathEffect, Joins
  <2>4. \A t \in Run : state'[t] # "absent" => arrival'[t] > 0
    BY <1>1, <1>3, <2>1 DEF ArrivalOK, Joins
  <2>5. \A t, u \in Run :
          state'[t] # "absent" /\ state'[u] # "absent" /\ arrival'[t] < arrival'[u]
            => order'[t] < order'[u]
    BY <1>1, <1>3, <2>1 DEF ArrivalOK, Joins
  <2>6. \A q \in Run : pc'[q] \in Serving \cup {"turn"} => arrival'[cur'[q]] > 0
    BY <1>1, <1>3, <2>1 DEF ArrivalOK, PathEffect, WorkOK, Serving
  <2> QED
    BY <2>2, <2>3, <2>4, <2>5, <2>6 DEF ArrivalOK, At
<1>4. CASE Calm
  BY <1>2, <1>4 DEF Calm
<1>5. ASSUME NEW t \in Run, Starts(t)
      PROVE  ArrivalOK'
  BY <1>2, <1>5 DEF Starts
<1>6. ASSUME NEW t, Leaves(t)
      PROVE  ArrivalOK'
  BY <1>2, <1>6 DEF Leaves
<1> QED
  BY <1>3, <1>4, <1>5, <1>6 DEF QueueEffect

\* A step preserves the order of service.
LEMMA ServiceStep ==
  ASSUME TypeOK, WorkOK, ArrivalOK, OldestServedFirst, QueueEffect, PathEffect
  PROVE  OldestServedFirst'
<1> SUFFICES ASSUME NEW r \in Run, NEW u \in Run,
                    pc'[r] \in Serving, state'[cur'[r]] # "absent",
                    state'[u] # "absent"
             PROVE  arrival'[cur'[r]] <= arrival'[u]
  BY DEF OldestServedFirst
<1>1. /\ cur'[r] = cur[r] /\ cur[r] \in Run
      /\ pc[r] \in Serving \/ (pc[r] = "turn" /\ Oldest(cur[r]))
  BY DEF PathEffect, WorkOK
<1>2. \A t \in Run : arrival[t] \in Nat /\ order[t] \in Nat
  BY DispatcherAssumption DEF TypeOK, QueueTypeOK, Ticket
<1>3. state[cur[r]] # "absent" /\ state[u] # "absent" => arrival[cur[r]] <= arrival[u]
  <2>1. CASE pc[r] \in Serving
    BY <1>1, <2>1 DEF OldestServedFirst
  <2>2. CASE Oldest(cur[r])
    BY <1>1, <1>2, <2>2 DEF Oldest, ArrivalOK
  <2> QED
    BY <1>1, <2>1, <2>2
<1>4. ASSUME UNCHANGED historyVars,
             \A t \in Run : state'[t] # "absent" => state[t] # "absent"
      PROVE  arrival'[cur'[r]] <= arrival'[u]
  BY <1>1, <1>3, <1>4 DEF historyVars
<1>5. ASSUME NEW q \in Run, Joins(q)
      PROVE  arrival'[cur'[r]] <= arrival'[u]
  <2>1. arrival[cur[r]] > 0 /\ arrival[q] = 0
    BY <1>1, <1>5 DEF ArrivalOK, Joins
  <2>2. cur[r] # q
    BY <1>2, <2>1
  <2>3. arrival'[cur[r]] = arrival[cur[r]] /\ state[cur[r]] # "absent"
    BY <1>1, <1>5, <2>2 DEF Joins, TypeOK
  <2>4. CASE u = q
    <3>1. arrival \in [Run -> Nat] /\ arrivals \in Nat
      BY DEF TypeOK
    <3>2. arrival'[q] = arrivals + 1
      BY <1>5, <3>1 DEF Joins
    <3>3. arrival[cur[r]] <= arrivals
      BY <1>1 DEF ArrivalOK
    <3> QED
      BY <1>1, <1>2, <2>3, <2>4, <3>1, <3>2, <3>3
  <2>5. CASE u # q
    BY <1>1, <1>3, <1>5, <2>3, <2>5 DEF Joins, TypeOK
  <2> QED
    BY <2>4, <2>5
<1>6. CASE Calm
  BY <1>4, <1>6 DEF Calm
<1>7. ASSUME NEW t \in Run, Starts(t)
      PROVE  arrival'[cur'[r]] <= arrival'[u]
  BY <1>4, <1>7 DEF Starts
<1>8. ASSUME NEW t, Leaves(t)
      PROVE  arrival'[cur'[r]] <= arrival'[u]
  BY <1>4, <1>8 DEF Leaves
<1> QED
  BY <1>5, <1>6, <1>7, <1>8 DEF QueueEffect

\* A step preserves that results are in the history before tickets go.
LEMMA RecordStep ==
  ASSUME TypeOK, WorkOK, RecordOK, QueueEffect, PathEffect, TypeOK'
  PROVE  RecordOK'
<1>1. faults \in Nat /\ faults' \in Nat /\ faults <= faults'
  BY DispatcherAssumption DEF TypeOK, PathEffect
<1>2. \A r \in Run :
        /\ faults' = 0 /\ pc'[r] \in {"notify", "release", "complete"}
             => records'[cur'[r]] # <<>>
        /\ pc'[r] = "abort" => faults' > 0
  BY <1>1 DEF RecordOK, PathEffect, WorkOK, At
<1>3. ASSUME UNCHANGED historyVars, faults' = 0, NEW t \in Run,
             arrival'[t] > 0, state'[t] = "absent",
             state[t] = "absent"
      PROVE  records'[t] # <<>>
  <2>1. arrival'[t] = arrival[t] /\ faults = 0
    BY <1>1, <1>3 DEF historyVars
  <2>2. records[t] # <<>>
    BY <1>3, <2>1 DEF RecordOK, RecordedBeforeRemoved
  <2> QED
    BY <2>2 DEF PathEffect
<1>4. ASSUME Calm
      PROVE  RecordedBeforeRemoved'
  BY <1>3, <1>4 DEF RecordedBeforeRemoved, Calm
<1>5. ASSUME NEW r \in Run, Joins(r)
      PROVE  RecordedBeforeRemoved'
  <2> SUFFICES ASSUME NEW t \in Run, faults' = 0, arrival'[t] > 0,
                      state'[t] = "absent"
               PROVE  records'[t] # <<>>
    BY DEF RecordedBeforeRemoved
  <2>1. t # r /\ state[t] = "absent" /\ arrival'[t] = arrival[t]
    BY <1>5 DEF Joins, TypeOK
  <2> QED
    BY <1>1, <2>1 DEF RecordOK, RecordedBeforeRemoved, PathEffect
<1>6. ASSUME NEW t \in Run, Starts(t)
      PROVE  RecordedBeforeRemoved'
  BY <1>3, <1>6 DEF RecordedBeforeRemoved, Starts
<1>7. ASSUME NEW r \in Run, pc[r] \in {"complete", "abort"}, Leaves(cur[r])
      PROVE  RecordedBeforeRemoved'
  <2> SUFFICES ASSUME NEW t \in Run, faults' = 0, arrival'[t] > 0,
                      state'[t] = "absent"
               PROVE  records'[t] # <<>>
    BY DEF RecordedBeforeRemoved
  <2>1. CASE t = cur[r]
    BY <1>1, <1>7, <2>1 DEF RecordOK, PathEffect, At
  <2>2. CASE t # cur[r]
    BY <1>3, <1>7, <2>2 DEF Leaves
  <2> QED
    BY <2>1, <2>2
<1>8. ASSUME faults' > 0
      PROVE  RecordedBeforeRemoved'
  BY <1>1, <1>8 DEF RecordedBeforeRemoved
<1> QED
  BY <1>2, <1>4, <1>5, <1>6, <1>7, <1>8 DEF QueueEffect, RecordOK, At

-----------------------------------------------------------------------------
(* How often a request is executed, recorded and notified *)

\* Nothing happens to process q.
Still(q) == pc'[q] = pc[q] /\ cur'[q] = cur[q] /\ (lease' = q <=> lease = q)

\* Nothing is executed, recorded or notified.
Quiet ==
  \A t \in Run :
    ran'[t] = ran[t] /\ Len(records'[t]) = Len(records[t]) /\ notified'[t] = notified[t]

\* Process r does not work on a ticket, or no longer: because something failed,
\* or because the ticket is gone.
Rests(r) ==
  /\ Quiet
  /\ pc'[r] \notin Work
  /\ \/ pc[r] \notin Work
     \/ Failures' > Failures
     \/ pc[r] \in {"complete", "abort"} /\ state'[cur[r]] = "absent"

\* The dispatcher claims a ticket.
Picks(r) ==
  /\ Quiet
  /\ pc[r] = "claim" /\ pc'[r] = "turn"
  /\ cur'[r] \in Run /\ state[cur'[r]] # "absent"
  /\ lease' = r <=> lease = r

\* A process refuses its own request.
Refuses(r) ==
  /\ Quiet
  /\ pc[r] \in {"idle", "enqueue"} /\ pc'[r] = "record"
  /\ cur'[r] = r
  /\ lease' = r <=> lease = r

\* Work that neither executes nor records nor notifies.
Proceeds(r) ==
  /\ Quiet
  /\ cur'[r] = cur[r]
  /\ lease' = r <=> lease = r
  /\ \/ pc[r] \in Early /\ pc'[r] \in Early \cup {"record"}
     \/ pc[r] \in {"run", "retry"} /\ pc'[r] \in {"run", "retry", "record"}
     \/ pc[r] = "release" /\ pc'[r] = "complete"
     \/ pc[r] \in Early /\ pc'[r] = "abort" /\ Failures' > Failures

Executes(r) ==
  /\ pc[r] = "schedule" /\ pc'[r] = "run"
  /\ cur'[r] = cur[r]
  /\ lease' = r <=> lease = r
  /\ ran'[cur[r]] = ran[cur[r]] + 1
  /\ \A t \in Run \ {cur[r]} : ran'[t] = ran[t]
  /\ UNCHANGED <<records, notified>>

Writes(r) ==
  /\ pc[r] = "record" /\ pc'[r] = "notify"
  /\ cur'[r] = cur[r]
  /\ lease' = r <=> lease = r
  /\ Len(records'[cur[r]]) \in {Len(records[cur[r]]), Len(records[cur[r]]) + 1}
  /\ \A t \in Run \ {cur[r]} : records'[t] = records[t]
  /\ UNCHANGED <<ran, notified>>

Tells(r) ==
  /\ pc[r] = "notify"
  /\ lease' = r <=> lease = r
  /\ \/ lease = r /\ pc'[r] = "release" /\ cur'[r] = cur[r]
     \/ lease # r /\ pc'[r] = "done"
  /\ notified'[cur[r]] = notified[cur[r]] + 1
  /\ \A t \in Run \ {cur[r]} : notified'[t] = notified[t]
  /\ UNCHANGED <<ran, records>>

\* What a step may do to the work of a process and to what it counts.
WorkEffect(r) ==
  \/ Rests(r)    \/ Picks(r)  \/ Refuses(r) \/ Proceeds(r)
  \/ Executes(r) \/ Writes(r) \/ Tells(r)

CountEffect ==
  /\ Failures <= Failures'
  /\ \/ Quiet /\ \A q \in Run : Still(q)
     \/ \E r \in Run : WorkEffect(r) /\ \A q \in Run \ {r} : Still(q)

\* The sum of two natural numbers is one.
LEMMA SumNat == \A x, y \in Nat : x + y \in Nat
OBVIOUS

\* Append makes a sequence longer by one.
LEMMA AppendLonger ==
  ASSUME NEW S, NEW s \in Seq(S), NEW e \in S
  PROVE  Len(Append(s, e)) = Len(s) + 1
BY AppendProperties

\* Every step has one of these effects on the work of the processes.
LEMMA CountFrame ==
  ASSUME TypeOK, GuardsOK, WorkOK, QueueEffect, [Next]_vars
  PROVE  CountEffect
<1> USE QueueAssumption, DispatcherAssumption
    DEF WorkOK, Serving, TypeOK, Proc, RunStep, OtherStep, queueVars, procVars,
        guardVars, logVars, historyVars, boundVars, Goto, At, Conclude, NoFault,
        Fault, Still, Quiet, Failures, Work, Early, Late
<1>0. /\ \A r \in Run : pc[r] = "exit" => lease = r
      /\ crashes \in Nat /\ faults \in Nat
  BY DEF GuardsOK, AsDispatcher
<1> HIDE DEF Quiet
<1>1. ASSUME NEW r \in Run, Launch(r)
      PROVE  CountEffect
  <2>2. CASE Goto(r, "enqueue") /\ UNCHANGED <<cur, verdict>>
    <3>1. /\ Failures <= Failures' /\ \A q \in Run \ {r} : Still(q)
          /\ Rests(r)
      BY <1>0, <1>1, <2>2 DEF Launch, Rests, Quiet
    <3> QED
      BY <3>1 DEF CountEffect, WorkEffect
  <2>3. CASE Conclude(r, r, "config_invalid")
    <3>1. /\ Failures <= Failures' /\ \A q \in Run \ {r} : Still(q)
          /\ Refuses(r)
      BY <1>0, <1>1, <2>3 DEF Launch, Refuses, Quiet
    <3> QED
      BY <3>1 DEF CountEffect, WorkEffect
  <2> QED
    BY <1>1, <2>2, <2>3 DEF Launch
<1>2. ASSUME NEW r \in Run, Enqueue(r)
      PROVE  CountEffect
  <2>2. CASE Goto(r, "lease") /\ UNCHANGED <<cur, verdict>>
    <3>1. /\ Failures <= Failures' /\ \A q \in Run \ {r} : Still(q)
          /\ Rests(r)
      BY <1>0, <1>2, <2>2 DEF Enqueue, Rests, Quiet
    <3> QED
      BY <3>1 DEF CountEffect, WorkEffect
  <2>3. CASE Conclude(r, r, "busy")
    <3>1. /\ Failures <= Failures' /\ \A q \in Run \ {r} : Still(q)
          /\ Refuses(r)
      BY <1>0, <1>2, <2>3 DEF Enqueue, Refuses, Quiet
    <3> QED
      BY <3>1 DEF CountEffect, WorkEffect
  <2> QED
    BY <1>2, <2>2, <2>3 DEF Enqueue
<1>3. ASSUME NEW r \in Run, EnqueueFails(r)
      PROVE  CountEffect
  <2>1. /\ Failures <= Failures' /\ \A q \in Run \ {r} : Still(q)
        /\ Refuses(r)
    BY <1>0, <1>3 DEF EnqueueFails, Refuses, Quiet
  <2> QED
    BY <2>1 DEF CountEffect, WorkEffect
<1>4. ASSUME NEW r \in Run, TakeLease(r)
      PROVE  CountEffect
  <2>1. /\ Failures <= Failures' /\ \A q \in Run \ {r} : Still(q)
        /\ Rests(r)
    BY <1>0, <1>4 DEF TakeLease, Rests, Quiet
  <2> QED
    BY <2>1 DEF CountEffect, WorkEffect
<1>5. ASSUME NEW r \in Run, LeaveToDispatcher(r)
      PROVE  CountEffect
  <2>1. /\ Failures <= Failures' /\ \A q \in Run \ {r} : Still(q)
        /\ Rests(r)
    BY <1>0, <1>5 DEF LeaveToDispatcher, Rests, Quiet
  <2> QED
    BY <2>1 DEF CountEffect, WorkEffect
<1>6. ASSUME NEW r \in Run, Claim(r)
      PROVE  CountEffect
  <2>2. CASE Goto(r, "exit") /\ UNCHANGED cur
    <3>1. /\ Failures <= Failures' /\ \A q \in Run \ {r} : Still(q)
          /\ Rests(r)
      BY <1>0, <1>6, <2>2 DEF Claim, Rests, Quiet
    <3> QED
      BY <3>1 DEF CountEffect, WorkEffect
  <2>3. ASSUME NEW t \in Run, ClaimNext(r, t), cur' = [cur EXCEPT ![r] = t],
               Goto(r, "turn")
        PROVE  CountEffect
    <3>1. state[t] # "absent"
      BY <2>3, ReadKeeps DEF ClaimNext, Claimable
    <3>2. /\ Failures <= Failures' /\ \A q \in Run \ {r} : Still(q)
          /\ Picks(r)
      BY <1>0, <1>6, <2>3, <3>1 DEF Claim, Picks, Quiet
    <3> QED
      BY <3>2 DEF CountEffect, WorkEffect
  <2> QED
    BY <1>6, <2>2, <2>3 DEF Claim
<1>7. ASSUME NEW r \in Run, ClaimFails(r)
      PROVE  CountEffect
  <2>1. /\ Failures <= Failures' /\ \A q \in Run \ {r} : Still(q)
        /\ Rests(r)
    BY <1>0, <1>7 DEF ClaimFails, Rests, Quiet
  <2> QED
    BY <2>1 DEF CountEffect, WorkEffect
<1>8. ASSUME NEW r \in Run, Turn(r)
      PROVE  CountEffect
  <2>1. /\ Failures <= Failures' /\ \A q \in Run \ {r} : Still(q)
        /\ Proceeds(r)
    BY <1>0, <1>8 DEF Turn, Proceeds, Quiet
  <2> QED
    BY <2>1 DEF CountEffect, WorkEffect
<1>9. ASSUME NEW r \in Run, TurnTimesOut(r)
      PROVE  CountEffect
  <2>1. /\ Failures <= Failures' /\ \A q \in Run \ {r} : Still(q)
        /\ Proceeds(r)
    BY <1>0, <1>9 DEF TurnTimesOut, Proceeds, Quiet
  <2> QED
    BY <2>1 DEF CountEffect, WorkEffect
<1>10. ASSUME NEW r \in Run, TurnFails(r)
       PROVE  CountEffect
  <2>1. /\ Failures <= Failures' /\ \A q \in Run \ {r} : Still(q)
        /\ Proceeds(r)
    BY <1>0, <1>10 DEF TurnFails, Proceeds, Quiet
  <2> QED
    BY <2>1 DEF CountEffect, WorkEffect
<1>11. ASSUME NEW r \in Run, Load(r)
       PROVE  CountEffect
  <2>1. /\ pc[r] = "load" /\ Quiet /\ UNCHANGED lease
        /\ Failures <= Failures' /\ \A q \in Run \ {r} : Still(q)
    BY SMTT(30), <1>0, <1>11 DEF Load, Quiet
  <2>2. pc'[r] \in {"schedule", "record"} /\ cur'[r] = cur[r]
    BY <1>11 DEF Load
  <2>3. Proceeds(r)
    BY <2>1, <2>2 DEF Proceeds
  <2> QED
    BY <2>1, <2>3 DEF CountEffect, WorkEffect
<1>12. ASSUME NEW r \in Run, TakeSchedule(r)
       PROVE  CountEffect
  <2>1. /\ Failures <= Failures' /\ \A q \in Run \ {r} : Still(q)
        /\ Executes(r)
    BY <1>0, <1>12 DEF TakeSchedule, Executes, Quiet
  <2> QED
    BY <2>1 DEF CountEffect, WorkEffect
<1>13. ASSUME NEW r \in Run, ScheduleBusy(r)
       PROVE  CountEffect
  <2>1. /\ Failures <= Failures' /\ \A q \in Run \ {r} : Still(q)
        /\ Proceeds(r)
    BY <1>0, <1>13 DEF ScheduleBusy, Proceeds, Quiet
  <2> QED
    BY <2>1 DEF CountEffect, WorkEffect
<1>14. ASSUME NEW r \in Run, Finish(r)
       PROVE  CountEffect
  <2>1. /\ Failures <= Failures' /\ \A q \in Run \ {r} : Still(q)
        /\ Proceeds(r)
    BY <1>0, <1>14 DEF Finish, Proceeds, Quiet
  <2> QED
    BY <2>1 DEF CountEffect, WorkEffect
<1>15. ASSUME NEW r \in Run, WaitForRetry(r)
       PROVE  CountEffect
  <2>1. /\ Failures <= Failures' /\ \A q \in Run \ {r} : Still(q)
        /\ Proceeds(r)
    BY SMTT(30), <1>0, <1>15 DEF WaitForRetry, Proceeds, Quiet
  <2> QED
    BY <2>1 DEF CountEffect, WorkEffect
<1>16. ASSUME NEW r \in Run, RetryJob(r)
       PROVE  CountEffect
  <2>1. /\ Failures <= Failures' /\ \A q \in Run \ {r} : Still(q)
        /\ Proceeds(r)
    BY <1>0, <1>16 DEF RetryJob, Proceeds, Quiet
  <2> QED
    BY <2>1 DEF CountEffect, WorkEffect
<1>17. ASSUME NEW r \in Run, Record(r)
       PROVE  CountEffect
  <2>1. /\ At(r, "record") /\ Goto(r, "notify") /\ UNCHANGED cur
        /\ cur[r] \in Run /\ verdict[r] \in Result
    BY <1>17 DEF Record
  <2>2. /\ Failures <= Failures' /\ \A q \in Run \ {r} : Still(q)
    BY SMTT(30), <1>0, <1>17 DEF Record
  <2>3. /\ Len(records'[cur[r]]) \in {Len(records[cur[r]]), Len(records[cur[r]]) + 1}
        /\ \A t \in Run \ {cur[r]} : records'[t] = records[t]
    <3>1. CASE records' = [records EXCEPT ![cur[r]] = Append(@, verdict[r])]
      <4>1. records[cur[r]] \in Seq(Result) /\ verdict[r] \in Result
        BY <2>1
      <4>2. Len(Append(records[cur[r]], verdict[r])) = Len(records[cur[r]]) + 1
        BY ONLY <4>1, AppendLonger
      <4> QED
        BY <2>1, <3>1, <4>2
    <3>2. CASE UNCHANGED records
      BY <3>2
    <3> QED
      BY <1>17, <3>1, <3>2 DEF Record
  <2>4. Writes(r)
    BY <1>17, <2>1, <2>3 DEF Record, Writes
  <2> QED
    BY <2>2, <2>4 DEF CountEffect, WorkEffect
<1>18. ASSUME NEW r \in Run, Notify(r)
       PROVE  CountEffect
  <2>1. /\ Failures <= Failures' /\ \A q \in Run \ {r} : Still(q)
    BY SMTT(30), <1>0, <1>18 DEF Notify
  <2>2. /\ pc[r] = "notify" /\ cur[r] \in Run
        /\ UNCHANGED <<lease, ran, records>>
        /\ notified'[cur[r]] = notified[cur[r]] + 1
        /\ \A t \in Run \ {cur[r]} : notified'[t] = notified[t]
    BY <1>18 DEF Notify
  <2>3. \/ lease = r /\ pc'[r] = "release" /\ cur'[r] = cur[r]
        \/ lease # r /\ pc'[r] = "done"
    BY <1>18 DEF Notify
  <2>4. Tells(r)
    BY <2>2, <2>3 DEF Tells
  <2> QED
    BY <2>1, <2>4 DEF CountEffect, WorkEffect
<1>19. ASSUME NEW r \in Run, Release(r)
       PROVE  CountEffect
  <2>1. /\ Failures <= Failures' /\ \A q \in Run \ {r} : Still(q)
        /\ Proceeds(r)
    BY <1>0, <1>19 DEF Release, Proceeds, Quiet, DropRunGuards
  <2> QED
    BY <2>1 DEF CountEffect, WorkEffect
<1>20. ASSUME NEW r \in Run, Complete(r)
       PROVE  CountEffect
  <2>1. /\ Failures <= Failures' /\ \A q \in Run \ {r} : Still(q)
        /\ Quiet /\ pc'[r] \notin Work /\ pc[r] \in {"complete", "abort"}
    BY <1>0, <1>20 DEF Complete, Quiet
  <2>2. state'[cur[r]] = "absent" \/ Failures' > Failures
    BY SMTT(30), <1>0, <1>20 DEF Complete, Delete, QueueTypeOK, Ticket
  <2> QED
    BY <2>1, <2>2 DEF CountEffect, WorkEffect, Rests
<1>21. ASSUME NEW r \in Run, Exit(r)
       PROVE  CountEffect
  <2>1. /\ Failures <= Failures' /\ \A q \in Run \ {r} : Still(q)
        /\ Rests(r)
    BY <1>0, <1>21 DEF Exit, Rests, Quiet
  <2> QED
    BY <2>1 DEF CountEffect, WorkEffect
<1>22. ASSUME NEW g \in Gui, ManualStart(g)
       PROVE  CountEffect
  BY <1>0, <1>22 DEF ManualStart, CountEffect, Quiet
<1>23. ASSUME NEW g \in Gui, UnreadableTicket(g)
       PROVE  CountEffect
  BY <1>0, <1>23 DEF UnreadableTicket, CountEffect, Quiet
<1>24. ASSUME NEW g \in Gui, CleanupTakesGlobal(g)
       PROVE  CountEffect
  BY <1>0, <1>24 DEF CleanupTakesGlobal, CountEffect, Quiet
<1>25. ASSUME NEW g \in Gui, NEW s \in Schedule, CleanupTakesSchedule(g, s)
       PROVE  CountEffect
  BY <1>0, <1>25 DEF CleanupTakesSchedule, CountEffect, Quiet
<1>26. ASSUME NEW c \in Cli, OneShotStart(c)
       PROVE  CountEffect
  BY <1>0, <1>26 DEF OneShotStart, CountEffect, Quiet
<1>27. ASSUME NEW p \in Gui \cup Cli, OtherEnds(p)
       PROVE  CountEffect
  BY <1>0, <1>27 DEF OtherEnds, DropRunGuards, CountEffect, Quiet
<1>28. ASSUME NEW p \in Proc, Crash(p)
       PROVE  CountEffect
  <2>1. /\ Failures' > Failures /\ Failures <= Failures'
        /\ Quiet /\ pc[p] \in RunStep \cup OtherStep
    BY <1>0, <1>28 DEF Crash, Quiet
  <2>2. /\ pc' = [pc EXCEPT ![p] = "crashed"]
        /\ cur' = [r \in Run |-> IF r = p THEN None ELSE cur[r]]
        /\ lease' = IF lease = p THEN None ELSE lease
    BY <1>28 DEF Crash
  <2>3. \A q \in Run \ {p} : Still(q)
    BY <2>2
  <2>4. CASE p \in Run
    <3>1. pc'[p] = "crashed"
      BY <2>2
    <3>2. Rests(p)
      BY <2>1, <3>1 DEF Rests
    <3> QED
      BY <2>1, <2>3, <2>4, <3>2 DEF CountEffect, WorkEffect
  <2>5. CASE p \notin Run
    <3>1. \A q \in Run : Still(q)
      BY <2>3, <2>5
    <3> QED
      BY <2>1, <3>1 DEF CountEffect
  <2> QED
    BY <2>4, <2>5
<1>29. ASSUME UNCHANGED vars
       PROVE  CountEffect
  BY <1>0, <1>29 DEF vars, CountEffect, Quiet
<1> QED
  BY <1>1, <1>2, <1>3, <1>4, <1>5, <1>6, <1>7, <1>8, <1>9, <1>10,
     <1>11, <1>12, <1>13, <1>14, <1>15, <1>16, <1>17, <1>18, <1>19,
     <1>20, <1>21, <1>22, <1>23, <1>24, <1>25, <1>26, <1>27, <1>28,
     <1>29
     DEF Next, RunStepOf

\* A process that works on a ticket works on it alone.
LEMMA AloneOnTicket ==
  ASSUME LinkOK, NEW q \in Run, NEW r \in Run,
         pc[q] \in Work, pc[r] \in Work, cur[q] = cur[r]
  PROVE  q = r
<1>1. CASE lease = q /\ lease = r
  BY <1>1
<1>2. CASE lease # q /\ lease # r
  BY <1>2 DEF LinkOK
<1>3. CASE lease = q /\ lease # r
  <2>1. arrival[cur[q]] > 0 /\ arrival[cur[r]] = 0
    BY <1>3 DEF LinkOK
  <2> QED
    BY <2>1
<1>4. CASE lease # q /\ lease = r
  <2>1. arrival[cur[r]] > 0 /\ arrival[cur[q]] = 0
    BY <1>4 DEF LinkOK
  <2> QED
    BY <2>1
<1> QED
  BY <1>1, <1>2, <1>3, <1>4

\* What the steps of the queue mean for a ticket: it enters the queue once.
LEMMA TicketPath ==
  ASSUME TypeOK, ArrivalOK, QueueEffect, PathEffect
  PROVE  \A t \in Run :
           /\ arrival'[t] = arrival[t]
                \/ (pc[t] = "enqueue" /\ pc'[t] = "lease" /\ arrival'[t] > 0)
           /\ arrival[t] > 0 => arrival'[t] > 0
           /\ Open(t)' => Open(t)
<1> USE DEF TypeOK, Open
<1>1. \A t \in Run : pc'[t] \in {"idle", "enqueue"} => pc[t] \in {"idle", "enqueue"}
  BY DEF PathEffect
<1>2. ASSUME UNCHANGED historyVars,
             \A t \in Run : state'[t] # "absent" => state[t] # "absent"
      PROVE  \A t \in Run : arrival'[t] = arrival[t] /\ (Open(t)' => Open(t))
  BY <1>1, <1>2 DEF historyVars
<1>3. CASE Calm
  BY <1>2, <1>3 DEF Calm
<1>4. ASSUME NEW r \in Run, Joins(r)
      PROVE  \A t \in Run :
               /\ arrival'[t] = arrival[t]
                    \/ (pc[t] = "enqueue" /\ pc'[t] = "lease" /\ arrival'[t] > 0)
               /\ arrival[t] > 0 => arrival'[t] > 0
               /\ Open(t)' => Open(t)
  <2>1. /\ pc[r] = "enqueue" /\ pc'[r] = "lease"
        /\ arrival'[r] = arrivals + 1
        /\ \A t \in Run \ {r} : /\ arrival'[t] = arrival[t]
                                /\ state'[t] = "absent" <=> state[t] = "absent"
    BY <1>4 DEF Joins
  <2> QED
    BY SMTT(30), <1>1, <2>1
<1>5. ASSUME NEW t \in Run, Starts(t)
      PROVE  \A u \in Run : arrival'[u] = arrival[u] /\ (Open(u)' => Open(u))
  BY <1>2, <1>5 DEF Starts
<1>6. ASSUME NEW t, Leaves(t)
      PROVE  \A u \in Run : arrival'[u] = arrival[u] /\ (Open(u)' => Open(u))
  BY <1>2, <1>6 DEF Leaves
<1> QED
  BY <1>3, <1>4, <1>5, <1>6 DEF QueueEffect

\* The dispatcher keeps to tickets of the queue.
LEMMA LinkStep ==
  ASSUME TypeOK, GuardsOK, WorkOK, ArrivalOK, LinkOK, QueueEffect, PathEffect,
         CountEffect
  PROVE  LinkOK'
<1>1. \A t \in Run :
        /\ arrival'[t] = arrival[t]
             \/ (pc[t] = "enqueue" /\ pc'[t] = "lease" /\ arrival'[t] > 0)
        /\ arrival[t] > 0 => arrival'[t] > 0
  BY TicketPath
<1>2. \A r \in Run : pc[r] \in Work => cur[r] \in Run
  BY DEF WorkOK, Work, Early, Late, Serving
<1> DEFINE Linked(q) ==
      /\ pc'[q] \in Work /\ lease' = q => arrival'[cur'[q]] > 0
      /\ pc'[q] \in Work /\ lease' # q =>
           pc'[q] \in {"record", "notify"} /\ cur'[q] = q /\ arrival'[q] = 0
<1>3. ASSUME NEW q \in Run, pc[q] \in Work, cur'[q] = cur[q],
             lease' = q <=> lease = q,
             pc[q] \in {"record", "notify"} =>
               pc'[q] \in {"record", "notify", "release"},
             pc'[q] = "release" => lease = q
      PROVE  Linked(q)
  <2>1. CASE lease = q
    BY <1>1, <1>2, <1>3, <2>1 DEF LinkOK
  <2>2. CASE lease # q
    BY <1>1, <1>3, <2>2 DEF LinkOK
  <2> QED
    BY <2>1, <2>2
<1>4. ASSUME NEW q \in Run, Still(q)
      PROVE  Linked(q)
  <2>1. CASE pc[q] \in Work
    BY <1>3, <1>4, <2>1 DEF Still, LinkOK, Work, Early, Late
  <2>2. CASE pc[q] \notin Work
    BY <1>4, <2>2 DEF Still
  <2> QED
    BY <2>1, <2>2
<1>5. ASSUME NEW r \in Run, WorkEffect(r)
      PROVE  Linked(r)
  <2>1. CASE Rests(r)
    BY <2>1 DEF Rests
  <2>2. CASE Picks(r)
    <3>1. lease' = r
      BY <2>2 DEF Picks, GuardsOK, AsDispatcher
    <3>2. arrival[cur'[r]] > 0 /\ cur'[r] \in Run
      BY <2>2 DEF Picks, ArrivalOK
    <3> QED
      BY <1>1, <3>1, <3>2
  <2>3. CASE Refuses(r)
    <3>1. lease' # r
      BY <2>3, DispatcherAssumption
         DEF Refuses, GuardsOK, GuardsAccountedFor, Serving, Proc
    <3>2. arrival'[r] = 0
      BY <1>1, <2>3 DEF Refuses, ArrivalOK
    <3> QED
      BY <2>3, <3>1, <3>2 DEF Refuses
  <2>4. CASE Proceeds(r) \/ Executes(r)
    BY <1>3, <2>4 DEF Proceeds, Executes, Work, Early, Late
  <2>5. CASE Writes(r)
    BY <1>3, <2>5 DEF Writes, Work, Early, Late
  <2>6. CASE Tells(r)
    BY <1>3, <2>6 DEF Tells, Work, Early, Late
  <2> QED
    BY <1>5, <2>1, <2>2, <2>3, <2>4, <2>5, <2>6 DEF WorkEffect
<1>6. \A q \in Run : Linked(q)
  BY <1>4, <1>5 DEF CountEffect
<1> QED
  BY <1>6 DEF LinkOK

\* A step preserves the counts.
LEMMA CountStep ==
  ASSUME TypeOK, GuardsOK, WorkOK, ArrivalOK, LinkOK, CountOK,
         QueueEffect, PathEffect, CountEffect, TypeOK'
  PROVE  CountOK'
<1>1. /\ Failures \in Nat /\ Failures' \in Nat /\ Failures <= Failures'
      /\ \A t \in Run :
           ran[t] \in Nat /\ Len(records[t]) \in Nat /\ notified[t] \in Nat
  <2>1. \A t \in Run : records[t] \in Seq(Result)
    BY DEF TypeOK
  <2>2. /\ crashes \in Nat /\ faults \in Nat
        /\ crashes' \in Nat /\ faults' \in Nat
    BY DispatcherAssumption DEF TypeOK
  <2>3. \A t \in Run : Len(records[t]) \in Nat
    BY <2>1, LenProperties
  <2>4. \A t \in Run : ran[t] \in Nat /\ notified[t] \in Nat
    BY DEF TypeOK
  <2>5. Failures \in Nat /\ Failures' \in Nat
    BY <2>2, SumNat DEF Failures
  <2>6. Failures <= Failures'
    BY DEF CountEffect
  <2> QED
    BY <2>3, <2>4, <2>5, <2>6
<1>2. \A r \in Run : pc[r] \in Work => cur[r] \in Run
  BY DEF WorkOK, Work, Early, Late, Serving
<1>3. \A t \in Run : Open(t)' => Open(t)
  BY TicketPath
<1>4. \A t \in Run : \A r \in Run :
        pc[r] \in {"complete", "abort"} /\ t = cur[r] /\ state'[t] = "absent"
          => ~Open(t)'
  <2> SUFFICES ASSUME NEW r \in Run, pc[r] \in {"complete", "abort"},
                      state'[cur[r]] = "absent", NEW t \in Run, t = cur[r]
               PROVE  pc'[t] \notin {"idle", "enqueue"}
    BY DEF Open
  <2>1. arrival[t] > 0
    BY DEF LinkOK, Work, Early, Late
  <2>2. pc[t] \notin {"idle", "enqueue"}
    BY <2>1 DEF ArrivalOK
  <2> QED
    BY <2>2 DEF PathEffect
<1> DEFINE
      After(t, n) ==
        /\ ran'[t] <= n + Failures'
        /\ Len(records'[t]) <= n + Failures'
        /\ notified'[t] <= n + Failures'
      LateAfter(t) == \E r \in Run : cur'[r] = t /\ pc'[r] \in Late
      Counted(t) == After(t, 1) /\ (Open(t)' /\ ~LateAfter(t) => After(t, 0))
      Budget(r) ==
        /\ pc'[r] \in Early => After(cur'[r], 0)
        /\ pc'[r] \in {"run", "retry", "record"} => Len(records'[cur'[r]]) <= Failures'
        /\ pc'[r] \in {"run", "retry", "record", "notify"} =>
             notified'[cur'[r]] <= Failures'
      Same(t) ==
        ran'[t] = ran[t] /\ Len(records'[t]) = Len(records[t]) /\ notified'[t] = notified[t]
<1>5. ASSUME NEW t \in Run, Same(t)
      PROVE  /\ After(t, 1)
             /\ Within(t, 0) => After(t, 0)
             /\ Failures' > Failures => After(t, 0)
  <2>1. Within(t, 1)
    BY DEF CountOK
  <2>2. ran[t] <= 1 + Failures /\ Len(records[t]) <= 1 + Failures /\ notified[t] <= 1 + Failures
    BY <2>1 DEF Within
  <2>3. After(t, 1)
    BY <1>1, <1>5, <2>2
  <2>4. ASSUME Within(t, 0) PROVE After(t, 0)
    <3>1. ran[t] <= Failures /\ Len(records[t]) <= Failures /\ notified[t] <= Failures
      BY <1>1, <2>4 DEF Within
    <3> QED
      BY <1>1, <1>5, <3>1
  <2>5. ASSUME Failures' > Failures PROVE After(t, 0)
    BY <1>1, <1>5, <2>2, <2>5
  <2> QED
    BY <2>3, <2>4, <2>5
<1>6. ASSUME NEW q \in Run, pc'[q] = pc[q], cur'[q] = cur[q],
             pc[q] \in Work => Same(cur[q])
      PROVE  Budget(q)
  <2>1. CASE pc[q] \in Work
    <3> DEFINE t == cur[q]
    <3>1. t \in Run /\ Same(t) /\ cur'[q] = t
      BY <1>2, <1>6, <2>1
    <3>2. pc[q] \in Early => Within(t, 0)
      BY DEF CountOK
    <3>3. /\ pc[q] \in {"run", "retry", "record"} => Len(records[t]) <= Failures
          /\ pc[q] \in {"run", "retry", "record", "notify"} => notified[t] <= Failures
      BY DEF CountOK
    <3>4. pc'[q] \in Early => After(t, 0)
      BY <1>5, <1>6, <3>1, <3>2
    <3>5. /\ pc'[q] \in {"run", "retry", "record"} => Len(records'[t]) <= Failures'
          /\ pc'[q] \in {"run", "retry", "record", "notify"} => notified'[t] <= Failures'
      BY <1>1, <1>6, <3>1, <3>3
    <3> QED
      BY <3>1, <3>4, <3>5
  <2>2. CASE pc[q] \notin Work
    BY <1>6, <2>2 DEF Work, Early, Late
  <2> QED
    BY <2>1, <2>2
<1>7. CASE Quiet /\ \A q \in Run : Still(q)
  <2>1. \A t \in Run : Same(t)
    BY <1>7 DEF Quiet
  <2>2. \A q \in Run : Budget(q)
    BY <1>2, <1>6, <1>7, <2>1 DEF Still
  <2>3. \A t \in Run : Counted(t)
    BY <1>3, <1>5, <1>7, <2>1 DEF CountOK, LateOn, Still
  <2> QED
    BY <2>2, <2>3 DEF CountOK, Within, LateOn
<1>8. ASSUME NEW r \in Run, WorkEffect(r), \A q \in Run \ {r} : Still(q)
      PROVE  CountOK'
  <2>1. \A q \in Run \ {r} : pc[q] \in Work /\ pc[r] \in Work => cur[q] # cur[r]
    BY AloneOnTicket
  <2>2. ASSUME \A t \in Run : Same(t) \/ (pc[r] \in Work /\ t = cur[r])
        PROVE  \A q \in Run \ {r} : Budget(q)
    BY <1>2, <1>6, <1>8, <2>1, <2>2 DEF Still
  <2>3. ASSUME NEW t \in Run, LateOn(t), pc[r] \in Late => cur[r] # t
        PROVE  LateAfter(t)
    BY <1>8, <2>3 DEF LateOn, Still
  <2>4. ASSUME NEW t \in Run, Same(t), pc[r] \in Late => cur[r] # t
        PROVE  Counted(t)
    BY <1>3, <1>5, <2>3, <2>4 DEF CountOK
  <2>5. ASSUME NEW t \in Run, After(t, 1), cur'[r] = t, pc'[r] \in Late
        PROVE  Counted(t)
    BY <2>5
  <2>6. ASSUME \A t \in Run : Counted(t), \A q \in Run : Budget(q)
        PROVE  CountOK'
    BY <2>6 DEF CountOK, Within, LateOn
  <2>7. CASE Executes(r)
    <3> DEFINE u == cur[r]
    <3>1. /\ cur'[r] = u /\ u \in Run /\ pc[r] = "schedule" /\ pc'[r] = "run"
          /\ ran'[u] = ran[u] + 1 /\ UNCHANGED <<records, notified>>
          /\ \A t \in Run \ {u} : Same(t)
      BY <1>2, <2>7 DEF Executes, Work, Early
    <3>2. Within(u, 0)
      BY <3>1 DEF CountOK, Early
    <3>3. ran[u] <= Failures /\ Len(records[u]) <= Failures /\ notified[u] <= Failures
      BY <1>1, <3>1, <3>2 DEF Within
    <3>4. After(u, 1) /\ Budget(r)
      BY <1>1, <3>1, <3>3 DEF Early
    <3>5. \A t \in Run : Counted(t)
      BY <2>4, <2>5, <3>1, <3>4 DEF Late
    <3> QED
      BY <2>2, <2>6, <3>1, <3>4, <3>5 DEF Work, Early
  <2>8. CASE Writes(r)
    <3> DEFINE u == cur[r]
    <3>1. /\ cur'[r] = u /\ u \in Run /\ pc[r] = "record" /\ pc'[r] = "notify"
          /\ Len(records'[u]) \in {Len(records[u]), Len(records[u]) + 1}
          /\ UNCHANGED <<ran, notified>>
          /\ \A t \in Run \ {u} : Same(t)
      BY <1>2, <2>8 DEF Writes, Work, Late
    <3>2. Len(records[u]) <= Failures /\ notified[u] <= Failures
      BY <3>1 DEF CountOK
    <3>3. ran[u] <= 1 + Failures
      BY <3>1 DEF CountOK, Within
    <3>4. After(u, 1) /\ Budget(r)
      BY SMTT(30), <1>1, <3>1, <3>2, <3>3 DEF Early
    <3>5. \A t \in Run : Counted(t)
      BY <2>4, <2>5, <3>1, <3>4 DEF Late
    <3> QED
      BY <2>2, <2>6, <3>1, <3>4, <3>5 DEF Work, Late
  <2>9. CASE Tells(r)
    <3> DEFINE u == cur[r]
    <3>1. /\ u \in Run /\ pc[r] = "notify"
          /\ notified'[u] = notified[u] + 1
          /\ UNCHANGED <<ran, records>>
          /\ \A t \in Run \ {u} : Same(t)
          /\ \/ pc'[r] = "release" /\ cur'[r] = u
             \/ lease # r /\ pc'[r] = "done"
      BY <1>2, <2>9 DEF Tells, Work, Late
    <3>2. notified[u] <= Failures
      BY <3>1 DEF CountOK
    <3>3. ran[u] <= 1 + Failures /\ Len(records[u]) <= 1 + Failures
      BY <3>1 DEF CountOK, Within
    <3>4. After(u, 1) /\ Budget(r)
      BY SMTT(30), <1>1, <3>1, <3>2, <3>3 DEF Early
    <3>5. ASSUME NEW t \in Run, t = cur[r]
          PROVE  Counted(t)
      <4>1. CASE pc'[r] = "release" /\ cur'[r] = u
        BY <2>5, <3>1, <3>4, <3>5, <4>1 DEF Late
      <4>2. CASE lease # r /\ pc'[r] = "done"
        <5>1. t = r /\ arrival[r] = 0
          BY <3>1, <3>5, <4>2 DEF LinkOK, Work, Late
        <5>2. ~Open(t)
          BY <3>1, <5>1 DEF Open, ArrivalOK
        <5>3. ~Open(t)'
          BY <1>3, <5>2
        <5>4. After(t, 1)
          BY <3>4, <3>5
        <5> QED
          BY <5>3, <5>4
      <4> QED
        BY <3>1, <4>1, <4>2
    <3>6. ASSUME NEW t \in Run
          PROVE  Counted(t)
      <4>1. CASE t = cur[r]
        BY <3>5, <4>1
      <4>2. CASE t # cur[r]
        BY <2>4, <3>1, <4>2
      <4> QED
        BY <4>1, <4>2
    <3> QED
      BY <2>2, <2>6, <3>1, <3>4, <3>6 DEF Work, Late
  <2>10. CASE Quiet
    <3>1. \A t \in Run : Same(t)
      BY <2>10 DEF Quiet
    <3>2. \A q \in Run \ {r} : Budget(q)
      BY <2>2, <3>1
    <3>3. CASE Rests(r)
      <4>1. Budget(r)
        BY <3>3 DEF Rests, Work, Early, Late
      <4>2. ASSUME NEW t \in Run, pc[r] \in Late, cur[r] = t
            PROVE  Counted(t)
        <5>1. CASE Failures' > Failures
          BY <1>5, <3>1, <5>1
        <5>2. CASE pc[r] \in {"complete", "abort"} /\ state'[cur[r]] = "absent"
          BY <1>4, <1>5, <3>1, <4>2, <5>2
        <5> QED
          BY <3>3, <4>2, <5>1, <5>2 DEF Rests, Work
      <4> QED
        BY <2>4, <2>6, <3>1, <3>2, <4>1, <4>2
    <3>4. CASE Picks(r)
      <4> DEFINE u == cur'[r]
      <4>1. /\ u \in Run /\ state[u] # "absent" /\ pc[r] = "claim" /\ pc'[r] = "turn"
            /\ lease = r
        BY <3>4 DEF Picks, GuardsOK, AsDispatcher
      <4>2. ~LateOn(u)
        <5> SUFFICES ASSUME NEW q \in Run, cur[q] = u, pc[q] \in Late
                     PROVE  FALSE
          BY DEF LateOn
        <5>1. lease # q
          BY <4>1 DEF Late
        <5>2. cur[q] = q /\ arrival[q] = 0
          BY <5>1 DEF LinkOK, Work
        <5> QED
          BY <4>1, <5>2 DEF ArrivalOK
      <4>3. Within(u, 0)
        BY <4>1, <4>2 DEF CountOK, Open
      <4>4. After(u, 0)
        BY <1>5, <3>1, <4>1, <4>3
      <4>5. Budget(r)
        BY <4>1, <4>4
      <4> QED
        BY <2>4, <2>6, <3>1, <3>2, <4>1, <4>5 DEF Late
    <3>5. CASE Refuses(r)
      <4>1. pc[r] \in {"idle", "enqueue"} /\ pc'[r] = "record" /\ cur'[r] = r
        BY <3>5 DEF Refuses
      <4>2. ~LateOn(r)
        <5> SUFFICES ASSUME NEW q \in Run, cur[q] = r, pc[q] \in Late
                     PROVE  FALSE
          BY DEF LateOn
        <5>1. arrival[r] = 0
          BY <4>1 DEF ArrivalOK
        <5>2. cur[q] = q
          BY <5>1 DEF LinkOK, Work
        <5> QED
          BY <4>1, <5>2 DEF Late
      <4>3. Within(r, 0)
        BY <4>1, <4>2 DEF CountOK, Open
      <4>4. After(r, 0)
        BY <1>5, <3>1, <4>3
      <4>5. Budget(r)
        BY <1>1, <4>1, <4>4 DEF Early
      <4> QED
        BY <2>4, <2>6, <3>1, <3>2, <4>1, <4>5 DEF Late
    <3>6. CASE Proceeds(r)
      <4> DEFINE u == cur[r]
      <4>1. cur'[r] = u /\ pc[r] \in Work /\ u \in Run /\ Same(u)
        BY <1>2, <3>1, <3>6 DEF Proceeds, Work, Late
      <4>2. pc[r] \in Late => pc'[r] \in Late
        BY <3>6 DEF Proceeds, Early, Late
      <4>3. ASSUME NEW t \in Run PROVE Counted(t)
        <5>1. CASE pc[r] \in Late /\ t = u
          BY <1>5, <2>5, <4>1, <4>2, <5>1
        <5>2. CASE ~(pc[r] \in Late /\ t = u)
          BY <2>4, <3>1, <5>2
        <5> QED
          BY <5>1, <5>2
      <4>4. Budget(r)
        <5>1. CASE pc[r] \in Early
          <6>1. After(u, 0)
            BY <1>5, <4>1, <5>1 DEF CountOK
          <6> QED
            BY <1>1, <3>6, <4>1, <5>1, <6>1 DEF Proceeds, Early
        <5>2. CASE pc[r] \in {"run", "retry"}
          <6>1. Len(records[u]) <= Failures /\ notified[u] <= Failures
            BY <5>2 DEF CountOK
          <6> QED
            BY <1>1, <3>6, <4>1, <5>2, <6>1 DEF Proceeds, Early
        <5>3. CASE pc'[r] = "complete"
          BY <5>3 DEF Early
        <5> QED
          BY <3>6, <5>1, <5>2, <5>3 DEF Proceeds
      <4> QED
        BY <2>6, <3>2, <4>3, <4>4
    <3> QED
      BY <1>8, <3>3, <3>4, <3>5, <3>6, <2>7, <2>8, <2>9 DEF WorkEffect
  <2>11. Quiet \/ Executes(r) \/ Writes(r) \/ Tells(r)
    BY <1>8 DEF WorkEffect, Rests, Picks, Refuses, Proceeds
  <2> QED
    BY <2>10, <2>7, <2>8, <2>9, <2>11
<1> QED
  BY <1>7, <1>8 DEF CountEffect

\* The inductive invariant holds in every reachable state.
LEMMA Invariance == Spec => []IInv
<1>1. IInv /\ [Next]_vars => IInv'
  <2> SUFFICES ASSUME IInv, [Next]_vars PROVE IInv'
    OBVIOUS
  <2>1. TypeOK' /\ GuardsOK' /\ WorkOK'
    BY TypeStep, GuardStep, WorkStep DEF IInv
  <2>2. QueueEffect /\ PathEffect
    BY QueueFrame, PathFrame DEF IInv
  <2>3. OneTicketPerSchedule' /\ AtMostOneServed'
    BY <2>2, TicketStep DEF IInv
  <2>4. ArrivalOK'
    BY <2>1, <2>2, ArrivalStep DEF IInv
  <2>5. OldestServedFirst'
    BY <2>2, ServiceStep DEF IInv
  <2>6. RecordOK'
    BY <2>1, <2>2, RecordStep DEF IInv
  <2>7. CountEffect
    BY <2>2, CountFrame DEF IInv
  <2>8. LinkOK'
    BY <2>2, <2>7, LinkStep DEF IInv
  <2>9. CountOK'
    BY <2>1, <2>2, <2>7, CountStep DEF IInv
  <2> QED
    BY <2>1, <2>3, <2>4, <2>5, <2>6, <2>8, <2>9 DEF IInv
<1> QED
  BY InitIInv, <1>1, PTL DEF Spec

-----------------------------------------------------------------------------
(* Theorems *)

\* The variables keep their types, the counters their bounds.
THEOREM TypeCorrect == Spec => []TypeOK
<1>1. IInv => TypeOK
  BY DEF IInv
<1> QED
  BY Invariance, <1>1, PTL

\* Scheduled runs, the GUI, --run-once and the cleanup of snapshots exclude one
\* another from the run guard to the end of the job, whoever crashes.
THEOREM OneDownloadAtATimeHolds == Spec => []OneDownloadAtATime
<1>1. IInv => OneDownloadAtATime
  BY DEF IInv, GuardsOK, OneDownloadAtATime, AsRunner
<1> QED
  BY Invariance, <1>1, PTL

\* No path through the dispatcher leaks a guard.
THEOREM GuardsAccountedForHolds == Spec => []GuardsAccountedFor
<1>1. IInv => GuardsAccountedFor
  BY DEF IInv, GuardsOK
<1> QED
  BY Invariance, <1>1, PTL

\* enqueue_dispatch_request never lets two requests of a schedule wait.
THEOREM OneTicketPerScheduleHolds == Spec => []OneTicketPerSchedule
<1>1. IInv => OneTicketPerSchedule
  BY DEF IInv
<1> QED
  BY Invariance, <1>1, PTL

\* claim_next_dispatch_request never makes a second ticket active.
THEOREM AtMostOneServedHolds == Spec => []AtMostOneServed
<1>1. IInv => AtMostOneServed
  BY DEF IInv
<1> QED
  BY Invariance, <1>1, PTL

\* The queue is served in the order of arrival, whatever the clock reads, and
\* although tickets of dead dispatchers return to it.
THEOREM OldestServedFirstHolds == Spec => []OldestServedFirst
<1>1. IInv => OldestServedFirst
  BY DEF IInv
<1> QED
  BY Invariance, <1>1, PTL

\* An accepted request leaves the queue only with a result in the history, if
\* no file operation failed, however many processes crash.
THEOREM RecordedBeforeRemovedHolds == Spec => []RecordedBeforeRemoved
<1>1. IInv => RecordedBeforeRemoved
  BY DEF IInv, RecordOK
<1> QED
  BY Invariance, <1>1, PTL

\* A request is executed, recorded and notified once, and once more for every
\* crash and every failure of a queue or history file at most: the takeover of
\* tickets of dead dispatchers repeats nothing on its own.
THEOREM RepeatedOnlyAfterFailureHolds == Spec => []RepeatedOnlyAfterFailure
<1>1. ASSUME TypeOK, CountOK PROVE RepeatedOnlyAfterFailure
  <2> SUFFICES ASSUME NEW t \in Run
               PROVE  /\ ran[t] <= 1 + crashes + faults
                      /\ Len(records[t]) <= 1 + crashes + faults
                      /\ notified[t] <= 1 + crashes + faults
    BY DEF RepeatedOnlyAfterFailure
  <2>1. Within(t, 1)
    BY <1>1 DEF CountOK
  <2>2. crashes \in Nat /\ faults \in Nat
    BY <1>1, DispatcherAssumption DEF TypeOK
  <2>3. 1 + Failures = 1 + crashes + faults
    BY <2>2 DEF Failures
  <2> QED
    BY <2>1, <2>3 DEF Within
<1>2. IInv => RepeatedOnlyAfterFailure
  BY <1>1 DEF IInv
<1> QED
  BY Invariance, <1>2, PTL
=============================================================================
