-------------------------- MODULE RegistryProofs ---------------------------
(***************************************************************************)
(* Proofs about ScheduleRegistry for any schedules, windows, runs, bounds, *)
(* failures and deaths: everything that is registered or may be started by *)
(* Windows has its snapshot, a call that fails changes nothing, and a      *)
(* cleanup spares the runs that need theirs.  A schedule whose edit failed *)
(* in the cleanup after its write is spoiled, and excepted until its next  *)
(* edit.  Then the calendar of NextRun, and the status of the list, which  *)
(* rests on both.                                                          *)
(***************************************************************************)
EXTENDS ScheduleStatus, TLAPS

Entries == [Schedule -> Entry \cup {None}]
Pair == Schedule \X Snap
EditCall == {"register", "save", "enable", "disable", "delete"}
EditStep == {"task", "put", "restore", "discard"}

Step == EditStep \cup {"idle", "wait", "conflict", "queue", "collect", "unlink"}

OpType ==
  [call : EditCall \cup {"none", "cleanup", "finalize"}, step : Step,
   schedule : Schedule \cup {None}, new : Snap \cup {None}, prev : Entry \cup {None},
   prevTask : Snap \cup {None, Unknown}, running : BOOLEAN,
   completed : Snap \cup {None}, at : Pair \cup {None},
   queued : SUBSET Snap, todo : SUBSET Pair, removed : SUBSET Pair]

Dispatching == {"turn", "running", "complete"}
RunType ==
  [step : Alive \cup {"idle", "ended"}, schedule : Schedule \cup {None},
   snap : Snap \cup {None}]

Reading == [rev : Nat, entry : Entries]

StoreType ==
  /\ TypeOK
  /\ seen \in [Window -> Reading \cup {None}]
  /\ lives \in Nat /\ folders \subseteq Nat \X Nat
  /\ faults \in Nat /\ crashes \in Nat

\* A process that runs has its schedule and snapshot, and only finalises the run it
\* serves; the dispatcher is the one that serves a ticket, of a process that started.
RunsOK ==
  /\ run \in [Run -> RunType]
  /\ \A r \in Run :
       /\ run[r].step = "idle" => run[r] = NoRun
       /\ run[r].step # "idle" => run[r].snap \in Snap /\ run[r].schedule \in Schedule
       /\ run[r].step \in {"dispatching", "leaving"} \cup Dispatching => dispatcher = r
       /\ op[r] # Idle => run[r].step = "complete"
  /\ \A r \in ticket : run[r].step # "idle"
  /\ serves # None <=> dispatcher # None /\ run[dispatcher].step \in Dispatching

\* A call has what its step works on, and is alone in the transaction.
CallOK(o) ==
  /\ o.step = "idle" => o = Idle
  /\ o.step \in EditStep => o.call \in EditCall /\ o.schedule \in Schedule
  /\ o.call \in {"register", "save"} => o.schedule \in Schedule /\ o.new # None
  /\ o.call \notin {"register", "save"} => o.new = None
  /\ o.step = "queue" => o.call \in EditCall
  /\ o.call \in {"enable", "disable", "delete"} => o.prev # None
  /\ o.step = "unlink" => o.at \in o.todo

CallsOK ==
  /\ op \in [Proc -> OpType]
  /\ \A p \in Proc : /\ CallOK(op[p])
                     /\ op[p].step \notin {"idle", "wait"} => holder = p

\* What a window has read is what is registered, or has an older revision.
RevisionsOK ==
  \A w \in Window :
    seen[w] # None => /\ seen[w].rev <= rev
                      /\ seen[w].rev = rev => seen[w].entry = entry

\* The next number is above all that were handed out.
FoldersOK ==
  /\ \A s \in Schedule : entry[s] # None => entry[s].key < sequence
  /\ \A p \in Proc : op[p].prev # None => op[p].prev.key < sequence
  /\ \A f \in folders : f[1] < sequence
  /\ FolderOfOneSchedule

Registered == StoreType /\ RunsOK /\ CallsOK /\ RevisionsOK /\ FoldersOK

\* What a cleanup may look at.
IsRetained(s, n) == <<s, n>> \in dropped \/ (entry[s] # None /\ n \in entry[s].kept)

\* The snapshots that a schedule has to do with: its task or its entry name them,
\* they are retained for it, a run of it has loaded them, an edit is about them.
About(o, s, n) ==
  /\ o.call \in EditCall /\ o.schedule = s
  /\ n \in {o.new, o.prevTask} \/ (o.prev # None /\ o.prev.snap = n)

Owns(s, n) ==
  \/ task[s] = n
  \/ entry[s] # None /\ entry[s].snap = n
  \/ IsRetained(s, n)
  \/ \E r \in Run : run[r].schedule = s /\ run[r].snap = n
  \/ \E p \in Proc : About(op[p], s, n)

\* A snapshot is one schedule's, from its making on.
OwnersOK ==
  /\ \A n \in file : n <= made
  /\ \A s \in Schedule, n \in Snap : Owns(s, n) => n <= made
  /\ \A s, t \in Schedule, n \in Snap : Owns(s, n) /\ Owns(t, n) => s = t

\* What is registered or run by a task exists, unless its schedule is spoiled, and
\* is not retained.
SnapsOK ==
  /\ EntryHasSnapshot /\ TaskHasSnapshot
  /\ \A s \in Schedule, n \in Snap : IsRetained(s, n) =>
       /\ s \notin spoiled => task[s] # n
       /\ entry[s] # None => entry[s].snap # n

\* The task of a schedule while an edit of it goes on; "discard" follows a task
\* that was not changed or that was restored.
TaskOK(o) ==
  /\ o.step = "task" /\ o.prevTask # Unknown => task[o.schedule] = o.prevTask
  /\ o.step = "put" => task[o.schedule] = TaskAfter(o)
  /\ o.step = "discard" /\ o.prevTask # Unknown =>
       \/ task[o.schedule] = o.prevTask
       \/ o.prevTask = None /\ o.prev # None /\ o.prev.enabled /\ task[o.schedule] = o.prev.snap
  /\ o.new # None /\ (o.step \in {"task", "discard"} \/ o.call = "save") =>
       task[o.schedule] # o.new

\* A call that has not written the registry yet: its new snapshot is known to nobody
\* but its task, and the old task can be restored.  Or its cleanup has failed.
EditOK(o) ==
  LET s == o.schedule IN
  /\ o.removed = {} =>
       /\ o.prev = entry[s] /\ TaskOK(o)
       /\ o.prevTask \in Snap => o.prevTask # o.new
       /\ o.new # None => /\ o.new \in file /\ ~IsRetained(s, o.new)
                          /\ entry[s] # None => entry[s].snap # o.new
  /\ o.removed # {} => s \in spoiled /\ o.step \in {"restore", "discard"}
  /\ o.prevTask \in Snap /\ s \notin spoiled =>
       o.prevTask \in file /\ ~IsRetained(s, o.prevTask)
  /\ o.call \in {"enable", "disable"} => o.prev.snap \in file
  /\ o.step = "restore" => faults > 0

EditsOK == \A p \in Proc : op[p].step \in EditStep => EditOK(op[p])

\* A cleanup looks at what is retained, and has unlinked what it will drop.
SweepsOK ==
  \A p \in Proc :
    /\ op[p].step \in {"collect", "unlink"} => \A c \in op[p].todo : IsRetained(c[1], c[2])
    /\ \A c \in op[p].removed : c[2] \notin file /\ c[2] <= made

\* Nobody's snapshot is forgotten; an edit that goes on keeps its own.
FileOK ==
  crashes = 0 /\ faults < 2 =>
    \A n \in file : \/ \E s \in Schedule : \/ entry[s] # None /\ entry[s].snap = n
                                           \/ IsRetained(s, n)
                    \/ \E w \in Window : op[w].step \in EditStep /\ op[w].new = n

\* A dispatcher that finalises a run keeps its ticket, and so never unlinks; who
\* unlinks holds the guard of all downloads.
FinalizeOK ==
  \A p \in Proc :
    /\ op[p].call = "finalize" =>
         /\ p = dispatcher /\ run[p].step = "complete"
         /\ op[p].completed = run[serves].snap /\ op[p].completed \in op[p].queued
    /\ op[p].call # "finalize" => op[p].completed = None
    /\ op[p].step = "unlink" => op[p].call # "finalize"

Kept == OwnersOK /\ SnapsOK /\ EditsOK /\ SweepsOK /\ FileOK /\ FinalizeOK

-----------------------------------------------------------------------------
(* Values *)

LEMMA NoneIsNothing ==
  /\ None \notin Snap /\ None \notin Entry /\ None \notin Schedule /\ None \notin Proc
  /\ Unknown \notin Snap /\ Unknown # None
  /\ Snap \subseteq Nat /\ Idle \in OpType /\ NoRun \in RunType
BY RegistryAssumption DEF Snap, Proc, Idle, NoRun, OpType, Step, RunType

\* The next number is the one that was to be next before, or the one after a new
\* registration.
LEMMA MaxOfKeys ==
  ASSUME NEW n \in Nat, NEW S \in SUBSET Nat, \A k \in S : k <= n + 1
  PROVE  /\ Max({n} \cup S) \in {n, n + 1}
         /\ \A k \in {n} \cup S : k <= Max({n} \cup S)
         /\ n + 1 \notin S => Max({n} \cup S) = n
<1> DEFINE Top(x) == x \in {n} \cup S /\ \A y \in {n} \cup S : x >= y
<1>1. PICK x : Top(x)
  <2>1. CASE n + 1 \in S
    BY <2>1
  <2>2. CASE n + 1 \notin S
    <3>1. \A k \in S : k <= n
      BY <2>2
    <3> QED
      BY <3>1
  <2> QED
    BY <2>1, <2>2
<1>2. Top(Max({n} \cup S))
  BY <1>1, Zenon DEF Max
<1>3. PICK m : m = Max({n} \cup S) /\ Top(m)
  BY <1>2
<1> QED
  BY <1>3

\* write_unlocked: no registration has a number that will be given out.
LEMMA Written ==
  ASSUME NEW e \in Entries, NEW d, StoreType, WriteRegistry(e, d),
         \A s \in Schedule : e[s] # None => e[s].key <= sequence
  PROVE  /\ sequence' \in Nat /\ sequence <= sequence'
         /\ \A s \in Schedule : e[s] # None => e[s].key < sequence'
         /\ entry' = e /\ dropped' = d /\ rev' = rev + 1
<1> DEFINE S == {e[s].key + 1 : s \in {t \in Schedule : e[t] # None}}
<1>1. \A s \in Schedule : e[s] # None => e[s].key \in Nat /\ e[s].key + 1 \in S
  BY DEF Entries, Entry
<1>2. sequence \in Nat /\ S \in SUBSET Nat /\ \A k \in S : k <= sequence + 1
  BY <1>1 DEF StoreType, TypeOK
<1>3. sequence' = Max({sequence} \cup S)
  BY DEF WriteRegistry
<1> HIDE DEF S
<1>4. sequence' \in {sequence, sequence + 1} /\ \A k \in S : k <= sequence'
  BY <1>2, <1>3, MaxOfKeys
<1>5. \A s \in Schedule : e[s] # None => e[s].key < sequence'
  BY <1>1, <1>2, <1>4
<1>6. entry' = e /\ dropped' = d /\ rev' = rev + 1
  BY DEF WriteRegistry
<1> QED
  BY <1>2, <1>4, <1>5, <1>6

LEMMA NextKeyIs ==
  ASSUME StoreType, FoldersOK
  PROVE  NextKey = sequence
<1> DEFINE S == {entry[s].key + 1 : s \in {t \in Schedule : entry[t] # None}}
<1>1. sequence \in Nat /\ S \in SUBSET Nat /\ \A k \in S : k <= sequence
  BY DEF StoreType, TypeOK, Entry, FoldersOK
<1>2. NextKey = Max({sequence} \cup S)
  BY DEF NextKey
<1> HIDE DEF S
<1>3. sequence + 1 \notin S /\ \A k \in S : k <= sequence + 1
  BY <1>1
<1> QED
  BY <1>1, <1>2, <1>3, MaxOfKeys

\* What an edit registers: its number is the one before, or the next.
EntryAfterIs(o) ==
  /\ KeyFor(o.prev) \in Nat
  /\ EntryAfter(o) # None => EntryAfter(o) \in Entry /\ EntryAfter(o).key <= sequence
  /\ o.call \in {"register", "save"} =>
       /\ EntryAfter(o) \in Entry /\ EntryAfter(o).key = KeyFor(o.prev)
       /\ EntryAfter(o).snap = o.new /\ EntryAfter(o).kept = SnapsOf(o.prev) \ {o.new}
  /\ o.call \in {"enable", "disable"} =>
       /\ EntryAfter(o) \in Entry /\ o.prev \in Entry
       /\ EntryAfter(o).snap = o.prev.snap /\ EntryAfter(o).kept = o.prev.kept
  /\ o.call = "delete" => EntryAfter(o) = None

LEMMA EntryAfterType ==
  ASSUME StoreType, CallsOK, FoldersOK, NEW p \in Proc, op[p].step \in EditStep
  PROVE  EntryAfterIs(op[p])
<1> DEFINE o == op[p]
<1>1. o \in OpType /\ o.call \in EditCall
  BY DEF CallsOK, CallOK
<1>2. o.prev # None => o.prev \in Entry /\ o.prev.key \in Nat /\ o.prev.key < sequence
  BY <1>1 DEF OpType, Entry, FoldersOK
<1>3. sequence \in Nat /\ lives \in Nat
  BY DEF StoreType, TypeOK
<1>4. KeyFor(o.prev) \in Nat /\ KeyFor(o.prev) <= sequence
  BY <1>2, <1>3, NextKeyIs DEF KeyFor
<1>5. ASSUME NEW b \in BOOLEAN, o.new \in Snap
      PROVE  /\ EntryFor(o, b) \in Entry /\ EntryFor(o, b).key = KeyFor(o.prev)
             /\ EntryFor(o, b).snap = o.new /\ EntryFor(o, b).kept = SnapsOf(o.prev) \ {o.new}
  <2>1. SnapsOf(o.prev) \in SUBSET Snap
    BY <1>2 DEF SnapsOf, Entry
  <2>2. (IF o.prev = None THEN lives ELSE o.prev.life) \in Nat
    BY <1>2, <1>3 DEF Entry
  <2> HIDE DEF o
  <2> QED
    BY <1>4, <1>5, <2>1, <2>2 DEF EntryFor, Entry
<1>6. o.call \in {"register", "save"} => o.new \in Snap
  BY <1>1 DEF CallsOK, CallOK, OpType
<1>7. o.call \in {"enable", "disable"} => o.prev \in Entry /\ o.prev.key <= sequence
  BY <1>1, <1>2, <1>3 DEF CallsOK, CallOK
<1>8. ASSUME NEW e \in Entry, NEW b \in BOOLEAN
      PROVE  /\ [e EXCEPT !.enabled = b] \in Entry /\ [e EXCEPT !.enabled = b].key = e.key
             /\ [e EXCEPT !.enabled = b].snap = e.snap /\ [e EXCEPT !.enabled = b].kept = e.kept
  BY DEF Entry
<1>9. CASE o.call \in {"register", "save"}
  <2>1. EntryAfter(o) \in {EntryFor(o, TRUE), EntryFor(o, FALSE)}
    BY <1>9 DEF EntryAfter
  <2> HIDE DEF o
  <2> QED
    BY <1>4, <1>5, <1>6, <1>9, <2>1 DEF EntryAfterIs, o
<1>10. CASE o.call \in {"enable", "disable"}
  <2> DEFINE e(b) == [o.prev EXCEPT !.enabled = b]
  <2>1. \A b \in BOOLEAN : /\ e(b) \in Entry /\ e(b).key = o.prev.key
                           /\ e(b).snap = o.prev.snap /\ e(b).kept = o.prev.kept
    BY <1>7, <1>8, <1>10
  <2>2. EntryAfter(o) \in {e(TRUE), e(FALSE)}
    BY <1>10 DEF EntryAfter
  <2> HIDE DEF e
  <2> QED
    BY <1>4, <1>7, <1>10, <2>1, <2>2 DEF EntryAfterIs
<1>11. CASE o.call = "delete"
  <2>1. EntryAfter(o) = None
    BY <1>11 DEF EntryAfter
  <2> QED
    BY <1>4, <1>11, <2>1 DEF EntryAfterIs
<1> QED
  BY <1>1, <1>9, <1>10, <1>11 DEF EditCall

\* What an edit lets a task run, and what it restores.
LEMMA TaskTypes ==
  ASSUME CallsOK, NEW p \in Proc, op[p].step \in EditStep
  PROVE  TaskAfter(op[p]) \in Snap \cup {None} /\ TaskBefore(op[p]) \in Snap \cup {None}
<1> DEFINE o == op[p]
<1>1. o \in OpType /\ o.call \in EditCall
  BY DEF CallsOK, CallOK
<1>2. o.prev # None => o.prev.snap \in Snap
  BY <1>1 DEF OpType, Entry
<1>3. /\ o.call = "register" => o.new \in Snap
      /\ o.call = "enable" => o.prev # None
      /\ o.prevTask \in Snap \cup {None, Unknown}
  BY <1>1 DEF CallsOK, CallOK, OpType
<1> QED
  BY <1>2, <1>3 DEF TaskAfter, TaskBefore

\* A registry write by a cleanup keeps the registrations, with less retained.
LEMMA SweptEntries ==
  ASSUME StoreType, NEW removed
  PROVE  /\ Swept(removed) \in Entries
         /\ \A s \in Schedule :
              /\ Swept(removed)[s] = None <=> entry[s] = None
              /\ entry[s] # None =>
                   /\ Swept(removed)[s].snap = entry[s].snap
                   /\ Swept(removed)[s].key = entry[s].key
                   /\ Swept(removed)[s].enabled = entry[s].enabled
                   /\ Swept(removed)[s].kept = entry[s].kept \ {c[2] : c \in removed}
<1> DEFINE e == Swept(removed)
           S == {c[2] : c \in removed}
<1>1. ASSUME NEW s \in Schedule, entry[s] # None
      PROVE  /\ entry[s] \in Entry /\ e[s] \in Entry
             /\ e[s].snap = entry[s].snap /\ e[s].key = entry[s].key
             /\ e[s].enabled = entry[s].enabled /\ e[s].kept = entry[s].kept \ S
  <2>1. entry[s] \in Entry
    BY <1>1 DEF StoreType, TypeOK
  <2>2. e[s] = [entry[s] EXCEPT !.kept = @ \ S]
    BY <1>1 DEF Swept
  <2> HIDE DEF e, S
  <2> QED
    BY <2>1, <2>2 DEF Entry
<1>2. \A s \in Schedule : entry[s] = None => e[s] = None
  BY DEF Swept
<1>3. e = [s \in Schedule |-> e[s]]
  BY DEF Swept
<1> HIDE DEF e
<1> QED
  BY <1>1, <1>2, <1>3, NoneIsNothing DEF Entries, e

\* A run only touches the queue and itself.
LEMMA RunStepFrame ==
  ASSUME NEW r \in Run, RunStep(r)
  PROVE  UNCHANGED <<stores, holder, op, seen, ghosts, bounds>>
BY DEF RunStep, Fire, Queue, Lease, Claim, Serve, Complete, FindEmpty, Leave

\* An edit touches no run.
LEMMA EditFrame ==
  ASSUME CallsOK, NEW w \in Window, Edit(w)
  PROVE  UNCHANGED <<runVars, crashes>> /\ op' = [op EXCEPT ![w] = op'[w]]
BY DEF CallsOK, Proc, Edit, Look, Conflict, ConflictReported, BeginSave, BeginApply,
   BeginDelete, Enter, End,
       SetTask, SetTaskFails, Put, PutFails, RestoreTask, RestoreFails, Discard, Go, bounds

-----------------------------------------------------------------------------
(* Types, calls, revisions and folders *)

\* What a call and a cleanup write.
PutDropped(o) ==
  IF o.call = "delete" THEN dropped \cup {<<o.schedule, n>> : n \in SnapsOf(o.prev)} ELSE dropped

LEMMA PutWrites ==
  ASSUME StoreType, CallsOK, FoldersOK, NEW w \in Window, Put(w)
  PROVE  LET o == op[w] IN
         /\ w \in Proc /\ o \in OpType /\ CallOK(o) /\ o.step = "put" /\ holder = w
         /\ o.schedule \in Schedule /\ o.call \in EditCall
         /\ EntryAfterIs(o) /\ KeyFor(o.prev) \in Nat
         /\ entry' = [entry EXCEPT ![o.schedule] = EntryAfter(o)] /\ entry' \in Entries
         /\ dropped' = PutDropped(o) /\ dropped' \in SUBSET Pair
         /\ rev' = rev + 1 /\ sequence' \in Nat /\ sequence <= sequence'
         /\ \A s \in Schedule : entry'[s] # None => entry'[s].key < sequence'
<1> DEFINE o == op[w]
           e == [entry EXCEPT ![o.schedule] = EntryAfter(o)]
<1>1. /\ w \in Proc /\ o \in OpType /\ CallOK(o) /\ o.step = "put" /\ holder = w
      /\ o.schedule \in Schedule /\ o.call \in EditCall /\ o.step \in EditStep
  BY DEF Put, At, EditStep, CallsOK, CallOK, Proc
<1>2. EntryAfterIs(o)
  BY <1>1, EntryAfterType
<1>3. e \in Entries
  BY <1>2 DEF StoreType, TypeOK, Entries, EntryAfterIs
<1>4. \A s \in Schedule : e[s] # None => e[s].key <= sequence
  BY <1>1, <1>2 DEF StoreType, TypeOK, Entries, Entry, FoldersOK, EntryAfterIs
<1>5. WriteRegistry(e, PutDropped(o))
  BY DEF Put, PutDropped
<1>6. PutDropped(o) \in SUBSET Pair
  <2>1. SnapsOf(o.prev) \in SUBSET Snap
    BY <1>1 DEF SnapsOf, OpType, Entry
  <2> QED
    BY <1>1, <2>1 DEF StoreType, TypeOK, Pair, PutDropped
<1>7. /\ sequence' \in Nat /\ sequence <= sequence'
      /\ \A s \in Schedule : e[s] # None => e[s].key < sequence'
      /\ entry' = e /\ dropped' = PutDropped(o) /\ rev' = rev + 1
  <2> HIDE DEF e
  <2> QED
    BY <1>3, <1>4, <1>5, Written
<1> HIDE DEF o
<1> QED
  BY <1>1, <1>2, <1>3, <1>6, <1>7 DEF o, EntryAfterIs

LEMMA CollectedWrites ==
  ASSUME StoreType, FoldersOK, NEW p \in Proc, Collected(p), op[p].removed # {}
  PROVE  /\ entry' = Swept(op[p].removed) /\ entry' \in Entries
         /\ dropped' = dropped \ op[p].removed /\ dropped' \in SUBSET Pair
         /\ rev' = rev + 1 /\ sequence' \in Nat /\ sequence <= sequence'
         /\ \A s \in Schedule : entry'[s] # None => entry'[s].key < sequence'
<1> DEFINE e == Swept(op[p].removed)
           d == dropped \ op[p].removed
<1>1. WriteRegistry(e, d)
  BY DEF Collected
<1>2. d \in SUBSET Pair
  BY DEF StoreType, TypeOK, Pair
<1> HIDE DEF d
<1>3. e \in Entries /\ \A s \in Schedule : e[s] # None => e[s].key <= sequence
  <2>1. /\ e \in Entries
        /\ \A s \in Schedule : /\ e[s] = None <=> entry[s] = None
                               /\ entry[s] # None => e[s].key = entry[s].key
    BY SweptEntries
  <2> HIDE DEF e
  <2> QED
    BY <2>1 DEF FoldersOK, StoreType, TypeOK, Entries, Entry
<1> HIDE DEF e
<1>4. /\ sequence' \in Nat /\ sequence <= sequence'
      /\ \A s \in Schedule : e[s] # None => e[s].key < sequence'
      /\ entry' = e /\ dropped' = d /\ rev' = rev + 1
  BY <1>1, <1>3, Written
<1> QED
  BY <1>2, <1>3, <1>4 DEF e, d

\* Every step keeps the types of the stores.
LEMMA StoreTypeInv ==
  ASSUME StoreType, RunsOK, CallsOK, FoldersOK, [Next]_vars
  PROVE  StoreType'
<1> USE RegistryAssumption
<1>1. ASSUME NEW w \in Window, Look(w)
      PROVE  StoreType'
  BY <1>1, NoneIsNothing DEF Look, At, StoreType, TypeOK, Entries, Reading, Proc,
     stores, registryVars, runVars, ghosts, bounds
<1>2. ASSUME NEW w \in Window, Conflict(w)
      PROVE  StoreType'
  BY <1>2, NoneIsNothing DEF Conflict, Enter, At, StoreType, TypeOK, Entries, Reading,
     Proc, stores, registryVars, runVars, ghosts, bounds
<1>3. ASSUME NEW w \in Window, ConflictReported(w)
      PROVE  StoreType'
  BY <1>3, NoneIsNothing DEF ConflictReported, End, At, StoreType, TypeOK, Entries,
     Reading, Proc, stores, registryVars, runVars, ghosts, bounds
<1>4. ASSUME NEW w \in Window, NEW s \in Schedule, NEW call \in {"register",
             "save"}, BeginSave(w, s, call)
      PROVE  StoreType'
  <2>1. /\ made + 1 \in Snap /\ made + 1 \in 0 .. MaxSnap
        /\ holder' \in Proc /\ lives' \in Nat /\ faults' \in Nat
    BY <1>4 DEF BeginSave, Enter, Queried, Failing, StoreType, TypeOK, Snap, Proc
  <2> QED
    BY <1>4, <2>1 DEF BeginSave, StoreType, TypeOK, Entries, registryVars, runVars
<1>5. ASSUME NEW w \in Window, NEW s \in Schedule, NEW call \in {"enable",
             "disable"}, BeginApply(w, s, call)
      PROVE  StoreType'
  BY <1>5, NoneIsNothing DEF BeginApply, Enter, Started, Queried, Failing, RevisionFits,
     Idle, At, StoreType, TypeOK, Entries, Reading, Proc, stores, registryVars, runVars,
     ghosts, bounds
<1>6. ASSUME NEW w \in Window, NEW s \in Schedule, BeginDelete(w, s)
      PROVE  StoreType'
  BY <1>6, NoneIsNothing DEF BeginDelete, Enter, Started, Queried, Failing,
     RevisionFits, Idle, At, StoreType, TypeOK, Entries, Reading, Proc, stores,
     registryVars, runVars, ghosts, bounds
<1>7. ASSUME NEW w \in Window, SetTask(w)
      PROVE  StoreType'
  <2>1. TaskAfter(op[w]) \in Snap \cup {None}
    BY <1>7, TaskTypes DEF SetTask, At, EditStep, Proc
  <2> QED
    BY <1>7, <2>1 DEF SetTask, StoreType, TypeOK, Entries, registryVars, runVars,
       ghosts, bounds
<1>8. ASSUME NEW w \in Window, SetTaskFails(w)
      PROVE  StoreType'
  BY <1>8, NoneIsNothing DEF SetTaskFails, Go, Failing, At, StoreType, TypeOK, Entries,
     Reading, Proc, stores, registryVars, runVars, ghosts, bounds
<1>9. ASSUME NEW w \in Window, Put(w)
      PROVE  StoreType'
  <2>1. /\ entry' \in Entries /\ dropped' \in SUBSET Pair /\ rev' = rev + 1
        /\ sequence' \in Nat /\ KeyFor(op[w].prev) \in Nat
    BY <1>9, PutWrites
  <2>2. folders' \in SUBSET (Nat \X Nat)
    BY <1>9, <2>1 DEF Put, StoreType
  <2>3. seen' \in [Window -> Reading \cup {None}] /\ holder' \in Proc \cup {None}
    BY <1>9 DEF Put, End, StoreType, TypeOK
  <2>4. UNCHANGED <<file, made, task, runVars, lives, bounds>>
    BY <1>9 DEF Put
  <2> QED
    BY <2>1, <2>2, <2>3, <2>4 DEF StoreType, TypeOK, Entries, Pair, runVars, bounds
<1>10. ASSUME NEW w \in Window, PutFails(w)
      PROVE  StoreType'
  BY <1>10, NoneIsNothing DEF PutFails, Go, Failing, At, StoreType, TypeOK, Entries,
     Reading, Proc, stores, registryVars, runVars, ghosts, bounds
<1>11. ASSUME NEW w \in Window, RestoreTask(w)
      PROVE  StoreType'
  <2>1. TaskBefore(op[w]) \in Snap \cup {None}
    BY <1>11, TaskTypes DEF RestoreTask, At, EditStep, Proc
  <2> QED
    BY <1>11, <2>1 DEF RestoreTask, StoreType, TypeOK, Entries, registryVars, runVars,
       ghosts, bounds
<1>12. ASSUME NEW w \in Window, RestoreFails(w)
      PROVE  StoreType'
  <2>1. file' \in SUBSET Snap /\ faults' \in Nat /\ holder' = None
    BY <1>12 DEF RestoreFails, End, Failing, StoreType, TypeOK
  <2>2. seen' \in [Window -> Reading \cup {None}]
    BY <1>12 DEF RestoreFails, End, StoreType
  <2> QED
    BY <1>12, <2>1, <2>2 DEF RestoreFails, StoreType, TypeOK, Entries, registryVars,
       runVars, ghosts
<1>13. ASSUME NEW w \in Window, Discard(w)
      PROVE  StoreType'
  BY <1>13, NoneIsNothing DEF Discard, End, Idle, At, StoreType, TypeOK, Entries,
     Reading, Proc, stores, registryVars, runVars, ghosts, bounds
<1>14. ASSUME NEW p \in Proc, BeginCleanup(p)
      PROVE  StoreType'
  BY <1>14, NoneIsNothing DEF BeginCleanup, Idle, At, StoreType, TypeOK, Entries,
     Reading, Proc, stores, registryVars, runVars, ghosts, bounds
<1>15. ASSUME NEW p \in Proc, Scan(p)
      PROVE  StoreType'
  BY <1>15, NoneIsNothing DEF Scan, At, StoreType, TypeOK, Entries, Reading, Proc,
     stores, registryVars, runVars, ghosts, bounds
<1>16. ASSUME NEW p \in Proc, QueueUnreadable(p)
      PROVE  StoreType'
  BY <1>16, NoneIsNothing DEF QueueUnreadable, End, Idle, Failing, At, StoreType,
     TypeOK, Entries, Reading, Proc, stores, registryVars, runVars, ghosts, bounds
<1>17. ASSUME NEW p \in Proc, Inspect(p)
      PROVE  StoreType'
  BY <1>17, NoneIsNothing DEF Inspect, Failing, At, StoreType, TypeOK, Entries, Reading,
     Proc, stores, registryVars, runVars, ghosts, bounds
<1>18. ASSUME NEW p \in Proc, Unlink(p)
      PROVE  StoreType'
  BY <1>18, NoneIsNothing DEF Unlink, At, StoreType, TypeOK, Entries, Reading, Proc,
     stores, registryVars, runVars, ghosts, bounds
<1>19. ASSUME NEW p \in Proc, Collected(p)
      PROVE  StoreType'
  <2>1. seen' \in [Window -> Reading \cup {None}] /\ holder' = None
    BY <1>19 DEF Collected, End, StoreType
  <2>2. CASE op[p].removed = {}
    BY <1>19, <2>1, <2>2 DEF Collected, StoreType, TypeOK, Entries, registryVars,
       runVars, ghosts, bounds
  <2>3. CASE op[p].removed # {}
    <3>1. entry' \in Entries /\ dropped' \in SUBSET Pair /\ rev' = rev + 1 /\ sequence' \in Nat
      BY <1>19, <2>3, CollectedWrites
    <3>2. UNCHANGED <<file, made, task, runVars, ghosts, bounds>>
      BY <1>19 DEF Collected
    <3> QED
      BY <2>1, <3>1, <3>2 DEF StoreType, TypeOK, Entries, Pair, runVars, ghosts, bounds
  <2> QED
    BY <2>2, <2>3
<1>20. ASSUME NEW p \in Proc, CollectFails(p)
      PROVE  StoreType'
  BY <1>20, NoneIsNothing DEF CollectFails, End, Idle, Failing, At, StoreType, TypeOK,
     Entries, Reading, Proc, stores, registryVars, runVars, ghosts, bounds
<1>21. ASSUME NEW p \in Proc, Crash(p)
      PROVE  StoreType'
  BY <1>21, NoneIsNothing DEF Crash, Idle, At, StoreType, TypeOK, Entries, Reading,
     Proc, stores, registryVars, runVars, ghosts, bounds
<1>22. ASSUME NEW r \in Run, NEW s \in Schedule, Fire(r, s)
      PROVE  StoreType'
  BY <1>22, NoneIsNothing DEF Fire, At, StoreType, TypeOK, Entries, Reading, Proc,
     stores, registryVars, runVars, ghosts, bounds
<1>23. ASSUME NEW r \in Run, Queue(r)
      PROVE  StoreType'
  BY <1>23, NoneIsNothing DEF Queue, RunGoes, At, StoreType, TypeOK, Entries, Reading,
     Proc, stores, registryVars, runVars, ghosts, bounds
<1>24. ASSUME NEW r \in Run, Lease(r)
      PROVE  StoreType'
  BY <1>24, NoneIsNothing DEF Lease, RunGoes, At, StoreType, TypeOK, Entries, Reading,
     Proc, stores, registryVars, runVars, ghosts, bounds
<1>25. ASSUME NEW r \in Run, Claim(r)
      PROVE  StoreType'
  BY <1>25, NoneIsNothing DEF Claim, RunGoes, At, StoreType, TypeOK, Entries, Reading,
     Proc, stores, registryVars, runVars, ghosts, bounds
<1>26. ASSUME NEW r \in Run, Serve(r)
      PROVE  StoreType'
  BY <1>26, NoneIsNothing DEF Serve, RunGoes, At, StoreType, TypeOK, Entries, Reading,
     Proc, stores, registryVars, runVars, ghosts, bounds
<1>27. ASSUME NEW r \in Run, Complete(r)
      PROVE  StoreType'
  BY <1>27, NoneIsNothing DEF Complete, RunGoes, At, StoreType, TypeOK, Entries,
     Reading, Proc, stores, registryVars, runVars, ghosts, bounds
<1>28. ASSUME NEW r \in Run, FindEmpty(r)
      PROVE  StoreType'
  BY <1>28, NoneIsNothing DEF FindEmpty, RunGoes, At, StoreType, TypeOK, Entries,
     Reading, Proc, stores, registryVars, runVars, ghosts, bounds
<1>29. ASSUME NEW r \in Run, Leave(r)
      PROVE  StoreType'
  BY <1>29, NoneIsNothing DEF Leave, RunGoes, At, StoreType, TypeOK, Entries, Reading,
     Proc, stores, registryVars, runVars, ghosts, bounds
<1>30. CASE UNCHANGED vars
  BY <1>30, NoneIsNothing DEF vars, stores, registryVars, runVars, ghosts, bounds,
     StoreType, TypeOK, Entries, Reading, Proc, stores, registryVars, runVars, ghosts,
     bounds
<1> QED
    BY <1>1, <1>2, <1>3, <1>4, <1>5, <1>6, <1>7, <1>8, <1>9, <1>10, <1>11, <1>12,
     <1>13, <1>14, <1>15, <1>16, <1>17, <1>18, <1>19, <1>20, <1>21, <1>22, <1>23,
     <1>24, <1>25, <1>26, <1>27, <1>28, <1>29, <1>30 DEF Next, Edit, Cleanup,
     RunStep

\* So does a cleanup, from its second step on.
LEMMA CleanupFrame ==
  ASSUME CallsOK, NEW p \in Proc, Cleanup(p), ~BeginCleanup(p)
  PROVE  UNCHANGED <<runVars, crashes>> /\ op' = [op EXCEPT ![p] = op'[p]] /\ op[p] # Idle
<1>1. UNCHANGED <<runVars, crashes>> /\ op' = [op EXCEPT ![p] = op'[p]]
  BY DEF CallsOK, Cleanup, Scan, QueueUnreadable, Inspect, Unlink, Collected,
     CollectFails, End,
         bounds
<1>2. op[p].step # "idle"
  BY DEF Cleanup, Scan, QueueUnreadable, Inspect, Unlink, Collected, CollectFails, At
<1> QED
  BY <1>1, <1>2 DEF Idle

LEMMA RunsKept ==
  ASSUME RunsOK, UNCHANGED runVars, NEW p \in Proc, op' = [op EXCEPT ![p] = op'[p]],
         p \in Window \/ op[p] # Idle, CallsOK
  PROVE  RunsOK'
<1>1. \A r \in Run : op'[r] # Idle => op[r] # Idle
  BY RegistryAssumption DEF Proc, CallsOK
<1> QED
  BY <1>1 DEF RunsOK, runVars

\* Every step keeps the runs, the tickets and the dispatcher in step.
LEMMA RunsInv ==
  ASSUME StoreType, RunsOK, CallsOK, [Next]_vars
  PROVE  RunsOK'
<1> USE RegistryAssumption
<1>1. ASSUME NEW w \in Window, Edit(w)
      PROVE  RunsOK'
  BY <1>1, EditFrame, RunsKept DEF Proc
<1>2. ASSUME NEW p \in Proc, BeginCleanup(p)
      PROVE  RunsOK'
  <2>1. run' \in [Run -> RunType]
    BY <1>2, NoneIsNothing DEF BeginCleanup, CallsOK, Proc, RunsOK, StoreType, TypeOK,
       Alive, Dispatching, RunType
  <2>2. ASSUME NEW q \in Run
        PROVE  /\ run'[q].step = "idle" => run'[q] = NoRun
               /\ run'[q].step # "idle" => run'[q].snap \in Snap /\ run'[q].schedule \in Schedule
               /\ run'[q].step \in {"dispatching", "leaving"} \cup Dispatching => dispatcher' = q
               /\ op'[q] # Idle => run'[q].step = "complete"
    BY <1>2, NoneIsNothing DEF BeginCleanup, CallsOK, Proc, RunsOK, StoreType, TypeOK,
       Alive, Dispatching, RunType, NoRun
  <2>3. \A q \in ticket' : run'[q].step # "idle"
    BY <1>2 DEF BeginCleanup, CallsOK, Proc, RunsOK, StoreType, TypeOK, Alive,
       Dispatching, RunType
  <2>4. serves' # None <=> dispatcher' # None /\ run'[dispatcher'].step \in Dispatching
    BY <1>2 DEF BeginCleanup, CallsOK, Proc, RunsOK, StoreType, TypeOK, Alive,
       Dispatching, RunType
  <2> QED
    BY <2>1, <2>2, <2>3, <2>4 DEF RunsOK
<1>3. ASSUME NEW p \in Proc, Cleanup(p) /\ ~BeginCleanup(p)
      PROVE  RunsOK'
  BY <1>3, CleanupFrame, RunsKept
<1>4. ASSUME NEW p \in Proc, Crash(p)
      PROVE  RunsOK'
  <2>1. run' \in [Run -> RunType]
    BY <1>4, NoneIsNothing DEF Crash, CallsOK, Proc, RunsOK, StoreType, TypeOK, Alive,
       Dispatching, RunType
  <2>2. ASSUME NEW q \in Run
        PROVE  /\ run'[q].step = "idle" => run'[q] = NoRun
               /\ run'[q].step # "idle" => run'[q].snap \in Snap /\ run'[q].schedule \in Schedule
               /\ run'[q].step \in {"dispatching", "leaving"} \cup Dispatching => dispatcher' = q
               /\ op'[q] # Idle => run'[q].step = "complete"
    BY <1>4, NoneIsNothing DEF Crash, CallsOK, Proc, RunsOK, StoreType, TypeOK, Alive,
       Dispatching, RunType, NoRun
  <2>3. \A q \in ticket' : run'[q].step # "idle"
    BY <1>4 DEF Crash, CallsOK, Proc, RunsOK, StoreType, TypeOK, Alive, Dispatching,
       RunType
  <2>4. serves' # None <=> dispatcher' # None /\ run'[dispatcher'].step \in Dispatching
    BY <1>4 DEF Crash, CallsOK, Proc, RunsOK, StoreType, TypeOK, Alive, Dispatching,
       RunType
  <2> QED
    BY <2>1, <2>2, <2>3, <2>4 DEF RunsOK
<1>5. ASSUME NEW r \in Run, NEW s \in Schedule, Fire(r, s)
      PROVE  RunsOK'
  <2>1. run' \in [Run -> RunType]
    BY <1>5, NoneIsNothing DEF Fire, RunsOK, StoreType, TypeOK, Alive, Dispatching,
       RunType
  <2>2. ASSUME NEW q \in Run
        PROVE  /\ run'[q].step = "idle" => run'[q] = NoRun
               /\ run'[q].step # "idle" => run'[q].snap \in Snap /\ run'[q].schedule \in Schedule
               /\ run'[q].step \in {"dispatching", "leaving"} \cup Dispatching => dispatcher' = q
               /\ op'[q] # Idle => run'[q].step = "complete"
    <3>1. CASE q = r
      <4>1. run'[q] = [step |-> "loaded", schedule |-> s, snap |-> task[s]] /\ task[s] \in Snap
        BY <1>5, <3>1 DEF Fire, RunsOK, StoreType, TypeOK
      <4>2. op'[q] = Idle
        BY <1>5, <3>1 DEF Fire, RunsOK
      <4> QED
        BY <4>1, <4>2 DEF Dispatching
    <3>2. CASE q # r
      BY <1>5, <3>2 DEF Fire, RunsOK
    <3> QED
      BY <3>1, <3>2
  <2>3. \A q \in ticket' : run'[q].step # "idle"
    BY <1>5 DEF Fire, RunsOK, StoreType, TypeOK, Alive, Dispatching, RunType
  <2>4. serves' # None <=> dispatcher' # None /\ run'[dispatcher'].step \in Dispatching
    BY <1>5 DEF Fire, RunsOK, StoreType, TypeOK, Alive, Dispatching, RunType
  <2> QED
    BY <2>1, <2>2, <2>3, <2>4 DEF RunsOK
<1>6. ASSUME NEW r \in Run, Queue(r)
      PROVE  RunsOK'
  <2>1. run' \in [Run -> RunType]
    BY <1>6, NoneIsNothing DEF Queue, RunGoes, RunsOK, StoreType, TypeOK, Alive,
       Dispatching, RunType
  <2>2. ASSUME NEW q \in Run
        PROVE  /\ run'[q].step = "idle" => run'[q] = NoRun
               /\ run'[q].step # "idle" => run'[q].snap \in Snap /\ run'[q].schedule \in Schedule
               /\ run'[q].step \in {"dispatching", "leaving"} \cup Dispatching => dispatcher' = q
               /\ op'[q] # Idle => run'[q].step = "complete"
    BY <1>6, NoneIsNothing DEF Queue, RunGoes, RunsOK, StoreType, TypeOK, Alive,
       Dispatching, RunType, NoRun
  <2>3. \A q \in ticket' : run'[q].step # "idle"
    BY <1>6 DEF Queue, RunGoes, RunsOK, StoreType, TypeOK, Alive, Dispatching, RunType
  <2>4. serves' # None <=> dispatcher' # None /\ run'[dispatcher'].step \in Dispatching
    BY <1>6 DEF Queue, RunGoes, RunsOK, StoreType, TypeOK, Alive, Dispatching, RunType
  <2> QED
    BY <2>1, <2>2, <2>3, <2>4 DEF RunsOK
<1>7. ASSUME NEW r \in Run, Lease(r)
      PROVE  RunsOK'
  BY <1>7, NoneIsNothing DEF Lease, RunGoes, At, RunsOK, RunType, NoRun, TypeOK,
     StoreType, Alive, Dispatching
<1>8. ASSUME NEW r \in Run, Claim(r)
      PROVE  RunsOK'
  BY <1>8, NoneIsNothing DEF Claim, RunGoes, At, RunsOK, RunType, NoRun, TypeOK,
     StoreType, Alive, Dispatching
<1>9. ASSUME NEW r \in Run, Serve(r)
      PROVE  RunsOK'
  BY <1>9, NoneIsNothing DEF Serve, RunGoes, At, RunsOK, RunType, NoRun, TypeOK,
     StoreType, Alive, Dispatching
<1>10. ASSUME NEW r \in Run, Complete(r)
      PROVE  RunsOK'
  <2>1. run' \in [Run -> RunType]
    BY <1>10, NoneIsNothing DEF Complete, RunGoes, At, RunsOK, StoreType, TypeOK, Alive,
       Dispatching, RunType
  <2>2. ASSUME NEW q \in Run
        PROVE  /\ run'[q].step = "idle" => run'[q] = NoRun
               /\ run'[q].step # "idle" => run'[q].snap \in Snap /\ run'[q].schedule \in Schedule
               /\ run'[q].step \in {"dispatching", "leaving"} \cup Dispatching => dispatcher' = q
               /\ op'[q] # Idle => run'[q].step = "complete"
    BY <1>10, NoneIsNothing DEF Complete, RunGoes, At, RunsOK, StoreType, TypeOK, Alive,
       Dispatching, RunType, NoRun, CallsOK, CallOK, Proc
  <2>3. \A q \in ticket' : run'[q].step # "idle"
    BY <1>10 DEF Complete, RunGoes, At, RunsOK, StoreType, TypeOK, Alive, Dispatching,
       RunType
  <2>4. serves' # None <=> dispatcher' # None /\ run'[dispatcher'].step \in Dispatching
    BY <1>10 DEF Complete, RunGoes, At, RunsOK, StoreType, TypeOK, Alive, Dispatching,
       RunType
  <2> QED
    BY <2>1, <2>2, <2>3, <2>4 DEF RunsOK
<1>11. ASSUME NEW r \in Run, FindEmpty(r)
      PROVE  RunsOK'
  BY <1>11, NoneIsNothing DEF FindEmpty, RunGoes, At, RunsOK, RunType, NoRun, TypeOK,
     StoreType, Alive, Dispatching
<1>12. ASSUME NEW r \in Run, Leave(r)
      PROVE  RunsOK'
  BY <1>12, NoneIsNothing DEF Leave, RunGoes, At, RunsOK, RunType, NoRun, TypeOK,
     StoreType, Alive, Dispatching
<1>13. CASE UNCHANGED vars
  BY <1>13 DEF vars, stores, registryVars, runVars, ghosts, bounds, RunsOK, runVars
<1> QED
    BY <1>1, <1>2, <1>3, <1>4, <1>5, <1>6, <1>7, <1>8, <1>9, <1>10, <1>11, <1>12,
     <1>13 DEF Next, RunStep

LEMMA CallsKept ==
  ASSUME CallsOK, NEW p \in Proc, NEW o \in OpType, op' = [op EXCEPT ![p] = o], CallOK(o),
         o.step \notin {"idle", "wait"} => holder' = p,
         holder' = holder \/ holder \in {None, p}
  PROVE  CallsOK'
BY NoneIsNothing DEF CallsOK

\* Another step of a call, and nothing else.
LEMMA StepOnly ==
  ASSUME NEW o \in OpType, NEW step \in Step
  PROVE  LET n == [o EXCEPT !.step = step] IN
         /\ n \in OpType /\ n.step = step
         /\ n.call = o.call /\ n.schedule = o.schedule /\ n.new = o.new /\ n.prev = o.prev
         /\ n.prevTask = o.prevTask /\ n.completed = o.completed
         /\ n.at = o.at /\ n.queued = o.queued /\ n.todo = o.todo /\ n.removed = o.removed
BY DEF OpType

LEMMA GoesOn ==
  ASSUME CallsOK, NEW p \in Proc, NEW step \in Step, Go(p, step)
  PROVE  LET n == op'[p]
             o == op[p]
         IN  /\ n \in OpType /\ n.step = step /\ op' = [op EXCEPT ![p] = n]
             /\ n.call = o.call /\ n.schedule = o.schedule /\ n.new = o.new /\ n.prev = o.prev
             /\ n.prevTask = o.prevTask /\ n.completed = o.completed
             /\ n.at = o.at /\ n.queued = o.queued /\ n.todo = o.todo /\ n.removed = o.removed
<1>1. op[p] \in OpType /\ op'[p] = [op[p] EXCEPT !.step = step] /\ op' = [op EXCEPT ![p] = op'[p]]
  BY DEF CallsOK, Go
<1> QED
  BY <1>1, StepOnly

\* What an edit that begins remembers.
Begun(w, o, call, s, n) ==
  /\ op' = [op EXCEPT ![w] = o] /\ o \in OpType
  /\ o.call = call /\ o.step = "task" /\ o.schedule = s /\ o.new = n
  /\ o.prev = entry[s] /\ o.prevTask \in {task[s], Unknown}
  /\ o.prevTask = Unknown => faults' > faults
  /\ o.completed = None /\ o.removed = {}

StartedAs(o, call, s, t) ==
  /\ o \in OpType
  /\ o.call = call /\ o.step = "task" /\ o.schedule = s
  /\ o.prev = entry[s] /\ o.prevTask = t
  /\ o.completed = None /\ o.removed = {}

LEMMA StartedIs ==
  ASSUME StoreType, NEW call \in EditCall, NEW s \in Schedule,
         NEW t \in {task[s], Unknown}
  PROVE  /\ StartedAs(Started(call, "task", s, t), call, s, t)
         /\ Started(call, "task", s, t).new = None
<1>1. /\ entry[s] \in Entry \cup {None}
      /\ t \in Snap \cup {None, Unknown}
  BY DEF StoreType, TypeOK
<1> DEFINE b == (t \notin {None, Unknown}) /\ RunningTask(s)
           o == Started(call, "task", s, t)
<1>2. b \in BOOLEAN
  OBVIOUS
<1>3. o = [Idle EXCEPT !.call = call, !.step = "task", !.schedule = s,
                       !.prev = entry[s], !.prevTask = t, !.running = b]
  BY DEF Started
<1> HIDE DEF b, o
<1>4. o = [call |-> call, step |-> "task", schedule |-> s, new |-> None,
           prev |-> entry[s], prevTask |-> t, running |-> b,
           completed |-> None, at |-> None, queued |-> {}, todo |-> {}, removed |-> {}]
  BY <1>3 DEF Idle
<1>5. StartedAs(o, call, s, t) /\ o.new = None
  BY <1>1, <1>2, <1>4 DEF OpType, Step, EditStep, StartedAs
<1> QED
  BY <1>5 DEF o

LEMMA NewIs ==
  ASSUME NEW o, NEW call, NEW s, NEW t, StartedAs(o, call, s, t), NEW n \in Snap
  PROVE  StartedAs([o EXCEPT !.new = n], call, s, t) /\ [o EXCEPT !.new = n].new = n
BY DEF OpType, StartedAs

\* Only a failure leaves the task of a schedule unknown.
LEMMA QueryFailed ==
  ASSUME StoreType, NEW s \in Schedule, Queried(s, Unknown)
  PROVE  faults' > faults
<1>1. task[s] # Unknown
  BY NoneIsNothing DEF StoreType, TypeOK
<1> QED
  BY <1>1 DEF Queried, Failing, StoreType

LEMMA SaveBegun ==
  ASSUME StoreType, CallsOK, NEW w \in Window, NEW s \in Schedule,
         NEW call \in {"register", "save"}, BeginSave(w, s, call)
  PROVE  \E o : Begun(w, o, call, s, made + 1) /\ made + 1 \in Snap
<1>1. made + 1 \in Snap
  BY RegistryAssumption DEF BeginSave, StoreType, TypeOK, Snap
<1>2. PICK t \in {task[s], Unknown} :
        /\ Queried(s, t)
        /\ op' = [op EXCEPT ![w] = [Started(call, "task", s, t) EXCEPT !.new = made + 1]]
  BY DEF BeginSave
<1> DEFINE o == [Started(call, "task", s, t) EXCEPT !.new = made + 1]
<1>3. call \in EditCall
  BY DEF EditCall
<1>5. StartedAs(Started(call, "task", s, t), call, s, t)
  BY <1>3, StartedIs
<1>4. StartedAs(o, call, s, t) /\ o.new = made + 1
  BY <1>1, <1>5, NewIs
<1>6. t = Unknown => faults' > faults
  BY <1>2, QueryFailed
<1> HIDE DEF o
<1> QED
  BY <1>1, <1>2, <1>4, <1>6 DEF Begun, StartedAs, o

LEMMA OtherBegun ==
  ASSUME StoreType, CallsOK, NEW w \in Window, NEW s \in Schedule,
         NEW call \in {"enable", "disable", "delete"},
         BeginApply(w, s, call) \/ (call = "delete" /\ BeginDelete(w, s))
  PROVE  \E o : Begun(w, o, call, s, None)
<1>2. PICK t \in {task[s], Unknown} :
        /\ Queried(s, t)
        /\ op' = [op EXCEPT ![w] = Started(call, "task", s, t)]
  BY DEF BeginApply, BeginDelete
<1> DEFINE o == Started(call, "task", s, t)
<1>3. call \in EditCall
  BY DEF EditCall
<1>4. StartedAs(o, call, s, t) /\ o.new = None
  BY <1>3, StartedIs
<1>6. t = Unknown => faults' > faults
  BY <1>2, QueryFailed
<1> HIDE DEF o
<1> QED
  BY <1>2, <1>4, <1>6 DEF Begun, StartedAs, o

\* Every step keeps the calls in order.
LEMMA CallsInv ==
  ASSUME StoreType, RunsOK, CallsOK, [Next]_vars
  PROVE  CallsOK'
<1> USE RegistryAssumption
<1>1. ASSUME NEW w \in Window, Look(w)
      PROVE  CallsOK'
  <2> DEFINE o == op'[w]
  <2>1. op' = [op EXCEPT ![w] = o] /\ (holder' = holder \/ holder \in {None, w})
    BY <1>1, NoneIsNothing DEF Look, At, Idle, CallsOK, Proc
  <2>2. o \in OpType
    BY <1>1, NoneIsNothing DEF Look, At, Idle, CallsOK, CallOK, OpType, Proc, StoreType,
       TypeOK, EditStep, EditCall, Step
  <2>3. CallOK(o)
    BY <1>1, NoneIsNothing DEF Look, At, Idle, CallsOK, CallOK, OpType, Proc, EditStep,
       EditCall
  <2>4. o.step \notin {"idle", "wait"} => holder' = w
    BY <1>1 DEF Look, At, Idle, CallsOK, OpType, Proc
  <2> HIDE DEF o
  <2> QED
    BY <2>1, <2>2, <2>3, <2>4, CallsKept DEF Proc
<1>2. ASSUME NEW w \in Window, Conflict(w)
      PROVE  CallsOK'
  <2> DEFINE o == op'[w]
  <2>1. op' = [op EXCEPT ![w] = o] /\ (holder' = holder \/ holder \in {None, w})
    BY <1>2, NoneIsNothing DEF Conflict, Enter, At, Idle, CallsOK, Proc
  <2>2. o \in OpType
    BY <1>2, NoneIsNothing DEF Conflict, Enter, At, Idle, CallsOK, CallOK, OpType, Proc,
       StoreType, TypeOK, EditStep, EditCall, Step
  <2>3. CallOK(o)
    BY <1>2, NoneIsNothing DEF Conflict, Enter, At, Idle, CallsOK, CallOK, OpType, Proc,
       EditStep, EditCall
  <2>4. o.step \notin {"idle", "wait"} => holder' = w
    BY <1>2 DEF Conflict, Enter, At, Idle, CallsOK, OpType, Proc
  <2> HIDE DEF o
  <2> QED
    BY <2>1, <2>2, <2>3, <2>4, CallsKept DEF Proc
<1>3. ASSUME NEW w \in Window, ConflictReported(w)
      PROVE  CallsOK'
  <2> DEFINE o == op'[w]
  <2>1. op' = [op EXCEPT ![w] = o] /\ (holder' = holder \/ holder \in {None, w})
    BY <1>3, NoneIsNothing DEF ConflictReported, End, At, Idle, CallsOK, Proc
  <2>2. o \in OpType
    BY <1>3, NoneIsNothing DEF ConflictReported, End, At, Idle, CallsOK, CallOK, OpType,
       Proc, StoreType, TypeOK, EditStep, EditCall, Step
  <2>3. CallOK(o)
    BY <1>3, NoneIsNothing DEF ConflictReported, End, At, Idle, CallsOK, CallOK, OpType,
       Proc, EditStep, EditCall
  <2>4. o.step \notin {"idle", "wait"} => holder' = w
    BY <1>3 DEF ConflictReported, End, At, Idle, CallsOK, OpType, Proc
  <2> HIDE DEF o
  <2> QED
    BY <2>1, <2>2, <2>3, <2>4, CallsKept DEF Proc
<1>4. ASSUME NEW w \in Window, NEW s \in Schedule, NEW call \in {"register",
             "save"}, BeginSave(w, s, call)
      PROVE  CallsOK'
  <2>1. PICK o : Begun(w, o, call, s, made + 1) /\ made + 1 \in Snap
    <3>1. call \in {"register", "save"}
      BY <1>4
    <3> QED
      BY <1>4, <3>1, SaveBegun
  <2>2. holder' = w /\ holder = None /\ w \in Proc
    BY <1>4 DEF BeginSave, Enter, Proc
  <2>3. CallOK(o) /\ o \in OpType /\ op' = [op EXCEPT ![w] = o]
    BY <1>4, <2>1, NoneIsNothing DEF BeginSave, Begun, CallOK, EditStep, EditCall
  <2> QED
    BY <2>2, <2>3, CallsKept
<1>5. ASSUME NEW w \in Window, NEW s \in Schedule, NEW call \in {"enable",
             "disable"}, BeginApply(w, s, call)
      PROVE  CallsOK'
  <2>1. PICK o : Begun(w, o, call, s, None)
    <3>1. call \in {"enable", "disable", "delete"}
      BY <1>5
    <3> QED
      BY <1>5, <3>1, OtherBegun
  <2>2. holder' = w /\ holder = None /\ w \in Proc
    BY <1>5 DEF BeginApply, Enter, Proc
  <2>3. CallOK(o) /\ o \in OpType /\ op' = [op EXCEPT ![w] = o]
    BY <1>5, <2>1, NoneIsNothing DEF BeginApply, Begun, CallOK, EditStep, EditCall
  <2> QED
    BY <2>2, <2>3, CallsKept
<1>6. ASSUME NEW w \in Window, NEW s \in Schedule, BeginDelete(w, s)
      PROVE  CallsOK'
  <2>1. PICK o : Begun(w, o, "delete", s, None)
    <3>1. "delete" \in {"enable", "disable", "delete"}
      BY <1>6
    <3> QED
      BY <1>6, <3>1, OtherBegun
  <2>2. holder' = w /\ holder = None /\ w \in Proc
    BY <1>6 DEF BeginDelete, Enter, Proc
  <2>3. CallOK(o) /\ o \in OpType /\ op' = [op EXCEPT ![w] = o]
    BY <1>6, <2>1, NoneIsNothing DEF BeginDelete, Begun, CallOK, EditStep, EditCall
  <2> QED
    BY <2>2, <2>3, CallsKept
<1>7. ASSUME NEW w \in Window, SetTask(w)
      PROVE  CallsOK'
  <2> DEFINE o == op'[w]
  <2>1. op' = [op EXCEPT ![w] = o] /\ (holder' = holder \/ holder \in {None, w})
    BY <1>7, NoneIsNothing DEF SetTask, Go, At, Idle, CallsOK, Proc
  <2>2. o \in OpType
    BY <1>7, GoesOn DEF SetTask, At, Step, EditStep, Proc
  <2>3. CallOK(o)
    BY <1>7, GoesOn DEF SetTask, At, Step, EditStep, Proc, CallsOK, CallOK
  <2>4. o.step \notin {"idle", "wait"} => holder' = w
    BY <1>7 DEF SetTask, Go, At, Idle, CallsOK, OpType, Proc
  <2> HIDE DEF o
  <2> QED
    BY <2>1, <2>2, <2>3, <2>4, CallsKept DEF Proc
<1>8. ASSUME NEW w \in Window, SetTaskFails(w)
      PROVE  CallsOK'
  <2> DEFINE o == op'[w]
  <2>1. op' = [op EXCEPT ![w] = o] /\ (holder' = holder \/ holder \in {None, w})
    BY <1>8, NoneIsNothing DEF SetTaskFails, Go, Failing, At, Idle, CallsOK, Proc
  <2>2. o \in OpType
    <3>1. Go(w, "restore") \/ Go(w, "discard")
      BY <1>8 DEF SetTaskFails
    <3> QED
      BY <3>1, GoesOn DEF Proc, Step, EditStep
  <2>3. CallOK(o)
    BY <1>8, NoneIsNothing DEF SetTaskFails, Go, Failing, At, Idle, CallsOK, CallOK,
       OpType, Proc, EditStep, EditCall
  <2>4. o.step \notin {"idle", "wait"} => holder' = w
    BY <1>8 DEF SetTaskFails, Go, Failing, At, Idle, CallsOK, OpType, Proc
  <2> HIDE DEF o
  <2> QED
    BY <2>1, <2>2, <2>3, <2>4, CallsKept DEF Proc
<1>9. ASSUME NEW w \in Window, Put(w)
      PROVE  CallsOK'
  <2> DEFINE o == op[w]
             n == [[o EXCEPT !.step = "queue"] EXCEPT
                     !.schedule = IF o.call = "enable" THEN None ELSE o.schedule]
  <2>1. o \in OpType /\ o.step = "put" /\ holder = w /\ CallOK(o) /\ w \in Proc
    BY <1>9 DEF Put, At, CallsOK, Proc
  <2>2. CASE Tidies(o)
    <3>1. op' = [op EXCEPT ![w] = n] /\ holder' = holder
      BY <1>9, <2>2 DEF Put, CallsOK
    <3>2. /\ n \in OpType /\ n.step = "queue" /\ n.call = o.call /\ n.prev = o.prev
          /\ n.new = o.new /\ (n.schedule = o.schedule \/ n.call = "enable")
      <4> DEFINE m == [o EXCEPT !.step = "queue"]
                 s == IF o.call = "enable" THEN None ELSE o.schedule
      <4>1. m \in OpType /\ m.step = "queue" /\ m.call = o.call /\ m.prev = o.prev /\ m.new = o.new
        BY <2>1, StepOnly DEF Step
      <4>2. s \in Schedule \cup {None}
        BY <2>1 DEF OpType
      <4>3. n = [m EXCEPT !.schedule = s]
        OBVIOUS
      <4> HIDE DEF m, n
      <4>4. n \in OpType /\ n.step = m.step /\ n.call = m.call /\ n.prev = m.prev /\ n.new = m.new
            /\ n.schedule = s
        <5> HIDE DEF s
        <5> QED
          BY <4>1, <4>2, <4>3 DEF OpType
      <4> QED
        BY <4>1, <4>4
    <3>3. CallOK(n)
      <4> HIDE DEF n
      <4> QED
        BY <2>1, <3>2 DEF CallOK, EditStep
    <3> HIDE DEF n
    <3> QED
      BY <2>1, <3>1, <3>2, <3>3, CallsKept
  <2>3. CASE ~Tidies(o)
    <3>1. op' = [op EXCEPT ![w] = Idle] /\ holder' = None
      BY <1>9, <2>3 DEF Put, End
    <3>2. CallOK(Idle) /\ Idle.step = "idle"
      BY DEF CallOK, Idle, EditStep
    <3> QED
      BY <2>1, <3>1, <3>2, CallsKept, NoneIsNothing
  <2> QED
    BY <2>2, <2>3
<1>10. ASSUME NEW w \in Window, PutFails(w)
      PROVE  CallsOK'
  <2> DEFINE o == op'[w]
  <2>1. op' = [op EXCEPT ![w] = o] /\ (holder' = holder \/ holder \in {None, w})
    BY <1>10, NoneIsNothing DEF PutFails, Go, Failing, At, Idle, CallsOK, Proc
  <2>2. o \in OpType
    BY <1>10, NoneIsNothing DEF PutFails, Go, Failing, At, Idle, CallsOK, CallOK,
       OpType, Proc, StoreType, TypeOK, EditStep, EditCall, Step
  <2>3. CallOK(o)
    BY <1>10, NoneIsNothing DEF PutFails, Go, Failing, At, Idle, CallsOK, CallOK,
       OpType, Proc, EditStep, EditCall
  <2>4. o.step \notin {"idle", "wait"} => holder' = w
    BY <1>10 DEF PutFails, Go, Failing, At, Idle, CallsOK, OpType, Proc
  <2> HIDE DEF o
  <2> QED
    BY <2>1, <2>2, <2>3, <2>4, CallsKept DEF Proc
<1>11. ASSUME NEW w \in Window, RestoreTask(w)
      PROVE  CallsOK'
  <2> DEFINE o == op'[w]
  <2>1. op' = [op EXCEPT ![w] = o] /\ (holder' = holder \/ holder \in {None, w})
    BY <1>11, NoneIsNothing DEF RestoreTask, Go, At, Idle, CallsOK, Proc
  <2>2. o \in OpType
    BY <1>11, GoesOn DEF RestoreTask, At, Step, EditStep, Proc
  <2>3. CallOK(o)
    BY <1>11, GoesOn DEF RestoreTask, At, Step, EditStep, Proc, CallsOK, CallOK
  <2>4. o.step \notin {"idle", "wait"} => holder' = w
    BY <1>11 DEF RestoreTask, Go, At, Idle, CallsOK, OpType, Proc
  <2> HIDE DEF o
  <2> QED
    BY <2>1, <2>2, <2>3, <2>4, CallsKept DEF Proc
<1>12. ASSUME NEW w \in Window, RestoreFails(w)
      PROVE  CallsOK'
  <2> DEFINE o == op'[w]
  <2>1. op' = [op EXCEPT ![w] = o] /\ (holder' = holder \/ holder \in {None, w})
    BY <1>12, NoneIsNothing DEF RestoreFails, End, Failing, At, Idle, CallsOK, Proc
  <2>2. o \in OpType
    BY <1>12, NoneIsNothing DEF RestoreFails, End, Failing, At, Idle, CallsOK, CallOK,
       OpType, Proc, StoreType, TypeOK, EditStep, EditCall, Step
  <2>3. CallOK(o)
    BY <1>12, NoneIsNothing DEF RestoreFails, End, Failing, At, Idle, CallsOK, CallOK,
       OpType, Proc, EditStep, EditCall
  <2>4. o.step \notin {"idle", "wait"} => holder' = w
    BY <1>12 DEF RestoreFails, End, Failing, At, Idle, CallsOK, OpType, Proc
  <2> HIDE DEF o
  <2> QED
    BY <2>1, <2>2, <2>3, <2>4, CallsKept DEF Proc
<1>13. ASSUME NEW w \in Window, Discard(w)
      PROVE  CallsOK'
  <2> DEFINE o == op'[w]
  <2>1. op' = [op EXCEPT ![w] = o] /\ (holder' = holder \/ holder \in {None, w})
    BY <1>13, NoneIsNothing DEF Discard, End, At, Idle, CallsOK, Proc
  <2>2. o \in OpType
    BY <1>13, NoneIsNothing DEF Discard, End, At, Idle, CallsOK, CallOK, OpType, Proc,
       StoreType, TypeOK, EditStep, EditCall, Step
  <2>3. CallOK(o)
    BY <1>13, NoneIsNothing DEF Discard, End, At, Idle, CallsOK, CallOK, OpType, Proc,
       EditStep, EditCall
  <2>4. o.step \notin {"idle", "wait"} => holder' = w
    BY <1>13 DEF Discard, End, At, Idle, CallsOK, OpType, Proc
  <2> HIDE DEF o
  <2> QED
    BY <2>1, <2>2, <2>3, <2>4, CallsKept DEF Proc
<1>14. ASSUME NEW p \in Proc, BeginCleanup(p)
      PROVE  CallsOK'
  <2> DEFINE n == op'[p]
  <2>1. QueuedSnaps \in SUBSET Snap
    BY DEF QueuedSnaps, RunsOK, StoreType, TypeOK
  <2>2. serves # None => run[serves].schedule \in Schedule /\ run[serves].snap \in Snap
    BY DEF RunsOK, StoreType, TypeOK
  <2>3. op' = [op EXCEPT ![p] = n] /\ holder' = holder
    BY <1>14 DEF BeginCleanup, CallsOK
  <2>4. n \in OpType /\ n.step = "wait" /\ n.call \in {"cleanup", "finalize"} /\ n.new = None
    <3>1. CASE p \in Window
      <4>1. n = [Idle EXCEPT !.call = "cleanup", !.step = "wait", !.queued = QueuedSnaps]
        BY <1>14, <3>1, RegistryAssumption DEF BeginCleanup, CallsOK
      <4> QED
        BY <2>1, <4>1 DEF Idle, OpType, Step
    <3>2. CASE p \in Run
      <4>1. p = dispatcher /\ run[p].step = "running" /\ serves # None
        BY <1>14, <3>2, RegistryAssumption, NoneIsNothing DEF BeginCleanup, RunsOK,
           Dispatching, Proc
      <4>2. n = [Idle EXCEPT !.call = "finalize", !.step = "wait", !.queued = QueuedSnaps,
                             !.schedule = run[serves].schedule,
                             !.completed = run[serves].snap]
        BY <1>14, <3>2, RegistryAssumption DEF BeginCleanup, CallsOK
      <4> HIDE DEF n
      <4> QED
        BY <2>1, <2>2, <4>1, <4>2 DEF Idle, OpType, Step
    <3> QED
      BY <3>1, <3>2 DEF Proc
  <2>5. CallOK(n)
    BY <2>4 DEF CallOK, EditStep
  <2> HIDE DEF n
  <2> QED
    BY <2>3, <2>4, <2>5, CallsKept
<1>15. ASSUME NEW p \in Proc, Scan(p)
      PROVE  CallsOK'
  <2> DEFINE n == op'[p]
  <2>1. QueuedSnaps \in SUBSET Snap /\ Retained(op[p].schedule) \in SUBSET Pair
    BY DEF QueuedSnaps, Retained, Pair, RunsOK, StoreType, TypeOK
  <2>2. op[p] \in OpType /\ CallOK(op[p]) /\ op[p].step \in {"wait", "queue"}
    BY <1>15 DEF Scan, At, CallsOK
  <2>3. op' = [op EXCEPT ![p] = n] /\ holder' = p
    BY <1>15, <2>2 DEF Scan, CallsOK
  <2>4. holder \in {None, p}
    BY <1>15 DEF Scan, At, CallsOK
  <2>5. n \in OpType /\ n.step = "collect" /\ n.call = op[p].call /\ n.prev = op[p].prev
        /\ n.new = op[p].new /\ n.schedule = op[p].schedule
    <3> DEFINE m == [op[p] EXCEPT !.step = "collect", !.todo = Retained(op[p].schedule)]
    <3>1. m \in OpType /\ m.step = "collect" /\ m.call = op[p].call /\ m.prev = op[p].prev
          /\ m.new = op[p].new /\ m.schedule = op[p].schedule
      <4> DEFINE R == Retained(op[p].schedule)
      <4> HIDE DEF R, n
      <4> QED
        BY ZenonT(40), <2>1, <2>2 DEF OpType, Step, R
    <3>2. n \in {m, [m EXCEPT !.queued = QueuedSnaps]}
      BY <1>15, <2>2 DEF Scan, CallsOK
    <3> HIDE DEF m, n
    <3> QED
      BY <2>1, <3>1, <3>2 DEF OpType
  <2> HIDE DEF n
  <2>6. CallOK(n)
    BY <2>2, <2>5 DEF CallOK, EditStep
  <2> QED
    BY <2>3, <2>4, <2>5, <2>6, CallsKept
<1>16. ASSUME NEW p \in Proc, QueueUnreadable(p)
      PROVE  CallsOK'
  <2> DEFINE o == op'[p]
  <2>1. op' = [op EXCEPT ![p] = o] /\ (holder' = holder \/ holder \in {None, p})
    BY <1>16, NoneIsNothing DEF QueueUnreadable, End, Failing, At, Idle, CallsOK, Proc
  <2>2. o \in OpType
    BY <1>16, NoneIsNothing DEF QueueUnreadable, End, Failing, At, Idle, CallsOK,
       CallOK, OpType, Proc, StoreType, TypeOK, EditStep, EditCall, Step
  <2>3. CallOK(o)
    BY <1>16, NoneIsNothing DEF QueueUnreadable, End, Failing, At, Idle, CallsOK,
       CallOK, OpType, Proc, EditStep, EditCall
  <2>4. o.step \notin {"idle", "wait"} => holder' = p
    BY <1>16 DEF QueueUnreadable, End, Failing, At, Idle, CallsOK, OpType, Proc
  <2> HIDE DEF o
  <2> QED
    BY <2>1, <2>2, <2>3, <2>4, CallsKept DEF Proc
<1>17. ASSUME NEW p \in Proc, Inspect(p)
      PROVE  CallsOK'
  <2> DEFINE o == op'[p]
  <2>1. op' = [op EXCEPT ![p] = o] /\ (holder' = holder \/ holder \in {None, p})
    BY <1>17, NoneIsNothing DEF Inspect, Failing, At, Idle, CallsOK, Proc
  <2>2. o \in OpType
    <3>1. /\ op[p] \in OpType /\ op[p].todo \in SUBSET Pair
          /\ {"unlink", "collect"} \subseteq Step
      BY DEF CallsOK, OpType, Step
    <3>2. PICK c \in op[p].todo : \/ o = [op[p] EXCEPT !.step = "unlink", !.at = c]
                                 \/ o = [op[p] EXCEPT !.todo = @ \ {c}]
      BY <1>17 DEF Inspect, CallsOK
    <3> HIDE DEF o
    <3>3. c \in Pair \cup {None} /\ op[p].todo \ {c} \in SUBSET Pair
      BY <3>1
    <3>4. CASE o = [op[p] EXCEPT !.step = "unlink", !.at = c]
      BY <3>1, <3>3, <3>4 DEF OpType
    <3>5. CASE o = [op[p] EXCEPT !.todo = @ \ {c}]
      BY <3>1, <3>3, <3>5 DEF OpType
    <3> QED
      BY <3>2, <3>4, <3>5
  <2>3. CallOK(o)
    BY <1>17, NoneIsNothing DEF Inspect, Failing, At, Idle, CallsOK, CallOK, OpType,
       Proc, EditStep, EditCall
  <2>4. o.step \notin {"idle", "wait"} => holder' = p
    BY <1>17 DEF Inspect, Failing, At, Idle, CallsOK, OpType, Proc
  <2> HIDE DEF o
  <2> QED
    BY <2>1, <2>2, <2>3, <2>4, CallsKept DEF Proc
<1>18. ASSUME NEW p \in Proc, Unlink(p)
      PROVE  CallsOK'
  <2> DEFINE o == op'[p]
  <2>1. op' = [op EXCEPT ![p] = o] /\ (holder' = holder \/ holder \in {None, p})
    BY <1>18, NoneIsNothing DEF Unlink, At, Idle, CallsOK, Proc
  <2>2. o \in OpType
    BY <1>18, NoneIsNothing DEF Unlink, At, Idle, CallsOK, CallOK, OpType, Proc,
       StoreType, TypeOK, EditStep, EditCall, Step
  <2>3. CallOK(o)
    BY <1>18, NoneIsNothing DEF Unlink, At, Idle, CallsOK, CallOK, OpType, Proc,
       EditStep, EditCall
  <2>4. o.step \notin {"idle", "wait"} => holder' = p
    BY <1>18 DEF Unlink, At, Idle, CallsOK, OpType, Proc
  <2> HIDE DEF o
  <2> QED
    BY <2>1, <2>2, <2>3, <2>4, CallsKept DEF Proc
<1>19. ASSUME NEW p \in Proc, Collected(p)
      PROVE  CallsOK'
  <2> DEFINE o == op'[p]
  <2>1. op' = [op EXCEPT ![p] = o] /\ (holder' = holder \/ holder \in {None, p})
    BY <1>19, NoneIsNothing DEF Collected, End, At, Idle, CallsOK, Proc
  <2>2. o \in OpType
    BY <1>19, NoneIsNothing DEF Collected, End, At, Idle, CallsOK, CallOK, OpType, Proc,
       StoreType, TypeOK, EditStep, EditCall, Step
  <2>3. CallOK(o)
    BY <1>19, NoneIsNothing DEF Collected, End, At, Idle, CallsOK, CallOK, OpType, Proc,
       EditStep, EditCall
  <2>4. o.step \notin {"idle", "wait"} => holder' = p
    BY <1>19 DEF Collected, End, At, Idle, CallsOK, OpType, Proc
  <2> HIDE DEF o
  <2> QED
    BY <2>1, <2>2, <2>3, <2>4, CallsKept DEF Proc
<1>20. ASSUME NEW p \in Proc, CollectFails(p)
      PROVE  CallsOK'
  <2>1. op[p].step = "collect" /\ holder = p /\ CallOK(op[p]) /\ op[p] \in OpType
    BY <1>20 DEF CollectFails, At, CallsOK
  <2>2. CASE op[p].call \in {"register", "save"}
    <3>1. PICK step \in {"restore", "discard"} : Go(p, step) /\ holder' = holder
      BY <1>20, <2>2 DEF CollectFails, Go
    <3>2. op'[p].step \in {"restore", "discard"} /\ op' = [op EXCEPT ![p] = op'[p]] /\ op'[p] \in OpType
      BY <3>1, GoesOn DEF Step, EditStep
    <3>3. CallOK(op'[p])
      BY <2>1, <2>2, <3>1, <3>2, GoesOn DEF CallOK, EditStep, EditCall, Step
    <3> QED
      BY <2>1, <3>1, <3>2, <3>3, CallsKept
  <2>3. CASE op[p].call \notin {"register", "save"}
    <3>1. op' = [op EXCEPT ![p] = Idle] /\ holder' = None
      BY <1>20, <2>3 DEF CollectFails, End
    <3>2. CallOK(Idle) /\ Idle.step = "idle"
      BY DEF CallOK, Idle, EditStep
    <3> QED
      BY <2>1, <3>1, <3>2, CallsKept, NoneIsNothing
  <2> QED
    BY <2>2, <2>3
<1>21. ASSUME NEW p \in Proc, Crash(p)
      PROVE  CallsOK'
  <2> DEFINE o == op'[p]
  <2>1. op' = [op EXCEPT ![p] = o] /\ (holder' = holder \/ holder \in {None, p})
    BY <1>21, NoneIsNothing DEF Crash, At, Idle, CallsOK, Proc
  <2>2. o \in OpType
    BY <1>21, NoneIsNothing DEF Crash, At, Idle, CallsOK, CallOK, OpType, Proc,
       StoreType, TypeOK, EditStep, EditCall, Step
  <2>3. CallOK(o)
    BY <1>21, NoneIsNothing DEF Crash, At, Idle, CallsOK, CallOK, OpType, Proc,
       EditStep, EditCall
  <2>4. o.step \notin {"idle", "wait"} => holder' = p
    BY <1>21 DEF Crash, At, Idle, CallsOK, OpType, Proc
  <2> HIDE DEF o
  <2> QED
    BY <2>1, <2>2, <2>3, <2>4, CallsKept DEF Proc
<1>22. ASSUME NEW r \in Run, RunStep(r)
      PROVE  CallsOK'
  BY <1>22, RunStepFrame DEF stores, registryVars, runVars, ghosts, bounds, CallsOK
<1>23. CASE UNCHANGED vars
  BY <1>23 DEF vars, stores, registryVars, runVars, ghosts, bounds, CallsOK
<1> QED
    BY <1>1, <1>2, <1>3, <1>4, <1>5, <1>6, <1>7, <1>8, <1>9, <1>10, <1>11, <1>12,
     <1>13, <1>14, <1>15, <1>16, <1>17, <1>18, <1>19, <1>20, <1>21, <1>22, <1>23 DEF
     Next, Edit, Cleanup

\* A cleanup begins with the snapshots of the queue; a finalisation is about the run
\* that its dispatcher serves.
LEMMA CleanupBegun ==
  ASSUME CallsOK, NEW p \in Proc, BeginCleanup(p)
  PROVE  /\ op' = [op EXCEPT ![p] = op'[p]]
         /\ op'[p].step = "wait" /\ op'[p].removed = {} /\ op'[p].prev = None
         /\ op'[p].queued = QueuedSnaps
         /\ \/ p \in Window /\ op'[p].call = "cleanup" /\ op'[p].completed = None
            \/ p \in Run /\ op'[p].call = "finalize" /\ op'[p].completed = run[serves].snap
<1>1. op' = [op EXCEPT ![p] = op'[p]]
  BY DEF BeginCleanup, CallsOK
<1>2. CASE p \in Window
  <2>1. op'[p] = [Idle EXCEPT !.call = "cleanup", !.step = "wait", !.queued = QueuedSnaps]
    BY <1>2, RegistryAssumption DEF BeginCleanup, CallsOK
  <2> QED
    BY <1>1, <1>2, <2>1 DEF Idle
<1>3. CASE p \in Run
  <2>1. op'[p] = [Idle EXCEPT !.call = "finalize", !.step = "wait", !.queued = QueuedSnaps,
                              !.schedule = run[serves].schedule,
                              !.completed = run[serves].snap]
    BY <1>3, RegistryAssumption DEF BeginCleanup, CallsOK
  <2> QED
    BY <1>1, <1>3, <2>1 DEF Idle
<1> QED
  BY <1>2, <1>3 DEF Proc

LEMMA RevisionsKept ==
  ASSUME RevisionsOK, StoreType, UNCHANGED <<rev, entry>>,
         \/ seen' = seen
         \/ \E w \in Window : seen' = [seen EXCEPT ![w] = None]
  PROVE  RevisionsOK'
<1>1. ASSUME NEW v \in Window, seen'[v] # None
      PROVE  seen'[v] = seen[v]
  BY <1>1 DEF StoreType
<1> QED
  BY <1>1 DEF RevisionsOK

\* Who reads sees what is registered, and no write hides from those that have read
\* before.
LEMMA RevisionsInv ==
  ASSUME StoreType, CallsOK, FoldersOK, RevisionsOK, [Next]_vars
  PROVE  RevisionsOK'
<1>1. ASSUME NEW w \in Window, Look(w)
      PROVE  RevisionsOK'
  <2>1. /\ UNCHANGED <<rev, entry>> /\ rev \in Nat
        /\ seen' = [seen EXCEPT ![w] = [rev |-> rev, entry |-> entry]]
    BY <1>1 DEF Look, StoreType, TypeOK, stores, registryVars
  <2>2. ASSUME NEW v \in Window
        PROVE  \/ seen'[v] = seen[v]
               \/ seen'[v].rev = rev /\ seen'[v].entry = entry
    BY <2>1 DEF StoreType
  <2> QED
    BY <2>1, <2>2 DEF RevisionsOK
<1>2. ASSUME NEW w \in Window, Conflict(w)
      PROVE  RevisionsOK'
  BY <1>2, RevisionsKept DEF Conflict, stores, registryVars
<1>3. ASSUME NEW w \in Window, ConflictReported(w)
      PROVE  RevisionsOK'
  BY <1>3, RevisionsKept DEF ConflictReported, End, stores, registryVars
<1>4. ASSUME NEW w \in Window, NEW s \in Schedule, NEW call, BeginSave(w, s, call)
      PROVE  RevisionsOK'
  BY <1>4, RevisionsKept DEF BeginSave, stores, registryVars
<1>5. ASSUME NEW w \in Window, NEW s \in Schedule, NEW call, BeginApply(w, s, call)
      PROVE  RevisionsOK'
  BY <1>5, RevisionsKept DEF BeginApply, stores, registryVars
<1>6. ASSUME NEW w \in Window, NEW s \in Schedule, BeginDelete(w, s)
      PROVE  RevisionsOK'
  BY <1>6, RevisionsKept DEF BeginDelete, stores, registryVars
<1>7. ASSUME NEW w \in Window, SetTask(w)
      PROVE  RevisionsOK'
  BY <1>7, RevisionsKept DEF SetTask, stores, registryVars
<1>8. ASSUME NEW w \in Window, SetTaskFails(w)
      PROVE  RevisionsOK'
  BY <1>8, RevisionsKept DEF SetTaskFails, stores, registryVars
<1>9. ASSUME NEW w \in Window, PutFails(w)
      PROVE  RevisionsOK'
  BY <1>9, RevisionsKept DEF PutFails, stores, registryVars
<1>10. ASSUME NEW w \in Window, RestoreTask(w)
      PROVE  RevisionsOK'
  BY <1>10, RevisionsKept DEF RestoreTask, stores, registryVars
<1>11. ASSUME NEW w \in Window, RestoreFails(w)
      PROVE  RevisionsOK'
  BY <1>11, RevisionsKept DEF RestoreFails, End, stores, registryVars
<1>12. ASSUME NEW w \in Window, Discard(w)
      PROVE  RevisionsOK'
  BY <1>12, RevisionsKept DEF Discard, End, stores, registryVars
<1>13. ASSUME NEW p \in Proc, BeginCleanup(p)
      PROVE  RevisionsOK'
  BY <1>13, RevisionsKept DEF BeginCleanup, stores, registryVars
<1>14. ASSUME NEW p \in Proc, Scan(p)
      PROVE  RevisionsOK'
  BY <1>14, RevisionsKept DEF Scan, stores, registryVars
<1>15. ASSUME NEW p \in Proc, QueueUnreadable(p)
      PROVE  RevisionsOK'
  BY <1>15, RevisionsKept DEF QueueUnreadable, End, stores, registryVars
<1>16. ASSUME NEW p \in Proc, Inspect(p)
      PROVE  RevisionsOK'
  BY <1>16, RevisionsKept DEF Inspect, stores, registryVars
<1>17. ASSUME NEW p \in Proc, Unlink(p)
      PROVE  RevisionsOK'
  BY <1>17, RevisionsKept DEF Unlink, stores, registryVars
<1>18. ASSUME NEW p \in Proc, CollectFails(p)
      PROVE  RevisionsOK'
  BY <1>18, RevisionsKept DEF CollectFails, End, stores, registryVars
<1>19. ASSUME NEW p \in Proc, Crash(p)
      PROVE  RevisionsOK'
  BY <1>19, RevisionsKept DEF Crash, stores, registryVars
<1>20. ASSUME NEW w \in Window, Put(w)
      PROVE  RevisionsOK'
  <2>1. rev' = rev + 1 /\ rev \in Nat
    BY <1>20, PutWrites DEF StoreType, TypeOK
  <2>2. \A v \in Window : seen'[v] # None => seen'[v].rev \in Nat /\ seen'[v].rev <= rev
    BY <1>20 DEF Put, End, StoreType, RevisionsOK, Reading
  <2> QED
    BY <2>1, <2>2 DEF RevisionsOK
<1>21. ASSUME NEW p \in Proc, Collected(p)
      PROVE  RevisionsOK'
  <2>1. CASE op[p].removed = {}
    BY <1>21, <2>1, RevisionsKept DEF Collected, End, registryVars
  <2>2. CASE op[p].removed # {}
    <3>1. rev' = rev + 1 /\ rev \in Nat
      BY <1>21, <2>2, CollectedWrites DEF StoreType, TypeOK
    <3>2. \A v \in Window : seen'[v] # None => seen'[v].rev \in Nat /\ seen'[v].rev <= rev
      BY <1>21 DEF Collected, End, StoreType, RevisionsOK, Reading
    <3> QED
      BY <3>1, <3>2 DEF RevisionsOK
  <2> QED
    BY <2>1, <2>2
<1>22. ASSUME NEW r \in Run, RunStep(r)
      PROVE  RevisionsOK'
  BY <1>22, RunStepFrame DEF stores, registryVars, RevisionsOK
<1>23. CASE UNCHANGED vars
  BY <1>23 DEF vars, stores, registryVars, RevisionsOK
<1> QED
  BY <1>1, <1>2, <1>3, <1>4, <1>5, <1>6, <1>7, <1>8, <1>9, <1>10, <1>11, <1>12,
     <1>13, <1>14, <1>15, <1>16, <1>17, <1>18, <1>19, <1>20, <1>21, <1>22, <1>23 DEF
     Next, Edit, Cleanup

LEMMA FoldersKept ==
  ASSUME FoldersOK, StoreType, CallsOK, NEW p \in Proc, op' = [op EXCEPT ![p] = op'[p]],
         sequence' \in Nat, sequence <= sequence',
         \A s \in Schedule : entry'[s] # None => entry'[s].key < sequence',
         op'[p].prev # None => op'[p].prev = op[p].prev \/ \E s \in Schedule : op'[p].prev = entry[s],
         UNCHANGED folders
  PROVE  FoldersOK'
<1>1. sequence \in Nat /\ \A f \in folders : f[1] \in Nat
  BY DEF StoreType, TypeOK
<1>2. ASSUME NEW q \in Proc, op'[q].prev # None
      PROVE  op'[q].prev.key < sequence'
  <2>1. \/ op[q].prev # None /\ op'[q].prev = op[q].prev
        \/ \E s \in Schedule : entry[s] # None /\ op'[q].prev = entry[s]
    BY <1>2 DEF CallsOK
  <2>2. op'[q].prev.key \in Nat /\ op'[q].prev.key < sequence
    BY <2>1 DEF FoldersOK, CallsOK, OpType, StoreType, TypeOK, Entry
  <2> QED
    BY <1>1, <2>2
<1>3. \A f \in folders : f[1] < sequence'
  BY <1>1 DEF FoldersOK
<1> QED
  BY <1>2, <1>3 DEF FoldersOK, FolderOfOneSchedule

\* A new folder has a number that nobody has had.
LEMMA FoldersInv ==
  ASSUME StoreType, CallsOK, FoldersOK, [Next]_vars
  PROVE  FoldersOK'
<1> USE RegistryAssumption
<1>1. ASSUME NEW w \in Window, Look(w)
      PROVE  FoldersOK'
  <2>1. UNCHANGED <<sequence, entry, folders>> /\ w \in Proc
    BY <1>1 DEF Look, At, CallsOK, Proc, stores, registryVars, ghosts
  <2>2. op' = [op EXCEPT ![w] = op'[w]]
    BY <1>1, <2>1 DEF Look, At, CallsOK
  <2>3. op'[w].prev # None => op'[w].prev = op[w].prev \/ \E t \in Schedule : op'[w].prev = entry[t]
    BY <1>1, <2>1 DEF Look, At, CallsOK, OpType, Idle
  <2> QED
    BY <2>1, <2>2, <2>3, FoldersKept DEF StoreType, TypeOK, FoldersOK
<1>2. ASSUME NEW w \in Window, Conflict(w)
      PROVE  FoldersOK'
  <2>1. UNCHANGED <<sequence, entry, folders>> /\ w \in Proc
    BY <1>2 DEF Conflict, Enter, At, CallsOK, Proc, stores, registryVars, ghosts
  <2>2. op' = [op EXCEPT ![w] = op'[w]]
    BY <1>2, <2>1 DEF Conflict, Enter, At, CallsOK
  <2>3. op'[w].prev # None => op'[w].prev = op[w].prev \/ \E t \in Schedule : op'[w].prev = entry[t]
    BY <1>2, <2>1 DEF Conflict, Enter, At, CallsOK, OpType, Idle
  <2> QED
    BY <2>1, <2>2, <2>3, FoldersKept DEF StoreType, TypeOK, FoldersOK
<1>3. ASSUME NEW w \in Window, ConflictReported(w)
      PROVE  FoldersOK'
  <2>1. UNCHANGED <<sequence, entry, folders>> /\ w \in Proc
    BY <1>3 DEF ConflictReported, End, At, CallsOK, Proc, stores, registryVars, ghosts
  <2>2. op' = [op EXCEPT ![w] = op'[w]]
    BY <1>3, <2>1 DEF ConflictReported, End, At, CallsOK
  <2>3. op'[w].prev # None => op'[w].prev = op[w].prev \/ \E t \in Schedule : op'[w].prev = entry[t]
    BY <1>3, <2>1 DEF ConflictReported, End, At, CallsOK, OpType, Idle
  <2> QED
    BY <2>1, <2>2, <2>3, FoldersKept DEF StoreType, TypeOK, FoldersOK
<1>4. ASSUME NEW w \in Window, NEW s \in Schedule, NEW call \in {"register",
             "save"}, BeginSave(w, s, call)
      PROVE  FoldersOK'
  <2>1. UNCHANGED <<sequence, entry, folders>> /\ w \in Proc
    BY <1>4 DEF BeginSave, Enter, CallsOK, Proc, stores, registryVars, ghosts
  <2>2. op' = [op EXCEPT ![w] = op'[w]]
    <3>1. call \in {"register", "save"}
      BY <1>4
    <3>2. PICK o : Begun(w, o, call, s, made + 1)
      BY <1>4, <3>1, SaveBegun
    <3> QED
      BY <2>1, <3>2 DEF Begun, CallsOK
  <2>3. op'[w].prev # None => op'[w].prev = op[w].prev \/ \E t \in Schedule : op'[w].prev = entry[t]
    <3>1. call \in {"register", "save"}
      BY <1>4
    <3>2. PICK o : Begun(w, o, call, s, made + 1)
      BY <1>4, <3>1, SaveBegun
    <3> QED
      BY <1>4, <2>1, <3>2 DEF Begun, CallsOK
  <2> QED
    BY <2>1, <2>2, <2>3, FoldersKept DEF StoreType, TypeOK, FoldersOK
<1>5. ASSUME NEW w \in Window, NEW s \in Schedule, NEW call \in {"enable",
             "disable"}, BeginApply(w, s, call)
      PROVE  FoldersOK'
  <2>1. UNCHANGED <<sequence, entry, folders>> /\ w \in Proc
    BY <1>5 DEF BeginApply, Enter, CallsOK, Proc, stores, registryVars, ghosts
  <2>2. op' = [op EXCEPT ![w] = op'[w]]
    <3>1. call \in {"enable", "disable", "delete"}
      BY <1>5
    <3>2. PICK o : Begun(w, o, call, s, None)
      BY <1>5, <3>1, OtherBegun
    <3> QED
      BY <2>1, <3>2 DEF Begun, CallsOK
  <2>3. op'[w].prev # None => op'[w].prev = op[w].prev \/ \E t \in Schedule : op'[w].prev = entry[t]
    <3>1. call \in {"enable", "disable", "delete"}
      BY <1>5
    <3>2. PICK o : Begun(w, o, call, s, None)
      BY <1>5, <3>1, OtherBegun
    <3> QED
      BY <1>5, <2>1, <3>2 DEF Begun, CallsOK
  <2> QED
    BY <2>1, <2>2, <2>3, FoldersKept DEF StoreType, TypeOK, FoldersOK
<1>6. ASSUME NEW w \in Window, NEW s \in Schedule, BeginDelete(w, s)
      PROVE  FoldersOK'
  <2>1. UNCHANGED <<sequence, entry, folders>> /\ w \in Proc
    BY <1>6 DEF BeginDelete, Enter, CallsOK, Proc, stores, registryVars, ghosts
  <2>2. op' = [op EXCEPT ![w] = op'[w]]
    <3>1. "delete" \in {"enable", "disable", "delete"}
      BY <1>6
    <3>2. PICK o : Begun(w, o, "delete", s, None)
      BY <1>6, <3>1, OtherBegun
    <3> QED
      BY <2>1, <3>2 DEF Begun, CallsOK
  <2>3. op'[w].prev # None => op'[w].prev = op[w].prev \/ \E t \in Schedule : op'[w].prev = entry[t]
    <3>1. "delete" \in {"enable", "disable", "delete"}
      BY <1>6
    <3>2. PICK o : Begun(w, o, "delete", s, None)
      BY <1>6, <3>1, OtherBegun
    <3> QED
      BY <1>6, <2>1, <3>2 DEF Begun, CallsOK
  <2> QED
    BY <2>1, <2>2, <2>3, FoldersKept DEF StoreType, TypeOK, FoldersOK
<1>7. ASSUME NEW w \in Window, SetTask(w)
      PROVE  FoldersOK'
  <2>1. UNCHANGED <<sequence, entry, folders>> /\ w \in Proc
    BY <1>7 DEF SetTask, Go, At, CallsOK, Proc, stores, registryVars, ghosts
  <2>2. op' = [op EXCEPT ![w] = op'[w]]
    BY <1>7, <2>1 DEF SetTask, Go, At, CallsOK
  <2>3. op'[w].prev # None => op'[w].prev = op[w].prev \/ \E t \in Schedule : op'[w].prev = entry[t]
    BY <1>7, <2>1 DEF SetTask, Go, At, CallsOK, OpType, Idle
  <2> QED
    BY <2>1, <2>2, <2>3, FoldersKept DEF StoreType, TypeOK, FoldersOK
<1>8. ASSUME NEW w \in Window, SetTaskFails(w)
      PROVE  FoldersOK'
  <2>1. UNCHANGED <<sequence, entry, folders>> /\ w \in Proc
    BY <1>8 DEF SetTaskFails, Go, At, CallsOK, Proc, stores, registryVars, ghosts
  <2>2. op' = [op EXCEPT ![w] = op'[w]]
    BY <1>8, <2>1 DEF SetTaskFails, Go, At, CallsOK
  <2>3. op'[w].prev # None => op'[w].prev = op[w].prev \/ \E t \in Schedule : op'[w].prev = entry[t]
    BY <1>8, <2>1 DEF SetTaskFails, Go, At, CallsOK, OpType, Idle
  <2> QED
    BY <2>1, <2>2, <2>3, FoldersKept DEF StoreType, TypeOK, FoldersOK
<1>9. ASSUME NEW w \in Window, Put(w)
      PROVE  FoldersOK'
  <2> DEFINE o == op[w]
  <2>1. /\ w \in Proc /\ o.schedule \in Schedule /\ o.step = "put" /\ sequence \in Nat
        /\ KeyFor(o.prev) \in Nat /\ rev' = rev + 1 /\ sequence' \in Nat /\ sequence <= sequence'
        /\ entry' = [entry EXCEPT ![o.schedule] = EntryAfter(o)]
        /\ \A s \in Schedule : entry'[s] # None => entry'[s].key < sequence'
    BY <1>9, PutWrites DEF StoreType, TypeOK, EntryAfterIs
  <2>2. op' = [op EXCEPT ![w] = op'[w]] /\ (op'[w].prev # None => op'[w].prev = o.prev)
    BY <1>9, <2>1 DEF Put, End, CallsOK, OpType, Idle
  <2>3. CASE UNCHANGED folders
    BY <2>1, <2>2, <2>3, FoldersKept
  <2>4. CASE /\ o.call \in {"register", "save"} /\ o.prev = None
             /\ folders' = folders \cup {<<KeyFor(o.prev), lives>>}
    <3>1. KeyFor(o.prev) = sequence
      BY <2>4, NextKeyIs DEF KeyFor
    <3>2. EntryAfter(o) # None /\ EntryAfter(o).key = sequence
      BY <1>9, <2>4, <3>1, NoneIsNothing, PutWrites DEF EntryAfterIs
    <3>3. sequence < sequence'
      BY <2>1, <3>2 DEF StoreType, TypeOK
    <3>4. \A q \in Proc : op'[q].prev # None => op[q].prev # None /\ op'[q].prev = op[q].prev
      BY <2>2 DEF CallsOK
    <3>5. \A q \in Proc : op'[q].prev # None => op'[q].prev.key < sequence'
      BY <2>1, <3>3, <3>4 DEF FoldersOK, CallsOK, OpType, Entry
    <3>6. \A f \in folders : f[1] \in Nat /\ f[1] < sequence
      BY DEF FoldersOK, StoreType
    <3>7. \A f \in folders' : f \in folders \/ f = <<sequence, lives>>
      BY <2>4, <3>1
    <3>8. \A f \in folders' : f[1] < sequence'
      BY <2>1, <3>3, <3>6, <3>7
    <3>9. \A f, g \in folders' : f[1] = g[1] => f = g
      BY <2>1, <3>6, <3>7 DEF FoldersOK, FolderOfOneSchedule
    <3> QED
      BY <2>1, <3>5, <3>8, <3>9 DEF FoldersOK, FolderOfOneSchedule
  <2> QED
    BY <1>9, <2>3, <2>4 DEF Put
<1>10. ASSUME NEW w \in Window, PutFails(w)
      PROVE  FoldersOK'
  <2>1. UNCHANGED <<sequence, entry, folders>> /\ w \in Proc
    BY <1>10 DEF PutFails, Go, At, CallsOK, Proc, stores, registryVars, ghosts
  <2>2. op' = [op EXCEPT ![w] = op'[w]]
    BY <1>10, <2>1 DEF PutFails, Go, At, CallsOK
  <2>3. op'[w].prev # None => op'[w].prev = op[w].prev \/ \E t \in Schedule : op'[w].prev = entry[t]
    BY <1>10, <2>1 DEF PutFails, Go, At, CallsOK, OpType, Idle
  <2> QED
    BY <2>1, <2>2, <2>3, FoldersKept DEF StoreType, TypeOK, FoldersOK
<1>11. ASSUME NEW w \in Window, RestoreTask(w)
      PROVE  FoldersOK'
  <2>1. UNCHANGED <<sequence, entry, folders>> /\ w \in Proc
    BY <1>11 DEF RestoreTask, Go, At, CallsOK, Proc, stores, registryVars, ghosts
  <2>2. op' = [op EXCEPT ![w] = op'[w]]
    BY <1>11, <2>1 DEF RestoreTask, Go, At, CallsOK
  <2>3. op'[w].prev # None => op'[w].prev = op[w].prev \/ \E t \in Schedule : op'[w].prev = entry[t]
    BY <1>11, <2>1 DEF RestoreTask, Go, At, CallsOK, OpType, Idle
  <2> QED
    BY <2>1, <2>2, <2>3, FoldersKept DEF StoreType, TypeOK, FoldersOK
<1>12. ASSUME NEW w \in Window, RestoreFails(w)
      PROVE  FoldersOK'
  <2>1. UNCHANGED <<sequence, entry, folders>> /\ w \in Proc
    BY <1>12 DEF RestoreFails, End, At, CallsOK, Proc, stores, registryVars, ghosts
  <2>2. op' = [op EXCEPT ![w] = op'[w]]
    BY <1>12, <2>1 DEF RestoreFails, End, Idle, At, CallsOK
  <2>3. op'[w].prev # None => op'[w].prev = op[w].prev \/ \E t \in Schedule : op'[w].prev = entry[t]
    BY <1>12, <2>1 DEF RestoreFails, End, Idle, At, CallsOK, OpType, Idle
  <2> QED
    BY <2>1, <2>2, <2>3, FoldersKept DEF StoreType, TypeOK, FoldersOK
<1>13. ASSUME NEW w \in Window, Discard(w)
      PROVE  FoldersOK'
  <2>1. UNCHANGED <<sequence, entry, folders>> /\ w \in Proc
    BY <1>13 DEF Discard, End, At, CallsOK, Proc, stores, registryVars, ghosts
  <2>2. op' = [op EXCEPT ![w] = op'[w]]
    BY <1>13, <2>1 DEF Discard, End, Idle, At, CallsOK
  <2>3. op'[w].prev # None => op'[w].prev = op[w].prev \/ \E t \in Schedule : op'[w].prev = entry[t]
    BY <1>13, <2>1 DEF Discard, End, Idle, At, CallsOK, OpType, Idle
  <2> QED
    BY <2>1, <2>2, <2>3, FoldersKept DEF StoreType, TypeOK, FoldersOK
<1>14. ASSUME NEW p \in Proc, BeginCleanup(p)
      PROVE  FoldersOK'
  <2>1. UNCHANGED <<sequence, entry, folders>> /\ p \in Proc
    BY <1>14 DEF BeginCleanup, CallsOK, Proc, stores, registryVars, ghosts
  <2>2. op' = [op EXCEPT ![p] = op'[p]]
    BY <1>14, CleanupBegun
  <2>3. op'[p].prev # None => op'[p].prev = op[p].prev \/ \E s \in Schedule : op'[p].prev = entry[s]
    BY <1>14, CleanupBegun
  <2> QED
    BY <2>1, <2>2, <2>3, FoldersKept DEF StoreType, TypeOK, FoldersOK
<1>15. ASSUME NEW p \in Proc, Scan(p)
      PROVE  FoldersOK'
  <2>1. UNCHANGED <<sequence, entry, folders>> /\ p \in Proc
    BY <1>15 DEF Scan, At, CallsOK, Proc, stores, registryVars, ghosts
  <2>2. op' = [op EXCEPT ![p] = op'[p]]
    BY <1>15, <2>1 DEF Scan, At, CallsOK
  <2>3. op'[p].prev # None => op'[p].prev = op[p].prev \/ \E s \in Schedule : op'[p].prev = entry[s]
    BY <1>15, <2>1 DEF Scan, At, CallsOK, OpType, Idle
  <2> QED
    BY <2>1, <2>2, <2>3, FoldersKept DEF StoreType, TypeOK, FoldersOK
<1>16. ASSUME NEW p \in Proc, QueueUnreadable(p)
      PROVE  FoldersOK'
  <2>1. UNCHANGED <<sequence, entry, folders>> /\ p \in Proc
    BY <1>16 DEF QueueUnreadable, End, At, CallsOK, Proc, stores, registryVars, ghosts
  <2>2. op' = [op EXCEPT ![p] = op'[p]]
    BY <1>16, <2>1 DEF QueueUnreadable, End, Idle, At, CallsOK
  <2>3. op'[p].prev # None => op'[p].prev = op[p].prev \/ \E s \in Schedule : op'[p].prev = entry[s]
    BY <1>16, <2>1 DEF QueueUnreadable, End, Idle, At, CallsOK, OpType, Idle
  <2> QED
    BY <2>1, <2>2, <2>3, FoldersKept DEF StoreType, TypeOK, FoldersOK
<1>17. ASSUME NEW p \in Proc, Inspect(p)
      PROVE  FoldersOK'
  <2>1. UNCHANGED <<sequence, entry, folders>> /\ p \in Proc
    BY <1>17 DEF Inspect, At, CallsOK, Proc, stores, registryVars, ghosts
  <2>2. op' = [op EXCEPT ![p] = op'[p]]
    BY <1>17, <2>1 DEF Inspect, At, CallsOK
  <2>3. op'[p].prev # None => op'[p].prev = op[p].prev \/ \E s \in Schedule : op'[p].prev = entry[s]
    BY <1>17, <2>1 DEF Inspect, At, CallsOK, OpType, Idle
  <2> QED
    BY <2>1, <2>2, <2>3, FoldersKept DEF StoreType, TypeOK, FoldersOK
<1>18. ASSUME NEW p \in Proc, Unlink(p)
      PROVE  FoldersOK'
  <2>1. UNCHANGED <<sequence, entry, folders>> /\ p \in Proc
    BY <1>18 DEF Unlink, At, CallsOK, Proc, stores, registryVars, ghosts
  <2>2. op' = [op EXCEPT ![p] = op'[p]]
    BY <1>18, <2>1 DEF Unlink, At, CallsOK
  <2>3. op'[p].prev # None => op'[p].prev = op[p].prev \/ \E s \in Schedule : op'[p].prev = entry[s]
    BY <1>18, <2>1 DEF Unlink, At, CallsOK, OpType, Idle
  <2> QED
    BY <2>1, <2>2, <2>3, FoldersKept DEF StoreType, TypeOK, FoldersOK
<1>19. ASSUME NEW p \in Proc, Collected(p)
      PROVE  FoldersOK'
  <2>1. UNCHANGED folders /\ op' = [op EXCEPT ![p] = op'[p]] /\ op'[p].prev = None
    BY <1>19 DEF Collected, End, Idle, CallsOK, ghosts
  <2>2. CASE op[p].removed = {}
    <3>1. UNCHANGED <<sequence, entry>>
      BY <1>19, <2>2 DEF Collected, registryVars
    <3> QED
      BY <2>1, <3>1, FoldersKept DEF StoreType, TypeOK, FoldersOK
  <2>3. CASE op[p].removed # {}
    <3>1. /\ sequence' \in Nat /\ sequence <= sequence'
          /\ \A s \in Schedule : entry'[s] # None => entry'[s].key < sequence'
      BY <1>19, <2>3, CollectedWrites
    <3> QED
      BY <2>1, <3>1, FoldersKept
  <2> QED
    BY <2>2, <2>3
<1>20. ASSUME NEW p \in Proc, CollectFails(p)
      PROVE  FoldersOK'
  <2>1. UNCHANGED <<sequence, entry, folders>> /\ p \in Proc
    BY <1>20 DEF CollectFails, End, At, CallsOK, Proc, stores, registryVars, ghosts
  <2>2. op' = [op EXCEPT ![p] = op'[p]]
    BY <1>20, <2>1 DEF CollectFails, End, Idle, At, CallsOK
  <2>3. op'[p].prev # None => op'[p].prev = op[p].prev \/ \E s \in Schedule : op'[p].prev = entry[s]
    BY <1>20, <2>1 DEF CollectFails, End, Idle, At, CallsOK, OpType, Idle
  <2> QED
    BY <2>1, <2>2, <2>3, FoldersKept DEF StoreType, TypeOK, FoldersOK
<1>21. ASSUME NEW p \in Proc, Crash(p)
      PROVE  FoldersOK'
  <2>1. UNCHANGED <<sequence, entry, folders>> /\ p \in Proc
    BY <1>21 DEF Crash, At, CallsOK, Proc, stores, registryVars, ghosts
  <2>2. op' = [op EXCEPT ![p] = op'[p]]
    BY <1>21, <2>1 DEF Crash, Idle, At, CallsOK
  <2>3. op'[p].prev # None => op'[p].prev = op[p].prev \/ \E s \in Schedule : op'[p].prev = entry[s]
    BY <1>21, <2>1 DEF Crash, Idle, At, CallsOK, OpType, Idle
  <2> QED
    BY <2>1, <2>2, <2>3, FoldersKept DEF StoreType, TypeOK, FoldersOK
<1>22. ASSUME NEW r \in Run, RunStep(r)
      PROVE  FoldersOK'
  BY <1>22, RunStepFrame DEF stores, registryVars, runVars, ghosts, bounds, FoldersOK,
     FolderOfOneSchedule
<1>23. CASE UNCHANGED vars
  BY <1>23 DEF vars, stores, registryVars, runVars, ghosts, bounds, FoldersOK,
     FolderOfOneSchedule
<1> QED
    BY <1>1, <1>2, <1>3, <1>4, <1>5, <1>6, <1>7, <1>8, <1>9, <1>10, <1>11, <1>12,
     <1>13, <1>14, <1>15, <1>16, <1>17, <1>18, <1>19, <1>20, <1>21, <1>22, <1>23 DEF
     Next, Edit, Cleanup

LEMMA RegisteredInit == Init => Registered
<1> SUFFICES ASSUME Init PROVE Registered
  OBVIOUS
<1> USE NoneIsNothing, RegistryAssumption
<1>1. StoreType
  BY DEF Init, StoreType, TypeOK
<1>2. RunsOK
  <2>1. NoRun.step = "idle" /\ \A r \in Run : run[r] = NoRun /\ op[r] = Idle
    BY DEF Init, NoRun, Proc
  <2> QED
    BY <2>1 DEF Init, RunsOK, Dispatching
<1>3. CallsOK
  BY DEF Init, CallsOK, CallOK, EditStep, EditCall, Idle
<1>4. RevisionsOK
  BY DEF Init, RevisionsOK, Idle, Proc
<1>5. FoldersOK
  BY DEF Init, FoldersOK, FolderOfOneSchedule, Idle
<1> QED
  BY <1>1, <1>2, <1>3, <1>4, <1>5 DEF Registered

LEMMA RegisteredInvariance == Spec => []Registered
<1>1. Registered /\ [Next]_vars => Registered'
  BY StoreTypeInv, RunsInv, CallsInv, RevisionsInv, FoldersInv DEF Registered
<1> QED
  BY RegisteredInit, <1>1, PTL DEF Spec

-----------------------------------------------------------------------------
(* What the steps do to the three stores *)

\* The edit of a process goes on with another step and keeps what it remembers.
SameEdit(w, step) ==
  LET o == op[w]
      n == op'[w]
  IN  /\ op' = [op EXCEPT ![w] = n] /\ n.step = step
      /\ n.call = o.call /\ n.schedule = o.schedule /\ n.new = o.new /\ n.prev = o.prev
      /\ n.prevTask = o.prevTask /\ n.removed = o.removed /\ n.completed = o.completed

\* A call is about no more than before.
KeepsAbout(p) ==
  \A s \in Schedule, n \in Snap : About(op'[p], s, n) => About(op[p], s, n)

\* The runs are those there were, or one loads the snapshot of its task.
RunsLoaded ==
  \A r \in Run, s \in Schedule, n \in Snap :
    run'[r].schedule = s /\ run'[r].snap = n =>
      (run[r].schedule = s /\ run[r].snap = n) \/ task[s] = n

\* A cleanup has looked up what is retained, or goes on with what it had looked up.
SweepsGo ==
  \A q \in Proc :
    /\ op'[q].removed \in {{}, op[q].removed}
    /\ op'[q].step \in {"collect", "unlink"} =>
         \A c \in op'[q].todo :
           \/ IsRetained(c[1], c[2])
           \/ op[q].step \in {"collect", "unlink"} /\ c \in op[q].todo

\* Steps that leave the stores alone, and every edit that goes on, unless it dies.
Quiet ==
  /\ UNCHANGED <<entry, dropped, made, task, file, spoiled>>
  /\ \A q \in Proc : op'[q] = op[q] \/ op'[q].step \notin EditStep
  /\ \A q \in Proc : KeepsAbout(q)
  /\ \A q \in Proc : op[q].step \in EditStep => op'[q] = op[q] \/ crashes' > 0
  /\ faults \in Nat /\ faults' \in Nat /\ faults <= faults'
  /\ crashes \in Nat /\ crashes' \in Nat /\ crashes <= crashes'
  /\ RunsLoaded
  /\ SweepsGo

Begins(w, s, call, n) ==
  /\ \E o : Begun(w, o, call, s, n)
  /\ holder = None /\ UNCHANGED <<entry, dropped, task, run, crashes, spoiled>>
  /\ call \in {"enable", "disable"} => entry[s].snap \in file
  /\ faults' \in Nat /\ faults <= faults'
  /\ \/ /\ call \in {"register", "save"} /\ n = made + 1 /\ n \in Snap
        /\ made' = n /\ file' = file \cup {n}
     \/ /\ call \in {"enable", "disable", "delete"} /\ n = None
        /\ UNCHANGED <<made, file>> /\ entry[s] # None

\* The cleanup within an edit fails: the edit is rolled back after all.
Spoils(p) ==
  /\ op[p].step = "collect" /\ op[p].call \in {"register", "save"} /\ op[p].removed # {}
  /\ SameEdit(p, "restore") \/ SameEdit(p, "discard")
  /\ UNCHANGED <<entry, dropped, made, task, file, runVars, crashes>>
  /\ faults' = faults + 1 /\ spoiled' = spoiled \cup {op[p].schedule}

\* A process in the middle of an edit.
Editing(w, step) ==
  /\ w \in Proc /\ op[w] \in OpType /\ CallOK(op[w]) /\ op[w].step = step
  /\ op[w].schedule \in Schedule /\ op[w].call \in EditCall
  /\ \A q \in Proc : q # w => op[q].step \in {"idle", "wait"}

LEMMA Alone ==
  ASSUME CallsOK, NEW p \in Proc, op[p].step \notin {"idle", "wait"}
  PROVE  \A q \in Proc : q # p => op[q].step \in {"idle", "wait"}
BY DEF CallsOK

LEMMA EditingIs ==
  ASSUME CallsOK, NEW w \in Proc, NEW step \in EditStep, op[w].step = step
  PROVE  Editing(w, step)
<1>1. op[w].step \notin {"idle", "wait"}
  BY DEF EditStep
<1> QED
  BY <1>1, Alone DEF CallsOK, CallOK, Editing

LEMMA BeginSaveIs ==
  ASSUME StoreType, CallsOK, NEW w \in Window, NEW s \in Schedule,
         NEW call \in {"register", "save"}, BeginSave(w, s, call)
  PROVE  Begins(w, s, call, made + 1)
<1>1. call \in {"register", "save"}
  OBVIOUS
<1>2. \E o : Begun(w, o, call, s, made + 1) /\ made + 1 \in Snap
  BY <1>1, SaveBegun
<1>3. holder = None /\ UNCHANGED <<entry, dropped, task, run, crashes, spoiled>>
  BY DEF BeginSave, Enter, stores, registryVars, runVars
<1>4. faults' \in Nat /\ faults <= faults'
  BY DEF BeginSave, Queried, Failing, StoreType
<1>5. made' = made + 1 /\ file' = file \cup {made + 1}
  BY DEF BeginSave, stores
<1> QED
  BY <1>1, <1>2, <1>3, <1>4, <1>5 DEF Begins

LEMMA BeginApplyIs ==
  ASSUME StoreType, CallsOK, NEW w \in Window, NEW s \in Schedule,
         NEW call \in {"enable", "disable"}, BeginApply(w, s, call)
  PROVE  Begins(w, s, call, None)
<1>1. call \in {"enable", "disable", "delete"}
  OBVIOUS
<1>2. \E o : Begun(w, o, call, s, None)
  BY <1>1, OtherBegun
<1>3. holder = None /\ UNCHANGED <<entry, dropped, task, run, crashes, spoiled>>
  BY DEF BeginApply, Enter, stores, registryVars, runVars, ghosts
<1>4. faults' \in Nat /\ faults <= faults'
  BY DEF BeginApply, Queried, Failing, StoreType
<1>5. UNCHANGED <<made, file>> /\ entry[s] # None /\ entry[s].snap \in file
  BY DEF BeginApply, stores
<1> QED
  BY <1>1, <1>2, <1>3, <1>4, <1>5 DEF Begins

LEMMA BeginDeleteIs ==
  ASSUME StoreType, CallsOK, NEW w \in Window, NEW s \in Schedule,
         BeginDelete(w, s)
  PROVE  Begins(w, s, "delete", None)
<1>1. "delete" \in {"enable", "disable", "delete"}
  OBVIOUS
<1>2. \E o : Begun(w, o, "delete", s, None)
  BY <1>1, OtherBegun
<1>3. holder = None /\ UNCHANGED <<entry, dropped, task, run, crashes, spoiled>>
  BY DEF BeginDelete, Enter, stores, registryVars, runVars, ghosts
<1>4. faults' \in Nat /\ faults <= faults'
  BY DEF BeginDelete, Queried, Failing, StoreType
<1>5. UNCHANGED <<made, file>> /\ entry[s] # None
  BY DEF BeginDelete, stores
<1> QED
  BY <1>1, <1>2, <1>3, <1>4, <1>5 DEF Begins

LEMMA SetTaskIs ==
  ASSUME StoreType, CallsOK, NEW w \in Window, SetTask(w)
  PROVE  /\ Editing(w, "task") /\ SameEdit(w, "put")
         /\ UNCHANGED <<entry, dropped, made, file, run, crashes, spoiled>>
         /\ task' = [task EXCEPT ![op[w].schedule] = TaskAfter(op[w])] /\ UNCHANGED faults
<1>1. w \in Proc /\ op[w].step = "task"
  BY DEF SetTask, At, Proc
<1>2. Editing(w, "task")
  BY <1>1, EditingIs DEF EditStep
<1>3. UNCHANGED <<entry, dropped, made, file, run, crashes, spoiled>>
  BY DEF SetTask, stores, registryVars, runVars, ghosts, bounds
<1>4. task' = [task EXCEPT ![op[w].schedule] = TaskAfter(op[w])] /\ UNCHANGED faults
  BY DEF SetTask, bounds
<1>5. SameEdit(w, "put")
  BY <1>1, GoesOn DEF SetTask, SameEdit, Step, EditStep
<1> QED
  BY <1>2, <1>3, <1>4, <1>5

LEMMA RestoreTaskIs ==
  ASSUME StoreType, CallsOK, NEW w \in Window, RestoreTask(w)
  PROVE  /\ Editing(w, "restore") /\ SameEdit(w, "discard")
         /\ UNCHANGED <<entry, dropped, made, file, run, crashes, spoiled>>
         /\ task' = [task EXCEPT ![op[w].schedule] = TaskBefore(op[w])] /\ UNCHANGED faults
<1>1. w \in Proc /\ op[w].step = "restore"
  BY DEF RestoreTask, At, Proc
<1>2. Editing(w, "restore")
  BY <1>1, EditingIs DEF EditStep
<1>3. UNCHANGED <<entry, dropped, made, file, run, crashes, spoiled>>
  BY DEF RestoreTask, stores, registryVars, runVars, ghosts, bounds
<1>4. task' = [task EXCEPT ![op[w].schedule] = TaskBefore(op[w])] /\ UNCHANGED faults
  BY DEF RestoreTask, bounds
<1>5. SameEdit(w, "discard")
  BY <1>1, GoesOn DEF RestoreTask, SameEdit, Step, EditStep
<1> QED
  BY <1>2, <1>3, <1>4, <1>5

LEMMA SetTaskFailsIs ==
  ASSUME StoreType, CallsOK, NEW w \in Window, SetTaskFails(w)
  PROVE  /\ Editing(w, "task") /\ (SameEdit(w, "restore") \/ SameEdit(w, "discard"))
         /\ UNCHANGED <<entry, dropped, made, file, run, crashes, spoiled>>
         /\ UNCHANGED task /\ faults' = faults + 1
<1>1. w \in Proc /\ op[w].step = "task"
  BY DEF SetTaskFails, At, Proc
<1>2. Editing(w, "task")
  BY <1>1, EditingIs DEF EditStep
<1>3. UNCHANGED <<entry, dropped, made, file, run, crashes, spoiled>>
  BY DEF SetTaskFails, stores, registryVars, runVars, ghosts, bounds
<1>4. UNCHANGED task /\ faults' = faults + 1
  BY DEF SetTaskFails, Failing, stores
<1>5. Go(w, "restore") \/ Go(w, "discard")
  BY DEF SetTaskFails
<1>6. SameEdit(w, "restore") \/ SameEdit(w, "discard")
  BY <1>1, <1>5, GoesOn DEF SameEdit, Step, EditStep
<1> QED
  BY <1>2, <1>3, <1>4, <1>6

LEMMA PutFailsIs ==
  ASSUME StoreType, CallsOK, NEW w \in Window, PutFails(w)
  PROVE  /\ Editing(w, "put") /\ (IF TaskChanged(op[w]) THEN SameEdit(w, "restore") ELSE SameEdit(w, "discard"))
         /\ UNCHANGED <<entry, dropped, made, file, run, crashes, spoiled>>
         /\ UNCHANGED task /\ faults' = faults + 1
<1>1. w \in Proc /\ op[w].step = "put"
  BY DEF PutFails, At, Proc
<1>2. Editing(w, "put")
  BY <1>1, EditingIs DEF EditStep
<1>3. UNCHANGED <<entry, dropped, made, file, run, crashes, spoiled>>
  BY DEF PutFails, stores, registryVars, runVars, ghosts, bounds
<1>4. UNCHANGED task /\ faults' = faults + 1
  BY DEF PutFails, Failing, stores
<1>5. IF TaskChanged(op[w]) THEN Go(w, "restore") ELSE Go(w, "discard")
  BY DEF PutFails
<1>6. \A step \in {"restore", "discard"} : Go(w, step) => SameEdit(w, step)
  BY <1>1, GoesOn DEF SameEdit, Step, EditStep
<1> QED
  BY <1>2, <1>3, <1>4, <1>5, <1>6

LEMMA RestoreFailsIs ==
  ASSUME StoreType, CallsOK, NEW w \in Window, RestoreFails(w)
  PROVE  /\ Editing(w, "restore") /\ op' = [op EXCEPT ![w] = Idle]
         /\ UNCHANGED <<entry, dropped, made, task, run, crashes, spoiled>>
         /\ faults' = faults + 1
         /\ file' = IF op[w].call = "save" THEN file \ {op[w].new} ELSE file
<1>1. w \in Proc /\ op[w].step = "restore"
  BY DEF RestoreFails, At, Proc
<1>2. Editing(w, "restore")
  BY <1>1, EditingIs DEF EditStep
<1> QED
  BY <1>2 DEF RestoreFails, Failing, End, registryVars, runVars, ghosts

LEMMA DiscardIs ==
  ASSUME StoreType, CallsOK, NEW w \in Window, Discard(w)
  PROVE  /\ Editing(w, "discard") /\ op' = [op EXCEPT ![w] = Idle]
         /\ UNCHANGED <<entry, dropped, made, task, run, faults, crashes, spoiled>>
         /\ file' = file \ {op[w].new}
<1>1. w \in Proc /\ op[w].step = "discard"
  BY DEF Discard, At, Proc
<1>2. Editing(w, "discard")
  BY <1>1, EditingIs DEF EditStep
<1> QED
  BY <1>2 DEF Discard, End, registryVars, runVars, ghosts, bounds

LEMMA PutIs ==
  ASSUME StoreType, CallsOK, FoldersOK, NEW w \in Window, Put(w)
  PROVE  /\ Editing(w, "put") /\ EntryAfterIs(op[w])
         /\ op' = [op EXCEPT ![w] = op'[w]] /\ op'[w].step \in {"idle", "queue"}
         /\ op'[w].removed \in {{}, op[w].removed}
         /\ op'[w].completed \in {None, op[w].completed}
         /\ op'[w].call \in {"none", op[w].call} /\ KeepsAbout(w)
         /\ spoiled' = spoiled \ {op[w].schedule}
         /\ UNCHANGED <<made, file, task, run, faults, crashes>>
         /\ entry' = [entry EXCEPT ![op[w].schedule] = EntryAfter(op[w])]
         /\ dropped' = PutDropped(op[w])
<1>1. w \in Proc /\ op[w].step = "put"
  BY DEF Put, At, Proc
<1>2. Editing(w, "put")
  BY <1>1, EditingIs DEF EditStep
<1>3. /\ op' = [op EXCEPT ![w] = op'[w]] /\ op'[w].step \in {"idle", "queue"}
      /\ op'[w].removed \in {{}, op[w].removed}
      /\ op'[w].completed \in {None, op[w].completed}
      /\ op'[w].call \in {"none", op[w].call}
  BY <1>1 DEF Put, End, Idle, CallsOK, OpType
<1>6. KeepsAbout(w)
  <2>1. \/ op'[w] = Idle
        \/ op'[w] = [op[w] EXCEPT !.step = "queue"]
        \/ op'[w] = [op[w] EXCEPT !.step = "queue", !.schedule = None]
    BY <1>1 DEF Put, End, CallsOK
  <2>2. op[w] \in OpType
    BY <1>1 DEF CallsOK
  <2>3. CASE op'[w] = Idle
    BY <2>3 DEF KeepsAbout, About, Idle, EditCall
  <2>4. CASE op'[w] = [op[w] EXCEPT !.step = "queue"]
    BY <2>2, <2>4 DEF KeepsAbout, About, OpType
  <2>5. CASE op'[w] = [op[w] EXCEPT !.step = "queue", !.schedule = None]
    BY <2>2, <2>5, NoneIsNothing DEF KeepsAbout, About, OpType
  <2> QED
    BY <2>1, <2>3, <2>4, <2>5
<1>4. UNCHANGED <<made, file, task, run, faults, crashes>>
  BY DEF Put, runVars, bounds
<1>7. spoiled' = spoiled \ {op[w].schedule}
  BY DEF Put
<1>5. /\ EntryAfterIs(op[w]) /\ dropped' = PutDropped(op[w])
      /\ entry' = [entry EXCEPT ![op[w].schedule] = EntryAfter(op[w])]
  BY PutWrites
<1> QED
  BY <1>2, <1>3, <1>4, <1>5, <1>6, <1>7

LEMMA UnlinkIs ==
  ASSUME StoreType, CallsOK, NEW p \in Proc, Unlink(p)
  PROVE  /\ op[p].step = "unlink" /\ op[p].at \in op[p].todo /\ op[p].at \in Pair
         /\ op' = [op EXCEPT ![p] = op'[p]] /\ op'[p].step = "collect"
         /\ op'[p].todo = op[p].todo \ {op[p].at} /\ op'[p].removed = op[p].removed \cup {op[p].at}
         /\ op'[p].call = op[p].call /\ op'[p].completed = op[p].completed
         /\ op'[p].queued = op[p].queued
         /\ UNCHANGED <<entry, dropped, made, task, run, faults, crashes, spoiled>>
         /\ file' = file \ {op[p].at[2]} /\ KeepsAbout(p)
BY DEF Unlink, At, CallsOK, CallOK, OpType, KeepsAbout, About, registryVars, runVars,
   ghosts, bounds

LEMMA CollectedIs ==
  ASSUME StoreType, CallsOK, FoldersOK, NEW p \in Proc, Collected(p)
  PROVE  /\ op[p].step = "collect" /\ op' = [op EXCEPT ![p] = Idle]
         /\ UNCHANGED <<made, file, task, run, faults, crashes, spoiled>>
         /\ \A s \in Schedule :
              /\ entry'[s] = None <=> entry[s] = None
              /\ entry[s] # None =>
                   /\ entry'[s].snap = entry[s].snap
                   /\ entry'[s].enabled = entry[s].enabled
                   /\ entry'[s].kept \subseteq entry[s].kept
                   /\ \A n \in entry[s].kept : n \notin entry'[s].kept =>
                        \E c \in op[p].removed : c[2] = n
         /\ dropped' = dropped \ op[p].removed
<1>1. /\ op[p].step = "collect" /\ op' = [op EXCEPT ![p] = Idle]
      /\ UNCHANGED <<made, file, task, run, faults, crashes, spoiled>>
  BY DEF Collected, At, End, runVars, ghosts, bounds
<1>2. CASE op[p].removed = {}
  <2>1. UNCHANGED <<entry, dropped>>
    BY <1>2 DEF Collected, registryVars
  <2> QED
    BY <1>1, <1>2, <2>1
<1>3. CASE op[p].removed # {}
  <2>1. entry' = Swept(op[p].removed) /\ dropped' = dropped \ op[p].removed
    BY <1>3, CollectedWrites
  <2>2. \A s \in Schedule :
          /\ entry'[s] = None <=> entry[s] = None
          /\ entry[s] # None => /\ entry'[s].snap = entry[s].snap
                                /\ entry'[s].enabled = entry[s].enabled
                                /\ entry'[s].kept = entry[s].kept \ {c[2] : c \in op[p].removed}
    BY <2>1, SweptEntries
  <2> QED
    BY <1>1, <2>1, <2>2
<1> QED
  BY <1>2, <1>3

LEMMA QuietCalls ==
  ASSUME StoreType, RunsOK, CallsOK, NEW p \in Proc,
         \/ p \in Window /\ (Look(p) \/ Conflict(p) \/ ConflictReported(p))
         \/ BeginCleanup(p) \/ Scan(p) \/ QueueUnreadable(p) \/ Inspect(p)
         \/ CollectFails(p) /\ op[p].call \notin {"register", "save"}
  PROVE  Quiet
<1>1. UNCHANGED <<entry, dropped, made, task, file, crashes, spoiled>>
  BY DEF Look, Conflict, ConflictReported, Enter, BeginCleanup, Scan, QueueUnreadable,
     Inspect,
         CollectFails, stores, registryVars, ghosts, bounds
<1>2. faults' \in Nat /\ faults <= faults'
  BY DEF Look, Conflict, ConflictReported, Enter, BeginCleanup, Scan, QueueUnreadable,
     Inspect,
         CollectFails, Failing, bounds, StoreType
<1>3. RunsLoaded
  BY DEF Look, Conflict, ConflictReported, BeginCleanup, Scan, QueueUnreadable, Inspect,
         CollectFails, runVars, RunsLoaded, RunsOK, RunType
<1>4. op' = [op EXCEPT ![p] = op'[p]] /\ op'[p].step \notin EditStep
  <2>1. CASE p \in Window /\ Look(p)
    BY <2>1 DEF Look, At, CallsOK, EditStep
  <2>2. CASE p \in Window /\ Conflict(p)
    BY <2>2 DEF Conflict, CallsOK, EditStep, OpType
  <2>3. CASE p \in Window /\ ConflictReported(p)
    BY <2>3 DEF ConflictReported, End, Idle, CallsOK, EditStep
  <2>4. CASE BeginCleanup(p)
    BY <2>4, CleanupBegun DEF EditStep
  <2>5. CASE Scan(p)
    BY <2>5 DEF Scan, CallsOK, EditStep, OpType
  <2>6. CASE QueueUnreadable(p)
    BY <2>6 DEF QueueUnreadable, End, Idle, CallsOK, EditStep
  <2>7. CASE Inspect(p)
    BY <2>7 DEF Inspect, At, CallsOK, EditStep, OpType
  <2>8. CASE CollectFails(p) /\ op[p].call \notin {"register", "save"}
    BY <2>8 DEF CollectFails, End, Idle, CallsOK, EditStep
  <2> QED
    BY <2>1, <2>2, <2>3, <2>4, <2>5, <2>6, <2>7, <2>8
<1>5. op[p].step \notin EditStep
  BY DEF Look, Conflict, ConflictReported, Enter, BeginCleanup, Scan, QueueUnreadable,
     Inspect,
         CollectFails, At, EditStep
<1>6. /\ \A q \in Proc : op'[q] = op[q] \/ op'[q].step \notin EditStep
      /\ \A q \in Proc : op[q].step \in EditStep => op'[q] = op[q] \/ crashes' > 0
  BY <1>4, <1>5 DEF CallsOK
<1>7. faults \in Nat /\ crashes \in Nat
  BY DEF StoreType
<1>8. SweepsGo
  <2>1. CASE p \in Window /\ (Look(p) \/ Conflict(p) \/ ConflictReported(p))
    BY <2>1 DEF Look, Conflict, ConflictReported, Enter, End, At, Idle, CallsOK, CallOK,
       OpType,
                SweepsGo
  <2>2. CASE BeginCleanup(p)
    BY <2>2, CleanupBegun DEF BeginCleanup, At, CallsOK, CallOK, Idle, SweepsGo
  <2>3. CASE Scan(p)
    <3>1. /\ op'[p].step = "collect" /\ op'[p].todo = Retained(op[p].schedule)
          /\ op'[p].removed = op[p].removed
      BY <2>3 DEF Scan, CallsOK, OpType
    <3>2. \A c \in Retained(op[p].schedule) : IsRetained(c[1], c[2])
      BY DEF Retained, IsRetained
    <3> QED
      BY <1>4, <3>1, <3>2 DEF SweepsGo, CallsOK
  <2>4. CASE QueueUnreadable(p)
    BY <2>4 DEF QueueUnreadable, End, Idle, CallsOK, SweepsGo
  <2>5. CASE Inspect(p)
    BY <2>5 DEF Inspect, At, CallsOK, OpType, SweepsGo
  <2>6. CASE CollectFails(p) /\ op[p].call \notin {"register", "save"}
    BY <2>6 DEF CollectFails, End, Idle, CallsOK, SweepsGo
  <2> QED
    BY <2>1, <2>2, <2>3, <2>4, <2>5, <2>6
<1>9. KeepsAbout(p)
  <2>1. op[p] \in OpType
    BY DEF CallsOK
  <2>2. CASE p \in Window /\ Look(p)
    BY <2>2 DEF Look, KeepsAbout
  <2>3. CASE p \in Window /\ Conflict(p)
    BY <2>1, <2>3 DEF Conflict, CallsOK, OpType, KeepsAbout, About
  <2>4. CASE BeginCleanup(p)
    BY <2>4, CleanupBegun DEF KeepsAbout, About, EditCall
  <2>5. CASE Scan(p) \/ Inspect(p)
    BY <2>1, <2>5 DEF Scan, Inspect, CallsOK, OpType, KeepsAbout, About
  <2>6. CASE End(p)
    BY <2>6 DEF End, Idle, CallsOK, KeepsAbout, About, EditCall
  <2> QED
    BY <2>2, <2>3, <2>4, <2>5, <2>6 DEF ConflictReported, QueueUnreadable, CollectFails
<1>10. \A q \in Proc : KeepsAbout(q)
  BY <1>4, <1>9 DEF CallsOK, KeepsAbout
<1> QED
  BY <1>1, <1>2, <1>3, <1>6, <1>7, <1>8, <1>10 DEF Quiet

LEMMA SpoilsIs ==
  ASSUME StoreType, CallsOK, NEW p \in Proc, CollectFails(p),
         op[p].call \in {"register", "save"}
  PROVE  Spoils(p)
<1>1. op[p].step = "collect" /\ op[p].removed # {}
  BY DEF CollectFails, At
<1>2. /\ UNCHANGED <<entry, dropped, made, task, file, runVars, crashes>>
      /\ faults' = faults + 1 /\ spoiled' = spoiled \cup {op[p].schedule}
  BY DEF CollectFails, Failing, stores, registryVars
<1>3. Go(p, "restore") \/ Go(p, "discard")
  BY DEF CollectFails, Go
<1>4. SameEdit(p, "restore") \/ SameEdit(p, "discard")
  BY <1>3, GoesOn DEF SameEdit, Step, EditStep
<1> QED
  BY <1>1, <1>2, <1>4 DEF Spoils

LEMMA QuietCrash ==
  ASSUME StoreType, RunsOK, CallsOK, NEW p \in Proc, Crash(p)
  PROVE  Quiet
<1>1. UNCHANGED <<entry, dropped, made, task, file, faults, spoiled>> /\ crashes' = crashes + 1
  BY DEF Crash, stores, registryVars, ghosts
<1>6. \A q \in Proc : KeepsAbout(q)
  BY DEF Crash, CallsOK, Idle, KeepsAbout, About, EditCall
<1>2. RunsLoaded
  BY DEF Crash, RunsLoaded, RunsOK, RunType
<1>3. \A q \in Proc : op'[q] = op[q] \/ op'[q].step \notin EditStep
  BY DEF Crash, CallsOK, Idle, EditStep
<1>4. faults \in Nat /\ crashes \in Nat
  BY DEF StoreType
<1>5. SweepsGo
  BY DEF Crash, CallsOK, Idle, SweepsGo
<1> QED
  BY <1>1, <1>2, <1>3, <1>4, <1>5, <1>6 DEF Quiet

LEMMA QuietRuns ==
  ASSUME StoreType, RunsOK, CallsOK, NEW r \in Run, RunStep(r)
  PROVE  Quiet
<1>1. UNCHANGED <<entry, dropped, made, task, file, op, faults, crashes, spoiled>>
  BY RunStepFrame DEF stores, registryVars, ghosts, bounds
<1>2. RunsLoaded
  <2>1. CASE \E s \in Schedule : Fire(r, s)
    BY <2>1 DEF Fire, RunsLoaded, RunsOK, RunType
  <2>2. CASE \E step : RunGoes(r, step)
    BY <2>2 DEF RunGoes, RunsLoaded, RunsOK, RunType
  <2> QED
    BY <2>1, <2>2 DEF RunStep, Queue, Lease, Claim, Serve, Complete, FindEmpty, Leave
<1>3. faults \in Nat /\ crashes \in Nat
  BY DEF StoreType
<1> QED
  BY <1>1, <1>2, <1>3 DEF Quiet, SweepsGo, KeepsAbout

LEMMA QuietStutter ==
  ASSUME StoreType, UNCHANGED vars
  PROVE  Quiet
BY DEF Quiet, RunsLoaded, SweepsGo, KeepsAbout, StoreType, vars, stores, registryVars,
   runVars, ghosts, bounds

\* Every step is one of these.
EditGoesOn(w) ==
  \/ SetTask(w) \/ SetTaskFails(w) \/ Put(w) \/ PutFails(w)
  \/ RestoreTask(w) \/ RestoreFails(w) \/ Discard(w)

Kind ==
  \/ Quiet
  \/ \E w \in Window, s \in Schedule : \E call, n : Begins(w, s, call, n)
  \/ \E w \in Window : EditGoesOn(w)
  \/ \E p \in Proc : Unlink(p) \/ Collected(p) \/ Spoils(p)

LEMMA Kinds ==
  ASSUME StoreType, RunsOK, CallsOK, FoldersOK, [Next]_vars
  PROVE  Kind
<1>1. ASSUME NEW w \in Window, Edit(w) PROVE Kind
  <2>1. CASE Look(w) \/ Conflict(w) \/ ConflictReported(w)
    BY <2>1, QuietCalls DEF Proc, Kind
  <2>2. CASE \E s \in Schedule, call \in {"register", "save"} : BeginSave(w, s, call)
    BY <2>2, BeginSaveIs DEF Kind
  <2>3. CASE \E s \in Schedule, call \in {"enable", "disable"} : BeginApply(w, s, call)
    BY <2>3, BeginApplyIs DEF Kind
  <2>4. CASE \E s \in Schedule : BeginDelete(w, s)
    BY <2>4, BeginDeleteIs DEF Kind
  <2>5. CASE EditGoesOn(w)
    BY <2>5 DEF Kind
  <2> QED
    BY <1>1, <2>1, <2>2, <2>3, <2>4, <2>5 DEF Edit, EditGoesOn
<1>2. ASSUME NEW p \in Proc, Cleanup(p) \/ Crash(p) PROVE Kind
  BY <1>2, QuietCalls, QuietCrash, SpoilsIs DEF Cleanup, Kind
<1>3. ASSUME NEW r \in Run, RunStep(r) PROVE Kind
  BY <1>3, QuietRuns DEF Kind
<1>4. CASE UNCHANGED vars
  BY <1>4, QuietStutter DEF Kind
<1> QED
  BY <1>1, <1>2, <1>3, <1>4 DEF Next

-----------------------------------------------------------------------------
(* Whose snapshots they are *)

\* No step gives a schedule a snapshot that it did not have to do with.
LEMMA OwnersKept ==
  ASSUME StoreType, OwnersOK, made' = made, file' \subseteq file,
         \A s \in Schedule, n \in Snap : Owns(s, n)' => Owns(s, n)
  PROVE  OwnersOK'
BY DEF OwnersOK

\* While an edit goes on, nobody else owns anything by an edit.
LEMMA OwnsFrame ==
  ASSUME NEW w \in Proc, op' = [op EXCEPT ![w] = op'[w]], op \in [Proc -> OpType],
         UNCHANGED <<entry, dropped, run>>, NEW s \in Schedule, NEW n \in Snap,
         Owns(s, n)',
         task'[s] = n => Owns(s, n),
         About(op'[w], s, n) => Owns(s, n)
  PROVE  Owns(s, n)
BY DEF Owns, IsRetained

LEMMA OwnersEdit ==
  ASSUME StoreType, RunsOK, CallsOK, FoldersOK, Kept, NEW w \in Window, EditGoesOn(w)
  PROVE  OwnersOK'
<1> DEFINE o == op[w]
<1>1. OwnersOK /\ EditsOK /\ op \in [Proc -> OpType]
  BY DEF Kept, CallsOK
<1>2. w \in Proc
  BY DEF Proc
<1>3. \A step \in EditStep : Editing(w, step) =>
        /\ o.schedule \in Schedule
        /\ \A n \in Snap : n \in {o.new, o.prevTask} => Owns(o.schedule, n)
        /\ o.prev # None => Owns(o.schedule, o.prev.snap)
  BY <1>2 DEF Editing, Owns, About
<1>4. \A next : SameEdit(w, next) =>
        /\ op' = [op EXCEPT ![w] = op'[w]]
        /\ \A s \in Schedule, n \in Snap : About(op'[w], s, n) => Owns(s, n)
  BY <1>2 DEF SameEdit, Owns, About
<1>5. CASE SetTask(w)
  <2>1. /\ Editing(w, "task") /\ SameEdit(w, "put")
        /\ UNCHANGED <<entry, dropped, made, file, run>>
        /\ task' = [task EXCEPT ![o.schedule] = TaskAfter(o)]
    BY <1>5, SetTaskIs
  <2>2. TaskAfter(o) \in Snap => Owns(o.schedule, TaskAfter(o))
    BY <1>3, <2>1, NoneIsNothing DEF TaskAfter, EditStep, Editing, CallOK
  <2>3. \A s \in Schedule, n \in Snap : task'[s] = n => Owns(s, n)
    BY <2>1, <2>2 DEF StoreType, TypeOK, Owns
  <2>4. \A s \in Schedule, n \in Snap : Owns(s, n)' => Owns(s, n)
    BY <1>1, <1>2, <1>3, <1>4, <2>1, <2>3, OwnsFrame DEF EditStep
  <2> QED
    BY <1>1, <2>1, <2>4, OwnersKept
<1>6. CASE RestoreTask(w)
  <2>1. /\ Editing(w, "restore") /\ SameEdit(w, "discard")
        /\ UNCHANGED <<entry, dropped, made, file, run>>
        /\ task' = [task EXCEPT ![o.schedule] = TaskBefore(o)]
    BY <1>6, RestoreTaskIs
  <2>2. TaskBefore(o) \in Snap => Owns(o.schedule, TaskBefore(o))
    BY <1>3, <2>1, NoneIsNothing DEF TaskBefore, EditStep
  <2>3. \A s \in Schedule, n \in Snap : task'[s] = n => Owns(s, n)
    BY <2>1, <2>2 DEF StoreType, TypeOK, Owns
  <2>4. \A s \in Schedule, n \in Snap : Owns(s, n)' => Owns(s, n)
    BY <1>1, <1>2, <1>3, <1>4, <2>1, <2>3, OwnsFrame DEF EditStep
  <2> QED
    BY <1>1, <2>1, <2>4, OwnersKept
<1>7. CASE SetTaskFails(w) \/ PutFails(w)
  <2>1. /\ \E step \in EditStep : Editing(w, step)
        /\ SameEdit(w, "restore") \/ SameEdit(w, "discard")
        /\ UNCHANGED <<entry, dropped, made, file, run, task>>
    BY <1>7, SetTaskFailsIs, PutFailsIs DEF EditStep
  <2>2. \A s \in Schedule, n \in Snap : Owns(s, n)' => Owns(s, n)
    BY <1>1, <1>2, <1>3, <1>4, <2>1, OwnsFrame DEF Owns
  <2> QED
    BY <1>1, <2>1, <2>2, OwnersKept
<1>8. CASE RestoreFails(w) \/ Discard(w)
  <2>1. /\ op' = [op EXCEPT ![w] = op'[w]] /\ op'[w].call \notin EditCall
        /\ UNCHANGED <<entry, dropped, made, run, task>> /\ file' \subseteq file
    BY <1>1, <1>2, <1>8, RestoreFailsIs, DiscardIs DEF EditCall, Idle
  <2>2. \A s \in Schedule, n \in Snap : Owns(s, n)' => Owns(s, n)
    BY <1>1, <1>2, <2>1, OwnsFrame DEF Owns, About
  <2> QED
    BY <1>1, <2>1, <2>2, OwnersKept
<1>9. CASE Put(w)
  <2>1. /\ Editing(w, "put") /\ EntryAfterIs(o)
        /\ op' = [op EXCEPT ![w] = op'[w]] /\ KeepsAbout(w)
        /\ UNCHANGED <<made, file, task, run>>
        /\ entry' = [entry EXCEPT ![o.schedule] = EntryAfter(o)]
        /\ dropped' = PutDropped(o)
    BY <1>9, PutIs
  <2>7. o.step = "put" /\ o.step \in EditStep
    BY <2>1 DEF Editing, EditStep
  <2>8. o.prev = entry[o.schedule]
    BY <1>1, <1>2, <2>7 DEF EditsOK, EditOK
  <2>2. /\ o.schedule \in Schedule /\ o.prev = entry[o.schedule] /\ o.call \in EditCall
        /\ \A n \in SnapsOf(o.prev) \cup {o.new} : n \in Snap => Owns(o.schedule, n)
    BY <1>3, <2>1, <2>7, <2>8 DEF SnapsOf, Owns, IsRetained, Editing
  <2>3. \A n \in Snap : EntryAfter(o) # None /\ n \in {EntryAfter(o).snap} \cup EntryAfter(o).kept =>
          Owns(o.schedule, n)
    BY <2>1, <2>2, NoneIsNothing DEF EntryAfterIs, EditCall, SnapsOf, Owns, IsRetained
  <2>4. \A s \in Schedule, n \in Snap : <<s, n>> \in dropped' => Owns(s, n)
    BY <2>1, <2>2 DEF PutDropped, Owns, IsRetained
  <2>5. \A s \in Schedule, n \in Snap : entry'[s] # None /\ n \in {entry'[s].snap} \cup entry'[s].kept =>
          Owns(s, n)
    BY <2>1, <2>3 DEF StoreType, TypeOK, Owns, IsRetained
  <2>6. \A s \in Schedule, n \in Snap : Owns(s, n)' => Owns(s, n)
    <3> TAKE s \in Schedule, n \in Snap
    <3> HAVE Owns(s, n)'
    <3>1. CASE task'[s] = n \/ \E r \in Run : run'[r].schedule = s /\ run'[r].snap = n
      BY <2>1, <3>1 DEF Owns
    <3>2. CASE entry'[s] # None /\ entry'[s].snap = n
      BY <2>5, <3>2
    <3>3. CASE IsRetained(s, n)'
      BY <2>4, <2>5, <3>3 DEF IsRetained
    <3>4. CASE \E p \in Proc : About(op'[p], s, n)
      BY <1>1, <2>1, <3>4 DEF Owns, KeepsAbout
    <3> QED
      BY <3>1, <3>2, <3>3, <3>4 DEF Owns
  <2> QED
    BY <1>1, <2>1, <2>6, OwnersKept
<1> QED
  BY <1>5, <1>6, <1>7, <1>8, <1>9 DEF EditGoesOn

LEMMA OwnersInv ==
  ASSUME StoreType, RunsOK, CallsOK, FoldersOK, Kept, Kind
  PROVE  OwnersOK'
<1>1. OwnersOK /\ EditsOK /\ op \in [Proc -> OpType] /\ made \in Nat
  BY DEF Kept, CallsOK, StoreType, TypeOK
<1>2. CASE Quiet
  <2>1. \A s \in Schedule, n \in Snap : Owns(s, n)' => Owns(s, n)
    BY <1>2 DEF Quiet, RunsLoaded, KeepsAbout, Owns, IsRetained
  <2> QED
    BY <1>1, <1>2, <2>1, OwnersKept DEF Quiet
<1>3. ASSUME NEW w \in Window, NEW s \in Schedule, NEW call, NEW n, Begins(w, s, call, n)
      PROVE  OwnersOK'
  <2>1. PICK o : Begun(w, o, call, s, n)
    BY <1>3 DEF Begins
  <2>2. /\ UNCHANGED <<entry, dropped, task, run>>
        /\ \/ n = None /\ UNCHANGED <<made, file>>
           \/ n = made + 1 /\ made' = made + 1 /\ file' = file \cup {made + 1}
    BY <1>3 DEF Begins
  <2>3. \A t \in Schedule, m \in Snap : Owns(t, m)' => Owns(t, m) \/ (t = s /\ m = n)
    <3>1. \A t \in Schedule, m \in Snap : About(o, t, m) => Owns(t, m) \/ (t = s /\ m = n)
      BY <2>1, NoneIsNothing DEF Begun, Owns, About
    <3> QED
      BY <1>1, <2>1, <2>2, <3>1 DEF Begun, Owns, IsRetained
  <2>4. \A t \in Schedule, m \in Snap : Owns(t, m) => m <= made /\ m # made + 1
    BY <1>1, NoneIsNothing DEF OwnersOK
  <2>5. made' \in Nat /\ made <= made' /\ (n # None => n = made') /\ \A m \in file' : m <= made'
    <3>1. \A m \in file : m \in Nat /\ m <= made
      BY <1>1, NoneIsNothing DEF OwnersOK, StoreType, TypeOK
    <3>2. CASE n = None /\ UNCHANGED <<made, file>>
      BY <1>1, <3>1, <3>2
    <3>3. CASE n = made + 1 /\ made' = made + 1 /\ file' = file \cup {made + 1}
      BY <1>1, <3>1, <3>3
    <3> QED
      BY <2>2, <3>2, <3>3
  <2>6. \A t \in Schedule, m \in Snap : Owns(t, m)' => m <= made'
    BY <1>1, <2>3, <2>4, <2>5, NoneIsNothing
  <2>7. \A t, u \in Schedule, m \in Snap : Owns(t, m)' /\ Owns(u, m)' => t = u
    <3> TAKE t, u \in Schedule, m \in Snap
    <3> HAVE Owns(t, m)' /\ Owns(u, m)'
    <3>1. n \in {None, made + 1}
      BY <2>2
    <3> QED
      BY <1>1, <2>3, <2>4, <3>1, NoneIsNothing DEF OwnersOK
  <2> QED
    BY <2>5, <2>6, <2>7 DEF OwnersOK
<1>4. ASSUME NEW p \in Proc, Unlink(p) \/ Collected(p) \/ Spoils(p)
      PROVE  OwnersOK'
  <2>1. CASE Unlink(p)
    <3>1. \A s \in Schedule, n \in Snap : Owns(s, n)' => Owns(s, n)
      BY <1>1, <2>1, UnlinkIs, OwnsFrame DEF KeepsAbout, Owns
    <3> QED
      BY <1>1, <2>1, <3>1, UnlinkIs, OwnersKept
  <2>2. CASE Collected(p)
    <3>1. \A s \in Schedule, n \in Snap : IsRetained(s, n)' => IsRetained(s, n)
      BY <2>2, CollectedIs DEF IsRetained
    <3>2. /\ op' = [op EXCEPT ![p] = Idle] /\ Idle.call \notin EditCall
          /\ UNCHANGED <<made, file, task, run>>
          /\ \A s \in Schedule : /\ entry'[s] = None <=> entry[s] = None
                                 /\ entry[s] # None => entry'[s].snap = entry[s].snap
      BY <2>2, CollectedIs DEF EditCall, Idle
    <3>3. \A s \in Schedule, n \in Snap : Owns(s, n)' => Owns(s, n)
      BY <1>1, <3>1, <3>2 DEF Owns, About
    <3> QED
      BY <1>1, <3>2, <3>3, OwnersKept
  <2>3. CASE Spoils(p)
    <3>1. \A s \in Schedule, n \in Snap : About(op'[p], s, n) => About(op[p], s, n)
      BY <2>3 DEF Spoils, SameEdit, About
    <3>2. \A s \in Schedule, n \in Snap : Owns(s, n)' => Owns(s, n)
      BY <1>1, <2>3, <3>1 DEF Spoils, SameEdit, Owns, IsRetained, runVars
    <3> QED
      BY <1>1, <2>3, <3>2, OwnersKept DEF Spoils
  <2> QED
    BY <1>4, <2>1, <2>2, <2>3
<1> QED
  BY <1>2, <1>3, <1>4, OwnersEdit DEF Kind

-----------------------------------------------------------------------------
(* What is registered has its snapshot *)

\* The stores as an edit leaves them that only changes the task of its schedule.
LEMMA SnapsTask ==
  ASSUME StoreType, SnapsOK, UNCHANGED <<entry, dropped, file, spoiled>>,
         NEW s \in Schedule, NEW n, task' = [task EXCEPT ![s] = n],
         n # None /\ s \notin spoiled => n \in file /\ ~IsRetained(s, n)
  PROVE  SnapsOK'
<1>1. \A t \in Schedule \ spoiled : task'[t] # None => task'[t] \in file /\ ~IsRetained(t, task'[t])
  BY NoneIsNothing DEF StoreType, TypeOK, SnapsOK, TaskHasSnapshot
<1>2. \A t \in Schedule, m \in Snap : IsRetained(t, m)' <=> IsRetained(t, m)
  BY DEF IsRetained
<1> QED
  BY <1>1, <1>2, NoneIsNothing DEF SnapsOK, TaskHasSnapshot, EntryHasSnapshot

\* Deleting a snapshot that neither a task nor a registration names.
LEMMA SnapsFile ==
  ASSUME StoreType, SnapsOK, UNCHANGED <<entry, dropped, task, spoiled>>,
         NEW n, file' = file \ {n},
         \A t \in Schedule \ spoiled : task[t] # n /\ (entry[t] # None => entry[t].snap # n)
  PROVE  SnapsOK'
BY DEF SnapsOK, TaskHasSnapshot, EntryHasSnapshot, IsRetained

LEMMA SnapsEdit ==
  ASSUME StoreType, RunsOK, CallsOK, FoldersOK, Kept, NEW w \in Window, EditGoesOn(w)
  PROVE  SnapsOK'
<1> DEFINE o == op[w]
<1>1. OwnersOK /\ SnapsOK /\ EditsOK /\ w \in Proc
  BY DEF Kept, Proc
<1>2. \A step \in EditStep : Editing(w, step) =>
        /\ o.schedule \in Schedule /\ EditOK(o) /\ o.step = step
        /\ o.new \in Snap \cup {None} /\ o.prevTask \in Snap \cup {None, Unknown}
        /\ o.removed = {} =>
             /\ o.prev = entry[o.schedule] /\ TaskOK(o)
             /\ o.new \in Snap => o.new \in file /\ ~IsRetained(o.schedule, o.new)
             /\ o.prev # None => ~IsRetained(o.schedule, o.prev.snap)
        /\ o.schedule \notin spoiled =>
             /\ o.removed = {}
             /\ o.prevTask \in Snap => o.prevTask \in file /\ ~IsRetained(o.schedule, o.prevTask)
             /\ o.prev # None => o.prev.snap \in file /\ ~IsRetained(o.schedule, o.prev.snap)
  <2> TAKE step \in EditStep
  <2> HAVE Editing(w, step)
  <2>1. /\ o \in OpType /\ o.schedule \in Schedule /\ o.step = step /\ EditOK(o)
    BY <1>1 DEF Editing, EditsOK
  <2>2. o.removed = {} =>
          /\ o.prev = entry[o.schedule] /\ TaskOK(o)
          /\ o.new \in Snap => o.new \in file /\ ~IsRetained(o.schedule, o.new)
    BY <2>1, NoneIsNothing DEF EditOK
  <2>3. o.prev # None => o.prev.snap \in Snap
    BY <2>1 DEF OpType, Entry
  <2>4. o.removed = {} /\ o.prev # None => ~IsRetained(o.schedule, o.prev.snap)
    BY <1>1, <2>1, <2>2, <2>3 DEF SnapsOK
  <2>5. o.schedule \notin spoiled =>
          /\ o.removed = {}
          /\ o.prevTask \in Snap => o.prevTask \in file /\ ~IsRetained(o.schedule, o.prevTask)
    BY <2>1 DEF EditOK
  <2>6. o.schedule \notin spoiled /\ o.prev # None => o.prev.snap \in file
    BY <1>1, <2>1, <2>2, <2>5 DEF SnapsOK, EntryHasSnapshot
  <2> QED
    BY <2>1, <2>2, <2>4, <2>5, <2>6 DEF OpType
<1>3. CASE SetTask(w)
  <2>1. /\ Editing(w, "task") /\ UNCHANGED <<entry, dropped, file, spoiled>>
        /\ task' = [task EXCEPT ![o.schedule] = TaskAfter(o)]
    BY <1>3, SetTaskIs
  <2>2. TaskAfter(o) # None /\ o.schedule \notin spoiled =>
          TaskAfter(o) \in file /\ ~IsRetained(o.schedule, TaskAfter(o))
    BY <1>2, <2>1 DEF TaskAfter, EditStep, Editing, CallOK
  <2> QED
    BY <1>1, <1>2, <2>1, <2>2, SnapsTask DEF EditStep
<1>4. CASE RestoreTask(w)
  <2>1. /\ Editing(w, "restore") /\ UNCHANGED <<entry, dropped, file, spoiled>>
        /\ task' = [task EXCEPT ![o.schedule] = TaskBefore(o)]
    BY <1>4, RestoreTaskIs
  <2>2. TaskBefore(o) # None /\ o.schedule \notin spoiled =>
          TaskBefore(o) \in file /\ ~IsRetained(o.schedule, TaskBefore(o))
    BY <1>2, <2>1 DEF TaskBefore, EditStep
  <2> QED
    BY <1>1, <1>2, <2>1, <2>2, SnapsTask DEF EditStep
<1>5. CASE SetTaskFails(w) \/ PutFails(w)
  <2>1. UNCHANGED <<entry, dropped, file, task, spoiled>>
    BY <1>5, SetTaskFailsIs, PutFailsIs
  <2> QED
    BY <1>1, <2>1 DEF SnapsOK, TaskHasSnapshot, EntryHasSnapshot, IsRetained
<1>6. CASE RestoreFails(w) \/ Discard(w)
  <2>1. /\ UNCHANGED <<entry, dropped, task, spoiled>>
        /\ \/ file' = file
           \/ /\ file' = file \ {o.new}
              /\ Editing(w, "discard") \/ (Editing(w, "restore") /\ o.call = "save")
    BY <1>6, RestoreFailsIs, DiscardIs
  <2>2. CASE file' = file
    BY <1>1, <2>1, <2>2 DEF SnapsOK, TaskHasSnapshot, EntryHasSnapshot, IsRetained
  <2>3. CASE file' = file \ {o.new} /\ o.new = None
    <3>1. file' = file
      BY ZenonT(40), <2>3, NoneIsNothing DEF StoreType, TypeOK
    <3> QED
      BY <1>1, <2>1, <3>1 DEF SnapsOK, TaskHasSnapshot, EntryHasSnapshot, IsRetained
  <2>4. CASE file' # file /\ o.new # None
    <3>1. /\ o.step \in EditStep /\ o.schedule \in Schedule /\ o.new \in Snap
          /\ o.step = "restore" => o.call = "save"
          /\ o.step \in {"restore", "discard"} /\ o.call \in EditCall
      BY <1>2, <2>1, <2>4 DEF EditStep, Editing
    <3>2. Owns(o.schedule, o.new)
      BY <1>1, <3>1 DEF Owns, About
    <3>3. \A t \in Schedule \ spoiled : task[t] # o.new /\ (entry[t] # None => entry[t].snap # o.new)
      <4> SUFFICES ASSUME NEW t \in Schedule \ spoiled,
                          task[t] = o.new \/ (entry[t] # None /\ entry[t].snap = o.new)
                   PROVE  FALSE
        OBVIOUS
      <4>1. Owns(t, o.new)
        BY DEF Owns
      <4>2. t = o.schedule
        BY <1>1, <3>1, <3>2, <4>1 DEF OwnersOK
      <4>3. EditOK(o) /\ o.schedule \notin spoiled
        BY <1>1, <3>1, <4>2 DEF EditsOK
      <4>4. /\ TaskOK(o) /\ o.new # None
            /\ entry[o.schedule] # None => entry[o.schedule].snap # o.new
        BY <3>1, <4>3, NoneIsNothing DEF EditOK
      <4>5. task[o.schedule] # o.new
        BY <3>1, <4>4 DEF TaskOK
      <4> QED
        BY <4>2, <4>4, <4>5
    <3> QED
      BY <1>1, <2>1, <2>4, <3>3, SnapsFile
  <2> QED
    BY <2>1, <2>2, <2>3, <2>4
<1>7. CASE Put(w)
  <2>0. PICK s \in Schedule : s = o.schedule
    BY <1>7, PutIs DEF Editing
  <2>1. /\ Editing(w, "put") /\ EntryAfterIs(o)
        /\ UNCHANGED <<made, file, task, run>> /\ spoiled' = spoiled \ {s}
        /\ entry' = [entry EXCEPT ![s] = EntryAfter(o)]
        /\ dropped' = PutDropped(o)
    BY <1>7, <2>0, PutIs
  <2>2. /\ s \in Schedule /\ o.prev = entry[s] /\ o.call \in EditCall
        /\ task[s] = TaskAfter(o)
        /\ o.call \in {"register", "save"} => o.new \in Snap
        /\ o.new \in Snap => o.new \in file /\ ~IsRetained(s, o.new)
        /\ o.prev # None => ~IsRetained(s, o.prev.snap)
        /\ o.call \in {"enable", "disable"} => o.prev.snap \in file
    <3>1. /\ s \in Schedule /\ EditOK(o) /\ o.step = "put" /\ o.call \in EditCall
          /\ o.call \in {"register", "save"} => o.new # None
          /\ o.new \in Snap \cup {None}
      BY <1>2, <2>0, <2>1 DEF EditStep, Editing, CallOK
    <3>2. o.removed = {}
      BY <3>1 DEF EditOK
    <3>3. /\ o.prev = entry[s] /\ TaskOK(o)
          /\ o.new \in Snap => o.new \in file /\ ~IsRetained(s, o.new)
          /\ o.prev # None => ~IsRetained(s, o.prev.snap)
      BY <1>2, <2>0, <2>1, <3>2 DEF EditStep
    <3> QED
      BY <2>0, <3>1, <3>3 DEF EditOK, TaskOK
  <2>3. \A t \in Schedule : t # s =>
          /\ entry'[t] = entry[t]
          /\ \A n \in Snap : IsRetained(t, n)' <=> IsRetained(t, n)
    BY <2>0, <2>1 DEF StoreType, TypeOK, IsRetained, PutDropped
  <2>4. entry'[s] = EntryAfter(o)
    BY <2>1, <2>2 DEF StoreType, TypeOK
  <2>5. /\ entry'[s] # None => entry'[s].snap \in file
        /\ task[s] # None => task[s] \in file
        /\ \A n \in Snap : IsRetained(s, n)' =>
             task[s] # n /\ (entry'[s] # None => entry'[s].snap # n)
    <3>1. CASE o.call \in {"register", "save"}
      <4>1. /\ entry'[s].snap = o.new /\ task[s] \in {o.new, None} /\ dropped' = dropped
            /\ entry'[s].kept = SnapsOf(o.prev) \ {o.new}
        BY <2>1, <2>2, <2>4, <3>1 DEF EntryAfterIs, TaskAfter, PutDropped
      <4> QED
        BY <2>2, <3>1, <4>1, NoneIsNothing DEF IsRetained
    <3>2. CASE o.call \in {"enable", "disable"}
      <4>1. /\ entry'[s].snap = o.prev.snap /\ task[s] \in {o.prev.snap, None}
            /\ dropped' = dropped /\ entry'[s].kept = o.prev.kept /\ o.prev # None
        BY <2>1, <2>2, <2>4, <3>2, NoneIsNothing DEF EntryAfterIs, TaskAfter, PutDropped
      <4> QED
        BY <2>2, <3>2, <4>1, NoneIsNothing DEF IsRetained
    <3>3. CASE o.call = "delete"
      <4>1. entry'[s] = None /\ task[s] = None
        BY <2>1, <2>2, <2>4, <3>3 DEF EntryAfterIs, TaskAfter
      <4> QED
        BY <4>1, NoneIsNothing
    <3> QED
      BY <2>2, <3>1, <3>2, <3>3 DEF EditCall
  <2>6. \A t \in Schedule : /\ t \notin spoiled' =>
                                 /\ entry'[t] # None => entry'[t].snap \in file
                                 /\ task[t] # None => task[t] \in file
                            /\ \A n \in Snap : IsRetained(t, n)' =>
                                 /\ t \notin spoiled' => task[t] # n
                                 /\ entry'[t] # None => entry'[t].snap # n
    <3> TAKE t \in Schedule
    <3>1. CASE t = s
      BY <2>5, <3>1 DEF IsRetained
    <3>2. CASE t # s
      <4>1. /\ t \notin spoiled =>
                 /\ entry[t] # None => entry[t].snap \in file
                 /\ task[t] # None => task[t] \in file
            /\ \A n \in Snap : IsRetained(t, n) =>
                 /\ t \notin spoiled => task[t] # n
                 /\ entry[t] # None => entry[t].snap # n
        BY <1>1 DEF SnapsOK, EntryHasSnapshot, TaskHasSnapshot
      <4>3. t \in spoiled' <=> t \in spoiled
        BY <2>1, <3>2
      <4>2. /\ entry'[t] = entry[t]
            /\ \A n \in Snap : IsRetained(t, n)' => IsRetained(t, n)
        BY <2>3, <3>2
      <4> QED
        BY <4>1, <4>2, <4>3
    <3> QED
      BY <3>1, <3>2
  <2> QED
    BY <1>1, <2>1, <2>6 DEF SnapsOK, TaskHasSnapshot, EntryHasSnapshot
<1> QED
  BY <1>3, <1>4, <1>5, <1>6, <1>7 DEF EditGoesOn

LEMMA SnapsInv ==
  ASSUME StoreType, RunsOK, CallsOK, FoldersOK, Kept, Kind
  PROVE  SnapsOK'
<1>1. SnapsOK /\ OwnersOK /\ SweepsOK
  BY DEF Kept
<1>2. ASSUME UNCHANGED <<entry, dropped, task>>, file \subseteq file', spoiled \subseteq spoiled'
      PROVE  SnapsOK'
  BY <1>1, <1>2 DEF SnapsOK, TaskHasSnapshot, EntryHasSnapshot, IsRetained
<1>3. CASE Quiet
  BY <1>2, <1>3 DEF Quiet
<1>4. ASSUME NEW w \in Window, NEW s \in Schedule, NEW call, NEW n, Begins(w, s, call, n)
      PROVE  SnapsOK'
  BY <1>2, <1>4 DEF Begins
<1>5. ASSUME NEW p \in Proc, Unlink(p)
      PROVE  SnapsOK'
  <2> DEFINE c == op[p].at
  <2>1. /\ op[p].step = "unlink" /\ c \in op[p].todo /\ c \in Pair
        /\ UNCHANGED <<entry, dropped, task, spoiled>> /\ file' = file \ {c[2]}
    BY <1>5, UnlinkIs
  <2>2. c[1] \in Schedule /\ c[2] \in Snap /\ IsRetained(c[1], c[2])
    BY <1>1, <2>1 DEF SweepsOK, Pair
  <2>3. \A t \in Schedule \ spoiled : task[t] # c[2] /\ (entry[t] # None => entry[t].snap # c[2])
    <3> SUFFICES ASSUME NEW t \in Schedule \ spoiled, task[t] = c[2] \/ (entry[t] # None /\ entry[t].snap = c[2])
                 PROVE  FALSE
      OBVIOUS
    <3>1. Owns(t, c[2]) /\ Owns(c[1], c[2])
      BY <2>2 DEF Owns
    <3>2. t = c[1]
      BY <1>1, <2>2, <3>1 DEF OwnersOK
    <3> QED
      BY <1>1, <2>2, <3>2 DEF SnapsOK
  <2> QED
    BY <1>1, <2>1, <2>3, SnapsFile
<1>6. ASSUME NEW p \in Proc, Collected(p)
      PROVE  SnapsOK'
  <2>1. \A s \in Schedule, n \in Snap : IsRetained(s, n)' => IsRetained(s, n)
    BY <1>6, CollectedIs DEF IsRetained
  <2>2. /\ UNCHANGED <<file, task, spoiled>>
        /\ \A s \in Schedule : /\ entry'[s] = None <=> entry[s] = None
                               /\ entry[s] # None => entry'[s].snap = entry[s].snap
    BY <1>6, CollectedIs
  <2> QED
    BY <1>1, <2>1, <2>2 DEF SnapsOK, TaskHasSnapshot, EntryHasSnapshot
<1>7. ASSUME NEW p \in Proc, Spoils(p)
      PROVE  SnapsOK'
  BY <1>2, <1>7 DEF Spoils
<1> QED
  BY <1>3, <1>4, <1>5, <1>6, <1>7, SnapsEdit DEF Kind

-----------------------------------------------------------------------------
(* An edit knows what it may put back *)

\* When one process is in the middle of an edit, the claim about edits is about it.
LEMMA EditsOne ==
  ASSUME NEW w \in Proc, op' = [op EXCEPT ![w] = op'[w]], op \in [Proc -> OpType],
         \A q \in Proc : q # w => op[q].step \notin EditStep,
         op'[w].step \in EditStep => EditOK(op[w])'
  PROVE  EditsOK'
<1>1. \A q \in Proc : op'[q].step \in EditStep => q = w
  OBVIOUS
<1> QED
  BY <1>1 DEF EditsOK

LEMMA EditsEdit ==
  ASSUME StoreType, RunsOK, CallsOK, FoldersOK, Kept, NEW w \in Window, EditGoesOn(w)
  PROVE  EditsOK'
<1> DEFINE o == op[w]
<1>1. EditsOK /\ w \in Proc /\ op \in [Proc -> OpType]
  BY DEF Kept, Proc, CallsOK
<1>2. ASSUME NEW step \in EditStep, Editing(w, step)
      PROVE  /\ o.schedule \in Schedule /\ o \in OpType /\ o.step = step /\ EditOK(o)
             /\ o.removed # {} => step \in {"restore", "discard"}
             /\ o.removed = {} =>
                  /\ o.prev = entry[o.schedule] /\ TaskOK(o)
                  /\ o.prevTask \in Snap => o.prevTask # o.new
                  /\ o.new # None =>
                       /\ o.new \in file /\ ~IsRetained(o.schedule, o.new)
                       /\ entry[o.schedule] # None => entry[o.schedule].snap # o.new
             /\ \A q \in Proc : q # w => op[q].step \notin EditStep
             /\ o.call \in EditCall /\ CallOK(o)
  <2>1. /\ o.schedule \in Schedule /\ o \in OpType /\ o.step = step /\ EditOK(o)
        /\ \A q \in Proc : q # w => op[q].step \notin EditStep
        /\ o.call \in EditCall /\ CallOK(o)
    BY <1>1, <1>2 DEF Editing, EditsOK, EditStep
  <2> QED
    BY <2>1 DEF EditOK
<1>3. ASSUME NEW next \in {"put", "restore", "discard"}, SameEdit(w, next),
             \E step \in EditStep : Editing(w, step),
             UNCHANGED <<entry, dropped, file, spoiled>>,
             o.removed = {} => TaskOK(op[w])',
             next = "put" => o.removed = {},
             next = "restore" => faults' > 0
      PROVE  EditsOK'
  <2>1. PICK step \in EditStep : Editing(w, step)
    BY <1>3
  <2>2. EditOK(o) /\ \A q \in Proc : q # w => op[q].step \notin EditStep
    BY <1>2, <2>1
  <2>3. /\ op' = [op EXCEPT ![w] = op'[w]] /\ op'[w].step = next
        /\ op'[w].call = o.call /\ op'[w].schedule = o.schedule /\ op'[w].new = o.new
        /\ op'[w].prev = o.prev /\ op'[w].prevTask = o.prevTask
        /\ op'[w].removed = o.removed
    BY <1>3 DEF SameEdit
  <2>4. EditOK(op[w])'
    BY <1>3, <2>2, <2>3 DEF EditOK, IsRetained
  <2> QED
    BY <1>1, <2>2, <2>3, <2>4, EditsOne
<1>4. faults \in Nat
  BY DEF StoreType
<1>5. CASE SetTask(w)
  <2>0. o.removed = {}
    BY <1>2, <1>5, SetTaskIs DEF EditStep
  <2>1. /\ Editing(w, "task") /\ SameEdit(w, "put") /\ UNCHANGED <<entry, dropped, file, spoiled>>
        /\ task' = [task EXCEPT ![o.schedule] = TaskAfter(o)]
    BY <1>5, SetTaskIs
  <2>2. o.schedule \in Schedule /\ task'[o.schedule] = TaskAfter(o)
    BY <1>2, <2>1 DEF EditStep, StoreType, TypeOK
  <2>3. /\ op'[w].step = "put" /\ op'[w].call = o.call /\ op'[w].schedule = o.schedule
        /\ op'[w].new = o.new /\ op'[w].prev = o.prev
    BY <2>1 DEF SameEdit
  <2>4. task'[op'[w].schedule] = TaskAfter(op'[w])
    BY <2>2, <2>3 DEF TaskAfter
  <2>5. o.call = "save" /\ o.new # None => task'[op'[w].schedule] # o.new
    BY <2>2, <2>3 DEF TaskAfter
  <2>6. TaskOK(op[w])'
    BY <2>3, <2>4, <2>5 DEF TaskOK, TaskAfter
  <2> QED
    BY <1>3, <2>0, <2>1, <2>6 DEF EditStep
<1>6. CASE SetTaskFails(w)
  <2>1. /\ Editing(w, "task") /\ (SameEdit(w, "restore") \/ SameEdit(w, "discard"))
        /\ UNCHANGED <<entry, dropped, file, spoiled, task>> /\ faults' = faults + 1
    BY <1>6, SetTaskFailsIs
  <2>2. /\ o.prevTask # Unknown => task[o.schedule] = o.prevTask
        /\ o.new # None => task[o.schedule] # o.new
    BY <1>2, <2>1 DEF EditStep, TaskOK
  <2>3. TaskOK(op[w])'
    BY <2>1, <2>2 DEF SameEdit, TaskOK
  <2> QED
    BY <1>3, <1>4, <2>1, <2>3 DEF EditStep
<1>7. CASE PutFails(w)
  <2>1. /\ Editing(w, "put")
        /\ IF TaskChanged(o) THEN SameEdit(w, "restore") ELSE SameEdit(w, "discard")
        /\ UNCHANGED <<entry, dropped, file, spoiled, task>> /\ faults' = faults + 1
    BY <1>7, PutFailsIs
  <2>2. o.removed = {} /\ o.step = "put" /\ task[o.schedule] = TaskAfter(o)
    BY <1>2, <2>1 DEF EditStep, TaskOK
  <2>3. CASE TaskChanged(o)
    <3>1. SameEdit(w, "restore")
      BY <2>1, <2>3
    <3>2. o.call = "save" => task[o.schedule] = None
      BY <2>2 DEF TaskAfter
    <3>3. TaskOK(op[w])'
      BY <2>1, <3>1, <3>2 DEF SameEdit, TaskOK
    <3> QED
      BY <1>3, <1>4, <2>1, <3>1, <3>3 DEF EditStep
  <2>4. CASE ~TaskChanged(o)
    <3>1. SameEdit(w, "discard")
      BY <2>1, <2>4
    <3>2. task[o.schedule] = None /\ o.prevTask \in {None, Unknown}
      BY <2>2, <2>4 DEF TaskAfter, TaskChanged
    <3>3. TaskOK(op[w])'
      BY <2>1, <3>1, <3>2 DEF SameEdit, TaskOK
    <3> QED
      BY <1>3, <1>4, <2>1, <3>1, <3>3 DEF EditStep
  <2> QED
    BY <2>3, <2>4
<1>8. CASE RestoreTask(w)
  <2>1. /\ Editing(w, "restore") /\ SameEdit(w, "discard") /\ UNCHANGED <<entry, dropped, file, spoiled>>
        /\ task' = [task EXCEPT ![o.schedule] = TaskBefore(o)]
    BY <1>8, RestoreTaskIs
  <2>2. o.schedule \in Schedule /\ task'[o.schedule] = TaskBefore(o)
    BY <1>2, <2>1 DEF EditStep, StoreType, TypeOK
  <2>3. o.prevTask \in Snap \cup {None, Unknown} /\ o.new \in Snap \cup {None}
    BY <1>2, <2>1 DEF EditStep, OpType
  <2>4. o.prevTask # Unknown =>
          \/ TaskBefore(o) = o.prevTask
          \/ /\ o.prevTask = None /\ o.prev # None /\ o.prev.enabled
             /\ TaskBefore(o) = o.prev.snap
    BY <2>3 DEF TaskBefore
  <2>5. o.removed = {} /\ o.new # None => TaskBefore(o) # o.new
    <3>1. o.removed = {} =>
            /\ o.prevTask \in Snap => o.prevTask # o.new
            /\ o.new # None /\ o.prev # None => o.prev.snap # o.new
      BY <1>2, <2>1 DEF EditStep
    <3> QED
      BY <2>3, <3>1 DEF TaskBefore
  <2>6. o.removed = {} => TaskOK(op[w])'
    BY <2>1, <2>2, <2>4, <2>5 DEF SameEdit, TaskOK
  <2> QED
    BY <1>3, <2>1, <2>6 DEF EditStep
<1>9. CASE Put(w) \/ RestoreFails(w) \/ Discard(w)
  <2>1. /\ \E step \in EditStep : Editing(w, step)
        /\ op' = [op EXCEPT ![w] = op'[w]] /\ op'[w].step \notin EditStep
    BY <1>1, <1>9, PutIs, RestoreFailsIs, DiscardIs DEF EditStep, Idle
  <2>2. \A q \in Proc : op'[q].step \notin EditStep
    BY <1>1, <1>2, <2>1
  <2> QED
    BY <2>2 DEF EditsOK
<1> QED
  BY <1>5, <1>6, <1>7, <1>8, <1>9 DEF EditGoesOn

LEMMA EditsInv ==
  ASSUME StoreType, RunsOK, CallsOK, FoldersOK, Kept, Kind
  PROVE  EditsOK'
<1>1. EditsOK /\ OwnersOK /\ SnapsOK /\ op \in [Proc -> OpType] /\ made \in Nat
  BY DEF Kept, CallsOK, StoreType, TypeOK
<1>2. CASE Quiet
  <2>1. /\ UNCHANGED <<entry, dropped, task, file, spoiled>>
        /\ \A q \in Proc : op'[q].step \in EditStep => op'[q] = op[q]
        /\ faults > 0 => faults' > 0
    BY <1>2 DEF Quiet
  <2>2. ASSUME NEW q \in Proc, op'[q].step \in EditStep, TaskOK(op[q]) PROVE TaskOK(op[q])'
    BY <2>1, <2>2 DEF TaskOK
  <2>3. ASSUME NEW q \in Proc, op'[q].step \in EditStep PROVE EditOK(op[q])'
    <3>1. op'[q] = op[q] /\ EditOK(op[q])
      BY <1>1, <2>1, <2>3 DEF EditsOK
    <3>2. TaskOK(op[q]) => TaskOK(op[q])'
      BY <2>2, <2>3
    <3> QED
      BY <2>1, <3>1, <3>2 DEF EditOK, IsRetained
  <2> QED
    BY <2>3 DEF EditsOK
<1>3. ASSUME NEW w \in Window, NEW s \in Schedule, NEW call, NEW n, Begins(w, s, call, n)
      PROVE  EditsOK'
  <2>1. PICK o : Begun(w, o, call, s, n)
    BY <1>3 DEF Begins
  <2>2. /\ UNCHANGED <<entry, dropped, task, spoiled>> /\ file \subseteq file' /\ holder = None
        /\ call \in {"enable", "disable"} => entry[s].snap \in file
        /\ \/ n = None
           \/ n = made + 1 /\ n \in Snap /\ n \in file'
    BY <1>3 DEF Begins
  <2>3. w \in Proc /\ \A q \in Proc : op[q].step \notin EditStep
    BY <2>2, NoneIsNothing DEF Proc, CallsOK, EditStep
  <2>4. /\ op' = [op EXCEPT ![w] = op'[w]] /\ op'[w] = o /\ o.step = "task" /\ o.schedule = s
        /\ o.new = n /\ o.prev = entry[s] /\ o.prevTask \in {task[s], Unknown}
        /\ o.call = call /\ o.removed = {}
    BY <1>1, <2>1, <2>3 DEF Begun
  <2>5. n # None => ~Owns(s, n) /\ n \in Snap
    BY <1>1, <2>2, NoneIsNothing DEF OwnersOK
  <2>6. /\ o.prevTask \in Snap => o.prevTask # n
        /\ o.prevTask \in Snap /\ s \notin spoiled =>
             o.prevTask \in file' /\ ~IsRetained(s, o.prevTask)
        /\ n # None =>
             /\ n \in file' /\ ~IsRetained(s, n) /\ task[s] # n
             /\ entry[s] # None => entry[s].snap # n
    BY ZenonT(40), <1>1, <2>2, <2>4, <2>5, NoneIsNothing DEF Owns, SnapsOK, TaskHasSnapshot
  <2>7. TaskOK(op[w])'
    BY <2>2, <2>4, <2>6 DEF TaskOK
  <2>8. EditOK(op[w])'
    BY <2>2, <2>4, <2>6, <2>7 DEF EditOK, IsRetained
  <2> QED
    BY <1>1, <2>3, <2>4, <2>8, EditsOne
<1>4. ASSUME NEW p \in Proc, Unlink(p) \/ Collected(p)
      PROVE  EditsOK'
  <2>1. /\ op[p].step \notin {"idle", "wait"}
        /\ op' = [op EXCEPT ![p] = op'[p]] /\ op'[p].step \notin EditStep
    BY <1>1, <1>4, UnlinkIs, CollectedIs DEF EditStep, Idle
  <2>2. \A q \in Proc : op'[q].step \notin EditStep
    BY <1>1, <2>1, Alone DEF EditStep
  <2> QED
    BY <2>2 DEF EditsOK
<1>5. ASSUME NEW p \in Proc, Spoils(p)
      PROVE  EditsOK'
  <2>1. \A q \in Proc : q # p => op[q].step \notin EditStep
    BY <1>5, Alone DEF Spoils, EditStep
  <2>2. /\ op' = [op EXCEPT ![p] = op'[p]] /\ op'[p].step \in {"restore", "discard"}
        /\ op'[p].schedule = op[p].schedule /\ op'[p].removed # {}
        /\ op'[p].call = op[p].call /\ op[p].call \in {"register", "save"}
        /\ spoiled' = spoiled \cup {op[p].schedule} /\ faults' = faults + 1
    BY <1>5 DEF Spoils, SameEdit
  <2>3. faults' > 0
    BY <2>2 DEF StoreType
  <2>4. EditOK(op[p])'
    BY <2>2, <2>3 DEF EditOK
  <2> QED
    BY <1>1, <2>1, <2>2, <2>4, EditsOne
<1> QED
  BY <1>2, <1>3, <1>4, <1>5, EditsEdit DEF Kind

-----------------------------------------------------------------------------
(* What a cleanup drops is gone, and nobody's snapshot is forgotten *)

\* An edit that goes on only deletes; a registry that is written names nothing that a
\* cleanup has unlinked.
LEMMA EditGoesOnIs ==
  ASSUME StoreType, CallsOK, FoldersOK, NEW w \in Window, EditGoesOn(w)
  PROVE  /\ w \in Proc /\ \E step \in EditStep : Editing(w, step)
         /\ op' = [op EXCEPT ![w] = op'[w]] /\ op'[w].step \in EditStep \cup {"idle", "queue"}
         /\ op'[w].removed \in {{}, op[w].removed}
         /\ UNCHANGED <<made, run, crashes>> /\ file' \subseteq file
         /\ op'[w].call \in {"none", op[w].call} /\ op'[w].completed \in {None, op[w].completed}
         /\ op'[w].call = "none" => op'[w].completed = None
<1>1. w \in Proc /\ op \in [Proc -> OpType]
  BY DEF Proc, CallsOK
<1>2. CASE SetTask(w) \/ RestoreTask(w) \/ SetTaskFails(w) \/ PutFails(w)
  <2>1. /\ \E step \in EditStep : Editing(w, step)
        /\ \E step \in EditStep : SameEdit(w, step)
        /\ UNCHANGED <<made, run, crashes, file>>
    BY <1>2, SetTaskIs, RestoreTaskIs, SetTaskFailsIs, PutFailsIs DEF EditStep
  <2>2. op[w].call # "none"
    BY <2>1 DEF Editing, EditCall
  <2> QED
    BY <1>1, <2>1, <2>2 DEF SameEdit
<1>3. CASE RestoreFails(w) \/ Discard(w)
  BY <1>1, <1>3, RestoreFailsIs, DiscardIs DEF EditStep, Idle
<1>4. CASE Put(w)
  <2>1. op'[w].call = "none" => op'[w].completed = None
    <3>1. op[w].call # "none"
      BY <1>4, PutIs DEF Editing, EditCall
    <3>2. op' = [op EXCEPT ![w] = Idle] \/ op'[w].call = op[w].call
      BY <1>1, <1>4 DEF Put, End, OpType
    <3> QED
      BY <1>1, <3>1, <3>2 DEF Idle
  <2> QED
    BY <1>1, <1>4, <2>1, PutIs DEF EditStep
<1> QED
  BY <1>2, <1>3, <1>4 DEF EditGoesOn

LEMMA SweepsInv ==
  ASSUME StoreType, RunsOK, CallsOK, FoldersOK, Kept, Kind
  PROVE  SweepsOK'
<1>1. SweepsOK /\ OwnersOK /\ op \in [Proc -> OpType] /\ made \in Nat /\ file \subseteq Snap
  BY DEF Kept, CallsOK, StoreType, TypeOK
<1>2. CASE Quiet
  BY <1>1, <1>2 DEF Quiet, SweepsGo, SweepsOK, IsRetained
<1>3. ASSUME NEW w \in Window, NEW s \in Schedule, NEW call, NEW n, Begins(w, s, call, n)
      PROVE  SweepsOK'
  <2>1. PICK o : Begun(w, o, call, s, n)
    BY <1>3 DEF Begins
  <2>2. /\ UNCHANGED <<entry, dropped>>
        /\ \/ UNCHANGED <<made, file>>
           \/ made' = made + 1 /\ file' = file \cup {made + 1}
    BY <1>3 DEF Begins
  <2>3. w \in Proc /\ op' = [op EXCEPT ![w] = o] /\ o.step = "task" /\ o.removed = {}
    BY <2>1 DEF Begun, Proc
  <2>4. \A p \in Proc : /\ op'[p].step \in {"collect", "unlink"} => op'[p] = op[p]
                        /\ op'[p].removed \in {{}, op[p].removed}
    BY <1>1, <2>3
  <2>5. \A p \in Proc : \A c \in op[p].removed : c[2] \notin file' /\ c[2] <= made'
    <3> TAKE p \in Proc
    <3> TAKE c \in op[p].removed
    <3>1. c[2] \notin file /\ c[2] <= made /\ c[2] \in Nat
      <4>1. op[p].removed \in SUBSET Pair
        BY <1>1 DEF OpType
      <4>2. c[2] \in Snap
        BY <4>1 DEF Pair
      <4> QED
        BY <1>1, <4>2, NoneIsNothing DEF SweepsOK
    <3> QED
      BY <1>1, <2>2, <3>1
  <2> QED
    BY <1>1, <2>2, <2>4, <2>5 DEF SweepsOK, IsRetained
<1>4. ASSUME NEW w \in Window, EditGoesOn(w)
      PROVE  SweepsOK'
  <2>1. PICK step \in EditStep : Editing(w, step)
    BY <1>4, EditGoesOnIs
  <2>2. /\ w \in Proc /\ op' = [op EXCEPT ![w] = op'[w]]
        /\ op'[w].step \in EditStep \cup {"idle", "queue"}
        /\ op'[w].removed \in {{}, op[w].removed} /\ made' = made /\ file' \subseteq file
    BY <1>4, EditGoesOnIs
  <2>3. \A p \in Proc : op'[p].step \notin {"collect", "unlink"}
    BY <1>1, <2>1, <2>2 DEF Editing, EditStep
  <2>4. \A p \in Proc : op'[p].removed \in {{}, op[p].removed}
    BY <1>1, <2>2
  <2> QED
    BY <1>1, <2>2, <2>3, <2>4 DEF SweepsOK
<1>5. ASSUME NEW p \in Proc, Unlink(p)
      PROVE  SweepsOK'
  <2> DEFINE c == op[p].at
  <2>1. /\ op[p].step = "unlink" /\ c \in op[p].todo /\ c \in Pair
        /\ op' = [op EXCEPT ![p] = op'[p]] /\ op'[p].todo \subseteq op[p].todo
        /\ op'[p].removed = op[p].removed \cup {c}
        /\ UNCHANGED <<entry, dropped, made>> /\ file' = file \ {c[2]}
    BY <1>5, UnlinkIs
  <2>2. c[1] \in Schedule /\ c[2] \in Snap /\ IsRetained(c[1], c[2])
    BY <1>1, <2>1 DEF SweepsOK, Pair
  <2>3. c[2] <= made
    BY <1>1, <2>2 DEF OwnersOK, Owns
  <2> HIDE DEF c
  <2>4. \A q \in Proc : \A d \in op'[q].todo : d \in op[q].todo
    BY <1>1, <2>1
  <2>5. \A q \in Proc : \A d \in op'[q].removed : d[2] \notin file' /\ d[2] <= made'
    BY <1>1, <2>1, <2>3 DEF SweepsOK
  <2>6. \A q \in Proc : op'[q].step \in {"collect", "unlink"} => op[q].step \in {"collect", "unlink"}
    BY <1>1, <2>1
  <2> QED
    BY <1>1, <2>1, <2>4, <2>5, <2>6 DEF SweepsOK, IsRetained
<1>6. ASSUME NEW p \in Proc, Collected(p)
      PROVE  SweepsOK'
  <2>1. op[p].step = "collect" /\ op' = [op EXCEPT ![p] = Idle] /\ UNCHANGED <<made, file>>
    BY <1>6, CollectedIs
  <2>2. \A q \in Proc : op'[q].step \notin {"collect", "unlink"}
    BY <1>1, <2>1, Alone DEF Idle
  <2>3. \A q \in Proc : op'[q].removed \in {{}, op[q].removed}
    BY <1>1, <2>1 DEF Idle
  <2> QED
    BY <1>1, <2>1, <2>2, <2>3 DEF SweepsOK
<1>7. ASSUME NEW p \in Proc, Spoils(p)
      PROVE  SweepsOK'
  <2>1. /\ op' = [op EXCEPT ![p] = op'[p]] /\ op'[p].step \in {"restore", "discard"}
        /\ op'[p].removed = op[p].removed /\ UNCHANGED <<entry, dropped, made, file>>
    BY <1>7 DEF Spoils, SameEdit
  <2> QED
    BY <1>1, <2>1 DEF SweepsOK, IsRetained
<1> QED
  BY <1>2, <1>3, <1>4, <1>5, <1>6, <1>7 DEF Kind

\* A snapshot that somebody needs or looks after.
Known(n) ==
  \/ \E s \in Schedule : (entry[s] # None /\ entry[s].snap = n) \/ IsRetained(s, n)
  \/ \E w \in Window : op[w].step \in EditStep /\ op[w].new = n

LEMMA FileEdit ==
  ASSUME StoreType, RunsOK, CallsOK, FoldersOK, Kept, NEW w \in Window, EditGoesOn(w)
  PROVE  FileOK'
<1> DEFINE o == op[w]
<1>1. FileOK /\ EditsOK /\ op \in [Proc -> OpType] /\ w \in Proc /\ faults \in Nat
  BY DEF Kept, CallsOK, Proc, StoreType
<1>2. SUFFICES ASSUME crashes' = 0, faults' < 2, NEW n \in file'
               PROVE  Known(n)'
  BY DEF FileOK, Known
<1>3. crashes = 0 /\ n \in file /\ n \in Snap
  BY <1>2, EditGoesOnIs DEF StoreType, TypeOK
<1>4. ASSUME faults < 2 PROVE Known(n)
  BY <1>1, <1>3, <1>4 DEF FileOK, Known
<1>5. \A v \in Window : v # w => op[v].step \notin EditStep
  BY EditGoesOnIs DEF Editing, EditStep, Proc
<1>6. CASE SetTask(w) \/ RestoreTask(w) \/ SetTaskFails(w) \/ PutFails(w)
  <2>1. /\ \E step \in EditStep : SameEdit(w, step)
        /\ UNCHANGED <<entry, dropped>> /\ faults' \in {faults, faults + 1}
    BY <1>6, SetTaskIs, RestoreTaskIs, SetTaskFailsIs, PutFailsIs DEF EditStep
  <2>2. faults < 2
    BY <1>1, <1>2, <2>1
  <2>3. op'[w].step \in EditStep /\ op'[w].new = o.new
    BY <2>1 DEF SameEdit
  <2> QED
    BY <1>1, <1>4, <1>5, <2>1, <2>2, <2>3 DEF Known, IsRetained
<1>7. CASE RestoreFails(w)
  <2>1. faults' = faults + 1 /\ o.step = "restore"
    BY <1>7, RestoreFailsIs DEF Editing
  <2>2. faults > 0
    BY <1>1, <2>1 DEF EditsOK, EditOK, EditStep
  <2> QED
    BY <1>1, <1>2, <2>1, <2>2
<1>8. CASE Discard(w)
  <2>1. UNCHANGED <<entry, dropped, faults>> /\ file' = file \ {o.new}
    BY <1>8, DiscardIs
  <2>2. Known(n) /\ n # o.new
    BY <1>2, <1>4, <2>1
  <2> QED
    BY <1>5, <2>1, <2>2 DEF Known, IsRetained
<1>9. CASE Put(w)
  <2>0. PICK s \in Schedule : s = o.schedule
    BY <1>9, PutIs DEF Editing
  <2>1. /\ Editing(w, "put") /\ EntryAfterIs(o) /\ UNCHANGED <<file, faults>>
        /\ entry' = [entry EXCEPT ![s] = EntryAfter(o)]
        /\ dropped' = PutDropped(o)
    BY <1>9, <2>0, PutIs
  <2>2. o.prev = entry[s] /\ o.call \in EditCall /\ CallOK(o)
    BY <1>1, <2>0, <2>1 DEF EditsOK, EditOK, Editing, EditStep
  <2>3. /\ \A t \in Schedule : t # s => entry'[t] = entry[t]
        /\ entry'[s] = EntryAfter(o) /\ dropped \subseteq dropped'
    BY <2>1 DEF StoreType, TypeOK, PutDropped
  <2>4. ASSUME NEW t \in Schedule, t # s, (entry[t] # None /\ entry[t].snap = n) \/ IsRetained(t,
               n)
        PROVE  Known(n)'
    BY <2>3, <2>4 DEF Known, IsRetained
  <2>5. ASSUME IsRetained(s, n) \/ n \in SnapsOf(o.prev) \/ n = o.new
        PROVE  Known(n)'
    <3>1. CASE <<s, n>> \in dropped
      BY <2>3, <3>1 DEF Known, IsRetained
    <3>2. CASE n \in SnapsOf(o.prev) \/ n = o.new
      <4>1. CASE o.call \in {"register", "save"}
        <5>1. /\ entry'[s] # None /\ entry'[s].snap = o.new
              /\ entry'[s].kept = SnapsOf(o.prev) \ {o.new}
          BY <2>1, <2>3, <4>1, NoneIsNothing DEF EntryAfterIs
        <5> QED
          BY <3>2, <5>1 DEF Known, IsRetained
      <4>2. CASE o.call \in {"enable", "disable"}
        <5>1. /\ entry'[s] # None /\ entry'[s].snap = o.prev.snap
              /\ entry'[s].kept = o.prev.kept /\ o.new = None
          BY <2>1, <2>2, <2>3, <4>2, NoneIsNothing DEF EntryAfterIs, CallOK
        <5> QED
          BY <1>3, <3>2, <5>1, NoneIsNothing DEF Known, IsRetained, SnapsOf
      <4>3. CASE o.call = "delete"
        <5>1. o.new = None /\ \A m \in SnapsOf(o.prev) : <<s, m>> \in dropped'
          BY <2>0, <2>1, <2>2, <4>3 DEF CallOK, PutDropped
        <5> QED
          BY <1>3, <3>2, <5>1, NoneIsNothing DEF Known, IsRetained
      <4> QED
        BY <2>2, <4>1, <4>2, <4>3 DEF EditCall
    <3> QED
      BY <2>2, <2>5, <3>1, <3>2 DEF IsRetained, SnapsOf
  <2>6. Known(n)
    BY <1>2, <1>4, <2>1
  <2>7. \/ \E t \in Schedule : t # s /\ ((entry[t] # None /\ entry[t].snap = n) \/ IsRetained(t, n))
        \/ IsRetained(s, n) \/ n \in SnapsOf(o.prev) \/ n = o.new
    BY <1>5, <2>2, <2>6 DEF Known, SnapsOf
  <2> QED
    BY <2>4, <2>5, <2>7
<1> QED
  BY <1>6, <1>7, <1>8, <1>9 DEF EditGoesOn

LEMMA FileInv ==
  ASSUME StoreType, RunsOK, CallsOK, FoldersOK, Kept, Kind
  PROVE  FileOK'
<1>1. FileOK /\ SweepsOK /\ op \in [Proc -> OpType] /\ faults \in Nat /\ crashes \in Nat
  BY DEF Kept, CallsOK, StoreType
<1>2. SUFFICES ASSUME crashes' = 0, faults' < 2, NEW n \in file',
                      ~\E w \in Window : EditGoesOn(w)
               PROVE  Known(n)'
  BY FileEdit DEF FileOK, Known
<1>3. ASSUME crashes = 0, faults < 2, n \in file PROVE Known(n)
  BY <1>1, <1>3 DEF FileOK, Known
<1>4. CASE Quiet
  <2>1. /\ UNCHANGED <<entry, dropped, file>>
        /\ \A q \in Proc : op[q].step \in EditStep => op'[q] = op[q] \/ crashes' > 0
        /\ crashes = 0 /\ faults < 2
    BY <1>1, <1>2, <1>4 DEF Quiet
  <2>2. Known(n)
    BY <1>2, <1>3, <2>1
  <2> QED
    BY <1>2, <2>1, <2>2 DEF Known, IsRetained, Proc
<1>5. ASSUME NEW w \in Window, NEW s \in Schedule, NEW call, NEW m, Begins(w, s, call, m)
      PROVE  Known(n)'
  <2>1. PICK o : Begun(w, o, call, s, m)
    BY <1>5 DEF Begins
  <2>2. /\ UNCHANGED <<entry, dropped, crashes>> /\ holder = None /\ faults < 2
        /\ \/ UNCHANGED <<made, file>>
           \/ m = made + 1 /\ made' = made + 1 /\ file' = file \cup {made + 1}
    BY <1>1, <1>2, <1>5 DEF Begins
  <2>3. \A v \in Window : op[v].step \notin EditStep
    BY <2>2, NoneIsNothing DEF CallsOK, EditStep, Proc
  <2>4. CASE n \in file
    BY <1>2, <1>3, <2>2, <2>3, <2>4 DEF Known, IsRetained
  <2>5. CASE n \notin file
    BY <1>1, <1>2, <2>1, <2>2, <2>5 DEF Begun, Known, EditStep, Proc
  <2> QED
    BY <2>4, <2>5
<1>6. ASSUME NEW p \in Proc, Unlink(p)
      PROVE  Known(n)'
  <2>1. /\ op[p].step = "unlink" /\ op' = [op EXCEPT ![p] = op'[p]]
        /\ UNCHANGED <<entry, dropped, crashes, faults>> /\ file' \subseteq file
    BY <1>6, UnlinkIs
  <2>2. Known(n)
    BY <1>2, <1>3, <2>1
  <2>3. \A v \in Window : op[v].step \in EditStep => op'[v] = op[v]
    BY <1>1, <2>1 DEF EditStep, Proc
  <2> QED
    BY <2>1, <2>2, <2>3 DEF Known, IsRetained
<1>7. ASSUME NEW p \in Proc, Collected(p)
      PROVE  Known(n)'
  <2>1. /\ op[p].step = "collect" /\ op' = [op EXCEPT ![p] = Idle]
        /\ UNCHANGED <<file, crashes, faults>>
        /\ \A s \in Schedule :
             /\ entry'[s] = None <=> entry[s] = None
             /\ entry[s] # None =>
                  /\ entry'[s].snap = entry[s].snap
                  /\ \A m \in entry[s].kept : m \notin entry'[s].kept =>
                       \E c \in op[p].removed : c[2] = m
        /\ dropped' = dropped \ op[p].removed
    BY <1>7, CollectedIs
  <2>2. Known(n)
    BY <1>2, <1>3, <2>1
  <2>3. \A c \in op[p].removed : c[2] # n
    BY <1>1, <1>2, <2>1 DEF SweepsOK
  <2>4. \A s \in Schedule : IsRetained(s, n) => IsRetained(s, n)'
    BY <2>1, <2>3 DEF IsRetained
  <2>5. \A v \in Window : op[v].step \in EditStep => op'[v] = op[v]
    BY <1>1, <2>1 DEF EditStep, Proc
  <2> QED
    BY <2>1, <2>2, <2>4, <2>5 DEF Known
<1>8. ASSUME NEW p \in Proc, Spoils(p)
      PROVE  Known(n)'
  <2>1. /\ op[p].step = "collect" /\ op' = [op EXCEPT ![p] = op'[p]]
        /\ UNCHANGED <<entry, dropped, file, crashes>> /\ faults < 2
    BY <1>1, <1>2, <1>8 DEF Spoils, SameEdit
  <2>2. Known(n)
    BY <1>2, <1>3, <2>1
  <2>3. \A v \in Window : op[v].step \in EditStep => op'[v] = op[v]
    BY <1>1, <2>1 DEF EditStep, Proc
  <2> QED
    BY <2>1, <2>2, <2>3 DEF Known, IsRetained
<1> QED
  BY <1>2, <1>4, <1>5, <1>6, <1>7, <1>8 DEF Kind

-----------------------------------------------------------------------------
(* A cleanup spares the runs *)

\* A dispatcher that finalises has its turn, so it never comes to unlink: its own
\* guard is in the way.
LEMMA FinalizeEdit ==
  ASSUME CallsOK, Kept, NEW w \in Proc, op' = [op EXCEPT ![w] = op'[w]], UNCHANGED runVars,
         op'[w].call \in {"none", op[w].call} \/ op'[w].call \in EditCall,
         op'[w].completed \in {None, op[w].completed},
         op'[w].call # op[w].call => op'[w].completed = None,
         op'[w].call = "finalize" =>
           op'[w].queued = op[w].queued /\ op'[w].completed = op[w].completed,
         op'[w].step = "unlink" => op[w].step = "unlink" /\ op'[w].call = op[w].call
  PROVE  FinalizeOK'
BY DEF Kept, FinalizeOK, CallsOK, runVars, EditCall

LEMMA FinalizeCleanup ==
  ASSUME StoreType, RunsOK, CallsOK, Kept, NEW p \in Proc, Cleanup(p)
  PROVE  FinalizeOK'
<1>1. FinalizeOK /\ op \in [Proc -> OpType] /\ CallOK(op[p])
  BY DEF Kept, CallsOK
<1>2. CASE BeginCleanup(p)
  <2>1. op[p].step = "idle" /\ UNCHANGED <<dispatcher, serves, ticket>>
    BY <1>2 DEF BeginCleanup, At
  <2>2. CASE p \in Window /\ UNCHANGED run /\ op'[p].call = "cleanup"
    <3>1. op' = [op EXCEPT ![p] = op'[p]] /\ op'[p].step = "wait" /\ op'[p].completed = None
      <4>1. p \notin Run
        BY <2>2, RegistryAssumption
      <4> QED
        BY <1>1, <1>2, <4>1 DEF BeginCleanup, Idle
    <3> QED
      BY <1>1, <2>1, <2>2, <3>1 DEF FinalizeOK
  <2>3. CASE p \in Run /\ p = dispatcher /\ run[p].step = "running" /\ op'[p].call = "finalize"
    <3>1. /\ op' = [op EXCEPT ![p] = op'[p]] /\ op'[p].step = "wait"
          /\ op'[p].completed = run[serves].snap /\ op'[p].queued = QueuedSnaps
          /\ run' = [run EXCEPT ![p].step = "complete"]
      <4>1. CASE p \in Window
        BY <2>3, <4>1, RegistryAssumption
      <4>2. CASE p \notin Window
        BY ZenonT(40), <1>1, <1>2, <4>2 DEF BeginCleanup, Idle
      <4> QED
        BY <4>1, <4>2
    <3>2. serves # None /\ serves \in ticket /\ serves \in Run
      BY <2>3, NoneIsNothing DEF RunsOK, Dispatching, StoreType, TypeOK, Proc
    <3>3. run'[serves].snap = run[serves].snap /\ run'[p].step = "complete"
      BY <2>3, <3>1, <3>2 DEF RunsOK, RunType
    <3>4. run[serves].snap \in QueuedSnaps
      BY <3>2 DEF QueuedSnaps
    <3>5. \A q \in Proc : q # p => op'[q] = op[q] /\ op[q].call # "finalize"
      BY <1>1, <2>3, <3>1 DEF FinalizeOK
    <3> QED
      BY <1>1, <2>1, <2>3, <3>1, <3>3, <3>4, <3>5 DEF FinalizeOK
  <2> QED
    BY ZenonT(40), <1>1, <1>2, <2>1, <2>2, <2>3 DEF BeginCleanup, Idle
<1>3. CASE Scan(p)
  <2>1. op' = [op EXCEPT ![p] = op'[p]] /\ UNCHANGED runVars
    BY <1>3, CleanupFrame DEF Cleanup, BeginCleanup, Scan, At
  <2>2. /\ op'[p].call = op[p].call /\ op'[p].completed = op[p].completed
        /\ op'[p].step = "collect"
        /\ op[p].step = "queue" \/ op'[p].queued = op[p].queued
    BY <1>1, <1>3 DEF Scan, At, OpType
  <2>3. op[p].step = "queue" => op[p].call # "finalize"
    BY <1>1 DEF CallOK, EditCall
  <2> QED
    BY <2>1, <2>2, <2>3, FinalizeEdit
<1>4. CASE QueueUnreadable(p) \/ Collected(p)
  <2>1. op' = [op EXCEPT ![p] = Idle] /\ UNCHANGED runVars
    BY <1>4 DEF QueueUnreadable, Collected, End
  <2> QED
    BY <1>1, <2>1, FinalizeEdit DEF Idle
<1>5. CASE CollectFails(p)
  <2>1. UNCHANGED runVars
    BY <1>5 DEF CollectFails
  <2>2. CASE op' = [op EXCEPT ![p] = Idle]
    BY <1>1, <2>1, <2>2, FinalizeEdit DEF Idle
  <2>3. CASE \E step \in {"restore", "discard"} : op' = [op EXCEPT ![p].step = step]
    <3>1. /\ op' = [op EXCEPT ![p] = op'[p]]
          /\ op'[p].call = op[p].call /\ op'[p].completed = op[p].completed
          /\ op'[p].queued = op[p].queued
          /\ op'[p].step # "unlink"
      BY <1>1, <2>1, <2>3 DEF OpType
    <3> QED
      BY <2>1, <3>1, FinalizeEdit
  <2> QED
    BY <1>5, <2>2, <2>3 DEF CollectFails, End
<1>6. CASE Inspect(p)
  <2>1. UNCHANGED runVars /\ op[p].step = "collect"
    BY <1>6 DEF Inspect, At
  <2>2. CASE \E c : op' = [op EXCEPT ![p].todo = @ \ {c}]
    <3>1. /\ op' = [op EXCEPT ![p] = op'[p]]
          /\ op'[p].call = op[p].call /\ op'[p].completed = op[p].completed
          /\ op'[p].queued = op[p].queued
          /\ op'[p].step # "unlink"
      BY <1>1, <2>1, <2>2 DEF OpType
    <3> QED
      BY <2>1, <3>1, FinalizeEdit
  <2>3. ASSUME NEW c, MayUnlink(p, c), op' = [op EXCEPT ![p].step = "unlink", ![p].at = c]
        PROVE  FinalizeOK'
    <3>1. op[p].call # "finalize"
      <4> SUFFICES ASSUME op[p].call = "finalize" PROVE FALSE
        OBVIOUS
      <4>1. /\ p = dispatcher /\ run[p].step = "complete"
            /\ op[p].completed \in op[p].queued
        BY <1>1 DEF FinalizeOK
      <4>2. serves # None
        BY <4>1, NoneIsNothing DEF RunsOK, Dispatching
      <4>3. GloballyBusy
        BY <4>1, <4>2 DEF GloballyBusy
      <4> QED
        BY <2>3, <4>1, <4>3 DEF MayUnlink
    <3>2. \A q \in Proc : /\ op'[q].call = op[q].call /\ op'[q].completed = op[q].completed
                          /\ op'[q].queued = op[q].queued /\ (q # p => op'[q] = op[q])
      BY <1>1, <2>3 DEF OpType
    <3> QED
      BY <1>1, <2>1, <3>1, <3>2 DEF FinalizeOK, runVars
  <2> QED
    BY <1>6, <2>2, <2>3 DEF Inspect
<1>7. CASE Unlink(p)
  <2>1. UNCHANGED runVars
    BY <1>7 DEF Unlink
  <2> QED
    BY <1>1, <1>7, <2>1, UnlinkIs, FinalizeEdit
<1> QED
  BY <1>2, <1>3, <1>4, <1>5, <1>6, <1>7 DEF Cleanup

LEMMA FinalizeInv ==
  ASSUME StoreType, RunsOK, CallsOK, FoldersOK, Kept, [Next]_vars
  PROVE  FinalizeOK'
<1>1. FinalizeOK /\ op \in [Proc -> OpType]
  BY DEF Kept, CallsOK
<1>2. ASSUME NEW w \in Window, Edit(w)
      PROVE  FinalizeOK'
  <2>1. /\ w \in Proc /\ UNCHANGED runVars /\ op' = [op EXCEPT ![w] = op'[w]]
    BY <1>2, EditFrame DEF Proc
  <2>2. CASE Look(w) \/ Conflict(w) \/ ConflictReported(w)
    <3>1. op' = op \/ op' = [op EXCEPT ![w] = Idle] \/ op' = [op EXCEPT ![w].step = "conflict"]
      BY <2>2 DEF Look, Conflict, ConflictReported, End
    <3>2. CASE op' = op
      BY <1>1, <2>1, <3>2 DEF FinalizeOK, runVars
    <3>3. CASE op' = [op EXCEPT ![w] = Idle]
      BY <1>1, <2>1, <3>3, FinalizeEdit DEF Idle
    <3>4. CASE op' = [op EXCEPT ![w].step = "conflict"]
      <4>1. /\ op' = [op EXCEPT ![w] = op'[w]]
            /\ op'[w].call = op[w].call /\ op'[w].completed = op[w].completed
            /\ op'[w].queued = op[w].queued
            /\ op'[w].step # "unlink"
        BY <1>1, <2>1, <3>4 DEF OpType
      <4> QED
        BY <2>1, <4>1, FinalizeEdit
    <3> QED
      BY <3>1, <3>2, <3>3, <3>4
  <2>3. ASSUME NEW s \in Schedule, NEW call, NEW n, Begins(w, s, call, n)
        PROVE  FinalizeOK'
    <3>1. PICK o : Begun(w, o, call, s, n)
      BY <2>3 DEF Begins
    <3>2. op'[w].call \in EditCall /\ op'[w].completed = None /\ op'[w].step = "task"
      BY <1>1, <2>1, <2>3, <3>1 DEF Begins, Begun, EditCall
    <3> QED
      BY <2>1, <3>2, FinalizeEdit DEF EditCall
  <2>4. CASE EditGoesOn(w)
    <3>1. PICK step \in EditStep : Editing(w, step)
      BY <2>4, EditGoesOnIs
    <3>2. /\ op'[w].call \in {"none", op[w].call} /\ op'[w].completed \in {None, op[w].completed}
          /\ op'[w].call = "none" => op'[w].completed = None
          /\ op'[w].step \in EditStep \cup {"idle", "queue"}
      BY <2>4, EditGoesOnIs
    <3>3. op[w].call \in EditCall
      BY <3>1 DEF Editing
    <3> QED
      BY <2>1, <3>2, <3>3, FinalizeEdit DEF EditCall, EditStep
  <2>5. CASE \E s \in Schedule, call \in {"register", "save"} : BeginSave(w, s, call)
    BY <2>3, <2>5, BeginSaveIs
  <2>6. CASE \E s \in Schedule, call \in {"enable", "disable"} : BeginApply(w, s, call)
    BY <2>3, <2>6, BeginApplyIs
  <2>7. CASE \E s \in Schedule : BeginDelete(w, s)
    BY <2>3, <2>7, BeginDeleteIs
  <2> QED
    BY <1>2, <2>2, <2>4, <2>5, <2>6, <2>7 DEF Edit, EditGoesOn
<1>3. ASSUME NEW p \in Proc, Crash(p)
      PROVE  FinalizeOK'
  <2>1. /\ op' = [op EXCEPT ![p] = Idle]
        /\ run' = IF p \in Run THEN [run EXCEPT ![p].step = "ended"] ELSE run
        /\ dispatcher # p => UNCHANGED <<dispatcher, serves>>
    BY <1>3 DEF Crash
  <2>2. \A q \in Proc : op'[q].call = "finalize" => q # p /\ op'[q] = op[q]
    BY <1>1, <2>1 DEF Idle
  <2>3. \A r \in Run : run'[r].snap = run[r].snap /\ (r # p => run'[r] = run[r])
    BY <2>1 DEF RunsOK, RunType
  <2>4. \A q \in Proc : op'[q].call = "finalize" =>
          /\ q = dispatcher' /\ run'[q].step = "complete" /\ run'[serves'].snap = run[serves].snap
    <3> SUFFICES ASSUME NEW q \in Proc, op'[q].call = "finalize"
                 PROVE  /\ q = dispatcher' /\ run'[q].step = "complete"
                        /\ run'[serves'].snap = run[serves].snap
      OBVIOUS
    <3>1. q = dispatcher /\ run[q].step = "complete" /\ q # p
      BY <1>1, <2>2 DEF FinalizeOK
    <3>2. dispatcher \in Run /\ serves \in Run
      BY <3>1, NoneIsNothing DEF RunsOK, Dispatching, StoreType, TypeOK, Proc
    <3> QED
      BY <2>1, <2>3, <3>1, <3>2
  <2>5. \A q \in Proc : op'[q] = op[q] \/ op'[q] = Idle
    BY <1>1, <2>1
  <2> QED
    BY <1>1, <2>2, <2>4, <2>5 DEF FinalizeOK, Idle
<1>4. ASSUME NEW r \in Run, RunStep(r)
      PROVE  FinalizeOK'
  <2>1. op' = op
    BY <1>4, RunStepFrame
  <2>2. SUFFICES ASSUME NEW p \in Proc, op[p].call = "finalize"
                 PROVE  /\ p = dispatcher' /\ run'[p].step = "complete"
                        /\ run'[serves'].snap = run[serves].snap
    BY <1>1, <2>1 DEF FinalizeOK
  <2>3. /\ p = dispatcher /\ run[p].step = "complete" /\ op[p] # Idle
    BY <1>1, <2>2 DEF FinalizeOK, Idle
  <2>4. p \in Run /\ serves \in Run /\ run[serves].step # "idle"
    BY <2>3, NoneIsNothing DEF RunsOK, Dispatching, StoreType, TypeOK, Proc
  <2>5. CASE \E s \in Schedule : Fire(r, s)
    BY <2>3, <2>4, <2>5 DEF Fire, RunsOK
  <2>6. ASSUME NEW step, RunGoes(r, step), run[r].step # "complete",
               UNCHANGED <<dispatcher, serves>>
        PROVE  /\ p = dispatcher' /\ run'[p].step = "complete"
               /\ run'[serves'].snap = run[serves].snap
    BY <2>3, <2>4, <2>6 DEF RunGoes, RunsOK, RunType
  <2>7. CASE Queue(r)
    BY <2>6, <2>7 DEF Queue
  <2>8. CASE Lease(r)
    BY <2>3, <2>4, <2>6, <2>8, NoneIsNothing DEF Lease, Proc
  <2>9. CASE Claim(r) \/ FindEmpty(r)
    BY <2>3, <2>9 DEF Claim, FindEmpty
  <2>10. CASE Serve(r) \/ Leave(r)
    BY <2>3, <2>10 DEF Serve, Leave, RunsOK, Dispatching
  <2>11. CASE Complete(r)
    BY <2>3, <2>11 DEF Complete, At, RunsOK, Dispatching, Idle, CallsOK, CallOK
  <2> QED
    BY <1>4, <2>5, <2>7, <2>8, <2>9, <2>10, <2>11 DEF RunStep
<1>5. CASE UNCHANGED vars
  BY <1>1, <1>5 DEF FinalizeOK, vars, runVars
<1> QED
  BY <1>2, <1>3, <1>4, <1>5, FinalizeCleanup DEF Next

\* The run steps beside a cleanup that unlinks: its snapshot is that of no run that
\* lives, no task starts it, and the dispatcher waits for the guard.
SparedBy(p) ==
  \A r \in Run : run[r].snap = op[p].at[2] /\ run[r].schedule \notin spoiled =>
    /\ run[r].step \notin Alive
    /\ serves = r => run[dispatcher].step = "turn"

LEMMA SparedRunStep ==
  ASSUME StoreType, RunsOK, CallsOK, Kept, NEW p \in Proc, op[p].step = "unlink", SparedBy(p),
         NEW r \in Run, RunStep(r)
  PROVE  SparedBy(p)'
<1> DEFINE c == op[p].at
<1>1. op' = op /\ spoiled' = spoiled
  BY RunStepFrame DEF ghosts
<1>2. /\ c \in Pair /\ IsRetained(c[1], c[2]) /\ op[p].completed = None
  BY DEF Kept, SweepsOK, FinalizeOK, CallsOK, CallOK, OpType
<1>3. c[1] \in Schedule /\ c[2] \in Snap
  BY <1>2 DEF Pair
<1>4. GloballyBusy
  BY <1>2 DEF GloballyBusy, At
<1>5. \A t \in Schedule \ spoiled : task[t] # c[2]
  <2> SUFFICES ASSUME NEW t \in Schedule \ spoiled, task[t] = c[2] PROVE FALSE
    OBVIOUS
  <2>1. Owns(t, c[2]) /\ Owns(c[1], c[2])
    BY <1>2 DEF Owns
  <2>2. t = c[1]
    BY <1>3, <2>1 DEF Kept, OwnersOK
  <2> QED
    BY <1>2, <1>3, <2>2 DEF Kept, SnapsOK
<1>6. /\ serves # None => /\ serves \in ticket /\ serves \in Run /\ run[serves].step # "idle"
                          /\ dispatcher \in Run /\ run[dispatcher].step \in Dispatching
  BY NoneIsNothing DEF RunsOK, StoreType, TypeOK
<1>7. PICK n \in Snap : n = c[2]
  BY <1>3
<1>8. SUFFICES ASSUME NEW q \in Run, run'[q].snap = n, run'[q].schedule \notin spoiled
               PROVE  run'[q].step \notin Alive /\ (serves' = q => run'[dispatcher'].step = "turn")
  BY <1>1, <1>7 DEF SparedBy
<1>9. \A x \in Run : run[x].snap = n /\ run[x].schedule \notin spoiled =>
        run[x].step \notin Alive /\ (serves = x => run[dispatcher].step = "turn")
  BY <1>7 DEF SparedBy
<1>10. CASE \E s \in Schedule : Fire(r, s)
  <2>1. PICK s \in Schedule : run' = [run EXCEPT ![r] = [step |-> "loaded", schedule |-> s, snap |-> task[s]]]
    BY <1>10 DEF Fire
  <2>2. UNCHANGED <<dispatcher, serves>> /\ run[r].step = "idle"
    BY <1>10 DEF Fire
  <2>3. q # r
    BY <1>5, <1>7, <1>8, <2>1 DEF RunsOK
  <2>4. run'[q] = run[q] /\ (serves = q => run'[dispatcher] = run[dispatcher])
    BY <1>6, <2>1, <2>2, <2>3, NoneIsNothing DEF RunsOK, Dispatching, Proc
  <2> QED
    BY <1>8, <1>9, <2>2, <2>4
<1>11. ASSUME NEW step, RunGoes(r, step), run[r].step \in Alive
       PROVE  /\ q # r /\ run'[q] = run[q] /\ run[q].snap = n
              /\ run' = [run EXCEPT ![r].step = step] /\ run'[r].step = step
  BY <1>8, <1>9, <1>11 DEF RunGoes, RunsOK, RunType
<1>12. CASE Queue(r)
  <2>1. /\ run[r].step = "loaded" /\ UNCHANGED <<dispatcher, serves>>
        /\ \E step : RunGoes(r, step)
    BY <1>12 DEF Queue
  <2>2. q # r /\ run'[q] = run[q] /\ run[q].snap = n /\ \E step : run' = [run EXCEPT ![r].step = step]
    BY <1>11, <2>1 DEF Alive
  <2>3. serves = q => run'[dispatcher] = run[dispatcher]
    BY <1>6, <2>1, <2>2, NoneIsNothing DEF RunsOK, Dispatching, Proc
  <2> QED
    BY <1>8, <1>9, <2>1, <2>2, <2>3
<1>13. CASE Lease(r)
  <2>1. /\ run[r].step = "queued" /\ serves' = serves /\ \E step : RunGoes(r, step)
        /\ dispatcher # None => dispatcher' = dispatcher
    BY <1>13 DEF Lease
  <2>2. q # r /\ run'[q] = run[q] /\ run[q].snap = n /\ \E step : run' = [run EXCEPT ![r].step = step]
    BY <1>11, <2>1 DEF Alive
  <2>3. serves = q => dispatcher' = dispatcher /\ run'[dispatcher] = run[dispatcher]
    BY <1>6, <2>1, <2>2, NoneIsNothing DEF RunsOK, Dispatching, Proc
  <2> QED
    BY <1>8, <1>9, <2>1, <2>2, <2>3
<1>14. CASE Claim(r)
  <2>1. run[r].step = "dispatching" /\ RunGoes(r, "turn") /\ dispatcher = r /\ dispatcher' = r
    BY <1>14 DEF Claim
  <2> QED
    BY <1>8, <1>9, <1>11, <2>1 DEF Alive
<1>15. CASE Serve(r)
  BY <1>4, <1>15 DEF Serve
<1>16. CASE Complete(r)
  <2>1. run[r].step = "complete" /\ RunGoes(r, "dispatching") /\ serves' = None
    BY <1>16 DEF Complete
  <2> QED
    BY <1>8, <1>9, <1>11, <2>1, NoneIsNothing DEF Alive, Proc
<1>17. CASE FindEmpty(r) \/ Leave(r)
  <2>1. /\ run[r].step \in {"dispatching", "leaving"} /\ serves' = serves
        /\ \E step : RunGoes(r, step)
    BY <1>17 DEF FindEmpty, Leave
  <2>2. dispatcher = r
    BY <2>1 DEF RunsOK
  <2>3. serves = None
    BY <1>6, <2>1, <2>2 DEF Dispatching
  <2> QED
    BY <1>8, <1>9, <1>11, <2>1, <2>3, NoneIsNothing DEF Alive, Proc
<1> QED
  BY <1>10, <1>12, <1>13, <1>14, <1>15, <1>16, <1>17 DEF RunStep

\* The decision to unlink, under the guards.
LEMMA SparedInspect ==
  ASSUME StoreType, RunsOK, CallsOK, Kept, NEW p \in Proc, Inspect(p), op'[p].step = "unlink"
  PROVE  SparedBy(p)'
<1>1. FinalizeOK /\ SweepsOK /\ OwnersOK /\ op \in [Proc -> OpType]
  BY DEF Kept, CallsOK
<1>2. op[p].step = "collect" /\ UNCHANGED runVars /\ spoiled' = spoiled
  BY DEF Inspect, At, ghosts
<1>3. PICK c \in op[p].todo :
        /\ MayUnlink(p, c) /\ op' = [op EXCEPT ![p].step = "unlink", ![p].at = c]
  BY <1>1, <1>2 DEF Inspect, OpType
<1>4. c[1] \in Schedule /\ c[2] \in Snap /\ IsRetained(c[1], c[2]) /\ op'[p].at = c
  <2>1. op[p].todo \in SUBSET Pair
    BY <1>1 DEF OpType
  <2> QED
    BY <1>1, <1>2, <1>3, <2>1 DEF SweepsOK, Pair, OpType
<1>5. op[p].completed # c[2]
  <2>1. CASE op[p].call = "finalize"
    BY <1>1, <1>3, <2>1 DEF FinalizeOK, MayUnlink
  <2>2. CASE op[p].call # "finalize"
    BY <1>1, <1>4, <2>2, NoneIsNothing DEF FinalizeOK
  <2> QED
    BY <2>1, <2>2
<1>6. ~GloballyBusy /\ ~RunningTask(c[1])
  BY <1>3, <1>5 DEF MayUnlink
<1>7. ASSUME NEW r \in Run, run[r].snap = c[2]
      PROVE  run[r].step \notin Alive /\ (serves = r => run[dispatcher].step = "turn")
  <2>1. run[r].schedule \in Schedule
    BY <1>4, <1>7, NoneIsNothing DEF RunsOK, NoRun
  <2>2. Owns(run[r].schedule, c[2]) /\ Owns(c[1], c[2])
    BY <1>4, <1>7 DEF Owns
  <2>3. run[r].schedule = c[1]
    BY <1>1, <1>4, <2>1, <2>2 DEF OwnersOK
  <2>4. run[r].step \notin Alive
    BY <1>6, <2>3 DEF RunningTask
  <2>5. serves = r => run[dispatcher].step = "turn"
    <3>1. serves = r => serves # None /\ run[dispatcher].step \in Dispatching
      BY NoneIsNothing DEF RunsOK, Proc
    <3> QED
      BY <1>6, <3>1 DEF GloballyBusy, Dispatching
  <2> QED
    BY <2>4, <2>5
<1> QED
  BY <1>2, <1>4, <1>7 DEF SparedBy, runVars

\* An edit only clears its schedule, when it writes the registry.
LEMMA SpoiledByEdit ==
  ASSUME NEW w \in Window, Edit(w), op[w].step # "put"
  PROVE  spoiled' = spoiled
BY DEF Edit, Look, Conflict, ConflictReported, BeginSave, BeginApply, BeginDelete, SetTask,
       SetTaskFails, Put, PutFails, RestoreTask, RestoreFails, Discard, At, ghosts

LEMMA SparesInv ==
  ASSUME StoreType, RunsOK, CallsOK, FoldersOK, Kept, CleanupSparesRuns, [Next]_vars
  PROVE  CleanupSparesRuns'
<1>1. op \in [Proc -> OpType] /\ \A p \in Proc : op[p].step = "unlink" => SparedBy(p)
  BY DEF CallsOK, CleanupSparesRuns, SparedBy, At
<1>2. SUFFICES ASSUME NEW p \in Proc, op'[p].step = "unlink"
               PROVE  SparedBy(p)'
  BY DEF CleanupSparesRuns, SparedBy, At
<1>3. ASSUME op'[p] = op[p], UNCHANGED runVars, spoiled \subseteq spoiled'
      PROVE  SparedBy(p)'
  BY <1>1, <1>2, <1>3 DEF SparedBy, runVars
<1>4. ASSUME NEW w \in Window, Edit(w)
      PROVE  SparedBy(p)'
  <2>1. /\ w \in Proc /\ UNCHANGED runVars /\ op' = [op EXCEPT ![w] = op'[w]]
    BY <1>4, EditFrame DEF Proc
  <2>2. op'[w].step = "unlink" => op'[w] = op[w]
    <3>1. CASE Look(w) \/ Conflict(w) \/ ConflictReported(w)
      BY <1>1, <2>1, <3>1 DEF Look, Conflict, ConflictReported, End, Idle, OpType
    <3>2. CASE EditGoesOn(w)
      BY <3>2, EditGoesOnIs DEF EditStep
    <3>3. ASSUME NEW s \in Schedule, NEW call, NEW n, Begins(w, s, call, n)
          PROVE  op'[w].step # "unlink"
      BY <1>1, <2>1, <3>3 DEF Begins, Begun
    <3>4. CASE \E s \in Schedule, call \in {"register", "save"} : BeginSave(w, s, call)
      BY <3>3, <3>4, BeginSaveIs
    <3>5. CASE \E s \in Schedule, call \in {"enable", "disable"} : BeginApply(w, s, call)
      BY <3>3, <3>5, BeginApplyIs
    <3>6. CASE \E s \in Schedule : BeginDelete(w, s)
      BY <3>3, <3>6, BeginDeleteIs
    <3> QED
      BY <1>4, <3>1, <3>2, <3>4, <3>5, <3>6 DEF Edit, EditGoesOn
  <2>3. op'[p] = op[p] /\ op[p].step = "unlink"
    BY <1>1, <1>2, <2>1, <2>2
  <2>4. op[w].step # "put"
    BY <2>1, <2>3, Alone
  <2>5. spoiled' = spoiled
    BY <1>4, <2>4, SpoiledByEdit
  <2> QED
    BY <1>3, <2>1, <2>3, <2>5
<1>5. ASSUME NEW x \in Proc, Cleanup(x), ~BeginCleanup(x)
      PROVE  SparedBy(p)'
  <2>1. UNCHANGED runVars /\ op' = [op EXCEPT ![x] = op'[x]]
    BY <1>5, CleanupFrame
  <2>5. spoiled \subseteq spoiled'
    BY <1>5 DEF Cleanup, BeginCleanup, Scan, QueueUnreadable, Inspect, Unlink, Collected,
                CollectFails, ghosts
  <2>2. CASE p = x /\ Inspect(x)
    BY <1>2, <2>2, SparedInspect
  <2>3. CASE p = x /\ ~Inspect(x)
    BY <1>1, <1>2, <1>5, <2>3
       DEF Cleanup, Scan, QueueUnreadable, Unlink, Collected, CollectFails, End, Idle, OpType
  <2>4. CASE p # x
    BY <1>1, <1>3, <2>1, <2>4, <2>5
  <2> QED
    BY <2>2, <2>3, <2>4
<1>6. ASSUME NEW x \in Proc, BeginCleanup(x)
      PROVE  SparedBy(p)'
  <2>1. p # x /\ op'[p] = op[p] /\ UNCHANGED <<dispatcher, serves, spoiled>>
    BY <1>1, <1>2, <1>6, CleanupBegun DEF BeginCleanup, ghosts
  <2>2. CASE UNCHANGED run
    BY <1>3, <1>6, <2>1, <2>2 DEF runVars, BeginCleanup
  <2>3. CASE x \in Run /\ x = dispatcher /\ run[x].step = "running" /\ run' = [run EXCEPT ![x].step = "complete"]
    <3>1. SparedBy(p)
      BY <1>1, <1>2, <2>1
    <3>2. \A r \in Run : /\ run'[r].snap = run[r].snap /\ run'[r].schedule = run[r].schedule
                         /\ r # x => run'[r] = run[r]
      BY <2>3 DEF RunsOK, RunType
    <3> QED
      BY <2>1, <2>3, <3>1, <3>2 DEF SparedBy, Alive
  <2> QED
    BY <1>6, <2>2, <2>3 DEF BeginCleanup
<1>7. ASSUME NEW x \in Proc, Crash(x)
      PROVE  SparedBy(p)'
  <2>1. p # x /\ op'[p] = op[p] /\ SparedBy(p)
    BY <1>1, <1>2, <1>7 DEF Crash, Idle
  <2>2. /\ run' = IF x \in Run THEN [run EXCEPT ![x].step = "ended"] ELSE run
        /\ IF dispatcher = x THEN dispatcher' = None /\ serves' = None
           ELSE UNCHANGED <<dispatcher, serves>>
        /\ spoiled' = spoiled
    BY <1>7 DEF Crash, ghosts
  <2>3. \A r \in Run : /\ run'[r].snap = run[r].snap /\ run'[r].schedule = run[r].schedule
                       /\ run'[r].step = run[r].step \/ (r = x /\ run'[r].step = "ended")
    BY <2>2 DEF RunsOK, RunType
  <2>4. \A r \in Run : run'[r].step \in Alive => run[r].step \in Alive
    BY <2>3 DEF Alive
  <2>5. \A r \in Run : serves' = r => serves = r /\ dispatcher \in Run /\ dispatcher # x /\ dispatcher' = dispatcher
    BY <2>2, NoneIsNothing DEF RunsOK, StoreType, TypeOK, Proc
  <2> QED
    <3>1. SUFFICES ASSUME NEW r \in Run, run'[r].snap = op[p].at[2], run'[r].schedule \notin spoiled
                   PROVE  /\ run'[r].step \notin Alive
                          /\ serves' = r => run'[dispatcher'].step = "turn"
      BY <2>1, <2>2 DEF SparedBy
    <3>2. run[r].step \notin Alive /\ (serves = r => run[dispatcher].step = "turn")
      BY <2>1, <2>3, <3>1 DEF SparedBy
    <3>3. serves' = r => run'[dispatcher'].step = run[dispatcher].step
      BY <2>3, <2>5
    <3> QED
      BY <2>4, <2>5, <3>2, <3>3
<1>8. ASSUME NEW r \in Run, RunStep(r)
      PROVE  SparedBy(p)'
  BY <1>1, <1>2, <1>8, RunStepFrame, SparedRunStep
<1>9. CASE UNCHANGED vars
  BY <1>3, <1>9 DEF vars, runVars, ghosts
<1> QED
  BY <1>4, <1>5, <1>6, <1>7, <1>8, <1>9 DEF Next

-----------------------------------------------------------------------------
(* The invariant and what follows *)

LEMMA KeptInit ==
  ASSUME Init
  PROVE  Kept /\ CleanupSparesRuns
<1>1. /\ \A p \in Proc : op[p] = Idle
      /\ \A s \in Schedule : entry[s] = None /\ task[s] = None
      /\ \A r \in Run : run[r] = NoRun
      /\ dropped = {} /\ file = {}
  BY DEF Init
<1>2. \A s \in Schedule, n \in Snap : ~Owns(s, n) /\ ~IsRetained(s, n)
  BY <1>1, NoneIsNothing DEF Owns, About, IsRetained, NoRun, Idle, EditCall
<1>3. OwnersOK /\ SnapsOK /\ FileOK
  BY <1>1, <1>2 DEF OwnersOK, SnapsOK, EntryHasSnapshot, TaskHasSnapshot, FileOK
<1>4. EditsOK /\ SweepsOK /\ FinalizeOK /\ CleanupSparesRuns
  BY <1>1 DEF EditsOK, SweepsOK, FinalizeOK, CleanupSparesRuns, At, Idle, EditStep
<1> QED
  BY <1>3, <1>4 DEF Kept

LEMMA KeptStep ==
  ASSUME Registered, Kept, CleanupSparesRuns, [Next]_vars
  PROVE  Kept' /\ CleanupSparesRuns'
<1>1. StoreType /\ RunsOK /\ CallsOK /\ FoldersOK
  BY DEF Registered
<1>2. Kind
  BY <1>1, Kinds
<1> QED
  BY <1>1, <1>2, OwnersInv, SnapsInv, EditsInv, SweepsInv, FileInv, FinalizeInv,
     SparesInv DEF Kept

\* The stores agree in every state, but for spoiled schedules.
LEMMA KeptInvariance == Spec => [](Registered /\ Kept /\ CleanupSparesRuns)
<1>1. Registered /\ Kept /\ CleanupSparesRuns /\ Registered' /\ [Next]_vars
        => Kept' /\ CleanupSparesRuns'
  BY KeptStep
<1> QED
  BY <1>1, KeptInit, RegisteredInvariance, PTL DEF Spec

\* What is registered, or may be started by Windows, has its snapshot, no other
\* snapshot is forgotten, and folders stay with their schedules: the rollbacks of
\* register_schedule, delete_schedule and the others by hand keep the three stores
\* together, whatever fails or dies; only a registration whose cleanup fails after
\* its write spoils its schedule, until the next edit of that schedule.
THEOREM SnapshotsKeptHolds == Spec => []SnapshotsKept
<1>1. ASSUME StoreType, FileOK PROVE NoSnapshotForgotten
  <2> SUFFICES ASSUME crashes = 0, faults < 2, NEW n \in file
               PROVE  \/ n \in Active \cup {c[2] : c \in Retained(None)}
                      \/ n \in {op[w].new : w \in Window}
    BY DEF NoSnapshotForgotten
  <2>1. n \in Snap
    BY <1>1 DEF StoreType, TypeOK
  <2>2. ASSUME NEW s \in Schedule, IsRetained(s, n) PROVE n \in {c[2] : c \in Retained(None)}
    <3>1. <<s, n>> \in Retained(None)
      BY <2>1, <2>2 DEF Retained, IsRetained
    <3> QED
      BY <3>1
  <2>3. ASSUME NEW s \in Schedule, entry[s] # None, entry[s].snap = n PROVE n \in Active
    BY <2>3 DEF Active
  <2> QED
    BY <1>1, <2>2, <2>3 DEF FileOK
<1>2. Registered /\ Kept => SnapshotsKept
  BY <1>1 DEF Registered, StoreType, FoldersOK, Kept, SnapsOK, SnapshotsKept
<1> QED
  BY <1>2, KeptInvariance, PTL

\* A cleanup never unlinks the snapshot of a run that lives or of the run that the
\* dispatcher executes: delete_if_safe asks for all that matters, although the
\* queue is read before and runs start meanwhile.  Runs of a spoiled schedule are
\* excepted.
THEOREM CleanupSparesRunsHolds == Spec => []CleanupSparesRuns
BY KeptInvariance, PTL

\* A call that fails before it has written the registry, and could roll back, leaves
\* the registration as it was, and the task as it was or as the registration says.
\* One whose cleanup fails afterwards does change something, and is excepted.
THEOREM FailureChangesNothingHolds == Spec => FailureChangesNothing
<1>1. ASSUME Registered, Kept, NEW w \in Window, Discard(w), op[w].prevTask # Unknown,
             op[w].removed = {}
      PROVE  LeavesAsBefore(w)
  <2>1. op[w].step = "discard" /\ UNCHANGED <<entry, task>> /\ w \in Proc
    BY <1>1 DEF Discard, At, registryVars, Proc
  <2>2. op[w].prev = entry[op[w].schedule] /\ TaskOK(op[w])
    BY <1>1, <2>1 DEF Kept, EditsOK, EditOK, EditStep
  <2> QED
    BY <1>1, <2>1, <2>2 DEF TaskOK, LeavesAsBefore
<1>2. Registered /\ Kept /\ [Next]_vars => [\A w \in Window : LeavesAsBefore(w)]_vars
  BY <1>1 DEF LeavesAsBefore
<1> QED
  BY <1>2, KeptInvariance, PTL DEF Spec, FailureChangesNothing

-----------------------------------------------------------------------------
(***************************************************************************)
(* The calendar: calculate_next_run gives the first instant after now at   *)
(* which the schedule runs, for every calendar whose months have at least  *)
(* 28 days.                                                                *)
(***************************************************************************)
Daily == [interval : {"daily"}, time : Time]
Weekly == [interval : {"weekly"}, time : Time, weekday : 0 .. 6]
Monthly == [interval : {"monthly"}, time : Time, day : DayOfMonth]

LEMMA Instants ==
  ASSUME NEW i \in Instant
  PROVE  i.day \in Nat /\ i.time \in Nat
<1>1. Day \subseteq Nat /\ Time \subseteq Nat
  BY CalendarAssumption DEF Day, Time
<1> QED
  BY <1>1 DEF Instant

LEMMA DailyIsNext ==
  ASSUME NEW plan \in Daily, NEW now \in Instant
  PROVE  FirstDue(plan, now, NextDaily(plan, now))
BY CalendarAssumption, Instants
   DEF Daily, Time, Instant, FirstDue, Due, Earlier, NextDaily, UnlessPast, OnDay

\* The days ahead lead to the first day from d on that is weekday w, and the next
\* such day is a week later.
LEMMA FirstWeekday ==
  ASSUME NEW d \in Nat, NEW w \in 0 .. 6
  PROVE  LET ahead == (w - (d % 7)) % 7
         IN  /\ ahead \in 0 .. 6
             /\ (d + ahead) % 7 = w
             /\ (d + ahead + 7) % 7 = w
             /\ \A e \in Nat : e >= d /\ e % 7 = w => e >= d + ahead
             /\ \A e \in Nat : e > d + ahead /\ e % 7 = w => e >= d + ahead + 7
OBVIOUS

LEMMA WeeklyIsNext ==
  ASSUME NEW plan \in Weekly, NEW now \in Instant
  PROVE  FirstDue(plan, now, NextWeekly(plan, now))
<1> DEFINE ahead == DaysAhead(plan, now)
           first == OnDay(plan, now.day + ahead)
<1>1. /\ plan.interval = "weekly" /\ plan.weekday \in 0 .. 6 /\ plan.time \in Nat
      /\ now.day \in Nat /\ now.time \in Nat
  BY CalendarAssumption, Instants DEF Weekly, Time
<1>2. /\ ahead \in 0 .. 6
      /\ (now.day + ahead) % 7 = plan.weekday
      /\ (now.day + ahead + 7) % 7 = plan.weekday
      /\ \A e \in Nat : e >= now.day /\ e % 7 = plan.weekday => e >= now.day + ahead
      /\ \A e \in Nat : e > now.day + ahead /\ e % 7 = plan.weekday
                          => e >= now.day + ahead + 7
  BY <1>1, FirstWeekday DEF DaysAhead
<1> HIDE DEF ahead
<1>3. CASE Earlier(now, first)
  <2>1. NextWeekly(plan, now) = first
    BY <1>3 DEF NextWeekly, UnlessPast, ahead
  <2>2. Due(plan, first)
    BY <1>1, <1>2 DEF Due, OnDay
  <2>3. ASSUME NEW j \in Instant, Due(plan, j), Earlier(now, j)
        PROVE  ~Earlier(j, first)
    <3>1. /\ j.day \in Nat /\ j.day % 7 = plan.weekday /\ j.time = plan.time
          /\ j.day > now.day \/ (j.day = now.day /\ now.time < plan.time)
      BY <1>1, <2>3, Instants DEF Due, Earlier
    <3>2. j.day >= now.day + ahead
      BY <1>1, <1>2, <3>1
    <3> QED
      BY <1>1, <1>2, <3>1, <3>2 DEF Earlier, OnDay
  <2> QED
    BY <1>3, <2>1, <2>2, <2>3 DEF FirstDue
<1>4. CASE ~Earlier(now, first)
  <2> DEFINE second == OnDay(plan, now.day + ahead + 7)
  <2>1. NextWeekly(plan, now) = second
    BY <1>4 DEF NextWeekly, UnlessPast, ahead, OnDay
  <2>2. Due(plan, second) /\ Earlier(now, second)
    BY <1>1, <1>2 DEF Due, OnDay, Earlier
  <2>3. ASSUME NEW j \in Instant, Due(plan, j), Earlier(now, j)
        PROVE  ~Earlier(j, second)
    <3>1. /\ j.day \in Nat /\ j.day % 7 = plan.weekday /\ j.time = plan.time
          /\ j.day > now.day \/ (j.day = now.day /\ now.time < plan.time)
      BY <1>1, <2>3, Instants DEF Due, Earlier
    <3>2. j.day >= now.day + ahead
      BY <1>1, <1>2, <3>1
    <3>3. j.day > now.day + ahead
      BY <1>1, <1>2, <1>4, <3>1, <3>2 DEF Earlier, OnDay
    <3>4. j.day >= now.day + ahead + 7
      BY <1>1, <1>2, <3>1, <3>3
    <3>5. ahead \in Nat
      BY <1>2
    <3> QED
      BY <1>1, <3>1, <3>4, <3>5 DEF Earlier, OnDay
  <2> QED
    BY <2>1, <2>2, <2>3 DEF FirstDue
<1> QED
  BY <1>3, <1>4

Date(d, n) == MonthStart[n] + d - 1

\* Dates of earlier months are past, those of later months come later.
LEMMA DatesInOrder ==
  ASSUME NEW d \in 1 .. 28, NEW today \in Nat,
         NEW m \in 0 .. LastMonth - 1, InMonth(today, m)
  PROVE  /\ Date(d, m) \in Nat /\ Date(d, m + 1) \in Nat
         /\ Date(d, m) < Date(d, m + 1) /\ today < Date(d, m + 1)
         /\ Date(d, m) + (MonthStart[m + 1] - MonthStart[m]) = Date(d, m + 1)
         /\ \A n \in 0 .. LastMonth :
              /\ Date(d, n) \in Nat
              /\ n < m => Date(d, n) < today
              /\ n > m => Date(d, n) >= Date(d, m + 1)
<1>1. /\ m \in 0 .. LastMonth /\ m + 1 \in 0 .. LastMonth /\ m < m + 1
      /\ MonthStart[m] \in Nat /\ MonthStart[m + 1] \in Nat
      /\ MonthStart[m] <= today /\ today < MonthStart[m + 1]
  BY CalendarAssumption DEF InMonth
<1>2. MonthStart[m + 1] >= MonthStart[m] + 28
  BY <1>1, CalendarAssumption
<1>3. ASSUME NEW n \in 0 .. LastMonth
      PROVE  /\ Date(d, n) \in Nat
             /\ n < m => Date(d, n) < today
             /\ n > m => Date(d, n) >= Date(d, m + 1)
  <2>1. MonthStart[n] \in Nat
    BY CalendarAssumption
  <2>2. n < m => MonthStart[m] >= MonthStart[n] + 28
    BY <1>1, CalendarAssumption
  <2>3. n > m + 1 => MonthStart[n] >= MonthStart[m + 1] + 28
    BY <1>1, CalendarAssumption
  <2>4. n > m => n = m + 1 \/ n > m + 1
    BY CalendarAssumption
  <2> QED
    BY <1>1, <2>1, <2>2, <2>3, <2>4 DEF Date
<1> QED
  BY <1>1, <1>2, <1>3 DEF Date

\* The date in this month, or the one in the next month: none is in between.
LEMMA MonthlyIsNext ==
  ASSUME NEW plan \in Monthly, NEW now \in Instant,
         NEW m \in 0 .. LastMonth - 1, InMonth(now.day, m)
  PROVE  FirstDue(plan, now, NextMonthly(plan, now, m))
<1> DEFINE here == Date(plan.day, m)
           next == Date(plan.day, m + 1)
<1>1. /\ plan.interval = "monthly" /\ plan.day \in 1 .. 28
      /\ plan.time \in Time /\ plan.time \in Nat
      /\ now.day \in Nat /\ now.time \in Nat
      /\ m \in 0 .. LastMonth /\ m + 1 \in 0 .. LastMonth
  BY CalendarAssumption, Instants DEF Monthly, DayOfMonth, Time
<1>2. /\ here \in Nat /\ next \in Nat
      /\ here < next /\ now.day < next
      /\ here + (MonthStart[m + 1] - MonthStart[m]) = next
  BY <1>1, DatesInOrder
<1>3. ASSUME NEW j \in Instant, Due(plan, j), Earlier(now, j)
      PROVE  /\ j.day \in Nat /\ j.time = plan.time
             /\ j.day = here \/ j.day >= next
             /\ j.day > now.day \/ (j.day = now.day /\ now.time < plan.time)
  <2>1. PICK n \in 0 .. LastMonth : j.day = Date(plan.day, n)
    BY <1>1, <1>3 DEF Due, Date
  <2>2. /\ n < m => Date(plan.day, n) < now.day
        /\ n > m => Date(plan.day, n) >= next
    BY <1>1, DatesInOrder
  <2>3. /\ j.day \in Nat /\ j.time = plan.time
        /\ j.day > now.day \/ (j.day = now.day /\ now.time < plan.time)
    BY <1>1, <1>3, Instants DEF Due, Earlier
  <2>4. ~(n < m)
    BY <1>1, <2>1, <2>2, <2>3
  <2>5. n = m \/ n > m
    BY <2>4
  <2> QED
    BY <2>1, <2>2, <2>3, <2>5
<1>4. /\ \A k \in 0 .. LastMonth : OnDay(plan, Date(plan.day, k)).day = Date(plan.day, k)
      /\ \A k \in 0 .. LastMonth : Due(plan, OnDay(plan, Date(plan.day, k)))
  BY <1>1 DEF Due, OnDay, Date
<1>5. CASE Earlier(now, OnDay(plan, here))
  <2>1. NextMonthly(plan, now, m) = OnDay(plan, here)
    BY <1>5 DEF NextMonthly, UnlessPast, Date
  <2>2. ASSUME NEW j \in Instant, Due(plan, j), Earlier(now, j)
        PROVE  ~Earlier(j, OnDay(plan, here))
    <3> HIDE DEF here, next
    <3>1. /\ j.day \in Nat /\ j.time = plan.time
          /\ j.day = here \/ j.day >= next
      BY <1>3, <2>2
    <3> QED
      BY <1>1, <1>2, <3>1 DEF Earlier, OnDay
  <2> QED
    BY <1>1, <1>4, <1>5, <2>1, <2>2 DEF FirstDue
<1>6. CASE ~Earlier(now, OnDay(plan, here))
  <2>1. NextMonthly(plan, now, m) = OnDay(plan, next)
    <3>1. NextMonthly(plan, now, m)
            = [OnDay(plan, here) EXCEPT !.day = @ + (MonthStart[m + 1] - MonthStart[m])]
      BY <1>6 DEF NextMonthly, UnlessPast, Date
    <3> QED
      BY <1>2, <3>1 DEF OnDay
  <2> HIDE DEF here, next
  <2>2. Earlier(now, OnDay(plan, next))
    BY <1>1, <1>2 DEF Earlier, OnDay
  <2>3. ASSUME NEW j \in Instant, Due(plan, j), Earlier(now, j)
        PROVE  ~Earlier(j, OnDay(plan, next))
    <3>1. /\ j.day \in Nat /\ j.time = plan.time
          /\ j.day = here \/ j.day >= next
          /\ j.day > now.day \/ (j.day = now.day /\ now.time < plan.time)
      BY <1>3, <2>3
    <3>2. j.day # here
      BY <1>1, <1>2, <1>6, <3>1 DEF Earlier, OnDay
    <3> QED
      BY <1>1, <1>2, <3>1, <3>2 DEF Earlier, OnDay
  <2> QED
    BY <1>1, <1>4, <2>1, <2>2, <2>3 DEF FirstDue, next
<1> QED
  BY <1>5, <1>6

\* calculate_next_run returns the first instant at which the schedule runs strictly
\* after now (a run that is due this very moment is not offered again), whatever
\* the interval, the date and the lengths of the months.
THEOREM NextRunIsNext == NextRunTrue
<1> SUFFICES ASSUME NEW plan \in Plan, NEW now \in Instant,
                    NEW m \in 0 .. LastMonth - 1, InMonth(now.day, m)
             PROVE  FirstDue(plan, now, NextRun(plan, now, m))
  BY DEF NextRunTrue
<1>1. CASE plan \in Daily
  BY <1>1, DailyIsNext DEF NextRun, Daily
<1>2. CASE plan \in Weekly
  BY <1>2, WeeklyIsNext DEF NextRun, Weekly
<1>3. CASE plan \in Monthly
  BY <1>3, MonthlyIsNext DEF NextRun, Monthly
<1> QED
  BY <1>1, <1>2, <1>3 DEF Plan, Daily, Weekly, Monthly

-----------------------------------------------------------------------------
(***************************************************************************)
(* The status of the list: while nobody edits, every task is the one that  *)
(* its registration says, so that no row shows an alarm, but for spoiled   *)
(* schedules; and a registration that was just written shows none,         *)
(* whatever failed before.                                                 *)
(***************************************************************************)

\* The task that a registration says.
Agrees(e, t) == t = IF e # None /\ e.enabled THEN e.snap ELSE None

\* The task of a schedule was set, and its registration is not written yet or the task
\* is still to be restored.
Between(p) == op[p].step \in {"put", "restore"}

\* An edit of a schedule that is not spoiled has not written the registry yet.
Before(p) == (Between(p) \/ op[p].step = "task") /\ op[p].schedule \notin spoiled

\* Except between the two writes of an edit, tasks and registrations agree, unless
\* the schedule is spoiled; an edit that has changed its task knows what to restore.
TasksAgree ==
  crashes = 0 /\ faults < 2 =>
    /\ \A s \in Schedule \ spoiled :
         (\A p \in Proc : Between(p) => op[p].schedule # s) => Agrees(entry[s], task[s])
    /\ \A p \in Proc : Before(p) =>
         IF op[p].prevTask = Unknown THEN faults > 0 ELSE Agrees(op[p].prev, op[p].prevTask)

\* What a call writes to the registry is what it has told Windows.
LEMMA EntryAgrees ==
  ASSUME StoreType, CallsOK, FoldersOK, NEW p \in Proc, op[p].step \in EditStep
  PROVE  Agrees(EntryAfter(op[p]), TaskAfter(op[p]))
<1> DEFINE o == op[p]
<1>1. EntryAfterIs(o) /\ o.call \in EditCall /\ o \in OpType
  BY EntryAfterType DEF CallsOK, CallOK
<1>2. CASE o.call \in {"register", "save"}
  <2>1. EntryAfter(o) # None /\ EntryAfter(o).snap = o.new
    BY <1>1, <1>2, NoneIsNothing DEF EntryAfterIs
  <2>2. EntryAfter(o).enabled <=> o.call = "register"
    BY <1>2 DEF EntryAfter, EntryFor
  <2> QED
    BY <1>2, <2>1, <2>2 DEF Agrees, TaskAfter
<1>3. CASE o.call \in {"enable", "disable"}
  <2>1. EntryAfter(o) # None /\ EntryAfter(o).snap = o.prev.snap /\ o.prev \in Entry
    BY <1>1, <1>3, NoneIsNothing DEF EntryAfterIs
  <2>2. EntryAfter(o) = [o.prev EXCEPT !.enabled = (o.call = "enable")]
    BY <1>3 DEF EntryAfter
  <2>3. EntryAfter(o).enabled <=> o.call = "enable"
    BY <2>1, <2>2 DEF Entry
  <2> QED
    BY <1>3, <2>1, <2>3 DEF Agrees, TaskAfter
<1>4. CASE o.call = "delete"
  BY <1>1, <1>4 DEF EntryAfterIs, Agrees, TaskAfter
<1> QED
  BY <1>1, <1>2, <1>3, <1>4 DEF EditCall

\* A rollback restores the task that the registration says.
LEMMA RestoredAgrees ==
  ASSUME NEW o, o.prevTask # Unknown => Agrees(o.prev, o.prevTask)
  PROVE  Agrees(o.prev, TaskBefore(o))
BY DEF Agrees, TaskBefore

LEMMA AgreeEdit ==
  ASSUME StoreType, RunsOK, CallsOK, FoldersOK, Kept, TasksAgree, NEW w \in Window, EditGoesOn(w)
  PROVE  TasksAgree'
<1> DEFINE o == op[w]
<1>1. EditsOK /\ op \in [Proc -> OpType] /\ w \in Proc /\ faults \in Nat /\ o.schedule \in Schedule
  BY EditGoesOnIs DEF Kept, CallsOK, Proc, StoreType, Editing
<1>2. /\ op' = [op EXCEPT ![w] = op'[w]] /\ \A q \in Proc : q # w => op'[q] = op[q]
      /\ \A q \in Proc : q # w => ~Between(q) /\ ~Between(q)' /\ op'[q].step # "task"
  BY <1>1, EditGoesOnIs DEF Editing, Between
<1>3. SUFFICES ASSUME crashes' = 0, faults' < 2
      PROVE  /\ \A s \in Schedule \ spoiled' :
                  (Between(w)' => op'[w].schedule # s) => Agrees(entry'[s], task'[s])
             /\ Before(w)' =>
                  IF op'[w].prevTask = Unknown THEN faults' > 0 ELSE Agrees(op'[w].prev, op'[w].prevTask)
  BY <1>1, <1>2 DEF TasksAgree, Agrees, Before
<1>4. crashes = 0
  BY <1>3, EditGoesOnIs
<1>5. ASSUME faults < 2
      PROVE  /\ \A s \in Schedule \ spoiled :
                  (Between(w) => o.schedule # s) => Agrees(entry[s], task[s])
             /\ Before(w) =>
                  IF o.prevTask = Unknown THEN faults > 0 ELSE Agrees(o.prev, o.prevTask)
  BY <1>1, <1>2, <1>4, <1>5 DEF TasksAgree
<1>6. /\ o.step \in EditStep /\ o.removed = {} => o.prev = entry[o.schedule] /\ TaskOK(o)
      /\ o.step \in EditStep /\ o.removed # {} =>
           o.schedule \in spoiled /\ o.step \in {"restore", "discard"}
  BY <1>1 DEF EditsOK, EditOK
<1>7. entry \in Entries /\ task \in [Schedule -> Snap \cup {None}]
  BY DEF StoreType, TypeOK, Entries
<1>8. CASE SetTask(w)
  <2>1. /\ o.step = "task" /\ SameEdit(w, "put") /\ UNCHANGED <<entry, faults, spoiled>>
        /\ task' = [task EXCEPT ![o.schedule] = TaskAfter(o)]
    BY <1>8, SetTaskIs DEF Editing
  <2> QED
    BY <1>3, <1>5, <1>7, <2>1 DEF SameEdit, Between, Before
<1>9. CASE RestoreTask(w)
  <2>1. /\ o.step = "restore" /\ SameEdit(w, "discard") /\ UNCHANGED <<entry, faults, spoiled>>
        /\ task' = [task EXCEPT ![o.schedule] = TaskBefore(o)]
    BY <1>9, RestoreTaskIs DEF Editing
  <2>2. o.schedule \notin spoiled => Agrees(o.prev, TaskBefore(o)) /\ o.prev = entry[o.schedule]
    BY <1>3, <1>5, <1>6, <2>1, RestoredAgrees DEF Between, Before, EditStep
  <2> QED
    BY <1>1, <1>3, <1>5, <1>7, <2>1, <2>2 DEF SameEdit, Between, Before
<1>10. CASE SetTaskFails(w)
  <2>1. /\ o.step = "task" /\ (SameEdit(w, "restore") \/ SameEdit(w, "discard"))
        /\ UNCHANGED <<entry, task, spoiled>> /\ faults' = faults + 1
    BY <1>10, SetTaskFailsIs DEF Editing
  <2> QED
    BY <1>1, <1>3, <1>5, <2>1 DEF SameEdit, Between, Before
<1>11. CASE PutFails(w)
  <2>1. /\ o.step = "put" /\ UNCHANGED <<entry, task, spoiled>> /\ faults' = faults + 1
        /\ IF TaskChanged(o) THEN SameEdit(w, "restore") ELSE SameEdit(w, "discard")
    BY <1>11, PutFailsIs DEF Editing
  <2>2. /\ faults = 0 /\ o.removed = {}
        /\ o.schedule \notin spoiled => o.prevTask # Unknown /\ Agrees(o.prev, o.prevTask)
    BY <1>1, <1>3, <1>5, <1>6, <2>1 DEF Between, Before, EditStep
  <2>3. CASE TaskChanged(o)
    BY <1>3, <1>5, <2>1, <2>2, <2>3 DEF SameEdit, Between, Before
  <2>4. CASE ~TaskChanged(o)
    <3>1. o.schedule \notin spoiled => o.call \notin {"register", "enable"} /\ o.prevTask = None
      BY <2>2, <2>4 DEF TaskChanged
    <3>2. o.schedule \notin spoiled => task[o.schedule] = None
      BY <1>6, <2>1, <2>2, <3>1 DEF TaskOK, TaskAfter, EditStep
    <3>3. o.schedule \notin spoiled => Agrees(entry[o.schedule], task[o.schedule])
      BY <1>6, <2>1, <2>2, <3>1, <3>2 DEF EditStep
    <3> QED
      BY <1>3, <1>5, <2>1, <2>2, <2>4, <3>3 DEF SameEdit, Between, Before
  <2> QED
    BY <2>3, <2>4
<1>12. CASE RestoreFails(w)
  <2>1. faults' = faults + 1 /\ o.step = "restore"
    BY <1>12, RestoreFailsIs DEF Editing
  <2>2. faults > 0
    BY <1>1, <2>1 DEF EditsOK, EditOK, EditStep
  <2> QED
    BY <1>1, <1>3, <2>1, <2>2
<1>13. CASE Discard(w)
  <2>1. o.step = "discard" /\ op'[w] = Idle /\ UNCHANGED <<entry, task, faults, spoiled>>
    BY <1>1, <1>13, DiscardIs DEF Editing
  <2> QED
    BY <1>3, <1>5, <2>1 DEF Between, Before, Idle
<1>14. CASE Put(w)
  <2>1. /\ o.step = "put" /\ op'[w].step \in {"idle", "queue"} /\ UNCHANGED <<task, faults>>
        /\ entry' = [entry EXCEPT ![o.schedule] = EntryAfter(o)]
        /\ spoiled' = spoiled \ {o.schedule}
    BY <1>14, PutIs DEF Editing
  <2>2. Agrees(EntryAfter(o), task[o.schedule])
    BY <1>1, <1>6, <2>1, EntryAgrees DEF TaskOK, EditStep
  <2> QED
    BY <1>1, <1>3, <1>5, <1>7, <2>1, <2>2 DEF Between, Before, Entries
<1> QED
  BY <1>8, <1>9, <1>10, <1>11, <1>12, <1>13, <1>14 DEF EditGoesOn

LEMMA AgreeInv ==
  ASSUME StoreType, RunsOK, CallsOK, FoldersOK, Kept, TasksAgree, Kind
  PROVE  TasksAgree'
<1>1. op \in [Proc -> OpType] /\ faults \in Nat /\ crashes \in Nat
  BY DEF CallsOK, StoreType
<1>2. CASE Quiet
  <2>1. SUFFICES ASSUME crashes' = 0, faults' < 2 PROVE TasksAgree'
    BY DEF TasksAgree
  <2>2. /\ UNCHANGED <<entry, task, spoiled>> /\ crashes = 0 /\ faults < 2 /\ faults <= faults' /\ faults' \in Nat
        /\ \A q \in Proc : op'[q] = op[q] \/ op'[q].step \notin EditStep
        /\ \A q \in Proc : op[q].step \in EditStep => op'[q] = op[q]
    BY <1>1, <1>2, <2>1 DEF Quiet
  <2>3. /\ \A q \in Proc : Between(q) => op'[q] = op[q] /\ Between(q)'
        /\ \A q \in Proc : Before(q)' => op'[q] = op[q] /\ Before(q)
    BY <2>2 DEF Between, Before, EditStep
  <2> QED
    BY <1>1, <2>2, <2>3 DEF TasksAgree, Agrees
<1>3. ASSUME NEW w \in Window, NEW s \in Schedule, NEW call, NEW n, Begins(w, s, call, n)
      PROVE  TasksAgree'
  <2>1. PICK o : Begun(w, o, call, s, n)
    BY <1>3 DEF Begins
  <2>2. UNCHANGED <<entry, task, crashes, spoiled>> /\ holder = None /\ faults <= faults' /\ faults' \in Nat /\ w \in Proc
    BY <1>3 DEF Begins, Proc
  <2>3. \A q \in Proc : op[q].step \notin EditStep
    BY <2>2, NoneIsNothing DEF CallsOK, EditStep
  <2>4. /\ op'[w] = o /\ o.step = "task" /\ o.prev = entry[s] /\ o.prevTask \in {task[s], Unknown}
        /\ o.schedule = s /\ (o.prevTask = Unknown => faults' > faults)
        /\ \A q \in Proc : q # w => op'[q] = op[q]
    BY <1>1, <2>1, <2>2 DEF Begun
  <2>5. SUFFICES ASSUME crashes' = 0, faults' < 2 PROVE TasksAgree'
    BY DEF TasksAgree
  <2>6. \A t \in Schedule \ spoiled : Agrees(entry[t], task[t])
    BY <1>1, <2>2, <2>3, <2>5 DEF TasksAgree, Between, EditStep
  <2>7. \A q \in Proc : q # w => ~Between(q)' /\ op'[q].step # "task"
    BY <2>3, <2>4 DEF Between, EditStep
  <2>8. s \notin spoiled =>
          IF op'[w].prevTask = Unknown THEN faults' > 0 ELSE Agrees(op'[w].prev, op'[w].prevTask)
    BY <1>1, <2>2, <2>4, <2>6
  <2> QED
    BY <2>2, <2>4, <2>6, <2>7, <2>8 DEF TasksAgree, Agrees, Before
<1>4. ASSUME NEW p \in Proc, Unlink(p) \/ Collected(p)
      PROVE  TasksAgree'
  <2>1. /\ op' = [op EXCEPT ![p] = op'[p]] /\ op'[p].step \in {"collect", "idle"}
        /\ op[p].step \in {"unlink", "collect"} /\ UNCHANGED <<task, faults, crashes, spoiled>>
    BY <1>1, <1>4, UnlinkIs, CollectedIs DEF Idle
  <2>2. \A s \in Schedule : /\ entry'[s] = None <=> entry[s] = None
                            /\ entry[s] # None => /\ entry'[s].snap = entry[s].snap
                                                  /\ entry'[s].enabled = entry[s].enabled
    BY <1>4, UnlinkIs, CollectedIs
  <2>3. \A s \in Schedule : Agrees(entry[s], task[s]) => Agrees(entry'[s], task'[s])
    BY <2>1, <2>2 DEF Agrees
  <2>4. \A q \in Proc : /\ q # p => op'[q] = op[q]
                        /\ Between(q)' = Between(q) /\ (Between(q) \/ op'[q].step = "task" => q # p)
    BY <1>1, <2>1 DEF Between
  <2> QED
    BY <2>1, <2>3, <2>4 DEF TasksAgree, Agrees, Between, Before
<1>5. ASSUME NEW p \in Proc, Spoils(p)
      PROVE  TasksAgree'
  <2>1. /\ op' = [op EXCEPT ![p] = op'[p]] /\ op'[p].schedule = op[p].schedule
        /\ op[p].step = "collect" /\ UNCHANGED <<entry, task, crashes>>
        /\ faults' = faults + 1 /\ spoiled' = spoiled \cup {op[p].schedule}
    BY <1>5 DEF Spoils, SameEdit
  <2>2. \A q \in Proc : /\ q # p => op'[q] = op[q]
                        /\ Before(q)' => Before(q) /\ q # p
                        /\ Between(q) => q # p /\ Between(q)'
    BY <1>1, <2>1 DEF Between, Before
  <2> QED
    BY <1>1, <2>1, <2>2 DEF TasksAgree, Agrees
<1> QED
  BY <1>2, <1>3, <1>4, <1>5, AgreeEdit DEF Kind

LEMMA AgreeInit == Init => TasksAgree
<1> SUFFICES ASSUME Init PROVE TasksAgree
  OBVIOUS
<1>1. \A p \in Proc : op[p] = Idle
  BY DEF Init
<1>2. \A s \in Schedule : entry[s] = None /\ task[s] = None
  BY DEF Init
<1> QED
  BY <1>1, <1>2 DEF TasksAgree, Agrees, Between, Before, Idle

\* A registration that can be read, and the task that it says, show no alarm.
LEMMA NoAlarm ==
  ASSUME NEW e \in Entry \cup {None}, NEW s \in Schedule, NEW b \in BOOLEAN,
         Agrees(e, task[s]), e # None => e.snap \in file
  PROVE  ~Alarm(Decorated(StatusFromEntry(e, task[s], b), s))
<1> DEFINE status == StatusFromEntry(e, task[s], b)
<1>1. status \in {"disabled", "running", "registered"}
  <2>1. CASE e = None
    BY <2>1 DEF StatusFromEntry, OrphanStatus, Agrees
  <2>2. CASE e # None
    <3>1. e.enabled \in BOOLEAN /\ Readable(e)
      BY <2>2 DEF Entry, Readable
    <3>2. CASE e.enabled
      BY <2>2, <3>1, <3>2 DEF StatusFromEntry, TaskStatus, Agrees
    <3>3. CASE ~e.enabled
      BY <2>2, <3>1, <3>3 DEF StatusFromEntry, DisabledStatus, Agrees
    <3> QED
      BY <3>1, <3>2, <3>3
  <2> QED
    BY <2>1, <2>2
<1> HIDE DEF status
<1>2. Decorated(status, s) \in {status, "running", "queued"}
  BY DEF Decorated
<1> QED
  BY <1>1, <1>2 DEF Alarm, status

\* The row of a schedule whose registration, task and snapshot fit together.
RowFits(s) ==
  /\ entry[s] \in Entry \cup {None} /\ (entry[s] # None => entry[s].snap \in file)
  /\ Agrees(entry[s], task[s])

NoAlarmOfFitting == \A s \in Schedule : RowFits(s) => ~Alarm(StatusIn(entry, s))

LEMMA RowsShowNoAlarm == NoAlarmOfFitting
<1> SUFFICES ASSUME NEW s \in Schedule, RowFits(s) PROVE ~Alarm(StatusIn(entry, s))
  BY DEF NoAlarmOfFitting
<1>1. RunningTask(s) \in BOOLEAN
  BY DEF RunningTask
<1> QED
  BY <1>1, NoAlarm DEF RowFits, StatusIn

LEMMA NoFalseAlarmFollows ==
  ASSUME Registered, Kept, TasksAgree
  PROVE  NoFalseAlarm
<1> SUFFICES ASSUME crashes = 0, faults < 2, holder = None, NEW w \in Window,
                    seen[w] # None, seen[w].rev = rev, NEW s \in Schedule \ spoiled
             PROVE  ~Alarm(Shown(w, s))
  BY DEF NoFalseAlarm, Listed, Orphans
<1>1. seen[w].entry = entry
  BY DEF Registered, RevisionsOK
<1>2. \A p \in Proc : ~Between(p)
  BY NoneIsNothing DEF Registered, CallsOK, Between
<1>3. Agrees(entry[s], task[s])
  BY <1>2 DEF TasksAgree
<1>4. entry[s] \in Entry \cup {None} /\ (entry[s] # None => entry[s].snap \in file)
  BY DEF Registered, StoreType, TypeOK, Kept, SnapsOK, EntryHasSnapshot
<1> QED
  BY <1>1, <1>3, <1>4, RowsShowNoAlarm DEF Shown, RowFits, NoAlarmOfFitting

LEMMA EditHealsFollows ==
  ASSUME Registered, Kept, Registered', Kept'
  PROVE  EditHeals
<1> SUFFICES ASSUME NEW w \in Window, NEW s \in Schedule, Put(w), op[w].schedule = s
             PROVE  ~Alarm(StatusIn(entry, s))'
  BY DEF EditHeals
<1>1. /\ Editing(w, "put") /\ UNCHANGED task
      /\ entry' = [entry EXCEPT ![s] = EntryAfter(op[w])] /\ s \notin spoiled'
  BY PutIs DEF Registered
<1>2. w \in Proc /\ op[w].step = "put" /\ op[w].step \in EditStep
  BY <1>1 DEF Editing, EditStep
<1>3. task[s] = TaskAfter(op[w])
  BY <1>2 DEF Kept, EditsOK, EditOK, TaskOK
<1>4. entry'[s] = EntryAfter(op[w])
  BY <1>1 DEF Registered, StoreType, TypeOK
<1>5. Agrees(entry'[s], task'[s])
  BY <1>1, <1>2, <1>3, <1>4, EntryAgrees DEF Registered
<1>6. entry'[s] \in Entry \cup {None} /\ (entry'[s] # None => entry'[s].snap \in file')
  BY <1>1 DEF Registered, StoreType, TypeOK, Kept, SnapsOK, EntryHasSnapshot
<1>7. NoAlarmOfFitting'
  BY RowsShowNoAlarm, PTL
<1>8. RowFits(s)'
  BY <1>5, <1>6 DEF RowFits, Agrees
<1> QED
  BY <1>7, <1>8 DEF NoAlarmOfFitting

\* The list of schedules tells the truth, although get_statuses reads registrations,
\* snapshots, tasks and tickets one after the other: no false alarm while nobody edits,
\* unless a process died, two calls failed or the cleanup of its last edit did; no
\* alarm of what was just written; and the next run is the first one there is.
THEOREM StatusTrueHolds == Spec => StatusTrue
<1>1. Registered /\ Kept /\ TasksAgree /\ [Next]_vars => TasksAgree'
  BY Kinds, AgreeInv DEF Registered
<1>2. Spec => [](Registered /\ Kept /\ TasksAgree)
  BY <1>1, AgreeInit, KeptInvariance, PTL DEF Spec
<1>3. Registered /\ Kept /\ TasksAgree /\ (Registered /\ Kept /\ TasksAgree)' /\ [Next]_vars
        => [NoFalseAlarm' /\ EditHeals /\ NextRunTrue]_vars
  <2>1. ASSUME Registered, Kept, TasksAgree, (Registered /\ Kept /\ TasksAgree)'
        PROVE  NoFalseAlarm' /\ EditHeals /\ NextRunTrue
    <3>1. (Registered /\ Kept /\ TasksAgree => NoFalseAlarm)'
      BY NoFalseAlarmFollows, PTL
    <3> QED
      BY <2>1, <3>1, EditHealsFollows, NextRunIsNext
  <2> QED
    BY <2>1
<1> QED
  BY <1>2, <1>3, PTL DEF Spec, StatusTrue

=============================================================================
