--------------------------- MODULE IdentityProofs ---------------------------
(***************************************************************************)
(* Proofs about installations beside each other, for any numbers of        *)
(* processes, threads, installations and schedules.  Module Identity: the  *)
(* identifier of a file is the same for all who know it, and with it the   *)
(* guard of the queue excludes all their threads.  Module ScheduleImport:  *)
(* a schedule that is taken over is owned once, whatever fails or dies.    *)
(***************************************************************************)
EXTENDS Identity, ScheduleImport, TLAPS

-----------------------------------------------------------------------------
(* The guard, for any number of processes, RunGuard objects and callers *)

\* The inductive invariant.  MutualExclusion alone is not inductive: that a
\* caller may enter only when the lock below has no owner rests on the owner
\* having a handle open, which rests on the accounts of handles and locks.
IInv ==
  /\ TypeOK
  /\ LockerInside
  /\ HandlesAccountedFor
  /\ LocalAccountedFor

\* The initial state satisfies the inductive invariant.
LEMMA InitIInv == Init => IInv
BY GuardAssumption
   DEF Init, IInv, TypeOK, LockerInside, HandlesAccountedFor,
       LocalAccountedFor, Step, HandleStep

\* A step of one caller preserves the inductive invariant.
LEMMA TryAcquireIInv ==
  ASSUME NEW c \in Caller, IInv, TryAcquire(c)
  PROVE  IInv'
<1> USE GuardAssumption
    DEF IInv, TypeOK, LockerInside, HandlesAccountedFor, LocalAccountedFor,
        Step, HandleStep, At
<1>1. CASE EnterLocal(c)
  BY <1>1 DEF EnterLocal
<1>2. CASE RefusedLocally(c)
  BY <1>2 DEF RefusedLocally
<1>3. CASE TakeMutex(c)
  BY <1>3 DEF TakeMutex, Unowned
<1>4. CASE MutexExists(c)
  BY <1>4 DEF MutexExists
<1>5. CASE CloseRefused(c)
  BY <1>5 DEF CloseRefused
<1>6. CASE MutexError(c)
  BY <1>6 DEF MutexError
<1>7. CASE ReleaseMutex(c)
  BY <1>7 DEF ReleaseMutex
<1>8. CASE CloseHandle(c)
  BY <1>8 DEF CloseHandle
<1>9. CASE UnlockLocal(c)
  BY <1>9 DEF UnlockLocal
<1> QED
  BY <1>1, <1>2, <1>3, <1>4, <1>5, <1>6, <1>7, <1>8, <1>9,
     TryAcquire(c) DEF TryAcquire

\* The end of a process preserves the inductive invariant.
LEMMA ProcessEndsIInv ==
  ASSUME NEW p \in Process, IInv, ProcessEnds(p)
  PROVE  IInv'
BY GuardAssumption
   DEF ProcessEnds, IInv, TypeOK, LockerInside, HandlesAccountedFor,
       LocalAccountedFor, Step, HandleStep

\* The inductive invariant holds in every reachable state.
LEMMA Invariance == Spec => []IInv
<1>1. IInv /\ [Next]_vars => IInv'
  <2> SUFFICES ASSUME IInv, [Next]_vars PROVE IInv'
    OBVIOUS
  <2>1. ASSUME NEW c \in Caller, TryAcquire(c) PROVE IInv'
    BY <2>1, TryAcquireIInv
  <2>2. ASSUME NEW p \in Process, ProcessEnds(p) PROVE IInv'
    BY <2>2, ProcessEndsIInv
  <2>3. CASE UNCHANGED vars
    BY <2>3 DEF vars, IInv, TypeOK, LockerInside, HandlesAccountedFor,
                LocalAccountedFor
  <2> QED
    BY <2>1, <2>2, <2>3 DEF Next
<1> QED
  BY InitIInv, <1>1, PTL DEF Spec

\* At most one caller is inside the guard (RunGuard.try_acquire yields True to
\* one caller at a time), whoever crashes and whatever the system.
THEOREM MutualExclusionHolds == Spec => []MutualExclusion
<1>1. IInv => MutualExclusion
  BY DEF IInv, LockerInside, MutualExclusion
<1> QED
  BY Invariance, <1>1, PTL

\* Nothing is left locked when nobody is inside try_acquire: the finally of
\* try_acquire and the system's cleanup undo every acquisition.
THEOREM NothingLeftBehindHolds == Spec => []NothingLeftBehind
<1>1. IInv => NothingLeftBehind
  BY GuardAssumption
     DEF IInv, TypeOK, LockerInside, HandlesAccountedFor, LocalAccountedFor,
         NothingLeftBehind, HandleStep
<1> QED
  BY Invariance, <1>1, PTL

\* Every behaviour of try_acquire is one of the abstract non-blocking lock:
\* the guards of the other modules may be taken for one variable each.
THEOREM RefinesTryLock == Spec => ImplementsTryLock
<1>1. Init => Lock!Init
  BY DEF Init, Lock!Init
<1>2. IInv /\ [Next]_vars => [Lock!Next]_locker
  <2> SUFFICES ASSUME IInv, [Next]_vars PROVE [Lock!Next]_locker
    OBVIOUS
  <2> USE GuardAssumption DEF IInv, TypeOK, LockerInside, Lock!Next,
                              Lock!Acquire, Lock!Release
  <2>1. ASSUME NEW c \in Caller, TakeMutex(c) PROVE Lock!Next
    <3>1. locker = None
      BY <2>1 DEF TakeMutex, Unowned, HandlesAccountedFor, HandleStep
    <3> QED
      BY <2>1, <3>1 DEF TakeMutex
  <2>2. ASSUME NEW c \in Caller, ReleaseMutex(c) PROVE Lock!Next
    BY <2>2 DEF ReleaseMutex, At
  <2>3. ASSUME NEW p \in Process, ProcessEnds(p) PROVE [Lock!Next]_locker
    BY <2>3 DEF ProcessEnds
  <2>4. ASSUME NEW c \in Caller, TryAcquire(c), ~TakeMutex(c), ~ReleaseMutex(c)
        PROVE  UNCHANGED locker
    BY <2>4 DEF TryAcquire, EnterLocal, RefusedLocally, MutexExists,
                CloseRefused, MutexError, CloseHandle, UnlockLocal
  <2>5. CASE UNCHANGED vars
    BY <2>5 DEF vars
  <2> QED
    BY <2>1, <2>2, <2>3, <2>4, <2>5 DEF Next
<1> QED
  BY Invariance, <1>1, <1>2, PTL DEF Spec, ImplementsTryLock, Lock!Spec

-----------------------------------------------------------------------------
(* The identifiers *)

\* Whoever knows the identifier of a file knows what the file says.
KnownIsWritten ==
  \A p \in Process, k \in Kind : id[p][k] # None => file[FileOf(p, k)] = id[p][k]

\* A file is written by the one process that created it, while it is empty.
OneWriter ==
  /\ \A p \in Process : act[p].step = "write" => file[ActFile(p)] = Empty
  /\ \A p, q \in Process :
        act[p].step = "write" /\ act[q].step = "write" /\ ActFile(p) = ActFile(q)
          => p = q

\* There is an identifier to write.
WantsId ==
  \A p \in Process :
    /\ act[p].step \in {"create", "write", "await"} => act[p].want \in Identifier
    /\ act[p].after = "legacy" => LegacyId(p) \in Identifier

\* The inductive invariant.  OneIdentity alone is not inductive: a file must not
\* change under those that know it.
IdInv == IdTypeOK /\ KnownIsWritten /\ OneWriter /\ WantsId

LEMMA IdInitInv == IdInit => IdInv
<1> SUFFICES ASSUME IdInit PROVE IdInv
  OBVIOUS
<1> USE IdentityAssumption
<1>1. IdTypeOK
  BY DEF IdInit, IdTypeOK, Idle, Act, Kind
<1>2. KnownIsWritten
  BY DEF IdInit, KnownIsWritten
<1>3. OneWriter /\ WantsId
  BY DEF IdInit, OneWriter, WantsId, Idle
<1> QED
  BY <1>1, <1>2, <1>3 DEF IdInv

\* What p does next, if it is not writing: there is an identifier to create a file
\* with, and one of an older version if that is to follow.
GoodAct(p, a) ==
  /\ a \in Act
  /\ a.step # "write"
  /\ a.step \in {"create", "await"} => a.want \in Identifier
  /\ a.after = "legacy" => LegacyId(p) \in Identifier

\* A process that only turns to something else disturbs nothing.
LEMMA TurnsTo ==
  ASSUME IdInv, NEW p \in Process, NEW a, GoodAct(p, a),
         act' = [act EXCEPT ![p] = a], UNCHANGED <<site, file, id>>
  PROVE  IdInv'
<1> USE DEF IdInv
<1>1. IdTypeOK'
  BY DEF IdTypeOK, GoodAct
<1>2. KnownIsWritten'
  BY DEF KnownIsWritten, FileOf
<1>3. \A q \in Process : act'[q].step = "write" => q # p /\ act'[q] = act[q]
  BY DEF IdTypeOK, GoodAct
<1>4. OneWriter'
  BY <1>3 DEF OneWriter, ActFile, FileOf
<1>5. WantsId'
  BY DEF WantsId, IdTypeOK, GoodAct, LegacyId
<1> QED
  BY <1>1, <1>2, <1>4, <1>5

\* The starts of the three identifiers.
LEMMA LooksInv ==
  ASSUME IdInv, NEW p \in Process,
         QueueLooks(p) \/ CoordinationLooks(p) \/ NamespaceLooks(p)
  PROVE  IdInv'
<1> USE IdentityAssumption
<1> DEFINE Found(k, want, after) ==
      [step |-> IF file[FileOf(p, k)] # None THEN "read" ELSE "create",
       kind |-> k, want |-> want, after |-> after]
<1>1. UNCHANGED <<site, file, id>>
  BY DEF QueueLooks, CoordinationLooks, NamespaceLooks, Starts
<1>2. /\ FreshId(p) \in Identifier
      /\ LegacyId(p) \in Identifier \cup {None}
      /\ site.home[p] \in Installation
  BY DEF IdInv, IdTypeOK, FreshId, LegacyId
<1>3. CASE QueueLooks(p)
  <2> DEFINE a == Found("queue", IF LegacyId(p) = None THEN FreshId(p)
                                                       ELSE LegacyId(p), "nothing")
  <2>1. GoodAct(p, a)
    BY <1>2 DEF GoodAct, Act, Kind
  <2>2. act' = [act EXCEPT ![p] = a]
    BY <1>3 DEF QueueLooks, LookFor
  <2> QED
    BY <1>1, <2>1, <2>2, TurnsTo
<1>4. CASE CoordinationLooks(p)
  <2> DEFINE a == Found("coordination", FreshId(p), "nothing")
  <2>1. GoodAct(p, a)
    BY <1>2 DEF GoodAct, Act, Kind
  <2>2. act' = [act EXCEPT ![p] = a]
    BY <1>4 DEF CoordinationLooks, LookFor
  <2> QED
    BY <1>1, <2>1, <2>2, TurnsTo
<1>5. CASE NamespaceLooks(p)
  <2> DEFINE Creates(want) == [step |-> "create", kind |-> "namespace",
                               want |-> want, after |-> "nothing"]
  <2>1. ASSUME NEW want \in Identifier, CreatesNamespace(p, want) PROVE IdInv'
    <3>1. GoodAct(p, Creates(want))
      BY DEF GoodAct, Act, Kind
    <3>2. act' = [act EXCEPT ![p] = Creates(want)]
      BY <2>1 DEF CreatesNamespace
    <3> QED
      BY <1>1, <3>1, <3>2, TurnsTo
  <2>2. CASE file[site.home[p]] # None /\ LookFor(p, "namespace", None, "nothing")
    <3> DEFINE a == Found("namespace", None, "nothing")
    <3>1. GoodAct(p, a)
      BY <2>2 DEF GoodAct, Act, Kind, FileOf
    <3>2. act' = [act EXCEPT ![p] = a]
      BY <2>2 DEF LookFor
    <3> QED
      BY <1>1, <3>1, <3>2, TurnsTo
  <2>3. CASE NamespaceOfBroken(p)
    <3>1. CASE id[p]["coordination"] = None
      <4> DEFINE a == Found("coordination", FreshId(p), "same")
      <4>1. GoodAct(p, a)
        BY <1>2 DEF GoodAct, Act, Kind
      <4>2. act' = [act EXCEPT ![p] = a]
        BY <2>3, <3>1 DEF NamespaceOfBroken, LookFor
      <4> QED
        BY <1>1, <4>1, <4>2, TurnsTo
    <3>2. CASE id[p]["coordination"] # None
      <4>1. id[p]["coordination"] \in Identifier
        BY <3>2 DEF IdInv, IdTypeOK, Kind
      <4> QED
        BY <2>1, <2>3, <3>2, <4>1 DEF NamespaceOfBroken
    <3> QED
      BY <3>1, <3>2
  <2>4. CASE NamespaceOfTasks(p)
    <3>1. PICK n \in Inherited(p) \ {Broken} : CreatesNamespace(p, n)
      BY <2>4 DEF NamespaceOfTasks
    <3>2. Inherited(p) \in (SUBSET Identifier) \cup {{Broken}}
      BY <1>2 DEF Inherited, IdInv, IdTypeOK
    <3>3. n \in Identifier
      BY <3>1, <3>2
    <3> QED
      BY <2>1, <3>1, <3>3
  <2>5. CASE NamespaceConflict(p)
    <3>1. UNCHANGED idVars
      BY <1>1, <2>5 DEF NamespaceConflict, idVars
    <3> QED
      BY <3>1 DEF IdInv, IdTypeOK, KnownIsWritten, OneWriter, WantsId, idVars,
                  ActFile, FileOf, LegacyId
  <2>6. CASE NamespaceOfNone(p)
    <3>1. CASE LegacyId(p) # None /\ id[p]["coordination"] = None
      <4> DEFINE a == [step |-> "create", kind |-> "coordination",
                       want |-> LegacyId(p), after |-> "legacy"]
      <4>1. GoodAct(p, a)
        BY <1>2, <3>1 DEF GoodAct, Act, Kind
      <4>2. act' = [act EXCEPT ![p] = a]
        BY <2>6, <3>1 DEF NamespaceOfNone
      <4> QED
        BY <1>1, <4>1, <4>2, TurnsTo
    <3>2. CASE ~(LegacyId(p) # None /\ id[p]["coordination"] = None)
      BY <1>2, <2>1, <2>6, <3>2 DEF NamespaceOfNone
    <3> QED
      BY <3>1, <3>2
  <2> QED
    BY <1>5, <2>2, <2>3, <2>4, <2>5, <2>6 DEF NamespaceLooks
<1> QED
  BY <1>3, <1>4, <1>5

\* What p does when it knows an identifier: nothing, or it goes on to its namespace.
LEMMA HaveActs ==
  ASSUME IdInv, NEW p \in Process, NEW value \in Identifier, Have(p, value)
  PROVE  \E a \in Act : GoodAct(p, a) /\ act' = [act EXCEPT ![p] = a]
<1> USE DEF GoodAct, Act, Kind
<1>1. act[p] \in Act
  BY DEF IdInv, IdTypeOK
<1>2. CASE act[p].after = "nothing"
  <2>1. act' = [act EXCEPT ![p] = Idle]
    BY <1>2 DEF Have
  <2>2. GoodAct(p, Idle)
    BY DEF Idle
  <2> QED
    BY <2>1, <2>2
<1>3. ASSUME NEW want \in Identifier, CreatesNamespace(p, want)
      PROVE  \E a \in Act : GoodAct(p, a) /\ act' = [act EXCEPT ![p] = a]
  <2> DEFINE a == [step |-> "create", kind |-> "namespace", want |-> want,
                   after |-> "nothing"]
  <2>1. act' = [act EXCEPT ![p] = a]
    BY <1>3 DEF CreatesNamespace
  <2>2. GoodAct(p, a)
    OBVIOUS
  <2> QED
    BY <2>1, <2>2
<1>4. CASE act[p].after = "legacy"
  <2>1. LegacyId(p) \in Identifier
    BY <1>4 DEF IdInv, WantsId
  <2>2. CreatesNamespace(p, LegacyId(p))
    BY <1>4 DEF Have
  <2> QED
    BY <1>3, <2>1, <2>2
<1>5. CASE act[p].after = "same"
  <2>1. CreatesNamespace(p, value)
    BY <1>5 DEF Have
  <2> QED
    BY <1>3, <2>1
<1> QED
  BY <1>1, <1>2, <1>4, <1>5

\* Knowing what the file says disturbs nothing.
LEMMA LearnsInv ==
  ASSUME IdInv, NEW p \in Process, file[ActFile(p)] \in Identifier,
         Have(p, file[ActFile(p)]), UNCHANGED file
  PROVE  IdInv'
<1> USE IdentityAssumption DEF IdInv
<1>1. PICK a \in Act : GoodAct(p, a) /\ act' = [act EXCEPT ![p] = a]
  BY HaveActs
<1>2. /\ site' = site
      /\ id' = [id EXCEPT ![p][act[p].kind] = file[ActFile(p)]]
      /\ act[p].kind \in Kind
  BY DEF Have, IdTypeOK, Act
<1>3. IdTypeOK'
  BY <1>1, <1>2 DEF IdTypeOK
<1>4. KnownIsWritten'
  <2> SUFFICES ASSUME NEW q \in Process, NEW k \in Kind, id'[q][k] # None
               PROVE  file[FileOf(q, k)] = id'[q][k]
    BY <1>2 DEF KnownIsWritten, FileOf
  <2>1. CASE q = p /\ k = act[p].kind
    BY <1>2, <2>1 DEF IdTypeOK, ActFile
  <2>2. CASE ~(q = p /\ k = act[p].kind)
    BY <1>2, <2>2 DEF IdTypeOK, KnownIsWritten
  <2> QED
    BY <2>1, <2>2
<1>5. \A q \in Process : act'[q].step = "write" => q # p /\ act'[q] = act[q]
  BY <1>1 DEF IdTypeOK, GoodAct
<1>6. OneWriter'
  BY <1>2, <1>5 DEF OneWriter, ActFile, FileOf
<1>7. WantsId'
  BY <1>1, <1>2 DEF WantsId, IdTypeOK, GoodAct, LegacyId
<1> QED
  BY <1>3, <1>4, <1>6, <1>7

\* open(..., "x"): nobody knows the file yet, and nobody else writes it.
LEMMA CreateInv ==
  ASSUME IdInv, NEW p \in Process, CreateFile(p)
  PROVE  IdInv'
<1> USE IdentityAssumption DEF IdInv, CreateFile
<1>1. act[p] \in Act /\ FileOf(p, act[p].kind) \in Files
  BY DEF IdTypeOK, Act, FileOf, Files
<1>2. act' = [act EXCEPT ![p] = [act[p] EXCEPT !.step = "write"]]
  OBVIOUS
<1>3. /\ [act[p] EXCEPT !.step = "write"] \in Act
      /\ [act[p] EXCEPT !.step = "write"].kind = act[p].kind
      /\ [act[p] EXCEPT !.step = "write"].step = "write"
      /\ [act[p] EXCEPT !.step = "write"].want = act[p].want
      /\ [act[p] EXCEPT !.step = "write"].after = act[p].after
  BY <1>1 DEF Act
<1>4. IdTypeOK'
  BY ZenonT(40), <1>2, <1>3 DEF IdTypeOK
<1>5. KnownIsWritten'
  <2> SUFFICES ASSUME NEW q \in Process, NEW k \in Kind, id[q][k] # None
               PROVE  file'[FileOf(q, k)] = id[q][k]
    BY DEF KnownIsWritten, FileOf
  <2>1. file[FileOf(q, k)] # None
    BY DEF KnownIsWritten
  <2>2. FileOf(q, k) # ActFile(p)
    BY <2>1
  <2> QED
    BY <2>2 DEF KnownIsWritten, IdTypeOK
<1>6. \A q \in Process : q # p => act'[q] = act[q]
  BY <1>2 DEF IdTypeOK
<1>7. act'[p].kind = act[p].kind
  BY <1>1, <1>2, <1>3 DEF IdTypeOK
<1>8. \A q \in Process : ActFile(q)' = ActFile(q)
  BY <1>6, <1>7 DEF ActFile, FileOf
<1>9. OneWriter'
  <2>1. \A q \in Process : q # p /\ act[q].step = "write" => ActFile(q) # ActFile(p)
    BY DEF OneWriter
  <2>2. file'[ActFile(p)] = Empty
    BY <1>1 DEF IdTypeOK, ActFile
  <2> QED
    BY <1>6, <1>8, <2>1, <2>2 DEF OneWriter, IdTypeOK
<1>10. WantsId'
  BY <1>2, <1>3, <1>6 DEF WantsId, IdTypeOK, LegacyId
<1> QED
  BY <1>4, <1>5, <1>9, <1>10

\* The write, flush and fsync of the one writer.
LEMMA WriteInv ==
  ASSUME IdInv, NEW p \in Process, WriteIdentifier(p)
  PROVE  IdInv'
<1> USE IdentityAssumption DEF IdInv
<1> DEFINE want == act[p].want
<1>1. /\ act[p] \in Act
      /\ ActFile(p) \in Files
      /\ file[ActFile(p)] = Empty
  BY DEF IdTypeOK, Act, FileOf, Files, ActFile, WriteIdentifier, OneWriter
<1>2. want \in Identifier
  BY DEF WantsId, WriteIdentifier
<1>3. PICK a \in Act : GoodAct(p, a) /\ act' = [act EXCEPT ![p] = a]
  BY <1>2, HaveActs DEF WriteIdentifier
<1>4. /\ site' = site
      /\ file' = [file EXCEPT ![ActFile(p)] = want]
      /\ id' = [id EXCEPT ![p][act[p].kind] = want]
      /\ act[p].kind \in Kind
  BY <1>1 DEF WriteIdentifier, Have, Act
<1>5. IdTypeOK'
  BY <1>1, <1>2, <1>3, <1>4 DEF IdTypeOK
<1>6. KnownIsWritten'
  <2> SUFFICES ASSUME NEW q \in Process, NEW k \in Kind, id'[q][k] # None
               PROVE  file'[FileOf(q, k)] = id'[q][k]
    BY <1>4 DEF KnownIsWritten, FileOf
  <2>1. CASE q = p /\ k = act[p].kind
    BY <1>1, <1>4, <2>1 DEF IdTypeOK, ActFile
  <2>2. CASE ~(q = p /\ k = act[p].kind)
    <3>1. id'[q][k] = id[q][k]
      BY <1>4, <2>2 DEF IdTypeOK
    <3>2. file[FileOf(q, k)] = id[q][k] /\ id[q][k] \in Identifier
      BY <3>1 DEF KnownIsWritten, IdTypeOK
    <3>3. FileOf(q, k) # ActFile(p)
      BY <1>1, <3>2
    <3> QED
      BY <1>4, <3>1, <3>2, <3>3 DEF IdTypeOK
  <2> QED
    BY <2>1, <2>2
<1>7. \A q \in Process : act'[q].step = "write" => q # p /\ act'[q] = act[q]
  BY <1>3 DEF IdTypeOK, GoodAct
<1>8. OneWriter'
  <2>1. \A q \in Process : q # p /\ act[q].step = "write" => ActFile(q) # ActFile(p)
    BY DEF OneWriter, WriteIdentifier
  <2>2. \A q \in Process : act'[q].step = "write" =>
           ActFile(q)' = ActFile(q) /\ file'[ActFile(q)] = file[ActFile(q)]
    BY <1>4, <1>7, <2>1 DEF ActFile, FileOf, IdTypeOK
  <2> QED
    BY <1>7, <2>2 DEF OneWriter
<1>9. WantsId'
  BY <1>3, <1>4 DEF WantsId, IdTypeOK, GoodAct, LegacyId
<1> QED
  BY <1>5, <1>6, <1>8, <1>9

\* A process that ends forgets what it knew.
LEMMA ForgetInv ==
  ASSUME IdInv, NEW p \in Process, Forget(p)
  PROVE  IdInv'
<1> USE IdentityAssumption DEF IdInv, Forget
<1>1. IdTypeOK'
  BY DEF IdTypeOK, Idle, Act, Kind
<1>2. KnownIsWritten'
  BY DEF KnownIsWritten, FileOf, IdTypeOK
<1>3. \A q \in Process : act'[q].step # "idle" => q # p /\ act'[q] = act[q]
  BY DEF IdTypeOK, Idle
<1>4. OneWriter'
  BY <1>3 DEF OneWriter, ActFile, FileOf
<1>5. WantsId'
  BY DEF WantsId, IdTypeOK, Idle, LegacyId
<1> QED
  BY <1>1, <1>2, <1>4, <1>5

\* Every step of the processes that get their identifiers.
LEMMA ResolveInv ==
  ASSUME IdInv, NEW p \in Process, Resolve(p)
  PROVE  IdInv'
<1>1. CASE QueueLooks(p) \/ CoordinationLooks(p) \/ NamespaceLooks(p)
  BY <1>1, LooksInv
<1>2. CASE ReadIdentifier(p) \/ TakeWinners(p)
  BY <1>2, LearnsInv DEF ReadIdentifier, TakeWinners
<1>3. CASE ReadEmpty(p) \/ GiveUp(p)
  <2>1. GoodAct(p, Idle)
    BY DEF GoodAct, Idle, Act, Kind
  <2>2. act' = [act EXCEPT ![p] = Idle] /\ UNCHANGED <<site, file, id>>
    BY <1>3 DEF ReadEmpty, GiveUp, Fail
  <2> QED
    BY <2>1, <2>2, TurnsTo
<1>4. CASE CreateFile(p)
  BY <1>4, CreateInv
<1>5. CASE FileExists(p)
  <2> DEFINE a == [act[p] EXCEPT !.step = "await"]
  <2>1. act[p] \in Act /\ act[p].step = "create"
    BY <1>5 DEF FileExists, IdInv, IdTypeOK
  <2>2. GoodAct(p, a)
    BY <2>1 DEF GoodAct, Act, IdInv, WantsId
  <2>3. act' = [act EXCEPT ![p] = a] /\ UNCHANGED <<site, file, id>>
    BY <1>5 DEF FileExists
  <2> QED
    BY <2>2, <2>3, TurnsTo
<1>6. CASE WriteIdentifier(p)
  BY <1>6, WriteInv
<1> QED
  BY <1>1, <1>2, <1>3, <1>4, <1>5, <1>6 DEF Resolve

LEMMA IdInvariance == QueueSpec => []IdInv
<1>1. QueueInit => IdInv
  BY IdInitInv DEF QueueInit
<1>2. IdInv /\ [QueueNext]_AllVars => IdInv'
  <2> SUFFICES ASSUME IdInv, [QueueNext]_AllVars PROVE IdInv'
    OBVIOUS
  <2>1. CASE Resolving
    BY <2>1, ResolveInv DEF Resolving
  <2>2. CASE Ending
    BY <2>2, ForgetInv DEF Ending
  <2>3. CASE UNCHANGED idVars
    BY <2>3 DEF IdInv, IdTypeOK, KnownIsWritten, OneWriter, WantsId, idVars,
                ActFile, FileOf, LegacyId
  <2> QED
    BY <2>1, <2>2, <2>3 DEF QueueNext, Locking, AllVars
<1> QED
  BY <1>1, <1>2, PTL DEF QueueSpec

\* All who know the identifier of a file know the same one, whoever came first,
\* crashed or took an older identifier over: the one that was written, since
\* _write_identifier_once creates the file with mode "x" and the others read it.
THEOREM OneIdentityHolds == QueueSpec => []OneIdentity
<1>1. IdInv => OneIdentity
  BY DEF IdInv, KnownIsWritten, OneIdentity
<1> QED
  BY <1>1, IdInvariance, PTL

\* The threads of all processes exclude one another in the state lock of the queue,
\* with the processes' starts and ends around it (RunGuard!MutualExclusion).
THEOREM QueueExcludes == QueueSpec => []MutualExclusion
<1>1. QueueInit => Init
  BY DEF QueueInit
<1>2. [QueueNext]_AllVars => [Next]_vars
  BY DEF QueueNext, Resolving, Locking, Ending, Next, AllVars
<1>3. QueueSpec => Spec
  BY <1>1, <1>2, PTL DEF QueueSpec, Spec
<1> QED
  BY <1>3, MutualExclusionHolds, PTL

\* There is one queue, and one caller inside its lock.
THEOREM OneQueueHolds == QueueSpec => []OneQueue
<1>1. OneIdentity /\ MutualExclusion => OneQueue
  BY DEF OneQueue
<1> QED
  BY <1>1, OneIdentityHolds, QueueExcludes, PTL

-----------------------------------------------------------------------------
(* Taking over a schedule: the inductive invariant *)

Importing == {"create", "disable", "enable", "mark", "merge", "delete", "finish",
              "undo", "undo target", "undo old", "undone"}
Recovering == {"commit", "commit old", "commit delete", "committed",
               "roll back", "roll back old", "roll back source"}

Task == {Nil, "enabled", "disabled", "foreign"}
Target == {Nil, "enabled", "disabled", "damaged"}
Registration == [enabled : BOOLEAN, migrated : BOOLEAN, cleanup : {Nil, "PENDING", "COMPLETED"},
                 whole : BOOLEAN]
Doing == [step : Importing \cup Recovering \cup {"off", "idle", "gone", "wait"},
          schedule : Schedule \cup {Nil}, old : Task, enabled : BOOLEAN, wasEnabled : BOOLEAN,
          marked : BOOLEAN, pending : BOOLEAN, imported : BOOLEAN, errors : BOOLEAN]

StoresOK ==
  /\ source \in [Schedule -> Registration] /\ old \in [Schedule -> Task]
  /\ target \in [Schedule -> Target] /\ task \in [Schedule -> BOOLEAN]
  /\ journal \in [schedule : Schedule, oldEnabled : BOOLEAN] \cup {Nil}
  /\ first \in [Schedule -> BOOLEAN \X Task \X BOOLEAN]

\* Who is at work on a schedule has the transaction, and nobody else has it.
WorkersOK ==
  /\ holder \in Proc \cup {Nil} /\ op \in [Proc -> Doing]
  /\ \A p \in Proc :
       /\ op[p].step \in Importing \cup Recovering <=> holder = p
       /\ op[p].step \in Importing => p \in Window
       /\ op[p].step \in Importing \cup Recovering \cup {"wait"} => op[p].schedule \in Schedule

\* What an import finds and leaves in the old place and here.
WasEnabled(s) == first[s][1]
OldTask(s) == first[s][2]
Refused(s) == OldTask(s) = "foreign" \/ ~first[s][3]
Restored(s) == old[s] = OldTask(s) /\ (source[s].enabled <=> WasEnabled(s)) /\ ~source[s].migrated
Stopped(s) == old[s] = IF OldTask(s) = "enabled" THEN "disabled" ELSE OldTask(s)
Arrived(s) == target[s] = IF WasEnabled(s) THEN "enabled" ELSE "disabled"
Named(s) == journal # Nil /\ journal.schedule = s

\* What holds of a schedule at every moment of an import, an undoing and a recovery.
Coherent(s) ==
  /\ source[s].whole = first[s][3]
  /\ source[s].enabled <=> WasEnabled(s) /\ ~source[s].migrated
  /\ task[s] <=> target[s] = "enabled"
  /\ target[s] = "enabled" => WasEnabled(s) /\ old[s] # "enabled"
  /\ source[s].migrated /\ target[s] # Nil => Arrived(s)
  /\ target[s] = "damaged" => ~source[s].migrated
  /\ old[s] = OldTask(s) \/ Stopped(s) \/ (old[s] = Nil /\ source[s].migrated /\ target[s] # Nil)
  /\ Untouched(s) \/ Damaged(s) \/ TakenOver(s) \/ Named(s)
  /\ Refused(s) => Untouched(s)
  /\ Named(s) => ~Refused(s) /\ (journal.oldEnabled <=> OldTask(s) = "enabled")

\* What holds besides where an import is.
ImportAt(p, s) ==
  LET o == op[p] step == o.step IN
  /\ Named(s)
  /\ o.old = OldTask(s) /\ (o.wasEnabled <=> WasEnabled(s))
  /\ step \in {"create", "disable", "enable", "mark"} => ~o.marked /\ ~source[s].migrated
  /\ step \in {"create", "disable", "enable", "mark", "merge", "delete", "finish"} =>
       ~o.pending /\ ~o.errors
  /\ target[s] \in {"enabled", "disabled"} => o.imported
  /\ step = "create" => Untouched(s)
  /\ step = "disable" => target[s] = "disabled" /\ Restored(s)
  /\ step = "enable" => target[s] = "disabled" /\ Stopped(s)
  /\ step = "mark" => Arrived(s) /\ Stopped(s)
  /\ step \in {"merge", "delete"} => Arrived(s) /\ Stopped(s) /\ source[s].migrated /\ o.marked
  /\ step = "delete" => old[s] # Nil
  /\ step = "finish" => TakenOver(s)
  /\ step = "undo" => (o.marked <=> source[s].migrated) /\ ~o.errors
  /\ step \in {"undo", "undo target", "undo old"} => old[s] = OldTask(s) \/ Stopped(s)
  /\ step \in {"undo target", "undo old", "undone"} => o.errors \/ ~source[s].migrated
  /\ step = "undo old" => target[s] \in {Nil, "damaged"}
  /\ step = "undone" /\ ~o.errors => Untouched(s) \/ Damaged(s)

\* What holds besides where a recovery is.
RecoveryAt(p, s) ==
  LET step == op[p].step IN
  /\ step \in {"commit", "commit old", "commit delete", "committed"} =>
       source[s].migrated /\ target[s] # Nil
  /\ step = "committed" => old[s] = Nil
  /\ step = "roll back" => ~(source[s].migrated /\ target[s] # Nil)
  /\ step \in {"roll back old", "roll back source"} => target[s] = Nil
  /\ step = "roll back source" => old[s] = OldTask(s)

WorkOK ==
  \A p \in Proc : LET s == op[p].schedule IN
    /\ op[p].step \in Importing \cup Recovering => journal = Nil \/ journal.schedule = s
    /\ s \in Schedule \ edited =>
       /\ op[p].step \in Importing => ImportAt(p, s)
       /\ op[p].step \in Recovering => RecoveryAt(p, s)
       /\ op[p].step \in Recovering \cup {"wait"} =>
            ~Refused(s) /\ (op[p].enabled <=> OldTask(s) = "enabled")

ImportInv == StoresOK /\ WorkersOK /\ WorkOK /\ \A s \in Schedule \ edited : Coherent(s)

\* Whoever waits for the transaction with the journal that it has read finds that one.
OneJournal ==
  \A p \in Proc : op[p].step = "wait" /\ journal # Nil => journal.schedule = op[p].schedule

-----------------------------------------------------------------------------
(* What a step of an import, or of a recovery, leaves alone *)

\* The stores of all other schedules.
Elsewhere(s) ==
  \A t \in Schedule \ {s} :
    source'[t] = source[t] /\ old'[t] = old[t] /\ target'[t] = target[t] /\ task'[t] = task[t]

\* The journal stays, or is deleted when it is of schedule s.
JournalOf(s) == journal' = journal \/ (journal' = Nil /\ (journal = Nil \/ journal.schedule = s))

LEMMA OthersCoherent ==
  ASSUME NEW s \in Schedule, Elsewhere(s), JournalOf(s), first' = first,
         NEW t \in Schedule, t # s, Coherent(t)
  PROVE  Coherent(t)'
<1>1. source'[t] = source[t] /\ old'[t] = old[t] /\ target'[t] = target[t] /\ task'[t] = task[t]
  BY DEF Elsewhere
<1>2. Named(t)' = Named(t) /\ (Named(t) => journal' = journal)
  BY DEF JournalOf, Named
<1>3. /\ Untouched(t)' = Untouched(t) /\ Damaged(t)' = Damaged(t) /\ TakenOver(t)' = TakenOver(t) /\ Refused(t)' = Refused(t)
      /\ OldTask(t)' = OldTask(t) /\ WasEnabled(t)' = WasEnabled(t)
      /\ Arrived(t)' = Arrived(t) /\ Stopped(t)' = Stopped(t)
  BY <1>1 DEF Untouched, Damaged, TakenOver, Refused, OldTask, WasEnabled, Arrived, Stopped
<1> QED
  BY <1>1, <1>2, <1>3 DEF Coherent

\* A step of process p, which has the transaction, for schedule s.
LEMMA WorkerStep ==
  ASSUME ImportInv, NEW p \in Proc, op[p].step \in Importing \cup Recovering,
         NEW s, s = op[p].schedule, NEW o \in Doing, op' = [op EXCEPT ![p] = o],
         StoresOK', Elsewhere(s), JournalOf(s), first' = first, edited' = edited,
         \/ /\ o.step \in Importing \cup Recovering /\ holder' = holder /\ o.schedule = s
            /\ o.step \in Importing => p \in Window
            /\ journal' = Nil \/ journal'.schedule = s
         \/ o.step \in {"idle", "off", "gone"} /\ holder' = Nil,
         s \notin edited =>
           /\ Coherent(s)'
           /\ o.step \in Importing => ImportAt(p, s)'
           /\ o.step \in Recovering => RecoveryAt(p, s)' /\ (o.enabled <=> op[p].enabled) /\ op[p].step \in Recovering
  PROVE  ImportInv'
<1>1. /\ op'[p] = o /\ \A q \in Proc \ {p} : op'[q] = op[q]
      /\ holder = p /\ s \in Schedule
  BY DEF ImportInv, WorkersOK
<1>2. \A q \in Proc \ {p} : op[q].step \notin Importing \cup Recovering
  BY <1>1 DEF ImportInv, WorkersOK
<1>3. {"idle", "off", "gone", "wait"} \cap (Importing \cup Recovering) = {} /\ Nil \notin Proc
  BY ImportAssumption DEF Importing, Recovering, Proc
<1>4. WorkersOK'
  <2>1. holder' \in Proc \cup {Nil} /\ op' \in [Proc -> Doing]
    BY <1>1 DEF ImportInv, WorkersOK
  <2> SUFFICES ASSUME NEW q \in Proc
               PROVE  /\ op'[q].step \in Importing \cup Recovering <=> holder' = q
                      /\ op'[q].step \in Importing => q \in Window
                      /\ op'[q].step \in Importing \cup Recovering \cup {"wait"} => op'[q].schedule \in Schedule
    BY <2>1 DEF WorkersOK
  <2>2. CASE q = p
    BY <1>1, <1>3, <2>2
  <2>3. CASE q # p
    BY <1>1, <1>2, <1>3, <2>3 DEF ImportInv, WorkersOK
  <2> QED
    BY <2>2, <2>3
<1>5. WorkOK'
  <2> SUFFICES ASSUME NEW q \in Proc
      PROVE /\ op'[q].step \in Importing \cup Recovering => journal' = Nil \/ journal'.schedule = op'[q].schedule
            /\ op'[q].schedule \in Schedule \ edited =>
               /\ op'[q].step \in Importing => ImportAt(q, op[q].schedule)'
               /\ op'[q].step \in Recovering => RecoveryAt(q, op[q].schedule)'
               /\ op'[q].step \in Recovering \cup {"wait"} =>
                    /\ ~Refused(op[q].schedule)'
                    /\ (op'[q].enabled <=> OldTask(op[q].schedule)' = "enabled")
    BY DEF WorkOK
  <2>1. \A t \in Schedule : Refused(t)' = Refused(t) /\ OldTask(t)' = OldTask(t)
    BY DEF Refused, OldTask
  <2>2. CASE q = p
    <3>1. CASE o.step \in Importing \cup Recovering
      BY <1>1, <1>3, <2>1, <2>2, <3>1 DEF ImportInv, WorkOK
    <3>2. CASE o.step \notin Importing \cup Recovering
      BY <1>1, <1>3, <2>2, <3>2
    <3> QED
      BY <3>1, <3>2
  <2>3. CASE q # p
    BY <1>1, <1>2, <2>1, <2>3 DEF ImportInv, WorkOK
  <2> QED
    BY <2>2, <2>3
<1>6. \A t \in Schedule \ edited : Coherent(t)'
  BY <1>1, OthersCoherent DEF ImportInv
<1> QED
  BY <1>4, <1>5, <1>6 DEF ImportInv

-----------------------------------------------------------------------------
(* The steps of an import *)

LEMMA AtWork ==
  ASSUME ImportInv, NEW p \in Proc, op[p].step \in Importing \cup Recovering
  PROVE  /\ op[p] \in Doing /\ op[p].schedule \in Schedule /\ holder = p
         /\ journal = Nil \/ journal.schedule = op[p].schedule
         /\ op[p].schedule \notin edited =>
              /\ Coherent(op[p].schedule)
              /\ op[p].step \in Importing => ImportAt(p, op[p].schedule)
              /\ op[p].step \in Recovering =>
                   /\ RecoveryAt(p, op[p].schedule) /\ ~Refused(op[p].schedule)
                   /\ (op[p].enabled <=> OldTask(op[p].schedule) = "enabled")
BY DEF ImportInv, WorkersOK, WorkOK

\* An import goes on: the journal stays, and what it does concerns its schedule only.
LEMMA ImportGoesOn ==
  ASSUME ImportInv, NEW w \in Window, op[w].step \in Importing, NEW s, s = op[w].schedule,
         NEW o \in Doing, op' = [op EXCEPT ![w] = o], o.step \in Importing, o.schedule = s,
         StoresOK', Elsewhere(s), UNCHANGED <<journal, holder, ghosts>>,
         s \notin edited => Coherent(s)' /\ ImportAt(w, s)'
  PROVE  ImportInv'
<1>1. w \in Proc /\ o.step \notin Recovering
  BY DEF Proc, Importing, Recovering
<1>2. journal = Nil \/ journal.schedule = s
  BY <1>1, AtWork
<1> QED
  BY <1>1, <1>2, WorkerStep DEF JournalOf, ghosts

LEMMA NilIsNoState ==
  /\ Nil # "enabled" /\ Nil # "disabled" /\ Nil # "foreign" /\ Nil # "damaged" /\ Nil # "PENDING" /\ Nil # "COMPLETED"
  /\ Nil \notin Schedule \cup Proc
BY ImportAssumption DEF Proc

LEMMA StoresAt ==
  ASSUME StoresOK, NEW s \in Schedule
  PROVE  /\ source[s] \in Registration /\ source[s].enabled \in BOOLEAN
         /\ source[s].migrated \in BOOLEAN /\ source[s].whole \in BOOLEAN
         /\ old[s] \in Task /\ task[s] \in BOOLEAN /\ target[s] \in Target
         /\ first[s][1] \in BOOLEAN /\ first[s][2] \in Task /\ first[s][3] \in BOOLEAN
<1>1. first[s] \in BOOLEAN \X Task \X BOOLEAN
  BY DEF StoresOK
<1>2. source[s] \in Registration
  BY DEF StoresOK
<1>3. source[s].enabled \in BOOLEAN /\ source[s].migrated \in BOOLEAN /\ source[s].whole \in BOOLEAN
  BY <1>2 DEF Registration
<1> QED
  BY <1>1, <1>2, <1>3 DEF StoresOK

\* The registration is written,
LEMMA CreatedKeeps ==
  ASSUME ImportInv, NEW w \in Window, op[w].step = "create", NEW st \in {"disable", "undo"},
         op' = [op EXCEPT ![w].imported = TRUE, ![w].step = st],
         target' = [target EXCEPT ![op[w].schedule] = "disabled"],
         UNCHANGED <<source, old, task, journal, holder, history, ghosts>>
  PROVE  ImportInv'
<1>1. w \in Proc /\ op[w].step = "create" /\ "create" \in Importing
  BY DEF Proc, Importing
<1>2. PICK s \in Schedule : s = op[w].schedule
  BY <1>1, AtWork
<1>3. op' = [op EXCEPT ![w].imported = TRUE, ![w].step = st]
  OBVIOUS
<1>4. op \in [Proc -> Doing] /\ st \in Importing
  BY DEF ImportInv, WorkersOK, Importing
<1>5. PICK o \in Doing : o = op'[w]
  BY <1>1, <1>3, <1>4 DEF Doing
<1>6. op' = [op EXCEPT ![w] = o]
  BY <1>1, <1>3, <1>4, <1>5
<1>7. /\ o.step = st /\ o.schedule = s /\ o.imported /\ o.old = op[w].old
      /\ o.wasEnabled = op[w].wasEnabled /\ o.marked = op[w].marked
      /\ o.pending = op[w].pending /\ o.errors = op[w].errors
  BY <1>1, <1>2, <1>3, <1>4, <1>5 DEF Doing
<1>8. /\ target' = [target EXCEPT ![s] = "disabled"]
      /\ UNCHANGED <<source, old, task, journal, holder, ghosts, first>>
  BY <1>2 DEF ghosts
<1>9. StoresOK' /\ Elsewhere(s)
  BY <1>2, <1>8 DEF ImportInv, Target, StoresOK, Elsewhere
<1>10. ASSUME s \notin edited PROVE Coherent(s)' /\ ImportAt(w, s)'
  <2>1. Coherent(s) /\ ImportAt(w, s) /\ Untouched(s)
    BY <1>1, <1>2, <1>10, AtWork DEF ImportAt
  <2>2. target'[s] = "disabled" /\ target[s] = Nil
    BY <1>2, <1>8, <2>1 DEF ImportInv, Target, StoresOK, Untouched
  <2>3. Named(s)' /\ Restored(s)' /\ Coherent(s)'
    BY <1>8, <2>1, <2>2, StoresAt, NilIsNoState
       DEF ImportInv, Coherent, ImportAt, Untouched, Damaged, TakenOver, Refused, OldTask, WasEnabled, Arrived, Stopped, Restored, Named
  <2>4. ImportAt(w, s)'
    BY <1>1, <1>5, <1>7, <1>8, <2>1, <2>2, <2>3 DEF ImportAt, Restored, OldTask, WasEnabled
  <2> QED
    BY <2>3, <2>4
<1> QED
  BY <1>1, <1>2, <1>4, <1>6, <1>7, <1>8, <1>9, <1>10, ImportGoesOn

\* A process goes on to step st.
LEMMA GoFacts ==
  ASSUME ImportInv, NEW p \in Proc, NEW st \in Importing \cup Recovering, Go(p, st)
  PROVE  /\ op'[p] \in Doing /\ op' = [op EXCEPT ![p] = op'[p]]
         /\ op'[p].step = st /\ op'[p].schedule = op[p].schedule /\ op'[p].old = op[p].old
         /\ op'[p].enabled = op[p].enabled /\ op'[p].wasEnabled = op[p].wasEnabled
         /\ op'[p].marked = op[p].marked /\ op'[p].pending = op[p].pending
         /\ op'[p].imported = op[p].imported /\ op'[p].errors = op[p].errors
<1>1. op \in [Proc -> Doing] /\ op' = [op EXCEPT ![p].step = st]
  BY DEF ImportInv, WorkersOK, Go
<1>2. op'[p] \in Doing
  BY <1>1 DEF Doing
<1>3. op' = [op EXCEPT ![p] = op'[p]]
  BY <1>1
<1>4. /\ op'[p].step = st /\ op'[p].schedule = op[p].schedule /\ op'[p].old = op[p].old
      /\ op'[p].enabled = op[p].enabled /\ op'[p].wasEnabled = op[p].wasEnabled
      /\ op'[p].marked = op[p].marked /\ op'[p].pending = op[p].pending
      /\ op'[p].imported = op[p].imported /\ op'[p].errors = op[p].errors
  BY <1>1 DEF Doing
<1> QED
  BY <1>2, <1>3, <1>4

\* The registration is without a snapshot when the cleanup after it has failed.
LEMMA CreateKeeps ==
  ASSUME ImportInv, NEW w \in Window, Create(w)
  PROVE  ImportInv'
<1>1. w \in Proc /\ op[w].step = "create" /\ op[w].step \in Importing /\ "undo" \in Importing
  BY DEF Create, AtStep, Proc, Importing
<1>2. PICK s \in Schedule : s = op[w].schedule
  BY <1>1, AtWork
<1>3. ASSUME NEW st \in {"disable", "undo"}, op' = [op EXCEPT ![w].imported = TRUE, ![w].step = st],
             target' = [target EXCEPT ![s] = "disabled"]
      PROVE  ImportInv'
  BY <1>1, <1>2, <1>3, CreatedKeeps DEF Create
<1>4. ASSUME Go(w, "undo"), target' = [target EXCEPT ![s] = "damaged"]
      PROVE  ImportInv'
  <2>1. PICK o \in Doing :
          /\ op' = [op EXCEPT ![w] = o] /\ o = op'[w] /\ o.step = "undo" /\ o.schedule = s /\ o.old = op[w].old
          /\ o.wasEnabled = op[w].wasEnabled /\ o.marked = op[w].marked
          /\ o.pending = op[w].pending /\ o.imported = op[w].imported /\ o.errors = op[w].errors
    BY <1>1, <1>2, <1>4, GoFacts
  <2>2. UNCHANGED <<source, old, task, journal, holder, ghosts, first>>
    BY DEF Create, ghosts
  <2>3. StoresOK' /\ Elsewhere(s)
    BY <1>2, <1>4, <2>2 DEF ImportInv, Target, StoresOK, Elsewhere
  <2>4. ASSUME s \notin edited PROVE Coherent(s)' /\ ImportAt(w, s)'
    <3>1. Coherent(s) /\ ImportAt(w, s) /\ Untouched(s) /\ Named(s) /\ ~Refused(s)
      BY <1>1, <1>2, <2>4, AtWork DEF ImportAt, Coherent
    <3>2. target'[s] = "damaged" /\ target[s] = Nil
      BY <1>2, <1>4, <3>1 DEF ImportInv, Target, StoresOK, Untouched
    <3>3. Named(s)' /\ Restored(s)' /\ Coherent(s)'
      BY <2>2, <3>1, <3>2, StoresAt, NilIsNoState
         DEF ImportInv, Coherent, Untouched, Damaged, TakenOver, Refused, OldTask, WasEnabled, Arrived,
             Stopped, Restored, Named
    <3>4. ImportAt(w, s)'
      BY <1>1, <2>1, <2>2, <3>1, <3>2, <3>3, NilIsNoState
         DEF ImportAt, Restored, OldTask, WasEnabled
    <3> QED
      BY <3>3, <3>4
  <2> QED
    BY <1>1, <1>2, <2>1, <2>2, <2>3, <2>4, ImportGoesOn
<1> QED
  BY <1>2, <1>3, <1>4 DEF Create

LEMMA DisableOldKeeps ==
  ASSUME ImportInv, NEW w \in Window, DisableOld(w)
  PROVE  ImportInv'
<1>1. w \in Proc /\ op[w].step = "disable" /\ "disable" \in Importing
  BY DEF DisableOld, Effect, AtStep, Proc, Importing
<1>2. PICK s \in Schedule : s = op[w].schedule
  BY <1>1, AtWork
<1>3. PICK st \in {"enable", "undo"} : Go(w, st) /\ st \in Importing
  BY DEF DisableOld, Effect, Importing
<1>4. PICK o \in Doing :
        /\ op' = [op EXCEPT ![w] = o] /\ o = op'[w] /\ o.step = st /\ o.schedule = s /\ o.old = op[w].old
        /\ o.wasEnabled = op[w].wasEnabled /\ o.marked = op[w].marked
        /\ o.pending = op[w].pending /\ o.imported = op[w].imported /\ o.errors = op[w].errors
  BY <1>1, <1>2, <1>3, GoFacts
<1>5. /\ old' = [old EXCEPT ![s] = IF @ = "enabled" THEN "disabled" ELSE @]
      /\ UNCHANGED <<source, target, task, journal, holder, ghosts, first>>
  BY <1>2 DEF DisableOld, ghosts
<1>6. StoresOK' /\ Elsewhere(s)
  BY <1>2, <1>5 DEF ImportInv, Target, StoresOK, Elsewhere, Task
<1>7. ASSUME s \notin edited PROVE Coherent(s)' /\ ImportAt(w, s)'
  <2>1. /\ Coherent(s) /\ ImportAt(w, s) /\ Named(s) /\ Restored(s) /\ target[s] = "disabled"
        /\ ~Refused(s)
    BY <1>1, <1>2, <1>7, AtWork DEF ImportAt, Coherent
  <2>2. old'[s] = IF old[s] = "enabled" THEN "disabled" ELSE old[s]
    BY <1>2, <1>5 DEF ImportInv, Target, StoresOK
  <2>3. Named(s)' /\ Stopped(s)' /\ Coherent(s)'
    BY <1>5, <2>1, <2>2, StoresAt, NilIsNoState
       DEF ImportInv, Coherent, Untouched, Damaged, TakenOver, Refused, OldTask, WasEnabled, Arrived, Stopped, Restored, Named
  <2>4. ImportAt(w, s)'
    BY <1>1, <1>3, <1>4, <1>5, <2>1, <2>3 DEF ImportAt, Restored, OldTask, WasEnabled
  <2> QED
    BY <2>3, <2>4
<1> QED
  BY <1>1, <1>2, <1>3, <1>4, <1>5, <1>6, <1>7, ImportGoesOn

LEMMA EnableTargetKeeps ==
  ASSUME ImportInv, NEW w \in Window, EnableTarget(w)
  PROVE  ImportInv'
<1>1. w \in Proc /\ op[w].step = "enable" /\ "enable" \in Importing
  BY DEF EnableTarget, Effect, AtStep, Proc, Importing
<1>2. PICK s \in Schedule : s = op[w].schedule
  BY <1>1, AtWork
<1>3. PICK st \in {"mark", "undo"} : Go(w, st) /\ st \in Importing
  BY DEF EnableTarget, Effect, Importing
<1>4. PICK o \in Doing :
        /\ op' = [op EXCEPT ![w] = o] /\ o = op'[w] /\ o.step = st /\ o.schedule = s /\ o.old = op[w].old
        /\ o.wasEnabled = op[w].wasEnabled /\ o.marked = op[w].marked
        /\ o.pending = op[w].pending /\ o.imported = op[w].imported /\ o.errors = op[w].errors
  BY <1>1, <1>2, <1>3, GoFacts
<1>5. /\ IF op[w].wasEnabled
         THEN target' = [target EXCEPT ![s] = "enabled"] /\ task' = [task EXCEPT ![s] = TRUE]
         ELSE UNCHANGED <<target, task>>
      /\ UNCHANGED <<source, old, journal, holder, ghosts, first>>
  BY <1>2 DEF EnableTarget, ghosts
<1>6. StoresOK' /\ Elsewhere(s)
  BY <1>2, <1>5 DEF ImportInv, Target, StoresOK, Elsewhere
<1>7. ASSUME s \notin edited PROVE Coherent(s)' /\ ImportAt(w, s)'
  <2>1. /\ Coherent(s) /\ ImportAt(w, s) /\ Named(s) /\ Stopped(s) /\ target[s] = "disabled"
        /\ ~Refused(s) /\ ~source[s].migrated /\ (op[w].wasEnabled <=> WasEnabled(s))
    BY <1>1, <1>2, <1>7, AtWork DEF ImportAt, Coherent
  <2>2. /\ target'[s] = IF WasEnabled(s) THEN "enabled" ELSE "disabled"
        /\ task'[s] <=> WasEnabled(s)
    BY <1>2, <1>5, <2>1 DEF ImportInv, Target, StoresOK, Coherent
  <2>3. Named(s)' /\ Stopped(s)' /\ Arrived(s)' /\ Coherent(s)' /\ ~source'[s].migrated
    BY <1>5, <2>1, <2>2, StoresAt, NilIsNoState
       DEF ImportInv, Coherent, Untouched, Damaged, TakenOver, Refused, OldTask, WasEnabled, Arrived, Stopped, Named
  <2>4. ImportAt(w, s)'
    BY <1>1, <1>3, <1>4, <1>5, <2>1, <2>3, NilIsNoState DEF ImportAt, OldTask, WasEnabled
  <2> QED
    BY <2>3, <2>4
<1> QED
  BY <1>1, <1>2, <1>3, <1>4, <1>5, <1>6, <1>7, ImportGoesOn

LEMMA MarkSourceKeeps ==
  ASSUME ImportInv, NEW w \in Window, MarkSource(w)
  PROVE  ImportInv'
<1>1. w \in Proc /\ op[w].step = "mark" /\ "mark" \in Importing
  BY DEF MarkSource, AtStep, Proc, Importing
<1>2. PICK s \in Schedule : s = op[w].schedule
  BY <1>1, AtWork
<1>3. PICK st \in {"merge", "undo"} : op' = [op EXCEPT ![w].marked = TRUE, ![w].step = st]
  BY DEF MarkSource
<1>4. op \in [Proc -> Doing] /\ st \in Importing
  BY DEF ImportInv, WorkersOK, Importing
<1>5. PICK o \in Doing : o = op'[w]
  BY <1>1, <1>3, <1>4 DEF Doing
<1>6. op' = [op EXCEPT ![w] = o]
  BY <1>1, <1>3, <1>4, <1>5
<1>7. /\ o.step = st /\ o.schedule = s /\ o.imported = op[w].imported /\ o.old = op[w].old
      /\ o.wasEnabled = op[w].wasEnabled /\ o.marked
      /\ o.pending = op[w].pending /\ o.errors = op[w].errors
  BY <1>1, <1>2, <1>3, <1>4, <1>5 DEF Doing
<1>8. /\ source' = [source EXCEPT ![s] = [@ EXCEPT !.enabled = FALSE, !.migrated = TRUE]]
      /\ UNCHANGED <<old, target, task, journal, holder, ghosts, first>>
  BY <1>2 DEF MarkSource, ghosts
<1>9. source[s] \in Registration /\ source'[s] = [source[s] EXCEPT !.enabled = FALSE, !.migrated = TRUE]
  BY <1>2, <1>8 DEF ImportInv, Target, StoresOK
<1>10. source'[s] \in Registration /\ ~source'[s].enabled /\ source'[s].migrated /\ source'[s].whole = source[s].whole
  BY <1>9 DEF Registration
<1>11. StoresOK' /\ Elsewhere(s)
  BY <1>2, <1>8, <1>10 DEF ImportInv, Target, StoresOK, Elsewhere
<1>12. ASSUME s \notin edited PROVE Coherent(s)' /\ ImportAt(w, s)'
  <2>1. /\ Coherent(s) /\ ImportAt(w, s) /\ Named(s) /\ Stopped(s) /\ Arrived(s)
        /\ ~Refused(s) /\ ~source[s].migrated
    BY <1>1, <1>2, <1>12, AtWork DEF ImportAt, Coherent
  <2>2. Named(s)' /\ Stopped(s)' /\ Arrived(s)' /\ Coherent(s)'
    BY <1>8, <1>10, <2>1, StoresAt, NilIsNoState
       DEF ImportInv, Coherent, Untouched, Damaged, TakenOver, Refused, OldTask, WasEnabled, Arrived, Stopped, Named
  <2>3. ImportAt(w, s)'
    BY <1>1, <1>3, <1>5, <1>7, <1>8, <1>10, <2>1, <2>2, NilIsNoState DEF ImportAt, OldTask, WasEnabled
  <2> QED
    BY <2>2, <2>3
<1> QED
  BY <1>1, <1>2, <1>4, <1>6, <1>7, <1>8, <1>11, <1>12, ImportGoesOn

LEMMA StepFailsKeeps ==
  ASSUME ImportInv, NEW w \in Window, StepFails(w)
  PROVE  ImportInv'
<1>1. /\ w \in Proc /\ op[w].step \in {"create", "mark", "disable", "enable"} /\ op[w].step \in Importing
      /\ Go(w, "undo") /\ "undo" \in Importing
  BY DEF StepFails, NoEffect, AtStep, Proc, Importing
<1>2. PICK s \in Schedule : s = op[w].schedule
  BY <1>1, AtWork
<1>3. PICK o \in Doing :
        /\ op' = [op EXCEPT ![w] = o] /\ o = op'[w] /\ o.step = "undo" /\ o.schedule = s /\ o.old = op[w].old
        /\ o.wasEnabled = op[w].wasEnabled /\ o.marked = op[w].marked
        /\ o.pending = op[w].pending /\ o.imported = op[w].imported /\ o.errors = op[w].errors
  BY <1>1, <1>2, GoFacts
<1>4. UNCHANGED <<source, old, target, task, journal, holder, ghosts, first, edited>>
  BY DEF StepFails, stores, ghosts
<1>5. StoresOK' /\ Elsewhere(s)
  BY <1>4 DEF ImportInv, Target, StoresOK, Elsewhere
<1>6. ASSUME s \notin edited PROVE Coherent(s)' /\ ImportAt(w, s)'
  <2>1. Coherent(s) /\ ImportAt(w, s)
    BY <1>1, <1>2, <1>6, AtWork
  <2>2. Coherent(s)'
    BY <1>4, <2>1 DEF Coherent, Untouched, Damaged, TakenOver, Refused, OldTask, WasEnabled, Arrived, Stopped, Named
  <2>3. ImportAt(w, s)'
    BY <1>1, <1>3, <1>4, <2>1 DEF ImportAt, OldTask, WasEnabled, Untouched, Restored, Stopped, Arrived, Named
  <2> QED
    BY <2>2, <2>3
<1> QED
  BY <1>1, <1>2, <1>3, <1>4, <1>5, <1>6, ImportGoesOn

LEMMA RestOK ==
  ASSUME NEW p \in Proc
  PROVE  /\ Rest(p) \in Doing /\ Rest(p).step \in {"idle", "gone"}
         /\ Off \in Doing /\ Off.step = "off"
         /\ [Resting EXCEPT !.step = "gone"] \in Doing /\ [Resting EXCEPT !.step = "gone"].step = "gone"
BY DEF Rest, Resting, Off, Doing, Task

\* A process is done, and leaves the transaction.
LEMMA EndKeeps ==
  ASSUME ImportInv, NEW p \in Proc, op[p].step \in Importing \cup Recovering,
         NEW s, s = op[p].schedule, End(p),
         StoresOK', Elsewhere(s), JournalOf(s), UNCHANGED ghosts, s \notin edited => Coherent(s)'
  PROVE  ImportInv'
<1>1. PICK o \in Doing : o = Rest(p) /\ o.step \in {"idle", "gone"}
  BY RestOK
<1>2. op' = [op EXCEPT ![p] = o] /\ holder' = Nil /\ first' = first /\ edited' = edited
  BY <1>1 DEF End, ghosts
<1>3. o.step \notin Importing \cup Recovering
  BY <1>1 DEF Importing, Recovering
<1> QED
  BY <1>1, <1>2, <1>3, WorkerStep

LEMMA MergeHistoryKeeps ==
  ASSUME ImportInv, NEW w \in Window, MergeHistory(w)
  PROVE  ImportInv'
<1>1. w \in Proc /\ op[w].step = "merge" /\ op[w].step \in Importing
  BY DEF MergeHistory, AtStep, Proc, Importing
<1>2. PICK s \in Schedule : s = op[w].schedule
  BY <1>1, AtWork
<1>3. PICK st \in {"finish", "delete"} : /\ Go(w, st) /\ st \in Importing
                                         /\ st = IF op[w].old = Nil THEN "finish" ELSE "delete"
  BY DEF MergeHistory, Importing
<1>4. PICK o \in Doing :
        /\ op' = [op EXCEPT ![w] = o] /\ o = op'[w] /\ o.step = st /\ o.schedule = s /\ o.old = op[w].old
        /\ o.wasEnabled = op[w].wasEnabled /\ o.marked = op[w].marked
        /\ o.pending = op[w].pending /\ o.imported = op[w].imported /\ o.errors = op[w].errors
  BY <1>1, <1>2, <1>3, GoFacts
<1>5. UNCHANGED <<source, old, target, task, journal, holder, ghosts, first, edited>>
  BY DEF MergeHistory, stores, ghosts
<1>6. StoresOK' /\ Elsewhere(s)
  BY <1>5 DEF ImportInv, Target, StoresOK, Elsewhere
<1>7. ASSUME s \notin edited PROVE Coherent(s)' /\ ImportAt(w, s)'
  <2>1. Coherent(s) /\ ImportAt(w, s) /\ Stopped(s) /\ op[w].old = OldTask(s)
    BY <1>1, <1>2, <1>7, AtWork DEF ImportAt
  <2>2. Coherent(s)'
    BY <1>5, <2>1 DEF Coherent, Untouched, Damaged, TakenOver, Refused, OldTask, WasEnabled, Arrived, Stopped, Named
  <2>3. st = "delete" => old[s] # Nil
    BY <1>3, <2>1, NilIsNoState DEF Stopped
  <2>4. st = "finish" => TakenOver(s)
    BY <1>1, <1>3, <2>1, StoresAt, NilIsNoState DEF Stopped, TakenOver, ImportAt, Coherent, Arrived, WasEnabled, ImportInv
  <2>5. ImportAt(w, s)'
    BY <1>1, <1>3, <1>4, <1>5, <2>1, <2>3, <2>4
       DEF ImportAt, OldTask, WasEnabled, Untouched, Restored, Stopped, Arrived, Named, TakenOver
  <2> QED
    BY <2>2, <2>5
<1> QED
  BY <1>1, <1>2, <1>3, <1>4, <1>5, <1>6, <1>7, ImportGoesOn

LEMMA DeleteOldKeeps ==
  ASSUME ImportInv, NEW w \in Window, DeleteOld(w)
  PROVE  ImportInv'
<1>1. w \in Proc /\ op[w].step = "delete" /\ op[w].step \in Importing /\ "finish" \in Importing /\ Go(w, "finish")
  BY DEF DeleteOld, AtStep, Proc, Importing
<1>2. PICK s \in Schedule : s = op[w].schedule
  BY <1>1, AtWork
<1>3. PICK o \in Doing :
        /\ op' = [op EXCEPT ![w] = o] /\ o = op'[w] /\ o.step = "finish" /\ o.schedule = s /\ o.old = op[w].old
        /\ o.wasEnabled = op[w].wasEnabled /\ o.marked = op[w].marked
        /\ o.pending = op[w].pending /\ o.imported = op[w].imported /\ o.errors = op[w].errors
  BY <1>1, <1>2, GoFacts
<1>4. /\ old' = [old EXCEPT ![s] = Nil]
      /\ UNCHANGED <<source, target, task, journal, holder, ghosts, first>>
  BY <1>2 DEF DeleteOld, ghosts
<1>5. StoresOK' /\ Elsewhere(s) /\ old'[s] = Nil
  BY <1>2, <1>4 DEF ImportInv, Target, StoresOK, Elsewhere, Task
<1>6. ASSUME s \notin edited PROVE Coherent(s)' /\ ImportAt(w, s)'
  <2>1. Coherent(s) /\ ImportAt(w, s) /\ Arrived(s) /\ source[s].migrated /\ Named(s) /\ ~Refused(s) /\ target[s] # Nil
    BY <1>1, <1>2, <1>6, AtWork, NilIsNoState DEF ImportAt, Coherent, Arrived
  <2>2. Named(s)' /\ Coherent(s)' /\ TakenOver(s)'
    BY <1>4, <1>5, <2>1, StoresAt, NilIsNoState
       DEF ImportInv, Coherent, Untouched, Damaged, TakenOver, Refused, OldTask, WasEnabled, Arrived, Stopped, Named
  <2>3. ImportAt(w, s)'
    BY <1>1, <1>3, <1>4, <2>1, <2>2 DEF ImportAt, OldTask, WasEnabled, Arrived
  <2> QED
    BY <2>2, <2>3
<1> QED
  BY <1>1, <1>2, <1>3, <1>4, <1>5, <1>6, ImportGoesOn

LEMMA DeleteOldFailsKeeps ==
  ASSUME ImportInv, NEW w \in Window, DeleteOldFails(w)
  PROVE  ImportInv'
<1>1. w \in Proc /\ op[w].step = "delete" /\ op[w].step \in Importing
  BY DEF DeleteOldFails, AtStep, Proc, Importing
<1>2. PICK s \in Schedule : s = op[w].schedule
  BY <1>1, AtWork
<1>3. /\ source' = source \/ source' = [source EXCEPT ![s].cleanup = "PENDING"]
      /\ UNCHANGED <<old, target, task, journal, ghosts, first, edited>>
  BY <1>2 DEF DeleteOldFails, ghosts
<1>4. /\ source'[s] \in Registration /\ source'[s].enabled = source[s].enabled
      /\ source'[s].migrated = source[s].migrated /\ source'[s].whole = source[s].whole
  BY <1>2, <1>3 DEF ImportInv, Target, StoresOK, Registration
<1>5. StoresOK' /\ Elsewhere(s)
  BY <1>2, <1>3, <1>4 DEF ImportInv, Target, StoresOK, Elsewhere
<1>6. ASSUME s \notin edited
      PROVE  /\ Coherent(s)' /\ Named(s)' /\ ImportAt(w, s) /\ Stopped(s)' /\ target'[s] = target[s]
             /\ source'[s].migrated
  <2>1. Coherent(s) /\ ImportAt(w, s) /\ Named(s) /\ Stopped(s) /\ source[s].migrated
    BY <1>1, <1>2, <1>6, AtWork DEF ImportAt
  <2>2. Coherent(s)' /\ Named(s)' /\ Stopped(s)'
    BY <1>3, <1>4, <2>1
       DEF Coherent, Untouched, Damaged, TakenOver, Refused, OldTask, WasEnabled, Arrived, Stopped, Named
  <2> QED
    BY <1>3, <1>4, <2>1, <2>2
<1>7. CASE End(w)
  BY <1>1, <1>2, <1>3, <1>5, <1>6, <1>7, EndKeeps DEF JournalOf
<1>8. CASE op' = [op EXCEPT ![w].step = "undo", ![w].pending = TRUE] /\ UNCHANGED holder
  <2>1. op \in [Proc -> Doing] /\ "undo" \in Importing
    BY DEF ImportInv, WorkersOK, Importing
  <2>2. PICK o \in Doing : o = op'[w]
    BY <1>1, <1>8, <2>1, ZenonT(40) DEF Doing
  <2>3. op' = [op EXCEPT ![w] = o]
    BY <1>1, <1>8, <2>1, <2>2
  <2>4. /\ o.step = "undo" /\ o.schedule = s /\ o.imported = op[w].imported /\ o.old = op[w].old
        /\ o.wasEnabled = op[w].wasEnabled /\ o.marked = op[w].marked /\ o.errors = op[w].errors
    BY <1>1, <1>2, <1>8, <2>1, <2>2 DEF Doing
  <2>5. ASSUME s \notin edited PROVE Coherent(s)' /\ ImportAt(w, s)'
    BY <1>1, <1>3, <1>6, <2>2, <2>4, <2>5 DEF ImportAt, OldTask, WasEnabled
  <2>6. UNCHANGED <<journal, holder, ghosts>>
    BY <1>3, <1>8
  <2> QED
    BY <1>1, <1>2, <1>5, <2>1, <2>3, <2>4, <2>5, <2>6, ImportGoesOn
<1> QED
  BY <1>7, <1>8 DEF DeleteOldFails

LEMMA FinishKeeps ==
  ASSUME ImportInv, NEW w \in Window, Finish(w)
  PROVE  ImportInv'
<1>1. w \in Proc /\ op[w].step = "finish" /\ op[w].step \in Importing
  BY DEF Finish, AtStep, Proc, Importing
<1>2. PICK s \in Schedule : s = op[w].schedule
  BY <1>1, AtWork
<1>3. UNCHANGED <<source, old, target, task, ghosts, first, edited>> /\ journal' \in {journal, Nil} /\ End(w)
  BY DEF Finish, stores, ghosts
<1>4. StoresOK' /\ Elsewhere(s)
  BY <1>3 DEF ImportInv, Target, StoresOK, Elsewhere
<1>5. (journal = Nil \/ journal.schedule = s) /\ JournalOf(s)
  BY <1>1, <1>2, <1>3, AtWork DEF JournalOf
<1>6. ASSUME s \notin edited PROVE Coherent(s)'
  <2>1. Coherent(s) /\ TakenOver(s) /\ ~Refused(s) /\ Named(s)
    BY <1>1, <1>2, <1>6, AtWork DEF ImportAt, Coherent
  <2>2. Named(s)' => journal' = journal
    BY <1>3 DEF Named
  <2> QED
    BY <1>3, <2>1, <2>2 DEF Coherent, Untouched, Damaged, TakenOver, Refused, OldTask, WasEnabled, Arrived, Stopped, Named
<1> QED
  BY <1>1, <1>2, <1>3, <1>4, <1>5, <1>6, EndKeeps

LEMMA UndoSourceKeeps ==
  ASSUME ImportInv, NEW w \in Window, UndoSource(w)
  PROVE  ImportInv'
<1>1. w \in Proc /\ op[w].step = "undo" /\ op[w].step \in Importing /\ "undo target" \in Importing
  BY DEF UndoSource, AtStep, Proc, Importing
<1>2. PICK s \in Schedule : s = op[w].schedule
  BY <1>1, AtWork
<1>3. op \in [Proc -> Doing] /\ source \in [Schedule -> Registration] /\ source[s] \in Registration
  BY DEF ImportInv, WorkersOK, StoresOK
<1>4. UNCHANGED <<old, target, task, journal, holder, ghosts, first, edited>>
  BY DEF UndoSource, ghosts
<1>5. CASE /\ Go(w, "undo target")
           /\ source' = IF op[w].marked
                        THEN [source EXCEPT ![s] = [@ EXCEPT !.enabled = op[w].wasEnabled, !.migrated = FALSE]]
                        ELSE source
  <2>a. op'[w] \in Doing /\ op' = [op EXCEPT ![w] = op'[w]]
    BY <1>1, <1>5, GoFacts
  <2>b. PICK o \in Doing : o = op'[w]
    BY <2>a
  <2>1. /\ op' = [op EXCEPT ![w] = o] /\ o = op'[w] /\ o.step = "undo target" /\ o.schedule = s
        /\ o.old = op[w].old /\ o.wasEnabled = op[w].wasEnabled /\ o.marked = op[w].marked
        /\ o.pending = op[w].pending /\ o.imported = op[w].imported /\ o.errors = op[w].errors
    BY <1>1, <1>2, <1>5, <2>a, <2>b, GoFacts
  <2>2. op[w].wasEnabled \in BOOLEAN
    BY <1>1, <1>3 DEF Doing
  <2>3. /\ source'[s] \in Registration /\ source'[s].whole = source[s].whole
        /\ op[w].marked => ~source'[s].migrated /\ (source'[s].enabled <=> op[w].wasEnabled)
        /\ ~op[w].marked => source'[s] = source[s]
    <3>1. CASE op[w].marked
      <4>1. source'[s] = [source[s] EXCEPT !.enabled = op[w].wasEnabled, !.migrated = FALSE]
        BY <1>3, <1>5, <3>1
      <4> QED
        BY <1>3, <2>2, <3>1, <4>1 DEF Registration
    <3>2. CASE ~op[w].marked
      BY <1>3, <1>5, <3>2
    <3> QED
      BY <3>1, <3>2
  <2>4. StoresOK' /\ Elsewhere(s)
    BY <1>3, <1>4, <1>5, <2>3 DEF ImportInv, Target, StoresOK, Elsewhere
  <2>5. ASSUME s \notin edited PROVE Coherent(s)' /\ ImportAt(w, s)'
    <3>1. /\ Coherent(s) /\ ImportAt(w, s) /\ Named(s) /\ ~Refused(s) /\ (op[w].wasEnabled <=> WasEnabled(s))
          /\ (op[w].marked <=> source[s].migrated) /\ (old[s] = OldTask(s) \/ Stopped(s))
      BY <1>1, <1>2, <2>5, AtWork DEF ImportAt, Coherent
    <3>2. ~source'[s].migrated /\ (source'[s].enabled <=> WasEnabled(s))
      BY <2>3, <3>1 DEF Coherent
    <3>3. Named(s)' /\ Coherent(s)'
      BY <1>4, <2>3, <3>1, <3>2, NilIsNoState
         DEF Coherent, Untouched, Damaged, TakenOver, Refused, OldTask, WasEnabled, Arrived, Stopped, Named
    <3>4. ImportAt(w, s)'
      BY <1>1, <1>4, <2>1, <3>1, <3>2, <3>3, NilIsNoState DEF ImportAt, OldTask, WasEnabled, Stopped
    <3> QED
      BY <3>3, <3>4
  <2> QED
    BY <1>1, <1>2, <1>4, <2>1, <2>4, <2>5, ImportGoesOn
<1>6. CASE op' = [op EXCEPT ![w].step = "undo target", ![w].errors = TRUE] /\ UNCHANGED source
  <2>1. PICK o \in Doing : o = op'[w]
    BY <1>1, <1>3, <1>6 DEF Doing
  <2>2. op' = [op EXCEPT ![w] = o]
    BY <1>1, <1>3, <1>6, <2>1
  <2>3. /\ o.step = "undo target" /\ o.schedule = s /\ o.imported = op[w].imported /\ o.old = op[w].old
        /\ o.wasEnabled = op[w].wasEnabled /\ o.errors
    BY <1>1, <1>2, <1>3, <1>6, <2>1 DEF Doing
  <2>4. StoresOK' /\ Elsewhere(s)
    BY <1>4, <1>6 DEF ImportInv, Target, StoresOK, Elsewhere
  <2>5. ASSUME s \notin edited PROVE Coherent(s)' /\ ImportAt(w, s)'
    <3>1. Coherent(s) /\ ImportAt(w, s)
      BY <1>1, <1>2, <2>5, AtWork
    <3>2. Coherent(s)'
      BY <1>4, <1>6, <3>1 DEF Coherent, Untouched, Damaged, TakenOver, Refused, OldTask, WasEnabled, Arrived, Stopped, Named
    <3>3. ImportAt(w, s)'
      BY <1>1, <1>4, <1>6, <2>1, <2>3, <3>1 DEF ImportAt, OldTask, WasEnabled, Stopped, Named
    <3> QED
      BY <3>2, <3>3
  <2> QED
    BY <1>1, <1>2, <1>4, <2>2, <2>3, <2>4, <2>5, ImportGoesOn
<1> QED
  BY <1>2, <1>5, <1>6 DEF UndoSource

\* What could not be undone is left to the next start.
LEMMA UndoingFails ==
  ASSUME ImportInv, NEW w \in Window, op[w].step \in {"undo target", "undo old"},
         op' = [op EXCEPT ![w].step = "undone", ![w].errors = TRUE],
         UNCHANGED <<source, old, journal, holder, ghosts>>,
         NEW s, s = op[w].schedule,
         \/ UNCHANGED <<target, task>>
         \/ target' = [target EXCEPT ![s] = Nil] /\ task' = [task EXCEPT ![s] = FALSE]
  PROVE  ImportInv'
<1>1. w \in Proc /\ op[w].step \in Importing /\ "undone" \in Importing
  BY DEF Proc, Importing
<1>2. s \in Schedule
  BY <1>1, AtWork
<1>3. op \in [Proc -> Doing] /\ first' = first
  BY DEF ImportInv, WorkersOK, ghosts
<1>4. PICK o \in Doing : o = op'[w]
  <2>1. op[w] \in Doing /\ op'[w] = [op[w] EXCEPT !.step = "undone", !.errors = TRUE]
    BY <1>1, <1>3
  <2> QED
    BY <1>1, <2>1 DEF Doing
<1>5. op' = [op EXCEPT ![w] = o]
  BY <1>1, <1>3, <1>4
<1>6. /\ o.step = "undone" /\ o.schedule = s /\ o.imported = op[w].imported /\ o.old = op[w].old
      /\ o.wasEnabled = op[w].wasEnabled /\ o.errors
  BY <1>1, <1>2, <1>3, <1>4 DEF Doing
<1>7. StoresOK' /\ Elsewhere(s)
  BY <1>2, <1>3 DEF ImportInv, Target, StoresOK, Elsewhere
<1>8. ASSUME s \notin edited PROVE Coherent(s)' /\ ImportAt(w, s)'
  <2>1. /\ Coherent(s) /\ ImportAt(w, s) /\ Named(s) /\ ~Refused(s)
        /\ old[s] = OldTask(s) \/ Stopped(s)
    BY <1>1, <1>2, <1>8, AtWork DEF ImportAt, Coherent
  <2>2. \/ target'[s] = target[s] /\ task'[s] = task[s]
        \/ target'[s] = Nil /\ ~task'[s]
    <3>1. target \in [Schedule -> Target] /\ task \in [Schedule -> BOOLEAN]
      BY DEF ImportInv, StoresOK
    <3> QED
      BY <1>2, <3>1
  <2>3. Coherent(s)'
    BY <1>3, <2>1, <2>2, NilIsNoState
       DEF Coherent, Untouched, Damaged, TakenOver, Refused, OldTask, WasEnabled, Arrived, Stopped, Named
  <2>4. ImportAt(w, s)'
    BY <1>1, <1>3, <1>4, <1>6, <2>1, <2>2, NilIsNoState DEF ImportAt, OldTask, WasEnabled, Named
  <2> QED
    BY <2>3, <2>4
<1> QED
  BY <1>1, <1>2, <1>5, <1>6, <1>7, <1>8, ImportGoesOn, ZenonT(40)

LEMMA UndoTargetKeeps ==
  ASSUME ImportInv, NEW w \in Window, UndoTarget(w)
  PROVE  ImportInv'
<1>1. /\ w \in Proc /\ op[w].step = "undo target" /\ op[w].step \in Importing
      /\ "undo old" \in Importing /\ "undone" \in Importing
  BY DEF UndoTarget, AtStep, Proc, Importing
<1>2. PICK s \in Schedule : s = op[w].schedule
  BY <1>1, AtWork
<1>3. op \in [Proc -> Doing] /\ target \in [Schedule -> Target] /\ task \in [Schedule -> BOOLEAN]
  BY DEF ImportInv, WorkersOK, StoresOK
<1>4. UNCHANGED <<source, old, journal, holder, ghosts, first, edited>>
  BY DEF UndoTarget, ghosts
<1>5. CASE /\ Go(w, "undo old")
           /\ IF op[w].imported
              THEN target' = [target EXCEPT ![s] = Nil] /\ task' = [task EXCEPT ![s] = FALSE]
              ELSE UNCHANGED <<target, task>>
  <2>a. op'[w] \in Doing /\ op' = [op EXCEPT ![w] = op'[w]]
    BY <1>1, <1>5, GoFacts
  <2>b. PICK o \in Doing : o = op'[w]
    BY <2>a
  <2>1. /\ op' = [op EXCEPT ![w] = o] /\ o = op'[w] /\ o.step = "undo old" /\ o.schedule = s
        /\ o.old = op[w].old /\ o.wasEnabled = op[w].wasEnabled /\ o.marked = op[w].marked
        /\ o.pending = op[w].pending /\ o.imported = op[w].imported /\ o.errors = op[w].errors
    BY <1>1, <1>2, <1>5, <2>a, <2>b, GoFacts
  <2>2. StoresOK' /\ Elsewhere(s)
    BY <1>3, <1>4, <1>5 DEF ImportInv, Target, StoresOK, Elsewhere
  <2>3. ASSUME s \notin edited PROVE Coherent(s)' /\ ImportAt(w, s)'
    <3>1. /\ Coherent(s) /\ ImportAt(w, s) /\ Named(s) /\ ~Refused(s)
          /\ (target[s] \in {"enabled", "disabled"} => op[w].imported) /\ (old[s] = OldTask(s) \/ Stopped(s))
      BY <1>1, <1>2, <2>3, AtWork DEF ImportAt, Coherent
    <3>2. /\ target'[s] = Nil \/ (target'[s] = "damaged" /\ target[s] = "damaged")
          /\ ~task'[s] /\ (source[s].migrated => target'[s] = Nil)
      BY <1>3, <1>5, <3>1, NilIsNoState DEF Coherent, Target
    <3>3. Named(s)' /\ Coherent(s)'
      BY <1>4, <3>1, <3>2, NilIsNoState
         DEF Coherent, Untouched, Damaged, TakenOver, Refused, OldTask, WasEnabled, Arrived, Stopped, Named
    <3>4. ImportAt(w, s)'
      BY <1>1, <1>4, <2>1, <3>1, <3>2, <3>3, NilIsNoState DEF ImportAt, OldTask, WasEnabled, Stopped
    <3> QED
      BY <3>3, <3>4
  <2> QED
    BY <1>1, <1>2, <1>4, <2>1, <2>2, <2>3, ImportGoesOn
<1>6. CASE /\ op' = [op EXCEPT ![w].step = "undone", ![w].errors = TRUE]
           /\ \/ UNCHANGED <<target, task>>
              \/ target' = [target EXCEPT ![s] = Nil] /\ task' = [task EXCEPT ![s] = FALSE]
  BY <1>1, <1>2, <1>4, <1>6, UndoingFails
<1> QED
  BY <1>2, <1>5, <1>6 DEF UndoTarget

LEMMA UndoOldKeeps ==
  ASSUME ImportInv, NEW w \in Window, UndoOld(w)
  PROVE  ImportInv'
<1>1. w \in Proc /\ op[w].step = "undo old" /\ op[w].step \in Importing /\ "undone" \in Importing
  BY DEF UndoOld, AtStep, Proc, Importing
<1>2. PICK s \in Schedule : s = op[w].schedule
  BY <1>1, AtWork
<1>3. op \in [Proc -> Doing] /\ old \in [Schedule -> Task] /\ op[w].old \in Task
  BY <1>1 DEF ImportInv, WorkersOK, StoresOK, Doing
<1>4. UNCHANGED <<source, target, task, journal, holder, ghosts, first, edited>>
  BY DEF UndoOld, ghosts
<1>5. CASE /\ Go(w, "undone")
           /\ old' = [old EXCEPT ![s] = IF op[w].old = Nil THEN @ ELSE op[w].old]
  <2>a. op'[w] \in Doing /\ op' = [op EXCEPT ![w] = op'[w]]
    BY <1>1, <1>5, GoFacts
  <2>b. PICK o \in Doing : o = op'[w]
    BY <2>a
  <2>1. /\ op' = [op EXCEPT ![w] = o] /\ o = op'[w] /\ o.step = "undone" /\ o.schedule = s
        /\ o.old = op[w].old /\ o.wasEnabled = op[w].wasEnabled /\ o.marked = op[w].marked
        /\ o.pending = op[w].pending /\ o.imported = op[w].imported /\ o.errors = op[w].errors
    BY <1>1, <1>2, <1>5, <2>a, <2>b, GoFacts
  <2>2. StoresOK' /\ Elsewhere(s)
    BY <1>3, <1>4, <1>5 DEF ImportInv, Target, StoresOK, Elsewhere
  <2>3. ASSUME s \notin edited PROVE Coherent(s)' /\ ImportAt(w, s)'
    <3>1. /\ Coherent(s) /\ ImportAt(w, s) /\ Named(s) /\ ~Refused(s) /\ target[s] \in {Nil, "damaged"}
          /\ op[w].old = OldTask(s) /\ (old[s] = OldTask(s) \/ Stopped(s))
          /\ (op[w].errors \/ ~source[s].migrated)
      BY <1>1, <1>2, <2>3, AtWork DEF ImportAt, Coherent
    <3>2. old'[s] = OldTask(s)
      BY <1>3, <1>5, <3>1, NilIsNoState DEF Stopped
    <3>3. Named(s)' /\ Coherent(s)' /\ (op[w].errors \/ Untouched(s)' \/ Damaged(s)')
      BY <1>4, <3>1, <3>2, NilIsNoState, StoresAt
         DEF Coherent, Untouched, Damaged, TakenOver, Refused, OldTask, WasEnabled, Arrived, Stopped, Named, ImportInv
    <3>4. ImportAt(w, s)'
      BY <1>1, <1>4, <2>1, <3>1, <3>3 DEF ImportAt, OldTask, WasEnabled
    <3> QED
      BY <3>3, <3>4
  <2> QED
    BY <1>1, <1>2, <1>4, <2>1, <2>2, <2>3, ImportGoesOn
<1>6. CASE op' = [op EXCEPT ![w].step = "undone", ![w].errors = TRUE] /\ UNCHANGED old
  BY <1>1, <1>2, <1>4, <1>6, UndoingFails
<1> QED
  BY <1>2, <1>5, <1>6 DEF UndoOld

LEMMA UndoneKeeps ==
  ASSUME ImportInv, NEW w \in Window, Undone(w)
  PROVE  ImportInv'
<1>1. w \in Proc /\ op[w].step = "undone" /\ op[w].step \in Importing
  BY DEF Undone, AtStep, Proc, Importing
<1>2. PICK s \in Schedule : s = op[w].schedule
  BY <1>1, AtWork
<1>3. /\ UNCHANGED <<source, old, target, task, ghosts, first, edited>> /\ End(w)
      /\ journal' = journal \/ (journal' = Nil /\ ~op[w].errors)
  BY DEF Undone, stores, ghosts
<1>4. StoresOK' /\ Elsewhere(s)
  BY <1>3 DEF ImportInv, Target, StoresOK, Elsewhere
<1>5. (journal = Nil \/ journal.schedule = s) /\ JournalOf(s)
  BY <1>1, <1>2, <1>3, AtWork DEF JournalOf
<1>6. ASSUME s \notin edited PROVE Coherent(s)'
  <2>1. Coherent(s) /\ Named(s) /\ (op[w].errors \/ Untouched(s) \/ Damaged(s))
    BY <1>1, <1>2, <1>6, AtWork DEF ImportAt
  <2>2. /\ Named(s)' => journal' = journal
        /\ op[w].errors => Named(s)'
    BY <1>3, <2>1 DEF Named
  <2> QED
    BY <1>3, <2>1, <2>2 DEF Coherent, Untouched, Damaged, TakenOver, Refused, OldTask, WasEnabled, Arrived, Stopped, Named
<1> QED
  BY <1>1, <1>2, <1>3, <1>4, <1>5, <1>6, EndKeeps

LEMMA ImportKeeps ==
  ASSUME ImportInv, NEW w \in Window, Import(w)
  PROVE  ImportInv'
BY CreateKeeps, DisableOldKeeps, EnableTargetKeeps, MarkSourceKeeps, StepFailsKeeps,
   MergeHistoryKeeps, DeleteOldKeeps, DeleteOldFailsKeeps, FinishKeeps,
   UndoSourceKeeps, UndoTargetKeeps, UndoOldKeeps, UndoneKeeps DEF Import

-----------------------------------------------------------------------------
(* The steps of a recovery *)

\* A recovery goes on.
LEMMA RecoveryGoesOn ==
  ASSUME ImportInv, NEW p \in Proc, op[p].step \in Recovering, NEW s, s = op[p].schedule,
         NEW st \in Recovering, Go(p, st),
         StoresOK', Elsewhere(s), UNCHANGED <<journal, holder, ghosts>>,
         s \notin edited => Coherent(s)' /\ RecoveryAt(p, s)'
  PROVE  ImportInv'
<1>1. op'[p] \in Doing /\ op' = [op EXCEPT ![p] = op'[p]]
  BY GoFacts
<1>2. PICK o \in Doing : o = op'[p]
  BY <1>1
<1>3. o.step = st /\ o.schedule = s /\ o.enabled = op[p].enabled /\ op' = [op EXCEPT ![p] = o]
  BY <1>1, <1>2, GoFacts
<1>4. (journal = Nil \/ journal.schedule = s) /\ o.step \notin Importing
  BY <1>3, AtWork DEF Importing, Recovering
<1> QED
  BY <1>3, <1>4, WorkerStep DEF JournalOf, ghosts

LEMMA RecoveryFailsKeeps ==
  ASSUME ImportInv, NEW p \in Proc, RecoveryFails(p)
  PROVE  ImportInv'
<1>1. op[p].step \in Recovering
  BY DEF RecoveryFails, Recovering
<1>2. PICK s \in Schedule : s = op[p].schedule
  BY <1>1, AtWork
<1>3. UNCHANGED <<source, old, target, task, journal, ghosts, first, edited>> /\ End(p)
  BY DEF RecoveryFails, stores, ghosts
<1>4. StoresOK' /\ Elsewhere(s)
  BY <1>3 DEF ImportInv, Target, StoresOK, Elsewhere
<1>5. ASSUME s \notin edited PROVE Coherent(s)'
  <2>1. Coherent(s)
    BY <1>1, <1>2, <1>5, AtWork
  <2> QED
    BY <1>3, <2>1 DEF Coherent, Untouched, Damaged, TakenOver, Refused, OldTask, WasEnabled, Arrived, Stopped, Named
<1> QED
  BY <1>1, <1>2, <1>3, <1>4, <1>5, EndKeeps DEF JournalOf

LEMMA CommitKeeps ==
  ASSUME ImportInv, NEW p \in Proc, Commit(p)
  PROVE  ImportInv'
<1>1. /\ op[p].step = "commit" /\ op[p].step \in Recovering
      /\ "committed" \in Recovering /\ "commit old" \in Recovering
  BY DEF Commit, AtStep, Recovering
<1>2. PICK s \in Schedule : s = op[p].schedule
  BY <1>1, AtWork
<1>3. /\ UNCHANGED <<source, old, target, journal, ghosts, first, edited>>
      /\ task' = [task EXCEPT ![s] = @ \/ target[s] = "enabled"]
  BY <1>2 DEF Commit, ghosts
<1>4. StoresOK' /\ Elsewhere(s) /\ (task'[s] <=> task[s] \/ target[s] = "enabled")
  BY <1>2, <1>3 DEF ImportInv, Target, StoresOK, Elsewhere
<1>5. ASSUME s \notin edited PROVE Coherent(s)' /\ RecoveryAt(p, s)
  <2>1. Coherent(s) /\ RecoveryAt(p, s)
    BY <1>1, <1>2, <1>5, AtWork
  <2>2. task'[s] = task[s]
    BY <1>2, <1>4, <2>1, StoresAt DEF Coherent, ImportInv, StoresOK
  <2> QED
    BY <1>3, <2>1, <2>2 DEF Coherent, Untouched, Damaged, TakenOver, Refused, OldTask, WasEnabled, Arrived, Stopped, Named
<1>6. CASE End(p)
  BY <1>1, <1>2, <1>3, <1>4, <1>5, <1>6, EndKeeps DEF JournalOf
<1>7. CASE Go(p, IF old[s] = Nil THEN "committed" ELSE "commit old") /\ UNCHANGED holder
  <2>1. PICK st \in Recovering : st = IF old[s] = Nil THEN "committed" ELSE "commit old"
    BY <1>1
  <2>2. Go(p, st) /\ UNCHANGED <<journal, holder, ghosts>>
    BY <1>3, <1>7, <2>1
  <2>3. op'[p].step = st
    BY <2>2, GoFacts
  <2>4. ASSUME s \notin edited PROVE RecoveryAt(p, s)'
    BY <1>1, <1>3, <1>5, <2>1, <2>3, <2>4 DEF RecoveryAt
  <2> QED
    BY <1>1, <1>2, <1>4, <1>5, <2>2, <2>4, RecoveryGoesOn
<1> QED
  BY <1>2, <1>6, <1>7 DEF Commit

LEMMA CommitOldKeeps ==
  ASSUME ImportInv, NEW p \in Proc, CommitOld(p)
  PROVE  ImportInv'
<1>1. /\ op[p].step \in {"commit old", "commit delete"} /\ op[p].step \in Recovering
      /\ "committed" \in Recovering /\ "commit delete" \in Recovering
  BY DEF CommitOld, AtStep, Recovering
<1>2. PICK s \in Schedule : s = op[p].schedule
  BY <1>1, AtWork
<1>3. PICK st \in Recovering, state \in Task :
        /\ Go(p, st) /\ old' = [old EXCEPT ![s] = state]
        /\ \/ st = "commit delete" /\ state = IF old[s] = "enabled" THEN "disabled" ELSE old[s]
           \/ st = "committed" /\ state = Nil
  <2>1. old \in [Schedule -> Task]
    BY DEF ImportInv, Target, StoresOK
  <2>2. CASE Go(p, "commit delete") /\ old' = [old EXCEPT ![s] = IF @ = "enabled" THEN "disabled" ELSE @]
    <3>1. PICK state \in Task : state = IF old[s] = "enabled" THEN "disabled" ELSE old[s]
      BY <2>1 DEF Task
    <3>2. old' = [old EXCEPT ![s] = state]
      BY <2>1, <2>2, <3>1
    <3> QED
      BY <1>1, <2>2, <3>1, <3>2
  <2>3. CASE Go(p, "committed") /\ old' = [old EXCEPT ![s] = Nil]
    BY <1>1, <2>3 DEF Task
  <2> QED
    BY <1>2, <2>2, <2>3 DEF CommitOld
<1>4. UNCHANGED <<source, target, task, journal, holder, ghosts, first, edited>>
  BY DEF CommitOld, ghosts
<1>5. StoresOK' /\ Elsewhere(s) /\ old'[s] = state
  BY <1>2, <1>3, <1>4 DEF ImportInv, Target, StoresOK, Elsewhere
<1>6. op'[p].step = st
  BY <1>3, GoFacts
<1>7. ASSUME s \notin edited PROVE Coherent(s)' /\ RecoveryAt(p, s)'
  <2>1. Coherent(s) /\ RecoveryAt(p, s) /\ ~Refused(s) /\ source[s].migrated /\ target[s] # Nil
    BY <1>1, <1>2, <1>7, AtWork DEF RecoveryAt
  <2>2. OldTask(s) \in {Nil, "enabled", "disabled"}
    BY <2>1, StoresAt DEF ImportInv, Refused, OldTask, Task
  <2>3. state = Nil \/ Stopped(s)'
    BY <1>3, <1>4, <1>5, <2>1, <2>2, NilIsNoState DEF Coherent, Stopped, OldTask
  <2>4. Named(s)' \/ TakenOver(s)'
    BY <1>3, <1>4, <1>5, <2>1, NilIsNoState DEF Coherent, Untouched, Damaged, TakenOver, Named
  <2>5. state # "enabled"
    BY <1>3, NilIsNoState
  <2>6. Coherent(s)'
    BY <1>4, <1>5, <2>1, <2>3, <2>4, <2>5
       DEF Coherent, Refused, OldTask, WasEnabled, Arrived, Named
  <2>7. RecoveryAt(p, s)'
    BY <1>3, <1>4, <1>5, <1>6, <2>1 DEF RecoveryAt
  <2> QED
    BY <2>6, <2>7
<1> QED
  BY <1>1, <1>2, <1>3, <1>4, <1>5, <1>7, RecoveryGoesOn

LEMMA CommittedKeeps ==
  ASSUME ImportInv, NEW p \in Proc, Committed(p)
  PROVE  ImportInv'
<1>1. op[p].step = "committed" /\ op[p].step \in Recovering
  BY DEF Committed, AtStep, Recovering
<1>2. PICK s \in Schedule : s = op[p].schedule
  BY <1>1, AtWork
<1>3. /\ source' = [source EXCEPT ![s].cleanup = IF @ = Nil THEN Nil ELSE "COMPLETED"]
      /\ UNCHANGED <<old, target, task, ghosts, first, edited>> /\ journal' \in {journal, Nil} /\ End(p)
  BY <1>2 DEF Committed, ghosts
<1>4. /\ source'[s] \in Registration /\ source'[s].enabled = source[s].enabled
      /\ source'[s].migrated = source[s].migrated /\ source'[s].whole = source[s].whole
  BY <1>2, <1>3, SMTT(30) DEF ImportInv, Target, StoresOK, Registration
<1>5. StoresOK' /\ Elsewhere(s)
  BY <1>2, <1>3, <1>4 DEF ImportInv, Target, StoresOK, Elsewhere
<1>6. JournalOf(s)
  BY <1>1, <1>2, <1>3, AtWork DEF JournalOf
<1>7. ASSUME s \notin edited PROVE Coherent(s)'
  <2>1. Coherent(s) /\ ~Refused(s) /\ source[s].migrated /\ target[s] # Nil /\ old[s] = Nil
    BY <1>1, <1>2, <1>7, AtWork DEF RecoveryAt
  <2>2. TakenOver(s) /\ (Named(s)' => Named(s) /\ journal' = journal)
    BY <1>3, <2>1, StoresAt, NilIsNoState DEF ImportInv, Coherent, Arrived, WasEnabled, TakenOver, Named
  <2> QED
    BY <1>3, <1>4, <2>1, <2>2, NilIsNoState
       DEF Coherent, Untouched, Damaged, TakenOver, Refused, OldTask, WasEnabled, Arrived, Stopped, Named
<1> QED
  BY <1>1, <1>2, <1>3, <1>5, <1>6, <1>7, EndKeeps

LEMMA RollBackKeeps ==
  ASSUME ImportInv, NEW p \in Proc, RollBack(p)
  PROVE  ImportInv'
<1>1. op[p].step = "roll back" /\ op[p].step \in Recovering /\ "roll back old" \in Recovering
  BY DEF RollBack, AtStep, Recovering
<1>2. PICK s \in Schedule : s = op[p].schedule
  BY <1>1, AtWork
<1>3. UNCHANGED <<source, old, journal, ghosts, first, edited>>
  BY DEF RollBack, ghosts
<1>4. ASSUME s \notin edited
      PROVE  Coherent(s) /\ RecoveryAt(p, s) /\ ~Refused(s) /\ ~(source[s].migrated /\ target[s] # Nil)
  BY <1>1, <1>2, <1>4, AtWork DEF RecoveryAt
<1>5. CASE End(p) /\ UNCHANGED <<target, task>>
  <2>1. StoresOK' /\ Elsewhere(s)
    BY <1>3, <1>5 DEF ImportInv, Target, StoresOK, Elsewhere
  <2>2. ASSUME s \notin edited PROVE Coherent(s)'
    BY <1>3, <1>4, <1>5, <2>2
       DEF Coherent, Untouched, Damaged, TakenOver, Refused, OldTask, WasEnabled, Arrived, Stopped, Named
  <2> QED
    BY <1>1, <1>2, <1>3, <1>5, <2>1, <2>2, EndKeeps DEF JournalOf
<1>6. CASE /\ target' = [target EXCEPT ![s] = Nil] /\ task' = [task EXCEPT ![s] = FALSE]
           /\ Go(p, "roll back old") /\ UNCHANGED holder
  <2>1. StoresOK' /\ Elsewhere(s) /\ target'[s] = Nil /\ ~task'[s]
    BY <1>2, <1>3, <1>6 DEF ImportInv, Target, StoresOK, Elsewhere
  <2>2. ASSUME s \notin edited PROVE Coherent(s)'
    BY <1>3, <1>4, <2>1, <2>2, StoresAt, NilIsNoState
       DEF ImportInv, Coherent, Untouched, Damaged, TakenOver, Refused, OldTask, WasEnabled, Arrived, Stopped, Named
  <2>3. op'[p].step = "roll back old" /\ UNCHANGED <<journal, holder, ghosts>>
    BY <1>1, <1>3, <1>6, GoFacts
  <2>4. RecoveryAt(p, s)'
    BY <2>1, <2>3 DEF RecoveryAt
  <2> QED
    BY <1>1, <1>2, <1>6, <2>1, <2>2, <2>3, <2>4, RecoveryGoesOn
<1> QED
  BY <1>2, <1>5, <1>6 DEF RollBack

LEMMA RollBackOldKeeps ==
  ASSUME ImportInv, NEW p \in Proc, RollBackOld(p)
  PROVE  ImportInv'
<1>1. op[p].step = "roll back old" /\ op[p].step \in Recovering /\ "roll back source" \in Recovering
  BY DEF RollBackOld, AtStep, Recovering
<1>2. PICK s \in Schedule : s = op[p].schedule
  BY <1>1, AtWork
<1>3. PICK state \in Task : state = IF old[s] = Nil THEN Nil ELSE IF op[p].enabled THEN "enabled" ELSE "disabled"
  BY DEF Task
<1>4. old' = [old EXCEPT ![s] = state]
  BY <1>2, <1>3 DEF RollBackOld, ImportInv, StoresOK
<1>5. UNCHANGED <<source, target, task, journal, holder, ghosts, first, edited>> /\ Go(p, "roll back source")
  BY DEF RollBackOld, ghosts
<1>6. StoresOK' /\ Elsewhere(s) /\ old'[s] = state
  BY <1>2, <1>4, <1>5 DEF ImportInv, Target, StoresOK, Elsewhere
<1>7. op'[p].step = "roll back source"
  BY <1>1, <1>5, GoFacts
<1>8. ASSUME s \notin edited PROVE Coherent(s)' /\ RecoveryAt(p, s)'
  <2>1. Coherent(s) /\ ~Refused(s) /\ target[s] = Nil /\ (op[p].enabled <=> OldTask(s) = "enabled")
    BY <1>1, <1>2, <1>8, AtWork DEF RecoveryAt
  <2>2. old[s] = OldTask(s) \/ Stopped(s)
    BY <2>1 DEF Coherent
  <2>3. OldTask(s) \in {Nil, "enabled", "disabled"}
    BY <2>1, StoresAt DEF ImportInv, Refused, OldTask, Task
  <2>4. state = OldTask(s)
    BY <1>3, <2>1, <2>2, <2>3, NilIsNoState DEF Stopped
  <2>5. Coherent(s)'
    BY <1>5, <1>6, <2>1, <2>4, StoresAt, NilIsNoState
       DEF ImportInv, Coherent, Untouched, Damaged, TakenOver, Refused, OldTask, WasEnabled, Arrived, Stopped, Named
  <2>6. RecoveryAt(p, s)'
    BY <1>5, <1>6, <1>7, <2>1, <2>4 DEF RecoveryAt, OldTask
  <2> QED
    BY <2>5, <2>6
<1>9. UNCHANGED <<journal, holder, ghosts>>
  BY <1>5
<1> QED
  BY <1>1, <1>2, <1>5, <1>6, <1>8, <1>9, RecoveryGoesOn

LEMMA RollBackSourceKeeps ==
  ASSUME ImportInv, NEW p \in Proc, RollBackSource(p)
  PROVE  ImportInv'
<1>1. op[p].step = "roll back source" /\ op[p].step \in Recovering
  BY DEF RollBackSource, AtStep, Recovering
<1>2. PICK s \in Schedule : s = op[p].schedule
  BY <1>1, AtWork
<1>3. /\ source' = IF source[s].migrated
                   THEN [source EXCEPT ![s] =
                           [@ EXCEPT !.enabled = first[s][1], !.migrated = FALSE, !.cleanup = Nil]]
                   ELSE source
      /\ UNCHANGED <<old, target, task, ghosts, first, edited>> /\ journal' \in {journal, Nil} /\ End(p)
  BY <1>2 DEF RollBackSource, ghosts
<1>4. source \in [Schedule -> Registration] /\ source[s] \in Registration /\ first[s][1] \in BOOLEAN
  BY StoresAt DEF ImportInv, Target, StoresOK
<1>5. /\ source'[s] \in Registration /\ source'[s].whole = source[s].whole /\ ~source'[s].migrated
      /\ source[s].migrated => (source'[s].enabled <=> first[s][1])
      /\ ~source[s].migrated => source'[s] = source[s]
  <2>1. CASE source[s].migrated
    <3>1. source'[s] = [source[s] EXCEPT !.enabled = first[s][1], !.migrated = FALSE, !.cleanup = Nil]
      BY <1>2, <1>3, <1>4, <2>1
    <3> QED
      BY <1>4, <2>1, <3>1 DEF Registration
  <2>2. CASE ~source[s].migrated
    BY <1>3, <1>4, <2>2
  <2> QED
    BY <2>1, <2>2
<1>6. StoresOK' /\ Elsewhere(s)
  BY <1>2, <1>3, <1>4, <1>5 DEF ImportInv, Target, StoresOK, Elsewhere
<1>7. JournalOf(s)
  BY <1>1, <1>2, <1>3, AtWork DEF JournalOf
<1>8. ASSUME s \notin edited PROVE Coherent(s)'
  <2>1. Coherent(s) /\ ~Refused(s) /\ target[s] = Nil /\ old[s] = OldTask(s)
    BY <1>1, <1>2, <1>8, AtWork DEF RecoveryAt
  <2>2. (Named(s)' => Named(s) /\ journal' = journal) /\ (source'[s].enabled <=> first[s][1])
    BY <1>3, <1>5, <2>1 DEF Named, Coherent, WasEnabled
  <2>3. source'[s].enabled = first[s][1]
    BY <1>4, <1>5, <2>2 DEF Registration
  <2> QED
    BY <1>3, <1>5, <2>1, <2>2, <2>3, NilIsNoState
       DEF Coherent, Untouched, Damaged, TakenOver, Refused, OldTask, WasEnabled, Arrived, Stopped, Named
<1> QED
  BY <1>1, <1>2, <1>3, <1>6, <1>7, <1>8, EndKeeps

-----------------------------------------------------------------------------
(* The steps beside the transaction *)

LEMMA AtRest ==
  {"off", "idle", "gone", "wait"} \cap (Importing \cup Recovering) = {}
BY DEF Importing, Recovering

LEMMA CoherentStays ==
  ASSUME NEW s \in Schedule, Coherent(s), UNCHANGED <<source, old, target, task, journal, first>>
  PROVE  Coherent(s)'
BY DEF Coherent, Untouched, Damaged, TakenOver, Refused, OldTask, WasEnabled, Arrived, Stopped, Named

LEMMA WorkStays ==
  ASSUME NEW p \in Proc, NEW s \in Schedule, op'[p] = op[p],
         UNCHANGED <<source, old, target, task, journal, first>>
  PROVE  ImportAt(p, s)' = ImportAt(p, s) /\ RecoveryAt(p, s)' = RecoveryAt(p, s)
BY DEF ImportAt, RecoveryAt, Untouched, Damaged, TakenOver, Restored, OldTask, WasEnabled, Arrived, Stopped, Named

LEMMA FirstStays ==
  ASSUME first' = first
  PROVE  \A s \in Schedule : Refused(s)' = Refused(s) /\ OldTask(s)' = OldTask(s)
BY DEF Refused, OldTask

\* A process that is not at work starts, waits for the transaction or stops waiting.
LEMMA RestingStep ==
  ASSUME ImportInv, NEW p \in Proc, op[p].step \notin Importing \cup Recovering,
         NEW o \in Doing, op' = [op EXCEPT ![p] = o], o.step \in {"off", "idle", "gone", "wait"},
         o.step = "wait" =>
           /\ o.schedule \in Schedule
           /\ o.schedule \notin edited =>
                ~Refused(o.schedule) /\ (o.enabled <=> OldTask(o.schedule) = "enabled"),
         UNCHANGED <<source, old, target, task, journal, holder, first, edited>>
  PROVE  ImportInv'
<1>1. op'[p] = o /\ \A q \in Proc \ {p} : op'[q] = op[q]
  BY DEF ImportInv, WorkersOK
<1>2. o.step \notin Importing \cup Recovering /\ holder # p
  BY AtRest DEF ImportInv, WorkersOK
<1>3. StoresOK'
  BY DEF ImportInv, Target, StoresOK
<1>4. WorkersOK'
  <2>1. holder' \in Proc \cup {Nil} /\ op' \in [Proc -> Doing]
    BY DEF ImportInv, WorkersOK
  <2> SUFFICES ASSUME NEW q \in Proc
               PROVE  /\ op'[q].step \in Importing \cup Recovering <=> holder' = q
                      /\ op'[q].step \in Importing => q \in Window
                      /\ op'[q].step \in Importing \cup Recovering \cup {"wait"} => op'[q].schedule \in Schedule
    BY <2>1 DEF WorkersOK
  <2>2. CASE q = p
    BY <1>1, <1>2, <2>2
  <2>3. CASE q # p
    BY <1>1, <2>3 DEF ImportInv, WorkersOK
  <2> QED
    BY <2>2, <2>3
<1>5. WorkOK'
  <2> SUFFICES ASSUME NEW q \in Proc
      PROVE /\ op'[q].step \in Importing \cup Recovering => journal' = Nil \/ journal'.schedule = op'[q].schedule
            /\ op'[q].schedule \in Schedule \ edited =>
               /\ op'[q].step \in Importing => ImportAt(q, op[q].schedule)'
               /\ op'[q].step \in Recovering => RecoveryAt(q, op[q].schedule)'
               /\ op'[q].step \in Recovering \cup {"wait"} =>
                    /\ ~Refused(op[q].schedule)'
                    /\ (op'[q].enabled <=> OldTask(op[q].schedule)' = "enabled")
    BY DEF WorkOK
  <2>1. CASE q = p
    BY <1>1, <1>2, <2>1, FirstStays
  <2>2. CASE q # p
    <3>1. op'[q] = op[q]
      BY <1>1, <2>2
    <3>2. ASSUME op[q].schedule \in Schedule \ edited
          PROVE  /\ ImportAt(q, op[q].schedule)' = ImportAt(q, op[q].schedule)
                 /\ RecoveryAt(q, op[q].schedule)' = RecoveryAt(q, op[q].schedule)
                 /\ Refused(op[q].schedule)' = Refused(op[q].schedule)
                 /\ OldTask(op[q].schedule)' = OldTask(op[q].schedule)
      <4>1. PICK s \in Schedule : s = op[q].schedule
        BY <3>2
      <4> QED
        BY <3>1, <4>1, WorkStays, FirstStays
    <3> QED
      BY <3>1, <3>2 DEF ImportInv, WorkOK
  <2> QED
    BY <2>1, <2>2
<1>6. \A t \in Schedule \ edited : Coherent(t)'
  BY CoherentStays DEF ImportInv
<1> QED
  BY <1>3, <1>4, <1>5, <1>6 DEF ImportInv

\* Runs start and end, and steps that change nothing.
LEMMA NothingChanges ==
  ASSUME ImportInv, UNCHANGED <<source, old, target, task, journal, holder, op, first, edited>>
  PROVE  ImportInv'
<1>1. StoresOK' /\ WorkersOK'
  BY DEF ImportInv, Target, StoresOK, WorkersOK
<1>2. WorkOK'
  <2> SUFFICES ASSUME NEW q \in Proc
      PROVE /\ op'[q].step \in Importing \cup Recovering => journal' = Nil \/ journal'.schedule = op'[q].schedule
            /\ op'[q].schedule \in Schedule \ edited =>
               /\ op'[q].step \in Importing => ImportAt(q, op[q].schedule)'
               /\ op'[q].step \in Recovering => RecoveryAt(q, op[q].schedule)'
               /\ op'[q].step \in Recovering \cup {"wait"} =>
                    /\ ~Refused(op[q].schedule)'
                    /\ (op'[q].enabled <=> OldTask(op[q].schedule)' = "enabled")
    BY DEF WorkOK
  <2>1. ASSUME op[q].schedule \in Schedule \ edited
        PROVE  /\ ImportAt(q, op[q].schedule)' = ImportAt(q, op[q].schedule)
               /\ RecoveryAt(q, op[q].schedule)' = RecoveryAt(q, op[q].schedule)
               /\ Refused(op[q].schedule)' = Refused(op[q].schedule)
               /\ OldTask(op[q].schedule)' = OldTask(op[q].schedule)
    <3>1. PICK s \in Schedule : s = op[q].schedule
      BY <2>1
    <3> QED
      BY <3>1, WorkStays, FirstStays
  <2> QED
    BY <2>1 DEF ImportInv, WorkOK
<1>3. \A t \in Schedule \ edited : Coherent(t)'
  BY CoherentStays DEF ImportInv
<1> QED
  BY <1>1, <1>2, <1>3 DEF ImportInv

LEMMA OpenKeeps ==
  ASSUME ImportInv, NEW p \in Proc, Open(p)
  PROVE  ImportInv'
<1>1. op[p].step \notin Importing \cup Recovering
  BY AtRest DEF Open, AtStep
<1>2. UNCHANGED <<source, old, target, task, journal, holder, first, edited>>
  BY DEF Open, stores, ghosts
<1>3. CASE op' = [op EXCEPT ![p] = Rest(p)]
  <2>1. PICK o \in Doing : o = Rest(p) /\ o.step \in {"idle", "gone"}
    BY RestOK
  <2> QED
    BY <1>1, <1>2, <1>3, <2>1, RestingStep
<1>4. CASE journal # Nil /\ op' = [op EXCEPT ![p] =
             [Resting EXCEPT !.step = "wait", !.schedule = journal.schedule, !.enabled = journal.oldEnabled]]
  <2>1. journal \in [schedule : Schedule, oldEnabled : BOOLEAN]
    BY <1>4 DEF ImportInv, Target, StoresOK
  <2>2. [Resting EXCEPT !.step = "wait", !.schedule = journal.schedule, !.enabled = journal.oldEnabled] \in Doing
    BY <2>1 DEF Resting, Doing, Task
  <2>3. PICK o \in Doing : o = [Resting EXCEPT !.step = "wait", !.schedule = journal.schedule,
                                               !.enabled = journal.oldEnabled]
    BY <2>2
  <2>4. o.step = "wait" /\ o.schedule = journal.schedule /\ o.enabled = journal.oldEnabled
    BY <2>3 DEF Resting
  <2>5. o.schedule \in Schedule
    BY <2>1, <2>4
  <2>6. ASSUME o.schedule \notin edited
        PROVE  ~Refused(o.schedule) /\ (o.enabled <=> OldTask(o.schedule) = "enabled")
    <3>1. PICK s \in Schedule : s = o.schedule
      BY <2>5
    <3>2. Coherent(s) /\ Named(s)
      BY <1>4, <2>4, <2>6, <3>1 DEF ImportInv, Named
    <3> QED
      BY <2>4, <3>1, <3>2 DEF Coherent
  <2> QED
    BY <1>1, <1>2, <1>4, <2>3, <2>4, <2>5, <2>6, RestingStep
<1> QED
  BY <1>3, <1>4 DEF Open

LEMMA GiveUpWaitingKeeps ==
  ASSUME ImportInv, NEW p \in Proc, GiveUpWaiting(p)
  PROVE  ImportInv'
<1>1. op[p].step \notin Importing \cup Recovering
  BY AtRest DEF GiveUpWaiting, AtStep
<1>2. PICK o \in Doing : o = Rest(p) /\ o.step \in {"idle", "gone"}
  BY RestOK
<1>3. UNCHANGED <<source, old, target, task, journal, holder, first, edited>> /\ op' = [op EXCEPT ![p] = o]
  BY <1>2 DEF GiveUpWaiting, stores, ghosts
<1> QED
  BY <1>1, <1>2, <1>3, RestingStep

LEMMA CloseKeeps ==
  ASSUME ImportInv, NEW w \in Window, Close(w)
  PROVE  ImportInv'
<1>1. w \in Proc /\ op[w].step \notin Importing \cup Recovering
  BY AtRest DEF Close, AtStep, Proc
<1>2. PICK o \in Doing : o = Off /\ o.step = "off"
  BY <1>1, RestOK
<1>3. UNCHANGED <<source, old, target, task, journal, holder, first, edited>> /\ op' = [op EXCEPT ![w] = o]
  BY <1>2 DEF Close, stores, ghosts
<1> QED
  BY <1>1, <1>2, <1>3, RestingStep

LEMMA CrashKeeps ==
  ASSUME ImportInv, NEW p \in Proc, Crash(p)
  PROVE  ImportInv'
<1>1. PICK o \in Doing : op' = [op EXCEPT ![p] = o] /\ o.step \in {"off", "gone"}
  BY RestOK DEF Crash
<1>2. /\ UNCHANGED <<source, old, target, task, journal, first, edited>>
      /\ holder' = IF holder = p THEN Nil ELSE holder
  BY DEF Crash, stores, ghosts
<1>3. CASE op[p].step \in Importing \cup Recovering
  <2>1. PICK s \in Schedule : s = op[p].schedule
    BY <1>3, AtWork
  <2>2. holder' = Nil
    BY <1>2, <1>3, AtWork
  <2>3. StoresOK' /\ Elsewhere(s) /\ JournalOf(s)
    BY <1>2 DEF ImportInv, Target, StoresOK, Elsewhere, JournalOf
  <2>4. s \notin edited => Coherent(s)'
    BY <1>2, CoherentStays DEF ImportInv
  <2>5. o.step \notin Importing \cup Recovering
    BY <1>1, AtRest
  <2> QED
    BY <1>1, <1>2, <1>3, <2>1, <2>2, <2>3, <2>4, <2>5, WorkerStep
<1>4. CASE op[p].step \notin Importing \cup Recovering
  <2>1. holder' = holder
    BY <1>2, <1>4 DEF ImportInv, WorkersOK
  <2> QED
    BY <1>1, <1>2, <1>4, <2>1, RestingStep
<1> QED
  BY <1>3, <1>4

\* What an idle transaction says of those who are not at work.
LEMMA NobodyAtWork ==
  ASSUME ImportInv, holder = Nil
  PROVE  \A q \in Proc : op[q].step \notin Importing \cup Recovering
BY NilIsNoState DEF ImportInv, WorkersOK

\* A recovery gets the transaction.  That the journal is still the one that it has
\* read is OneJournal.
LEMMA EnterKeeps ==
  ASSUME ImportInv, OneJournal, NEW p \in Proc, Enter(p)
  PROVE  ImportInv'
<1>1. op[p].step = "wait" /\ holder = Nil /\ holder' = p
  BY DEF Enter, AtStep
<1>2. PICK s \in Schedule : s = op[p].schedule
  BY <1>1 DEF ImportInv, WorkersOK
<1>3. PICK st \in {"commit", "roll back"} :
        Go(p, st) /\ st = IF source[s].migrated /\ target[s] # Nil THEN "commit" ELSE "roll back"
  BY <1>2 DEF Enter
<1>4. st \in Recovering /\ st \notin Importing
  BY DEF Recovering, Importing
<1>5. UNCHANGED <<source, old, target, task, journal, first, edited>>
  BY DEF Enter, stores, ghosts
<1>6. PICK o \in Doing : o = op'[p]
  BY <1>3, <1>4, GoFacts
<1>7. /\ op' = [op EXCEPT ![p] = o] /\ o.step = st /\ o.schedule = s /\ o.enabled = op[p].enabled
  BY <1>2, <1>3, <1>4, <1>6, GoFacts
<1>8. op'[p] = o /\ \A q \in Proc \ {p} : op'[q] = op[q] /\ op'[q].step \notin Importing \cup Recovering
  BY <1>1, <1>7, NobodyAtWork DEF ImportInv, WorkersOK
<1>9. StoresOK' /\ \A t \in Schedule \ edited : Coherent(t)'
  BY <1>5, CoherentStays DEF ImportInv, Target, StoresOK
<1>10. WorkersOK'
  <2>1. holder' \in Proc \cup {Nil} /\ op' \in [Proc -> Doing]
    BY <1>1, <1>7 DEF ImportInv, WorkersOK
  <2> SUFFICES ASSUME NEW q \in Proc
               PROVE  /\ op'[q].step \in Importing \cup Recovering <=> holder' = q
                      /\ op'[q].step \in Importing => q \in Window
                      /\ op'[q].step \in Importing \cup Recovering \cup {"wait"} => op'[q].schedule \in Schedule
    BY <2>1 DEF WorkersOK
  <2>2. CASE q = p
    BY <1>1, <1>4, <1>7, <1>8, <2>2
  <2>3. CASE q # p
    BY <1>1, <1>8, <2>3 DEF ImportInv, WorkersOK
  <2> QED
    BY <2>2, <2>3
<1>11. ASSUME s \notin edited
       PROVE  RecoveryAt(p, s)' /\ ~Refused(s) /\ (o.enabled <=> OldTask(s) = "enabled")
  <2>1. ~Refused(s) /\ (op[p].enabled <=> OldTask(s) = "enabled")
    BY <1>1, <1>2, <1>11 DEF ImportInv, WorkOK
  <2>2. RecoveryAt(p, s)'
    BY <1>3, <1>5, <1>7, <1>8 DEF RecoveryAt
  <2> QED
    BY <1>7, <2>1, <2>2
<1>12. journal = Nil \/ journal.schedule = s
  BY <1>1, <1>2 DEF OneJournal
<1>13. WorkOK'
  <2> SUFFICES ASSUME NEW q \in Proc
      PROVE /\ op'[q].step \in Importing \cup Recovering => journal' = Nil \/ journal'.schedule = op'[q].schedule
            /\ op'[q].schedule \in Schedule \ edited =>
               /\ op'[q].step \in Importing => ImportAt(q, op[q].schedule)'
               /\ op'[q].step \in Recovering => RecoveryAt(q, op[q].schedule)'
               /\ op'[q].step \in Recovering \cup {"wait"} =>
                    /\ ~Refused(op[q].schedule)'
                    /\ (op'[q].enabled <=> OldTask(op[q].schedule)' = "enabled")
    BY <1>5 DEF WorkOK
  <2>1. CASE q = p
    <3>1. op'[p] = o /\ o.step \notin Importing /\ o.schedule = s /\ op[p].schedule = s
      BY <1>2, <1>4, <1>7, <1>8
    <3>2. journal' = Nil \/ journal'.schedule = s
      BY <1>5, <1>12
    <3>3. s \notin edited => ~Refused(s)' /\ (o.enabled <=> OldTask(s)' = "enabled") /\ RecoveryAt(p, s)'
      BY <1>5, <1>11, FirstStays
    <3> QED
      BY <2>1, <3>1, <3>2, <3>3
  <2>2. CASE q # p
    <3>1. op'[q] = op[q] /\ op[q].step \notin Importing \cup Recovering
      BY <1>8, <2>2
    <3>2. op[q].schedule \in Schedule \ edited /\ op[q].step = "wait" =>
            ~Refused(op[q].schedule) /\ (op[q].enabled <=> OldTask(op[q].schedule) = "enabled")
      BY DEF ImportInv, WorkOK
    <3>3. op[q].schedule \in Schedule =>
            Refused(op[q].schedule)' = Refused(op[q].schedule) /\ OldTask(op[q].schedule)' = OldTask(op[q].schedule)
      <4> SUFFICES ASSUME op[q].schedule \in Schedule
                   PROVE  /\ Refused(op[q].schedule)' = Refused(op[q].schedule)
                          /\ OldTask(op[q].schedule)' = OldTask(op[q].schedule)
        OBVIOUS
      <4>1. PICK t \in Schedule : t = op[q].schedule
        OBVIOUS
      <4> QED
        BY <1>5, <3>1, <4>1, FirstStays
    <3> QED
      BY <3>1, <3>2, <3>3
  <2> QED
    BY <2>1, <2>2
<1> QED
  BY <1>5, <1>9, <1>10, <1>13 DEF ImportInv

\* The inspection has found the schedule whole, and in the old place only.
LEMMA BeginKeeps ==
  ASSUME ImportInv, NEW w \in Window, NEW s \in Schedule, Begin(w, s)
  PROVE  ImportInv'
<1> DEFINE new == [Resting EXCEPT !.step = "create", !.schedule = s, !.old = old[s],
                                  !.wasEnabled = source[s].enabled]
<1>1. /\ w \in Proc /\ holder = Nil /\ journal = Nil /\ holder' = w
      /\ journal' = [schedule |-> s, oldEnabled |-> old[s] = "enabled"] /\ op' = [op EXCEPT ![w] = new]
  BY DEF Begin, Marked, Proc
<1>2. new \in Doing
  BY StoresAt DEF ImportInv, Resting, Doing, Importing
<1>3. PICK o \in Doing : o = new
  BY <1>2
<1>4. /\ o.step = "create" /\ o.schedule = s /\ o.old = old[s] /\ o.wasEnabled = source[s].enabled
      /\ ~o.marked /\ ~o.pending /\ ~o.imported /\ ~o.errors
  BY <1>3 DEF Resting
<1> HIDE DEF new
<1>5. UNCHANGED <<source, old, target, task, first, edited>> /\ journal' # Nil /\ journal'.schedule = s
      /\ (journal'.oldEnabled <=> old[s] = "enabled")
  <2>1. journal' \in [schedule : Schedule, oldEnabled : BOOLEAN]
    BY <1>1
  <2>2. journal'.schedule = s /\ (journal'.oldEnabled <=> old[s] = "enabled")
    BY <1>1
  <2>3. journal' # Nil
    BY <2>1, ImportAssumption
  <2> QED
    BY <2>2, <2>3 DEF Begin, stores, ghosts
<1>6. op'[w] = o /\ \A q \in Proc \ {w} : op'[q] = op[q] /\ op'[q].step \notin Importing \cup Recovering
  BY <1>1, <1>3, NobodyAtWork DEF ImportInv, WorkersOK
<1>7. o.step \in Importing /\ o.step \notin Recovering
  BY <1>4 DEF Importing, Recovering
<1>8. StoresOK'
  BY <1>1, <1>5 DEF ImportInv, Target, StoresOK
<1>9. WorkersOK'
  <2>1. holder' \in Proc \cup {Nil} /\ op' \in [Proc -> Doing]
    BY <1>1, <1>3 DEF ImportInv, WorkersOK
  <2> SUFFICES ASSUME NEW q \in Proc
               PROVE  /\ op'[q].step \in Importing \cup Recovering <=> holder' = q
                      /\ op'[q].step \in Importing => q \in Window
                      /\ op'[q].step \in Importing \cup Recovering \cup {"wait"} => op'[q].schedule \in Schedule
    BY <2>1 DEF WorkersOK
  <2>2. CASE q = w
    BY <1>1, <1>4, <1>6, <1>7, <2>2
  <2>3. CASE q # w
    BY <1>1, <1>6, <2>3 DEF ImportInv, WorkersOK
  <2> QED
    BY <2>2, <2>3
<1>10. ASSUME s \notin edited
       PROVE  /\ Untouched(s) /\ ~Refused(s) /\ Coherent(s)
              /\ source[s].enabled = WasEnabled(s) /\ old[s] = OldTask(s)
  <2>1. Coherent(s) /\ ~source[s].migrated /\ source[s].whole /\ old[s] # "foreign"
    BY <1>10 DEF ImportInv, Begin, Importable, TaskMatches
  <2>2. Untouched(s)
    BY <1>1, <2>1, NilIsNoState DEF Coherent, TakenOver, Damaged, Named, Begin, Importable
  <2> QED
    BY <2>1, <2>2 DEF Coherent, Untouched, Refused, WasEnabled, OldTask
<1>11. ASSUME s \notin edited PROVE Coherent(s)' /\ ImportAt(w, s)'
  <2>1. Coherent(s)'
    BY <1>5, <1>10, <1>11 DEF Coherent, Untouched, Damaged, TakenOver, Refused, OldTask, WasEnabled, Arrived, Stopped, Named
  <2>2. Untouched(s)' /\ Named(s)' /\ target'[s] = Nil
    BY <1>5, <1>10, <1>11 DEF Untouched, Named
  <2>3. /\ op'[w].step = "create" /\ op'[w].old = OldTask(s)' /\ (op'[w].wasEnabled <=> WasEnabled(s)')
        /\ ~op'[w].marked /\ ~op'[w].pending /\ ~op'[w].errors /\ ~source'[s].migrated
    BY <1>4, <1>5, <1>6, <1>10, <1>11 DEF OldTask, WasEnabled, Untouched
  <2>4. ImportAt(w, s)'
    BY <2>2, <2>3, NilIsNoState DEF ImportAt
  <2> QED
    BY <2>1, <2>4
<1>12. ASSUME NEW t \in Schedule \ edited PROVE Coherent(t)'
  <2>1. CASE t = s
    BY <1>11, <2>1
  <2>2. CASE t # s
    BY <1>1, <1>5, <2>2 DEF ImportInv, Coherent, Untouched, Damaged, TakenOver, Refused, OldTask, WasEnabled, Arrived, Stopped, Named
  <2> QED
    BY <2>1, <2>2
<1>13. WorkOK'
  <2> SUFFICES ASSUME NEW q \in Proc
      PROVE /\ op'[q].step \in Importing \cup Recovering => journal' = Nil \/ journal'.schedule = op'[q].schedule
            /\ op'[q].schedule \in Schedule \ edited =>
               /\ op'[q].step \in Importing => ImportAt(q, op[q].schedule)'
               /\ op'[q].step \in Recovering => RecoveryAt(q, op[q].schedule)'
               /\ op'[q].step \in Recovering \cup {"wait"} =>
                    /\ ~Refused(op[q].schedule)'
                    /\ (op'[q].enabled <=> OldTask(op[q].schedule)' = "enabled")
    BY <1>5 DEF WorkOK
  <2>1. CASE q = w
    <3>1. op'[w].step \notin Recovering \cup {"wait"}
      BY <1>4, <1>6, <1>7
    <3>2. op'[w].schedule = s
      BY <1>4, <1>6
    <3> QED
      BY <1>5, <1>11, <2>1, <3>1, <3>2
  <2>2. CASE q # w
    BY <1>5, <1>6, <2>2, FirstStays DEF ImportInv, WorkOK
  <2> QED
    BY <2>1, <2>2
<1> QED
  BY <1>5, <1>8, <1>9, <1>12, <1>13 DEF ImportInv

\* What a user changes is nobody's work; the schedule is the user's from then on.
LEMMA EditKeeps ==
  ASSUME ImportInv, NEW w \in Window, Edit(w)
  PROVE  ImportInv'
<1>1. PICK s \in Schedule \ edited : (Delete(s) \/ Switch(s) \/ RemoveExternal(s)) /\ edited' = edited \cup {s}
  BY DEF Edit
<1>2. UNCHANGED <<journal, holder, op, first>>
  BY DEF Edit
<1>3. StoresOK' /\ Elsewhere(s)
  BY <1>1, <1>2 DEF ImportInv, Target, StoresOK, Elsewhere, Delete, Switch, RemoveExternal, Task
<1>4. WorkersOK'
  BY <1>2 DEF ImportInv, WorkersOK
<1>5. WorkOK'
  <2> SUFFICES ASSUME NEW q \in Proc, NEW t, t = op[q].schedule
      PROVE /\ op[q].step \in Importing \cup Recovering => journal = Nil \/ journal.schedule = t
            /\ t \in Schedule \ edited' =>
               /\ op[q].step \in Importing => ImportAt(q, t)'
               /\ op[q].step \in Recovering => RecoveryAt(q, t)'
               /\ op[q].step \in Recovering \cup {"wait"} =>
                    ~Refused(t)' /\ (op[q].enabled <=> OldTask(t)' = "enabled")
    BY <1>2 DEF WorkOK
  <2>1. t \in Schedule \ edited' => t \in Schedule \ edited /\ t # s
    BY <1>1
  <2>2. ASSUME t \in Schedule, t # s
        PROVE  ImportAt(q, t)' = ImportAt(q, t) /\ RecoveryAt(q, t)' = RecoveryAt(q, t)
    <3>1. source'[t] = source[t] /\ old'[t] = old[t] /\ target'[t] = target[t] /\ task'[t] = task[t]
      BY <1>3, <2>2 DEF Elsewhere
    <3> QED
      BY <1>2, <3>1 DEF ImportAt, RecoveryAt, Named, OldTask, WasEnabled, Untouched, Damaged, Restored,
                        Stopped, Arrived, TakenOver
  <2> QED
    BY <1>2, <2>1, <2>2, FirstStays DEF ImportInv, WorkOK
<1>6. \A t \in Schedule \ edited' : Coherent(t)'
  BY <1>1, <1>2, <1>3, OthersCoherent DEF ImportInv, JournalOf
<1> QED
  BY <1>3, <1>4, <1>5, <1>6 DEF ImportInv

-----------------------------------------------------------------------------
(* Any number of schedules: whichever journal a recovery works on *)

\* Only one of the two tasks is enabled, and what the inspection refuses is left alone.
Apart(s) ==
  /\ source[s].whole = first[s][3]
  /\ task[s] <=> target[s] = "enabled"
  /\ target[s] = "enabled" => old[s] # "enabled"
  /\ Refused(s) => Untouched(s)

NotHere(s) == target[s] \in {Nil, "damaged"}

\* What holds besides where an import or a recovery is, whatever the journal says.
ApartAt(p, s) ==
  LET step == op[p].step IN
  /\ ~Refused(s)
  /\ step = "enable" => old[s] # "enabled"
  /\ step \in {"disable", "enable"} => op[p].imported
  /\ step \in Importing /\ ~op[p].imported => NotHere(s)
  /\ step \in {"create", "undo old"} => NotHere(s)
  /\ step = "roll back old" => target[s] = Nil

ApartInv ==
  /\ StoresOK /\ WorkersOK
  /\ journal # Nil /\ journal.schedule \notin edited => ~Refused(journal.schedule)
  /\ \A p \in Proc : LET s == op[p].schedule IN
       s \in Schedule \ edited =>
         /\ op[p].step \in Importing \cup Recovering => ApartAt(p, s)
         /\ op[p].step = "wait" => ~Refused(s)
  /\ \A s \in Schedule \ edited : Apart(s)

LEMMA ApartElsewhere ==
  ASSUME NEW s \in Schedule, Elsewhere(s), first' = first, NEW t \in Schedule, t # s, Apart(t)
  PROVE  Apart(t)'
BY DEF Elsewhere, Apart, Untouched, Refused, OldTask

LEMMA ApartAtWork ==
  ASSUME ApartInv, NEW p \in Proc, op[p].step \in Importing \cup Recovering
  PROVE  /\ op[p].schedule \in Schedule /\ holder = p
         /\ op[p].schedule \notin edited => Apart(op[p].schedule) /\ ApartAt(p, op[p].schedule)
BY DEF ApartInv, WorkersOK

\* A step of process p, which has the transaction, for schedule s.
LEMMA ApartStep ==
  ASSUME ApartInv, NEW p \in Proc, op[p].step \in Importing \cup Recovering,
         NEW s \in Schedule, s = op[p].schedule,
         StoresOK', Elsewhere(s), journal' \in {journal, Nil}, UNCHANGED ghosts,
         op' \in [Proc -> Doing], \A q \in Proc \ {p} : op'[q] = op[q],
         \/ /\ op'[p].step \in Importing \cup Recovering /\ holder' = holder
            /\ op'[p].schedule = s /\ (op'[p].step \in Importing => p \in Window)
         \/ op'[p].step \in {"idle", "off", "gone"} /\ holder' = Nil,
         s \notin edited =>
           Apart(s)' /\ (op'[p].step \in Importing \cup Recovering => ApartAt(p, s)')
  PROVE  ApartInv'
<1>1. holder = p /\ Nil \notin Proc /\ \A q \in Proc \ {p} : op[q].step \notin Importing \cup Recovering
  BY ApartAtWork, NilIsNoState DEF ApartInv, WorkersOK
<1>2. first' = first /\ edited' = edited
  BY DEF ghosts
<1>3. WorkersOK'
  <2> SUFFICES ASSUME NEW q \in Proc
               PROVE  /\ op'[q].step \in Importing \cup Recovering <=> holder' = q
                      /\ op'[q].step \in Importing => q \in Window
                      /\ op'[q].step \in Importing \cup Recovering \cup {"wait"} => op'[q].schedule \in Schedule
    BY <1>1 DEF WorkersOK
  <2>1. CASE q = p
    BY <1>1, <2>1, AtRest
  <2>2. CASE q # p
    BY <1>1, <2>2 DEF ApartInv, WorkersOK
  <2> QED
    BY <2>1, <2>2
<1>4. \A t \in Schedule \ edited' : Apart(t)'
  BY <1>2, ApartElsewhere DEF ApartInv
<1>5. ASSUME NEW q \in Proc, op'[q].schedule \in Schedule \ edited'
      PROVE  /\ op'[q].step \in Importing \cup Recovering => ApartAt(q, op[q].schedule)'
             /\ op'[q].step = "wait" => ~Refused(op[q].schedule)'
  <2>1. CASE q = p
    BY <1>2, <1>5, <2>1, AtRest
  <2>2. CASE q # p
    <3>1. op'[q] = op[q] /\ op[q].step \notin Importing \cup Recovering
      BY <1>1, <2>2
    <3>2. op[q].step = "wait" => ~Refused(op[q].schedule)
      BY <1>2, <1>5, <3>1 DEF ApartInv
    <3>3. PICK t \in Schedule : t = op[q].schedule
      BY <1>5, <3>1
    <3> QED
      BY <1>2, <3>1, <3>2, <3>3, FirstStays
  <2> QED
    BY <2>1, <2>2
<1>6. ASSUME journal' # Nil, journal'.schedule \notin edited' PROVE ~Refused(journal.schedule)'
  <2>1. journal' = journal /\ ~Refused(journal.schedule)
    BY <1>2, <1>6 DEF ApartInv
  <2>2. PICK t \in Schedule : t = journal.schedule
    BY <1>6, <2>1 DEF ApartInv, StoresOK
  <2> QED
    BY <1>2, <2>1, <2>2, FirstStays
<1> QED
  BY <1>3, <1>4, <1>5, <1>6 DEF ApartInv

\* A process goes on to step st, and keeps what it knows.
LEMMA GoesTo ==
  ASSUME ApartInv, NEW p \in Proc, NEW st \in Importing \cup Recovering, Go(p, st)
  PROVE  /\ op' \in [Proc -> Doing] /\ \A q \in Proc \ {p} : op'[q] = op[q]
         /\ op'[p].step = st /\ op'[p].schedule = op[p].schedule
         /\ op'[p].imported = op[p].imported
BY DEF ApartInv, WorkersOK, Go, Doing

\* It is done.
LEMMA Ends ==
  ASSUME ApartInv, NEW p \in Proc, End(p)
  PROVE  /\ op' \in [Proc -> Doing] /\ \A q \in Proc \ {p} : op'[q] = op[q]
         /\ op'[p].step \in {"idle", "gone"} /\ holder' = Nil
BY RestOK DEF ApartInv, WorkersOK, End


\* The old registry: as it is, or with another entry for schedule s, of the same snapshot.
Rewritten(s) ==
  \/ source' = source
  \/ \E r \in Registration : source' = [source EXCEPT ![s] = r] /\ r.whole = source[s].whole

\* A step that leaves the tasks and the registration here alone.
LEMMA QuietStep ==
  ASSUME ApartInv, NEW p \in Proc, op[p].step \in Importing \cup Recovering,
         NEW s \in Schedule, s = op[p].schedule,
         UNCHANGED <<old, target, task, ghosts>>, journal' \in {journal, Nil},
         Rewritten(s),
         op' \in [Proc -> Doing], \A q \in Proc \ {p} : op'[q] = op[q],
         \/ /\ op[p].step \in Importing /\ p \in Window /\ holder' = holder
            /\ op'[p].step \in Importing \ {"create", "disable", "enable", "undo old"}
            /\ op'[p].schedule = s /\ op'[p].imported = op[p].imported
         \/ op'[p].step \in {"idle", "gone"} /\ holder' = Nil
  PROVE  ApartInv'
<1>1. StoresOK' /\ Elsewhere(s) /\ source'[s].whole = source[s].whole
  BY DEF ApartInv, StoresOK, Elsewhere, Rewritten, ghosts
<1>2. ASSUME s \notin edited
      PROVE  Apart(s)' /\ (op'[p].step \in Importing \cup Recovering => ApartAt(p, s)')
  <2>1. Apart(s) /\ ApartAt(p, s) /\ ~Refused(s)
    BY <1>2, ApartAtWork DEF ApartAt
  <2>2. ~Refused(s)'
    BY <2>1, FirstStays DEF ghosts
  <2>3. Apart(s)'
    BY <1>1, <2>1, <2>2 DEF Apart, ghosts
  <2>4. CASE op'[p].step \in {"idle", "gone"}
    BY <2>3, <2>4, AtRest
  <2>5. CASE op'[p].step \in Importing \ {"create", "disable", "enable", "undo old"} /\ op[p].step \in Importing
             /\ op'[p].imported = op[p].imported
    BY <2>1, <2>2, <2>3, <2>5 DEF ApartAt, NotHere, Importing
  <2> QED
    BY <2>3, <2>4, <2>5
<1> QED
  BY <1>1, <1>2, ApartStep

\* The import.
LEMMA ApartCreate ==
  ASSUME ApartInv, NEW w \in Window, Create(w)
  PROVE  ApartInv'
<1>1. w \in Proc /\ op[w].step = "create" /\ op[w].step \in Importing /\ op \in [Proc -> Doing]
  BY DEF Create, AtStep, Proc, Importing, ApartInv, WorkersOK
<1>2. PICK s \in Schedule : s = op[w].schedule
  BY <1>1, ApartAtWork
<1>3. PICK x \in {"disabled", "damaged"} :
        /\ target' = [target EXCEPT ![s] = x]
        /\ \/ \E st \in {"disable", "undo"} : op' = [op EXCEPT ![w].imported = TRUE, ![w].step = st]
           \/ Go(w, "undo") /\ x = "damaged"
  BY <1>2 DEF Create
<1>4. UNCHANGED <<source, old, task, journal, holder, ghosts>>
  BY DEF Create
<1>5. /\ op' \in [Proc -> Doing] /\ \A q \in Proc \ {w} : op'[q] = op[q]
      /\ op'[w].step \in {"disable", "undo"} /\ op'[w].schedule = s
      /\ op'[w].imported \/ (x = "damaged" /\ op'[w].step = "undo")
  <2>1. ASSUME NEW st \in {"disable", "undo"}, op' = [op EXCEPT ![w].imported = TRUE, ![w].step = st]
        PROVE  /\ op' \in [Proc -> Doing] /\ \A q \in Proc \ {w} : op'[q] = op[q]
               /\ op'[w].step \in {"disable", "undo"} /\ op'[w].schedule = s /\ op'[w].imported
    <3>1. op[w] \in Doing /\ op'[w] = [op[w] EXCEPT !.imported = TRUE, !.step = st]
      BY <1>1, <2>1
    <3>2. op'[w] \in Doing /\ op'[w].step = st /\ op'[w].schedule = s /\ op'[w].imported
      BY <1>2, <3>1 DEF Doing, Importing
    <3> QED
      BY <1>1, <2>1, <3>2
  <2>2. CASE Go(w, "undo") /\ x = "damaged"
    BY <1>1, <1>2, <2>2, GoesTo DEF Importing
  <2> QED
    BY <1>3, <2>1, <2>2
<1>6. StoresOK' /\ Elsewhere(s)
  BY <1>3, <1>4 DEF ApartInv, StoresOK, Elsewhere, Target, ghosts
<1>7. ASSUME s \notin edited PROVE Apart(s)' /\ ApartAt(w, s)'
  <2>1. Apart(s) /\ ~Refused(s) /\ NotHere(s)
    BY <1>1, <1>2, <1>7, ApartAtWork DEF ApartAt
  <2>2. target'[s] = x /\ ~Refused(s)'
    BY <1>3, <1>4, <2>1, FirstStays DEF ghosts, ApartInv, StoresOK
  <2>3. Apart(s)'
    BY <1>3, <1>4, <2>1, <2>2, NilIsNoState DEF Apart, NotHere, ghosts
  <2>4. ApartAt(w, s)'
    BY <1>3, <1>5, <2>2 DEF ApartAt, NotHere
  <2> QED
    BY <2>3, <2>4
<1> QED
  BY <1>1, <1>2, <1>4, <1>5, <1>6, <1>7, ApartStep DEF Importing

LEMMA ApartDisableOld ==
  ASSUME ApartInv, NEW w \in Window, DisableOld(w)
  PROVE  ApartInv'
<1>1. w \in Proc /\ op[w].step = "disable" /\ op[w].step \in Importing
  BY DEF DisableOld, Effect, AtStep, Proc, Importing
<1>2. PICK s \in Schedule : s = op[w].schedule
  BY <1>1, ApartAtWork
<1>3. PICK st \in {"enable", "undo"} : Go(w, st) /\ st \in Importing
  BY DEF DisableOld, Effect, Importing
<1>4. /\ old' = [old EXCEPT ![s] = IF @ = "enabled" THEN "disabled" ELSE @]
      /\ UNCHANGED <<source, target, task, journal, holder, ghosts>>
  BY <1>2 DEF DisableOld
<1>5. /\ op' \in [Proc -> Doing] /\ \A q \in Proc \ {w} : op'[q] = op[q]
      /\ op'[w].step = st /\ op'[w].schedule = s /\ op'[w].imported = op[w].imported
  BY <1>1, <1>2, <1>3, GoesTo
<1>6. StoresOK' /\ Elsewhere(s) /\ old'[s] = (IF old[s] = "enabled" THEN "disabled" ELSE old[s])
  BY <1>4 DEF ApartInv, StoresOK, Elsewhere, Task, ghosts
<1>7. ASSUME s \notin edited PROVE Apart(s)' /\ ApartAt(w, s)'
  <2>1. Apart(s) /\ ApartAt(w, s) /\ ~Refused(s)
    BY <1>1, <1>2, <1>7, ApartAtWork DEF ApartAt
  <2>2. ~Refused(s)' /\ old'[s] # "enabled"
    BY <1>4, <1>6, <2>1, FirstStays DEF ghosts
  <2>3. Apart(s)' /\ ApartAt(w, s)'
    BY <1>1, <1>3, <1>4, <1>5, <2>1, <2>2 DEF Apart, ApartAt, NotHere, ghosts
  <2> QED
    BY <2>3
<1> QED
  BY <1>1, <1>2, <1>3, <1>4, <1>5, <1>6, <1>7, ApartStep

LEMMA ApartEnableTarget ==
  ASSUME ApartInv, NEW w \in Window, EnableTarget(w)
  PROVE  ApartInv'
<1>1. w \in Proc /\ op[w].step = "enable" /\ op[w].step \in Importing
  BY DEF EnableTarget, Effect, AtStep, Proc, Importing
<1>2. PICK s \in Schedule : s = op[w].schedule
  BY <1>1, ApartAtWork
<1>3. PICK st \in {"mark", "undo"} : Go(w, st) /\ st \in Importing
  BY DEF EnableTarget, Effect, Importing
<1>4. /\ \/ target' = [target EXCEPT ![s] = "enabled"] /\ task' = [task EXCEPT ![s] = TRUE]
         \/ UNCHANGED <<target, task>>
      /\ UNCHANGED <<source, old, journal, holder, ghosts>>
  BY <1>2 DEF EnableTarget
<1>5. /\ op' \in [Proc -> Doing] /\ \A q \in Proc \ {w} : op'[q] = op[q]
      /\ op'[w].step = st /\ op'[w].schedule = s /\ op'[w].imported = op[w].imported
  BY <1>1, <1>2, <1>3, GoesTo
<1>6. StoresOK' /\ Elsewhere(s)
  BY <1>4 DEF ApartInv, StoresOK, Elsewhere, Target, ghosts
<1>7. ASSUME s \notin edited PROVE Apart(s)' /\ ApartAt(w, s)'
  <2>1. Apart(s) /\ ApartAt(w, s) /\ ~Refused(s) /\ old[s] # "enabled" /\ op[w].imported
    BY <1>1, <1>2, <1>7, ApartAtWork DEF ApartAt
  <2>2. ~Refused(s)' /\ old'[s] # "enabled" /\ source' = source /\ first' = first
    BY <1>4, <2>1, FirstStays DEF ghosts
  <2>3. task'[s] <=> target'[s] = "enabled"
    BY <1>4, <2>1 DEF Apart, ApartInv, StoresOK
  <2>4. Apart(s)'
    BY <2>1, <2>2, <2>3 DEF Apart
  <2>5. ApartAt(w, s)'
    BY <1>3, <1>5, <2>1, <2>2 DEF ApartAt
  <2> QED
    BY <2>4, <2>5
<1> QED
  BY <1>1, <1>2, <1>3, <1>4, <1>5, <1>6, <1>7, ApartStep

LEMMA ApartUndoTarget ==
  ASSUME ApartInv, NEW w \in Window, UndoTarget(w)
  PROVE  ApartInv'
<1>1. w \in Proc /\ op[w].step = "undo target" /\ op[w].step \in Importing /\ op \in [Proc -> Doing]
  BY DEF UndoTarget, AtStep, Proc, Importing, ApartInv, WorkersOK
<1>2. PICK s \in Schedule : s = op[w].schedule
  BY <1>1, ApartAtWork
<1>3. /\ \/ target' = [target EXCEPT ![s] = Nil] /\ task' = [task EXCEPT ![s] = FALSE]
         \/ UNCHANGED <<target, task>>
      /\ UNCHANGED <<source, old, journal, holder, ghosts>>
  BY <1>2 DEF UndoTarget
<1>4. CASE Go(w, "undo old") /\ (op[w].imported => target' = [target EXCEPT ![s] = Nil])
  <2>1. "undo old" \in Importing
    BY DEF Importing
  <2>2. /\ op' \in [Proc -> Doing] /\ \A q \in Proc \ {w} : op'[q] = op[q]
        /\ op'[w].step = "undo old" /\ op'[w].schedule = s /\ op'[w].imported = op[w].imported
    BY <1>1, <1>2, <1>4, <2>1, GoesTo
  <2>3. StoresOK' /\ Elsewhere(s)
    BY <1>3 DEF ApartInv, StoresOK, Elsewhere, Target, ghosts
  <2>4. ASSUME s \notin edited PROVE Apart(s)' /\ ApartAt(w, s)'
    <3>1. Apart(s) /\ ~Refused(s) /\ (~op[w].imported => NotHere(s))
      BY <1>1, <1>2, <2>4, ApartAtWork DEF ApartAt
    <3>2. ~Refused(s)'
      BY <1>3, <3>1, FirstStays DEF ghosts
    <3>3. Apart(s)'
      BY <1>3, <3>1, <3>2, NilIsNoState DEF Apart, ghosts, ApartInv, StoresOK
    <3>4. NotHere(s)'
      BY <1>3, <1>4, <3>1 DEF NotHere, ApartInv, StoresOK
    <3> QED
      BY <2>2, <3>2, <3>3, <3>4 DEF ApartAt
  <2> QED
    BY <1>1, <1>2, <1>3, <2>1, <2>2, <2>3, <2>4, ApartStep
<1>5. CASE op' = [op EXCEPT ![w].step = "undone", ![w].errors = TRUE]
  <2>1. op[w] \in Doing /\ op'[w] = [op[w] EXCEPT !.step = "undone", !.errors = TRUE] /\ "undone" \in Importing
    BY <1>1, <1>5 DEF Importing
  <2>2. op'[w] \in Doing /\ op'[w].step = "undone" /\ op'[w].schedule = s /\ op'[w].imported = op[w].imported
    BY <1>2, <2>1 DEF Doing
  <2>3. op' \in [Proc -> Doing] /\ \A q \in Proc \ {w} : op'[q] = op[q]
    BY <1>1, <1>5, <2>2
  <2>4. StoresOK' /\ Elsewhere(s)
    BY <1>3 DEF ApartInv, StoresOK, Elsewhere, Target, ghosts
  <2>5. ASSUME s \notin edited PROVE Apart(s)' /\ ApartAt(w, s)'
    <3>1. Apart(s) /\ ~Refused(s) /\ (~op[w].imported => NotHere(s))
      BY <1>1, <1>2, <2>5, ApartAtWork DEF ApartAt
    <3>2. ~Refused(s)'
      BY <1>3, <3>1, FirstStays DEF ghosts
    <3>3. Apart(s)' /\ (NotHere(s) => NotHere(s)')
      BY <1>3, <3>1, <3>2, NilIsNoState DEF Apart, NotHere, ghosts, ApartInv, StoresOK
    <3> QED
      BY <2>2, <3>1, <3>2, <3>3 DEF ApartAt
  <2> QED
    BY <1>1, <1>2, <1>3, <2>1, <2>2, <2>3, <2>4, <2>5, ApartStep
<1> QED
  BY <1>2, <1>4, <1>5 DEF UndoTarget

\* A step that only changes the old task, which is not enabled here.
LEMMA ApartOldTask ==
  ASSUME ApartInv, NEW p \in Proc, op[p].step \in Importing \cup Recovering,
         NEW s \in Schedule, s = op[p].schedule,
         NEW x \in Task, old' = [old EXCEPT ![s] = x],
         s \notin edited /\ x = "enabled" => NotHere(s),
         UNCHANGED <<source, target, task, journal, ghosts, holder>>,
         NEW st \in (Importing \cup Recovering)
                      \ {"create", "disable", "enable", "undo old", "roll back old"},
         Go(p, st), st \in Importing => op[p].step \in Importing /\ p \in Window
  PROVE  ApartInv'
<1>1. /\ op' \in [Proc -> Doing] /\ \A q \in Proc \ {p} : op'[q] = op[q]
      /\ op'[p].step = st /\ op'[p].schedule = s /\ op'[p].imported = op[p].imported
  BY GoesTo
<1>2. StoresOK' /\ Elsewhere(s) /\ old'[s] = x
  BY DEF ApartInv, StoresOK, Elsewhere, ghosts
<1>3. ASSUME s \notin edited PROVE Apart(s)' /\ ApartAt(p, s)'
  <2>1. Apart(s) /\ ~Refused(s) /\ ApartAt(p, s)
    BY <1>3, ApartAtWork DEF ApartAt
  <2>2. ~Refused(s)'
    BY <2>1, FirstStays DEF ghosts
  <2>3. target[s] = "enabled" => x # "enabled"
    BY <1>3, NilIsNoState DEF NotHere
  <2>4. Apart(s)'
    BY <1>2, <2>1, <2>2, <2>3 DEF Apart, ghosts
  <2>5. ApartAt(p, s)'
    BY <1>1, <2>1, <2>2 DEF ApartAt, NotHere
  <2> QED
    BY <2>4, <2>5
<1> QED
  BY <1>1, <1>2, <1>3, ApartStep

LEMMA ApartUndoOld ==
  ASSUME ApartInv, NEW w \in Window, UndoOld(w)
  PROVE  ApartInv'
<1>1. w \in Proc /\ op[w].step = "undo old" /\ op[w].step \in Importing /\ op \in [Proc -> Doing]
  BY DEF UndoOld, AtStep, Proc, Importing, ApartInv, WorkersOK
<1>2. PICK s \in Schedule : s = op[w].schedule
  BY <1>1, ApartAtWork
<1>3. UNCHANGED <<source, target, task, journal, holder, ghosts>>
  BY DEF UndoOld
<1>4. CASE Go(w, "undone") /\ old' = [old EXCEPT ![s] = IF op[w].old = Nil THEN @ ELSE op[w].old]
  <2>1. PICK x \in Task : old' = [old EXCEPT ![s] = x]
    BY <1>1, <1>4 DEF ApartInv, StoresOK, Doing
  <2>2. s \notin edited => NotHere(s)
    BY <1>1, <1>2, ApartAtWork DEF ApartAt
  <2>3. "undone" \in (Importing \cup Recovering) \ {"create", "disable", "enable", "undo old", "roll back old"}
    BY DEF Importing
  <2> QED
    BY <1>1, <1>2, <1>3, <1>4, <2>1, <2>2, <2>3, ApartOldTask
<1>5. CASE UNCHANGED old /\ op' = [op EXCEPT ![w].step = "undone", ![w].errors = TRUE]
  <2>1. op[w] \in Doing /\ op'[w] = [op[w] EXCEPT !.step = "undone", !.errors = TRUE]
    BY <1>1, <1>5
  <2>2. op'[w] \in Doing /\ op'[w].step = "undone" /\ op'[w].schedule = s /\ op'[w].imported = op[w].imported
    BY <1>2, <2>1 DEF Doing, Importing
  <2>3. op' \in [Proc -> Doing] /\ \A q \in Proc \ {w} : op'[q] = op[q]
    BY <1>1, <1>5, <2>2
  <2>4. "undone" \in Importing \ {"create", "disable", "enable", "undo old"}
    BY DEF Importing
  <2>5. Rewritten(s)
    BY <1>3 DEF Rewritten
  <2> QED
    BY <1>1, <1>2, <1>3, <1>5, <2>2, <2>3, <2>4, <2>5, QuietStep
<1> QED
  BY <1>2, <1>4, <1>5 DEF UndoOld

LEMMA ApartDeleteOld ==
  ASSUME ApartInv, NEW w \in Window, DeleteOld(w)
  PROVE  ApartInv'
<1>1. w \in Proc /\ op[w].step = "delete" /\ op[w].step \in Importing
  BY DEF DeleteOld, AtStep, Proc, Importing
<1>2. PICK s \in Schedule : s = op[w].schedule
  BY <1>1, ApartAtWork
<1>3. /\ old' = [old EXCEPT ![s] = Nil] /\ Go(w, "finish")
      /\ UNCHANGED <<source, target, task, journal, holder, ghosts>>
  BY <1>2 DEF DeleteOld
<1>4. Nil \in Task /\ Nil # "enabled"
      /\ "finish" \in (Importing \cup Recovering) \ {"create", "disable", "enable", "undo old", "roll back old"}
  BY NilIsNoState DEF Task, Importing
<1> QED
  BY <1>1, <1>2, <1>3, <1>4, ApartOldTask

\* What a step writes to the old registry, beside the snapshot.
LEMMA Registered ==
  ASSUME ApartInv, NEW s \in Schedule
  PROVE  /\ [source[s] EXCEPT !.enabled = FALSE, !.migrated = TRUE] \in Registration
         /\ [source[s] EXCEPT !.enabled = FALSE, !.migrated = TRUE].whole = source[s].whole
         /\ \A x \in {Nil, "PENDING", "COMPLETED"} :
              [source[s] EXCEPT !.cleanup = x] \in Registration /\ [source[s] EXCEPT !.cleanup = x].whole = source[s].whole
         /\ \A e \in BOOLEAN :
              /\ [source[s] EXCEPT !.enabled = e, !.migrated = FALSE] \in Registration
              /\ [source[s] EXCEPT !.enabled = e, !.migrated = FALSE].whole = source[s].whole
              /\ [source[s] EXCEPT !.enabled = e, !.migrated = FALSE, !.cleanup = Nil] \in Registration
              /\ [source[s] EXCEPT !.enabled = e, !.migrated = FALSE, !.cleanup = Nil].whole = source[s].whole
<1>1. source[s] \in Registration
  BY DEF ApartInv, StoresOK
<1> QED
  BY <1>1 DEF Registration

LEMMA ApartMarkSource ==
  ASSUME ApartInv, NEW w \in Window, MarkSource(w)
  PROVE  ApartInv'
<1>1. w \in Proc /\ op[w].step = "mark" /\ op[w].step \in Importing /\ op \in [Proc -> Doing]
  BY DEF MarkSource, AtStep, Proc, Importing, ApartInv, WorkersOK
<1>2. PICK s \in Schedule : s = op[w].schedule
  BY <1>1, ApartAtWork
<1>3. PICK st \in {"merge", "undo"} : op' = [op EXCEPT ![w].marked = TRUE, ![w].step = st]
  BY DEF MarkSource
<1>4. Rewritten(s)
  BY <1>2, Registered DEF MarkSource, ApartInv, StoresOK, Rewritten
<1>5. op[w] \in Doing /\ op'[w] = [op[w] EXCEPT !.marked = TRUE, !.step = st]
  BY <1>1, <1>3
<1>6. op'[w] \in Doing /\ op'[w].step = st /\ op'[w].schedule = s /\ op'[w].imported = op[w].imported
  BY <1>2, <1>5 DEF Doing, Importing
<1>7. op' \in [Proc -> Doing] /\ \A q \in Proc \ {w} : op'[q] = op[q]
  BY <1>1, <1>3, <1>6
<1>8. st \in Importing \ {"create", "disable", "enable", "undo old"}
  BY DEF Importing
<1>9. UNCHANGED <<old, target, task, journal, holder, ghosts>>
  BY DEF MarkSource
<1> QED
  BY <1>1, <1>2, <1>4, <1>6, <1>7, <1>8, <1>9, QuietStep

LEMMA ApartStepFails ==
  ASSUME ApartInv, NEW w \in Window, StepFails(w)
  PROVE  ApartInv'
<1>1. w \in Proc /\ op[w].step \in Importing /\ Go(w, "undo")
  BY DEF StepFails, NoEffect, AtStep, Proc, Importing
<1>2. PICK s \in Schedule : s = op[w].schedule
  BY <1>1, ApartAtWork
<1>3. "undo" \in Importing \ {"create", "disable", "enable", "undo old"}
  BY DEF Importing
<1>4. /\ op' \in [Proc -> Doing] /\ \A q \in Proc \ {w} : op'[q] = op[q]
      /\ op'[w].step = "undo" /\ op'[w].schedule = s /\ op'[w].imported = op[w].imported
  BY <1>1, <1>2, <1>3, GoesTo
<1>5. Rewritten(s) /\ UNCHANGED <<old, target, task, journal, holder, ghosts>>
  BY DEF StepFails, stores, Rewritten
<1> QED
  BY <1>1, <1>2, <1>3, <1>4, <1>5, QuietStep

LEMMA ApartMergeHistory ==
  ASSUME ApartInv, NEW w \in Window, MergeHistory(w)
  PROVE  ApartInv'
<1>1. w \in Proc /\ op[w].step \in Importing
  BY DEF MergeHistory, AtStep, Proc, Importing
<1>2. PICK s \in Schedule : s = op[w].schedule
  BY <1>1, ApartAtWork
<1>3. PICK st \in {"finish", "delete"} : Go(w, st)
  BY DEF MergeHistory
<1>4. st \in Importing \ {"create", "disable", "enable", "undo old"}
  BY DEF Importing
<1>5. /\ op' \in [Proc -> Doing] /\ \A q \in Proc \ {w} : op'[q] = op[q]
      /\ op'[w].step = st /\ op'[w].schedule = s /\ op'[w].imported = op[w].imported
  BY <1>1, <1>2, <1>3, <1>4, GoesTo
<1>6. Rewritten(s) /\ UNCHANGED <<old, target, task, journal, holder, ghosts>>
  BY DEF MergeHistory, stores, Rewritten
<1> QED
  BY <1>1, <1>2, <1>4, <1>5, <1>6, QuietStep

LEMMA ApartDeleteOldFails ==
  ASSUME ApartInv, NEW w \in Window, DeleteOldFails(w)
  PROVE  ApartInv'
<1>1. w \in Proc /\ op[w].step = "delete" /\ op[w].step \in Importing /\ op \in [Proc -> Doing]
  BY DEF DeleteOldFails, AtStep, Proc, Importing, ApartInv, WorkersOK
<1>2. PICK s \in Schedule : s = op[w].schedule
  BY <1>1, ApartAtWork
<1>3. Rewritten(s)
  <2>1. source' = source \/ source' = [source EXCEPT ![s].cleanup = "PENDING"]
    BY <1>2 DEF DeleteOldFails
  <2>2. CASE source' = [source EXCEPT ![s].cleanup = "PENDING"]
    <3>1. PICK r \in Registration : r = [source[s] EXCEPT !.cleanup = "PENDING"] /\ r.whole = source[s].whole
      BY Registered
    <3>2. source' = [source EXCEPT ![s] = r]
      BY <2>2, <3>1 DEF ApartInv, StoresOK
    <3> QED
      BY <3>1, <3>2 DEF Rewritten
  <2> QED
    BY <2>1, <2>2 DEF Rewritten
<1>4. UNCHANGED <<old, target, task, journal, ghosts>>
  BY DEF DeleteOldFails
<1>5. CASE End(w)
  BY <1>1, <1>2, <1>3, <1>4, <1>5, Ends, QuietStep
<1>6. CASE op' = [op EXCEPT ![w].step = "undo", ![w].pending = TRUE] /\ holder' = holder
  <2>1. op[w] \in Doing /\ op'[w] = [op[w] EXCEPT !.step = "undo", !.pending = TRUE]
    BY <1>1, <1>6
  <2>2. op'[w] \in Doing /\ op'[w].step = "undo" /\ op'[w].schedule = s /\ op'[w].imported = op[w].imported
    BY <1>2, <2>1 DEF Doing, Importing
  <2>3. op' \in [Proc -> Doing] /\ \A q \in Proc \ {w} : op'[q] = op[q]
    BY <1>1, <1>6, <2>2
  <2>4. "undo" \in Importing \ {"create", "disable", "enable", "undo old"}
    BY DEF Importing
  <2> QED
    BY <1>1, <1>2, <1>3, <1>4, <1>6, <2>2, <2>3, <2>4, QuietStep
<1> QED
  BY <1>5, <1>6 DEF DeleteOldFails

LEMMA ApartUndoSource ==
  ASSUME ApartInv, NEW w \in Window, UndoSource(w)
  PROVE  ApartInv'
<1>1. w \in Proc /\ op[w].step = "undo" /\ op[w].step \in Importing /\ op \in [Proc -> Doing]
  BY DEF UndoSource, AtStep, Proc, Importing, ApartInv, WorkersOK
<1>2. PICK s \in Schedule : s = op[w].schedule
  BY <1>1, ApartAtWork
<1>3. Rewritten(s)
  <2>1. op[w].wasEnabled \in BOOLEAN
    BY <1>1 DEF Doing
  <2>2. \/ source' = source
        \/ source' = [source EXCEPT ![s] = [@ EXCEPT !.enabled = op[w].wasEnabled, !.migrated = FALSE]]
    BY <1>2 DEF UndoSource
  <2>3. PICK r \in Registration :
          r = [source[s] EXCEPT !.enabled = op[w].wasEnabled, !.migrated = FALSE] /\ r.whole = source[s].whole
    BY <2>1, Registered
  <2> QED
    BY <2>2, <2>3 DEF ApartInv, StoresOK, Rewritten
<1>4. UNCHANGED <<old, target, task, journal, holder, ghosts>>
  BY DEF UndoSource
<1>5. "undo target" \in Importing \ {"create", "disable", "enable", "undo old"}
  BY DEF Importing
<1>6. CASE Go(w, "undo target")
  <2>1. /\ op' \in [Proc -> Doing] /\ \A q \in Proc \ {w} : op'[q] = op[q]
        /\ op'[w].step = "undo target" /\ op'[w].schedule = s /\ op'[w].imported = op[w].imported
    BY <1>1, <1>2, <1>5, <1>6, GoesTo
  <2> QED
    BY <1>1, <1>2, <1>3, <1>4, <1>5, <2>1, QuietStep
<1>7. CASE op' = [op EXCEPT ![w].step = "undo target", ![w].errors = TRUE]
  <2>1. op[w] \in Doing /\ op'[w] = [op[w] EXCEPT !.step = "undo target", !.errors = TRUE]
    BY <1>1, <1>7
  <2>2. op'[w] \in Doing /\ op'[w].step = "undo target" /\ op'[w].schedule = s /\ op'[w].imported = op[w].imported
    BY <1>2, <2>1 DEF Doing, Importing
  <2>3. op' \in [Proc -> Doing] /\ \A q \in Proc \ {w} : op'[q] = op[q]
    BY <1>1, <1>7, <2>2
  <2> QED
    BY <1>1, <1>2, <1>3, <1>4, <1>5, <2>2, <2>3, QuietStep
<1> QED
  BY <1>6, <1>7 DEF UndoSource

\* The last steps, which leave the transaction.
LEMMA ApartLastSteps ==
  ASSUME ApartInv, NEW p \in Proc,
         (p \in Window /\ (Finish(p) \/ Undone(p))) \/ RecoveryFails(p) \/ Committed(p) \/ RollBackSource(p)
  PROVE  ApartInv'
<1>1. op[p].step \in Importing \cup Recovering
  BY DEF Finish, Undone, RecoveryFails, Committed, RollBackSource, AtStep, Importing, Recovering
<1>2. PICK s \in Schedule : s = op[p].schedule
  BY <1>1, ApartAtWork
<1>3. End(p) /\ UNCHANGED <<old, target, task, ghosts>> /\ journal' \in {journal, Nil}
  BY DEF Finish, Undone, RecoveryFails, Committed, RollBackSource, stores
<1>4. Rewritten(s)
  <2>1. CASE source' = source
    BY <2>1 DEF Rewritten
  <2>2. CASE Committed(p)
    <3>1. PICK x \in {Nil, "COMPLETED"} : source' = [source EXCEPT ![s].cleanup = x]
      BY <1>2, <2>2 DEF Committed, ApartInv, StoresOK
    <3>2. PICK r \in Registration : r = [source[s] EXCEPT !.cleanup = x] /\ r.whole = source[s].whole
      BY Registered
    <3> QED
      BY <3>1, <3>2 DEF ApartInv, StoresOK, Rewritten
  <2>3. CASE RollBackSource(p)
    <3>1. first[s][1] \in BOOLEAN
      BY StoresAt DEF ApartInv
    <3>2. \/ source' = source
          \/ source' = [source EXCEPT ![s] = [@ EXCEPT !.enabled = first[s][1], !.migrated = FALSE, !.cleanup = Nil]]
      BY <1>2, <2>3 DEF RollBackSource
    <3>3. PICK r \in Registration :
            /\ r = [source[s] EXCEPT !.enabled = first[s][1], !.migrated = FALSE, !.cleanup = Nil]
            /\ r.whole = source[s].whole
      BY <3>1, Registered
    <3> QED
      BY <3>2, <3>3 DEF ApartInv, StoresOK, Rewritten
  <2> QED
    BY <2>1, <2>2, <2>3 DEF Finish, Undone, RecoveryFails, stores
<1> QED
  BY <1>1, <1>2, <1>3, <1>4, Ends, QuietStep

\* The recovery.
LEMMA ApartCommit ==
  ASSUME ApartInv, NEW p \in Proc, Commit(p)
  PROVE  ApartInv'
<1>1. op[p].step = "commit" /\ op[p].step \in Recovering
  BY DEF Commit, AtStep, Recovering
<1>2. PICK s \in Schedule : s = op[p].schedule
  BY <1>1, ApartAtWork
<1>3. /\ task' = [task EXCEPT ![s] = @ \/ target[s] = "enabled"]
      /\ UNCHANGED <<source, old, target, journal, ghosts>>
  BY <1>2 DEF Commit
<1>4. StoresOK' /\ Elsewhere(s)
  <2>1. task' \in [Schedule -> BOOLEAN]
    BY <1>3 DEF ApartInv, StoresOK
  <2> QED
    BY <1>3, <2>1 DEF ApartInv, StoresOK, Elsewhere, ghosts
<1>5. ASSUME s \notin edited PROVE Apart(s)' /\ ~Refused(s)' /\ ~Refused(s)
  <2>1. Apart(s) /\ ~Refused(s)
    BY <1>1, <1>2, <1>5, ApartAtWork DEF ApartAt
  <2>2. ~Refused(s)'
    BY <1>3, <2>1, FirstStays DEF ghosts
  <2>3. task'[s] <=> target[s] = "enabled"
    BY <1>3, <2>1 DEF Apart, ApartInv, StoresOK
  <2> QED
    BY <1>3, <2>1, <2>2, <2>3 DEF Apart, ghosts
<1>6. CASE End(p)
  <2>1. op'[p].step \notin Importing \cup Recovering
    BY <1>6, Ends, AtRest
  <2> QED
    BY <1>1, <1>2, <1>3, <1>4, <1>5, <1>6, <2>1, Ends, ApartStep
<1>7. ASSUME NEW st \in {"committed", "commit old"}, Go(p, st), holder' = holder
      PROVE  ApartInv'
  <2>1. st \in Recovering /\ st \notin Importing /\ st # "roll back old"
    BY DEF Importing, Recovering
  <2>2. /\ op' \in [Proc -> Doing] /\ \A q \in Proc \ {p} : op'[q] = op[q]
        /\ op'[p].step = st /\ op'[p].schedule = s
    BY <1>2, <1>7, <2>1, GoesTo
  <2>3. s \notin edited => ApartAt(p, s)'
    BY <1>5, <2>1, <2>2 DEF ApartAt
  <2> QED
    BY <1>1, <1>2, <1>3, <1>4, <1>5, <1>7, <2>1, <2>2, <2>3, ApartStep
<1> QED
  BY <1>6, <1>7 DEF Commit

LEMMA ApartCommitOld ==
  ASSUME ApartInv, NEW p \in Proc, CommitOld(p)
  PROVE  ApartInv'
<1>1. op[p].step \in {"commit old", "commit delete"} /\ op[p].step \in Recovering
  BY DEF CommitOld, AtStep, Recovering
<1>2. PICK s \in Schedule : s = op[p].schedule
  BY <1>1, ApartAtWork
<1>3. PICK st \in {"commit delete", "committed"} : Go(p, st)
  BY DEF CommitOld
<1>4. /\ st \in (Importing \cup Recovering) \ {"create", "disable", "enable", "undo old", "roll back old"}
      /\ st \notin Importing
  BY DEF Importing, Recovering
<1>5. PICK x \in Task : x # "enabled" /\ old' = [old EXCEPT ![s] = x]
  <2>1. old[s] \in Task
    BY DEF ApartInv, StoresOK
  <2> QED
    BY <1>2, <2>1, NilIsNoState DEF CommitOld, Task
<1>6. UNCHANGED <<source, target, task, journal, holder, ghosts>>
  BY DEF CommitOld
<1> QED
  BY <1>1, <1>2, <1>3, <1>4, <1>5, <1>6, ApartOldTask

LEMMA ApartRollBack ==
  ASSUME ApartInv, NEW p \in Proc, RollBack(p)
  PROVE  ApartInv'
<1>1. op[p].step = "roll back" /\ op[p].step \in Recovering
  BY DEF RollBack, AtStep, Recovering
<1>2. PICK s \in Schedule : s = op[p].schedule
  BY <1>1, ApartAtWork
<1>3. UNCHANGED <<source, old, journal, ghosts>>
  BY DEF RollBack
<1>4. CASE End(p) /\ UNCHANGED <<target, task>>
  <2>1. Rewritten(s)
    BY <1>3 DEF Rewritten
  <2> QED
    BY <1>1, <1>2, <1>3, <1>4, <2>1, Ends, QuietStep
<1>5. CASE /\ target' = [target EXCEPT ![s] = Nil] /\ task' = [task EXCEPT ![s] = FALSE]
           /\ Go(p, "roll back old") /\ holder' = holder
  <2>1. "roll back old" \in Recovering /\ "roll back old" \notin Importing
    BY DEF Importing, Recovering
  <2>2. /\ op' \in [Proc -> Doing] /\ \A q \in Proc \ {p} : op'[q] = op[q]
        /\ op'[p].step = "roll back old" /\ op'[p].schedule = s
    BY <1>2, <1>5, <2>1, GoesTo
  <2>3. StoresOK' /\ Elsewhere(s) /\ target'[s] = Nil /\ ~task'[s]
    BY <1>3, <1>5 DEF ApartInv, StoresOK, Elsewhere, Target, ghosts
  <2>4. ASSUME s \notin edited PROVE Apart(s)' /\ ApartAt(p, s)'
    <3>1. Apart(s) /\ ~Refused(s)
      BY <1>1, <1>2, <2>4, ApartAtWork DEF ApartAt
    <3>2. ~Refused(s)'
      BY <1>3, <3>1, FirstStays DEF ghosts
    <3> QED
      BY <1>3, <2>1, <2>2, <2>3, <3>1, <3>2, NilIsNoState DEF Apart, ApartAt, ghosts
  <2> QED
    BY <1>1, <1>2, <1>3, <1>5, <2>1, <2>2, <2>3, <2>4, ApartStep
<1> QED
  BY <1>2, <1>4, <1>5 DEF RollBack

LEMMA ApartRollBackOld ==
  ASSUME ApartInv, NEW p \in Proc, RollBackOld(p)
  PROVE  ApartInv'
<1>1. op[p].step = "roll back old" /\ op[p].step \in Recovering
  BY DEF RollBackOld, AtStep, Recovering
<1>2. PICK s \in Schedule : s = op[p].schedule
  BY <1>1, ApartAtWork
<1>3. PICK x \in Task : old' = [old EXCEPT ![s] = x]
  BY <1>2 DEF RollBackOld, Task
<1>4. s \notin edited => NotHere(s)
  BY <1>1, <1>2, ApartAtWork DEF ApartAt, NotHere
<1>5. /\ Go(p, "roll back source") /\ UNCHANGED <<source, target, task, journal, holder, ghosts>>
      /\ "roll back source" \notin Importing
      /\ "roll back source" \in (Importing \cup Recovering)
                                  \ {"create", "disable", "enable", "undo old", "roll back old"}
  BY DEF RollBackOld, Importing, Recovering
<1> QED
  BY <1>1, <1>2, <1>3, <1>4, <1>5, ApartOldTask

\* A process that is not at work starts, waits for the transaction, gets it, or stops
\* waiting; the stores stay.
LEMMA ApartRests ==
  ASSUME ApartInv, NEW p \in Proc, op[p].step \notin Importing \cup Recovering,
         NEW o \in Doing, op' = [op EXCEPT ![p] = o],
         \/ o.step \in {"off", "idle", "gone", "wait"} /\ holder' = holder
         \/ /\ o.step \in Importing \cup Recovering /\ holder = Nil /\ holder' = p
            /\ o.step \in Importing => p \in Window,
         o.step \in Importing \cup Recovering \cup {"wait"} => o.schedule \in Schedule,
         o.schedule \in Schedule \ edited =>
           /\ o.step \in Importing \cup Recovering => ApartAt(p, o.schedule)'
           /\ o.step = "wait" => ~Refused(o.schedule),
         journal' = journal
         \/ (journal' \in [schedule : Schedule, oldEnabled : BOOLEAN]
             /\ (journal'.schedule \notin edited => ~Refused(journal'.schedule))),
         UNCHANGED <<source, old, target, task, first, edited>>
  PROVE  ApartInv'
<1>1. op'[p] = o /\ op' \in [Proc -> Doing] /\ \A q \in Proc \ {p} : op'[q] = op[q]
  BY DEF ApartInv, WorkersOK
<1>2. StoresOK' /\ \A t \in Schedule : Apart(t)' = Apart(t) /\ Refused(t)' = Refused(t)
  BY FirstStays DEF ApartInv, StoresOK, Apart, Untouched
<1>3. WorkersOK'
  <2> SUFFICES ASSUME NEW q \in Proc
               PROVE  /\ op'[q].step \in Importing \cup Recovering <=> holder' = q
                      /\ op'[q].step \in Importing => q \in Window
                      /\ op'[q].step \in Importing \cup Recovering \cup {"wait"} => op'[q].schedule \in Schedule
    BY <1>1 DEF ApartInv, WorkersOK
  <2>1. CASE q = p
    BY <1>1, <2>1, AtRest DEF ApartInv, WorkersOK
  <2>2. CASE q # p
    BY <1>1, <2>2, NilIsNoState DEF ApartInv, WorkersOK
  <2> QED
    BY <2>1, <2>2
<1>4. ASSUME NEW q \in Proc, op'[q].schedule \in Schedule \ edited'
      PROVE  /\ op'[q].step \in Importing \cup Recovering => ApartAt(q, op[q].schedule)'
             /\ op'[q].step = "wait" => ~Refused(op[q].schedule)'
  <2>1. CASE q = p
    <3>1. PICK t \in Schedule : t = o.schedule
      BY <1>1, <1>4, <2>1
    <3> QED
      BY <1>1, <1>2, <1>4, <2>1, <3>1, AtRest
  <2>2. CASE q # p
    <3>1. PICK t \in Schedule : t = op[q].schedule
      BY <1>1, <1>4, <2>2
    <3>2. op'[q] = op[q] /\ t \notin edited
      BY <1>1, <1>4, <2>2, <3>1
    <3>3. ApartAt(q, t)' = ApartAt(q, t)
      BY <1>2, <3>2 DEF ApartAt, NotHere
    <3> QED
      BY <1>2, <3>1, <3>2, <3>3 DEF ApartInv
  <2> QED
    BY <2>1, <2>2
<1>5. ASSUME journal' # Nil, journal'.schedule \notin edited' PROVE ~Refused(journal.schedule)'
  <2>1. ~Refused(journal'.schedule) /\ journal'.schedule \in Schedule
    BY <1>5 DEF ApartInv, StoresOK
  <2>2. PICK t \in Schedule : t = journal'.schedule
    BY <2>1
  <2> QED
    BY <1>2, <2>1, <2>2
<1>6. StoresOK'
  BY DEF ApartInv, StoresOK
<1> QED
  BY <1>2, <1>3, <1>4, <1>5, <1>6 DEF ApartInv

LEMMA ApartOpen ==
  ASSUME ApartInv, NEW p \in Proc, Open(p)
  PROVE  ApartInv'
<1>1. op[p].step \notin Importing \cup Recovering
  BY AtRest DEF Open, AtStep
<1>2. UNCHANGED <<source, old, target, task, journal, holder, first, edited>>
  BY DEF Open, stores, ghosts
<1>3. CASE op' = [op EXCEPT ![p] = Rest(p)]
  <2>1. PICK o \in Doing : o = Rest(p) /\ o.step \in {"idle", "gone"}
    BY RestOK
  <2>2. o.step \notin Importing \cup Recovering \cup {"wait"}
    BY <2>1, AtRest
  <2> QED
    BY <1>1, <1>2, <1>3, <2>1, <2>2, ApartRests
<1>4. CASE journal # Nil /\ op' = [op EXCEPT ![p] =
             [Resting EXCEPT !.step = "wait", !.schedule = journal.schedule, !.enabled = journal.oldEnabled]]
  <2>1. journal \in [schedule : Schedule, oldEnabled : BOOLEAN]
    BY <1>4 DEF ApartInv, StoresOK
  <2>2. [Resting EXCEPT !.step = "wait", !.schedule = journal.schedule, !.enabled = journal.oldEnabled] \in Doing
    BY <2>1 DEF Resting, Doing, Task
  <2>3. PICK o \in Doing : o = [Resting EXCEPT !.step = "wait", !.schedule = journal.schedule,
                                               !.enabled = journal.oldEnabled]
    BY <2>2
  <2>4. o.step = "wait" /\ o.schedule = journal.schedule
    BY <2>3 DEF Resting
  <2>5. o.schedule \in Schedule /\ (o.schedule \notin edited => ~Refused(o.schedule))
    BY <1>4, <2>1, <2>4 DEF ApartInv
  <2>6. o.step \notin Importing \cup Recovering
    BY <2>4, AtRest
  <2> QED
    BY <1>1, <1>2, <1>4, <2>3, <2>4, <2>5, <2>6, ApartRests
<1> QED
  BY <1>3, <1>4 DEF Open

LEMMA ApartGiveUp ==
  ASSUME ApartInv, NEW p \in Proc, GiveUpWaiting(p) \/ (p \in Window /\ Close(p))
  PROVE  ApartInv'
<1>1. op[p].step \notin Importing \cup Recovering
  BY AtRest DEF GiveUpWaiting, Close, AtStep
<1>2. PICK o \in Doing : op' = [op EXCEPT ![p] = o] /\ o.step \in {"off", "idle", "gone"}
  BY RestOK DEF GiveUpWaiting, Close
<1>3. UNCHANGED <<source, old, target, task, journal, holder, first, edited>>
  BY DEF GiveUpWaiting, Close, stores, ghosts
<1>4. o.step \notin Importing \cup Recovering \cup {"wait"}
  BY <1>2, AtRest
<1> QED
  BY <1>1, <1>2, <1>3, <1>4, ApartRests

LEMMA ApartCrash ==
  ASSUME ApartInv, NEW p \in Proc, Crash(p)
  PROVE  ApartInv'
<1>1. PICK o \in Doing : op' = [op EXCEPT ![p] = o] /\ o.step \in {"off", "gone"}
  BY RestOK DEF Crash
<1>2. /\ UNCHANGED <<source, old, target, task, journal, ghosts, first, edited>>
      /\ holder' = IF holder = p THEN Nil ELSE holder
  BY DEF Crash, stores, ghosts
<1>3. o.step \notin Importing \cup Recovering \cup {"wait"}
  BY <1>1, AtRest
<1>4. CASE op[p].step \in Importing \cup Recovering
  <2>1. PICK s \in Schedule : s = op[p].schedule
    BY <1>4, ApartAtWork
  <2>2. holder' = Nil
    BY <1>2, <1>4, ApartAtWork
  <2>3. StoresOK' /\ Elsewhere(s) /\ (Apart(s) => Apart(s)')
    BY <1>2 DEF ApartInv, StoresOK, Elsewhere, Apart, Refused, OldTask, Untouched
  <2>4. op' \in [Proc -> Doing] /\ (\A q \in Proc \ {p} : op'[q] = op[q]) /\ op'[p] = o
    BY <1>1 DEF ApartInv, WorkersOK
  <2>5. s \notin edited => Apart(s)
    BY DEF ApartInv
  <2> QED
    BY <1>1, <1>2, <1>3, <1>4, <2>1, <2>2, <2>3, <2>4, <2>5, ApartStep
<1>5. CASE op[p].step \notin Importing \cup Recovering
  <2>1. holder' = holder
    BY <1>2, <1>5 DEF ApartInv, WorkersOK
  <2> QED
    BY <1>1, <1>2, <1>3, <1>5, <2>1, ApartRests
<1> QED
  BY <1>4, <1>5

\* Nothing is asked of the journal that the recovery has read before.
LEMMA ApartEnter ==
  ASSUME ApartInv, NEW p \in Proc, Enter(p)
  PROVE  ApartInv'
<1>1. op[p].step = "wait" /\ holder = Nil /\ holder' = p /\ op[p].step \notin Importing \cup Recovering
  BY AtRest DEF Enter, AtStep
<1>2. PICK s \in Schedule : s = op[p].schedule
  BY <1>1 DEF ApartInv, WorkersOK
<1>3. PICK st \in {"commit", "roll back"} : Go(p, st)
  BY <1>2 DEF Enter
<1>4. st \in Recovering /\ st \notin Importing /\ st # "wait"
  BY DEF Recovering, Importing
<1>5. UNCHANGED <<source, old, target, task, journal, first, edited>>
  BY DEF Enter, stores, ghosts
<1>6. op \in [Proc -> Doing] /\ op'[p] = [op[p] EXCEPT !.step = st] /\ op[p] \in Doing
  BY <1>3 DEF ApartInv, WorkersOK, Go
<1>7. PICK o \in Doing : o = op'[p] /\ o.step = st /\ o.schedule = s
  BY <1>2, <1>4, <1>6 DEF Doing
<1>8. op' = [op EXCEPT ![p] = o]
  BY <1>3, <1>6, <1>7 DEF Go
<1>9. ASSUME s \notin edited PROVE ApartAt(p, s)'
  <2>1. ~Refused(s)'
    BY <1>1, <1>2, <1>5, <1>9, FirstStays DEF ApartInv
  <2> QED
    BY <1>3, <1>4, <1>7, <2>1 DEF ApartAt
<1> QED
  BY <1>1, <1>2, <1>4, <1>5, <1>7, <1>8, <1>9, ApartRests

LEMMA ApartBegin ==
  ASSUME ApartInv, NEW w \in Window, NEW s \in Schedule, Begin(w, s)
  PROVE  ApartInv'
<1> DEFINE new == [Resting EXCEPT !.step = "create", !.schedule = s, !.old = old[s],
                                  !.wasEnabled = source[s].enabled]
<1>1. /\ w \in Proc /\ op[w].step \notin Importing \cup Recovering
      /\ holder = Nil /\ holder' = w /\ op' = [op EXCEPT ![w] = new]
  BY AtRest DEF Begin, AtStep, Proc
<1>2. new \in Doing
  BY StoresAt DEF ApartInv, Resting, Doing, Importing
<1>3. PICK o \in Doing : o = new
  BY <1>2
<1>4. o.step = "create" /\ o.schedule = s /\ o.step \in Importing
  BY <1>3 DEF Resting, Importing
<1> HIDE DEF new
<1>5. UNCHANGED <<source, old, target, task, first, edited>>
  BY DEF Begin, stores, ghosts
<1>6. journal' \in [schedule : Schedule, oldEnabled : BOOLEAN] /\ journal'.schedule = s
  BY DEF Begin, Marked
<1>7. ASSUME s \notin edited PROVE ~Refused(s)
  <2>1. Apart(s) /\ source[s].whole /\ old[s] # "foreign"
    BY <1>7 DEF ApartInv, Begin, Importable, TaskMatches
  <2> QED
    BY <2>1 DEF Apart, Refused, Untouched, OldTask
<1>8. op'[w] = o /\ o.step \notin Recovering \cup {"wait", "enable", "disable"}
  BY <1>1, <1>3, <1>4 DEF ApartInv, WorkersOK, Recovering
<1>9. ASSUME s \notin edited PROVE ApartAt(w, s)'
  <2>1. ~Refused(s)' /\ NotHere(s)'
    BY <1>5, <1>7, <1>9, FirstStays DEF Begin, Importable, NotHere
  <2>2. op'[w].step = "create"
    BY <1>4, <1>8
  <2> QED
    BY <2>1, <2>2 DEF ApartAt
<1> QED
  BY <1>1, <1>3, <1>4, <1>5, <1>6, <1>7, <1>8, <1>9, ApartRests

LEMMA ApartEdit ==
  ASSUME ApartInv, NEW w \in Window, Edit(w)
  PROVE  ApartInv'
<1>1. PICK s \in Schedule \ edited : (Delete(s) \/ Switch(s) \/ RemoveExternal(s)) /\ edited' = edited \cup {s}
  BY DEF Edit
<1>2. UNCHANGED <<journal, holder, op, first>>
  BY DEF Edit
<1>3. StoresOK' /\ Elsewhere(s) /\ WorkersOK'
  <2>1. StoresOK /\ WorkersOK
    BY DEF ApartInv
  <2>2. StoresOK' /\ Elsewhere(s)
    BY <1>1, <1>2, <2>1 DEF Target, StoresOK, Elsewhere, Delete, Switch, RemoveExternal, Task
  <2>3. WorkersOK'
    BY <1>2, <2>1 DEF WorkersOK
  <2> QED
    BY <2>2, <2>3
<1>4. \A t \in Schedule \ edited' : Apart(t)'
  BY <1>1, <1>2, <1>3, ApartElsewhere DEF ApartInv
<1>5. ASSUME NEW q \in Proc, op[q].schedule \in Schedule \ edited'
      PROVE  /\ op[q].step \in Importing \cup Recovering => ApartAt(q, op[q].schedule)'
             /\ op[q].step = "wait" => ~Refused(op[q].schedule)'
  <2>1. PICK t \in Schedule \ edited : t = op[q].schedule /\ t # s
    BY <1>1, <1>5
  <2>2. ApartAt(q, t)' = ApartAt(q, t) /\ Refused(t)' = Refused(t)
    BY <1>2, <1>3, <2>1, FirstStays DEF Elsewhere, ApartAt, NotHere
  <2> QED
    BY <1>2, <2>1, <2>2 DEF ApartInv
<1>6. ASSUME journal' # Nil, journal'.schedule \notin edited' PROVE ~Refused(journal.schedule)'
  <2>1. ~Refused(journal.schedule)
    BY <1>1, <1>2, <1>6 DEF ApartInv
  <2>2. PICK t \in Schedule : t = journal.schedule
    BY <1>2, <1>6 DEF ApartInv, StoresOK
  <2> QED
    BY <1>2, <2>1, <2>2, FirstStays
<1> QED
  BY <1>2, <1>3, <1>4, <1>5, <1>6 DEF ApartInv

LEMMA ApartStays ==
  ASSUME ApartInv, UNCHANGED <<source, old, target, task, journal, holder, op, first, edited>>
  PROVE  ApartInv'
BY DEF ApartInv, StoresOK, WorkersOK, Apart, ApartAt, NotHere, Refused, OldTask, Untouched

LEMMA ApartKept ==
  ASSUME ApartInv, [ImportNext]_importVars
  PROVE  ApartInv'
<1>1. ASSUME NEW w \in Window, Import(w) PROVE ApartInv'
  <2>1. w \in Proc
    BY DEF Proc
  <2> QED
    BY <1>1, <2>1, ApartCreate, ApartDisableOld, ApartEnableTarget, ApartMarkSource, ApartStepFails,
       ApartMergeHistory, ApartDeleteOld, ApartDeleteOldFails, ApartUndoSource, ApartUndoTarget,
       ApartUndoOld, ApartLastSteps DEF Import
<1>2. ASSUME NEW w \in Window, Edit(w) \/ Close(w) \/ \E s \in Schedule : Begin(w, s) PROVE ApartInv'
  <2>1. w \in Proc
    BY DEF Proc
  <2> QED
    BY <1>2, <2>1, ApartEdit, ApartGiveUp, ApartBegin
<1>3. ASSUME NEW p \in Proc, Recover(p) \/ RecoveryFails(p) \/ Crash(p) PROVE ApartInv'
  BY <1>3, ApartOpen, ApartEnter, ApartGiveUp, ApartCommit, ApartCommitOld, ApartLastSteps,
     ApartRollBack, ApartRollBackOld, ApartCrash DEF Recover
<1>4. CASE Fire \/ RunEnds \/ UNCHANGED importVars
  BY <1>4, ApartStays DEF Fire, RunEnds, importVars, stores, ghosts
<1> QED
  BY <1>1, <1>2, <1>3, <1>4 DEF ImportNext

-----------------------------------------------------------------------------
(* The import: the theorems *)

LEMMA ImportStarts == ImportInit => ImportInv
<1> SUFFICES ASSUME ImportInit PROVE ImportInv
  OBVIOUS
<1> DEFINE Beginnings == {<<TRUE, "enabled", TRUE>>, <<TRUE, "disabled", TRUE>>,
                          <<TRUE, Nil, TRUE>>, <<FALSE, Nil, TRUE>>,
                          <<TRUE, "foreign", TRUE>>, <<TRUE, "enabled", FALSE>>}
<1>1. PICK f \in [Schedule -> Beginnings] :
        /\ source = [s \in Schedule |->
             [enabled |-> f[s][1], migrated |-> FALSE, cleanup |-> Nil, whole |-> f[s][3]]]
        /\ old = [s \in Schedule |-> f[s][2]]
        /\ first = f
  BY DEF ImportInit
<1>2. /\ target = [s \in Schedule |-> Nil] /\ task = [s \in Schedule |-> FALSE]
      /\ journal = Nil /\ holder = Nil /\ op = [p \in Proc |-> Off] /\ edited = {}
  BY DEF ImportInit
<1>3. Beginnings \subseteq BOOLEAN \X Task \X BOOLEAN
  <2>1. \A a, c \in BOOLEAN, b \in Task : <<a, b, c>> \in BOOLEAN \X Task \X BOOLEAN
    OBVIOUS
  <2>2. {Nil, "enabled", "disabled", "foreign"} \subseteq Task /\ TRUE \in BOOLEAN /\ FALSE \in BOOLEAN
    BY DEF Task
  <2> QED
    BY <2>1, <2>2
<1>4. \A s \in Schedule : f[s] \in BOOLEAN \X Task \X BOOLEAN
  BY <1>1, <1>3
<1> HIDE DEF Beginnings
<1>5. StoresOK
  <2>1. source \in [Schedule -> Registration] /\ old \in [Schedule -> Task] /\ first \in [Schedule -> BOOLEAN \X Task \X BOOLEAN]
    BY <1>1, <1>3, <1>4 DEF Registration
  <2> QED
    BY <1>2, <2>1 DEF StoresOK, Target
<1>6. \A p \in Proc : op[p] \in Doing /\ op[p].step = "off"
  BY <1>2, RestOK
<1>7. WorkersOK /\ WorkOK
  <2>1. \A p \in Proc : op[p].step \notin Importing \cup Recovering \cup {"wait"}
    BY <1>6, AtRest
  <2>2. \A p \in Proc : holder # p
    BY <1>2, NilIsNoState
  <2>3. op \in [Proc -> Doing]
    BY <1>2, <1>6
  <2>4. WorkersOK
    BY <1>2, <2>1, <2>2, <2>3 DEF WorkersOK
  <2>5. WorkOK
    BY <2>1 DEF WorkOK
  <2> QED
    BY <2>4, <2>5
<1>8. ASSUME NEW s \in Schedule PROVE Coherent(s)
  <2>1. /\ source[s].enabled = f[s][1] /\ ~source[s].migrated /\ source[s].whole = f[s][3]
        /\ old[s] = f[s][2] /\ first[s] = f[s] /\ target[s] = Nil /\ ~task[s] /\ ~Named(s)
    BY <1>1, <1>2 DEF Named
  <2>2. Untouched(s)
    BY <2>1 DEF Untouched
  <2> QED
    BY <1>4, <2>1, <2>2, NilIsNoState DEF Coherent, WasEnabled, OldTask
<1> QED
  BY <1>5, <1>7, <1>8 DEF ImportInv

LEMMA ImportKept ==
  ASSUME ImportInv, OneJournal, [ImportNext]_importVars
  PROVE  ImportInv'
<1>1. ASSUME NEW w \in Window, Import(w) PROVE ImportInv'
  BY <1>1, ImportKeeps
<1>2. ASSUME NEW w \in Window, Edit(w) PROVE ImportInv'
  BY <1>2, EditKeeps
<1>3. ASSUME NEW w \in Window, Close(w) PROVE ImportInv'
  BY <1>3, CloseKeeps
<1>4. ASSUME NEW w \in Window, NEW s \in Schedule, Begin(w, s) PROVE ImportInv'
  BY <1>4, BeginKeeps
<1>5. ASSUME NEW p \in Proc, Recover(p) PROVE ImportInv'
  BY <1>5, OpenKeeps, EnterKeeps, GiveUpWaitingKeeps, CommitKeeps, CommitOldKeeps, CommittedKeeps,
     RollBackKeeps, RollBackOldKeeps, RollBackSourceKeeps DEF Recover
<1>6. ASSUME NEW p \in Proc, RecoveryFails(p) PROVE ImportInv'
  BY <1>6, RecoveryFailsKeeps
<1>7. ASSUME NEW p \in Proc, Crash(p) PROVE ImportInv'
  BY <1>7, CrashKeeps
<1>8. CASE Fire \/ RunEnds
  BY <1>8, NothingChanges DEF Fire, RunEnds, stores, ghosts
<1>9. CASE UNCHANGED importVars
  BY <1>9, NothingChanges DEF importVars, stores, ghosts
<1> QED
  BY <1>1, <1>2, <1>3, <1>4, <1>5, <1>6, <1>7, <1>8, <1>9 DEF ImportNext

LEMMA OwnedFollows == ImportInv => OwnedOnce
<1> SUFFICES ASSUME ImportInv PROVE OwnedOnce
  OBVIOUS
<1>1. ImportTypeOK
  <2>1. ASSUME NEW s \in Schedule
        PROVE  /\ source[s].enabled \in BOOLEAN /\ source[s].migrated \in BOOLEAN
               /\ source[s].cleanup \in {Nil, "PENDING", "COMPLETED"}
               /\ old[s] \in {Nil, "enabled", "disabled", "foreign"}
               /\ target[s] \in {Nil, "enabled", "disabled", "damaged"} /\ task[s] \in BOOLEAN
    BY StoresAt DEF ImportInv, Registration, Task, Target
  <2>2. journal # Nil => journal.schedule \in Schedule /\ journal.oldEnabled \in BOOLEAN
    BY DEF ImportInv, Target, StoresOK
  <2>3. holder \in Proc \cup {Nil} /\ \A p \in Proc : op[p].schedule \in Schedule \cup {Nil}
    BY DEF ImportInv, WorkersOK, Doing
  <2> QED
    BY <2>1, <2>2, <2>3 DEF ImportTypeOK
<1>2. ImportNeverEnablesBoth
  BY DEF ImportNeverEnablesBoth, ImportInv, Coherent
<1>3. HalfImportedIsMarked
  BY DEF HalfImportedIsMarked, ImportInv, Coherent, Named
<1>4. RefusedStaysPut
  BY DEF RefusedStaysPut, ImportInv, Coherent, Refused, OldTask
<1> QED
  BY <1>1, <1>2, <1>3, <1>4 DEF OwnedOnce

LEMMA ApartStarts == ImportInit => ApartInv
<1> SUFFICES ASSUME ImportInit PROVE ApartInv
  OBVIOUS
<1>1. ImportInv
  BY ImportStarts
<1>2. journal = Nil /\ \A p \in Proc : op[p].step = "off"
  BY RestOK DEF ImportInit
<1>3. \A p \in Proc : op[p].step \notin Importing \cup Recovering \cup {"wait"}
  BY <1>2, AtRest
<1>4. \A s \in Schedule \ edited : Apart(s)
  BY <1>1 DEF ImportInv, Coherent, Apart
<1> QED
  BY <1>1, <1>2, <1>3, <1>4 DEF ImportInv, ApartInv

\* Of any number of schedules, with any number of windows and starting runs, whatever
\* fails or dies and whichever journal a recovery has read: the old task and the new one
\* of a schedule are never enabled at once, and what the inspection refuses stays in the
\* old place as it is (import_external_schedule, _recover_migration_journal).
THEOREM NeverTwoTasks == ImportSpec => [](ImportNeverEnablesBoth /\ RefusedStaysPut)
<1>1. ImportInit => ApartInv
  BY ApartStarts
<1>2. ApartInv /\ [ImportNext]_importVars => ApartInv'
  BY ApartKept
<1>3. ApartInv => ImportNeverEnablesBoth /\ RefusedStaysPut
  BY DEF ApartInv, Apart, Refused, OldTask, ImportNeverEnablesBoth, RefusedStaysPut
<1> QED
  BY <1>1, <1>2, <1>3, PTL DEF ImportSpec

LEMMA OneScheduleOneJournal ==
  ASSUME \A s, t \in Schedule : s = t, ImportInv
  PROVE  OneJournal
<1> SUFFICES ASSUME NEW p \in Proc, op[p].step = "wait", journal # Nil
             PROVE  journal.schedule = op[p].schedule
  BY DEF OneJournal
<1>1. journal.schedule \in Schedule
  BY DEF ImportInv, Target, StoresOK
<1>2. op[p].schedule \in Schedule
  BY DEF ImportInv, WorkersOK
<1> QED
  BY <1>1, <1>2

\* An import on its own needs no such condition: with one schedule to take over, and
\* any number of windows and starting runs, the journal that a recovery has read is the
\* only one that there can be.
THEOREM OwnedAlone ==
  ASSUME \A s, t \in Schedule : s = t
  PROVE  ImportSpec => []OwnedOnce
<1>1. ImportInit => ImportInv
  BY ImportStarts
<1>2. ImportInv /\ [ImportNext]_importVars => ImportInv'
  BY ImportKept, OneScheduleOneJournal
<1>3. ImportInv => OwnedOnce
  BY OwnedFollows
<1> QED
  BY <1>1, <1>2, <1>3, PTL DEF ImportSpec

=============================================================================
