------------------------------ MODULE RunGuard ------------------------------
(***************************************************************************)
(* One named guard of src/src/app/run_guard.py: RunGuard.try_acquire over  *)
(* the lock of its instance and, below it, the mutex of the operating      *)
(* system, call by call.  On Windows the exclusion rests on the existence  *)
(* of the named kernel object (ERROR_ALREADY_EXISTS), not on waiting for   *)
(* its ownership: the object lives as long as any handle to it is open,    *)
(* the handles of refused callers included.  Elsewhere it rests on flock.  *)
(* A process that ends loses its memory, and the system closes its handles.*)
(***************************************************************************)
EXTENDS FiniteSets

CONSTANTS Caller,       \* threads that enter "with guard.try_acquire()"
          Instance,     \* RunGuard objects made with the same name
          Process,      \* operating-system processes
          InstanceOf,   \* the RunGuard object a caller uses
          ProcessOf,    \* the process a caller runs in
          OnWindows,    \* systems considered: TRUE with _WindowsNamedMutex,
                        \* FALSE with _PosixFileMutex
          None          \* no caller

\* A RunGuard object lives in the memory of one process.
ASSUME GuardAssumption ==
  /\ InstanceOf \in [Caller -> Instance]
  /\ ProcessOf \in [Caller -> Process]
  /\ OnWindows \subseteq BOOLEAN
  /\ None \notin Caller
  /\ \A c, d \in Caller :
        InstanceOf[c] = InstanceOf[d] => ProcessOf[c] = ProcessOf[d]

VARIABLES windows,  \* the system, which does not change
          pc,       \* where each caller is in try_acquire
          local,    \* owner of the instance lock (self._lock)
          handles,  \* callers with an open handle (Windows) or file (Posix)
          locker    \* whose handle made the kernel object, or has the flock

vars == <<windows, pc, local, handles, locker>>

Step == {"idle", "entered", "closing_refused", "refused", "held",
         "closing", "unlocking"}

\* The steps at which a caller has a handle of its own to close.
HandleStep == {"closing_refused", "held", "closing"}

TypeOK ==
  /\ windows \in OnWindows
  /\ pc \in [Caller -> Step]
  /\ local \in [Instance -> Caller \cup {None}]
  /\ handles \in SUBSET Caller
  /\ locker \in Caller \cup {None}

Init ==
  /\ windows \in OnWindows
  /\ pc = [c \in Caller |-> "idle"]
  /\ local = [i \in Instance |-> None]
  /\ handles = {}
  /\ locker = None

At(c, from, to) ==
  pc[c] = from /\ pc' = [pc EXCEPT ![c] = to] /\ UNCHANGED windows

-----------------------------------------------------------------------------
(* try_acquire, up to its yield. *)

\* self._lock.acquire(blocking=False) succeeds
EnterLocal(c) ==
  /\ At(c, "idle", "entered")
  /\ local[InstanceOf[c]] = None
  /\ local' = [local EXCEPT ![InstanceOf[c]] = c]
  /\ UNCHANGED <<handles, locker>>

\* ... or fails: yield False, and there is nothing to undo.
RefusedLocally(c) ==
  /\ At(c, "idle", "refused")
  /\ local[InstanceOf[c]] # None
  /\ UNCHANGED <<local, handles, locker>>

\* Mutant: ERROR_ALREADY_EXISTS and BlockingIOError are not looked at.
UnownedAssumed == TRUE

\* Nobody is in the way of a new owner: the object does not exist yet
\* (CreateMutexW), or nobody has the lock on the file (flock).
Unowned == IF windows THEN handles = {} ELSE locker = None

\* The mutex is obtained: yield True.
TakeMutex(c) ==
  /\ At(c, "entered", "held")
  /\ Unowned
  /\ handles' = handles \cup {c}
  /\ locker' = c
  /\ UNCHANGED local

\* ERROR_ALREADY_EXISTS or BlockingIOError: the new handle must be closed.
MutexExists(c) ==
  /\ At(c, "entered", "closing_refused")
  /\ ~Unowned
  /\ handles' = handles \cup {c}
  /\ UNCHANGED <<local, locker>>

CloseRefused(c) ==
  /\ At(c, "closing_refused", "refused")
  /\ handles' = handles \ {c}
  /\ UNCHANGED <<local, locker>>

\* OSError is taken for a refusal.
MutexError(c) ==
  /\ At(c, "entered", "refused")
  /\ UNCHANGED <<local, handles, locker>>

-----------------------------------------------------------------------------
(* try_acquire, its finally. *)

\* ReleaseMutex or LOCK_UN.  On Windows the object outlives its ownership.
ReleaseMutex(c) ==
  /\ At(c, "held", "closing")
  /\ locker' = None
  /\ UNCHANGED <<local, handles>>

CloseHandle(c) ==
  /\ At(c, "closing", "unlocking")
  /\ handles' = handles \ {c}
  /\ UNCHANGED <<local, locker>>

\* Mutant: a caller that was refused returns without releasing self._lock.
UnlockLocalIfHeld(c) ==
  \/ /\ At(c, "unlocking", "idle")
     /\ local' = [local EXCEPT ![InstanceOf[c]] = None]
     /\ UNCHANGED <<handles, locker>>
  \/ At(c, "refused", "idle") /\ UNCHANGED <<local, handles, locker>>

\* if local_acquired: self._lock.release()
UnlockLocal(c) ==
  /\ \/ At(c, "unlocking", "idle")
     \/ At(c, "refused", "idle")
  /\ local' = IF local[InstanceOf[c]] = c
              THEN [local EXCEPT ![InstanceOf[c]] = None]
              ELSE local
  /\ UNCHANGED <<handles, locker>>

-----------------------------------------------------------------------------

\* The process p ends at any point: a later process takes its names over.
ProcessEnds(p) ==
  LET gone == {c \in Caller : ProcessOf[c] = p} IN
  /\ \E c \in gone : pc[c] # "idle"
  /\ pc' = [c \in Caller |-> IF c \in gone THEN "idle" ELSE pc[c]]
  /\ local' = [i \in Instance |-> IF local[i] \in gone THEN None ELSE local[i]]
  /\ handles' = handles \ gone
  /\ locker' = IF locker \in gone THEN None ELSE locker
  /\ UNCHANGED windows

TryAcquire(c) ==
  \/ EnterLocal(c)
  \/ RefusedLocally(c)
  \/ TakeMutex(c)
  \/ MutexExists(c)
  \/ CloseRefused(c)
  \/ MutexError(c)
  \/ ReleaseMutex(c)
  \/ CloseHandle(c)
  \/ UnlockLocal(c)

Next ==
  \/ \E c \in Caller : TryAcquire(c)
  \/ \E p \in Process : ProcessEnds(p)

Spec == Init /\ [][Next]_vars

-----------------------------------------------------------------------------
(* Properties *)

\* At most one caller, of all threads of all processes, is inside the body of
\* "with guard.try_acquire() as acquired" with acquired = True.
MutualExclusion ==
  \A c, d \in Caller : pc[c] = "held" /\ pc[d] = "held" => c = d

\* The open handles are exactly those of callers that still will close them:
\* a handle that nobody closes would refuse every later run on Windows.
HandlesAccountedFor == handles = {c \in Caller : pc[c] \in HandleStep}

\* When nobody is inside try_acquire the guard can be taken again: neither a
\* refusal nor the end of a process leaves the lock of an instance, a handle
\* or a file lock behind.
NothingLeftBehind ==
  (\A c \in Caller : pc[c] = "idle")
    => /\ handles = {}
       /\ locker = None
       /\ \A i \in Instance : local[i] = None

\* Why MutualExclusion holds: the lock below the guard has one owner, which is the
\* caller inside the body, and on both systems the owner has a handle open.
LockerInside ==
  /\ locker # None => pc[locker] = "held"
  /\ \A c \in Caller : pc[c] = "held" => locker = c

\* An instance lock belongs to a caller of that instance that is between
\* EnterLocal and UnlockLocal, and every such caller has it.
LocalAccountedFor ==
  /\ \A i \in Instance : local[i] # None =>
        InstanceOf[local[i]] = i /\ pc[local[i]] # "idle"
  /\ \A c \in Caller : pc[c] \in HandleStep \cup {"entered", "unlocking"} =>
        local[InstanceOf[c]] = c

-----------------------------------------------------------------------------
(* Refinement *)

\* The caller inside the body is the holder of the abstract guard.
Lock == INSTANCE TryLock WITH holder <- locker

\* try_acquire implements the non-blocking lock TryLock.
ImplementsTryLock == Lock!Spec
=============================================================================
