------------------------------ MODULE Identity ------------------------------
(***************************************************************************)
(* The identifiers that processes agree on before they share anything.     *)
(* The queue (app/run_queue.py) and the schedule service                   *)
(* (scheduler/service.py) of every process of a user use the identifier in *)
(* one file per user, which names the directory and the guards of the run  *)
(* queue; the processes of one installation use the identifier in a file   *)
(* of the installation, which names its Windows tasks.  A file that is not *)
(* there is created with a new identifier or with one of an older version, *)
(* first (mode "x") empty and then written, by whoever comes first.        *)
(*                                                                         *)
(* The guard of module RunGuard is here the state lock of the queue: a     *)
(* thread can ask for it when its process knows where the queue is.        *)
(***************************************************************************)
EXTENDS RunGuard, Naturals

CONSTANTS Installation,    \* directories the program is installed in
          FreshOf,         \* the random identifier a process would draw
          Identifier,      \* all identifiers
          Sites,           \* installations and what they bring along, see site
          User,            \* the file all processes of the user share
          Broken,          \* a registry that cannot be read
          Empty            \* a file that was created and not written yet

Files == Installation \cup {User}

ASSUME IdentityAssumption ==
  /\ FreshOf \in [Process -> Identifier]
  /\ Sites \subseteq [home   : [Process -> Installation],
                      legacy : [Installation -> Identifier \cup {None}],
                      tasks  : [Installation -> (SUBSET Identifier) \cup {{Broken}}]]
  /\ User \notin Installation
  /\ Broken \notin Identifier
  /\ {None, Empty} \cap Identifier = {}
  /\ None # Empty

VARIABLES
    site,   \* home: the installation a process was started from; legacy:
            \* config/install-id of an installation; tasks: the namespaces in
            \* the task names of its registry
    file,   \* None, Empty or the identifier in a file
    id,     \* what RunQueue took its root from, and _coordination_id and
            \* _task_namespace_id of the service, for each process
    act     \* where a process is in getting one of them

idVars == <<site, file, id, act>>

Kind == {"queue", "coordination", "namespace"}

\* The file an identifier of a process is kept in.
FileOf(p, k) == IF k = "namespace" THEN site.home[p] ELSE User

\* want is written if the file is new; after says what namespace is wanted when
\* the coordination identifier is known.
Act == [step : {"idle", "read", "create", "write", "await"}, kind : Kind,
        want : Identifier \cup {None}, after : {"nothing", "legacy", "same"}]

Idle == [step |-> "idle", kind |-> "queue", want |-> None, after |-> "nothing"]

IdTypeOK ==
  /\ site \in Sites
  /\ file \in [Files -> Identifier \cup {None, Empty}]
  /\ id \in [Process -> [Kind -> Identifier \cup {None}]]
  /\ act \in [Process -> Act]

IdInit ==
  /\ site \in Sites
  /\ file = [f \in Files |-> None]
  /\ id = [p \in Process |-> [k \in Kind |-> None]]
  /\ act = [p \in Process |-> Idle]

-----------------------------------------------------------------------------
(* Looking for a file *)

\* p goes on with a file that is there, or creates it.
LookFor(p, k, want, after) ==
  act' = [act EXCEPT ![p] =
            [step |-> IF file[FileOf(p, k)] # None THEN "read" ELSE "create",
             kind |-> k, want |-> want, after |-> after]]

\* p starts to get an identifier it does not have.
Starts(p, k) ==
  /\ act[p].step = "idle"
  /\ id[p][k] = None
  /\ UNCHANGED <<site, file, id>>

LegacyId(p) == site.legacy[site.home[p]]

FreshId(p) == FreshOf[p]

\* _load_or_create_install_id of the run queue: the identifier of an older
\* version of this installation, or a new one.
QueueLooks(p) ==
  /\ Starts(p, "queue")
  /\ LookFor(p, "queue",
             IF LegacyId(p) = None THEN FreshId(p) ELSE LegacyId(p), "nothing")

\* _load_or_create_coordination_id of the service: a new identifier only.
CoordinationLooks(p) ==
  /\ Starts(p, "coordination")
  /\ LookFor(p, "coordination", FreshId(p), "nothing")

\* Namespaces in the task names of the registry (_namespace_from_existing_registry).
Inherited(p) == site.tasks[site.home[p]]

\* The file of the installation is created without looking for it again.
CreatesNamespace(p, want) ==
  act' = [act EXCEPT ![p] = [step |-> "create", kind |-> "namespace",
                             want |-> want, after |-> "nothing"]]

\* The registry cannot be read: the namespace is the coordination identifier.
NamespaceOfBroken(p) ==
  /\ Inherited(p) = {Broken}
  /\ IF id[p]["coordination"] = None
     THEN LookFor(p, "coordination", FreshId(p), "same")
     ELSE CreatesNamespace(p, id[p]["coordination"])

\* The tasks have one namespace: it stays.
NamespaceOfTasks(p) ==
  \E n \in Inherited(p) \ {Broken} : Inherited(p) = {n} /\ CreatesNamespace(p, n)

\* They have several: an error.
NamespaceConflict(p) == Cardinality(Inherited(p)) > 1 /\ UNCHANGED act

\* No tasks: the identifier of an older version, which is also offered to the
\* user's file, without looking for that file first, or a new one.
NamespaceOfNone(p) ==
  /\ Inherited(p) = {}
  /\ IF LegacyId(p) # None /\ id[p]["coordination"] = None
     THEN act' = [act EXCEPT ![p] = [step |-> "create", kind |-> "coordination",
                                     want |-> LegacyId(p), after |-> "legacy"]]
     ELSE CreatesNamespace(p, IF LegacyId(p) # None THEN LegacyId(p) ELSE FreshId(p))

\* _load_or_create_task_namespace_id
NamespaceLooks(p) ==
  /\ Starts(p, "namespace")
  /\ IF file[site.home[p]] # None
     THEN LookFor(p, "namespace", None, "nothing")
     ELSE \/ NamespaceOfBroken(p)
          \/ NamespaceOfTasks(p)
          \/ NamespaceConflict(p)
          \/ NamespaceOfNone(p)

-----------------------------------------------------------------------------
(* _write_identifier_once, and what it returns *)

ActFile(p) == FileOf(p, act[p].kind)

\* The identifier is had, and the namespace may come next.
Have(p, value) ==
  /\ id' = [id EXCEPT ![p][act[p].kind] = value]
  /\ CASE act[p].after = "nothing" -> act' = [act EXCEPT ![p] = Idle]
       [] act[p].after = "legacy" -> CreatesNamespace(p, LegacyId(p))
       [] act[p].after = "same" -> CreatesNamespace(p, value)
  /\ UNCHANGED site

\* An error: nothing is remembered, and a later call begins again.
Fail(p) ==
  /\ act' = [act EXCEPT ![p] = Idle]
  /\ UNCHANGED <<site, file, id>>

\* A file that was there is read once.
ReadIdentifier(p) ==
  /\ act[p].step = "read"
  /\ file[ActFile(p)] \in Identifier
  /\ Have(p, file[ActFile(p)])
  /\ UNCHANGED file

\* ... and an empty one is an error: its writer may still be at it.
ReadEmpty(p) ==
  /\ act[p].step = "read"
  /\ file[ActFile(p)] \notin Identifier
  /\ Fail(p)

\* open(..., "x")
CreateFile(p) ==
  /\ act[p].step = "create"
  /\ file[ActFile(p)] = None
  /\ file' = [file EXCEPT ![ActFile(p)] = Empty]
  /\ act' = [act EXCEPT ![p].step = "write"]
  /\ UNCHANGED <<site, id>>

\* FileExistsError: somebody was first.
FileExists(p) ==
  /\ act[p].step = "create"
  /\ file[ActFile(p)] # None
  /\ act' = [act EXCEPT ![p].step = "await"]
  /\ UNCHANGED <<site, file, id>>

\* write, flush, fsync and return.
WriteIdentifier(p) ==
  /\ act[p].step = "write"
  /\ file' = [file EXCEPT ![ActFile(p)] = act[p].want]
  /\ Have(p, act[p].want)

\* Mutant: the caller keeps its own identifier although another was first.
KeepOwn(p) ==
  /\ act[p].step = "await"
  /\ file[ActFile(p)] \in Identifier
  /\ Have(p, act[p].want)
  /\ UNCHANGED file

\* The identifier of the first one is taken.
TakeWinners(p) ==
  /\ act[p].step = "await"
  /\ file[ActFile(p)] \in Identifier
  /\ Have(p, file[ActFile(p)])
  /\ UNCHANGED file

\* The file stayed empty during all ten attempts.
GiveUp(p) ==
  /\ act[p].step = "await"
  /\ file[ActFile(p)] = Empty
  /\ Fail(p)

Resolve(p) ==
  \/ QueueLooks(p)
  \/ CoordinationLooks(p)
  \/ NamespaceLooks(p)
  \/ ReadIdentifier(p)
  \/ ReadEmpty(p)
  \/ CreateFile(p)
  \/ FileExists(p)
  \/ WriteIdentifier(p)
  \/ TakeWinners(p)
  \/ GiveUp(p)

\* A process ends between any two steps; what it wrote stays.
Forget(p) ==
  /\ id' = [id EXCEPT ![p] = [k \in Kind |-> None]]
  /\ act' = [act EXCEPT ![p] = Idle]
  /\ UNCHANGED <<site, file>>

-----------------------------------------------------------------------------
(* The queue is used *)

AllVars == <<vars, idVars>>

QueueInit == Init /\ IdInit

Resolving == \E p \in Process : Resolve(p) /\ UNCHANGED vars

\* RunQueue._state_lock of a process that has a queue.
\* Bound: the threads of a process begin when it knows all its identifiers.
Started(p) == \A k \in Kind : id[p][k] # None

Locking ==
  \E c \in Caller : Started(ProcessOf[c]) /\ TryAcquire(c) /\ UNCHANGED idVars

Ending == \E p \in Process : ProcessEnds(p) /\ Forget(p)

QueueNext == Resolving \/ Locking \/ Ending

QueueSpec == QueueInit /\ [][QueueNext]_AllVars

\* The threads of a process that knows its identifiers keep running, those that were
\* refused try again (the loops around try_acquire in RunQueue._state_lock and
\* ScheduleRunLedger._process_lock), and a mutex that can be had is not refused with
\* OSError for ever.  Nothing is assumed of the steps before that.
FairQueueSpec ==
  /\ QueueSpec
  /\ \A c \in Caller :
        /\ WF_AllVars(TryAcquire(c) /\ Started(ProcessOf[c]) /\ UNCHANGED idVars)
        /\ SF_AllVars(TakeMutex(c) /\ Started(ProcessOf[c]) /\ UNCHANGED idVars)

-----------------------------------------------------------------------------
(* Properties *)

\* All parts of all processes that know the identifier of a file agree about it:
\* two would be two queues that do not exclude one another, or tasks of one
\* installation that it does not recognise as its own.
OneIdentity ==
  \A p, q \in Process, k, l \in Kind :
    FileOf(p, k) = FileOf(q, l) /\ id[p][k] # None /\ id[q][l] # None
      => id[p][k] = id[q][l]

\* There is one queue and one caller inside its state lock: processes that agree
\* about a lock that does not exclude, or that exclude each other from the locks of
\* two queues, would serve the same ticket twice.
OneQueue == OneIdentity /\ MutualExclusion

\* Once all processes are up, callers that keep trying do not refuse one another for
\* ever: some caller gets into the guard again and again.  True of flock.  Not of
\* the Windows mutex, where the handle of a refused caller is itself a reason to
\* refuse the next one.
QueueIsReached ==
  ~windows /\ <>[](\A p \in Process : Started(p))
    => []<>(\E c \in Caller : pc[c] = "held")
=============================================================================
