--------------------------- MODULE ReclassifyProofs ---------------------------
(***************************************************************************)
(* Proofs about Reclassify, for any documents, applications, downloads,    *)
(* hands of others and deaths of the program: as long as at most one call  *)
(* of the file system has failed, what is half moved is in the journal,    *)
(* and without a journal the history tells where each document is; except  *)
(* for those whose line went into the line of a dead process, at most one  *)
(* for each death.                                                         *)
(***************************************************************************)
EXTENDS Reclassify, FiniteSetTheorems, TLAPS

-----------------------------------------------------------------------------
(* The inductive invariant *)

\* The numbers of the lines for the old place are given once.
LinesOK == \A d \in Doc : line[d].old <= loads + 1

\* From PREPARED on the journal is of the candidate at hand.
Working == {"rename", "note", "append", "mark", "finish", "failed"}

JobOK ==
  job.pc \in Working => /\ journal # None /\ journal.doc = job.doc /\ journal.op = job.op
                        /\ job.recovered

\* The history tells where the document is.
Settled(d) ==
  \/ source[d] = "own" /\ line[d].moved # line[d].old
  \/ target[d] = "own" /\ line[d].new

NotYetMoved(d) ==
  source[d] = "own" /\ target[d] = None /\ line[d].moved # line[d].old

InPlace(d) ==
  /\ target[d] = "own" /\ source[d] = (IF journal.op = "MOVE" THEN None ELSE "own")
  /\ line[d].moved = line[d].old => line[d].new

\* The journal describes what the files are, before the rename or after it.
Described(d) ==
  /\ journal.old = line[d].old
  /\ InPlace(d) \/ (journal.op = "MOVE" /\ NotYetMoved(d))

\* Nobody else has touched these.
Own == Doc \ foreign
InJournal(d) == journal # None /\ journal.doc = d

DocsOK ==
  \A d \in Own :
    /\ line[d].moved <= line[d].old
    /\ InJournal(d) => Described(d)
    /\ ~InJournal(d) => Settled(d) \/ d \in lost

\* Where the candidate at hand is on its way, unless others have touched it.
PathOK ==
  /\ At("rename") /\ job.doc \in Own =>
       IF job.op = "MOVE" THEN NotYetMoved(job.doc) ELSE InPlace(job.doc)
  /\ job.pc \in {"note", "append", "mark", "finish"} /\ job.doc \in Own => InPlace(job.doc)
  /\ job.pc \in {"mark", "finish"} /\ job.doc \in Own =>
       \/ line[job.doc].moved = line[job.doc].old /\ line[job.doc].new
       \/ job.op = "REUSE_TARGET"
       \/ job.doc \in lost

\* How an application comes to unwind: its only failure, the user, or others.
FailedOK ==
  At("failed") => \/ job.exc = "exists" /\ job.doc \notin Own
                  \/ job.exc = "error" /\ faults >= 1
                  \/ job.exc = "cancelled" /\ cancel

\* The journal that a candidate has left may be written over: its document is settled, or
\* its line was lost.
LeftOK ==
  At("next") /\ job.recovered /\ ~cancel /\ journal # None /\ journal.doc \in Own =>
    Settled(journal.doc) \/ journal.doc \in lost

\* Every line without an end is of a dead process, and costs one document its own.
LostOK == Cardinality(lost) + (IF torn THEN 1 ELSE 0) <= crashes

MovesOK == DocsOK /\ PathOK /\ FailedOK /\ LeftOK

IInv ==
  /\ TypeOK
  /\ LinesOK
  /\ JobOK
  /\ LostOK
  /\ faults < 2 => MovesOK

-----------------------------------------------------------------------------
(* What the parts depend on *)

Places == {"own", "other", None}
Lines == [old : 1 .. MaxLoad + 1, moved : 0 .. MaxLoad + 1, new : BOOLEAN]
JobType ==
  [pc : {"idle", "next", "rename", "note", "append", "mark", "finish", "failed"},
   doc : Doc \cup {None}, op : {"MOVE", "REUSE_TARGET", None}, todo : SUBSET Doc,
   recovered : BOOLEAN, exc : {None, "exists", "error", "cancelled"}]
Bounds ==
  /\ faults \in 0 .. MaxFault /\ crashes \in 0 .. MaxCrash
  /\ touches \in 0 .. MaxTouch /\ loads \in 0 .. MaxLoad

LEMMA Types ==
  TypeOK <=> /\ source \in [Doc -> Places] /\ target \in [Doc -> Places]
             /\ line \in [Doc -> Lines] /\ journal \in {None} \cup Journal
             /\ plan \in [Doc -> 0 .. MaxLoad + 1] /\ job \in JobType
             /\ torn \in BOOLEAN /\ cancel \in BOOLEAN /\ foreign \subseteq Doc
             /\ lost \subseteq Doc /\ Bounds
BY DEF TypeOK, Places, Lines, Journal, JobType, Bounds

LEMMA TypesAfter ==
  ASSUME source' \in [Doc -> Places], target' \in [Doc -> Places], line' \in [Doc -> Lines],
         journal' \in {None} \cup Journal, plan' \in [Doc -> 0 .. MaxLoad + 1],
         job' \in JobType, torn' \in BOOLEAN, cancel' \in BOOLEAN, foreign' \subseteq Doc,
         lost' \subseteq Doc, Bounds'
  PROVE  TypeOK'
BY DEF TypeOK, Places, Lines, Journal, JobType, Bounds

LEMMA Numbers == MaxFault \in Nat /\ MaxCrash \in Nat /\ MaxTouch \in Nat /\ MaxLoad \in Nat
BY ReclassifyAssumption

\* A journal is none, or is a record and tells its document.
LEMMA JournalIs ==
  ASSUME TypeOK, journal # None
  PROVE  journal \in Journal /\ journal.doc \in Doc
BY Types DEF Journal

\* A step of the application that fails once more, or does not.
LEMMA FaultsCount ==
  ASSUME TypeOK, UNCHANGED <<crashes, touches, loads>>,
         faults' = faults \/ (faults < MaxFault /\ faults' = faults + 1)
  PROVE  Bounds' /\ faults <= faults'
BY Numbers, Types DEF Bounds

LEMMA FailsIs ==
  ASSUME TypeOK, NEW pc, NEW exc, Fails(pc, exc)
  PROVE  /\ Bounds' /\ faults <= faults' /\ faults' >= 1 /\ loads' = loads
         /\ job' = [job EXCEPT !.pc = pc, !.exc = exc]
BY Numbers, Types DEF Bounds, Fails

\* Few lines are lost: nothing is torn but by a crash, and a line is lost once.
LEMMA LostFew ==
  ASSUME TypeOK
  PROVE  /\ IsFiniteSet(lost) /\ Cardinality(lost) \in Nat /\ crashes \in Nat
         /\ \A S \in SUBSET lost : Cardinality(S) \in Nat /\ Cardinality(S) <= Cardinality(lost)
         /\ \A d : Cardinality(lost \cup {d}) \in Nat /\ Cardinality(lost \cup {d}) <= Cardinality(lost) + 1
<1>1. lost \subseteq Doc /\ IsFiniteSet(Doc) /\ crashes \in Nat
  BY Types, Numbers, ReclassifyAssumption DEF Bounds
<1>2. IsFiniteSet(lost) /\ Cardinality(lost) \in Nat
  BY <1>1, FS_Subset, FS_CardinalityType
<1>3. \A S \in SUBSET lost : Cardinality(S) \in Nat /\ Cardinality(S) <= Cardinality(lost)
  BY <1>2, FS_Subset, FS_CardinalityType
<1>4. ASSUME NEW d
      PROVE  Cardinality(lost \cup {d}) \in Nat /\ Cardinality(lost \cup {d}) <= Cardinality(lost) + 1
  <2>1. CASE d \in lost
    <3>1. lost \cup {d} = lost
      BY <2>1
    <3> QED
      BY <1>2, <3>1
  <2>2. CASE d \notin lost
    BY <1>2, <2>2, FS_AddElement
  <2> QED
    BY <2>1, <2>2
<1> QED
  BY <1>1, <1>2, <1>3, <1>4

LEMMA LostFrame ==
  ASSUME TypeOK, LostOK, lost' \subseteq lost, torn' \in BOOLEAN,
         ((torn' => torn) /\ crashes' = crashes) \/ crashes' = crashes + 1
  PROVE  LostOK'
<1>1. /\ Cardinality(lost) \in Nat /\ crashes \in Nat
      /\ Cardinality(lost') \in Nat /\ Cardinality(lost') <= Cardinality(lost)
  BY LostFew
<1>2. Cardinality(lost) + (IF torn THEN 1 ELSE 0) <= crashes /\ torn \in BOOLEAN
  BY Types DEF LostOK
<1>3. Cardinality(lost') + (IF torn' THEN 1 ELSE 0) <= crashes'
  BY <1>1, <1>2
<1> QED
  BY <1>3 DEF LostOK

LEMMA LostOnce ==
  ASSUME TypeOK, LostOK, NEW d, torn, lost' \in {lost, lost \cup {d}}, torn' = FALSE,
         crashes' = crashes
  PROVE  LostOK'
<1>1. /\ Cardinality(lost) \in Nat /\ crashes \in Nat
      /\ Cardinality(lost') \in Nat /\ Cardinality(lost') <= Cardinality(lost) + 1
  <2>1. Cardinality(lost) \in Nat /\ crashes \in Nat
    BY LostFew
  <2>2. CASE lost' = lost
    BY <2>1, <2>2
  <2>3. CASE lost' = lost \cup {d}
    BY <2>1, <2>3, LostFew
  <2> QED
    BY <2>1, <2>2, <2>3
<1>2. Cardinality(lost) + 1 <= crashes
  BY DEF LostOK
<1>3. Cardinality(lost') + 0 <= crashes'
  BY <1>1, <1>2
<1> QED
  BY <1>3 DEF LostOK

\* The state of the journal may change, and others may touch more documents.
LEMMA DocsFrame ==
  ASSUME DocsOK, UNCHANGED <<source, target, line>>, foreign \subseteq foreign',
         lost \subseteq lost',
         journal' = journal \/ (/\ journal # None /\ journal' # None
                                /\ journal'.doc = journal.doc /\ journal'.op = journal.op
                                /\ journal'.old = journal.old)
  PROVE  DocsOK'
BY DEF DocsOK, Own, InJournal, Described, InPlace, NotYetMoved, Settled

LEMMA PathFrame ==
  ASSUME PathOK, UNCHANGED <<source, target, line, journal, job>>, foreign \subseteq foreign',
         lost \subseteq lost'
  PROVE  PathOK'
BY DEF PathOK, Own, At, InPlace, NotYetMoved

\* A dead move that is settled, finished or undone, leaves everything settled.
LEMMA SettleKeeps ==
  ASSUME TypeOK, journal # None, Settle(journal), line' = line, foreign' = foreign
  PROVE  /\ journal' = None
         /\ source' \in [Doc -> Places] /\ target' \in [Doc -> Places]
         /\ lost' \subseteq lost /\ lost' \subseteq Doc
         /\ DocsOK => DocsOK'
<1>1. /\ journal \in Journal /\ journal.doc \in Doc /\ journal' = None
      /\ source \in [Doc -> Places] /\ target \in [Doc -> Places] /\ lost \subseteq Doc
  BY JournalIs, Types DEF Settle
<1>2. CASE UNCHANGED <<files, lost>> /\ Contains(journal) /\ Finishable(journal)
  BY <1>1, <1>2 DEF files, Contains, Finishable, DocsOK, Own, InJournal, Described, InPlace,
                    NotYetMoved, Settled
<1>3. CASE UNCHANGED <<files, lost>> /\ ~Contains(journal) /\ Untouched(journal)
  BY <1>1, <1>3 DEF files, Contains, Untouched, DocsOK, Own, InJournal, Described, InPlace,
                    NotYetMoved, Settled
<1>4. CASE ~Contains(journal) /\ RenameBack(journal)
  <2>1. source' \in [Doc -> Places] /\ target' \in [Doc -> Places]
    BY <1>1, <1>4 DEF RenameBack, Places
  <2>2. ASSUME DocsOK, NEW d \in Own
        PROVE  line[d].moved <= line[d].old /\ (Settled(d)' \/ d \in lost')
    <3>1. CASE d = journal.doc
      BY <1>1, <1>4, <2>2, <3>1 DEF RenameBack, Contains, DocsOK, Own, InJournal, Described,
                                    Settled
    <3>2. CASE d # journal.doc
      BY <1>1, <1>4, <2>2, <3>2 DEF RenameBack, DocsOK, Own, InJournal, Settled
    <3> QED
      BY <3>1, <3>2
  <2>3. lost' \subseteq lost /\ lost' \subseteq Doc
    BY <1>1, <1>4 DEF RenameBack
  <2> QED
    BY <1>1, <2>1, <2>2, <2>3 DEF DocsOK, Own, InJournal
<1> QED
  BY <1>2, <1>3, <1>4 DEF Settle

\* What is described can be settled.
LEMMA DescribedSettles ==
  ASSUME TypeOK, DocsOK, journal # None, journal.doc \in Own
  PROVE  Settleable(journal)
<1>1. journal.doc \in Own /\ Described(journal.doc) /\ journal \in Journal
  BY JournalIs DEF DocsOK, InJournal
<1> QED
  BY <1>1 DEF Journal, Settleable, Contains, Finishable, Untouched, Moved, Described, InPlace,
              NotYetMoved

-----------------------------------------------------------------------------
(* The preview and the application *)

\* Between applications, and where none is under way, only the documents matter.
LEMMA AtRest ==
  ASSUME job'.pc = "idle"
  PROVE  JobOK' /\ PathOK' /\ FailedOK' /\ LeftOK'
BY DEF JobOK, PathOK, FailedOK, LeftOK, Working, At

LEMMA NoJobIs == NoJob \in JobType /\ NoJob.pc = "idle"
BY DEF NoJob, JobType

LEMMA ScanKeeps ==
  ASSUME IInv, Scan
  PROVE  IInv'
<1>1. /\ At("idle") /\ UNCHANGED <<line, torn, job, foreign, crashes, touches, loads>>
      /\ cancel' = FALSE
      /\ faults' = faults \/ (faults < MaxFault /\ faults' = faults + 1)
  BY DEF Scan
<1>2. /\ source' \in [Doc -> Places] /\ target' \in [Doc -> Places]
      /\ journal' \in {None} \cup Journal /\ (DocsOK => DocsOK')
      /\ plan' \in [Doc -> 0 .. MaxLoad + 1] /\ lost' \subseteq lost /\ lost' \subseteq Doc
  <2>1. \A d \in Doc : line[d].old \in 0 .. MaxLoad + 1 /\ 0 \in 0 .. MaxLoad + 1
    BY Numbers, Types DEF IInv, Lines
  <2>2. CASE UNCHANGED <<files, lost, journal>>
    <3>1. DocsOK => DocsOK'
      BY <1>1, <2>2, DocsFrame DEF files
    <3>2. plan' \in [Doc -> 0 .. MaxLoad + 1]
      BY <1>1, <2>1, <2>2, SMTT(30) DEF Scan, Offer, NoPlan, files, Settle
    <3> QED
      BY <2>2, <3>1, <3>2, Types DEF IInv, files
  <2>3. CASE journal # None /\ Settle(journal)
    <3>1. plan' \in [Doc -> 0 .. MaxLoad + 1]
      BY <1>1, <2>1, <2>3 DEF Scan, NoPlan
    <3> QED
      BY <1>1, <2>3, <3>1, SettleKeeps DEF IInv
  <2> QED
    BY <2>2, <2>3 DEF Scan
<1>3. Bounds' /\ faults <= faults'
  BY <1>1, FaultsCount DEF IInv
<1>4. TypeOK'
  BY <1>1, <1>2, <1>3, Types, TypesAfter DEF IInv
<1>5. LinesOK' /\ LostOK'
  BY <1>1, <1>2, <1>4, LostFrame, Types DEF IInv, LinesOK
<1>6. JobOK' /\ PathOK' /\ FailedOK' /\ LeftOK'
  BY <1>1, AtRest DEF At
<1>7. faults' < 2 => faults < 2
  BY <1>3, <1>4 DEF IInv, TypeOK
<1> QED
  BY <1>2, <1>4, <1>5, <1>6, <1>7 DEF IInv, MovesOK

LEMMA ConfirmKeeps ==
  ASSUME IInv, NEW S \in SUBSET Doc, Confirm(S)
  PROVE  IInv'
<1>1. /\ UNCHANGED <<source, target, line, torn, journal, plan, foreign, lost>>
      /\ UNCHANGED <<faults, crashes, touches, loads>> /\ cancel' = FALSE
      /\ job' = [NoJob EXCEPT !.pc = "next", !.todo = S]
  BY DEF Confirm, files, bounds, ghosts
<1>2. job' \in JobType /\ job'.pc = "next" /\ ~job'.recovered
  BY <1>1 DEF NoJob, JobType
<1>3. TypeOK' /\ LinesOK' /\ LostOK'
  BY <1>1, <1>2, Types, TypesAfter DEF IInv, LinesOK, LostOK, Bounds
<1>4. JobOK' /\ PathOK' /\ FailedOK' /\ LeftOK'
  BY <1>2 DEF JobOK, PathOK, FailedOK, LeftOK, Working, At
<1>5. DocsOK => DocsOK'
  BY <1>1, DocsFrame
<1> QED
  BY <1>1, <1>3, <1>4, <1>5 DEF IInv, MovesOK

LEMMA StopKeeps ==
  ASSUME IInv, Stop
  PROVE  IInv'
<1>1. /\ UNCHANGED <<source, target, line, torn, journal, cancel, foreign, lost>>
      /\ UNCHANGED <<faults, crashes, touches, loads>>
      /\ job' = NoJob /\ plan' = NoPlan
  BY DEF Stop, Finish, files, bounds, ghosts
<1>2. NoPlan \in [Doc -> 0 .. MaxLoad + 1]
  BY Numbers DEF NoPlan
<1>3. TypeOK' /\ LinesOK' /\ LostOK'
  BY <1>1, <1>2, NoJobIs, Types, TypesAfter DEF IInv, LinesOK, LostOK, Bounds
<1>4. JobOK' /\ PathOK' /\ FailedOK' /\ LeftOK'
  BY <1>1, NoJobIs, AtRest
<1>5. DocsOK => DocsOK'
  BY <1>1, DocsFrame
<1> QED
  BY <1>1, <1>3, <1>4, <1>5 DEF IInv, MovesOK

LEMMA RecoverFirstKeeps ==
  ASSUME IInv, NEW d \in Doc, RecoverFirst(d)
  PROVE  IInv'
<1>1. /\ At("next") /\ ~job.recovered /\ journal # None
      /\ UNCHANGED <<line, torn, plan, cancel, foreign>>
  BY DEF RecoverFirst
<1>2. CASE Settle(journal) /\ job' = [job EXCEPT !.recovered = TRUE] /\ UNCHANGED bounds
  <2>1. /\ journal' = None /\ (DocsOK => DocsOK')
        /\ source' \in [Doc -> Places] /\ target' \in [Doc -> Places]
        /\ lost' \subseteq lost /\ lost' \subseteq Doc
    BY <1>1, <1>2, SettleKeeps DEF IInv
  <2>2. job' \in JobType /\ job'.pc = "next"
    BY <1>1, <1>2, Types DEF IInv, JobType, At
  <2>3. TypeOK' /\ LinesOK' /\ LostOK'
    BY <1>1, <1>2, <2>1, <2>2, Types, TypesAfter, LostFrame DEF IInv, LinesOK, bounds, Bounds
  <2>4. JobOK' /\ PathOK' /\ FailedOK' /\ LeftOK'
    BY <2>1, <2>2 DEF JobOK, PathOK, FailedOK, LeftOK, Working, At
  <2> QED
    BY <1>2, <2>1, <2>3, <2>4 DEF IInv, MovesOK, bounds
<1>3. CASE /\ Take(d) /\ UNCHANGED <<files, lost, journal, crashes, touches, loads>>
           /\ faults' = faults \/ (faults < MaxFault /\ faults' = faults + 1)
  <2>1. job' \in JobType /\ job'.pc = "next" /\ ~job'.recovered
    BY <1>1, <1>3, Types DEF IInv, JobType, At, Take
  <2>2. Bounds' /\ faults <= faults'
    BY <1>3, FaultsCount DEF IInv
  <2>3. TypeOK' /\ LinesOK' /\ LostOK'
    BY <1>1, <1>3, <2>1, <2>2, Types, TypesAfter DEF IInv, LinesOK, LostOK, files
  <2>4. JobOK' /\ PathOK' /\ FailedOK' /\ LeftOK'
    BY <2>1 DEF JobOK, PathOK, FailedOK, LeftOK, Working, At
  <2>5. DocsOK => DocsOK'
    BY <1>1, <1>3, DocsFrame DEF files
  <2>6. faults' < 2 => faults < 2
    BY <2>2, <2>3 DEF IInv, TypeOK
  <2> QED
    BY <2>3, <2>4, <2>5, <2>6 DEF IInv, MovesOK
<1> QED
  BY <1>2, <1>3 DEF RecoverFirst

LEMMA RefuseKeeps ==
  ASSUME IInv, NEW d \in Doc, Refuse(d)
  PROVE  IInv'
<1>1. /\ At("next") /\ (job.recovered \/ journal = None)
      /\ UNCHANGED <<source, target, line, torn, journal, plan, cancel, foreign, lost>>
      /\ UNCHANGED <<faults, crashes, touches, loads>>
      /\ job' = [job EXCEPT !.todo = @ \ {d}, !.recovered = TRUE]
  BY DEF Refuse, files, bounds, ghosts
<1>2. job' \in JobType /\ job'.pc = "next"
  BY <1>1, Types DEF IInv, JobType, At
<1>3. TypeOK' /\ LinesOK' /\ LostOK'
  BY <1>1, <1>2, Types, TypesAfter DEF IInv, LinesOK, LostOK, Bounds
<1>4. JobOK' /\ PathOK' /\ FailedOK'
  BY <1>2 DEF JobOK, PathOK, FailedOK, Working, At
<1>5. LeftOK => LeftOK'
  BY <1>1 DEF LeftOK, At, Own, Settled
<1>6. DocsOK => DocsOK'
  BY <1>1, DocsFrame
<1> QED
  BY <1>1, <1>3, <1>4, <1>5, <1>6 DEF IInv, MovesOK

\* What an earlier candidate has left is settled when its journal is written over.
LEMMA PrepareKeeps ==
  ASSUME IInv, NEW d \in Doc, Prepare(d)
  PROVE  IInv'
<1> DEFINE op == IF target[d] = None THEN "MOVE" ELSE "REUSE_TARGET"
<1>1. /\ At("next") /\ ~cancel /\ (job.recovered \/ journal = None)
      /\ line[d].moved # line[d].old /\ source[d] = "own" /\ target[d] # "other"
      /\ UNCHANGED <<source, target, line, torn, plan, cancel, crashes, touches, loads>>
      /\ UNCHANGED <<foreign, lost>>
  BY DEF Prepare, Current, files, ghosts
<1>2. op \in {"MOVE", "REUSE_TARGET"}
  OBVIOUS
<1>3. /\ (op = "MOVE" => target[d] = None) /\ (op = "REUSE_TARGET" => target[d] = "own")
  BY <1>1, Types DEF IInv, Places
<1>4. LostOK'
  BY <1>1 DEF IInv, LostOK
<1>5. CASE /\ UNCHANGED journal /\ faults < MaxFault /\ faults' = faults + 1
           /\ job' = [job EXCEPT !.todo = @ \ {d}, !.recovered = TRUE]
  <2>1. job' \in JobType /\ job'.pc = "next"
    BY <1>1, <1>5, Types DEF IInv, JobType, At
  <2>2. Bounds' /\ faults <= faults'
    BY <1>1, <1>5, FaultsCount DEF IInv
  <2>3. TypeOK' /\ LinesOK'
    BY <1>1, <1>5, <2>1, <2>2, Types, TypesAfter DEF IInv, LinesOK
  <2>4. JobOK' /\ PathOK' /\ FailedOK'
    BY <2>1 DEF JobOK, PathOK, FailedOK, Working, At
  <2>5. MovesOK => MovesOK'
    <3>1. LeftOK => LeftOK'
      BY <1>1, <1>5 DEF LeftOK, At, Own, Settled
    <3>2. DocsOK => DocsOK'
      BY <1>1, <1>5, DocsFrame
    <3> QED
      BY <2>4, <3>1, <3>2 DEF MovesOK
  <2>6. faults' < 2 => faults < 2
    BY <2>2, <2>3 DEF IInv, TypeOK
  <2> QED
    BY <1>4, <2>3, <2>4, <2>5, <2>6 DEF IInv
<1>6. CASE /\ journal' = [doc |-> d, op |-> op, old |-> line[d].old, state |-> "PREPARED"]
           /\ job' = [job EXCEPT !.pc = "rename", !.doc = d, !.op = op, !.todo = @ \ {d},
                                 !.recovered = TRUE]
           /\ UNCHANGED faults
  <2> HIDE DEF op
  <2>1. /\ job' \in JobType /\ job'.pc = "rename" /\ job'.doc = d /\ job'.op = op
        /\ job'.recovered
    BY <1>2, <1>6, Types DEF IInv, JobType
  <2>2. /\ journal' \in Journal /\ journal' # None /\ journal'.doc = d /\ journal'.op = op
        /\ journal'.old = line[d].old
    <3>1. line[d].old \in 1 .. MaxLoad + 1
      BY Types DEF IInv, Lines
    <3>2. journal' \in Journal
      BY <1>2, <1>6, <3>1 DEF Journal
    <3>3. journal' # None
      BY <3>2, ReclassifyAssumption
    <3> QED
      BY <1>6, <3>2, <3>3
  <2>3. TypeOK' /\ LinesOK'
    BY <1>1, <1>6, <2>1, <2>2, Types, TypesAfter DEF IInv, LinesOK, Bounds
  <2>4. JobOK'
    BY <2>1, <2>2 DEF JobOK
  <2>5. ASSUME MovesOK
        PROVE  MovesOK'
    <3>1. \A e \in Own : e # d => Settled(e) \/ e \in lost
      BY <1>1, <2>5 DEF MovesOK, DocsOK, LeftOK, InJournal, At
    <3>2. IF op = "MOVE" THEN NotYetMoved(d) ELSE InPlace(d)'
      BY <1>1, <1>2, <1>3, <2>2 DEF NotYetMoved, InPlace
    <3>3. Described(d)'
      BY <1>1, <2>2, <3>2 DEF Described, NotYetMoved, InPlace
    <3>4. DocsOK'
      BY <1>1, <2>2, <2>5, <3>1, <3>3 DEF MovesOK, DocsOK, InJournal, Own, Settled
    <3>5. PathOK'
      BY <1>1, <2>1, <2>2, <3>2 DEF PathOK, At, NotYetMoved, InPlace
    <3>6. FailedOK' /\ LeftOK'
      BY <2>1 DEF FailedOK, LeftOK, At
    <3> QED
      BY <3>4, <3>5, <3>6 DEF MovesOK
  <2> QED
    BY <1>4, <1>6, <2>3, <2>4, <2>5 DEF IInv
<1> QED
  BY <1>5, <1>6 DEF Prepare

\* At work the journal is of the candidate at hand.
LEMMA AtWork ==
  ASSUME IInv, job.pc \in Working
  PROVE  /\ journal \in Journal /\ journal # None /\ journal.doc = job.doc /\ journal.op = job.op
         /\ job.doc \in Doc /\ job.op \in {"MOVE", "REUSE_TARGET"} /\ job.recovered
         /\ job \in JobType
BY JournalIs, Types DEF IInv, JobOK, Journal

LEMMA Goes ==
  ASSUME job \in JobType,
         NEW pc \in {"idle", "next", "rename", "note", "append", "mark", "finish", "failed"},
         NEW exc \in {None, "exists", "error", "cancelled"},
         \/ Goto(pc)
         \/ job' = [job EXCEPT !.pc = pc, !.exc = exc]
  PROVE  /\ job' \in JobType /\ job'.pc = pc /\ job'.doc = job.doc /\ job'.op = job.op
         /\ job'.recovered = job.recovered
BY DEF Goto, JobType


\* A candidate goes on to its next step,
LEMMA OnwardKeeps ==
  ASSUME IInv, job.pc \in Working, NEW pc \in {"note", "append", "mark", "finish"}, Goto(pc),
         source' \in [Doc -> Places], target' \in [Doc -> Places], line' \in [Doc -> Lines],
         \A d \in Doc : line'[d].old = line[d].old,
         journal' \in Journal, journal'.doc = journal.doc, journal'.op = journal.op,
         UNCHANGED <<plan, cancel, bounds>>, torn' \in BOOLEAN, foreign' \subseteq Doc,
         lost' \subseteq Doc, LostOK',
         MovesOK => DocsOK' /\ PathOK'
  PROVE  IInv'
<1>1. /\ job' \in JobType /\ job'.pc = pc /\ job'.doc = job.doc /\ job'.op = job.op
      /\ job'.recovered /\ journal'.doc = job'.doc /\ journal'.op = job'.op
  BY AtWork, Goes
<1>2. journal' # None
  BY ReclassifyAssumption
<1>3. UNCHANGED <<faults, crashes, touches, loads>> /\ Bounds'
  BY Types DEF IInv, bounds, Bounds
<1>4. TypeOK' /\ LinesOK' /\ JobOK'
  BY <1>1, <1>2, <1>3, Types, TypesAfter DEF IInv, LinesOK, JobOK
<1>5. FailedOK' /\ LeftOK'
  BY <1>1 DEF FailedOK, LeftOK, At
<1> QED
  BY <1>3, <1>4, <1>5 DEF IInv, MovesOK

\* or fails at this one.
LEMMA FailingKeeps ==
  ASSUME IInv, job.pc \in Working, NEW exc \in {"exists", "error", "cancelled"},
         job' = [job EXCEPT !.pc = "failed", !.exc = exc],
         UNCHANGED <<source, target, journal, plan, cancel>>, line' \in [Doc -> Lines],
         \A d \in Doc : line'[d].old = line[d].old,
         torn' \in BOOLEAN, foreign' \subseteq Doc, lost' \subseteq Doc, LostOK',
         Bounds', faults <= faults', loads' = loads,
         MovesOK => DocsOK',
         MovesOK => \/ exc = "exists" /\ job.doc \notin Own'
                    \/ exc = "error" /\ faults' >= 1
                    \/ exc = "cancelled" /\ cancel
  PROVE  IInv'
<1>1. /\ job' \in JobType /\ job'.pc = "failed" /\ job'.doc = job.doc /\ job'.op = job.op
      /\ job'.recovered /\ job'.exc = exc
  BY AtWork, Goes DEF JobType
<1>2. TypeOK' /\ LinesOK' /\ JobOK'
  BY <1>1, AtWork, Types, TypesAfter DEF IInv, LinesOK, JobOK
<1>3. PathOK' /\ LeftOK'
  BY <1>1 DEF PathOK, LeftOK, At
<1>4. MovesOK => FailedOK'
  BY <1>1 DEF FailedOK, At
<1>5. faults' < 2 => faults < 2
  BY <1>2 DEF IInv, TypeOK
<1> QED
  BY <1>2, <1>3, <1>4, <1>5 DEF IInv, MovesOK

LEMMA RenameKeeps ==
  ASSUME IInv, Rename
  PROVE  IInv'
<1>0. PICK d \in Doc : d = job.doc
  BY AtWork DEF Rename, Working, At
<1> DEFINE ready == IF job.op = "MOVE" THEN source[d] # None /\ target[d] = None
                    ELSE target[d] = "own"
<1>1. /\ job.pc = "rename" /\ UNCHANGED <<line, torn, journal, plan, cancel, foreign, lost>>
      /\ journal \in Journal /\ journal # None /\ journal.doc = d /\ journal.op = job.op
      /\ job.op \in {"MOVE", "REUSE_TARGET"}
  BY <1>0, AtWork DEF Rename, Working, At, ghosts
<1>7. UNCHANGED crashes => LostOK'
  BY <1>1 DEF IInv, LostOK
<1>2. CASE /\ ready /\ Goto("note") /\ UNCHANGED bounds
           /\ IF job.op = "MOVE" THEN /\ source' = [source EXCEPT ![d] = None]
                                      /\ target' = [target EXCEPT ![d] = source[d]]
              ELSE UNCHANGED files
  <2>1. source' \in [Doc -> Places] /\ target' \in [Doc -> Places]
    BY <1>0, <1>1, <1>2, Types DEF IInv, Places, files
  <2>2. ASSUME MovesOK
        PROVE  DocsOK' /\ PathOK'
    <3>1. d \in Own => /\ line[d].moved <= line[d].old /\ journal.old = line[d].old
                       /\ IF job.op = "MOVE" THEN NotYetMoved(d) ELSE InPlace(d)
      BY <1>0, <1>1, <2>2 DEF MovesOK, PathOK, DocsOK, InJournal, Described, At
    <3>2. d \in Own => InPlace(d)'
      BY <1>0, <1>1, <1>2, <3>1, Types DEF IInv, NotYetMoved, InPlace, files
    <3>3. \A e \in Own : e # d => line[e].moved <= line[e].old /\ (Settled(e)' \/ e \in lost)
      <4>1. \A e \in Doc : e # d => source'[e] = source[e] /\ target'[e] = target[e]
        BY <1>1, <1>2, Types DEF IInv, files
      <4> QED
        BY <1>1, <2>2, <4>1 DEF MovesOK, DocsOK, InJournal, Settled, Own
    <3>4. DocsOK'
      BY <1>0, <1>1, <3>1, <3>2, <3>3 DEF DocsOK, InJournal, Own, Described
    <3>5. job'.pc = "note" /\ job'.doc = d
      BY <1>0, <1>1, <1>2, AtWork DEF Goto, JobType, Working
    <3>6. PathOK'
      BY <1>0, <1>1, <3>2, <3>5 DEF PathOK, At, Own
    <3> QED
      BY <3>4, <3>6
  <2> QED
    <3>1. LostOK'
      BY <1>2, <1>7 DEF bounds
    <3>2. lost' \subseteq Doc /\ foreign' \subseteq Doc /\ torn' \in BOOLEAN /\ line' \in [Doc -> Lines]
          /\ \A e \in Doc : line'[e].old = line[e].old
      BY <1>1, Types DEF IInv
    <3> HIDE DEF ready
    <3> QED
      BY <1>1, <1>2, <2>1, <2>2, <3>1, <3>2, OnwardKeeps DEF Working
<1>3. CASE /\ UNCHANGED files
           /\ \/ /\ ~ready /\ UNCHANGED bounds
                 /\ job' = [job EXCEPT !.pc = "failed", !.exc = "exists"]
              \/ Fails("failed", "error")
  <2>1. MovesOK => DocsOK'
    BY <1>0, <1>1, <1>3, DocsFrame DEF MovesOK, files
  <2>2. MovesOK /\ d \in Own => ready
    BY <1>0, <1>1, ReclassifyAssumption DEF MovesOK, PathOK, At, NotYetMoved, InPlace
  <2> HIDE DEF ready
  <2>5. LostOK'
    BY <1>3, <1>7 DEF bounds, Fails
  <2>3. CASE ~ready /\ UNCHANGED bounds /\ job' = [job EXCEPT !.pc = "failed", !.exc = "exists"]
    <3>1. Bounds' /\ faults <= faults' /\ loads' = loads
      BY <1>0, <2>3, Numbers, Types DEF IInv, bounds, Bounds
    <3>2. MovesOK => d \notin Own'
      BY <1>0, <1>1, <2>2, <2>3 DEF Own
    <3> QED
      BY <1>0, <1>1, <1>3, <2>1, <2>3, <2>5, <3>1, <3>2, FailingKeeps, Types DEF IInv, Working, files
  <2>4. CASE Fails("failed", "error")
    <3>1. /\ Bounds' /\ faults <= faults' /\ faults' >= 1 /\ loads' = loads
          /\ job' = [job EXCEPT !.pc = "failed", !.exc = "error"]
      BY <1>0, <2>4, FailsIs DEF IInv
    <3> QED
      BY <1>0, <1>1, <1>3, <2>1, <2>5, <3>1, FailingKeeps, Types DEF IInv, Working, files
  <2> QED
    BY <1>3, <2>3, <2>4
<1> QED
  BY <1>0, <1>2, <1>3 DEF Rename

\* The journal's state is only what it says; nothing is told by it.
LEMMA MarkKeeps ==
  ASSUME IInv, NEW state \in {"FILE_MOVED", "HISTORY_APPENDED"},
         NEW pc \in {"append", "finish"}, NEW from \in {"note", "mark"},
         pc = "finish" => from = "mark",
         Mark(from, state, pc)
  PROVE  IInv'
<1>1. /\ job.pc = from /\ job.pc \in Working
      /\ UNCHANGED <<source, target, line, torn, plan, cancel, foreign, lost>>
      /\ journal \in Journal /\ journal # None /\ job \in JobType
  BY AtWork DEF Mark, Working, At, files, ghosts
<1>4. LostOK'
  BY <1>1 DEF IInv, LostOK, Mark, bounds, Fails
<1>2. CASE journal' = [journal EXCEPT !.state = state] /\ Goto(pc) /\ UNCHANGED bounds
  <2>1. /\ journal' \in Journal /\ journal'.doc = journal.doc /\ journal'.op = journal.op
        /\ journal'.old = journal.old
    BY <1>1, <1>2 DEF Journal
  <2>2. journal' # None
    BY <2>1, ReclassifyAssumption
  <2>3. job'.pc = pc /\ job'.doc = job.doc /\ job'.op = job.op
    BY <1>1, <1>2 DEF Goto, JobType
  <2>4. MovesOK => DocsOK'
    BY <1>1, <2>1, <2>2, DocsFrame DEF MovesOK
  <2>5. MovesOK => PathOK'
    BY <1>1, <2>1, <2>3 DEF MovesOK, PathOK, At, InPlace, Own
  <2> QED
    BY <1>1, <1>2, <1>4, <2>1, <2>4, <2>5, OnwardKeeps, Types DEF IInv
<1>3. CASE Fails("failed", "error") /\ UNCHANGED journal
  <2>1. /\ Bounds' /\ faults <= faults' /\ faults' >= 1 /\ loads' = loads
        /\ job' = [job EXCEPT !.pc = "failed", !.exc = "error"]
    BY <1>3, FailsIs DEF IInv
  <2>2. MovesOK => DocsOK'
    BY <1>1, <1>3, DocsFrame DEF MovesOK
  <2> QED
    BY <1>1, <1>3, <1>4, <2>1, <2>2, FailingKeeps, Types DEF IInv
<1> QED
  BY <1>2, <1>3 DEF Mark

\* The line of the move is that of the journal; after a line without an end it is lost.
LEMMA WrittenIs ==
  ASSUME IInv, job.pc = "append", NEW d, d = job.doc,
         line' = IF torn THEN line ELSE WithMove(d),
         lost' = IF torn /\ job.op = "MOVE" THEN lost \cup {d} ELSE lost,
         torn' = FALSE, UNCHANGED <<source, target, journal, foreign, crashes>>
  PROVE  /\ line' \in [Doc -> Lines] /\ \A e \in Doc : line'[e].old = line[e].old
         /\ torn' \in BOOLEAN /\ foreign' \subseteq Doc /\ lost' \subseteq Doc /\ LostOK'
         /\ MovesOK => DocsOK'
         /\ MovesOK /\ d \in Own' =>
              /\ InPlace(d)'
              /\ \/ line'[d].moved = line'[d].old /\ line'[d].new
                 \/ job.op = "REUSE_TARGET" \/ d \in lost'
<1>1. /\ journal \in Journal /\ journal # None /\ journal.doc = d /\ d \in Doc
      /\ line \in [Doc -> Lines] /\ foreign \subseteq Doc /\ lost \subseteq Doc
      /\ job.op \in {"MOVE", "REUSE_TARGET"}
  BY AtWork, Types DEF IInv, Working
<1>2. CASE torn
  <2>1. line' = line /\ lost' \in {lost, lost \cup {d}} /\ (job.op = "MOVE" => d \in lost')
    BY <1>2
  <2>2. MovesOK => DocsOK'
    BY <2>1, DocsFrame DEF MovesOK
  <2>3. MovesOK /\ d \in Own => InPlace(d)'
    BY <2>1 DEF MovesOK, PathOK, InPlace, At
  <2>4. LostOK'
    BY <1>2, <2>1, LostOnce DEF IInv
  <2> QED
    BY <1>1, <2>1, <2>2, <2>3, <2>4 DEF Own
<1>3. CASE ~torn
  <2>1. line' = [line EXCEPT ![d].moved = journal.old, ![d].new = TRUE] /\ lost' = lost
    BY <1>3 DEF WithMove
  <2>2. /\ line'[d] = [old |-> line[d].old, moved |-> journal.old, new |-> TRUE]
        /\ \A e \in Doc : e # d => line'[e] = line[e]
    <3>1. \A e \in Doc : e # d => line'[e] = line[e]
      BY <1>1, <2>1
    <3>2. line'[d] = [line[d] EXCEPT !.moved = journal.old, !.new = TRUE]
      BY <1>1, <2>1
    <3>3. line[d] = [old |-> line[d].old, moved |-> line[d].moved, new |-> line[d].new]
      BY <1>1 DEF Lines
    <3> QED
      BY <3>1, <3>2, <3>3
  <2>3. journal.old \in 0 .. MaxLoad + 1 /\ journal.old \in Nat
    BY <1>1, Numbers DEF Journal
  <2>4. line' \in [Doc -> Lines] /\ \A e \in Doc : line'[e].old = line[e].old
    BY <1>1, <2>1, <2>2, <2>3 DEF Lines
  <2>5. MovesOK /\ d \in Own => InPlace(d) /\ journal.old = line[d].old
    BY <1>1 DEF MovesOK, PathOK, DocsOK, InJournal, Described, At
  <2>6. MovesOK /\ d \in Own => InPlace(d)' /\ Described(d)'
    BY <2>2, <2>5 DEF InPlace, Described
  <2>7. ASSUME MovesOK
        PROVE  DocsOK'
    <3>1. \A e \in Own : e # d => line'[e].moved <= line'[e].old /\ (Settled(e)' \/ e \in lost)
      BY <1>1, <2>2, <2>7 DEF MovesOK, DocsOK, InJournal, Settled, Own
    <3>2. d \in Own => line'[d].moved <= line'[d].old
      BY <2>2, <2>3, <2>5, <2>7
    <3> QED
      BY <1>1, <2>1, <2>6, <2>7, <3>1, <3>2 DEF DocsOK, InJournal, Own
  <2>8. LostOK'
    BY <1>3, <2>1 DEF IInv, LostOK
  <2>9. MovesOK /\ d \in Own' =>
          /\ InPlace(d)' /\ line'[d].moved = line'[d].old /\ line'[d].new
    BY <2>2, <2>5, <2>6 DEF Own
  <2>10. torn' \in BOOLEAN /\ foreign' \subseteq Doc /\ lost' \subseteq Doc
    BY <1>1, <2>1
  <2> QED
    BY <2>4, <2>7, <2>8, <2>9, <2>10
<1> QED
  BY <1>2, <1>3

LEMMA AppendLineKeeps ==
  ASSUME IInv, AppendLine
  PROVE  IInv'
<1>1. /\ job.pc = "append" /\ job.pc \in Working
      /\ UNCHANGED <<source, target, journal, plan, cancel, foreign>>
      /\ journal \in Journal /\ job \in JobType
  BY AtWork DEF AppendLine, Working, At, files
<1>0. PICK doc \in Doc : doc = job.doc
  BY <1>1, AtWork
<1> DEFINE written == /\ line' = IF torn THEN line ELSE WithMove(doc)
                      /\ lost' = IF torn /\ job.op = "MOVE" THEN lost \cup {doc} ELSE lost
                      /\ torn' = FALSE
<1>2. Fails("failed", "error") =>
        /\ Bounds' /\ faults <= faults' /\ faults' >= 1 /\ loads' = loads /\ crashes' = crashes
        /\ job' = [job EXCEPT !.pc = "failed", !.exc = "error"]
  BY FailsIs DEF IInv, Fails
<1>3. CASE written /\ Goto("mark") /\ UNCHANGED bounds
  <2>1. /\ line' \in [Doc -> Lines] /\ \A d \in Doc : line'[d].old = line[d].old
        /\ torn' \in BOOLEAN /\ foreign' \subseteq Doc /\ lost' \subseteq Doc /\ LostOK'
        /\ MovesOK => DocsOK'
        /\ MovesOK /\ doc \in Own' =>
             /\ InPlace(doc)'
             /\ \/ line'[doc].moved = line'[doc].old /\ line'[doc].new
                \/ job.op = "REUSE_TARGET" \/ doc \in lost'
    BY <1>0, <1>1, <1>3, WrittenIs DEF bounds
  <2>2. job'.pc = "mark" /\ job'.doc = doc /\ job'.op = job.op
    BY <1>0, <1>1, <1>3 DEF Goto, JobType
  <2>3. MovesOK => PathOK'
    BY <2>1, <2>2 DEF PathOK, At
  <2> QED
    BY <1>1, <1>3, <2>1, <2>3, OnwardKeeps, Types DEF IInv
<1>4. CASE written /\ Fails("failed", "error")
  <2>1. /\ line' \in [Doc -> Lines] /\ \A d \in Doc : line'[d].old = line[d].old
        /\ torn' \in BOOLEAN /\ foreign' \subseteq Doc /\ lost' \subseteq Doc /\ LostOK'
        /\ MovesOK => DocsOK'
    BY <1>0, <1>1, <1>2, <1>4, WrittenIs
  <2> QED
    BY <1>1, <1>2, <1>4, <2>1, FailingKeeps
<1>5. CASE /\ UNCHANGED <<line, torn, lost>>
           /\ \/ Fails("failed", "error")
              \/ /\ cancel /\ UNCHANGED bounds
                 /\ job' = [job EXCEPT !.pc = "failed", !.exc = "cancelled"]
  <2>1. MovesOK => DocsOK'
    BY <1>1, <1>5, DocsFrame DEF MovesOK
  <2>2. UNCHANGED bounds => Bounds' /\ faults <= faults' /\ loads' = loads /\ crashes' = crashes
    BY Numbers, Types DEF IInv, bounds, Bounds
  <2>3. LostOK'
    BY <1>2, <1>5, <2>2 DEF IInv, LostOK
  <2> QED
    BY <1>1, <1>2, <1>5, <2>1, <2>2, <2>3, FailingKeeps, Types DEF IInv
<1> QED
  BY <1>0, <1>3, <1>4, <1>5 DEF AppendLine

\* A journal that cannot be deleted is that of a settled document, or of a lost line.
LEMMA FinishMoveKeeps ==
  ASSUME IInv, FinishMove
  PROVE  IInv'
<1>1. /\ job.pc = "finish" /\ Goto("next")
      /\ UNCHANGED <<source, target, line, torn, plan, cancel, crashes, touches, loads, foreign, lost>>
      /\ journal' \in {None, journal}
      /\ faults' = faults \/ (faults < MaxFault /\ faults' = faults + 1)
  BY DEF FinishMove, At, files, ghosts
<1>2. PICK d \in Doc : d = job.doc /\ journal \in Journal /\ journal.doc = d
  BY <1>1, AtWork DEF Working
<1>3. job' \in JobType /\ job'.pc = "next"
  BY <1>1, Types, Goes DEF IInv
<1>4. Bounds' /\ faults <= faults'
  BY <1>1, FaultsCount DEF IInv
<1>5. TypeOK' /\ LinesOK' /\ JobOK' /\ LostOK'
  BY <1>1, <1>3, <1>4, Types, TypesAfter DEF IInv, LinesOK, JobOK, LostOK, Working
<1>6. ASSUME MovesOK
      PROVE  MovesOK'
  <2>1. d \in Own => Settled(d) \/ d \in lost
    BY <1>1, <1>2, <1>6, AtWork DEF MovesOK, PathOK, InPlace, Settled, Working
  <2>2. LeftOK'
    BY <1>1, <1>2, <2>1 DEF LeftOK, Own, Settled
  <2>3. DocsOK'
    BY <1>1, <1>2, <1>6, <2>1 DEF MovesOK, DocsOK, InJournal, Own, Settled, Described, InPlace,
                                  NotYetMoved
  <2>4. PathOK' /\ FailedOK'
    BY <1>3 DEF PathOK, FailedOK, At
  <2> QED
    BY <2>2, <2>3, <2>4 DEF MovesOK
<1>7. faults' < 2 => faults < 2
  BY <1>4, <1>5 DEF IInv, TypeOK
<1> QED
  BY <1>5, <1>6, <1>7 DEF IInv

\* A journal stays only where others have been, after a second failure, or when the user
\* has stopped the application.
LEMMA UnwindKeeps ==
  ASSUME IInv, Unwind
  PROVE  IInv'
<1>1. /\ job.pc = "failed" /\ UNCHANGED <<line, torn, cancel, crashes, touches, loads, foreign>>
  BY DEF Unwind, At
<1>2. PICK d \in Doc : d = job.doc /\ journal \in Journal /\ journal # None /\ journal.doc = d
  BY <1>1, AtWork DEF Working
<1>3. CASE /\ Settle(journal) /\ UNCHANGED faults
           /\ Finish \/ (Goto("next") /\ UNCHANGED plan)
  <2>1. /\ journal' = None /\ (DocsOK => DocsOK')
        /\ source' \in [Doc -> Places] /\ target' \in [Doc -> Places]
        /\ lost' \subseteq lost /\ lost' \subseteq Doc
    BY <1>1, <1>2, <1>3, SettleKeeps DEF IInv
  <2>2. job' \in JobType /\ job'.pc \in {"idle", "next"}
    BY <1>3, NoJobIs, Types, Goes DEF IInv, Finish
  <2>3. plan' \in [Doc -> 0 .. MaxLoad + 1]
    BY <1>3, Numbers, Types DEF IInv, Finish, NoPlan
  <2>4. TypeOK' /\ LinesOK' /\ LostOK'
    BY <1>1, <1>3, <2>1, <2>2, <2>3, Types, TypesAfter, LostFrame DEF IInv, LinesOK, Bounds
  <2>5. JobOK' /\ PathOK' /\ FailedOK' /\ LeftOK'
    BY <2>1, <2>2 DEF JobOK, PathOK, FailedOK, LeftOK, Working, At
  <2> QED
    BY <1>3, <2>1, <2>4, <2>5 DEF IInv, MovesOK
<1>4. CASE /\ UNCHANGED <<files, lost, journal, plan>> /\ Goto("next")
           /\ \/ ~Settleable(journal) /\ UNCHANGED faults
              \/ faults < MaxFault /\ faults' = faults + 1
  <2>1. job' \in JobType /\ job'.pc = "next"
    BY <1>4, Types, Goes DEF IInv
  <2>2. Bounds' /\ faults <= faults'
    BY <1>1, <1>4, FaultsCount DEF IInv
  <2>3. TypeOK' /\ LinesOK' /\ JobOK' /\ LostOK'
    BY <1>1, <1>4, <2>1, <2>2, Types, TypesAfter DEF IInv, LinesOK, JobOK, LostOK, Working, files
  <2>4. faults \in Nat /\ (faults' < 2 => faults < 2)
    BY <2>2, <2>3 DEF IInv, TypeOK
  <2>5. ASSUME MovesOK, faults' < 2
        PROVE  MovesOK'
    <3>1. d \in Own => Settleable(journal)
      BY <1>2, <2>5, DescribedSettles DEF MovesOK, IInv
    <3>2. d \in Own => cancel
      BY <1>1, <1>2, <1>4, <2>4, <2>5, <3>1 DEF MovesOK, FailedOK, At
    <3>3. LeftOK'
      BY <1>1, <1>2, <1>4, <3>2 DEF LeftOK, Own
    <3>4. DocsOK'
      BY <1>1, <1>4, <2>5, DocsFrame DEF MovesOK, files
    <3>5. PathOK' /\ FailedOK'
      BY <2>1 DEF PathOK, FailedOK, At
    <3> QED
      BY <3>3, <3>4, <3>5 DEF MovesOK
  <2> QED
    BY <2>3, <2>4, <2>5 DEF IInv
<1> QED
  BY <1>3, <1>4 DEF Unwind

-----------------------------------------------------------------------------
(* The others *)

\* A download of a document that no journal is of settles it, or leaves it as it was.
LEMMA LoadOldKeeps ==
  ASSUME IInv, NEW d \in Doc, LoadOld(d)
  PROVE  IInv'
<1>1. /\ job.pc = "idle" /\ loads < MaxLoad /\ loads' = loads + 1 /\ torn' = FALSE
      /\ source' = [source EXCEPT ![d] = "own"]
      /\ line' = IF torn THEN line ELSE [line EXCEPT ![d].old = @ + 1]
      /\ foreign' = IF InJournal(d) THEN foreign \cup {d} ELSE foreign
      /\ UNCHANGED <<target, journal, plan, job, cancel, faults, crashes, touches, lost>>
  BY DEF LoadOld, AddForeign, InJournal, At
<1>2. /\ source \in [Doc -> Places] /\ line \in [Doc -> Lines] /\ line[d].old <= loads + 1
      /\ loads \in Nat
  BY Types, Numbers DEF IInv, LinesOK, Bounds
<1>3. /\ source' \in [Doc -> Places] /\ source'[d] = "own"
      /\ \A e \in Doc : e # d => source'[e] = source[e] /\ line'[e] = line[e]
  BY <1>1, <1>2 DEF Places
<1>4. Bounds' /\ foreign' \subseteq Doc /\ LostOK'
  <2>1. Bounds'
    BY <1>1, <1>2, Numbers, Types DEF IInv, Bounds
  <2>2. LostOK'
    BY <1>1, LostFrame DEF IInv
  <2> QED
    BY <1>1, <2>1, <2>2, Types DEF IInv
<1>5. CASE torn
  <2>1. line' = line
    BY <1>1, <1>5
  <2>2. TypeOK'
    BY <1>1, <1>2, <1>3, <1>4, <2>1, Types, TypesAfter DEF IInv
  <2>3. LinesOK'
    BY <1>1, <1>2, <2>1 DEF IInv, LinesOK, Lines
  <2>4. DocsOK => DocsOK'
    BY <1>1, <1>3, <2>1 DEF DocsOK, InJournal, Own, Described, InPlace, NotYetMoved, Settled
  <2> QED
    BY <1>1, <1>4, <2>2, <2>3, <2>4, AtRest DEF IInv, MovesOK
<1>6. CASE ~torn
  <2>1. line'[d] = [line[d] EXCEPT !.old = @ + 1]
    BY <1>1, <1>2, <1>6
  <2>2. line'[d] = [old |-> line[d].old + 1, moved |-> line[d].moved, new |-> line[d].new]
    BY <1>2, <2>1 DEF Lines
  <2>3. line[d].old + 1 \in 1 .. MaxLoad + 1
    BY <1>1, <1>2, Numbers DEF Lines
  <2>4. line' \in [Doc -> Lines]
    BY <1>1, <1>2, <1>6, <2>2, <2>3 DEF Lines
  <2>5. TypeOK'
    BY <1>1, <1>3, <1>4, <2>4, Types, TypesAfter DEF IInv
  <2>6. LinesOK'
    BY <1>1, <1>2, <1>3, <2>2, Numbers DEF IInv, LinesOK, Lines
  <2>7. ASSUME DocsOK
        PROVE  DocsOK'
    <3>1. d \in Own' => /\ ~InJournal(d) /\ line'[d].moved <= line'[d].old
                        /\ Settled(d)'
      BY <1>1, <1>2, <1>3, <2>2, <2>7 DEF DocsOK, Own, Settled, Lines
    <3> QED
      BY <1>1, <1>3, <2>7, <3>1 DEF DocsOK, InJournal, Own, Described, InPlace, NotYetMoved,
                                    Settled
  <2> QED
    BY <1>1, <1>4, <2>5, <2>6, <2>7, AtRest DEF IInv, MovesOK
<1> QED
  BY <1>5, <1>6

LEMMA LoadNewKeeps ==
  ASSUME IInv, NEW d \in Doc, LoadNew(d)
  PROVE  IInv'
<1>1. /\ job.pc = "idle" /\ loads < MaxLoad /\ loads' = loads + 1 /\ torn' = FALSE
      /\ target' = [target EXCEPT ![d] = "own"]
      /\ line' = IF torn THEN line ELSE [line EXCEPT ![d].new = TRUE]
      /\ foreign' = IF InJournal(d) THEN foreign \cup {d} ELSE foreign
      /\ UNCHANGED <<source, journal, plan, job, cancel, faults, crashes, touches, lost>>
  BY DEF LoadNew, AddForeign, InJournal, At
<1>2. /\ target \in [Doc -> Places] /\ line \in [Doc -> Lines] /\ loads \in Nat
  BY Types, Numbers DEF IInv, Bounds
<1>3. /\ target' \in [Doc -> Places] /\ target'[d] = "own"
      /\ \A e \in Doc : e # d => target'[e] = target[e] /\ line'[e] = line[e]
  BY <1>1, <1>2 DEF Places
<1>4. /\ line' \in [Doc -> Lines]
      /\ line'[d].old = line[d].old /\ line'[d].moved = line[d].moved
      /\ ~torn => line'[d].new
  BY <1>1, <1>2 DEF Lines
<1>5. TypeOK'
  <2>1. Bounds'
    BY <1>1, <1>2, Numbers, Types DEF IInv, Bounds
  <2>2. foreign' \subseteq Doc
    BY <1>1, Types DEF IInv
  <2> QED
    BY <1>1, <1>3, <1>4, <2>1, <2>2, Types, TypesAfter DEF IInv
<1>6. LinesOK' /\ LostOK'
  <2>1. LinesOK'
    BY <1>1, <1>2, <1>3, <1>4 DEF IInv, LinesOK, Lines
  <2>2. LostOK'
    BY <1>1, LostFrame DEF IInv
  <2> QED
    BY <2>1, <2>2
<1>7. ASSUME DocsOK
      PROVE  DocsOK'
  <2>1. d \in Own' => /\ ~InJournal(d) /\ line'[d].moved <= line'[d].old
                      /\ Settled(d)' \/ d \in lost
    BY <1>1, <1>3, <1>4, <1>7 DEF DocsOK, Own, Settled
  <2> QED
    BY <1>1, <1>3, <1>7, <2>1 DEF DocsOK, InJournal, Own, Described, InPlace, NotYetMoved, Settled
<1> QED
  BY <1>1, <1>5, <1>6, <1>7, AtRest DEF IInv, MovesOK

LEMMA TouchKeeps ==
  ASSUME IInv, NEW d \in Doc, Touch(d)
  PROVE  IInv'
<1>1. /\ touches < MaxTouch /\ touches' = touches + 1 /\ foreign' = foreign \cup {d}
      /\ UNCHANGED <<line, torn, journal, plan, job, cancel, faults, crashes, loads, lost>>
  BY DEF Touch
<1>2. /\ source' \in [Doc -> Places] /\ target' \in [Doc -> Places]
      /\ \A e \in Doc : e # d => source'[e] = source[e] /\ target'[e] = target[e]
  BY Types DEF IInv, Touch, Places
<1>3. TypeOK' /\ LinesOK' /\ JobOK' /\ LostOK'
  BY <1>1, <1>2, Numbers, Types, TypesAfter DEF IInv, Bounds, LinesOK, JobOK, LostOK
<1>4. ASSUME MovesOK
      PROVE  MovesOK'
  <2>1. Own' = Own \ {d} /\ Own' \subseteq Doc
    BY <1>1 DEF Own
  <2>2. \A e \in Own' : /\ e \in Own
                        /\ Described(e) = Described(e)' /\ Settled(e) = Settled(e)'
                        /\ InPlace(e) = InPlace(e)' /\ NotYetMoved(e) = NotYetMoved(e)'
    BY <1>1, <1>2, <2>1 DEF Described, Settled, InPlace, NotYetMoved
  <2>3. DocsOK'
    BY <1>1, <1>4, <2>2 DEF MovesOK, DocsOK, InJournal
  <2>4. PathOK'
    BY <1>1, <1>4, <2>2 DEF MovesOK, PathOK, At, InPlace, NotYetMoved
  <2>5. FailedOK' /\ LeftOK'
    BY <1>1, <1>4, <2>1, <2>2 DEF MovesOK, FailedOK, LeftOK, At, Settled
  <2> QED
    BY <2>3, <2>4, <2>5 DEF MovesOK
<1> QED
  BY <1>1, <1>3, <1>4 DEF IInv

LEMMA CancelKeeps ==
  ASSUME IInv, Cancel
  PROVE  IInv'
<1>1. /\ cancel' = TRUE /\ UNCHANGED <<faults, crashes, touches, loads>>
      /\ UNCHANGED <<source, target, line, torn, journal, plan, job, foreign, lost>>
  BY DEF Cancel, files, bounds, ghosts
<1>2. TypeOK' /\ LinesOK' /\ JobOK' /\ LostOK'
  BY <1>1, Types, TypesAfter DEF IInv, Bounds, LinesOK, JobOK, LostOK
<1>3. MovesOK => MovesOK'
  BY <1>1, DocsFrame, PathFrame DEF MovesOK, FailedOK, LeftOK, At, Own
<1> QED
  BY <1>1, <1>2, <1>3 DEF IInv

LEMMA CrashKeeps ==
  ASSUME IInv, Crash
  PROVE  IInv'
<1>1. /\ crashes < MaxCrash /\ crashes' = crashes + 1 /\ torn' \in {torn, At("append")}
      /\ job' = NoJob /\ plan' \in {NoPlan, plan}
      /\ UNCHANGED <<source, target, line, journal, cancel, faults, touches, loads, foreign, lost>>
  BY DEF Crash, files, ghosts
<1>2. /\ torn' \in BOOLEAN /\ plan' \in [Doc -> 0 .. MaxLoad + 1]
  <2>1. NoPlan \in [Doc -> 0 .. MaxLoad + 1]
    BY Numbers DEF NoPlan
  <2>2. At("append") \in BOOLEAN
    BY DEF At
  <2> QED
    BY <1>1, <2>1, <2>2, Types DEF IInv
<1>3. TypeOK' /\ LinesOK' /\ LostOK'
  BY <1>1, <1>2, NoJobIs, Numbers, Types, TypesAfter, LostFrame DEF IInv, Bounds, LinesOK
<1>4. DocsOK => DocsOK'
  BY <1>1, DocsFrame
<1> QED
  BY <1>1, <1>3, <1>4, NoJobIs, AtRest DEF IInv, MovesOK

-----------------------------------------------------------------------------
(* The theorems *)

LEMMA InitIInv ==
  ASSUME Init
  PROVE  IInv
<1>1. \A d \in Doc : /\ source[d] = "own" /\ line[d] = [old |-> 1, moved |-> 0, new |-> FALSE]
                     /\ line[d].old = 1 /\ line[d].moved = 0
  BY DEF Init
<1>2. [old |-> 1, moved |-> 0, new |-> FALSE] \in Lines
  BY Numbers DEF Lines
<1>3. TypeOK
  <2>1. NoPlan \in [Doc -> 0 .. MaxLoad + 1]
    BY Numbers DEF NoPlan
  <2>2. source \in [Doc -> Places] /\ target \in [Doc -> Places] /\ line \in [Doc -> Lines]
    BY <1>2 DEF Init, Places
  <2>3. Bounds
    BY Numbers DEF Init, Bounds
  <2> QED
    BY <2>1, <2>2, <2>3, NoJobIs, Types DEF Init
<1>4. LinesOK /\ DocsOK /\ LostOK
  <2>1. LinesOK /\ DocsOK
    BY <1>1 DEF Init, LinesOK, DocsOK, Own, InJournal, Settled
  <2>2. LostOK
    BY FS_EmptySet DEF Init, LostOK
  <2> QED
    BY <2>1, <2>2
<1>5. JobOK /\ PathOK /\ FailedOK /\ LeftOK
  BY NoJobIs DEF Init, JobOK, PathOK, FailedOK, LeftOK, Working, At
<1> QED
  BY <1>3, <1>4, <1>5 DEF IInv, MovesOK

LEMMA NextKeeps ==
  ASSUME IInv, [Next]_vars
  PROVE  IInv'
<1>1. CASE Step
  <2>1. CASE Note \/ NoteAppended
    BY <2>1, MarkKeeps DEF Note, NoteAppended
  <2>2. CASE Stop \/ Rename \/ AppendLine \/ FinishMove \/ Unwind
    BY <2>2, StopKeeps, RenameKeeps, AppendLineKeeps, FinishMoveKeeps, UnwindKeeps
  <2>3. CASE \E d \in Doc : RecoverFirst(d) \/ Refuse(d) \/ Prepare(d)
    BY <2>3, RecoverFirstKeeps, RefuseKeeps, PrepareKeeps
  <2> QED
    BY <1>1, <2>1, <2>2, <2>3 DEF Step
<1>2. CASE Scan \/ Cancel \/ Crash \/ \E S \in SUBSET Doc : Confirm(S)
  BY <1>2, ScanKeeps, CancelKeeps, CrashKeeps, ConfirmKeeps
<1>3. CASE \E d \in Doc : LoadOld(d) \/ LoadNew(d) \/ Touch(d)
  BY <1>3, LoadOldKeeps, LoadNewKeeps, TouchKeeps
<1>4. CASE UNCHANGED vars
  <2>1. /\ UNCHANGED <<source, target, line, torn, journal, plan, job, cancel, foreign, lost>>
        /\ UNCHANGED <<faults, crashes, touches, loads>>
    BY <1>4 DEF vars, files, bounds, ghosts
  <2>2. TypeOK' /\ LinesOK' /\ JobOK' /\ LostOK'
    BY <2>1, Types, TypesAfter DEF IInv, Bounds, LinesOK, JobOK, LostOK
  <2>3. MovesOK => MovesOK'
    BY <2>1, DocsFrame, PathFrame DEF MovesOK, FailedOK, LeftOK, At, Own, Settled
  <2> QED
    BY <2>1, <2>2, <2>3 DEF IInv
<1> QED
  BY <1>1, <1>2, <1>3, <1>4 DEF Next

LEMMA Invariance == Spec => []IInv
<1>1. Init => IInv
  BY InitIInv
<1>2. IInv /\ [Next]_vars => IInv'
  BY NextKeeps
<1> QED
  BY <1>1, <1>2, PTL DEF Spec

\* A document that has left its old place without a history line for the new one is in the
\* journal (storage/reclassification.py:1309, 1341), as long as at most one call of the file
\* system has failed, whoever crashed, touched files or downloaded in between; except for a
\* document whose line went into the line of a dead process (downloader.py:624).
THEOREM MoveIsJournalledHolds == Spec => [](faults < 2 => MoveIsJournalled)
<1>1. IInv /\ faults < 2 => MoveIsJournalled
  <2> SUFFICES ASSUME IInv, faults < 2
               PROVE  HalfMovedIsJournalled
    BY DEF IInv, MoveIsJournalled
  <2>1. \A d \in Own : ~InJournal(d) => Settled(d) \/ d \in lost
    BY DEF IInv, MovesOK, DocsOK
  <2> QED
    BY <2>1, ReclassifyAssumption DEF HalfMovedIsJournalled, HalfMoved, Own, InJournal, Settled
<1> QED
  BY <1>1, Invariance, PTL

\* Without a journal and an application the history tells where each document is that
\* nobody else has touched (storage/reclassification.py:1519), as long as at most one call
\* of the file system has failed; except for the documents whose lines went into the lines
\* of dead processes, and there are at most as many as processes have died.
THEOREM HistoryIsTrueHolds == Spec => [](faults < 2 => HistoryIsTrue)
<1>1. IInv /\ faults < 2 => HistoryIsTrue
  <2> SUFFICES ASSUME IInv, faults < 2
               PROVE  HistoryIsTrue
    OBVIOUS
  <2>1. \A d \in Own : ~InJournal(d) => Settled(d) \/ d \in lost
    BY DEF IInv, MovesOK, DocsOK
  <2>2. Cardinality(lost) <= crashes
    <3>1. Cardinality(lost) \in Nat /\ crashes \in Nat
      BY LostFew DEF IInv
    <3> QED
      BY <3>1, Types DEF IInv, LostOK
  <2> QED
    BY <2>1, <2>2 DEF HistoryIsTrue, Told, Own, InJournal, Settled
<1> QED
  BY <1>1, Invariance, PTL
=============================================================================
