------------------------------- MODULE Ledger -------------------------------
(***************************************************************************)
(* ScheduleRunLedger of src/src/scheduler/ledger.py: the append-only JSONL *)
(* files in which the installations of a user keep the results of their    *)
(* scheduled runs.  Dispatchers append a record, an import merges the      *)
(* records of one schedule from one file into another; both open the file, *)
(* under its guard, and write once.  A write that fails or is cut short by *)
(* a crash may leave a prefix of its text, whose last line has no newline: *)
(* what is written next continues that line.                               *)
(***************************************************************************)
EXTENDS Naturals, Sequences, SequencesExt, FiniteSets

CONSTANTS Proc,       \* processes, each of which writes once
          File,       \* the ledgers, numbered in the order of their paths
          Schedule,
          MaxRun,     \* bound: scheduled runs
          ScheduleOf, \* the schedule of each run
          MaxTear,    \* bound: writes cut short
          MaxGiveUp,  \* bound: crashes and time-outs that write nothing
          Broken,     \* a line that is no record
          Nil

\* run_id and schedule_id.  "copied" is no part of the line: it tells a line that
\* a merge has written from one that a run has appended.
Record == [run : 1 .. MaxRun, schedule : Schedule, copied : BOOLEAN]

ASSUME LedgerAssumption ==
  /\ File \subseteq Nat /\ Nil \notin File \cup Proc
  /\ ScheduleOf \in [1 .. MaxRun -> Schedule]
  /\ MaxRun \in Nat /\ MaxTear \in Nat /\ MaxGiveUp \in Nat
  /\ Broken \notin Record

VARIABLES lines,      \* the lines of each file
          open,       \* TRUE: the last line has no newline
          holder,     \* who holds the guard of each file
          op,         \* what each process does: step, target, source, records
          runs,       \* number of runs that have come to their record
          returned,   \* records that a call has reported as written to a file
          tears, givenUp

ledgerVars == <<lines, open, holder, op, runs, returned, tears, givenUp>>

Call(at, target, source, schedule, added) ==
  [step |-> at, target |-> target, source |-> source, schedule |-> schedule, records |-> added]

Over(at) == Call(at, Nil, Nil, Nil, <<>>)

LedgerInit ==
  /\ lines = [f \in File |-> <<>>]
  /\ open = [f \in File |-> FALSE]
  /\ holder = [f \in File |-> Nil]
  /\ op = [p \in Proc |-> Over("idle")]
  /\ runs = 0
  /\ returned = [f \in File |-> {}]
  /\ tears = [f \in File |-> 0]
  /\ givenUp = 0

-----------------------------------------------------------------------------
(* The text of a file *)

\* The lines of a text at some places, in their order.
LinesAt(text, places) ==
  LET found[n \in 0 .. Len(text)] ==
        IF n = 0 THEN <<>>
        ELSE IF n \in places THEN Append(found[n - 1], text[n]) ELSE found[n - 1]
  IN  found[Len(text)]

\* _record_from_line keeps the lines that are records.
RecordPlaces(text) == {i \in DOMAIN text : text[i] # Broken}
Records(text) == LinesAt(text, RecordPlaces(text))

Readable(f) == ToSet(Records(lines[f]))

\* recent: the last line comes first.
Recent(f) == Reverse(Records(lines[f]))

\* Writing continues a line without newline, which makes one line of two.
Written(f, new) ==
  IF open[f] /\ new # <<>>
  THEN Front(lines[f]) \o <<Broken>> \o Tail(new)
  ELSE lines[f] \o new

\* What may be left of a write: complete lines, the last of them with or without
\* its newline, or followed by a part of the next.
Leftover(new) ==
  {[text |-> SubSeq(new, 1, n), open |-> newline] :
     n \in 1 .. Len(new), newline \in BOOLEAN}
  \cup
  {[text |-> Append(SubSeq(new, 1, n), Broken), open |-> TRUE] : n \in 0 .. Len(new) - 1}

\* Mutant: a merge ends without newline.
EndOpen(p) == op[p].source # Nil

\* The text of an append and of a merge ends with a newline.
EndsOpen(p) == FALSE

-----------------------------------------------------------------------------
(* Locks *)

\* Mutant: a merge locks the file that it writes only.
LockOrderTargetOnly(p) == <<op[p].target>>

\* Mutant: a merge locks its own file first.
LockOrderOwnFirst(p) ==
  IF op[p].source = Nil THEN <<op[p].target>> ELSE <<op[p].target, op[p].source>>

\* The guards that p has to take: one, or both in the order of the paths.
LockOrder(p) ==
  LET t == op[p].target
      s == op[p].source
  IN CASE s = Nil -> <<t>> [] s # Nil /\ t < s -> <<t, s>> [] OTHER -> <<s, t>>

NextLock(p) ==
  IF holder[LockOrder(p)[1]] = p THEN LockOrder(p)[2] ELSE LockOrder(p)[1]

\* The call ends and leaves all its with statements.
Leave(p, at) ==
  /\ op' = [op EXCEPT ![p] = Over(at)]
  /\ holder' = [f \in File |-> IF holder[f] = p THEN Nil ELSE holder[f]]

\* _process_lock; the call that has its last guard goes on.
Lock(p) ==
  /\ op[p].step = "lock"
  /\ holder[NextLock(p)] = Nil
  /\ holder' = [holder EXCEPT ![NextLock(p)] = p]
  /\ op' = [op EXCEPT ![p].step =
       IF NextLock(p) # Last(LockOrder(p)) THEN "lock"
       ELSE IF op[p].source = Nil THEN "write" ELSE "read"]
  /\ UNCHANGED <<lines, open, runs, returned, tears, givenUp>>

\* The guard is still taken after ten seconds.
LockTimesOut(p) ==
  /\ op[p].step = "lock"
  /\ holder[NextLock(p)] # Nil
  /\ givenUp < MaxGiveUp /\ givenUp' = givenUp + 1
  /\ Leave(p, "failed")
  /\ UNCHANGED <<lines, open, runs, returned, tears>>

-----------------------------------------------------------------------------
(* append and merge_from *)

OwnRecord(n) == [run |-> n, schedule |-> ScheduleOf[n], copied |-> FALSE]

\* A process appends the record of a run that has finished or was refused: the
\* next run, or one that is repeated under its run_id because the process that
\* ran it has ended, by a crash or without deleting the ticket, before.
AppendRecord(p) ==
  /\ op[p].step = "idle"
  /\ \E f \in File, n \in 1 .. MaxRun :
       /\ n <= runs + 1
       /\ \A q \in Proc : op[q].source = Nil => OwnRecord(n) \notin ToSet(op[q].records)
       /\ op' = [op EXCEPT ![p] = Call("lock", f, Nil, Nil, <<OwnRecord(n)>>)]
       /\ runs' = IF n > runs THEN n ELSE runs
  /\ UNCHANGED <<lines, open, holder, returned, tears, givenUp>>

\* An import merges the history of one schedule from an existing file.
Merge(p) ==
  /\ op[p].step = "idle"
  /\ \E t, s \in File, schedule \in Schedule :
       /\ s # t /\ lines[s] # <<>>
       /\ op' = [op EXCEPT ![p] = Call("lock", t, s, schedule, <<>>)]
  /\ UNCHANGED <<lines, open, holder, runs, returned, tears, givenUp>>

Copy(record) == [record EXCEPT !.copied = TRUE]

\* Copies of the records of the schedule in one text whose run_id neither the
\* other text nor an earlier one of them has.
Missing(source, target, schedule) ==
  LET known == {target[i].run : i \in RecordPlaces(target)}
      listed == {i \in RecordPlaces(source) : source[i].schedule = schedule}
      new == LinesAt(source, {i \in listed : /\ source[i].run \notin known
                                            /\ \A j \in listed : j < i => source[j].run # source[i].run})
  IN  [i \in DOMAIN new |-> Copy(new[i])]

Pending(p) == Missing(lines[op[p].source], lines[op[p].target], op[p].schedule)

\* Both files are read; with nothing to add the merge returns.
MergeReads(p) ==
  /\ op[p].step = "read"
  /\ IF Pending(p) = <<>>
     THEN Leave(p, "done")
     ELSE /\ op' = [op EXCEPT ![p] =
            Call("write", op[p].target, op[p].source, op[p].schedule, Pending(p))]
          /\ UNCHANGED holder
  /\ UNCHANGED <<lines, open, runs, returned, tears, givenUp>>

\* The write succeeds, and the call returns.
WriteRecords(p) ==
  LET t == op[p].target IN
  /\ op[p].step = "write"
  /\ lines' = [lines EXCEPT ![t] = Written(t, op[p].records)]
  /\ open' = [open EXCEPT ![t] = EndsOpen(p)]
  /\ returned' = [returned EXCEPT ![t] = @ \cup ToSet(op[p].records)]
  /\ Leave(p, "done")
  /\ UNCHANGED <<runs, tears, givenUp>>

\* The process, the machine or the disk gives out during the write.
WriteCutShort(p) ==
  LET t == op[p].target IN
  /\ op[p].step = "write"
  /\ tears[t] < MaxTear /\ tears' = [tears EXCEPT ![t] = @ + 1]
  /\ \E left \in Leftover(op[p].records) :
       /\ lines' = [lines EXCEPT ![t] = Written(t, left.text)]
       /\ open' = [open EXCEPT ![t] = left.open]
  /\ Leave(p, "failed")
  /\ UNCHANGED <<runs, returned, givenUp>>

\* The process ends, or an error ends the call, before it has written.
GiveUp(p) ==
  /\ op[p].step \in {"lock", "read", "write"}
  /\ givenUp < MaxGiveUp /\ givenUp' = givenUp + 1
  /\ Leave(p, "failed")
  /\ UNCHANGED <<lines, open, runs, returned, tears>>

\* All processes have ended.
Ended == (\A p \in Proc : op[p].step \in {"done", "failed"}) /\ UNCHANGED ledgerVars

LedgerNext ==
  \/ \E p \in Proc : \/ AppendRecord(p) \/ Merge(p) \/ Lock(p) \/ MergeReads(p)
                     \/ WriteRecords(p) \/ LockTimesOut(p) \/ WriteCutShort(p) \/ GiveUp(p)
  \/ Ended

LedgerSpec == LedgerInit /\ [][LedgerNext]_ledgerVars

-----------------------------------------------------------------------------
(* Properties *)

LedgerTypeOK ==
  /\ \A f \in File : \A i \in DOMAIN lines[f] : lines[f][i] \in Record \cup {Broken}
  /\ open \in [File -> BOOLEAN]
  /\ holder \in [File -> Proc \cup {Nil}]
  /\ \A p \in Proc :
       /\ op[p].step \in {"idle", "lock", "read", "write", "done", "failed"}
       /\ op[p].target \in File \cup {Nil} /\ op[p].source \in File \cup {Nil}
       /\ ToSet(op[p].records) \subseteq Record
  /\ runs \in 0 .. MaxRun /\ givenUp \in 0 .. MaxGiveUp
  /\ tears \in [File -> 0 .. MaxTear]

\* Merges in opposite directions do not wait for each other: of two processes
\* one of which waits for the other, the other waits for a later file.
WaitsInOrder ==
  \A p, q \in Proc :
    op[p].step = "lock" /\ op[q].step = "lock" /\ holder[NextLock(p)] = q =>
      NextLock(p) < NextLock(q)

\* What a merge is about to add is what its source has and its target has not, at
\* the moment at which it writes.
MergeNotStale ==
  \A p \in Proc :
    op[p].step = "write" /\ op[p].source # Nil => op[p].records = Pending(p)

\* A merge never brings a run that its file shows already, whatever was merged
\* back and forth and whichever writes were cut short.  A file that shows a run
\* twice shows with each line but the first one that the run has appended
\* itself, for it was repeated (RunShownOnce).
NoRunTwice ==
  \A f \in File : \A i, j \in DOMAIN Recent(f) :
    i < j /\ Recent(f)[i].run = Recent(f)[j].run => ~Recent(f)[i].copied

\* Every write that is cut short costs at most one record that a call has
\* reported as written.
LossBounded ==
  \A f \in File : Cardinality(returned[f] \ Readable(f)) <= tears[f]

\* A merge shows no run twice, and only a write that is cut short costs a file a
\* record.
HistoryKept ==
  /\ LedgerTypeOK
  /\ NoRunTwice
  /\ LossBounded

-----------------------------------------------------------------------------
(* What the documentation says and the code does not do. *)

\* A record that a call has reported as written is shown.
ReportedIsShown == \A f \in File : returned[f] \subseteq Readable(f)

\* A run has one record: a run that is repeated under its run_id has several,
\* and a merge, which looks at the run_id, takes the first.
RunShownOnce ==
  \A f \in File : \A i, j \in DOMAIN Recent(f) :
    Recent(f)[i].run = Recent(f)[j].run => i = j

=============================================================================
