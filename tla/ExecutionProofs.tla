--------------------------- MODULE ExecutionProofs ---------------------------
(***************************************************************************)
(* Proofs about an execution and about the file that keeps its result.     *)
(*                                                                         *)
(* Headless, for any limits, documents and number of retries: for its      *)
(* caller an execution is a Job; a queued one ends in time, one that its   *)
(* deadline has passed is recorded as failed, no lasting failure is tried  *)
(* again, the ticket is not left waiting for a retry, and the record counts*)
(* every document once, over all attempts.                                 *)
(*                                                                         *)
(* Ledger, for any number of processes, files, runs and failures: calls    *)
(* that need two guards wait for each other in one direction only, what a  *)
(* merge adds is decided on the files as they are when it writes, a file   *)
(* shows every run once, and a write that is cut short costs it at most one*)
(* record.                                                                 *)
(*                                                                         *)
(* Both follow a recursive function along a sequence.  A step of such an   *)
(* induction is stated as that of a set of numbers, which has a least one  *)
(* that is missing.                                                        *)
(***************************************************************************)
EXTENDS Headless, Ledger, WellFoundedInduction, SequenceTheorems, FiniteSetTheorems, TLAPS

-----------------------------------------------------------------------------
(* Recursive functions *)

\* A set of numbers that has zero and with each number the next has them all.
LEMMA NatSetInduction ==
  ASSUME NEW S, 0 \in S, \A n \in Nat : n \in S => n + 1 \in S
  PROVE  Nat \subseteq S
<1> DEFINE Less == OpToRel(<, Nat)
<1>1. IsWellFoundedOn(Less, Nat)
  BY NatLessThanWellFounded
<1>2. \A m, n \in Nat : m < n => <<m, n>> \in Less
  BY DEF OpToRel
<1> SUFFICES ASSUME Nat \ S # {} PROVE FALSE
  OBVIOUS
<1> HIDE DEF Less
<1>3. PICK x \in Nat \ S : \A y \in Nat \ S : <<y, x>> \notin Less
  <2> DEFINE T == Nat \ S
  <2>1. T \subseteq Nat /\ T # {}
    OBVIOUS
  <2> HIDE DEF T
  <2>2. \E x \in T : \A y \in T : ~ (<<y, x>> \in Less)
    BY <1>1, <2>1, WFMin
  <2> QED
    BY <2>2 DEF T
<1>4. x # 0 /\ x - 1 \in Nat /\ x - 1 < x /\ x - 1 + 1 = x
  BY <1>3
<1>5. x - 1 \notin S
  BY <1>2, <1>3, <1>4
<1> QED
  BY <1>2, <1>3, <1>4, <1>5

\* g starts with b and goes on as G says, up to n.
Follows(g, A, b, n, G) ==
  /\ g \in [0 .. n -> A] /\ g[0] = b
  /\ \A i \in 1 .. n : g[i] = G[<<i, g[i - 1]>>]

\* Some function does.
LEMMA Recursion ==
  ASSUME NEW A, NEW b \in A, NEW n \in Nat, NEW G \in [(1 .. n) \X A -> A]
  PROVE  \E g : Follows(g, A, b, n, G)
<1> DEFINE Upto(m) == \E g \in [0 .. m -> A] :
                        g[0] = b /\ \A i \in 1 .. m : g[i] = G[<<i, g[i - 1]>>]
           S == {m \in Nat : m <= n => Upto(m)}
<1>1. 0 \in S
  <2> DEFINE g == [i \in 0 .. 0 |-> b]
  <2>1. g \in [0 .. 0 -> A] /\ g[0] = b /\ \A i \in 1 .. 0 : FALSE
    OBVIOUS
  <2> HIDE DEF g
  <2>2. Upto(0)
    BY <2>1
  <2> QED
    BY <2>2
<1>2. ASSUME NEW m \in Nat, m \in S PROVE m + 1 \in S
  <2> SUFFICES ASSUME m + 1 <= n PROVE Upto(m + 1)
    OBVIOUS
  <2>1. Upto(m)
    BY <1>2
  <2>2. PICK g \in [0 .. m -> A] : g[0] = b /\ \A i \in 1 .. m : g[i] = G[<<i, g[i - 1]>>]
    BY <2>1
  <2> DEFINE h == [i \in 0 .. m + 1 |-> IF i = m + 1 THEN G[<<m + 1, g[m]>>] ELSE g[i]]
  <2>3. m + 1 \in 1 .. n /\ g[m] \in A
    OBVIOUS
  <2>4. G[<<m + 1, g[m]>>] \in A
    BY <2>3
  <2>5. h \in [0 .. m + 1 -> A]
    BY <2>4
  <2>6. h[0] = b
    BY <2>2
  <2>7. ASSUME NEW i \in 1 .. m + 1 PROVE h[i] = G[<<i, h[i - 1]>>]
    <3>1. CASE i = m + 1
      <4>1. i - 1 = m /\ m \in 0 .. m + 1 /\ m # m + 1 /\ i \in 0 .. m + 1
        BY <3>1
      <4>2. h[i] = G[<<m + 1, g[m]>>] /\ h[i - 1] = g[m]
        BY <3>1, <4>1
      <4> QED
        BY <3>1, <4>2
    <3>2. CASE i # m + 1
      <4>1. i \in 1 .. m /\ i - 1 \in 0 .. m /\ i - 1 # m + 1
        BY <3>2
      <4> QED
        BY <2>2, <3>2, <4>1
    <3> QED
      BY <3>1, <3>2
  <2> HIDE DEF h
  <2> QED
    BY <2>5, <2>6, <2>7
<1> HIDE DEF S
<1>3. Nat \subseteq S
  BY <1>1, <1>2, NatSetInduction
<1>4. n \in S
  BY <1>3
<1> QED
  BY <1>4 DEF S, Follows

-----------------------------------------------------------------------------
(* Headless *)

\* What is kept of an attempt; a reason that may go away is no lasting one.
AttemptType ==
  {a \in [outcome : Outcome, transient : BOOLEAN, lasting : BOOLEAN, late : BOOLEAN,
          saved : SUBSET Doc, reused : SUBSET Doc, failed : SUBSET Doc] :
     a.transient => ~a.lasting}

\* An attempt is over before a result is decided or written.
AttemptsOK ==
  /\ attempts \in Seq(AttemptType)
  /\ step = "decide" => attempts # <<>>
  /\ step \in {"write", "done"} /\ verdict = None => attempts # <<>>
  /\ step \notin {"write", "done"} => verdict = None

\* Only an execution that waits for its retry says that it does.
Flag == faults = 0 /\ step # "sleep" => ~waiting

\* Before another attempt no failure so far is a lasting one.
Lasting ==
  /\ OnlyTransientRetried
  /\ step \in {"start", "queue", "attempt", "sleep", "awake", "stopped"} =>
       \A i \in DOMAIN attempts : ~attempts[i].lasting

\* A result that the deadline has passed is a failure, and what is recorded is
\* the last result.
Reported ==
  /\ step # "done" => records = <<>>
  /\ records # <<>> => Len(records) = 1
  /\ step \in {"decide", "write", "done"} /\ verdict = None /\ Expired =>
       Last(attempts).outcome = "failed"
  /\ records # <<>> /\ verdict = None => Last(records).result = Last(attempts).outcome

Overrun == Max({Longest, Overshoot})

\* Up to the first turn only the queue takes time; from then on the deadline
\* limits every wait, and one attempt or one poll may overrun it.
Time ==
  mode = "queued" =>
    /\ deadline = None =>
         /\ step \in {"start", "queue", "write", "done"}
         /\ step \in {"start", "queue"} => clock = 0
         /\ clock <= QueueLimit + Overshoot
    /\ deadline # None =>
         /\ deadline <= QueueLimit + Overshoot + Limit
         /\ clock <= deadline + Overrun
         /\ step = "attempt" => clock < deadline

\* The attempts have saved the documents that are new, each once, and the last
\* one has found no others saved than those and the old ones.
Counts ==
  verdict = None =>
    /\ before \subseteq store
    /\ NewCount(attempts) = Cardinality(store \ before)
    /\ attempts # <<>> =>
         Cardinality(Last(attempts).reused) <= Cardinality(before) + NewCount(Front(attempts))
    /\ CountsTrue

IInv == TypeOK /\ AttemptsOK /\ Flag /\ Lasting /\ Reported /\ Time /\ Counts

-----------------------------------------------------------------------------
(* The results of the runner *)

LEMMA ReasonsSound ==
  ASSUME NEW some \in BOOLEAN, NEW why \in Reasons[some]
  PROVE  why \in Why /\ (why.transient => ~why.lasting)
<1> DEFINE R(w) == \E outcome \in {"failed", "partial"},
                      tasks \in IF some THEN SUBSET SUBSET Kind \ {{}} ELSE {{}},
                      reasons \in SUBSET Kind, text \in BOOLEAN :
                        /\ w.transient = IsTransient(outcome, tasks, reasons, text)
                        /\ w.lasting = ("lasting" \in UNION tasks \cup reasons)
<1>1. Reasons[some] = {w \in Why : R(w)}
  BY Zenon DEF Reasons
<1>2. why \in Why /\ R(why)
  BY <1>1, Zenon
<1>3. PICK outcome \in {"failed", "partial"},
           tasks \in (IF some THEN SUBSET SUBSET Kind \ {{}} ELSE {{}}),
           reasons \in SUBSET Kind, text \in BOOLEAN :
             /\ why.transient = IsTransient(outcome, tasks, reasons, text)
             /\ why.lasting = ("lasting" \in UNION tasks \cup reasons)
  BY <1>2, Zenon
<1>4. CASE UNION tasks \cup reasons # {}
  <2>1. IsTransient(outcome, tasks, reasons, text) => "lasting" \notin UNION tasks \cup reasons
    BY <1>4, Zenon DEF IsTransient
  <2> QED
    BY <1>2, <1>3, <2>1, Zenon
<1>5. CASE UNION tasks \cup reasons = {}
  BY <1>2, <1>3, <1>5, Zenon
<1> QED
  BY <1>4, <1>5

LEMMA AttemptSound ==
  ASSUME NEW outcome \in Outcome, NEW why \in Why,
         why.transient => ~why.lasting, NEW ok \in SUBSET Doc, NEW failed \in SUBSET Doc
  PROVE  /\ Attempt(outcome, why, ok, failed) \in AttemptType
         /\ Attempt(outcome, why, ok, failed).outcome = outcome
BY DEF Attempt, AttemptType, Why

LEMMA NoReasonSound ==
  NoReason \in Why /\ ~NoReason.transient
BY DEF NoReason, Why

LEMMA ResultsSound ==
  ASSUME NEW late \in BOOLEAN, NEW outcome \in Outcome, NEW why \in Why,
         NEW ok \in SUBSET Doc, NEW failed \in SUBSET Doc,
         RunnerReturns(late, outcome, why, ok, failed)
  PROVE  Attempt(outcome, why, ok, failed) \in AttemptType
<1>1. why.transient => ~why.lasting
  BY ReasonsSound, NoReasonSound, Zenon DEF RunnerReturns
<1> QED
  BY <1>1, AttemptSound

\* A run as two facts: how long it took, and what it left.
LEMMA RunEffect ==
  ASSUME TypeOK, Run
  PROVE  \E d \in 0 .. Longest, late \in BOOLEAN, a \in AttemptType, ok \in SUBSET Doc :
           /\ clock' = clock + d
           /\ late = (deadline # None /\ clock + d >= deadline)
           /\ store' = store \cup ok
           /\ a.saved = ok \ store /\ a.reused = ok \cap store
           /\ attempts' = Append(attempts, Normalise(a, late))
<1>1. PICK d \in 0 .. Longest :
        LET late == deadline # None /\ clock + d >= deadline IN
        /\ clock' = clock + d
        /\ \E outcome \in Outcome, why \in Why, ok \in SUBSET Doc, failed \in SUBSET Doc :
             /\ RunnerReturns(late, outcome, why, ok, failed)
             /\ store' = store \cup ok
             /\ attempts' = Append(attempts, Normalise(Attempt(outcome, why, ok, failed), late))
  BY Zenon DEF Run
<1> DEFINE late == deadline # None /\ clock + d >= deadline
<1>2. late \in BOOLEAN
  OBVIOUS
<1> HIDE DEF late
<1>3. PICK outcome \in Outcome, why \in Why, ok \in SUBSET Doc, failed \in SUBSET Doc :
             /\ RunnerReturns(late, outcome, why, ok, failed)
             /\ store' = store \cup ok
             /\ attempts' = Append(attempts, Normalise(Attempt(outcome, why, ok, failed), late))
  BY <1>1, Zenon DEF late
<1>4. Attempt(outcome, why, ok, failed) \in AttemptType
  BY <1>2, <1>3, ResultsSound
<1>5. late = (deadline # None /\ clock + d >= deadline)
  BY Zenon DEF late
<1> DEFINE a == Attempt(outcome, why, ok, failed)
<1>6. a.saved = ok \ store /\ a.reused = ok \cap store
  BY DEF Attempt
<1>7. a \in AttemptType /\ attempts' = Append(attempts, Normalise(a, late))
  BY <1>3, <1>4
<1> HIDE DEF a
<1> QED
  BY <1>1, <1>2, <1>3, <1>5, <1>6, <1>7, Zenon

LEMMA TimedOutSound ==
  /\ TimedOut \in AttemptType /\ TimedOut.outcome = "failed" /\ ~TimedOut.lasting
  /\ \A a \in AttemptType : /\ TimedOutAfter(a) \in AttemptType
                            /\ TimedOutAfter(a).outcome = "failed"
                            /\ TimedOutAfter(a).saved = a.saved
                            /\ TimedOutAfter(a).reused = a.reused
  /\ TimedOut.saved = {} /\ TimedOut.reused = {}
<1>1. \A a \in AttemptType : /\ TimedOutAfter(a) \in AttemptType
                             /\ TimedOutAfter(a).outcome = "failed" /\ ~TimedOutAfter(a).lasting
                             /\ TimedOutAfter(a).saved = a.saved
                             /\ TimedOutAfter(a).reused = a.reused
  BY DEF AttemptType, TimedOutAfter, Outcome
<1>2. Attempt("failed", NoReason, {}, {}) \in AttemptType
  BY AttemptSound, NoReasonSound DEF Outcome
<1>3. /\ Attempt("failed", NoReason, {}, {}).saved = {}
      /\ Attempt("failed", NoReason, {}, {}).reused = {}
  BY DEF Attempt
<1> QED
  BY <1>1, <1>2, <1>3 DEF TimedOut

LEMMA FailedSound ==
  /\ Attempt("failed", NoReason, {}, {}) \in AttemptType
  /\ Attempt("failed", NoReason, {}, {}).outcome = "failed"
  /\ Attempt("failed", NoReason, {}, {}).saved = {}
  /\ Attempt("failed", NoReason, {}, {}).reused = {}
<1>1. /\ Attempt("failed", NoReason, {}, {}).saved = {}
      /\ Attempt("failed", NoReason, {}, {}).reused = {}
  BY DEF Attempt
<1> QED
  BY <1>1, AttemptSound, NoReasonSound DEF Outcome

LEMMA NormaliseSound ==
  ASSUME NEW a \in AttemptType, NEW late \in BOOLEAN
  PROVE  /\ Normalise(a, late) \in AttemptType
         /\ late => Normalise(a, late).outcome = "failed"
         /\ Normalise(a, late).saved = a.saved
         /\ Normalise(a, late).reused = a.reused
BY TimedOutSound DEF Normalise

\* An attempt at the end of the sequence.
LEMMA Appended ==
  ASSUME AttemptsOK, NEW a \in AttemptType, attempts' = Append(attempts, a)
  PROVE  /\ attempts' \in Seq(AttemptType) /\ attempts' # <<>> /\ Last(attempts') = a
         /\ Len(attempts') = Len(attempts) + 1
         /\ \A i \in DOMAIN attempts' :
              i # Len(attempts') => i \in DOMAIN attempts /\ attempts'[i] = attempts[i]
BY DEF AttemptsOK, Last

LEMMA OverrunBounds == Overrun \in Nat /\ Longest <= Overrun /\ Overshoot <= Overrun
<1>1. \E x \in {Longest, Overshoot} : \A y \in {Longest, Overshoot} : x >= y
  BY HeadlessAssumption
<1> QED
  BY <1>1, HeadlessAssumption DEF Overrun, Max

\* The limits of the waits are times.
LEMMA WaitLimitBounds ==
  ASSUME TypeOK
  PROVE  /\ ~Expired => WaitLimit \in Nat
         /\ deadline = None => WaitLimit = QueueLimit
         /\ ~Expired /\ deadline # None => WaitLimit <= deadline - clock
         /\ Delay \in Nat
         /\ deadline # None => Delay <= deadline - clock \/ Delay = 0
<1> USE HeadlessAssumption DEF TypeOK
<1>1. CASE deadline = None
  BY <1>1 DEF WaitLimit, Delay
<1>2. CASE deadline \in Nat
  <2>1. deadline # None
    BY <1>2
  <2>2. ~Expired => clock < deadline
    BY <1>2, <2>1 DEF Expired
  <2> QED
    BY <1>2, <2>1, <2>2 DEF WaitLimit, Delay
<1> QED
  BY <1>1, <1>2

-----------------------------------------------------------------------------
(* Each part of the invariant is kept *)

LEMMA TypeKept ==
  ASSUME IInv, [Next]_vars
  PROVE  TypeOK'
<1> USE HeadlessAssumption DEF IInv, TypeOK, Reported, AttemptsOK
<1>1. CASE Begin
  BY <1>1 DEF Begin, timeVars, NoFault, Conclude, NextAttempt
<1>2. CASE ExpireBeforeTurn
  BY <1>2 DEF ExpireBeforeTurn, timeVars, NoFault, Expired
<1>3. CASE GetTurn
  BY <1>3, WaitLimitBounds DEF GetTurn, NoFault, Expired
<1>4. CASE TurnTimesOut
  BY <1>4, WaitLimitBounds DEF TurnTimesOut, NoFault, Conclude, Expired
<1>5. CASE TurnFails
  BY <1>5 DEF TurnFails, timeVars, Fault, Conclude, Expired
<1>6. CASE Run
  <2>1. PICK d \in 0 .. Longest, late \in BOOLEAN, a \in AttemptType, ok \in SUBSET Doc :
          clock' = clock + d /\ store' = store \cup ok
    BY <1>6, RunEffect, Zenon
  <2>2. clock' \in Nat /\ store' \subseteq Doc
    BY <2>1
  <2> QED
    BY <1>6, <2>2 DEF Run, NoFault
<1>7. CASE Raise
  BY <1>7 DEF Raise, Fault
<1>8. CASE Stop
  BY <1>8 DEF Stop, timeVars, resultVars, NoFault
<1>9. CASE Retry
  <2>1. waiting' \in BOOLEAN
    BY <1>9, Zenon DEF Retry, timeVars, resultVars, Fault, NoFault
  <2>2. retries' \in 0 .. RetryCount
    BY <1>9 DEF Retry, timeVars, resultVars, Fault, NoFault
  <2> QED
    BY <1>9, <2>1, <2>2 DEF Retry, timeVars, resultVars, Fault, NoFault
<1>10. CASE WakeUp
  <2>1. waiting' \in BOOLEAN
    BY <1>10, Zenon DEF WakeUp, resultVars, Fault, NoFault
  <2>2. clock' \in Nat
    BY <1>10, WaitLimitBounds DEF WakeUp, resultVars, Fault, NoFault
  <2> QED
    BY <1>10, <2>1, <2>2 DEF WakeUp, resultVars, Fault, NoFault
<1>11. CASE StartRetry
  BY <1>11 DEF StartRetry, NoFault, NextAttempt, Expired
<1>12. CASE Interrupted
  BY <1>12 DEF Interrupted, timeVars, NoFault, Conclude
<1>13. CASE Write
  <2>1. Len(records') <= 1
    <3>1. records = <<>>
      BY <1>13 DEF Write, timeVars, Fault, NoFault
    <3>2. \A r : Len(Append(<<>>, r)) = 1
      OBVIOUS
    <3>3. records' = <<>> \/ \E r : records' = Append(<<>>, r)
      BY <1>13, <3>1, Zenon DEF Write
    <3>4. records' = <<>> \/ Len(records') = 1
      BY <3>2, <3>3, Zenon
    <3>5. Len(<<>>) <= 1 /\ 1 <= 1
      OBVIOUS
    <3> QED
      BY <3>4, <3>5, Zenon
  <2> QED
    BY <1>13, <2>1 DEF Write, timeVars, Fault, NoFault
<1>14. CASE Interrupt
  BY <1>14 DEF Interrupt, timeVars, NoFault, Conclude
<1>15. CASE Done
  BY <1>15 DEF Done, vars
<1>16. CASE UNCHANGED vars
  BY <1>16 DEF vars, timeVars, resultVars, Expired
<1> QED
  BY <1>1, <1>2, <1>3, <1>4, <1>5, <1>6, <1>7, <1>8, <1>9, <1>10, <1>11, <1>12, <1>13, <1>14, <1>15, <1>16 DEF Next, Steps

LEMMA AttemptsKept ==
  ASSUME IInv, [Next]_vars
  PROVE  AttemptsOK'
<1> USE HeadlessAssumption DEF IInv, TypeOK, AttemptsOK
<1>1. CASE Begin
  BY <1>1 DEF Begin, timeVars, NoFault, Conclude, NextAttempt
<1>2. CASE ExpireBeforeTurn
  BY <1>2, TimedOutSound, Appended DEF ExpireBeforeTurn, timeVars, NoFault, Expired
<1>3. CASE GetTurn
  BY <1>3, TimedOutSound, Appended DEF GetTurn, NoFault, Expired
<1>4. CASE TurnTimesOut
  BY <1>4, TimedOutSound, Appended DEF TurnTimesOut, NoFault, Conclude, Expired
<1>5. CASE TurnFails
  BY <1>5 DEF TurnFails, timeVars, Fault, Conclude, Expired
<1>6. CASE Run
  BY <1>6, RunEffect, NormaliseSound, Appended DEF Run, NoFault
<1>7. CASE Raise
  BY <1>7, FailedSound, Appended DEF Raise, Fault
<1>8. CASE Stop
  BY <1>8 DEF Stop, timeVars, resultVars, NoFault
<1>9. CASE Retry
  BY <1>9 DEF Retry, timeVars, resultVars, Fault, NoFault
<1>10. CASE WakeUp
  BY <1>10 DEF WakeUp, resultVars, Fault, NoFault
<1>11. CASE StartRetry
  BY <1>11, TimedOutSound, Appended DEF StartRetry, NoFault, NextAttempt, Expired
<1>12. CASE Interrupted
  BY <1>12 DEF Interrupted, timeVars, NoFault, Conclude
<1>13. CASE Write
  BY <1>13 DEF Write, timeVars, Fault, NoFault
<1>14. CASE Interrupt
  BY <1>14 DEF Interrupt, timeVars, NoFault, Conclude
<1>15. CASE Done
  BY <1>15 DEF Done, vars
<1>16. CASE UNCHANGED vars
  BY <1>16 DEF vars, timeVars, resultVars, Expired
<1> QED
  BY <1>1, <1>2, <1>3, <1>4, <1>5, <1>6, <1>7, <1>8, <1>9, <1>10, <1>11, <1>12, <1>13, <1>14, <1>15, <1>16 DEF Next, Steps

LEMMA FlagKept ==
  ASSUME IInv, [Next]_vars
  PROVE  Flag'
<1> USE HeadlessAssumption DEF IInv, TypeOK, Flag
<1>1. CASE Begin
  BY <1>1 DEF Begin, timeVars, NoFault, Conclude, NextAttempt
<1>2. CASE ExpireBeforeTurn
  BY <1>2 DEF ExpireBeforeTurn, timeVars, NoFault, Expired
<1>3. CASE GetTurn
  BY <1>3 DEF GetTurn, NoFault, Expired
<1>4. CASE TurnTimesOut
  BY <1>4 DEF TurnTimesOut, NoFault, Conclude, Expired
<1>5. CASE TurnFails
  BY <1>5 DEF TurnFails, timeVars, Fault, Conclude, Expired
<1>6. CASE Run
  BY <1>6 DEF Run, NoFault
<1>7. CASE Raise
  BY <1>7 DEF Raise, Fault
<1>8. CASE Stop
  BY <1>8 DEF Stop, timeVars, resultVars, NoFault
<1>9. CASE Retry
  BY <1>9 DEF Retry, timeVars, resultVars, Fault, NoFault
<1>10. CASE WakeUp
  BY <1>10 DEF WakeUp, resultVars, Fault, NoFault
<1>11. CASE StartRetry
  BY <1>11 DEF StartRetry, NoFault, NextAttempt, Expired
<1>12. CASE Interrupted
  BY <1>12 DEF Interrupted, timeVars, NoFault, Conclude
<1>13. CASE Write
  BY <1>13 DEF Write, timeVars, Fault, NoFault
<1>14. CASE Interrupt
  BY <1>14 DEF Interrupt, timeVars, NoFault, Conclude
<1>15. CASE Done
  BY <1>15 DEF Done, vars
<1>16. CASE UNCHANGED vars
  BY <1>16 DEF vars, timeVars, resultVars, Expired
<1> QED
  BY <1>1, <1>2, <1>3, <1>4, <1>5, <1>6, <1>7, <1>8, <1>9, <1>10, <1>11, <1>12, <1>13, <1>14, <1>15, <1>16 DEF Next, Steps

LEMMA LastingKept ==
  ASSUME IInv, [Next]_vars
  PROVE  Lasting'
<1> USE HeadlessAssumption DEF IInv, TypeOK, AttemptsOK, Lasting, OnlyTransientRetried
<1>1. CASE Begin
  BY <1>1 DEF Begin, timeVars, NoFault, Conclude, NextAttempt
<1>2. CASE ExpireBeforeTurn
  BY <1>2, TimedOutSound, Appended DEF ExpireBeforeTurn, timeVars, NoFault, Expired
<1>3. CASE GetTurn
  BY <1>3, TimedOutSound, Appended DEF GetTurn, NoFault, Expired
<1>4. CASE TurnTimesOut
  BY <1>4, TimedOutSound, Appended DEF TurnTimesOut, NoFault, Conclude, Expired
<1>5. CASE TurnFails
  BY <1>5 DEF TurnFails, timeVars, Fault, Conclude, Expired
<1>6. CASE Run
  BY <1>6, RunEffect, NormaliseSound, Appended DEF Run, NoFault
<1>7. CASE Raise
  BY <1>7, FailedSound, Appended DEF Raise, Fault
<1>8. CASE Stop
  BY <1>8 DEF Stop, timeVars, resultVars, NoFault
<1>9. CASE Retry
  <2>1. attempts # <<>> /\ attempts' = attempts /\ attempts[Len(attempts)].transient
    BY <1>9 DEF Retry, timeVars, resultVars, Fault, NoFault, Last
  <2>2. Len(attempts) \in DOMAIN attempts /\ attempts[Len(attempts)] \in AttemptType
    BY <2>1
  <2>3. \A i \in DOMAIN attempts : ~attempts[i].lasting
    BY <2>1, <2>2 DEF AttemptType
  <2> QED
    BY <2>1, <2>3
<1>10. CASE WakeUp
  BY <1>10 DEF WakeUp, resultVars, Fault, NoFault
<1>11. CASE StartRetry
  BY <1>11, TimedOutSound, Appended DEF StartRetry, NoFault, NextAttempt, Expired
<1>12. CASE Interrupted
  BY <1>12 DEF Interrupted, timeVars, NoFault, Conclude
<1>13. CASE Write
  BY <1>13 DEF Write, timeVars, Fault, NoFault
<1>14. CASE Interrupt
  BY <1>14 DEF Interrupt, timeVars, NoFault, Conclude
<1>15. CASE Done
  BY <1>15 DEF Done, vars
<1>16. CASE UNCHANGED vars
  BY <1>16 DEF vars, timeVars, resultVars, Expired
<1> QED
  BY <1>1, <1>2, <1>3, <1>4, <1>5, <1>6, <1>7, <1>8, <1>9, <1>10, <1>11, <1>12, <1>13, <1>14, <1>15, <1>16 DEF Next, Steps

LEMMA ReportedKept ==
  ASSUME IInv, [Next]_vars
  PROVE  Reported'
<1> USE HeadlessAssumption DEF IInv, TypeOK, AttemptsOK, Reported, Expired
<1>1. CASE Begin
  BY <1>1 DEF Begin, timeVars, NoFault, Conclude, NextAttempt
<1>2. CASE ExpireBeforeTurn
  BY <1>2, TimedOutSound, Appended DEF ExpireBeforeTurn, timeVars, NoFault, Expired
<1>3. CASE GetTurn
  BY <1>3, TimedOutSound, Appended DEF GetTurn, NoFault, Expired
<1>4. CASE TurnTimesOut
  BY <1>4, TimedOutSound, Appended DEF TurnTimesOut, NoFault, Conclude, Expired
<1>5. CASE TurnFails
  BY <1>5 DEF TurnFails, timeVars, Fault, Conclude, Expired
<1>6. CASE Run
  <2>1. PICK d \in 0 .. Longest, late \in BOOLEAN, a \in AttemptType, ok \in SUBSET Doc :
          /\ clock' = clock + d
          /\ late = (deadline # None /\ clock + d >= deadline)
          /\ attempts' = Append(attempts, Normalise(a, late))
    BY <1>6, RunEffect, Zenon
  <2>5. Normalise(a, late) \in AttemptType /\ (late => Normalise(a, late).outcome = "failed")
    BY NormaliseSound
  <2>6. Last(attempts') = Normalise(a, late)
    BY <2>1, <2>5, Appended
  <2>7. step' = "decide" /\ records' = <<>> /\ UNCHANGED deadline
    BY <1>6 DEF Run, NoFault
  <2>8. Expired' => late
    BY <2>1, <2>7
  <2> QED
    BY <2>5, <2>6, <2>7, <2>8
<1>7. CASE Raise
  BY <1>7, FailedSound, Appended DEF Raise, Fault
<1>8. CASE Stop
  BY <1>8 DEF Stop, timeVars, resultVars, NoFault
<1>9. CASE Retry
  BY <1>9 DEF Retry, timeVars, resultVars, Fault, NoFault
<1>10. CASE WakeUp
  BY <1>10 DEF WakeUp, resultVars, Fault, NoFault
<1>11. CASE StartRetry
  BY <1>11, TimedOutSound, Appended DEF StartRetry, NoFault, NextAttempt, Expired
<1>12. CASE Interrupted
  BY <1>12 DEF Interrupted, timeVars, NoFault, Conclude
<1>13. CASE Write
  <2>1. step = "write" /\ records = <<>> /\ step' = "done" /\ UNCHANGED <<attempts, verdict, clock, deadline>>
    BY <1>13 DEF Write, timeVars, Fault, NoFault
  <2>2. \A r : Len(Append(<<>>, r)) = 1 /\ Last(Append(<<>>, r)) = r
    BY DEF Last
  <2>3. verdict = None => RecordOf(attempts).result = Last(attempts).outcome
    BY DEF RecordOf
  <2>4. \/ records' = <<>>
        \/ \E r : records' = Append(<<>>, r) /\ (verdict = None => r = RecordOf(attempts))
    BY <1>13, <2>1, Zenon DEF Write
  <2>5. \/ records' = <<>>
        \/ Len(records') = 1 /\ (verdict = None => Last(records') = RecordOf(attempts))
    BY <2>2, <2>4, Zenon
  <2> QED
    BY <2>1, <2>3, <2>5
<1>14. CASE Interrupt
  BY <1>14 DEF Interrupt, timeVars, NoFault, Conclude
<1>15. CASE Done
  BY <1>15 DEF Done, vars
<1>16. CASE UNCHANGED vars
  BY <1>16 DEF vars, timeVars, resultVars, Expired
<1> QED
  BY <1>1, <1>2, <1>3, <1>4, <1>5, <1>6, <1>7, <1>8, <1>9, <1>10, <1>11, <1>12, <1>13, <1>14, <1>15, <1>16 DEF Next, Steps

LEMMA TimeKept ==
  ASSUME IInv, [Next]_vars
  PROVE  Time'
<1> USE HeadlessAssumption DEF IInv, TypeOK, Time
<1>1. CASE Begin
  BY <1>1 DEF Begin, timeVars, NoFault, Conclude, NextAttempt
<1>2. CASE ExpireBeforeTurn
  BY <1>2 DEF ExpireBeforeTurn, timeVars, NoFault, Expired
<1>3. CASE GetTurn
  BY <1>3, OverrunBounds, WaitLimitBounds DEF GetTurn, NoFault, Expired
<1>4. CASE TurnTimesOut
  BY <1>4, OverrunBounds, WaitLimitBounds DEF TurnTimesOut, NoFault, Conclude, Expired
<1>5. CASE TurnFails
  BY <1>5 DEF TurnFails, timeVars, Fault, Conclude, Expired
<1>6. CASE Run
  BY <1>6, OverrunBounds DEF Run, NoFault
<1>7. CASE Raise
  BY <1>7 DEF Raise, Fault
<1>8. CASE Stop
  BY <1>8 DEF Stop, timeVars, resultVars, NoFault
<1>9. CASE Retry
  BY <1>9 DEF Retry, timeVars, resultVars, Fault, NoFault
<1>10. CASE WakeUp
  BY <1>10, OverrunBounds, WaitLimitBounds DEF WakeUp, resultVars, Fault, NoFault
<1>11. CASE StartRetry
  BY <1>11, OverrunBounds DEF StartRetry, NoFault, NextAttempt, Expired
<1>12. CASE Interrupted
  BY <1>12 DEF Interrupted, timeVars, NoFault, Conclude
<1>13. CASE Write
  BY <1>13 DEF Write, timeVars, Fault, NoFault
<1>14. CASE Interrupt
  BY <1>14 DEF Interrupt, timeVars, NoFault, Conclude
<1>15. CASE Done
  BY <1>15 DEF Done, vars
<1>16. CASE UNCHANGED vars
  BY <1>16 DEF vars, timeVars, resultVars, Expired
<1> QED
  BY <1>1, <1>2, <1>3, <1>4, <1>5, <1>6, <1>7, <1>8, <1>9, <1>10, <1>11, <1>12, <1>13, <1>14, <1>15, <1>16 DEF Next, Steps

-----------------------------------------------------------------------------
(* The record counts every document once *)

LEMMA FiniteDocs ==
  ASSUME NEW S \in SUBSET Doc
  PROVE  IsFiniteSet(S) /\ Cardinality(S) \in Nat
BY HeadlessAssumption, FS_Subset, FS_CardinalityType

LEMMA SavedFinite ==
  ASSUME NEW s \in Seq(AttemptType), NEW n \in 1 .. Len(s)
  PROVE  s[n] \in AttemptType /\ Cardinality(s[n].saved) \in Nat
<1>1. s[n] \in AttemptType
  OBVIOUS
<1>2. s[n].saved \in SUBSET Doc
  BY <1>1 DEF AttemptType
<1> QED
  BY <1>1, <1>2, FiniteDocs

\* The recursion of NewCount.
LEMMA NewCountRecursion ==
  ASSUME NEW s \in Seq(AttemptType)
  PROVE  \E g \in [0 .. Len(s) -> Nat] :
           /\ NewCount(s) = g[Len(s)]
           /\ g[0] = 0
           /\ \A n \in 1 .. Len(s) : g[n] = g[n - 1] + Cardinality(s[n].saved)
<1> DEFINE N == Len(s)
           Grow(n, x) == x + Cardinality(s[n].saved)
           F(f) == [n \in 0 .. N |-> IF n = 0 THEN 0 ELSE Grow(n, f[n - 1])]
           G == [p \in (1 .. N) \X Nat |-> Grow(p[1], p[2])]
<1>0. N \in Nat /\ 0 \in Nat
  OBVIOUS
<1>1. \A n \in 1 .. N, x \in Nat : Grow(n, x) \in Nat
  BY SavedFinite
<1>2. G \in [(1 .. N) \X Nat -> Nat]
  BY <1>1
<1>3. \A n \in 1 .. N, x \in Nat : G[<<n, x>>] = Grow(n, x)
  OBVIOUS
<1> HIDE DEF G, N
<1>4. PICK g : Follows(g, Nat, 0, N, G)
  BY <1>0, <1>2, Recursion
<1>5. /\ g \in [0 .. N -> Nat] /\ g[0] = 0
      /\ \A i \in 1 .. N : g[i] = Grow(i, g[i - 1])
  <2>1. g \in [0 .. N -> Nat] /\ g[0] = 0 /\ \A i \in 1 .. N : g[i] = G[<<i, g[i - 1]>>]
    BY <1>4 DEF Follows
  <2>2. \A i \in 1 .. N : i - 1 \in 0 .. N
    BY <1>0
  <2>3. \A i \in 1 .. N : g[i - 1] \in Nat
    BY <2>1, <2>2
  <2> HIDE DEF Grow
  <2> QED
    BY <1>3, <2>1, <2>3
<1> HIDE DEF Grow
<1>6. g = F(g)
  BY <1>0, <1>5
<1> DEFINE total == CHOOSE f : f = F(f)
<1>7. total = F(total)
  BY <1>6
<1>8. NewCount(s) = total[N]
  BY DEF NewCount, Grow, N
<1> HIDE DEF total
<1>9. total[0] = 0 /\ \A n \in 1 .. N : total[n] = Grow(n, total[n - 1])
  <2>1. \A n \in 0 .. N : total[n] = IF n = 0 THEN 0 ELSE Grow(n, total[n - 1])
    BY <1>7
  <2>2. 0 \in 0 .. N /\ \A n \in 1 .. N : n \in 0 .. N /\ n # 0
    BY <1>0
  <2> QED
    BY <2>1, <2>2
<1> DEFINE S == {n \in Nat : n <= N => total[n] = g[n]}
<1>10. 0 \in S
  BY <1>5, <1>9
<1>11. ASSUME NEW n \in Nat, n \in S PROVE n + 1 \in S
  <2>1. CASE n + 1 <= N
    <3>1. n + 1 \in 1 .. N /\ n + 1 - 1 = n /\ total[n] = g[n]
      BY <1>11, <2>1, <1>0
    <3>2. total[n + 1] = Grow(n + 1, g[n]) /\ g[n + 1] = Grow(n + 1, g[n])
      BY <1>5, <1>9, <3>1
    <3> QED
      BY <3>2
  <2> QED
    BY <2>1
<1>12. total[N] = g[N]
  <2> HIDE DEF S
  <2>1. Nat \subseteq S
    BY <1>10, <1>11, NatSetInduction
  <2> QED
    BY <1>0, <2>1 DEF S
<1> QED
  BY <1>5, <1>8, <1>12 DEF Grow, N

LEMMA NewCountNothing == NewCount(<<>>) = 0
<1>1. <<>> \in Seq(AttemptType) /\ Len(<<>>) = 0
  OBVIOUS
<1>2. \E g \in [0 .. Len(<<>>) -> Nat] : NewCount(<<>>) = g[Len(<<>>)] /\ g[0] = 0
  BY <1>1, NewCountRecursion
<1> QED
  BY <1>1, <1>2

\* One more attempt adds what it has saved.
LEMMA NewCountAppend ==
  ASSUME NEW s \in Seq(AttemptType), NEW a \in AttemptType
  PROVE  NewCount(s) \in Nat /\ NewCount(Append(s, a)) = NewCount(s) + Cardinality(a.saved)
<1> DEFINE t == Append(s, a)
           N == Len(s)
<1>1. /\ N \in Nat /\ t \in Seq(AttemptType) /\ Len(t) = N + 1 /\ t[N + 1] = a
      /\ \A n \in 1 .. N : t[n] = s[n]
  BY AppendProperties
<1>2. PICK g \in [0 .. N -> Nat] :
        /\ NewCount(s) = g[N] /\ g[0] = 0
        /\ \A n \in 1 .. N : g[n] = g[n - 1] + Cardinality(s[n].saved)
  BY NewCountRecursion
<1> HIDE DEF t, N
<1>3. PICK h \in [0 .. N + 1 -> Nat] :
        /\ NewCount(t) = h[N + 1] /\ h[0] = 0
        /\ \A n \in 1 .. N + 1 : h[n] = h[n - 1] + Cardinality(t[n].saved)
  <2>1. \E h \in [0 .. Len(t) -> Nat] :
          /\ NewCount(t) = h[Len(t)] /\ h[0] = 0
          /\ \A n \in 1 .. Len(t) : h[n] = h[n - 1] + Cardinality(t[n].saved)
    BY <1>1, NewCountRecursion
  <2> QED
    BY <1>1, <2>1
<1> DEFINE S == {n \in Nat : n <= N => h[n] = g[n]}
<1>4. 0 \in S
  BY <1>2, <1>3
<1>5. ASSUME NEW n \in Nat, n \in S PROVE n + 1 \in S
  <2>1. CASE n + 1 <= N
    <3>1. n + 1 \in 1 .. N /\ n + 1 \in 1 .. N + 1 /\ n + 1 - 1 = n /\ h[n] = g[n]
      BY <1>1, <1>5, <2>1
    <3>2. t[n + 1] = s[n + 1]
      BY <1>1, <3>1
    <3>3. h[n + 1] = h[n] + Cardinality(t[n + 1].saved) /\ g[n + 1] = g[n] + Cardinality(s[n + 1].saved)
      BY <1>2, <1>3, <3>1
    <3> QED
      BY <3>1, <3>2, <3>3
  <2> QED
    BY <2>1
<1>6. h[N] = g[N]
  <2> HIDE DEF S
  <2>1. Nat \subseteq S
    BY <1>4, <1>5, NatSetInduction
  <2> QED
    BY <1>1, <2>1 DEF S
<1>7. N + 1 \in 1 .. N + 1 /\ N + 1 - 1 = N /\ N \in 0 .. N
  BY <1>1
<1>8. h[N + 1] = h[N] + Cardinality(a.saved)
  BY <1>1, <1>3, <1>7
<1> QED
  BY <1>2, <1>3, <1>6, <1>7, <1>8 DEF t

LEMMA LastAndFront ==
  ASSUME NEW s \in Seq(AttemptType), NEW a \in AttemptType
  PROVE  Last(Append(s, a)) = a /\ Front(Append(s, a)) = s
<1> DEFINE t == Append(s, a)
<1>1. /\ t \in Seq(AttemptType) /\ Len(t) = Len(s) + 1 /\ t[Len(s) + 1] = a
      /\ \A k \in 1 .. Len(s) : t[k] = s[k]
  BY AppendProperties
<1>2. Len(s) \in Nat /\ Len(t) - 1 = Len(s)
  BY <1>1
<1> HIDE DEF t
<1>3. Last(t) = a
  BY <1>1 DEF Last
<1>4. Front(t) = s
  <2>1. SubSeq(t, 1, Len(s)) \in Seq(AttemptType) /\ Len(SubSeq(t, 1, Len(s))) = Len(s)
        /\ \A k \in 1 .. Len(s) : SubSeq(t, 1, Len(s))[k] = t[k]
    <3>1. \A k \in 1 .. Len(s) : t[k] \in AttemptType
      BY <1>1, <1>2
    <3>2. /\ SubSeq(t, 1, Len(s)) \in Seq(AttemptType)
          /\ Len(SubSeq(t, 1, Len(s))) = IF 1 <= Len(s) THEN Len(s) - 1 + 1 ELSE 0
          /\ \A i \in 1 .. Len(s) - 1 + 1 : SubSeq(t, 1, Len(s))[i] = t[1 + i - 1]
      BY <1>2, <3>1, SubSeqProperties
    <3>3. /\ (IF 1 <= Len(s) THEN Len(s) - 1 + 1 ELSE 0) = Len(s)
          /\ Len(s) - 1 + 1 = Len(s) /\ \A i \in 1 .. Len(s) : 1 + i - 1 = i
      BY <1>2
    <3> QED
      BY <3>2, <3>3
  <2>2. SubSeq(t, 1, Len(s)) = s
    <3> DEFINE part == SubSeq(t, 1, Len(s))
    <3>1. /\ part \in Seq(AttemptType) /\ Len(part) = Len(s)
          /\ \A k \in 1 .. Len(s) : part[k] = s[k]
      BY <1>1, <2>1
    <3> HIDE DEF part
    <3>2. part = [k \in 1 .. Len(part) |-> part[k]] /\ s = [k \in 1 .. Len(s) |-> s[k]]
      BY <3>1
    <3>3. part = s
      BY <3>1, <3>2
    <3> QED
      BY <3>3 DEF part
  <2> QED
    BY <1>2, <2>2 DEF Front
<1> QED
  BY <1>3, <1>4 DEF t

\* An attempt that has saved what was not there, and found what was.
LEMMA AttemptCounted ==
  ASSUME IInv, verdict = None, records = <<>>, NEW a \in AttemptType, NEW ok \in SUBSET Doc,
         attempts' = Append(attempts, a), store' = store \cup ok,
         a.saved = ok \ store, a.reused \subseteq store,
         UNCHANGED <<verdict, before, records>>
  PROVE  Counts'
<1>1. /\ before \in SUBSET Doc /\ store \in SUBSET Doc /\ before \subseteq store
      /\ NewCount(attempts) = Cardinality(store \ before)
      /\ attempts \in Seq(AttemptType)
  BY DEF IInv, TypeOK, Counts, AttemptsOK
<1>2. /\ NewCount(attempts) \in Nat
      /\ NewCount(attempts') = NewCount(attempts) + Cardinality(a.saved)
  BY <1>1, NewCountAppend
<1>3. before' \subseteq store'
  BY <1>1
<1>4. NewCount(attempts') = Cardinality(store' \ before')
  <2> DEFINE old == store \ before
             new == ok \ store
  <2>1. /\ old \in SUBSET Doc /\ new \in SUBSET Doc /\ old \cap new = {}
        /\ store' \ before' = old \cup new
    BY <1>1
  <2> HIDE DEF old, new
  <2>2. /\ IsFiniteSet(old) /\ IsFiniteSet(new)
        /\ Cardinality(old) \in Nat /\ Cardinality(new) \in Nat
    BY <2>1, FiniteDocs
  <2>3. Cardinality(old \cup new) = Cardinality(old) + Cardinality(new)
    <3>1. Cardinality(old \cup new) = Cardinality(old) + Cardinality(new) - Cardinality(old \cap new)
      BY <2>2, FS_Union
    <3>2. Cardinality(old \cap new) = 0
      BY <2>1, FS_EmptySet
    <3> QED
      BY <2>2, <3>1, <3>2
  <2> QED
    BY <1>1, <1>2, <2>1, <2>3 DEF old, new
<1>5. Cardinality(a.reused) <= Cardinality(before) + NewCount(attempts)
  <2> DEFINE old == store \ before
             found == a.reused
  <2>1. old \in SUBSET Doc /\ before \cap old = {} /\ before \cup old = store /\ found \in SUBSET store
    BY <1>1
  <2>2. NewCount(attempts) = Cardinality(old)
    BY <1>1
  <2> HIDE DEF old, found
  <2>3. /\ IsFiniteSet(old) /\ IsFiniteSet(before) /\ IsFiniteSet(store)
        /\ Cardinality(old) \in Nat /\ Cardinality(before) \in Nat
    BY <1>1, <2>1, FiniteDocs
  <2>4. Cardinality(found) <= Cardinality(store)
    BY <2>1, <2>3, FS_Subset
  <2>5. Cardinality(store) = Cardinality(before) + Cardinality(old)
    <3>1. Cardinality(before \cup old) =
            Cardinality(before) + Cardinality(old) - Cardinality(before \cap old)
      BY <2>3, FS_Union
    <3>2. Cardinality(before \cap old) = 0
      BY <2>1, FS_EmptySet
    <3>3. Cardinality(store) = Cardinality(before \cup old)
      BY <2>1
    <3> QED
      BY <2>3, <3>1, <3>2, <3>3
  <2> QED
    BY <2>2, <2>4, <2>5 DEF found
<1>6. Last(attempts') = a /\ Front(attempts') = attempts
  BY <1>1, LastAndFront
<1>7. CountsTrue'
  BY DEF CountsTrue
<1> QED
  BY <1>3, <1>4, <1>5, <1>6, <1>7 DEF Counts

\* An attempt that has saved and found nothing.
LEMMA NothingCounted ==
  ASSUME IInv, verdict = None, records = <<>>, NEW a \in AttemptType,
         a.saved = {}, a.reused = {}, attempts' = Append(attempts, a),
         UNCHANGED <<verdict, before, records, store>>
  PROVE  Counts'
<1>1. {} \in SUBSET Doc /\ store' = store \cup {} /\ a.saved = {} \ store /\ a.reused \subseteq store
  OBVIOUS
<1> QED
  BY <1>1, AttemptCounted

\* The record of the last attempt.
LEMMA RecordCounts ==
  ASSUME IInv, attempts # <<>>, verdict = None
  PROVE  /\ RecordOf(attempts).new = Cardinality(store \ before)
         /\ RecordOf(attempts).existing <= Cardinality(before)
<1> DEFINE prior == NewCount(Front(attempts))
           reused == Cardinality(Last(attempts).reused)
           old == Cardinality(before)
<1>1. NewCount(attempts) = Cardinality(store \ before) /\ reused <= old + prior
  BY DEF IInv, Counts
<1>2. attempts \in Seq(AttemptType)
  BY DEF IInv, AttemptsOK
<1>3. prior \in Nat
  <2>1. Front(attempts) \in Seq(AttemptType)
    BY <1>2 DEF Front
  <2>2. \A s \in Seq(AttemptType) : \E g \in [0 .. Len(s) -> Nat] : NewCount(s) = g[Len(s)]
    BY NewCountRecursion
  <2>3. \A s \in Seq(AttemptType) : NewCount(s) \in Nat
    BY <2>2
  <2> QED
    BY <2>1, <2>3
<1>4. reused \in Nat /\ old \in Nat
  <2>1. Last(attempts) \in AttemptType
    BY <1>2 DEF Last
  <2>2. Last(attempts).reused \in SUBSET Doc /\ before \in SUBSET Doc
    BY <2>1 DEF AttemptType, IInv, TypeOK
  <2> QED
    BY <2>2, FiniteDocs
<1>5. /\ RecordOf(attempts).new = NewCount(attempts)
      /\ RecordOf(attempts).existing = IF reused > prior THEN reused - prior ELSE 0
  BY DEF RecordOf
<1> HIDE DEF prior, reused, old
<1>6. (IF reused > prior THEN reused - prior ELSE 0) <= old
  BY <1>1, <1>3, <1>4
<1> QED
  BY <1>1, <1>5, <1>6 DEF old

LEMMA CountsKept ==
  ASSUME IInv, [Next]_vars
  PROVE  Counts'
<1>0. /\ step \notin {"write", "done"} => verdict = None
      /\ step # "done" => records = <<>>
      /\ \A r : r \in {"busy", "queue_timeout", "cancelled"} => r # None
      /\ Counts /\ TypeOK /\ AttemptsOK
  BY HeadlessAssumption DEF IInv, AttemptsOK, Reported
<1>a. ASSUME UNCHANGED <<verdict, before, store, attempts, records>> PROVE Counts'
  BY <1>0, <1>a DEF Counts, CountsTrue
<1>b. ASSUME verdict' # None PROVE Counts'
  BY <1>b DEF Counts
<1>1. CASE Begin
  <2>1. UNCHANGED <<before, store, attempts, records>> /\ (UNCHANGED verdict \/ verdict' # None)
    BY <1>0, <1>1 DEF Begin, timeVars, NoFault, Conclude
  <2> QED
    BY <1>a, <1>b, <2>1
<1>2. CASE ExpireBeforeTurn
  <2>1. UNCHANGED <<verdict, before, store, records>> /\ attempts' = Append(attempts, TimedOut)
    BY <1>2 DEF ExpireBeforeTurn, timeVars
  <2> QED
    BY <1>0, <1>2, <2>1, TimedOutSound, NothingCounted DEF ExpireBeforeTurn
<1>3. CASE GetTurn
  <2>1. /\ UNCHANGED <<verdict, before, store, records>> /\ verdict = None /\ records = <<>>
        /\ attempts' = Append(attempts, TimedOut) \/ UNCHANGED attempts
    BY <1>0, <1>3 DEF GetTurn
  <2> QED
    BY <1>a, <2>1, TimedOutSound, NothingCounted
<1>4. CASE TurnTimesOut
  <2>1. /\ UNCHANGED <<before, store, records>> /\ verdict = None /\ records = <<>>
        /\ \/ attempts' = Append(attempts, TimedOut) /\ UNCHANGED verdict
           \/ verdict' # None
    BY <1>0, <1>4 DEF TurnTimesOut, Conclude
  <2> QED
    BY <1>b, <2>1, TimedOutSound, NothingCounted
<1>5. CASE TurnFails
  BY <1>0, <1>5, <1>b DEF TurnFails, Conclude
<1>6. CASE Run
  <2>1. PICK d \in 0 .. Longest, late \in BOOLEAN, a \in AttemptType, ok \in SUBSET Doc :
          /\ store' = store \cup ok
          /\ a.saved = ok \ store /\ a.reused = ok \cap store
          /\ attempts' = Append(attempts, Normalise(a, late))
    BY <1>0, <1>6, RunEffect, Zenon
  <2>2. /\ Normalise(a, late) \in AttemptType
        /\ Normalise(a, late).saved = ok \ store /\ Normalise(a, late).reused \subseteq store
    BY <2>1, NormaliseSound
  <2>3. verdict = None /\ records = <<>> /\ UNCHANGED <<verdict, before, records>>
    BY <1>0, <1>6 DEF Run
  <2> QED
    BY <2>1, <2>2, <2>3, AttemptCounted
<1>7. CASE Raise
  <2>1. /\ UNCHANGED <<verdict, before, store, records>> /\ verdict = None /\ records = <<>>
        /\ attempts' = Append(attempts, Attempt("failed", NoReason, {}, {}))
    BY <1>0, <1>7 DEF Raise
  <2> QED
    BY <2>1, FailedSound, NothingCounted
<1>8. CASE Stop
  BY <1>8, <1>a DEF Stop, resultVars
<1>9. CASE Retry
  BY <1>9, <1>a DEF Retry, resultVars
<1>10. CASE WakeUp
  BY <1>10, <1>a DEF WakeUp, resultVars
<1>11. CASE StartRetry
  <2>1. /\ UNCHANGED <<verdict, before, store, records>> /\ verdict = None /\ records = <<>>
        /\ attempts' = Append(attempts, TimedOut) \/ UNCHANGED attempts
    BY <1>0, <1>11 DEF StartRetry
  <2> QED
    BY <1>a, <2>1, TimedOutSound, NothingCounted
<1>12. CASE Interrupted
  BY <1>0, <1>12, <1>b DEF Interrupted, Conclude
<1>13. CASE Write
  <2>1. step = "write" /\ records = <<>> /\ UNCHANGED <<verdict, before, store, attempts>>
    BY <1>0, <1>13 DEF Write
  <2>2. CASE verdict # None
    BY <1>b, <2>1, <2>2
  <2>3. CASE UNCHANGED records
    BY <1>a, <2>1, <2>3
  <2>4. CASE verdict = None /\ records' = Append(records, RecordOf(attempts))
    <3> DEFINE r == RecordOf(attempts)
    <3>1. attempts # <<>>
      BY <1>0, <2>1, <2>4 DEF AttemptsOK
    <3>2. r.new = Cardinality(store \ before) /\ r.existing <= Cardinality(before)
      BY <2>4, <3>1, RecordCounts
    <3> HIDE DEF r
    <3>3. records' = <<r>>
      BY <2>1, <2>4 DEF r
    <3>4. \A i \in DOMAIN records' : records'[i] = r
      BY <3>3
    <3>5. CountsTrue'
      BY <2>1, <3>2, <3>4 DEF CountsTrue
    <3> QED
      BY <1>0, <2>1, <3>5 DEF Counts
  <2> QED
    BY <1>13, <2>1, <2>2, <2>3, <2>4 DEF Write
<1>14. CASE Interrupt
  BY <1>0, <1>14, <1>b DEF Interrupt, Conclude
<1>15. CASE Done
  BY <1>15, <1>a DEF Done, vars
<1>16. CASE UNCHANGED vars
  BY <1>16, <1>a DEF vars
<1> QED
  BY <1>1, <1>2, <1>3, <1>4, <1>5, <1>6, <1>7, <1>8, <1>9, <1>10, <1>11, <1>12, <1>13, <1>14, <1>15, <1>16 DEF Next, Steps

-----------------------------------------------------------------------------
(* The theorems *)

LEMMA Invariant == Spec => []IInv
<1>1. Init => IInv
  <2> SUFFICES ASSUME Init PROVE IInv
    OBVIOUS
  <2> USE HeadlessAssumption DEF Init
  <2>1. TypeOK
    <3>1. Len(records) <= 1
      OBVIOUS
    <3>2. waiting \in BOOLEAN
      BY Zenon
    <3> QED
      BY <3>1, <3>2 DEF TypeOK
  <2>2. AttemptsOK /\ Flag /\ Lasting
    BY DEF AttemptsOK, Flag, Lasting, OnlyTransientRetried
  <2>3. Reported /\ Time
    BY DEF Reported, Time
  <2>4. Counts
    <3>1. Cardinality(store \ before) = 0
      <4>1. store \ before = {} /\ Cardinality({}) = 0
        BY FS_EmptySet
      <4> QED
        BY <4>1
    <3> QED
      BY <3>1, NewCountNothing DEF Counts, CountsTrue
  <2> QED
    BY <2>1, <2>2, <2>3, <2>4 DEF IInv
<1>2. IInv /\ [Next]_vars => IInv'
  BY TypeKept, AttemptsKept, FlagKept, LastingKept, ReportedKept, TimeKept, CountsKept DEF IInv
<1> QED
  BY <1>1, <1>2, PTL DEF Spec

\* A limit that is passed ends the job in time, and says so; whatever ends it, the
\* ticket is not left waiting for a retry, no lasting failure was tried again, and the
\* record counts every document once (execute_headless, its deadline and its record).
THEOREM DeadlineIsKept == Spec => []DeadlineKept
<1>1. IInv => TimeoutReported /\ RetryFlagCleared /\ OnlyTransientRetried
  BY DEF IInv, Reported, Flag, Lasting, TimeoutReported, RetryFlagCleared
<1>2. IInv => EndsInTime
  <2> SUFFICES ASSUME IInv, mode = "queued"
               PROVE  clock <= QueueLimit + Overshoot + Limit + Overrun
    BY DEF EndsInTime, Overrun
  <2>1. CASE deadline = None
    BY <2>1, OverrunBounds, HeadlessAssumption DEF IInv, Time, TypeOK
  <2>2. CASE deadline # None
    BY <2>2, OverrunBounds, HeadlessAssumption DEF IInv, Time, TypeOK
  <2> QED
    BY <2>1, <2>2
<1>3. IInv => CountsTrue
  BY DEF IInv, Counts, CountsTrue
<1>4. IInv => DeadlineKept
  BY <1>1, <1>2, <1>3 DEF IInv, DeadlineKept
<1> QED
  BY <1>4, Invariant, PTL

\* For its caller the execution runs, may wait and run again as often as the policy
\* says, and ends: each of its steps is one of Job, or none that the caller sees.
THEOREM ExecutionIsJob == Spec => ImplementsJob
<1>1. Init => Caller!Init
  BY DEF Init, Caller!Init, Phase
<1>2. ASSUME IInv, [Next]_vars
      PROVE  [Caller!Next]_<<Phase, retries>>
  <2> USE HeadlessAssumption DEF Caller!Next, Phase
  <2>1. CASE Begin
    BY <2>1 DEF Begin, timeVars, NoFault, Conclude, NextAttempt, Caller!Finish
  <2>2. CASE ExpireBeforeTurn
    BY <2>2 DEF ExpireBeforeTurn, timeVars, NoFault, Expired, Caller!Finish
  <2>3. CASE GetTurn
    BY <2>3 DEF GetTurn, NoFault, Expired, Caller!Finish
  <2>4. CASE TurnTimesOut
    BY <2>4 DEF TurnTimesOut, NoFault, Conclude, Expired, Caller!Finish
  <2>5. CASE TurnFails
    BY <2>5 DEF TurnFails, timeVars, Fault, Conclude, Expired, Caller!Finish
  <2>6. CASE Run
    BY <2>6 DEF Run, NoFault
  <2>7. CASE Raise
    BY <2>7 DEF Raise, Fault, Caller!Finish
  <2>8. CASE Stop
    BY <2>8 DEF Stop, timeVars, resultVars, NoFault, Caller!Finish
  <2>9. CASE Retry
    BY <2>9 DEF Retry, timeVars, resultVars, Fault, NoFault, Caller!WaitForRetry
  <2>10. CASE WakeUp
    BY <2>10 DEF WakeUp, resultVars, Fault, NoFault, Caller!RetryJob
  <2>11. CASE StartRetry
    BY <2>11 DEF StartRetry, NoFault, NextAttempt, Expired, Caller!Finish
  <2>12. CASE Interrupted
    BY <2>12 DEF Interrupted, timeVars, NoFault, Conclude, Caller!Finish
  <2>13. CASE Write
    BY <2>13 DEF Write, timeVars, Fault, NoFault
  <2>14. CASE Interrupt
    BY <2>14 DEF Interrupt, timeVars, NoFault, Conclude, Caller!Finish
  <2>15. CASE Done
    BY <2>15 DEF Done, vars
  <2>16. CASE UNCHANGED vars
    BY <2>16 DEF vars
  <2> QED
    BY <1>2, <2>1, <2>2, <2>3, <2>4, <2>5, <2>6, <2>7, <2>8, <2>9, <2>10, <2>11, <2>12, <2>13, <2>14, <2>15, <2>16 DEF Next, Steps
<1> QED
  BY <1>1, <1>2, Invariant, PTL DEF Spec, ImplementsJob, Caller!Spec

-----------------------------------------------------------------------------
(* The text of a file *)

\* The recursion of LinesAt.
LEMMA LinesAtRecursion ==
  ASSUME NEW T, NEW text \in Seq(T), NEW places
  PROVE  \E g \in [0 .. Len(text) -> Seq(T)] :
           /\ LinesAt(text, places) = g[Len(text)]
           /\ g[0] = <<>>
           /\ \A n \in 1 .. Len(text) :
                g[n] = IF n \in places THEN Append(g[n - 1], text[n]) ELSE g[n - 1]
<1> DEFINE Step(n, s) == IF n \in places THEN Append(s, text[n]) ELSE s
           F(f) == [n \in 0 .. Len(text) |-> IF n = 0 THEN <<>> ELSE Step(n, f[n - 1])]
           G == [p \in (1 .. Len(text)) \X Seq(T) |-> Step(p[1], p[2])]
<1>0. Len(text) \in Nat /\ (\A n \in 1 .. Len(text) : text[n] \in T) /\ <<>> \in Seq(T)
  OBVIOUS
<1>1. \A n \in 1 .. Len(text), s \in Seq(T) : Step(n, s) \in Seq(T)
  BY <1>0
<1>2. G \in [(1 .. Len(text)) \X Seq(T) -> Seq(T)]
  BY <1>1
<1>3. \A n \in 1 .. Len(text), s \in Seq(T) : G[<<n, s>>] = Step(n, s)
  OBVIOUS
<1> HIDE DEF G
<1>4. PICK g \in [0 .. Len(text) -> Seq(T)] :
        g[0] = <<>> /\ \A i \in 1 .. Len(text) : g[i] = G[<<i, g[i - 1]>>]
  <2> DEFINE N == Len(text)
             A == Seq(T)
             b == <<>>
  <2>1. N \in Nat /\ b \in A /\ G \in [(1 .. N) \X A -> A]
    BY <1>0, <1>2
  <2> HIDE DEF N, A, b
  <2>2. \E g : Follows(g, A, b, N, G)
    BY <2>1, Recursion
  <2> QED
    BY <2>2 DEF N, A, b, Follows
<1>5. ASSUME NEW i \in 1 .. Len(text) PROVE g[i] = Step(i, g[i - 1])
  <2>1. i - 1 \in 0 .. Len(text)
    BY <1>0
  <2>2. g[i - 1] \in Seq(T)
    BY <2>1
  <2> QED
    BY <1>3, <1>4, <2>2
<1> HIDE DEF Step
<1>6. g = F(g)
  BY <1>4, <1>5
<1> DEFINE found == CHOOSE f : f = F(f)
<1>7. found = F(found)
  BY <1>6
<1>8. LinesAt(text, places) = found[Len(text)]
  BY DEF LinesAt, Step
<1> HIDE DEF found
<1>9. found[0] = <<>> /\ \A n \in 1 .. Len(text) : found[n] = Step(n, found[n - 1])
  <2>1. \A n \in 0 .. Len(text) : found[n] = IF n = 0 THEN <<>> ELSE Step(n, found[n - 1])
    BY <1>7
  <2> QED
    BY <1>0, <2>1
<1> DEFINE S == {n \in Nat : n <= Len(text) => found[n] = g[n]}
<1>10. 0 \in S
  BY <1>4, <1>9
<1>11. ASSUME NEW n \in Nat, n \in S PROVE n + 1 \in S
  <2>1. CASE n + 1 <= Len(text)
    <3>1. n + 1 \in 1 .. Len(text) /\ n + 1 - 1 = n /\ found[n] = g[n]
      BY <1>11, <2>1, <1>0
    <3> QED
      BY <1>5, <1>9, <3>1
  <2> QED
    BY <2>1
<1>12. found[Len(text)] = g[Len(text)]
  <2> HIDE DEF S
  <2>1. Nat \subseteq S
    BY <1>10, <1>11, NatSetInduction
  <2> QED
    BY <1>0, <2>1 DEF S
<1> QED
  BY <1>4, <1>5, <1>8, <1>12 DEF Step

\* m tells where in text each line of s comes from: the places, in their order.
Places(m, s, text, places, n) ==
  /\ m \in [1 .. Len(s) -> places \cap (1 .. n)]
  /\ \A k \in 1 .. Len(s) : s[k] = text[m[k]]
  /\ \A k, l \in 1 .. Len(s) : k < l => m[k] < m[l]
  /\ \A i \in places \cap (1 .. n) : \E k \in 1 .. Len(s) : m[k] = i

\* LinesAt gives the lines at the places, each once and in their order.
LEMMA LinesAtOK ==
  ASSUME NEW T, NEW text \in Seq(T), NEW places
  PROVE  /\ LinesAt(text, places) \in Seq(T)
         /\ \E m : Places(m, LinesAt(text, places), text, places, Len(text))
<1> DEFINE N == Len(text)
<1>0. N \in Nat /\ \A n \in 1 .. N : text[n] \in T
  OBVIOUS
<1>1. PICK g \in [0 .. N -> Seq(T)] :
           /\ LinesAt(text, places) = g[N]
           /\ g[0] = <<>>
           /\ \A n \in 1 .. N : g[n] = IF n \in places THEN Append(g[n - 1], text[n]) ELSE g[n - 1]
  BY LinesAtRecursion
<1> DEFINE S == {n \in Nat : n <= N => \E m : Places(m, g[n], text, places, n)}
<1> HIDE DEF N
<1>2. 0 \in S
  <2> DEFINE m == [k \in 1 .. 0 |-> 0]
  <2>1. Places(m, g[0], text, places, 0)
    BY <1>1 DEF Places
  <2> QED
    BY <2>1
<1>3. ASSUME NEW n \in Nat, n \in S PROVE n + 1 \in S
  <2> SUFFICES ASSUME n + 1 <= N PROVE \E m : Places(m, g[n + 1], text, places, n + 1)
    OBVIOUS
  <2>0. n \in 0 .. N /\ n + 1 \in 1 .. N /\ n + 1 - 1 = n /\ n <= N
    BY <1>0
  <2>1. PICK m : Places(m, g[n], text, places, n)
    BY <1>3, <2>0
  <2>2. g[n + 1] = IF n + 1 \in places THEN Append(g[n], text[n + 1]) ELSE g[n]
    BY <1>1, <2>0
  <2> DEFINE s == g[n]
             L == Len(s)
  <2>3. s \in Seq(T) /\ L \in Nat /\ text[n + 1] \in T
    BY <1>0, <2>0
  <2> HIDE DEF s
  <2>4. CASE n + 1 \notin places
    <3>1. g[n + 1] = s
      BY <2>2, <2>4 DEF s
    <3>2. places \cap (1 .. n + 1) = places \cap (1 .. n)
      BY <2>4
    <3>3. Places(m, s, text, places, n)
      BY <2>1 DEF s
    <3> QED
      BY <3>1, <3>2, <3>3 DEF Places
  <2>5. CASE n + 1 \in places
    <3> DEFINE t == Append(s, text[n + 1])
               w == [k \in 1 .. L + 1 |-> IF k = L + 1 THEN n + 1 ELSE m[k]]
    <3>1. g[n + 1] = t
      BY <2>2, <2>5 DEF s
    <3>2. Len(t) = L + 1 /\ t[L + 1] = text[n + 1] /\ \A k \in 1 .. L : t[k] = s[k]
      BY <2>3
    <3>3. /\ m \in [1 .. L -> places \cap (1 .. n)]
          /\ \A k \in 1 .. L : s[k] = text[m[k]]
          /\ \A k, l \in 1 .. L : k < l => m[k] < m[l]
          /\ \A i \in places \cap (1 .. n) : \E k \in 1 .. L : m[k] = i
      BY <2>1 DEF Places, s
    <3> HIDE DEF t, L
    <3>4. /\ \A k \in 1 .. L : m[k] \in places \cap (1 .. n) /\ w[k] = m[k] /\ k # L + 1
          /\ w[L + 1] = n + 1
      BY <2>3, <3>3
    <3> HIDE DEF w
    <3>5. w \in [1 .. L + 1 -> places \cap (1 .. n + 1)]
      <4>1. ASSUME NEW k \in 1 .. L + 1 PROVE w[k] \in places \cap (1 .. n + 1)
        <5>1. CASE k = L + 1
          BY <2>5, <3>4, <5>1
        <5>2. CASE k # L + 1
          <6>1. k \in 1 .. L
            BY <2>3, <5>2
          <6>2. m[k] \in places /\ m[k] \in 1 .. n /\ w[k] = m[k]
            BY <3>4, <6>1
          <6> QED
            BY <6>2
        <5> QED
          BY <5>1, <5>2
      <4> QED
        BY <4>1 DEF w
    <3>6. \A k \in 1 .. L + 1 : t[k] = text[w[k]]
      BY <2>3, <3>2, <3>3, <3>4
    <3>7. \A k, l \in 1 .. L + 1 : k < l => w[k] < w[l]
      <4> SUFFICES ASSUME NEW k \in 1 .. L + 1, NEW l \in 1 .. L + 1, k < l PROVE w[k] < w[l]
        OBVIOUS
      <4>1. k \in 1 .. L
        BY <2>3
      <4>2. CASE l = L + 1
        BY <3>4, <4>1, <4>2
      <4>3. CASE l # L + 1
        <5>1. l \in 1 .. L
          BY <2>3, <4>3
        <5>2. w[k] = m[k] /\ w[l] = m[l] /\ m[k] < m[l]
          BY <3>3, <3>4, <4>1, <5>1
        <5> QED
          BY <5>2
      <4> QED
        BY <4>2, <4>3
    <3>8. \A i \in places \cap (1 .. n + 1) : \E k \in 1 .. L + 1 : w[k] = i
      <4> SUFFICES ASSUME NEW i \in places \cap (1 .. n + 1) PROVE \E k \in 1 .. L + 1 : w[k] = i
        OBVIOUS
      <4>1. CASE i = n + 1
        BY <2>3, <3>4, <4>1
      <4>2. CASE i # n + 1
        <5>1. PICK k \in 1 .. L : m[k] = i
          BY <3>3, <4>2
        <5>2. k \in 1 .. L + 1 /\ w[k] = i
          BY <2>3, <3>4, <5>1
        <5> QED
          BY <5>2
      <4> QED
        BY <4>1, <4>2
    <3>9. Places(w, t, text, places, n + 1)
      BY <3>2, <3>5, <3>6, <3>7, <3>8 DEF Places
    <3> QED
      BY <3>1, <3>9
  <2> QED
    BY <2>4, <2>5
<1>4. N \in S
  <2> HIDE DEF S
  <2>1. Nat \subseteq S
    BY <1>2, <1>3, NatSetInduction
  <2> QED
    BY <1>0, <2>1
<1>5. \E m : Places(m, g[N], text, places, N)
  BY <1>0, <1>4
<1>6. g[N] \in Seq(T)
  BY <1>0
<1> QED
  BY <1>1, <1>5, <1>6 DEF N

-----------------------------------------------------------------------------
(* Ledger *)

\* op and holder are what their updates take them for; the records of a call
\* may be anything.
Shape ==
  /\ holder \in [File -> Proc \cup {Nil}]
  /\ op = [p \in Proc |-> [step |-> op[p].step, target |-> op[p].target,
                           source |-> op[p].source, schedule |-> op[p].schedule,
                           records |-> op[p].records]]
  /\ DOMAIN lines = File

\* A call names its file, or its two files.
CallOK(p) ==
  /\ op[p].step \in {"idle", "lock", "read", "write", "done", "failed"}
  /\ op[p].target \in File \cup {Nil} /\ op[p].source \in File \cup {Nil}
  /\ op[p].step \in {"lock", "read", "write"} =>
       /\ op[p].target \in File
       /\ op[p].source \in (File \cup {Nil}) \ {op[p].target}
  /\ op[p].step = "read" => op[p].source # Nil

\* The guards that a call has: none when it is over, some of its own but not
\* the last while it asks for them, and all when it works on the files.
LocksOK(p) ==
  /\ op[p].step \notin {"lock", "read", "write"} => \A f \in File : holder[f] # p
  /\ op[p].step = "lock" =>
       \A f \in File : holder[f] = p => op[p].source # Nil /\ f = LockOrder(p)[1]
  /\ op[p].step \in {"read", "write"} =>
       /\ holder[op[p].target] = p
       /\ op[p].source # Nil => holder[op[p].source] = p

\* The inductive invariant.
LedgerInv ==
  /\ Shape
  /\ \A p \in Proc : CallOK(p) /\ LocksOK(p)
  /\ MergeNotStale

LEMMA FilesAreNumbers == File \subseteq Nat /\ Nil \notin File \cup Proc
BY LedgerAssumption

\* LockOrder in the cases that a proof distinguishes.
LEMMA LockOrderCases ==
  ASSUME NEW p \in Proc, op[p].target \in File,
         op[p].source \in (File \cup {Nil}) \ {op[p].target}
  PROVE  \/ op[p].source = Nil /\ LockOrder(p) = <<op[p].target>>
         \/ /\ op[p].source # Nil /\ op[p].target < op[p].source
            /\ LockOrder(p) = <<op[p].target, op[p].source>>
         \/ /\ op[p].source # Nil /\ op[p].source < op[p].target
            /\ LockOrder(p) = <<op[p].source, op[p].target>>
<1>1. CASE op[p].source = Nil
  BY <1>1 DEF LockOrder
<1>2. CASE op[p].source # Nil /\ op[p].target < op[p].source
  BY <1>2 DEF LockOrder
<1>3. CASE op[p].source # Nil /\ ~(op[p].target < op[p].source)
  <2>1. \A t, s \in Nat : s # t /\ ~(t < s) => s < t
    OBVIOUS
  <2>2. op[p].target \in Nat /\ op[p].source \in Nat /\ op[p].source # op[p].target
    BY <1>3, FilesAreNumbers
  <2>3. op[p].source < op[p].target
    BY <1>3, <2>1, <2>2
  <2> QED
    BY <1>3, <2>3 DEF LockOrder
<1> QED
  BY <1>1, <1>2, <1>3

\* The guard that a call asks for is of one of its files.
LEMMA NextLockIsFile ==
  ASSUME NEW p \in Proc, op[p].step = "lock", op[p].target \in File,
         op[p].source \in (File \cup {Nil}) \ {op[p].target}, LocksOK(p)
  PROVE  NextLock(p) \in File
<1>1. op[p].source # Nil => op[p].source \in File
  OBVIOUS
<1>2. LockOrder(p)[1] \in File /\ (op[p].source # Nil => LockOrder(p)[2] \in File)
  BY <1>1, LockOrderCases
<1>3. CASE holder[LockOrder(p)[1]] = p
  <2>1. op[p].source # Nil
    BY <1>2, <1>3 DEF LocksOK
  <2> QED
    BY <1>2, <1>3, <2>1 DEF NextLock
<1>4. CASE holder[LockOrder(p)[1]] # p
  BY <1>2, <1>4 DEF NextLock
<1> QED
  BY <1>3, <1>4

\* Calls wait for each other in the order of the files.
LEMMA LocksGiveOrder == LedgerInv => WaitsInOrder
<1> SUFFICES ASSUME LedgerInv, NEW p \in Proc, NEW q \in Proc, op[p].step = "lock",
                    op[q].step = "lock", holder[NextLock(p)] = q
             PROVE  NextLock(p) < NextLock(q)
  BY DEF WaitsInOrder
<1>1. /\ op[p].target \in File /\ op[p].source \in (File \cup {Nil}) \ {op[p].target}
      /\ op[q].target \in File /\ op[q].source \in (File \cup {Nil}) \ {op[q].target}
  BY DEF LedgerInv, CallOK
<1>2. NextLock(p) \in File
  BY <1>1, NextLockIsFile DEF LedgerInv
<1>3. op[q].source # Nil /\ NextLock(p) = LockOrder(q)[1]
  BY <1>2 DEF LedgerInv, LocksOK
<1>4. NextLock(q) = LockOrder(q)[2]
  BY <1>3 DEF NextLock
<1>5. LockOrder(q)[1] < LockOrder(q)[2]
  BY <1>1, <1>3, LockOrderCases, FilesAreNumbers
<1> QED
  BY <1>3, <1>4, <1>5

-----------------------------------------------------------------------------
(* Steps *)

\* A step that changes only what p does, and the files that p has, leaves the
\* other calls as they are.
LEMMA OthersKept ==
  ASSUME LedgerInv, NEW p \in Proc, Shape',
         \A q \in Proc \ {p} : op'[q] = op[q],
         \A q \in Proc \ {p} : \A f \in File : (holder'[f] = q) <=> (holder[f] = q),
         \A f \in File : holder[f] # p => lines'[f] = lines[f],
         CallOK(p)', LocksOK(p)',
         op'[p].step = "write" /\ op'[p].source # Nil => op'[p].records = Pending(p)'
  PROVE  LedgerInv'
<1>1. ASSUME NEW q \in Proc \ {p} PROVE CallOK(q)'
  BY <1>1 DEF LedgerInv, CallOK
<1>2. ASSUME NEW q \in Proc \ {p} PROVE LocksOK(q)'
  <2>1. op'[q] = op[q] /\ LockOrder(q)' = LockOrder(q)
    BY <1>2 DEF LockOrder
  <2>2. CallOK(q) /\ LocksOK(q)
    BY <1>2 DEF LedgerInv
  <2> QED
    BY <1>2, <2>1, <2>2 DEF LocksOK, CallOK
<1>3. ASSUME NEW q \in Proc \ {p}, op[q].step = "write", op[q].source # Nil
      PROVE  op'[q].records = Pending(q)'
  <2>1. /\ op[q].target \in File /\ op[q].source \in File
        /\ holder[op[q].target] = q /\ holder[op[q].source] = q
    BY <1>3 DEF LedgerInv, CallOK, LocksOK
  <2>2. /\ lines'[op[q].target] = lines[op[q].target]
        /\ lines'[op[q].source] = lines[op[q].source]
    BY <1>3, <2>1
  <2>3. op[q].records = Pending(q)
    BY <1>3 DEF LedgerInv, MergeNotStale
  <2>4. Pending(q)' = Pending(q)
    BY <1>3, <2>2 DEF Pending
  <2> QED
    BY <1>3, <2>3, <2>4
<1>4. MergeNotStale'
  BY <1>3 DEF MergeNotStale
<1> QED
  BY <1>1, <1>2, <1>4 DEF LedgerInv

\* A call that ends leaves the others as they are.
LEMMA LeaveStep ==
  ASSUME LedgerInv, NEW p \in Proc, NEW at \in {"done", "failed"}, Leave(p, at),
         DOMAIN lines' = File,
         \A f \in File : holder[f] # p => lines'[f] = lines[f]
  PROVE  LedgerInv'
<1>1. /\ op' = [op EXCEPT ![p] = Over(at)]
      /\ holder' = [f \in File |-> IF holder[f] = p THEN Nil ELSE holder[f]]
  BY DEF Leave
<1>2. op'[p] = Over(at) /\ \A q \in Proc \ {p} : op'[q] = op[q]
  BY <1>1 DEF LedgerInv, Shape
<1>3. op'[p].step = at /\ op'[p].target = Nil /\ op'[p].source = Nil
  BY <1>2 DEF Over, Call
<1>4. Shape'
  <2>1. holder' \in [File -> Proc \cup {Nil}]
    BY <1>1 DEF LedgerInv, Shape
  <2>2. op' = [q \in Proc |-> [step |-> op'[q].step, target |-> op'[q].target,
                 source |-> op'[q].source, schedule |-> op'[q].schedule,
                 records |-> op'[q].records]]
    BY <1>1, <1>2 DEF LedgerInv, Shape, Over, Call
  <2> QED
    BY <2>1, <2>2 DEF Shape
<1>5. \A f \in File : holder'[f] # p
  BY <1>1, FilesAreNumbers
<1>6. \A q \in Proc \ {p} : \A f \in File : (holder'[f] = q) <=> (holder[f] = q)
  BY <1>1, FilesAreNumbers
<1>7. CallOK(p)' /\ LocksOK(p)'
  BY <1>3, <1>5 DEF CallOK, LocksOK
<1> QED
  BY <1>2, <1>3, <1>4, <1>6, <1>7, OthersKept

\* A call that begins has no guard yet.
LEMMA BeginStep ==
  ASSUME LedgerInv, NEW p \in Proc, AppendRecord(p) \/ Merge(p)
  PROVE  LedgerInv'
<1>1. PICK new : /\ op' = [op EXCEPT ![p] = new]
                 /\ new = [step |-> "lock", target |-> new.target, source |-> new.source,
                           schedule |-> new.schedule, records |-> new.records]
                 /\ new.target \in File
                 /\ new.source \in (File \cup {Nil}) \ {new.target}
  <2>1. CASE AppendRecord(p)
    <3>1. PICK f \in File, n \in 1 .. MaxRun :
            op' = [op EXCEPT ![p] = Call("lock", f, Nil, Nil, <<OwnRecord(n)>>)]
      BY <2>1 DEF AppendRecord
    <3> DEFINE added == <<OwnRecord(n)>>
    <3> HIDE DEF added
    <3>2. op' = [op EXCEPT ![p] = Call("lock", f, Nil, Nil, added)]
      BY <3>1 DEF added
    <3> DEFINE begun == [step |-> "lock", target |-> f, source |-> Nil,
                         schedule |-> Nil, records |-> added]
    <3>3. op' = [op EXCEPT ![p] = begun]
      BY <3>2 DEF Call
    <3>4. begun.source \in (File \cup {Nil}) \ {begun.target}
      BY FilesAreNumbers
    <3> WITNESS begun
    <3> QED
      BY <3>3, <3>4
  <2>2. CASE Merge(p)
    <3>1. PICK t \in File, s \in File, schedule \in Schedule :
            /\ s # t
            /\ op' = [op EXCEPT ![p] = Call("lock", t, s, schedule, <<>>)]
      BY <2>2 DEF Merge
    <3> DEFINE begun == [step |-> "lock", target |-> t, source |-> s,
                         schedule |-> schedule, records |-> <<>>]
    <3>2. op' = [op EXCEPT ![p] = begun]
      BY <3>1 DEF Call
    <3> WITNESS begun
    <3> QED
      BY <3>1, <3>2
  <2> QED
    BY <2>1, <2>2
<1>2. op[p].step = "idle" /\ UNCHANGED <<lines, holder>>
  BY DEF AppendRecord, Merge
<1>3. op'[p] = new /\ \A q \in Proc \ {p} : op'[q] = op[q]
  BY <1>1 DEF LedgerInv, Shape
<1>4. Shape'
  BY <1>1, <1>2, <1>3 DEF LedgerInv, Shape
<1>5. \A f \in File : holder'[f] # p
  BY <1>2 DEF LedgerInv, LocksOK
<1>6. CallOK(p)' /\ LocksOK(p)'
  BY <1>1, <1>3, <1>5 DEF CallOK, LocksOK
<1> QED
  BY <1>1, <1>2, <1>3, <1>4, <1>6, OthersKept

\* A call that gets a guard has the first of two, or all.
LEMMA LockStep ==
  ASSUME LedgerInv, NEW p \in Proc, Lock(p)
  PROVE  LedgerInv'
<1> DEFINE f == NextLock(p)
<1>1. op[p].step = "lock" /\ holder[f] = Nil
  BY DEF Lock
<1>2. op[p].target \in File /\ op[p].source \in (File \cup {Nil}) \ {op[p].target}
  BY <1>1 DEF LedgerInv, CallOK
<1>3. f \in File
  BY <1>1, <1>2, NextLockIsFile DEF LedgerInv
<1>4. PICK at \in {"lock", "read", "write"} :
        /\ op' = [op EXCEPT ![p].step = at]
        /\ at = IF f # Last(LockOrder(p)) THEN "lock"
                  ELSE IF op[p].source = Nil THEN "write" ELSE "read"
  BY DEF Lock
<1>5. /\ op'[p] = [op[p] EXCEPT !.step = at]
      /\ \A q \in Proc \ {p} : op'[q] = op[q]
  BY <1>4 DEF LedgerInv, Shape
<1>6. /\ op'[p].step = at /\ op'[p].target = op[p].target
      /\ op'[p].source = op[p].source
  BY <1>5 DEF LedgerInv, Shape
<1>7. holder' = [holder EXCEPT ![f] = p] /\ UNCHANGED lines
  BY DEF Lock
<1>8. \A g \in File : holder'[g] = IF g = f THEN p ELSE holder[g]
  BY <1>7 DEF LedgerInv, Shape
<1>9. Shape'
  BY <1>3, <1>4, <1>5, <1>7 DEF LedgerInv, Shape
<1>10. CallOK(p)'
  BY <1>2, <1>4, <1>6, FilesAreNumbers DEF CallOK
<1>11. LocksOK(p)'
  <2>1. LockOrder(p)' = LockOrder(p)
    BY <1>6 DEF LockOrder
  <2>2. \A g \in File : holder[g] = p => op[p].source # Nil /\ g = LockOrder(p)[1]
    BY <1>1 DEF LedgerInv, LocksOK
  <2>3. CASE op[p].source = Nil
    <3>1. LockOrder(p) = <<op[p].target>>
      BY <1>2, <2>3, LockOrderCases, FilesAreNumbers
    <3>2. f = op[p].target /\ at = "write"
      BY <1>2, <1>3, <1>4, <2>2, <2>3, <3>1 DEF NextLock, Last
    <3> QED
      BY <1>3, <1>6, <1>8, <2>3, <3>2 DEF LocksOK
  <2>4. CASE op[p].source # Nil
    <3>1. PICK a \in File, b \in File :
            LockOrder(p) = <<a, b>> /\ a # b /\ {a, b} = {op[p].target, op[p].source}
      BY <1>2, <2>4, LockOrderCases, FilesAreNumbers
    <3>2. Last(LockOrder(p)) = b /\ LockOrder(p)[1] = a /\ LockOrder(p)[2] = b
      BY <3>1 DEF Last
    <3>3. CASE holder[a] = p
      <4>1. f = b /\ at = "read"
        BY <1>4, <2>4, <3>2, <3>3 DEF NextLock
      <4> QED
        BY <1>2, <1>6, <1>8, <2>4, <3>1, <3>3, <4>1 DEF LocksOK
    <3>4. CASE holder[a] # p
      <4>1. f = a /\ at = "lock"
        BY <1>4, <3>1, <3>2, <3>4 DEF NextLock
      <4> QED
        BY <1>6, <1>8, <2>1, <2>2, <2>4, <3>2, <3>4, <4>1 DEF LocksOK
    <3> QED
      BY <3>3, <3>4
  <2> QED
    BY <2>3, <2>4
<1>12. \A q \in Proc \ {p} : \A g \in File : (holder'[g] = q) <=> (holder[g] = q)
  BY <1>1, <1>8, FilesAreNumbers
<1>13. op'[p].step = "write" /\ op'[p].source # Nil => op'[p].records = Pending(p)'
  BY <1>4, <1>6
<1> QED
  BY <1>5, <1>7, <1>9, <1>10, <1>11, <1>12, <1>13, OthersKept

\* A merge that has read both files keeps their guards.
LEMMA ReadStep ==
  ASSUME LedgerInv, NEW p \in Proc, MergeReads(p)
  PROVE  LedgerInv'
<1>1. CASE Pending(p) = <<>>
  BY <1>1, LeaveStep DEF MergeReads, LedgerInv, Shape
<1>2. CASE Pending(p) # <<>>
  <2>1. /\ op[p].step = "read" /\ UNCHANGED <<lines, holder>>
        /\ op' = [op EXCEPT ![p] = Call("write", op[p].target, op[p].source,
                                        op[p].schedule, Pending(p))]
    BY <1>2 DEF MergeReads
  <2>2. /\ op'[p] = [step |-> "write", target |-> op[p].target, source |-> op[p].source,
                     schedule |-> op[p].schedule, records |-> Pending(p)]
        /\ \A q \in Proc \ {p} : op'[q] = op[q]
    BY <2>1 DEF LedgerInv, Shape, Call
  <2>3. Shape'
    BY <2>1, <2>2 DEF LedgerInv, Shape
  <2>4. CallOK(p)' /\ LocksOK(p)'
    BY <2>1, <2>2 DEF LedgerInv, CallOK, LocksOK
  <2>5. op'[p].records = Pending(p)'
    BY <2>1, <2>2 DEF Pending
  <2> QED
    BY <2>1, <2>2, <2>3, <2>4, <2>5, OthersKept
<1> QED
  BY <1>1, <1>2

\* A write, or a part of one, changes the file of its call.
LEMMA WriteStep ==
  ASSUME LedgerInv, NEW p \in Proc, WriteRecords(p) \/ WriteCutShort(p)
  PROVE  LedgerInv'
<1>1. op[p].step = "write" /\ \E at \in {"done", "failed"} : Leave(p, at)
  BY DEF WriteRecords, WriteCutShort
<1>2. holder[op[p].target] = p
  BY <1>1 DEF LedgerInv, LocksOK
<1>3. PICK text : lines' = [lines EXCEPT ![op[p].target] = text]
  BY DEF WriteRecords, WriteCutShort
<1>4. DOMAIN lines' = File /\ \A f \in File : holder[f] # p => lines'[f] = lines[f]
  BY <1>2, <1>3 DEF LedgerInv, Shape
<1> QED
  BY <1>1, <1>4, LeaveStep

LEMMA LedgerBegins == LedgerInit => LedgerInv
BY FilesAreNumbers DEF LedgerInit, LedgerInv, Shape, CallOK, LocksOK, MergeNotStale, Over, Call

LEMMA LedgerStutters == LedgerInv /\ UNCHANGED ledgerVars => LedgerInv'
BY DEF ledgerVars, LedgerInv, Shape, CallOK, LocksOK, LockOrder, MergeNotStale, Pending

\* The inductive invariant holds in every reachable state.
LEMMA LedgerInvariance == LedgerSpec => []LedgerInv
<1>2. LedgerInv /\ [LedgerNext]_ledgerVars => LedgerInv'
  <2> SUFFICES ASSUME LedgerInv, [LedgerNext]_ledgerVars PROVE LedgerInv'
    OBVIOUS
  <2>1. ASSUME NEW p \in Proc, AppendRecord(p) \/ Merge(p) PROVE LedgerInv'
    BY <2>1, BeginStep
  <2>2. ASSUME NEW p \in Proc, Lock(p) PROVE LedgerInv'
    BY <2>2, LockStep
  <2>3. ASSUME NEW p \in Proc, MergeReads(p) PROVE LedgerInv'
    BY <2>3, ReadStep
  <2>4. ASSUME NEW p \in Proc, WriteRecords(p) \/ WriteCutShort(p) PROVE LedgerInv'
    BY <2>4, WriteStep
  <2>5. ASSUME NEW p \in Proc, LockTimesOut(p) \/ GiveUp(p) PROVE LedgerInv'
    <3>1. Leave(p, "failed") /\ UNCHANGED lines
      BY <2>5 DEF LockTimesOut, GiveUp
    <3> QED
      BY <3>1, LeaveStep DEF LedgerInv, Shape
  <2>6. CASE UNCHANGED ledgerVars
    BY <2>6, LedgerStutters
  <2> QED
    BY <2>1, <2>2, <2>3, <2>4, <2>5, <2>6 DEF LedgerNext, Ended
<1> QED
  BY LedgerBegins, <1>2, PTL DEF LedgerSpec

\* Of two calls one of which waits for the other, the other waits for a later
\* file: any number of merges in any directions cannot wait in a circle.
THEOREM WaitsInOrderHolds == LedgerSpec => []WaitsInOrder
BY LedgerInvariance, LocksGiveOrder, PTL

\* A merge writes what is missing at that moment.
THEOREM MergeNotStaleHolds == LedgerSpec => []MergeNotStale
<1>1. LedgerInv => MergeNotStale
  BY DEF LedgerInv
<1> QED
  BY <1>1, LedgerInvariance, PTL

-----------------------------------------------------------------------------
(* The history in the files: the inductive invariant *)

Line == Record \cup {Broken}

\* How many lines of a file end with a newline.
Closed(f) == Len(lines[f]) - (IF open[f] THEN 1 ELSE 0)

\* Some line of a file is of run n.
RunAt(f, n) == \E i \in DOMAIN lines[f] : lines[f][i] # Broken /\ lines[f][i].run = n

TextOK ==
  /\ lines \in [File -> Seq(Line)] /\ open \in [File -> BOOLEAN]
  /\ \A f \in File : open[f] => lines[f] # <<>>
  /\ \A p \in Proc : op[p].records \in Seq(Record)
  /\ runs \in 0 .. MaxRun /\ givenUp \in 0 .. MaxGiveUp
  /\ tears \in [File -> 0 .. MaxTear]
  /\ DOMAIN returned = File /\ \A f \in File : Broken \notin returned[f]

\* A call that appends adds one record, which is no copy.
NewOK ==
  \A p \in Proc : op[p].step \in {"lock", "write"} /\ op[p].source = Nil =>
    Len(op[p].records) = 1 /\ ~op[p].records[1].copied

\* A call that has nothing to add does not write.
WritesOK == \A p \in Proc : op[p].step = "write" => op[p].records # <<>>

\* A line of a run that an earlier line of the file is of is no copy.
OnceOK ==
  \A f \in File : \A i, j \in DOMAIN lines[f] :
    i < j /\ lines[f][i] # Broken /\ lines[f][j] # Broken /\ lines[f][i].run = lines[f][j].run
      => ~lines[f][j].copied

\* The lines of a file that end with a newline.
Safe(f) == {lines[f][i] : i \in 1 .. Closed(f)}

\* What a torn line may still cost is counted with what it has cost.
LossOK ==
  \A f \in File :
    /\ IsFiniteSet(returned[f] \ Safe(f))
    /\ Cardinality(returned[f] \ Safe(f)) + (IF open[f] THEN 1 ELSE 0) <= tears[f]

HistoryInv == LedgerInv /\ TextOK /\ NewOK /\ WritesOK /\ OnceOK /\ LossOK

-----------------------------------------------------------------------------
(* What a merge adds *)

LEMMA MissingOK ==
  ASSUME NEW source \in Seq(Line), NEW target \in Seq(Line), NEW schedule
  PROVE  LET miss == Missing(source, target, schedule)
         IN  /\ miss \in Seq(Record)
             /\ \A k \in DOMAIN miss : miss[k].copied
             /\ \A k \in DOMAIN miss : \A i \in DOMAIN target :
                  target[i] # Broken => target[i].run # miss[k].run
             /\ \A k, l \in DOMAIN miss : miss[k].run = miss[l].run => k = l
<1> DEFINE known == {target[i].run : i \in RecordPlaces(target)}
           listed == {i \in RecordPlaces(source) : source[i].schedule = schedule}
           places == {i \in listed : /\ source[i].run \notin known
                                     /\ \A j \in listed : j < i => source[j].run # source[i].run}
           miss == LinesAt(source, places)
           copies == [i \in DOMAIN miss |-> Copy(miss[i])]
<1>1. Missing(source, target, schedule) = copies
  BY DEF Missing
<1>2. /\ places \subseteq DOMAIN source /\ DOMAIN source = 1 .. Len(source) /\ Len(source) \in Nat
      /\ \A i \in places : source[i] # Broken /\ source[i].run \notin known /\ source[i] \in Record
      /\ \A i, j \in places : j < i => source[j].run # source[i].run
  BY DEF RecordPlaces, Line
<1>3. \A i \in DOMAIN target : target[i] # Broken => target[i].run \in known
  BY DEF RecordPlaces
<1> HIDE DEF places, known
<1>4. miss \in Seq(Line) /\ \E m : Places(m, miss, source, places, Len(source))
  BY LinesAtOK
<1> HIDE DEF miss
<1>5. PICK m : Places(m, miss, source, places, Len(source))
  BY <1>4
<1>6. /\ DOMAIN miss = 1 .. Len(miss) /\ Len(miss) \in Nat
      /\ \A k \in 1 .. Len(miss) : m[k] \in places /\ miss[k] = source[m[k]]
      /\ \A k, l \in 1 .. Len(miss) : k < l => m[k] < m[l]
  <2>1. DOMAIN miss = 1 .. Len(miss) /\ Len(miss) \in Nat
    BY <1>4
  <2>2. /\ m \in [1 .. Len(miss) -> places \cap (1 .. Len(source))]
        /\ \A k \in 1 .. Len(miss) : miss[k] = source[m[k]]
        /\ \A k, l \in 1 .. Len(miss) : k < l => m[k] < m[l]
    BY <1>5 DEF Places
  <2> QED
    BY <2>1, <2>2
<1>7. \A k \in 1 .. Len(miss) : miss[k] \in Record
  BY <1>2, <1>6
<1> HIDE DEF copies
<1>8. /\ copies \in Seq(Record) /\ DOMAIN copies = 1 .. Len(miss)
      /\ \A k \in 1 .. Len(miss) : copies[k].copied /\ copies[k].run = miss[k].run
  <2>1. DOMAIN copies = 1 .. Len(miss) /\ \A k \in 1 .. Len(miss) : copies[k] = Copy(miss[k])
    BY <1>6 DEF copies
  <2>2. \A k \in 1 .. Len(miss) :
          Copy(miss[k]) \in Record /\ Copy(miss[k]).copied /\ Copy(miss[k]).run = miss[k].run
    BY <1>7 DEF Copy, Record
  <2>3. copies = [k \in 1 .. Len(miss) |-> Copy(miss[k])]
    BY <1>6 DEF copies
  <2>4. copies \in Seq(Record)
    BY <1>6, <2>2, <2>3
  <2> QED
    BY <2>1, <2>2, <2>4
<1>9. ASSUME NEW k \in DOMAIN miss, NEW l \in DOMAIN miss, miss[k].run = miss[l].run
      PROVE  k = l
  <2>1. m[k] \in Nat /\ m[l] \in Nat /\ m[k] \in places /\ m[l] \in places
    BY <1>2, <1>6
  <2>2. ~(m[k] < m[l]) /\ ~(m[l] < m[k])
    BY <1>2, <1>6, <1>9, <2>1
  <2>3. ~(k < l) /\ ~(l < k)
    BY <1>6, <2>2
  <2> QED
    BY <1>6, <2>3
<1>10. \A k \in 1 .. Len(miss) : \A i \in DOMAIN target :
         target[i] # Broken => target[i].run # miss[k].run
  BY <1>2, <1>3, <1>6
<1> QED
  BY <1>1, <1>6, <1>8, <1>9, <1>10

\* A call that is about to write copies runs that its file does not have, each once.
LEMMA AddsOK ==
  ASSUME HistoryInv, NEW p \in Proc, op[p].step = "write"
  PROVE  /\ op[p].target \in File
         /\ op[p].records \in Seq(Record)
         /\ \A i \in DOMAIN op[p].records :
              op[p].records[i].copied => ~RunAt(op[p].target, op[p].records[i].run)
         /\ \A i, j \in DOMAIN op[p].records : op[p].records[i].run = op[p].records[j].run => i = j
<1>1. op[p].target \in File /\ op[p].source \in File \cup {Nil} /\ op[p].records \in Seq(Record)
  BY DEF HistoryInv, LedgerInv, CallOK, TextOK
<1>2. CASE op[p].source = Nil
  <2>1. Len(op[p].records) = 1 /\ ~op[p].records[1].copied
    BY <1>1, <1>2 DEF HistoryInv, NewOK
  <2> QED
    BY <1>1, <2>1
<1>3. CASE op[p].source # Nil
  <2>1. op[p].records = Missing(lines[op[p].source], lines[op[p].target], op[p].schedule)
    BY <1>3 DEF HistoryInv, LedgerInv, MergeNotStale, Pending
  <2>2. lines[op[p].source] \in Seq(Line) /\ lines[op[p].target] \in Seq(Line)
    BY <1>1, <1>3 DEF HistoryInv, TextOK
  <2> DEFINE source == lines[op[p].source]
             target == lines[op[p].target]
             more == op[p].records
  <2>3. /\ more \in Seq(Record)
        /\ \A k \in DOMAIN more : \A i \in DOMAIN target :
             target[i] # Broken => target[i].run # more[k].run
        /\ \A k, l \in DOMAIN more : more[k].run = more[l].run => k = l
    <3>1. source \in Seq(Line) /\ target \in Seq(Line)
          /\ more = Missing(source, target, op[p].schedule)
      BY <2>1, <2>2
    <3> HIDE DEF source, target, more
    <3> QED
      BY <3>1, MissingOK
  <2>4. \A k \in DOMAIN more : ~RunAt(op[p].target, more[k].run)
    <3> HIDE DEF more
    <3> QED
      BY <2>3 DEF RunAt
  <2> QED
    BY <1>1, <2>3, <2>4
<1> QED
  BY <1>2, <1>3

-----------------------------------------------------------------------------
(* What a write leaves *)

\* The line that the k-th new one becomes.
Put(f, new, k) == IF open[f] /\ k = 1 THEN Broken ELSE new[k]

\* The lines of a file after new ones have been written to it.
LEMMA WrittenOK ==
  ASSUME NEW f, lines[f] \in Seq(Line), open[f] \in BOOLEAN, open[f] => lines[f] # <<>>,
         NEW new \in Seq(Line), new # <<>>
  PROVE  /\ Closed(f) \in 0 .. Len(lines[f])
         /\ Written(f, new) \in Seq(Line)
         /\ Len(Written(f, new)) = Closed(f) + Len(new)
         /\ \A k \in 1 .. Closed(f) : k \in DOMAIN lines[f] /\ Written(f, new)[k] = lines[f][k]
         /\ \A k \in 1 .. Len(new) :
              Written(f, new)[Closed(f) + k] = Put(f, new, k)
<1> DEFINE text == lines[f]
<1>0. text \in Seq(Line) /\ Len(text) \in Nat /\ Len(new) \in Nat /\ Len(new) > 0 /\ Broken \in Line
  BY DEF Line
<1>1. CASE open[f]
  <2>1. Len(text) > 0 /\ Closed(f) = Len(text) - 1
    BY <1>0, <1>1 DEF Closed
  <2> HIDE DEF text
  <2>2. /\ Front(text) \in Seq(Line) /\ Len(Front(text)) = Len(text) - 1
        /\ \A k \in 1 .. Len(text) - 1 : Front(text)[k] = text[k]
    <3>1. 0 <= Len(text) - 1 /\ Len(text) - 1 <= Len(text) /\ Len(text) - 1 \in Nat
      BY <1>0, <2>1
    <3>2. \A i \in 1 .. Len(text) - 1 : text[i] \in Line
      BY <1>0, <3>1
    <3>3. /\ SubSeq(text, 1, Len(text) - 1) \in Seq(Line)
          /\ Len(SubSeq(text, 1, Len(text) - 1)) = IF 1 <= Len(text) - 1 THEN Len(text) - 1 - 1 + 1 ELSE 0
          /\ \A i \in 1 .. Len(text) - 1 - 1 + 1 : SubSeq(text, 1, Len(text) - 1)[i] = text[1 + i - 1]
      BY <3>1, <3>2, SubSeqProperties
    <3>4. \A i \in 1 .. Len(text) - 1 : i \in 1 .. Len(text) - 1 - 1 + 1 /\ 1 + i - 1 = i
      BY <3>1
    <3>5. (IF 1 <= Len(text) - 1 THEN Len(text) - 1 - 1 + 1 ELSE 0) = Len(text) - 1
      <4>1. \A n \in Nat : n > 0 => (IF 1 <= n - 1 THEN n - 1 - 1 + 1 ELSE 0) = n - 1
        OBVIOUS
      <4> QED
        BY <1>0, <2>1, <4>1
    <3> QED
      BY <3>3, <3>4, <3>5 DEF Front
  <2>3. /\ Tail(new) \in Seq(Line) /\ Len(Tail(new)) = Len(new) - 1
        /\ \A k \in 1 .. Len(new) - 1 : Tail(new)[k] = new[k + 1]
    BY <1>0
  <2> DEFINE a == Front(text)
             b == Tail(new)
             w == a \o <<Broken>> \o b
  <2>4. Written(f, new) = w
    BY <1>0, <1>1 DEF Written, text
  <2>5. a \in Seq(Line) /\ b \in Seq(Line) /\ Len(a) = Len(text) - 1 /\ Len(b) = Len(new) - 1
    BY <2>2, <2>3
  <2> HIDE DEF a, b
  <2>6. /\ w \in Seq(Line) /\ Len(w) = Len(a) + 1 + Len(b)
        /\ \A k \in 1 .. Len(a) : w[k] = a[k]
        /\ w[Len(a) + 1] = Broken
        /\ \A k \in 1 .. Len(b) : w[Len(a) + 1 + k] = b[k]
    <3> DEFINE c == a \o <<Broken>>
    <3>1. /\ c \in Seq(Line) /\ Len(c) = Len(a) + 1
          /\ \A k \in 1 .. Len(a) + 1 : c[k] = IF k <= Len(a) THEN a[k] ELSE Broken
      <4>1. <<Broken>> \in Seq(Line) /\ Len(<<Broken>>) = 1 /\ <<Broken>>[1] = Broken
        BY <1>0
      <4>2. /\ c \in Seq(Line) /\ Len(c) = Len(a) + 1
            /\ \A k \in 1 .. Len(a) + 1 : c[k] = IF k <= Len(a) THEN a[k] ELSE <<Broken>>[k - Len(a)]
        BY <2>5, <4>1, ConcatProperties
      <4>3. Len(a) \in Nat
        BY <2>5
      <4> HIDE DEF c
      <4>4. ASSUME NEW k \in 1 .. Len(a) + 1, ~(k <= Len(a))
            PROVE  k - Len(a) = 1
        BY <4>3, <4>4
      <4> QED
        BY <4>1, <4>2, <4>4
    <3> HIDE DEF c
    <3>2. /\ c \o b \in Seq(Line) /\ Len(c \o b) = Len(c) + Len(b)
          /\ \A k \in 1 .. Len(c) + Len(b) :
               (c \o b)[k] = IF k <= Len(c) THEN c[k] ELSE b[k - Len(c)]
      BY <2>5, <3>1, ConcatProperties
    <3>3. Len(a) \in Nat /\ Len(b) \in Nat /\ w = c \o b
      BY <2>5 DEF c
    <3> HIDE DEF w
    <3>4. w[Len(a) + 1] = Broken /\ \A k \in 1 .. Len(a) : w[k] = a[k]
      <4>1. \A k \in 1 .. Len(a) + 1 : w[k] = c[k]
        BY <3>1, <3>2, <3>3
      <4>2. c[Len(a) + 1] = Broken /\ \A k \in 1 .. Len(a) : c[k] = a[k]
        BY <3>1, <3>3
      <4>3. Len(a) + 1 \in 1 .. Len(a) + 1 /\ \A k \in 1 .. Len(a) : k \in 1 .. Len(a) + 1
        BY <3>3
      <4> QED
        BY <4>1, <4>2, <4>3
    <3>5. ASSUME NEW k \in 1 .. Len(b)
          PROVE  w[Len(a) + 1 + k] = b[k]
      <4>1. /\ Len(a) + 1 + k \in 1 .. Len(c) + Len(b) /\ ~(Len(a) + 1 + k <= Len(c))
            /\ Len(a) + 1 + k - Len(c) = k
        BY <3>1, <3>3
      <4> QED
        BY <3>2, <3>3, <4>1
    <3> QED
      BY <3>1, <3>2, <3>3, <3>4, <3>5
  <2> HIDE DEF w
  <2>7. \A k \in 1 .. Closed(f) : k \in DOMAIN lines[f] /\ w[k] = lines[f][k]
    <3>1. \A k \in 1 .. Closed(f) : k \in 1 .. Len(text) /\ k \in 1 .. Len(a) /\ k \in 1 .. Len(text) - 1
      BY <1>0, <2>1, <2>5
    <3>2. \A k \in 1 .. Closed(f) : w[k] = a[k] /\ a[k] = text[k]
      BY <2>2, <2>6, <3>1 DEF a
    <3>3. DOMAIN text = 1 .. Len(text)
      BY <1>0
    <3> QED
      BY <3>1, <3>2, <3>3 DEF text
  <2>8. ASSUME NEW k \in 1 .. Len(new)
        PROVE  w[Closed(f) + k] = Put(f, new, k)
    <3>1. CASE k = 1
      <4>1. Closed(f) + k = Len(a) + 1
        BY <1>0, <2>1, <2>5, <3>1
      <4>2. Put(f, new, k) = Broken
        BY <1>1, <3>1 DEF Put
      <4> QED
        BY <2>6, <4>1, <4>2
    <3>2. CASE k # 1
      <4>1. k - 1 \in 1 .. Len(b) /\ Closed(f) + k = Len(a) + 1 + (k - 1) /\ k - 1 + 1 = k
        BY <1>0, <2>1, <2>5, <3>2
      <4>2. w[Closed(f) + k] = b[k - 1] /\ b[k - 1] = new[k]
        <5>1. w[Len(a) + 1 + (k - 1)] = b[k - 1]
          BY <2>6, <4>1
        <5>2. b[k - 1] = new[k - 1 + 1]
          BY <2>3, <2>5, <4>1 DEF b
        <5> QED
          BY <4>1, <5>1, <5>2
      <4> QED
        BY <3>2, <4>2 DEF Put
    <3> QED
      BY <3>1, <3>2
  <2>9. Closed(f) \in 0 .. Len(lines[f]) /\ Len(w) = Closed(f) + Len(new)
    BY <1>0, <2>1, <2>5, <2>6 DEF text
  <2> QED
    BY <2>4, <2>6, <2>7, <2>8, <2>9
<1>2. CASE ~open[f]
  <2>1. Closed(f) = Len(text) /\ Written(f, new) = text \o new
    BY <1>0, <1>2 DEF Closed, Written
  <2> HIDE DEF text
  <2>2. /\ text \o new \in Seq(Line) /\ Len(text \o new) = Len(text) + Len(new)
        /\ \A k \in 1 .. Len(text) : (text \o new)[k] = text[k]
        /\ \A k \in 1 .. Len(new) : (text \o new)[Len(text) + k] = new[k]
    BY <1>0
  <2> QED
    BY <1>0, <1>2, <2>1, <2>2 DEF text, Put
<1> QED
  BY <1>1, <1>2

\* What a write, whole or cut short, puts into a file: each line is a record of the call
\* in its place, or broken.
PartOf(new, added) ==
  /\ new \in Seq(Line) /\ new # <<>>
  /\ \A k \in DOMAIN new : new[k] # Broken => k \in DOMAIN added /\ new[k] = added[k]

LEMMA LeftoverOK ==
  ASSUME NEW added \in Seq(Record), NEW left \in Leftover(added)
  PROVE  PartOf(left.text, added) /\ left.open \in BOOLEAN
<1>0. /\ Len(added) \in Nat /\ DOMAIN added = 1 .. Len(added) /\ Broken \in Line
      /\ \A k \in 1 .. Len(added) : added[k] \in Line
  BY DEF Line
<1>1. ASSUME NEW n \in 0 .. Len(added)
      PROVE  /\ SubSeq(added, 1, n) \in Seq(Line) /\ Len(SubSeq(added, 1, n)) = n
             /\ \A k \in 1 .. n : k \in DOMAIN added /\ SubSeq(added, 1, n)[k] = added[k]
  <2>1. \A i \in 1 .. n : i \in 1 .. Len(added) /\ added[i] \in Line
    BY <1>0
  <2>2. n \in Int /\ 1 \in Int /\ n \in Nat
    BY <1>0
  <2>3. /\ SubSeq(added, 1, n) \in Seq(Line)
        /\ Len(SubSeq(added, 1, n)) = IF 1 <= n THEN n - 1 + 1 ELSE 0
        /\ \A i \in 1 .. n - 1 + 1 : SubSeq(added, 1, n)[i] = added[1 + i - 1]
    BY <2>1, <2>2, SubSeqProperties
  <2>4. (IF 1 <= n THEN n - 1 + 1 ELSE 0) = n /\ n - 1 + 1 = n /\ \A i \in 1 .. n : 1 + i - 1 = i
    BY <2>2
  <2> QED
    BY <1>0, <2>1, <2>3, <2>4
<1>2. CASE \E n \in 1 .. Len(added), newline \in BOOLEAN :
             left = [text |-> SubSeq(added, 1, n), open |-> newline]
  <2>1. PICK n \in 1 .. Len(added), newline \in BOOLEAN :
               left = [text |-> SubSeq(added, 1, n), open |-> newline]
    BY <1>2
  <2> DEFINE s == SubSeq(added, 1, n)
  <2>2. n \in 0 .. Len(added) /\ n > 0 /\ n \in Nat
    BY <1>0
  <2>3. s \in Seq(Line) /\ Len(s) = n /\ \A k \in 1 .. n : k \in DOMAIN added /\ s[k] = added[k]
    BY <1>1, <2>2
  <2> HIDE DEF s
  <2>4. s # <<>> /\ DOMAIN s = 1 .. n
    BY <2>2, <2>3
  <2>5. left.text = s /\ left.open = newline
    BY <2>1 DEF s
  <2> QED
    BY <2>3, <2>4, <2>5 DEF PartOf
<1>3. CASE \E n \in 0 .. Len(added) - 1 :
             left = [text |-> Append(SubSeq(added, 1, n), Broken), open |-> TRUE]
  <2>1. PICK n \in 0 .. Len(added) - 1 :
               left = [text |-> Append(SubSeq(added, 1, n), Broken), open |-> TRUE]
    BY <1>3
  <2> DEFINE s == SubSeq(added, 1, n)
             t == Append(s, Broken)
  <2>2. n \in 0 .. Len(added) /\ n \in Nat
    BY <1>0
  <2>3. s \in Seq(Line) /\ Len(s) = n /\ \A k \in 1 .. n : k \in DOMAIN added /\ s[k] = added[k]
    BY <1>1, <2>2
  <2>4. left.text = t /\ left.open = TRUE
    BY <2>1
  <2> HIDE DEF s
  <2>5. /\ t \in Seq(Line) /\ t # <<>> /\ Len(t) = n + 1 /\ t[n + 1] = Broken
        /\ \A k \in 1 .. n : t[k] = s[k]
    BY <1>0, <2>3, AppendProperties
  <2> HIDE DEF t
  <2>6. DOMAIN t = 1 .. n + 1
    BY <2>2, <2>5
  <2>7. ASSUME NEW k \in DOMAIN t, t[k] # Broken
        PROVE  k \in DOMAIN added /\ t[k] = added[k]
    <3>1. k \in 1 .. n
      BY <2>2, <2>5, <2>6, <2>7
    <3> QED
      BY <2>3, <2>5, <3>1
  <2> QED
    BY <2>4, <2>5, <2>7 DEF PartOf
<1>4. \/ \E n \in 1 .. Len(added), newline \in BOOLEAN :
           left = [text |-> SubSeq(added, 1, n), open |-> newline]
      \/ \E n \in 0 .. Len(added) - 1 :
           left = [text |-> Append(SubSeq(added, 1, n), Broken), open |-> TRUE]
  BY DEF Leftover
<1> QED
  BY <1>2, <1>3, <1>4

\* The file of the call after the write: its lines are old ones and records of the call.
LEMMA FileAfterWrite ==
  ASSUME HistoryInv, NEW p \in Proc, op[p].step = "write",
         NEW new, PartOf(new, op[p].records)
  PROVE  LET t == op[p].target
             w == Written(t, new)
         IN  /\ w \in Seq(Line) /\ w # <<>>
             /\ \A k \in DOMAIN w : w[k] # Broken =>
                  \/ k \in 1 .. Closed(t) /\ k \in DOMAIN lines[t] /\ w[k] = lines[t][k]
                  \/ /\ k - Closed(t) \in DOMAIN op[p].records
                     /\ w[k] = op[p].records[k - Closed(t)]
<1> DEFINE t == op[p].target
           w == Written(t, new)
           c == Closed(t)
<1>1. t \in File
  BY AddsOK
<1>2. /\ lines[t] \in Seq(Line) /\ open[t] \in BOOLEAN /\ (open[t] => lines[t] # <<>>)
      /\ new \in Seq(Line) /\ new # <<>>
  BY <1>1 DEF HistoryInv, TextOK, PartOf
<1>3. /\ c \in 0 .. Len(lines[t]) /\ w \in Seq(Line) /\ Len(w) = c + Len(new)
      /\ \A k \in 1 .. c : k \in DOMAIN lines[t] /\ w[k] = lines[t][k]
      /\ \A k \in 1 .. Len(new) : w[c + k] = Put(t, new, k)
  BY <1>2, WrittenOK
<1>4. Len(new) \in Nat /\ Len(new) > 0 /\ c \in Nat /\ DOMAIN new = 1 .. Len(new)
  BY <1>2, <1>3
<1> HIDE DEF w, c, t
<1>5. w # <<>> /\ DOMAIN w = 1 .. c + Len(new)
  BY <1>3, <1>4
<1>6. ASSUME NEW k \in DOMAIN w, w[k] # Broken, ~(k \in 1 .. c)
      PROVE  k - c \in DOMAIN op[p].records /\ w[k] = op[p].records[k - c]
  <2>1. k - c \in 1 .. Len(new) /\ c + (k - c) = k
    BY <1>4, <1>5, <1>6
  <2>2. w[k] = Put(t, new, k - c)
    BY <1>3, <2>1
  <2>3. w[k] = new[k - c] /\ new[k - c] # Broken
    BY <1>6, <2>2 DEF Put
  <2> QED
    BY <1>4, <2>1, <2>3 DEF PartOf
<1> QED
  BY <1>3, <1>5, <1>6 DEF w, c, t

-----------------------------------------------------------------------------
(* The steps *)

\* A step that writes nothing leaves the text as it is.
LEMMA NothingWritten ==
  ASSUME UNCHANGED <<lines, open, returned, tears>>
  PROVE  /\ OnceOK => OnceOK'
         /\ LossOK => LossOK'
<1>1. OnceOK => OnceOK'
  BY DEF OnceOK
<1>2. LossOK => LossOK'
  BY DEF LossOK, Safe, Closed
<1> QED
  BY <1>1, <1>2

\* A call that is over adds nothing.
LEMMA LeaveAdds ==
  ASSUME HistoryInv, NEW p \in Proc, NEW at \in {"done", "failed"}, Leave(p, at)
  PROVE  /\ op'[p].step = at /\ op'[p].records = <<>>
         /\ \A q \in Proc \ {p} : op'[q] = op[q]
<1>1. op' = [op EXCEPT ![p] = Over(at)] /\ DOMAIN op = Proc
  BY DEF Leave, HistoryInv, LedgerInv, Shape
<1> QED
  BY <1>1 DEF Over, Call

\* When a call adds nothing, the others go on as before.
LEMMA OthersAdd ==
  ASSUME HistoryInv, NEW p \in Proc, op'[p].records = <<>>,
         op'[p].step # "write", op'[p].step = "lock" => op'[p].source # Nil,
         \A q \in Proc \ {p} : op'[q] = op[q]
  PROVE  /\ \A q \in Proc : op'[q].records \in Seq(Record)
         /\ NewOK' /\ WritesOK'
<1>1. \A q \in Proc : op[q].records \in Seq(Record)
  BY DEF HistoryInv, TextOK
<1>2. ASSUME NEW q \in Proc PROVE op'[q].records \in Seq(Record)
  <2>1. <<>> \in Seq(Record)
    OBVIOUS
  <2> QED
    BY <1>1, <2>1
<1>3. NewOK'
  BY DEF HistoryInv, NewOK
<1>4. WritesOK'
  BY DEF HistoryInv, WritesOK
<1> QED
  BY <1>2, <1>3, <1>4

\* A call that begins adds the record of its run, or nothing yet.
LEMMA BeginHistory ==
  ASSUME HistoryInv, NEW p \in Proc, AppendRecord(p) \/ Merge(p)
  PROVE  HistoryInv'
<1>1. LedgerInv'
  BY BeginStep DEF HistoryInv
<1>2. DOMAIN op = Proc /\ \A q \in Proc : op[q].records \in Seq(Record)
  BY DEF HistoryInv, LedgerInv, Shape, TextOK
<1>3. CASE Merge(p)
  <2>1. PICK t, s \in File, schedule \in Schedule :
               op' = [op EXCEPT ![p] = Call("lock", t, s, schedule, <<>>)]
    BY <1>3 DEF Merge
  <2>2. /\ op'[p].records = <<>> /\ op'[p].source # Nil /\ op'[p].step = "lock"
        /\ \A q \in Proc \ {p} : op'[q] = op[q]
    BY <1>2, <2>1, FilesAreNumbers DEF Call
  <2>3. UNCHANGED <<lines, open, holder, runs, returned, tears, givenUp>>
    BY <1>3 DEF Merge
  <2>4. OnceOK' /\ LossOK'
    BY <2>3, NothingWritten DEF HistoryInv
  <2>5. (\A q \in Proc : op'[q].records \in Seq(Record)) /\ NewOK' /\ WritesOK'
    BY <2>2, OthersAdd
  <2>6. TextOK'
    BY <2>3, <2>5 DEF HistoryInv, TextOK
  <2> QED
    BY <1>1, <2>4, <2>5, <2>6 DEF HistoryInv
<1>4. CASE AppendRecord(p)
  <2>1. PICK t \in File, n \in 1 .. MaxRun :
               /\ op' = [op EXCEPT ![p] = Call("lock", t, Nil, Nil, <<OwnRecord(n)>>)]
               /\ runs' = IF n > runs THEN n ELSE runs
    BY <1>4 DEF AppendRecord
  <2>2. UNCHANGED <<lines, open, holder, returned, tears, givenUp>>
    BY <1>4 DEF AppendRecord
  <2> DEFINE rec == OwnRecord(n)
  <2>3. rec \in Record /\ ~rec.copied
    BY LedgerAssumption DEF Record, OwnRecord
  <2> HIDE DEF rec
  <2>4. /\ op'[p].records = <<rec>> /\ op'[p].source = Nil /\ op'[p].step = "lock"
        /\ \A q \in Proc \ {p} : op'[q] = op[q]
    BY <1>2, <2>1 DEF Call, rec
  <2>5. OnceOK' /\ LossOK'
    BY <2>2, NothingWritten DEF HistoryInv
  <2>6. <<rec>> \in Seq(Record) /\ Len(<<rec>>) = 1 /\ <<rec>>[1] = rec
    BY <2>3
  <2>7. NewOK'
    BY <2>3, <2>4, <2>6 DEF HistoryInv, NewOK
  <2>8. TextOK'
    <3>1. ASSUME NEW q \in Proc PROVE op'[q].records \in Seq(Record)
      BY <1>2, <2>4, <2>6
    <3>2. runs' \in 0 .. MaxRun
      BY <2>1, LedgerAssumption DEF HistoryInv, TextOK
    <3> QED
      BY <2>2, <3>1, <3>2 DEF HistoryInv, TextOK
  <2>9. WritesOK'
    BY <2>4 DEF HistoryInv, WritesOK
  <2> QED
    BY <1>1, <2>5, <2>7, <2>8, <2>9 DEF HistoryInv
<1> QED
  BY <1>3, <1>4

\* A merge that has read knows what it copies.
LEMMA ReadHistory ==
  ASSUME HistoryInv, NEW p \in Proc, MergeReads(p)
  PROVE  HistoryInv'
<1>1. LedgerInv'
  BY ReadStep DEF HistoryInv
<1>2. DOMAIN op = Proc /\ \A q \in Proc : op[q].records \in Seq(Record)
  BY DEF HistoryInv, LedgerInv, Shape, TextOK
<1>3. op[p].step = "read" /\ op[p].source \in File /\ op[p].target \in File /\ op[p].source # Nil
  BY DEF MergeReads, HistoryInv, LedgerInv, CallOK
<1>4. UNCHANGED <<lines, open, runs, returned, tears, givenUp>>
  BY DEF MergeReads
<1>5. OnceOK' /\ LossOK'
  BY <1>4, NothingWritten DEF HistoryInv
<1>6. CASE Leave(p, "done")
  <2>1. /\ op'[p].step = "done" /\ op'[p].records = <<>>
        /\ \A q \in Proc \ {p} : op'[q] = op[q]
    BY <1>6, LeaveAdds
  <2>2. (\A q \in Proc : op'[q].records \in Seq(Record)) /\ NewOK' /\ WritesOK'
    BY <2>1, OthersAdd
  <2>3. TextOK'
    BY <1>4, <2>2 DEF HistoryInv, TextOK
  <2> QED
    BY <1>1, <1>5, <2>2, <2>3 DEF HistoryInv
<1>7. CASE /\ Pending(p) # <<>>
           /\ op' = [op EXCEPT ![p] = Call("write", op[p].target, op[p].source, op[p].schedule,
                                          Pending(p))]
  <2> DEFINE more == Pending(p)
  <2>1. more \in Seq(Record)
    <3>1. lines[op[p].source] \in Seq(Line) /\ lines[op[p].target] \in Seq(Line)
      BY <1>3 DEF HistoryInv, TextOK
    <3> QED
      BY <3>1, MissingOK DEF Pending
  <2> HIDE DEF more
  <2>2. /\ op'[p].records = more /\ op'[p].source = op[p].source
        /\ \A q \in Proc \ {p} : op'[q] = op[q]
    BY <1>2, <1>7 DEF Call, more
  <2>6. NewOK'
    BY <1>3, <2>2 DEF HistoryInv, NewOK
  <2>7. TextOK'
    <3>1. ASSUME NEW q \in Proc PROVE op'[q].records \in Seq(Record)
      <4>1. CASE q = p
        BY <2>1, <2>2, <4>1
      <4>2. CASE q # p
        BY <1>2, <2>2, <4>2
      <4> QED
        BY <4>1, <4>2
    <3> QED
      BY <1>4, <3>1 DEF HistoryInv, TextOK
  <2>8. WritesOK'
    BY <1>7, <2>2 DEF HistoryInv, WritesOK, more
  <2> QED
    BY <1>1, <1>5, <2>6, <2>7, <2>8 DEF HistoryInv
<1> QED
  BY <1>6, <1>7 DEF MergeReads

\* A guard that is taken, and a call that ends without having written.
LEMMA LockHistory ==
  ASSUME HistoryInv, NEW p \in Proc, Lock(p)
  PROVE  HistoryInv'
<1>1. LedgerInv'
  BY LockStep DEF HistoryInv
<1>2. DOMAIN op = Proc /\ DOMAIN op[p] = {"step", "target", "source", "schedule", "records"}
  BY DEF HistoryInv, LedgerInv, Shape
<1>3. PICK at : op' = [op EXCEPT ![p].step = at]
  BY DEF Lock
<1>4. /\ op'[p].records = op[p].records /\ op'[p].source = op[p].source
      /\ \A q \in Proc \ {p} : op'[q] = op[q]
  BY <1>2, <1>3
<1>5. UNCHANGED <<lines, open, runs, returned, tears, givenUp>> /\ op[p].step = "lock"
  BY DEF Lock
<1>6. OnceOK' /\ LossOK'
  BY <1>5, NothingWritten DEF HistoryInv
<1>7. \A q \in Proc : op'[q].records = op[q].records /\ op'[q].source = op[q].source
  BY <1>4
<1>10. NewOK'
  BY <1>4, <1>5, <1>7 DEF HistoryInv, NewOK
<1>11. TextOK'
  BY <1>5, <1>7 DEF HistoryInv, TextOK
<1>12. WritesOK'
  <2> SUFFICES ASSUME NEW q \in Proc, op'[q].step = "write", op[q].records = <<>>
               PROVE  FALSE
    BY <1>7 DEF WritesOK
  <2>1. q = p /\ op'[q].source = Nil
    <3>1. q = p
      BY <1>4 DEF HistoryInv, WritesOK
    <3>2. op'[p].step = "write" => op[p].source = Nil
      BY <1>2 DEF Lock
    <3> QED
      BY <1>4, <3>1, <3>2
  <2>2. Len(op[q].records) = 1
    BY <1>4, <1>5, <2>1 DEF HistoryInv, NewOK
  <2> QED
    BY <2>2
<1> QED
  BY <1>1, <1>6, <1>10, <1>11, <1>12 DEF HistoryInv

LEMMA EndHistory ==
  ASSUME HistoryInv, NEW p \in Proc, LockTimesOut(p) \/ GiveUp(p)
  PROVE  HistoryInv'
<1>1. /\ Leave(p, "failed") /\ UNCHANGED <<lines, open, runs, returned, tears>>
      /\ givenUp < MaxGiveUp /\ givenUp' = givenUp + 1
  BY DEF LockTimesOut, GiveUp
<1>2. LedgerInv'
  BY <1>1, LeaveStep DEF HistoryInv, LedgerInv, Shape
<1>3. /\ op'[p].step = "failed" /\ op'[p].records = <<>>
      /\ \A q \in Proc \ {p} : op'[q] = op[q]
  BY <1>1, LeaveAdds
<1>4. OnceOK' /\ LossOK'
  BY <1>1, NothingWritten DEF HistoryInv
<1>5. (\A q \in Proc : op'[q].records \in Seq(Record)) /\ NewOK' /\ WritesOK'
  BY <1>3, OthersAdd
<1>6. TextOK'
  <2>1. givenUp' \in 0 .. MaxGiveUp
    BY <1>1, LedgerAssumption DEF HistoryInv, TextOK
  <2> QED
    BY <1>1, <1>5, <2>1 DEF HistoryInv, TextOK
<1> QED
  BY <1>2, <1>4, <1>5, <1>6 DEF HistoryInv

\* A write, whole or cut short, adds no copy of a run that its file shows.
LEMMA WriteText ==
  ASSUME HistoryInv, NEW p \in Proc, op[p].step = "write", NEW new,
         PartOf(new, op[p].records), NEW at \in {"done", "failed"}, Leave(p, at),
         lines' = [lines EXCEPT ![op[p].target] = Written(op[p].target, new)]
  PROVE  /\ lines' \in [File -> Seq(Line)] /\ \A f \in File : lines'[f] = lines[f] \/ lines'[f] # <<>>
         /\ \A q \in Proc : op'[q].records \in Seq(Record)
         /\ NewOK' /\ WritesOK' /\ OnceOK'
<1> DEFINE t == op[p].target
           w == Written(t, new)
           c == Closed(t)
           added == op[p].records
<1>1. /\ t \in File /\ added \in Seq(Record)
      /\ \A i \in DOMAIN added : added[i].copied => ~RunAt(t, added[i].run)
      /\ \A i, j \in DOMAIN added : added[i].run = added[j].run => i = j
  BY AddsOK
<1>2. /\ w \in Seq(Line) /\ w # <<>>
      /\ \A k \in DOMAIN w : w[k] # Broken =>
           \/ k \in 1 .. c /\ k \in DOMAIN lines[t] /\ w[k] = lines[t][k]
           \/ k - c \in DOMAIN added /\ w[k] = added[k - c]
  BY FileAfterWrite
<1>3. lines \in [File -> Seq(Line)] /\ c \in Int
  BY <1>1 DEF HistoryInv, TextOK, Closed
<1> HIDE DEF w, c
<1>4. lines' \in [File -> Seq(Line)] /\ lines'[t] = w /\ \A f \in File \ {t} : lines'[f] = lines[f]
  BY <1>1, <1>2, <1>3 DEF w
<1>5. /\ op'[p].step = at /\ op'[p].records = <<>>
      /\ \A q \in Proc \ {p} : op'[q] = op[q]
  BY LeaveAdds
<1>7. (\A q \in Proc : op'[q].records \in Seq(Record)) /\ NewOK' /\ WritesOK'
  BY <1>5, OthersAdd
<1>8. OnceOK'
  <2> SUFFICES ASSUME NEW f \in File, NEW i \in DOMAIN lines'[f], NEW j \in DOMAIN lines'[f],
                      i < j, lines'[f][i] # Broken, lines'[f][j] # Broken,
                      lines'[f][i].run = lines'[f][j].run
               PROVE  ~lines'[f][j].copied
    BY DEF OnceOK
  <2>1. CASE f # t
    BY <1>4, <2>1 DEF HistoryInv, OnceOK
  <2>2. CASE f = t
    <3>1. /\ i \in DOMAIN w /\ j \in DOMAIN w /\ w[i] # Broken /\ w[j] # Broken
          /\ w[i].run = w[j].run /\ i \in Nat /\ j \in Nat /\ i < j
      BY <1>2, <1>4, <2>2
    <3>2. CASE /\ i \in DOMAIN lines[t] /\ w[i] = lines[t][i]
               /\ j \in DOMAIN lines[t] /\ w[j] = lines[t][j]
      <4>1. ~lines[t][j].copied
        BY <1>1, <3>1, <3>2 DEF HistoryInv, OnceOK
      <4> QED
        BY <1>4, <2>2, <3>2, <4>1
    <3>3. CASE /\ i \in DOMAIN lines[t] /\ w[i] = lines[t][i]
               /\ j - c \in DOMAIN added /\ w[j] = added[j - c]
      <4>1. RunAt(t, added[j - c].run)
        BY <3>1, <3>3 DEF RunAt
      <4>2. ~added[j - c].copied
        BY <1>1, <3>3, <4>1
      <4> QED
        BY <1>4, <2>2, <3>3, <4>2
    <3>4. CASE j \in 1 .. c /\ i - c \in DOMAIN added
      <4>1. i - c >= 1
        BY <1>1, <1>3, <3>1, <3>4
      <4> QED
        BY <1>3, <3>1, <3>4, <4>1
    <3>5. CASE /\ i - c \in DOMAIN added /\ w[i] = added[i - c]
               /\ j - c \in DOMAIN added /\ w[j] = added[j - c]
      <4>1. i - c = j - c
        BY <1>1, <3>1, <3>5
      <4> QED
        BY <1>3, <3>1, <4>1
    <3> QED
      BY <1>2, <3>1, <3>2, <3>3, <3>4, <3>5
  <2> QED
    BY <2>1, <2>2
<1> QED
  BY <1>2, <1>4, <1>7, <1>8

\* w is the text of file f, without what it has behind its last newline, and then new.
WrittenAs(f, new, w) ==
  /\ Closed(f) \in 0 .. Len(lines[f]) /\ w \in Seq(Line) /\ Len(w) = Closed(f) + Len(new)
  /\ \A k \in 1 .. Closed(f) : k \in DOMAIN lines[f] /\ w[k] = lines[f][k]
  /\ \A k \in 1 .. Len(new) : w[Closed(f) + k] = Put(f, new, k)

LEMMA TextAfterWrite ==
  ASSUME HistoryInv, NEW p \in Proc, op[p].step = "write", NEW t, t = op[p].target, NEW new,
         PartOf(new, op[p].records)
  PROVE  t \in File /\ new \in Seq(Line) /\ new # <<>> /\ WrittenAs(t, new, Written(t, new))
<1>1. t \in File /\ lines \in [File -> Seq(Line)] /\ open \in [File -> BOOLEAN]
  BY AddsOK DEF HistoryInv, TextOK
<1>2. /\ new \in Seq(Line) /\ new # <<>> /\ (open[t] => lines[t] # <<>>)
      /\ lines[t] \in Seq(Line) /\ open[t] \in BOOLEAN
  BY <1>1 DEF PartOf, HistoryInv, TextOK
<1> QED
  BY <1>1, <1>2, WrittenOK DEF WrittenAs

\* What ends with a newline still does, and a whole write ends with one.
LEMMA SafeAfterWrite ==
  ASSUME HistoryInv, NEW p \in Proc, op[p].step = "write", NEW t, t = op[p].target, NEW new,
         PartOf(new, op[p].records),
         lines' = [lines EXCEPT ![t] = Written(t, new)],
         NEW o \in BOOLEAN, open' = [open EXCEPT ![t] = o]
  PROVE  /\ \A f \in File \ {t} : Safe(f)' = Safe(f) /\ open'[f] = open[f]
         /\ t \in File /\ open'[t] = o /\ Safe(t) \subseteq Safe(t)'
         /\ ~o => \A k \in DOMAIN new : k # 1 \/ ~open[t] => new[k] \in Safe(t)'
<1> DEFINE w == Written(t, new)
           c == Closed(t)
<1>1. t \in File /\ lines \in [File -> Seq(Line)] /\ open \in [File -> BOOLEAN]
  BY AddsOK DEF HistoryInv, TextOK
<1>3. /\ new \in Seq(Line) /\ new # <<>>
      /\ c \in 0 .. Len(lines[t]) /\ w \in Seq(Line) /\ Len(w) = c + Len(new)
      /\ \A k \in 1 .. c : k \in DOMAIN lines[t] /\ w[k] = lines[t][k]
      /\ \A k \in 1 .. Len(new) : w[c + k] = Put(t, new, k)
  <2>1. new \in Seq(Line) /\ new # <<>> /\ WrittenAs(t, new, w)
    BY TextAfterWrite
  <2> HIDE DEF w
  <2> QED
    BY <2>1 DEF WrittenAs
<1>4. /\ lines'[t] = w /\ open'[t] = o
      /\ \A f \in File \ {t} : lines'[f] = lines[f] /\ open'[f] = open[f]
  BY <1>1
<1>5. Len(new) \in Nat /\ Len(new) > 0 /\ c \in Nat /\ DOMAIN new = 1 .. Len(new)
  BY <1>3
<1>6. \A f \in File \ {t} : Safe(f)' = Safe(f)
  BY <1>4 DEF Safe, Closed
<1>7. Safe(t) = {lines[t][i] : i \in 1 .. c}
  BY DEF Safe
<1>8. Safe(t)' = {w[i] : i \in 1 .. Len(w) - (IF o THEN 1 ELSE 0)}
  <2>1. Safe(t)' = {lines'[t][i] : i \in 1 .. Len(lines'[t]) - (IF open'[t] THEN 1 ELSE 0)}
    BY DEF Safe, Closed
  <2> HIDE DEF w
  <2> QED
    BY <1>4, <2>1
<1> HIDE DEF w, c
<1>9. Safe(t) \subseteq Safe(t)'
  <2>1. \A i \in 1 .. c : i \in 1 .. Len(w) - (IF o THEN 1 ELSE 0)
    BY <1>3, <1>5
  <2>2. \A i \in 1 .. c : lines[t][i] = w[i]
    BY <1>3
  <2>3. \A i \in 1 .. c : lines[t][i] \in Safe(t)'
    BY <1>8, <2>1, <2>2
  <2> QED
    BY <1>7, <2>3
<1>10. ASSUME ~o, NEW k \in DOMAIN new, k # 1 \/ ~open[t]
       PROVE  new[k] \in Safe(t)'
  <2>1. c + k \in 1 .. Len(w) - (IF o THEN 1 ELSE 0) /\ w[c + k] = new[k]
    BY <1>3, <1>5, <1>10 DEF Put
  <2> QED
    BY <1>8, <2>1
<1> QED
  BY <1>1, <1>4, <1>6, <1>9, <1>10

LEMMA WriteHistory ==
  ASSUME HistoryInv, NEW p \in Proc, WriteRecords(p)
  PROVE  HistoryInv'
<1>0. PICK t : t = op[p].target
  OBVIOUS
<1> DEFINE new == op[p].records
<1>1. /\ op[p].step = "write" /\ Leave(p, "done")
      /\ lines' = [lines EXCEPT ![t] = Written(t, new)]
      /\ open' = [open EXCEPT ![t] = FALSE]
      /\ returned' = [returned EXCEPT ![t] = @ \cup ToSet(new)]
      /\ UNCHANGED <<runs, tears, givenUp>>
  BY <1>0 DEF WriteRecords, EndsOpen
<1>2. new \in Seq(Record) /\ t \in File
  BY <1>0, <1>1, AddsOK
<1>3. PartOf(new, op[p].records) /\ new # <<>>
  <2>1. new # <<>>
    BY <1>1 DEF HistoryInv, WritesOK
  <2>2. new \in Seq(Line)
    <3>1. Record \subseteq Line
      BY DEF Line
    <3> QED
      BY <1>2, <3>1, SeqMonotonic
  <2> QED
    BY <1>2, <2>1, <2>2 DEF PartOf
<1>4. /\ \A f \in File \ {t} : Safe(f)' = Safe(f) /\ open'[f] = open[f]
      /\ open'[t] = FALSE /\ Safe(t) \subseteq Safe(t)'
      /\ \A k \in DOMAIN new : k # 1 \/ ~open[t] => new[k] \in Safe(t)'
  BY <1>0, <1>1, <1>3, SafeAfterWrite
<1>5. /\ lines' \in [File -> Seq(Line)] /\ \A f \in File : lines'[f] = lines[f] \/ lines'[f] # <<>>
      /\ \A q \in Proc : op'[q].records \in Seq(Record)
      /\ NewOK' /\ WritesOK' /\ OnceOK'
  BY <1>0, <1>1, <1>3, WriteText
<1>6. LedgerInv'
  BY WriteStep DEF HistoryInv
<1>7. TextOK'
  <2>1. ToSet(new) \subseteq Record
    BY <1>2 DEF ToSet
  <2>2. Broken \notin ToSet(new)
    BY <2>1, LedgerAssumption
  <2>3. DOMAIN returned' = File /\ \A f \in File : Broken \notin returned'[f]
    <3> DEFINE more == ToSet(new)
    <3>1. returned' = [returned EXCEPT ![t] = @ \cup more] /\ Broken \notin more
      BY <1>1, <2>2
    <3> HIDE DEF more
    <3> QED
      BY <1>2, <3>1 DEF HistoryInv, TextOK
  <2>4. open' \in [File -> BOOLEAN] /\ \A f \in File : open'[f] => lines'[f] # <<>>
    BY <1>1, <1>2, <1>4, <1>5 DEF HistoryInv, TextOK
  <2> QED
    BY <1>1, <1>5, <2>3, <2>4 DEF HistoryInv, TextOK
<1>8. LossOK'
  <2> SUFFICES ASSUME NEW f \in File
               PROVE  /\ IsFiniteSet(returned'[f] \ Safe(f)')
                      /\ Cardinality(returned'[f] \ Safe(f)') + (IF open'[f] THEN 1 ELSE 0) <= tears'[f]
    BY DEF LossOK
  <2>1. /\ IsFiniteSet(returned[f] \ Safe(f)) /\ DOMAIN returned = File
        /\ Cardinality(returned[f] \ Safe(f)) + (IF open[f] THEN 1 ELSE 0) <= tears[f]
    BY DEF HistoryInv, LossOK, TextOK
  <2>2. CASE f # t
    BY <1>1, <1>4, <2>1, <2>2
  <2>3. CASE f = t
    <3> DEFINE lost == returned[t] \ Safe(t)
               lostNow == returned'[t] \ Safe(t)'
    <3>1. returned'[t] = returned[t] \cup ToSet(new)
      BY <1>1, <1>2, <2>1
    <3>2. ToSet(new) = {new[k] : k \in DOMAIN new}
      BY DEF ToSet
    <3>3. lostNow \subseteq IF open[t] THEN lost \cup {new[1]} ELSE lost
      BY <1>4, <3>1, <3>2
    <3>4. IsFiniteSet(lost) /\ Cardinality(lost) \in Nat
      BY <2>1, <2>3, FS_CardinalityType
    <3> HIDE DEF lost, lostNow
    <3>5. tears[t] \in Nat
      <4>1. tears[t] \in 0 .. MaxTear
        BY <1>2 DEF HistoryInv, TextOK
      <4> QED
        BY <4>1, LedgerAssumption
    <3>6. IsFiniteSet(lostNow) /\ Cardinality(lostNow) <= tears[t]
      <4>1. CASE open[t]
        <5>1. /\ IsFiniteSet(lost \cup {new[1]})
              /\ Cardinality(lost \cup {new[1]}) <= Cardinality(lost) + 1
          <6>1. /\ IsFiniteSet(lost \cup {new[1]})
                /\ \/ Cardinality(lost \cup {new[1]}) = Cardinality(lost)
                   \/ Cardinality(lost \cup {new[1]}) = Cardinality(lost) + 1
            BY <3>4, FS_AddElement
          <6> QED
            BY <3>4, <6>1
        <5>2. Cardinality(lost) + 1 <= tears[t]
          BY <2>1, <2>3, <4>1 DEF lost
        <5>3. lostNow \in SUBSET (lost \cup {new[1]})
          BY <3>3, <4>1
        <5>4. IsFiniteSet(lostNow) /\ Cardinality(lostNow) <= Cardinality(lost \cup {new[1]})
          BY <5>1, <5>3, FS_Subset
        <5>5. Cardinality(lostNow) \in Nat /\ Cardinality(lost \cup {new[1]}) \in Nat
          BY <5>1, <5>4, FS_CardinalityType
        <5> QED
          BY <3>4, <3>5, <5>1, <5>2, <5>4, <5>5
      <4>2. CASE ~open[t]
        <5>1. lostNow \in SUBSET lost
          BY <3>3, <4>2
        <5>2. IsFiniteSet(lostNow) /\ Cardinality(lostNow) <= Cardinality(lost)
          BY <3>4, <5>1, FS_Subset
        <5>3. Cardinality(lostNow) \in Nat
          BY <5>2, FS_CardinalityType
        <5>4. Cardinality(lost) <= tears[t]
          <6>1. Cardinality(lost) + 0 <= tears[t]
            BY <2>1, <2>3, <4>2 DEF lost
          <6> QED
            BY <3>4, <6>1
        <5> QED
          BY <3>4, <3>5, <5>2, <5>3, <5>4
      <4> QED
        BY <4>1, <4>2
    <3>7. Cardinality(lostNow) \in Nat
      BY <3>6, FS_CardinalityType
    <3>8. Cardinality(lostNow) + (IF open'[t] THEN 1 ELSE 0) <= tears'[t]
      BY <1>1, <1>4, <3>5, <3>6, <3>7
    <3> QED
      BY <2>3, <3>6, <3>8 DEF lostNow
  <2> QED
    BY <2>2, <2>3
<1> QED
  BY <1>5, <1>6, <1>7, <1>8 DEF HistoryInv

LEMMA CutShortHistory ==
  ASSUME HistoryInv, NEW p \in Proc, WriteCutShort(p)
  PROVE  HistoryInv'
<1>0. PICK t : t = op[p].target
  OBVIOUS
<1>1. PICK left \in Leftover(op[p].records) :
        /\ lines' = [lines EXCEPT ![t] = Written(t, left.text)]
        /\ open' = [open EXCEPT ![t] = left.open]
  BY <1>0 DEF WriteCutShort
<1>2. /\ op[p].step = "write" /\ Leave(p, "failed")
      /\ tears[t] < MaxTear /\ tears' = [tears EXCEPT ![t] = @ + 1]
      /\ UNCHANGED <<runs, returned, givenUp>>
  BY <1>0 DEF WriteCutShort
<1>3. op[p].records \in Seq(Record) /\ t \in File
  BY <1>0, <1>2, AddsOK
<1>4. PartOf(left.text, op[p].records) /\ left.open \in BOOLEAN
  BY <1>3, LeftoverOK
<1>5. /\ \A f \in File \ {t} : Safe(f)' = Safe(f) /\ open'[f] = open[f]
      /\ open'[t] = left.open /\ Safe(t) \subseteq Safe(t)'
  BY <1>0, <1>1, <1>2, <1>4, SafeAfterWrite
<1>6. /\ lines' \in [File -> Seq(Line)] /\ \A f \in File : lines'[f] = lines[f] \/ lines'[f] # <<>>
      /\ \A q \in Proc : op'[q].records \in Seq(Record)
      /\ NewOK' /\ WritesOK' /\ OnceOK'
  BY <1>0, <1>1, <1>2, <1>4, WriteText
<1>7. LedgerInv'
  BY WriteStep DEF HistoryInv
<1>8. lines'[t] # <<>>
  BY <1>0, <1>1, <1>2, <1>3, <1>4, FileAfterWrite DEF HistoryInv, TextOK
<1>9. tears[t] \in Nat /\ tears[t] + 1 \in 0 .. MaxTear
  BY <1>2, <1>3, LedgerAssumption DEF HistoryInv, TextOK
<1>10. TextOK'
  <2>1. open' \in [File -> BOOLEAN] /\ tears' \in [File -> 0 .. MaxTear]
    BY <1>1, <1>2, <1>4, <1>9 DEF HistoryInv, TextOK
  <2>2. \A f \in File : open'[f] => lines'[f] # <<>>
    BY <1>5, <1>6, <1>8 DEF HistoryInv, TextOK
  <2> QED
    BY <1>2, <1>6, <2>1, <2>2 DEF HistoryInv, TextOK
<1>11. LossOK'
  <2> SUFFICES ASSUME NEW f \in File
               PROVE  /\ IsFiniteSet(returned'[f] \ Safe(f)')
                      /\ Cardinality(returned'[f] \ Safe(f)') + (IF open'[f] THEN 1 ELSE 0) <= tears'[f]
    BY DEF LossOK
  <2>1. /\ IsFiniteSet(returned[f] \ Safe(f)) /\ DOMAIN tears = File
        /\ Cardinality(returned[f] \ Safe(f)) + (IF open[f] THEN 1 ELSE 0) <= tears[f]
    BY DEF HistoryInv, LossOK, TextOK
  <2>2. CASE f # t
    BY <1>2, <1>5, <2>1, <2>2
  <2>3. CASE f = t
    <3> DEFINE lost == returned[t] \ Safe(t)
               lostNow == returned'[t] \ Safe(t)'
    <3>1. lostNow \in SUBSET lost
      BY <1>2, <1>5
    <3>2. IsFiniteSet(lost) /\ Cardinality(lost) \in Nat
      BY <2>1, <2>3, FS_CardinalityType
    <3> HIDE DEF lost, lostNow
    <3>3. IsFiniteSet(lostNow) /\ Cardinality(lostNow) <= Cardinality(lost)
      BY <3>1, <3>2, FS_Subset
    <3>4. Cardinality(lostNow) \in Nat
      BY <3>3, FS_CardinalityType
    <3>5. Cardinality(lost) <= tears[t] /\ tears'[t] = tears[t] + 1
      <4>1. Cardinality(lost) + (IF open[t] THEN 1 ELSE 0) <= tears[t]
        BY <2>1, <2>3 DEF lost
      <4> QED
        BY <1>2, <1>3, <1>9, <2>1, <3>2, <4>1
    <3>6. Cardinality(lostNow) + (IF open'[t] THEN 1 ELSE 0) <= tears'[t]
      BY <1>9, <3>2, <3>3, <3>4, <3>5
    <3> QED
      BY <2>3, <3>3, <3>6 DEF lostNow
  <2> QED
    BY <2>2, <2>3
<1> QED
  BY <1>6, <1>7, <1>10, <1>11 DEF HistoryInv

-----------------------------------------------------------------------------
(* The theorem about the history *)

LEMMA HistoryInvariance == LedgerSpec => []HistoryInv
<1>1. LedgerInit => HistoryInv
  <2> SUFFICES ASSUME LedgerInit PROVE HistoryInv
    OBVIOUS
  <2>1. LedgerInv
    BY LedgerBegins
  <2>2. /\ \A f \in File : lines[f] = <<>> /\ open[f] = FALSE /\ returned[f] = {} /\ tears[f] = 0
        /\ \A p \in Proc : op[p].step = "idle" /\ op[p].records = <<>>
        /\ runs = 0 /\ givenUp = 0
    BY DEF LedgerInit, Over, Call
  <2>3. TextOK
    <3>1. <<>> \in Seq(Line) /\ <<>> \in Seq(Record)
      OBVIOUS
    <3>2. 0 \in 0 .. MaxRun /\ 0 \in 0 .. MaxGiveUp /\ 0 \in 0 .. MaxTear
      BY LedgerAssumption
    <3>3. /\ lines \in [File -> Seq(Line)] /\ open \in [File -> BOOLEAN]
          /\ tears \in [File -> 0 .. MaxTear] /\ DOMAIN returned = File
      BY <3>1, <3>2 DEF LedgerInit
    <3>4. \A p \in Proc : op[p].records \in Seq(Record)
      BY <2>2, <3>1
    <3> QED
      BY <2>2, <3>2, <3>3, <3>4 DEF TextOK
  <2>4. NewOK /\ WritesOK /\ OnceOK
    BY <2>2 DEF NewOK, WritesOK, OnceOK
  <2>5. LossOK
    <3>1. \A f \in File : returned[f] \ Safe(f) = {}
      BY <2>2
    <3>2. IsFiniteSet({}) /\ Cardinality({}) = 0
      BY FS_EmptySet
    <3>3. \A f \in File : (IF open[f] THEN 1 ELSE 0) = 0
      BY <2>2
    <3>4. Cardinality({}) + 0 <= 0
      BY <3>2
    <3> QED
      BY <2>2, <3>1, <3>2, <3>3, <3>4 DEF LossOK
  <2> QED
    BY <2>1, <2>3, <2>4, <2>5 DEF HistoryInv
<1>2. HistoryInv /\ [LedgerNext]_ledgerVars => HistoryInv'
  <2> SUFFICES ASSUME HistoryInv, [LedgerNext]_ledgerVars PROVE HistoryInv'
    OBVIOUS
  <2>1. ASSUME NEW p \in Proc, AppendRecord(p) \/ Merge(p) PROVE HistoryInv'
    BY <2>1, BeginHistory
  <2>2. ASSUME NEW p \in Proc, Lock(p) PROVE HistoryInv'
    BY <2>2, LockHistory
  <2>3. ASSUME NEW p \in Proc, MergeReads(p) PROVE HistoryInv'
    BY <2>3, ReadHistory
  <2>4. ASSUME NEW p \in Proc, WriteRecords(p) PROVE HistoryInv'
    BY <2>4, WriteHistory
  <2>5. ASSUME NEW p \in Proc, WriteCutShort(p) PROVE HistoryInv'
    BY <2>5, CutShortHistory
  <2>6. ASSUME NEW p \in Proc, LockTimesOut(p) \/ GiveUp(p) PROVE HistoryInv'
    BY <2>6, EndHistory
  <2>7. CASE UNCHANGED ledgerVars
    <3>1. UNCHANGED <<lines, open, op, runs, returned, tears, givenUp>>
      BY <2>7 DEF ledgerVars
    <3>2. LedgerInv'
      BY <2>7, LedgerStutters DEF HistoryInv
    <3>3. OnceOK' /\ LossOK'
      BY <3>1, NothingWritten DEF HistoryInv
    <3>4. NewOK' /\ WritesOK' /\ TextOK'
      BY <3>1 DEF HistoryInv, NewOK, WritesOK, TextOK
    <3> QED
      BY <3>2, <3>3, <3>4 DEF HistoryInv
  <2> QED
    BY <2>1, <2>2, <2>3, <2>4, <2>5, <2>6, <2>7 DEF LedgerNext, Ended
<1> QED
  BY <1>1, <1>2, PTL DEF LedgerSpec

\* What recent shows are the records of the file, the last one first.
LEMMA RecentOK ==
  ASSUME NEW f \in File, lines[f] \in Seq(Line)
  PROVE  /\ Readable(f) = {lines[f][i] : i \in RecordPlaces(lines[f])}
         /\ \E m \in [DOMAIN Recent(f) -> DOMAIN lines[f]] :
              /\ \A k, l \in DOMAIN Recent(f) : k < l => m[l] < m[k]
              /\ \A k \in DOMAIN Recent(f) : lines[f][m[k]] # Broken /\ Recent(f)[k] = lines[f][m[k]]
<1> DEFINE text == lines[f]
           places == RecordPlaces(text)
           kept == Records(text)
           N == Len(kept)
<1>1. kept \in Seq(Line) /\ \E m : Places(m, kept, text, places, Len(text))
  BY LinesAtOK DEF Records
<1>2. PICK m : Places(m, kept, text, places, Len(text))
  BY <1>1
<1>3. /\ places \subseteq DOMAIN text /\ \A i \in places : text[i] # Broken
      /\ DOMAIN text = 1 .. Len(text)
  BY DEF RecordPlaces
<1> HIDE DEF places, kept
<1>4. N \in Nat /\ DOMAIN kept = 1 .. N
  BY <1>1
<1>5. /\ m \in [1 .. N -> places \cap (1 .. Len(text))]
      /\ \A k \in 1 .. N : kept[k] = text[m[k]]
      /\ \A k, l \in 1 .. N : k < l => m[k] < m[l]
      /\ \A i \in places \cap (1 .. Len(text)) : \E k \in 1 .. N : m[k] = i
  BY <1>2 DEF Places
<1>6. Readable(f) = {text[i] : i \in places}
  <2>1. Readable(f) = {kept[k] : k \in 1 .. N}
    BY <1>4 DEF Readable, ToSet, kept
  <2>2. \A k \in 1 .. N : kept[k] \in {text[i] : i \in places}
    BY <1>5
  <2>3. \A i \in places : i \in places \cap (1 .. Len(text))
    BY <1>3
  <2>4. \A i \in places : \E k \in 1 .. N : kept[k] = text[i]
    BY <1>5, <2>3
  <2> QED
    BY <2>1, <2>2, <2>4
<1>7. Recent(f) = [k \in 1 .. N |-> kept[(N - k) + 1]]
  BY DEF Recent, Reverse, kept
<1> DEFINE back == [k \in 1 .. N |-> m[(N - k) + 1]]
<1>8. \A k \in 1 .. N : (N - k) + 1 \in 1 .. N
  BY <1>4
<1> HIDE DEF N
<1>10. DOMAIN Recent(f) = 1 .. N
  BY <1>7
<1>11. back \in [1 .. N -> DOMAIN text]
  BY <1>3, <1>5, <1>8
<1>12. ASSUME NEW k \in 1 .. N, NEW l \in 1 .. N, k < l
       PROVE  back[l] < back[k]
  <2>1. (N - l) + 1 < (N - k) + 1
    BY <1>4, <1>12
  <2>2. m[(N - l) + 1] < m[(N - k) + 1]
    BY <1>5, <1>8, <2>1
  <2> QED
    BY <2>2
<1>13. \A k \in 1 .. N : text[back[k]] # Broken /\ Recent(f)[k] = text[back[k]]
  BY <1>3, <1>5, <1>7, <1>8
<1> HIDE DEF back
<1>14. \E n \in [DOMAIN Recent(f) -> DOMAIN text] :
         /\ \A k, l \in DOMAIN Recent(f) : k < l => n[l] < n[k]
         /\ \A k \in DOMAIN Recent(f) : text[n[k]] # Broken /\ Recent(f)[k] = text[n[k]]
  <2>1. back \in [DOMAIN Recent(f) -> DOMAIN text]
    BY <1>10, <1>11
  <2>2. \A k, l \in DOMAIN Recent(f) : k < l => back[l] < back[k]
    BY <1>10, <1>12
  <2>3. \A k \in DOMAIN Recent(f) : text[back[k]] # Broken /\ Recent(f)[k] = text[back[k]]
    BY <1>10, <1>13
  <2> QED
    BY <2>1, <2>2, <2>3
<1> QED
  BY <1>6, <1>14 DEF places

LEMMA HistoryFollows == HistoryInv => HistoryKept
<1> SUFFICES ASSUME HistoryInv PROVE HistoryKept
  OBVIOUS
<1>1. lines \in [File -> Seq(Line)] /\ \A f \in File : lines[f] \in Seq(Line)
  BY DEF HistoryInv, TextOK
<1>2. LedgerTypeOK
  <2>1. \A f \in File : \A i \in DOMAIN lines[f] : lines[f][i] \in Record \cup {Broken}
    BY <1>1 DEF Line
  <2>2. \A p \in Proc : ToSet(op[p].records) \subseteq Record
    BY DEF HistoryInv, TextOK, ToSet
  <2>3. \A p \in Proc : /\ op[p].step \in {"idle", "lock", "read", "write", "done", "failed"}
                        /\ op[p].target \in File \cup {Nil} /\ op[p].source \in File \cup {Nil}
    BY DEF HistoryInv, LedgerInv, CallOK
  <2> QED
    BY <2>1, <2>2, <2>3 DEF HistoryInv, LedgerInv, Shape, TextOK, LedgerTypeOK
<1>3. NoRunTwice
  <2> SUFFICES ASSUME NEW f \in File, NEW i \in DOMAIN Recent(f), NEW j \in DOMAIN Recent(f),
                      i < j, Recent(f)[i].run = Recent(f)[j].run
               PROVE  ~Recent(f)[i].copied
    BY DEF NoRunTwice
  <2>1. PICK m \in [DOMAIN Recent(f) -> DOMAIN lines[f]] :
          /\ \A k, l \in DOMAIN Recent(f) : k < l => m[l] < m[k]
          /\ \A k \in DOMAIN Recent(f) : lines[f][m[k]] # Broken /\ Recent(f)[k] = lines[f][m[k]]
    BY <1>1, RecentOK
  <2>2. /\ m[j] < m[i] /\ m[i] \in DOMAIN lines[f] /\ m[j] \in DOMAIN lines[f]
        /\ lines[f][m[i]] # Broken /\ Recent(f)[i] = lines[f][m[i]]
        /\ lines[f][m[j]] # Broken /\ Recent(f)[j] = lines[f][m[j]]
    BY <2>1
  <2> QED
    BY <2>2 DEF HistoryInv, OnceOK
<1>4. LossBounded
  <2> SUFFICES ASSUME NEW f \in File PROVE Cardinality(returned[f] \ Readable(f)) <= tears[f]
    BY DEF LossBounded
  <2> DEFINE lost == returned[f] \ Safe(f)
             gone == returned[f] \ Readable(f)
  <2>1. /\ IsFiniteSet(lost) /\ Cardinality(lost) + (IF open[f] THEN 1 ELSE 0) <= tears[f]
        /\ open[f] \in BOOLEAN /\ tears[f] \in Nat
    BY LedgerAssumption DEF HistoryInv, LossOK, TextOK
  <2>2. gone \in SUBSET lost
    <3>1. Readable(f) = {lines[f][i] : i \in RecordPlaces(lines[f])}
      BY <1>1, RecentOK
    <3>2. Closed(f) <= Len(lines[f]) /\ Closed(f) \in Int /\ DOMAIN lines[f] = 1 .. Len(lines[f])
      BY <1>1, <2>1 DEF Closed
    <3>3. \A r \in Safe(f) : r # Broken => r \in Readable(f)
      BY <3>1, <3>2 DEF Safe, RecordPlaces
    <3>4. Broken \notin returned[f]
      BY LedgerAssumption DEF HistoryInv, TextOK
    <3> QED
      BY <3>3, <3>4
  <2> HIDE DEF lost, gone
  <2>3. Cardinality(lost) \in Nat /\ IsFiniteSet(gone) /\ Cardinality(gone) <= Cardinality(lost)
    BY <2>1, <2>2, FS_Subset, FS_CardinalityType
  <2>4. Cardinality(gone) \in Nat
    BY <2>3, FS_CardinalityType
  <2>5. Cardinality(gone) <= tears[f]
    BY <2>1, <2>3, <2>4
  <2> QED
    BY <2>5 DEF gone
<1> QED
  BY <1>2, <1>3, <1>4 DEF HistoryKept

\* A merge never brings a run that its file shows already, whatever was merged back and
\* forth and however often a run is repeated, and every write that is cut short costs at
\* most one record that a call has reported as written.
THEOREM HistoryIsKept == LedgerSpec => []HistoryKept
BY HistoryInvariance, HistoryFollows, PTL

=============================================================================
