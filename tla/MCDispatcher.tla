---------------------------- MODULE MCDispatcher ----------------------------
(* Small instances of Dispatcher.  Three scheduled runs, two of schedule "a"*)
(* and one of "b": a dispatcher that died meets later launches of its own   *)
(* schedule and of the other.  Two runs of different schedules, with a GUI  *)
(* and a --run-once beside them.                                            *)
EXTENDS Dispatcher

CONSTANTS r1, r2, r3, gui, cli

MCNobody == {}
MCNoOwner == << >>
ThreeRuns == {r1, r2, r3}
TwoRuns == {r1, r2}
OneGui == {gui}
OneCli == {cli}
AB == {"a", "b"}

\* r1 and r3 are runs of one schedule.
Shared == [r \in ThreeRuns |-> IF r = r2 THEN "b" ELSE "a"]
DistinctOfTwo == [r \in TwoRuns |-> IF r = r1 THEN "a" ELSE "b"]

OneHome == [r \in ThreeRuns |-> "here"]
R2Broken == {r2}

\* A clock that jumps: a later reading may be the smaller one.
Jumping == {1, 2}
Still == {1}
=============================================================================
