---------------------------- MODULE MCMainWindow ----------------------------
(* Two fields, a tree of one level, two search targets with one site.      *)
EXTENDS MainWindow

CONSTANTS p1, p2, p3, d1, d2, d3

a == "a"
b == "b"
c == "c"
d == "d"

Options(codes, labels) == {<<codes[i], labels[i]>> : i \in DOMAIN codes}

TreeOne == (<<>> :> Options(<<1, 2>>, <<a, b>>))
ListOne == (<<>> :> Options(<<1, 2>>, <<a, b>>)) @@ (<<a>> :> Options(<<1>>, <<a>>))
           @@ (<<b>> :> Options(<<1>>, <<b>>))
TreeTwo == (<<>> :> Options(<<1, 3>>, <<a, c>>))
ListTwo == (<<>> :> Options(<<1, 3>>, <<a, d>>)) @@ (<<a>> :> Options(<<1, 2>>, <<a, b>>))
           @@ (<<d>> :> Options(<<1>>, <<b>>))

Same(tree, list) == [t \in SearchTargets |-> [tree |-> tree, list |-> list]]

MCSite == <<Same(TreeOne, ListOne), Same(TreeTwo, ListTwo)>>

MCOnPage == {<<>>, <<a>>}

Wide == [search |-> TRUE, urls |-> << << <<p1>> >>, << <<p3, p1>>, <<p2>> >> >>]
Plain == [search |-> FALSE, urls |-> << << <<p2>> >> >>]
MCPlans == {Wide, Plain}

MCDocsOf == (p1 :> {d1, d3}) @@ (p2 :> {d2}) @@ (p3 :> {d1})

ClicksOf(start, cancel, select, reload, close) ==
    [start |-> start, cancel |-> cancel, select |-> select, reload |-> reload, close |-> close]
NoSchedules == [service |-> FALSE, registered |-> {}, others |-> {}, faults |-> 0, opens |-> 0, edits |-> 0]
UserOf(clicks, editorLoads, editorReloads, missing) ==
    [clicks |-> clicks, editorLoads |-> editorLoads, editorReloads |-> editorReloads,
     misses |-> missing, schedules |-> NoSchedules]

\* Somebody who only looks after the schedules.
Planner(registered, others, faults, edits) ==
    [UserOf(ClicksOf(0, 0, 0, 0, 0), 0, 0, 0) EXCEPT !.schedules =
       [service |-> TRUE, registered |-> registered, others |-> others, faults |-> faults,
        opens |-> 1, edits |-> edits]]
MCPlanners == {Planner({1, 2}, {1}, 0, 1), Planner({2}, {}, 1, 1)}

MCUsers ==
    {UserOf(ClicksOf(2, 0, 0, 0, 0), 0, 0, 0), UserOf(ClicksOf(1, 1, 0, 0, 1), 0, 0, 0),
     UserOf(ClicksOf(0, 0, 2, 1, 0), 0, 0, 0), UserOf(ClicksOf(0, 0, 1, 0, 0), 1, 1, 0),
     UserOf(ClicksOf(0, 0, 0, 1, 1), 0, 1, 1)}
    \cup MCPlanners

=============================================================================
