----------------------------- MODULE MCRunGuard -----------------------------
(* A GUI with two threads that share one RunGuard object, and the process of *)
(* a scheduled run with two RunGuard objects, of the same installation or of *)
(* another one.                                                              *)
EXTENDS Identity, TLC

CONSTANTS gui1, gui2, run1, run2, gui, run, here, there,
          f1, f2, old, task

MCCaller == {gui1, gui2, run1, run2}
MCInstance == {gui, run1, run2}
MCProcess == {gui, run}
MCInstanceOf == (gui1 :> gui @@ gui2 :> gui @@ run1 :> run1 @@ run2 :> run2)
MCProcessOf == (gui1 :> gui @@ gui2 :> gui @@ run1 :> run @@ run2 :> run)
MCFreshOf == (gui :> f1 @@ run :> f2)

\* One installation: nothing to take over; an identifier of an older version;
\* tasks; tasks of two namespaces; a broken registry.  Two installations: an
\* older identifier and a broken registry.
MCSites ==
  LET Site(r, l, h, t) == [home   |-> (gui :> here @@ run :> r),
                           legacy |-> (here :> l @@ there :> None),
                           tasks  |-> (here :> h @@ there :> t)]
  IN  {Site(here, None, {}, {}), Site(here, old, {}, {}), Site(here, old, {task}, {}),
       Site(here, None, {task, old}, {}), Site(here, None, {Broken}, {}),
       Site(there, old, {}, {Broken})}
=============================================================================
