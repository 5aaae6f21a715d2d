--------------------------- MODULE AgencyCatalog ---------------------------
(***************************************************************************)
(* The agency candidates in memory                                         *)
(* (core/extractor/agency_hierarchy_service.py): per search target a       *)
(* catalogue read from the site's tree, which is right for the first       *)
(* TreeDepth levels, and branches read from the list search.  Where the    *)
(* two name an agency differently the list is believed.                    *)
(*                                                                         *)
(* The service is one record:                                              *)
(*   snap     _catalog_snapshots: the site's version the catalogue of a    *)
(*            target was read from, 0 for none                             *)
(*   kids     _children_cache: per target, the candidates under a path     *)
(*   list     _list_children_cache: those read from the list search        *)
(*   wrong    _catalog_invalid_paths                                       *)
(*   primed   _initial_search_options_cache of the scraper: the targets    *)
(*            whose search page was read                                   *)
(* A path is the sequence of the labels; an option is a pair of a code and *)
(* a label.  The WebForms states, which only save requests, are left out.  *)
(***************************************************************************)
EXTENDS Naturals, Sequences, SequencesExt, FiniteSets, TLC

CONSTANTS
    SearchTargets,                  \* the kinds of search, each with a tab of its own
    TreeDepth,                \* the levels the tree has (3 in the code)
    OnPage,                   \* the paths whose options the search page shows
    Site                      \* the versions the site goes through; per version and
                              \* target its tree and list: the options under a path

Tree(t, v) == Site[v][t].tree
List(t, v) == Site[v][t].list

NoBranches == <<>>
LabelsIn(options) == {o[2] : o \in options}

NoCatalog == [snap |-> [t \in SearchTargets |-> 0], kids |-> [t \in SearchTargets |-> NoBranches],
              list |-> [t \in SearchTargets |-> NoBranches], wrong |-> {}, primed |-> {}]

-----------------------------------------------------------------------------
(* _compare_catalog_branch and _publish_list_branch: a branch of the list  *)
(* search of target t, held against the catalogue of target c.             *)

Known(s, c, path) == s.snap[c] # 0 /\ path \in DOMAIN Tree(c, s.snap[c])

Mismatch(s, c, path, options) ==
    /\ Known(s, c, path)
    /\ \E o \in options, p \in Tree(c, s.snap[c])[path] : o[1] = p[1] /\ o[2] # p[2]

Publish(s, t, c, path, options) ==
    LET mismatch == Mismatch(s, c, path, options)
        offered == IF Known(s, c, path) /\ ~mismatch THEN Tree(c, s.snap[c])[path] ELSE options
    IN  [s EXCEPT !.kids[t] = (path :> offered) @@ @,
                  !.wrong = IF mismatch THEN @ \cup {<<c, path>>} ELSE @]

\* a branch of the list search as it was read: _store_list_children, then published
Remember(s, t, path, options) ==
    Publish([s EXCEPT !.list[t] = (path :> options) @@ @], t, t, path, options)

-----------------------------------------------------------------------------
(* bootstrap_catalog and refresh_catalog.                                  *)

Discard(s, t) ==
    [s EXCEPT !.kids[t] = NoBranches, !.list[t] = NoBranches,
              !.wrong = {w \in @ : w[1] # t}]

\* what the list searches of the other targets have read is published anew
PublishOthers(s, c) ==
    LET branches == UNION {{<<t, path>> : path \in DOMAIN s.list[t]} : t \in SearchTargets}
    IN  FoldLeft(LAMBDA acc, b : Publish(acc, b[1], c, b[2], s.list[b[1]][b[2]]),
                 s, SetToSeq(branches))

\* a whole catalogue was read and parsed: only now the old one goes
NewCatalog(s, t, v) == PublishOthers([Discard(s, t) EXCEPT !.snap[t] = v], t)

\* refresh_agency_catalog of the scraper: the search page is read anew as well
Refresh(s, t, v) == [NewCatalog(s, t, v) EXCEPT !.primed = @ \ {t}]

\* a catalogue in memory is kept
Bootstrap(s, t, v) == IF s.snap[t] = 0 THEN NewCatalog(s, t, v) ELSE s

-----------------------------------------------------------------------------
(* The list search: the search page shows the first level and, for some of *)
(* it, the second; a postback shows one level more.                        *)

Embedded(t, v) == DOMAIN List(t, v) \cap OnPage

\* _remember_root_state
RootRead(s, t, v) ==
    FoldLeft(LAMBDA acc, path : Remember(acc, t, path, List(t, v)[path]),
             s, SetToSeq(Embedded(t, v)))

\* get_initial_search_option_pairs of the scraper, read once per target
Prime(s, t, v) ==
    IF t \in s.primed THEN s ELSE [RootRead(s, t, v) EXCEPT !.primed = @ \cup {t}]

\* the level above was read and has the nth label of the path
Reached(s, t, path, n) ==
    LET above == SubSeq(path, 1, n - 1)
    IN  above \in DOMAIN s.list[t] /\ path[n] \in LabelsIn(s.list[t][above])

\* _get_list_children_result: down the path, level by level; a level that
\* the list does not have ends the walk
ListWalk(s, t, path, v) ==
    LET step(acc, n) ==
            LET here == SubSeq(path, 1, n)
            IN  IF here \in DOMAIN acc.list[t] THEN acc
                ELSE IF (n > 0 /\ ~Reached(acc, t, path, n)) \/ here \notin DOMAIN List(t, v)
                     THEN acc
                ELSE IF n = 0 THEN RootRead(acc, t, v)
                ELSE Remember(acc, t, here, List(t, v)[here])
    IN  FoldLeft(step, s, [i \in 1 .. Len(path) + 1 |-> i - 1])

-----------------------------------------------------------------------------
(* get_children_result.  treeFails and listFails say which of the site's   *)
(* pages cannot be read.                                                   *)

Found(s, t, path) == [s |-> s, options |-> s.kids[t][path], error |-> FALSE]
Missing(s) == [s |-> s, options |-> {}, error |-> TRUE]

FromList(s, t, path, v, listFails) ==
    IF listFails THEN Missing(s)
    ELSE LET walked == ListWalk(s, t, path, v)
         IN  IF path \in DOMAIN walked.list[t]
             THEN [s |-> walked, options |-> walked.list[t][path], error |-> FALSE]
             ELSE Missing(walked)

\* the deepest level is only in the list
GetChildren(s, t, path, v, treeFails, listFails) ==
    LET inTree == Len(path) < TreeDepth
        booted == IF inTree /\ ~treeFails THEN Bootstrap(s, t, v) ELSE s
    IN  IF path \in DOMAIN s.kids[t] THEN Found(s, t, path)
        ELSE IF inTree /\ Known(booted, t, path) /\ <<t, path>> \notin booted.wrong
             THEN Found([booted EXCEPT !.kids[t] =
                            (path :> Tree(t, booted.snap[t])[path]) @@ @], t, path)
             ELSE FromList(booted, t, path, v, listFails)

-----------------------------------------------------------------------------
(* What the service promises of every state s.                             *)

\* Where the list search of a target contradicts its catalogue, the
\* candidates that are offered are the list's (_compare_catalog_branch).
ListIsBelieved(s) ==
    \A t \in SearchTargets : \A path \in DOMAIN s.list[t] :
        Mismatch(s, t, path, s.list[t][path]) /\ path \in DOMAIN s.kids[t]
            => s.kids[t][path] = s.list[t][path]

\* What is offered for a target is what the site has under that target
\* ("the states of koji and gyomu have keys of their own", bootstrap_catalog).
OwnCandidates(s) ==
    \A t \in SearchTargets : \A path \in DOMAIN s.kids[t] :
        \E v \in DOMAIN Site :
            \/ path \in DOMAIN Tree(t, v) /\ s.kids[t][path] = Tree(t, v)[path]
            \/ path \in DOMAIN List(t, v) /\ s.kids[t][path] = List(t, v)[path]

=============================================================================
