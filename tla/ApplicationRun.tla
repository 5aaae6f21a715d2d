--------------------------- MODULE ApplicationRun ---------------------------
(***************************************************************************)
(* One run of the program (app/service.py, ApplicationService.run): the    *)
(* search of every target URL through its result pages and the detail page *)
(* of every project (core/scraper.py), the filter, the downloads, the      *)
(* outcome and the events told on the way.  What a download does to the    *)
(* disk is in module Downloads; here a document is answered with a status. *)
(*                                                                         *)
(* A plan is what the run is started with and what the site holds:         *)
(*   search  TRUE: the URLs are search forms; FALSE: plain pages           *)
(*   urls    per URL, its pages; a page is a sequence of projects          *)
(* run is the run's own state, out what its last step told the callback.   *)
(***************************************************************************)
EXTENDS EventHandler, FiniteSets, Integers

CONSTANTS
    Plans,           \* the runs that may be started
    DocsOf,          \* the documents on the detail page of a project
    ListedOnly,      \* the projects whose documents only the download page lists
    Ended,           \* the documents that are listed but no longer public
    Wanted,          \* the documents that pass the filter
    Saved,           \* the documents the history already knows
    MaxPages,        \* the pages of one search that are read (100 in the code)
    MaxFail          \* how many calls of the site fail in a behaviour

\* a plain URL is one page
PlanType == [search : BOOLEAN, urls : Seq(Seq(Seq(DOMAIN DocsOf)))]

ASSUME SiteAssumption ==
    /\ \A plan \in Plans :
          /\ plan \in PlanType
          /\ ~plan.search => \A u \in DOMAIN plan.urls : Len(plan.urls[u]) = 1
    /\ Plans # {}
    /\ \A p \in DOMAIN DocsOf : IsFiniteSet(DocsOf[p])

VARIABLES run, out, cancelFlag, failures

runVars == <<run, out, cancelFlag, failures>>

-----------------------------------------------------------------------------
(* The summary of a search: which projects were read, how, and how many of *)
(* each kind.  A project goes by its number where its documents show it,   *)
(* by its row otherwise.                                                   *)

FAILED_DETAIL == "DETAIL_FAILED"
Classes == {"PUBLIC_AVAILABLE", "EXPIRED_ONLY", "NO_DOCUMENTS", FAILED_DETAIL}

ProjectId(row, p, class) == IF class = "PUBLIC_AVAILABLE" THEN p ELSE row

Public(p) == DocsOf[p] \ Ended

Class(docs) ==
    CASE docs = {} -> "NO_DOCUMENTS"
      [] docs # {} /\ docs \subseteq Ended -> "EXPIRED_ONLY"
      [] OTHER -> "PUBLIC_AVAILABLE"

\* a list of one project
Entry(id, class) == [x \in {id} |-> class]

NoSummary == [projects |-> NoProjects, counts |-> [c \in Classes |-> 0]]

\* refresh_counts: all counts anew
Recount(ps) == [c \in Classes |-> Cardinality({id \in DOMAIN ps : ps[id] = c})]

Contribution(counts, class, n) == [counts EXCEPT ![class] = @ + n]

\* _prefer_project: a failed reading never replaces a good one
Preferred(s, id, class) ==
    id \in DOMAIN s.projects => class # FAILED_DETAIL \/ s.projects[id] = FAILED_DETAIL

\* upsert_project: what the project added to the counts is taken back first
Upsert(s, id, class) ==
    LET rest == IF id \in DOMAIN s.projects
                THEN Contribution(s.counts, s.projects[id], -1) ELSE s.counts
    IN  IF Preferred(s, id, class)
        THEN [projects |-> Joined(Entry(id, class), s.projects), counts |-> Contribution(rest, class, 1)]
        ELSE s

\* merge: the projects of one search, put into those of the run
MergeProjects(s, t) ==
    FoldLeft(LAMBDA sum, id : Upsert(sum, id, t.projects[id]), s, SetToSeq(DOMAIN t.projects))

-----------------------------------------------------------------------------
(* The run as it starts; found and here are what the scraper has read of   *)
(* the URL at hand (its list and last_search_summary), bad its failures;   *)
(* files and read are those of the run, decided what became of every       *)
(* document that a detail page lists.                                      *)

NewRun(plan, gen) ==
    [plan |-> plan, stage |-> "begin", url |-> 0, page |-> 0, row |-> 0,
     gen |-> gen, here |-> NoSummary, found |-> <<>>, bad |-> FALSE, matched |-> FALSE,
     read |-> NoSummary, files |-> <<>>, decided |-> <<>>, failed |-> FALSE,
     complete |-> TRUE, tasks |-> <<>>, outcome |-> ""]

Pages == run.plan.urls[run.url]
Rows == Pages[run.page]
Project == Rows[run.row]

Summary(r) == SearchEvent(r.gen, <<r.read.projects>>, NoProjects)

Tell(events) == out' = events
Fault == failures < MaxFail /\ failures' = failures + 1
NoFault == UNCHANGED failures

\* finish: the one terminal event of the run, and _cleanup
EndRun(r, o, events) ==
    /\ run' = [r EXCEPT !.stage = "done", !.outcome = o]
    /\ Tell(events \o <<Outcome(IF o = "FAILED" THEN "FAIL" ELSE "COMPLETE", o)>>)

FinishesAs(o, events) == EndRun(run, o, events)

-----------------------------------------------------------------------------
(* The start of the run and its target URLs.                               *)

\* the folder and the components are made before START is told
Begin ==
    /\ run.stage = "begin"
    /\ \/ /\ run' = [run EXCEPT !.stage = "url", !.url = 1]
          /\ Tell(<<Event("START")>>) /\ NoFault
       \/ Fault /\ FinishesAs("FAILED", <<>>)

\* _deduplicate_files: a document found again is one with the first
Deduplicated(files) ==
    FoldLeft(LAMBDA kept, d : IF d \in ToSet(kept) THEN kept ELSE Append(kept, d), <<>>, files)

NextUrl ==
    /\ run.stage = "url"
    /\ IF cancelFlag \/ run.url > Len(run.plan.urls)
       THEN /\ run' = [run EXCEPT !.stage = "extracted", !.files = Deduplicated(@),
                                  !.complete = @ /\ ~cancelFlag]
            /\ Tell(<<>>)
       ELSE /\ run' = [run EXCEPT !.stage = IF run.plan.search THEN "submit" ELSE "plain"]
            /\ Tell(<<Event("MESSAGE")>>)
    /\ NoFault

\* a URL that could not be read: add_failure
UrlFails ==
    /\ run' = [run EXCEPT !.stage = "url", !.url = @ + 1,
                          !.failed = TRUE, !.complete = FALSE]
    /\ Tell(<<>>)

\* submit_search_form gives no page when it fails and when it is cancelled
Submit ==
    /\ run.stage = "submit"
    /\ \/ Fault /\ UrlFails
       \/ cancelFlag /\ NoFault /\ UrlFails
       \/ /\ ~cancelFlag /\ NoFault
          /\ run' = [run EXCEPT !.stage = "page", !.page = 1, !.gen = @ + 1,
                                !.here = NoSummary, !.found = <<>>, !.bad = FALSE]
          /\ Tell(<<>>)

PlainPage ==
    /\ run.stage = "plain"
    /\ \/ Fault /\ UrlFails
       \/ /\ NoFault
          /\ run' = [run EXCEPT !.stage = "url", !.url = @ + 1,
                                !.files = @ \o SetToSeq(UNION {Public(p) : p \in ToSet(Pages[1])})]
          /\ Tell(<<>>)

-----------------------------------------------------------------------------
(* extract_file_links_from_search_results: page by page, row by row.       *)

\* the end of one search: its result goes into the run's, its failures too
EndSearch(r, broken) ==
    LET failed == r.bad \/ broken
    IN  /\ run' = [r EXCEPT !.stage = "url", !.url = @ + 1,
                            !.files = @ \o r.found, !.read = MergeProjects(@, r.here),
                            !.failed = @ \/ failed,
                            !.complete = @ /\ ~failed /\ ~cancelFlag]
        /\ Tell(<<Event("MESSAGE")>>)

\* a page that is no result page, or not of this search, ends the search
Page ==
    /\ run.stage = "page"
    /\ \/ cancelFlag /\ NoFault /\ EndSearch(run, FALSE)
       \/ ~cancelFlag /\ Fault /\ EndSearch(run, TRUE)
       \/ ~cancelFlag /\ Pages = <<>> /\ NoFault /\ EndSearch(run, FALSE)
       \/ /\ ~cancelFlag /\ Pages # <<>> /\ NoFault
          /\ run' = [run EXCEPT !.stage = "row", !.row = 1, !.matched = TRUE]
          /\ Tell(<<SearchEvent(run.gen, <<>>, NoProjects)>>)

Row ==
    /\ run.stage = "row" /\ NoFault /\ Tell(<<>>)
    /\ run' = [run EXCEPT !.stage = IF cancelFlag \/ run.row > Len(Rows)
                                    THEN "rowsRead" ELSE "detail"]

\* the rows of a detail page, before the filter
AsListed(listed) ==
    [d \in listed |-> IF d \in Ended THEN "EXCLUDED_EXPIRED" ELSE "NOT_EVALUATED"]

\* one detail page: how it was read and what it lists is recorded, the
\* progress tells only it
DetailIs(class, listed, docs) ==
    LET id == ProjectId(<<run.url, run.page, run.row>>, Project, class)
        here == Upsert(run.here, id, class)
    IN  /\ run' = [run EXCEPT !.stage = "row", !.row = @ + 1, !.here = here,
                              !.decided = Joined(@, AsListed(listed)),
                              !.bad = @ \/ class = FAILED_DETAIL,
                              !.found = @ \o SetToSeq(docs)]
        /\ Tell(<<SearchEvent(run.gen, <<>>, Entry(id, here.projects[id]))>>)

\* cancelled before the call: nothing is recorded and nothing of it told
DetailSkipped ==
    /\ run' = [run EXCEPT !.stage = "row", !.row = @ + 1]
    /\ Tell(<<SearchEvent(run.gen, <<>>, NoProjects)>>)

\* a project without documents is asked for at the download page as well,
\* and what goes wrong there is only logged
Detail ==
    /\ run.stage = "detail"
    /\ \/ Fault /\ DetailIs(FAILED_DETAIL, {}, {})
       \/ cancelFlag /\ NoFault /\ DetailIs(FAILED_DETAIL, {}, {})
       \/ cancelFlag /\ NoFault /\ DetailSkipped
       \/ /\ Project \notin ListedOnly /\ NoFault
          /\ DetailIs(Class(DocsOf[Project]), DocsOf[Project], Public(Project))
       \/ /\ Project \in ListedOnly
          /\ \/ NoFault /\ DetailIs("NO_DOCUMENTS", {}, Public(Project))
             \/ Fault /\ DetailIs("NO_DOCUMENTS", {}, {})
             \/ cancelFlag /\ NoFault /\ DetailIs("NO_DOCUMENTS", {}, {})

RowsRead ==
    /\ run.stage = "rowsRead" /\ NoFault
    /\ IF cancelFlag
       THEN EndSearch(run, FALSE)
       ELSE /\ run' = [run EXCEPT !.stage = "nextPage"]
            /\ Tell(<<SearchEvent(run.gen, <<run.here.projects>>, NoProjects)>>)

\* pages beyond the limit are reported as not read
BeyondLimit == EndSearch(run, TRUE)

\* the next page is asked for even when the limit is reached
NextPage ==
    /\ run.stage = "nextPage"
    /\ \/ cancelFlag /\ NoFault /\ EndSearch(run, FALSE)
       \/ run.page = Len(Pages) /\ NoFault /\ EndSearch(run, FALSE)
       \/ run.page < Len(Pages) /\ Fault /\ EndSearch(run, TRUE)
       \/ run.page < Len(Pages) /\ run.page >= MaxPages /\ NoFault /\ BeyondLimit
       \/ /\ run.page < Len(Pages) /\ run.page < MaxPages /\ NoFault
          /\ run' = [run EXCEPT !.stage = "page", !.page = @ + 1]
          /\ Tell(<<>>)

-----------------------------------------------------------------------------
(* The filter, the downloads and the outcome.                              *)

EmptyOutcomeBlind(r) == "NO_MATCH"

\* nothing to do: what could not be read is told apart from what is not there
EmptyOutcome(r) == IF r.failed THEN "FAILED" ELSE "NO_MATCH"

Extracted ==
    /\ run.stage = "extracted" /\ NoFault
    /\ LET told == IF run.files = <<>> /\ run.matched THEN <<Summary(run)>> ELSE <<>>
       IN  IF cancelFlag THEN FinishesAs("CANCELLED", told)
           ELSE IF run.files = <<>> THEN FinishesAs(EmptyOutcome(run), told)
           ELSE run' = [run EXCEPT !.stage = "filter"] /\ Tell(told)

\* the documents that pass the filter, in their order
Targets(r) ==
    FoldLeft(LAMBDA kept, d : IF d \in Wanted THEN Append(kept, d) ELSE kept, <<>>, r.files)

\* _apply_filter_decisions: every public document is a target or left out
FilterDecisions(r) ==
    [d \in DOMAIN r.decided |->
        IF d \in Ended THEN r.decided[d]
        ELSE IF d \in ToSet(Targets(r)) THEN "DOWNLOAD_TARGET"
        ELSE IF d \in ToSet(r.files) THEN "EXCLUDED_FILTER" ELSE "EXCLUDED_FILE_TYPE"]

Filter ==
    /\ run.stage = "filter" /\ NoFault
    /\ LET told == <<Event("MESSAGE"), Summary(run)>>
           r == [run EXCEPT !.decided = FilterDecisions(run)]
       IN  IF cancelFlag THEN EndRun(r, "CANCELLED", told)
           ELSE IF Targets(run) = <<>> THEN EndRun(r, EmptyOutcome(run), told)
           ELSE run' = [r EXCEPT !.stage = "download"] /\ Tell(told)

Answered(status) ==
    /\ run' = [run EXCEPT !.tasks = Append(@, status)]
    /\ Tell(<<Event("PROGRESS")>>)

\* a cancelled run answers every document that is left
Download ==
    /\ run.stage = "download" /\ Len(run.tasks) < Len(Targets(run))
    /\ LET d == Targets(run)[Len(run.tasks) + 1]
       IN  \/ cancelFlag /\ NoFault /\ Answered("cancelled")
           \/ ~cancelFlag /\ d \in Saved /\ NoFault /\ Answered("skipped")
           \/ ~cancelFlag /\ d \notin Saved /\ NoFault /\ Answered("completed")
           \/ ~cancelFlag /\ d \notin Saved /\ Fault /\ Answered("failed")

ResultOutcome(tasks) ==
    LET done == {i \in DOMAIN tasks : tasks[i] \in {"completed", "skipped"}}
    IN  IF "cancelled" \in ToSet(tasks) THEN "CANCELLED"
        ELSE IF "failed" \notin ToSet(tasks) THEN "SUCCESS"
        ELSE IF done # {} THEN "PARTIAL" ELSE "FAILED"

\* pages that could not be read make a success a partial one
RunOutcome(r) == IF r.failed /\ ResultOutcome(r.tasks) = "SUCCESS"
                 THEN "PARTIAL" ELSE ResultOutcome(r.tasks)

\* _apply_download_results: each target by its task
DownloadDecisions(r) ==
    LET of == [completed |-> "DOWNLOADED", skipped |-> "REUSED",
               failed |-> "FAILED", cancelled |-> "CANCELLED"]
        task == [i \in DOMAIN r.tasks |-> Targets(r)[i]]
    IN  [d \in DOMAIN r.decided |->
            IF d \in ToSet(task) THEN of[r.tasks[CHOOSE i \in DOMAIN task : task[i] = d]]
            ELSE r.decided[d]]

Downloaded ==
    /\ run.stage = "download" /\ Len(run.tasks) = Len(Targets(run)) /\ NoFault
    /\ EndRun([run EXCEPT !.decided = DownloadDecisions(run)], RunOutcome(run), <<Summary(run)>>)

\* whatever else is raised ends the run as a failure
Raise ==
    /\ run.stage \in {"filter", "download"} /\ Fault
    /\ FinishesAs("FAILED", <<>>)

RunStep == \/ Begin \/ NextUrl \/ Submit \/ PlainPage \/ Page \/ Row \/ Detail
           \/ RowsRead \/ NextPage \/ Extracted \/ Filter \/ Download \/ Downloaded \/ Raise

-----------------------------------------------------------------------------
(* What the run promises.                                                  *)

\* the rows of the plan's result pages, the project of each, and the
\* documents that their detail pages show
PlanRows == UNION {UNION {{<<u, i, j>> : j \in DOMAIN run.plan.urls[u][i]} :
                             i \in DOMAIN run.plan.urls[u]} : u \in DOMAIN run.plan.urls}
ProjectAt(row) == run.plan.urls[row[1]][row[2]][row[3]]
Shown == UNION {Public(ProjectAt(row)) : row \in {w \in PlanRows : ProjectAt(w) \notin ListedOnly}}

Read(row) == \E id \in {row, ProjectAt(row)} \cap DOMAIN run.read.projects :
                 run.read.projects[id] # FAILED_DETAIL

\* A run that says there was nothing, or that all is well, has read every
\* project of every page of every URL and leaves no wanted document of
\* their detail pages behind (app/service.py _extract_files: nothing found
\* and not readable are told apart).
NothingHidden ==
    /\ run.outcome \in {"NO_MATCH", "SUCCESS"} /\ run.plan.search =>
           \A row \in PlanRows : Read(row)
    /\ run.outcome = "NO_MATCH" => Shown \cap Wanted = {}
    /\ run.outcome = "SUCCESS" =>
           /\ Shown \cap Wanted \subseteq ToSet(run.files)
           /\ ToSet(run.tasks) \subseteq {"completed", "skipped"}

\* The summary calls the search complete only if every project was read
\* (core/scraper.py, complete; app/service.py add_failure).
CompleteIsTrue ==
    run.stage \in {"extracted", "filter", "download", "done"} /\ run.complete
        /\ run.url > Len(run.plan.urls) /\ run.plan.search =>
            \A row \in PlanRows : Read(row)

\* The counts that are kept as projects are added and replaced are those of
\* the list (models/search_summary.py, upsert_project and merge).
SummaryCounted == \A s \in {run.here, run.read} : s.counts = Recount(s.projects)

\* No document is downloaded twice in one run, and once the downloads are
\* over no listed document is still called a target of them, nor one that
\* was not even looked at: a success leaves none failed, none cancelled
\* (app/service.py, _deduplicate_files, _apply_download_results).
DocumentsSettled ==
    /\ run.stage \in {"download", "done"} => IsInjective(Targets(run))
    /\ run.outcome \in {"SUCCESS", "PARTIAL", "NO_MATCH"} =>
           \A d \in DOMAIN run.decided : run.decided[d] \notin {"DOWNLOAD_TARGET", "NOT_EVALUATED"}
    /\ run.outcome = "SUCCESS" =>
           \A d \in DOMAIN run.decided : run.decided[d] \notin {"FAILED", "CANCELLED"}
    /\ run.outcome = "SUCCESS" /\ run.plan.search =>
           \A d \in Shown \cap Wanted : run.decided[d] \in {"DOWNLOADED", "REUSED"}

\* What the run reports is true: nothing that it found, or could not read, is passed
\* over in silence, its counts are those of its list, and every document is settled.
OutcomeTrue ==
  /\ SummaryCounted
  /\ DocumentsSettled
  /\ NothingHidden
  /\ CompleteIsTrue

=============================================================================
