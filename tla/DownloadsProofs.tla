--------------------------- MODULE DownloadsProofs ----------------------------
(***************************************************************************)
(* Proofs about Downloads, for any documents, naming plans, sites, hands   *)
(* of the user, failures of the network and of the disk and deaths of the  *)
(* program: a place changes only by a whole document, what a run keeps is  *)
(* what the site lists, and a repeated run fetches nothing.                *)
(***************************************************************************)
EXTENDS Downloads, FiniteSetTheorems, TLAPS

Size == Cardinality(Doc)

-----------------------------------------------------------------------------
(* The inductive invariant *)

\* The types of the run, of the call and of what the fetch has replaced.
RunOK ==
  /\ run \in [pc : {"idle", "next", "fetch"}, order : Order \cup {None}, plan : Plans \cup {None},
              policy : Policies \cup {None}, i : 0..Size + 1, listed : [Doc -> 0..MaxChange] \cup {None},
              target : [Doc -> Path \cup {None}] \cup {None}, quiet : BOOLEAN]
  /\ Running =>
       /\ run.order \in Order /\ run.plan \in Plans /\ run.i \in 1..Size + 1
       /\ run.listed \in [Doc -> 0..MaxChange] /\ run.target \in [Doc -> Path \cup {None}]
       /\ \A d \in Doc : run.plan[d] # None => run.target[d] \in Path
  /\ run.pc = "fetch" => run.i <= Size

HttpOK ==
  http \in [step : {"idle", "attempt", "request", "body", "whole", "wait", "end"},
            doc : Doc \cup {None}, path : Path \cup {None}, attempt : Nat,
            content : Content \cup {None}, before : Content \cup {None},
            result : {None, "SUCCESS", "FAILED", "CANCELLED"}, dirty : BOOLEAN]

\* The site's revisions are counted with the changes.
SiteOK == \A d \in Doc : site[d] <= changes

\* A call is in progress exactly while the run fetches, for the run's current document.
\* What the body holds is that document, in the revision that the site has now unless
\* the site has changed it since the request.
FetchOK ==
  /\ run.pc # "fetch" => http = NoCall
  /\ run.pc = "fetch" =>
       /\ http.step # "idle" /\ http.doc \in Doc /\ http.doc = Current /\ http.path \in Path
       /\ run.plan[http.doc] # None
       /\ http.step # "end" => http.result = None /\ file[http.path] = http.before
       /\ http.step = "end" => http.result # None
       /\ http.step \in {"body", "whole"} => http.content # None
       /\ http.content # None => /\ http.content.doc = http.doc
                                 /\ http.doc \in raced \/ http.content.rev = site[http.doc]
       /\ http.step = "end" /\ http.result = "SUCCESS" =>
            http.content # None /\ file[http.path] = http.content

\* The documents before the current one have been answered for.
AnsweredOK ==
  Running => \A j \in 1..run.i - 1 : result[run.order[j]] \in {"completed", "skipped", "failed"}

\* A line that tells of a success tells of its own document, and of a revision that is
\* as new as the line says, unless the site has changed the document during a fetch.
LineTrue(rec, d) ==
  rec # None /\ rec.status = "SUCCESS" =>
    /\ rec.content # None /\ rec.content.doc = d
    /\ d \in raced \/ rec.content.rev >= rec.seen

IndexTrue(ix) ==
  \A d \in Doc : LineTrue(ix.latest[d], d) /\ \A t \in Path : LineTrue(ix.exact[<<d, t>>], d)

LinesTrue == IndexTrue(disk) /\ IndexTrue(mem)

\* A line that a later run will find and keep, for a document planned at place t.
Good(ix, d, t) ==
  LET rec == ix.exact[<<d, t>>]
  IN  /\ rec # None /\ rec.status = "SUCCESS" /\ rec.path \in Path
      /\ d \in Dated => rec.seen >= site[d]
      /\ rec.content # None /\ file[rec.path] = rec.content
      /\ ~(rec.alias /\ rec.path.name \in Unresolved /\ t.name \notin Unresolved)

\* The document's own place is looked at only past a file nobody knows at the plain one.
Strange(ix, d, t) == ix.exact[<<d, t>>] = None /\ file[t] # None

InPlace(ix, order, plan, d) ==
  LET t == Targets(order, plan)[d]
  IN  /\ plan[d] # None
      /\ Good(ix, d, t) \/ (Strange(ix, d, t) /\ Good(ix, d, Own(plan[d], d)))

\* While nothing has changed, the documents answered for are in place and stay there.
Replacing == run.pc = "fetch" /\ http.result = "SUCCESS" /\ owned.held # None

EarlierInPlace ==
  Replacing \/ \A j \in 1..run.i - 1 : InPlace(disk, run.order, run.plan, run.order[j])

\* The place of a document is as planned until its turn comes.
LaterAsPlanned ==
  \A j \in run.i..Size : run.pc = "next" \/ j > run.i =>
    run.target[run.order[j]] = Targets(run.order, run.plan)[run.order[j]]

CurrentAsPlanned ==
  run.pc = "fetch" =>
    LET d == Current t == Targets(run.order, run.plan)[d]
    IN  \/ run.target[d] = t
        \/ run.target[d] = Own(run.plan[d], d) /\ Strange(disk, d, t)

SettledOK ==
  settled # None =>
    /\ settled \in Order \X Plans
    /\ ~Running => \A d \in Doc : InPlace(disk, settled[1], settled[2], d)
    /\ Running => /\ settled = <<run.order, run.plan>> /\ mem = disk /\ run.listed = site
                  /\ EarlierInPlace /\ LaterAsPlanned /\ CurrentAsPlanned

\* In a run that nothing disturbs every document is in place from the start.
QuietOK ==
  Running /\ run.quiet =>
    /\ run.pc = "next" /\ run.policy = "REUSE" /\ run.listed = site
    /\ run.target = Targets(run.order, run.plan)
    /\ \A d \in Doc : InPlace(mem, run.order, run.plan, d)

IInv ==
  /\ TypeOK /\ RunOK /\ HttpOK /\ SiteOK /\ FetchOK /\ FetchIsAtomic /\ AnsweredOK
  /\ LinesTrue /\ SettledOK /\ QuietOK

-----------------------------------------------------------------------------
(* Lemmas about the places and the lookups *)

LEMMA SizeIsNat == Size \in Nat
BY FS_CardinalityType, DownloadsAssumption DEF Size

\* A place of a resolved name is a path.
LEMMA PlacesArePaths ==
  ASSUME NEW n \in Name, NEW d \in Doc
  PROVE  Plain(n) \in Path /\ Own(n, d) \in Path
BY DownloadsAssumption DEF Plain, Own

LEMMA PlanOK ==
  ASSUME NEW plan \in Plans, NEW d \in Doc
  PROVE  plan[d] \in Name \cup {None}
BY DownloadsAssumption

\* The plan gives every document with a name a place.
LEMMA TargetsOK ==
  ASSUME NEW order, NEW plan \in Plans
  PROVE  /\ Targets(order, plan) \in [Doc -> Path \cup {None}]
         /\ \A d \in Doc : plan[d] # None => Targets(order, plan)[d] \in Path
BY PlacesArePaths, PlanOK DEF Targets

\* What a line says when it is looked up.
LEMMA EvaluateOK ==
  ASSUME NEW rec \in Lines, NEW d \in Doc, NEW alias \in BOOLEAN
  PROVE  LET look == Evaluate(rec, d, alias)
         IN  /\ look.path \in Path \cup {None}
             /\ look.match = (/\ rec.status = "SUCCESS" /\ (d \in Dated => Fresh(rec, d))
                              /\ file[rec.path] = rec.content)
             /\ look.match \in BOOLEAN
             /\ look.match => /\ look.path = rec.path /\ look.rec = rec /\ look.needs = alias
                              /\ look.alias = (alias \/ rec.alias) /\ look.has
             /\ ~alias => look.has
             /\ look.has \in BOOLEAN
BY DEF Evaluate, NoLookup, Lines

\* A line that matches tells of a success, is fresh and tells of the file that is there.
LEMMA MatchOK ==
  ASSUME NEW rec \in Lines, NEW d \in Doc, NEW alias \in BOOLEAN,
         NEW look, look = Evaluate(rec, d, alias), look.match
  PROVE  /\ rec.status = "SUCCESS" /\ (d \in Dated => Fresh(rec, d)) /\ file[rec.path] = rec.content
         /\ look.path = rec.path /\ look.rec = rec /\ look.needs = alias
         /\ look.alias = (alias \/ rec.alias)
<1>1. CASE rec.status # "SUCCESS" \/ (d \in Dated /\ ~Fresh(rec, d))
  <2>1. look.match = FALSE
    BY <1>1 DEF Evaluate, NoLookup
  <2> QED
    BY <2>1
<1>2. CASE ~(rec.status # "SUCCESS" \/ (d \in Dated /\ ~Fresh(rec, d))) /\ file[rec.path] # rec.content
  <2>1. look.match = FALSE
    BY <1>2 DEF Evaluate, NoLookup
  <2> QED
    BY <2>1
<1>3. CASE ~(rec.status # "SUCCESS" \/ (d \in Dated /\ ~Fresh(rec, d))) /\ file[rec.path] = rec.content
  <2>1. look = [has |-> TRUE, path |-> rec.path, match |-> TRUE, invalid |-> FALSE,
                alias |-> alias \/ rec.alias, needs |-> alias, rec |-> rec]
    BY <1>3 DEF Evaluate
  <2> QED
    BY <1>3, <2>1
<1> QED
  BY <1>1, <1>2, <1>3

LEMMA LookupExactOK ==
  ASSUME mem.exact \in [Doc \X Path -> Lines \cup {None}], NEW d \in Doc, NEW t \in Path
  PROVE  LET rec == mem.exact[<<d, t>>] look == LookupExact(d, t)
         IN  /\ rec = None => look = NoLookup
             /\ rec # None => rec \in Lines /\ look = Evaluate(rec, d, FALSE)
             /\ Nothing(look) = (rec = None)
<1> DEFINE rec == mem.exact[<<d, t>>]
<1>1. rec \in Lines \cup {None}
  OBVIOUS
<1>2. CASE rec = None
  BY <1>2 DEF LookupExact, Nothing, NoLookup
<1>3. CASE rec # None
  <2>1. rec \in Lines /\ LookupExact(d, t) = Evaluate(rec, d, FALSE)
    BY <1>1, <1>3 DEF LookupExact
  <2>2. Evaluate(rec, d, FALSE).has
    BY <2>1, EvaluateOK
  <2> QED
    BY <1>3, <2>1, <2>2 DEF Nothing
<1> QED
  BY <1>2, <1>3

LEMMA LookupAliasOK ==
  ASSUME mem.latest \in [Doc -> Lines \cup {None}], NEW d \in Doc
  PROVE  LET rec == mem.latest[d] look == LookupAlias(d)
         IN  \/ look = NoLookup
             \/ rec \in Lines /\ look = Evaluate(rec, d, TRUE) /\ d \in Dated /\ Fresh(rec, d)
BY DEF LookupAlias

\* Where a document goes, and on which line the decision rests.
LEMMA DecisionOK ==
  ASSUME mem.exact \in [Doc \X Path -> Lines \cup {None}], mem.latest \in [Doc -> Lines \cup {None}],
         NEW d \in Doc, run.plan[d] \in Name, run.target[d] \in Path
  PROVE  LET dec == Decision(d) t == run.target[d] own == Own(run.plan[d], d)
         IN  /\ dec.place \in Path /\ dec.look.path \in Path \cup {None}
             /\ dec.place = t \/ (dec.place = own /\ Strange(mem, d, t))
             /\ dec.look.match =>
                  \E rec \in Lines, alias \in BOOLEAN :
                    /\ rec = IF alias THEN mem.latest[d] ELSE mem.exact[<<d, dec.place>>]
                    /\ dec.look = Evaluate(rec, d, alias)
             /\ ~dec.look.match \/ dec.look.has
<1> DEFINE t == run.target[d]
           own == Own(run.plan[d], d)
           first == LookupExact(d, t)
           moved == Nothing(first) /\ file[t] # None
           place == IF moved THEN own ELSE t
           exact == IF moved THEN LookupExact(d, place) ELSE first
           dec == Decision(d)
<1>1. own \in Path /\ t \in Path /\ place \in Path
  BY PlacesArePaths
<1>2. dec.place = place /\ dec.look = IF Nothing(exact) THEN LookupAlias(d) ELSE exact
  BY DEF Decision
<1>3. exact = LookupExact(d, place)
  OBVIOUS
<1>4. place = t \/ (place = own /\ Strange(mem, d, t))
  BY LookupExactOK, <1>1 DEF Strange
<1>5. CASE Nothing(exact)
  <2>1. dec.look = LookupAlias(d)
    BY <1>2, <1>5
  <2>2. CASE LookupAlias(d) = NoLookup
    BY <1>1, <1>2, <1>4, <2>1, <2>2 DEF NoLookup
  <2>3. CASE LookupAlias(d) # NoLookup
    <3> DEFINE rec == mem.latest[d]
    <3>1. rec \in Lines /\ dec.look = Evaluate(rec, d, TRUE)
      BY <2>1, <2>3, LookupAliasOK
    <3>2. Evaluate(rec, d, TRUE).path \in Path \cup {None}
          /\ (Evaluate(rec, d, TRUE).match => Evaluate(rec, d, TRUE).has)
      BY <3>1, EvaluateOK
    <3> QED
      BY <1>1, <1>2, <1>4, <3>1, <3>2
  <2> QED
    BY <2>2, <2>3
<1>6. CASE ~Nothing(exact)
  <2> DEFINE rec == mem.exact[<<d, place>>]
  <2>1. rec \in Lines /\ dec.look = Evaluate(rec, d, FALSE)
    BY <1>1, <1>2, <1>3, <1>6, LookupExactOK
  <2>2. Evaluate(rec, d, FALSE).path \in Path \cup {None} /\ Evaluate(rec, d, FALSE).has
    BY <2>1, EvaluateOK
  <2> QED
    BY <1>1, <1>2, <1>4, <2>1, <2>2
<1> QED
  BY <1>5, <1>6

\* The document is saved at a path.
LEMMA SavePathOK ==
  ASSUME NEW d \in Doc, NEW dec, run.plan[d] \in Name, dec.place \in Path,
         dec.look.path \in Path \cup {None}
  PROVE  SavePath(dec, d) \subseteq Path
BY DEF SavePath, EnsureUnique, Free

\* A line that is appended is of the right shape and, if it is true, leaves the index true.
LEMMA PutOK ==
  ASSUME NEW d \in Doc, NEW t \in Path, NEW rec \in Lines, NEW ix,
         ix.exact \in [Doc \X Path -> Lines \cup {None}], ix.latest \in [Doc -> Lines \cup {None}]
  PROVE  /\ Put(ix, d, t, rec).exact \in [Doc \X Path -> Lines \cup {None}]
         /\ Put(ix, d, t, rec).latest \in [Doc -> Lines \cup {None}]
         /\ IndexTrue(ix) /\ LineTrue(rec, d) => IndexTrue(Put(ix, d, t, rec))
BY DEF Put, IndexTrue

-----------------------------------------------------------------------------
(* The steps of a run and of the world, without those of a call *)

\* None is no name, no line, no content and no string.
LEMMA NoneIsNothing ==
  /\ None \notin Name /\ None \notin Content /\ None \notin Lines /\ None \notin Order \X Plans
  /\ None \notin {"SUCCESS", "FAILED", "CANCELLED", "skipped"} /\ None \notin Path /\ None \notin Doc
BY DownloadsAssumption, HttpAssumption

LEMMA OrderOK ==
  ASSUME NEW o \in Order, NEW j \in 1..Size
  PROVE  o[j] \in Doc
BY DEF Order, Size

\* The order names every document.
LEMMA OrderNamesAll ==
  ASSUME NEW o \in Order, NEW d \in Doc
  PROVE  \E j \in 1..Size : o[j] = d
<1>1. IsFiniteSet(Doc) /\ Size \in Nat
  BY DownloadsAssumption, SizeIsNat
<1>2. o \in Injection(1..Size, Doc)
  BY DEF Order, Size, Injection, IsInjective
<1>3. Cardinality(1..Size) = Cardinality(Doc)
  BY <1>1, FS_Interval DEF Size
<1>4. o \in Surjection(1..Size, Doc)
  BY <1>1, <1>2, <1>3, FS_Injection
<1> QED
  BY <1>4 DEF Surjection

LEMMA InitIInv == Init => IInv
<1> SUFFICES ASSUME Init
             PROVE  IInv
  OBVIOUS
<1> USE DEF Init, InitHttp
<1> USE SizeIsNat
<1>1. TypeOK
  <2>1. MaxCopy \in Nat /\ MaxRun \in Nat /\ MaxChange \in Nat /\ MaxCrash \in Nat /\ MaxFault \in Nat
    BY DownloadsAssumption, HttpAssumption
  <2>2. /\ site \in [Doc -> 0..MaxChange] /\ file \in [Path -> Content \cup {None}]
        /\ part \subseteq Path /\ cancel \in BOOLEAN /\ torn \in BOOLEAN
        /\ run.pc \in {"idle", "next", "fetch"}
    <3>1. site \in [Doc -> 0..MaxChange] /\ file \in [Path -> Content \cup {None}]
      BY <2>1
    <3> QED
      BY <3>1 DEF NoRun
  <2>3. \A ix \in {disk, mem} : /\ ix.exact \in [Doc \X Path -> Lines \cup {None}]
                                /\ ix.latest \in [Doc -> Lines \cup {None}]
    BY DEF NoIndex
  <2> QED
    BY <2>1, <2>2, <2>3 DEF TypeOK
<1>2. RunOK /\ HttpOK
  BY DEF RunOK, HttpOK, NoRun, NoCall, Running
<1>3. SiteOK /\ FetchOK /\ FetchIsAtomic /\ AnsweredOK
  BY DEF SiteOK, FetchOK, FetchIsAtomic, AnsweredOK, NoRun, NoCall, Running
<1>4. LinesTrue
  BY DEF LinesTrue, IndexTrue, LineTrue, NoIndex
<1>5. SettledOK /\ QuietOK
  BY DEF SettledOK, QuietOK, NoRun, Running
<1> QED
  BY <1>1, <1>2, <1>3, <1>4, <1>5 DEF IInv

LEMMA CancelKeeps ==
  ASSUME IInv, Cancel \/ UNCHANGED vars
  PROVE  IInv'
<1>1. /\ UNCHANGED <<site, file, part, http, faults, downloadVars>>
      /\ cancel' \in {cancel, TRUE}
  BY DEF Cancel, vars, httpVars
<1> USE <1>1 DEF downloadVars
<1>2. TypeOK' /\ SiteOK' /\ HttpOK'
  <2>1. cancel' \in BOOLEAN
    BY <1>1 DEF IInv, TypeOK
  <2>2. SiteOK' /\ HttpOK'
    BY DEF IInv, SiteOK, HttpOK
  <2> QED
    BY <1>1, <2>1, <2>2 DEF IInv, TypeOK
<1>7. RunOK'
  BY DEF IInv, RunOK, Running
<1>3. FetchOK' /\ FetchIsAtomic' /\ AnsweredOK'
  BY DEF IInv, FetchOK, FetchIsAtomic, AnsweredOK, Running, Current, HttpAt
<1>4. LinesTrue'
  BY DEF IInv, LinesTrue, IndexTrue, LineTrue
<1>5. SettledOK'
  <2>1. SettledOK
    BY DEF IInv
  <2>2. /\ disk' = disk /\ mem' = mem /\ run' = run /\ settled' = settled /\ owned' = owned
        /\ site' = site /\ file' = file /\ http' = http
    OBVIOUS
  <2> QED
    <3>1. EarlierInPlace => EarlierInPlace'
      <4> SUFFICES ASSUME NEW j \in 1..run.i - 1, InPlace(disk, run.order, run.plan, run.order[j])
                   PROVE  InPlace(disk, run.order, run.plan, run.order[j])'
        BY <2>2 DEF EarlierInPlace, Replacing
      <4> QED
        BY <2>2 DEF InPlace, Good, Strange
    <3>2. (LaterAsPlanned => LaterAsPlanned') /\ (CurrentAsPlanned => CurrentAsPlanned')
      BY <2>2 DEF LaterAsPlanned, CurrentAsPlanned, Strange, Current
    <3>3. (\A d \in Doc : InPlace(disk, settled[1], settled[2], d))
          => (\A d \in Doc : InPlace(disk, settled[1], settled[2], d))'
      <4> SUFFICES ASSUME NEW d \in Doc, InPlace(disk, settled[1], settled[2], d)
                   PROVE  InPlace(disk, settled[1], settled[2], d)'
        BY <2>2
      <4> QED
        BY <2>2 DEF InPlace, Good, Strange
    <3> QED
      BY <2>1, <2>2, <3>1, <3>2, <3>3 DEF SettledOK, Running
<1>6. QuietOK'
  <2>1. QuietOK
    BY DEF IInv
  <2>2. /\ mem' = mem /\ run' = run /\ site' = site /\ file' = file
    OBVIOUS
  <2> SUFFICES ASSUME Running, run.quiet
               PROVE  QuietOK'
    BY <2>2 DEF QuietOK, Running
  <2>3. ASSUME NEW d \in Doc
        PROVE  InPlace(mem, run.order, run.plan, d)'
    <3>1. InPlace(mem, run.order, run.plan, d)
      BY <2>1 DEF QuietOK
    <3> QED
      BY <2>2, <3>1 DEF InPlace, Good, Strange
  <2> QED
    BY <2>1, <2>2, <2>3 DEF QuietOK, Running
<1> QED
  BY <1>2, <1>3, <1>4, <1>5, <1>6, <1>7 DEF IInv

LEMMA StartKeeps ==
  ASSUME IInv, NEW order \in Order, NEW plan \in Plans, NEW policy \in Policies,
         Start(order, plan, policy)
  PROVE  IInv'
<1> USE SizeIsNat
<1>1. /\ ~Running /\ UNCHANGED <<site, file, part, http, faults, disk, torn, changes, crashes, raced>>
      /\ runs < MaxRun /\ runs' = runs + 1 /\ mem' = disk /\ cancel' = FALSE /\ owned' = None
      /\ result' = [d \in Doc |-> None] /\ at' = [d \in Doc |-> None] /\ settled' = <<order, plan>>
      /\ run' = [pc |-> "next", order |-> order, plan |-> plan, policy |-> policy, i |-> 1,
                 listed |-> site, target |-> Targets(order, plan),
                 quiet |-> policy = "REUSE" /\ settled = <<order, plan>>]
  BY DEF Start
<1>2. TypeOK' /\ HttpOK' /\ SiteOK'
  <2>1. runs' \in 0..MaxRun
    BY <1>1, DownloadsAssumption DEF IInv, TypeOK
  <2>2. mem'.exact \in [Doc \X Path -> Lines \cup {None}] /\ mem'.latest \in [Doc -> Lines \cup {None}]
    BY <1>1 DEF IInv, TypeOK
  <2>3. run'.pc = "next"
    BY <1>1
  <2> QED
    BY <1>1, <2>1, <2>2, <2>3, ZenonT(40) DEF IInv, TypeOK, HttpOK, SiteOK
<1>3. RunOK'
  <2>1. site \in [Doc -> 0..MaxChange]
    BY DEF IInv, TypeOK
  <2>2. (policy = "REUSE" /\ settled = <<order, plan>>) \in BOOLEAN
    OBVIOUS
  <2> QED
    BY <1>1, <2>1, <2>2, TargetsOK DEF RunOK, Running
<1>4. FetchOK' /\ FetchIsAtomic' /\ AnsweredOK'
  BY <1>1 DEF IInv, FetchOK, FetchIsAtomic, AnsweredOK, Running, HttpAt
<1>5. LinesTrue'
  BY <1>1 DEF IInv, LinesTrue, IndexTrue, LineTrue
<1>6. SettledOK'
  BY <1>1 DEF SettledOK, EarlierInPlace, LaterAsPlanned, CurrentAsPlanned, Running, Replacing
<1>7. QuietOK'
  <2> SUFFICES ASSUME run'.quiet
               PROVE  QuietOK'
    BY DEF QuietOK
  <2>1. policy = "REUSE" /\ settled = <<order, plan>>
    BY <1>1
  <2>2. settled # None
    BY <2>1, NoneIsNothing
  <2>3. \A d \in Doc : InPlace(disk, order, plan, d)
    BY <1>1, <2>1, <2>2 DEF IInv, SettledOK
  <2>4. ASSUME NEW d \in Doc
        PROVE  InPlace(mem, run.order, run.plan, d)'
    <3>1. InPlace(disk, order, plan, d)
      BY <2>3
    <3> QED
      BY <1>1, <3>1 DEF InPlace, Good, Strange
  <2> QED
    BY <1>1, <2>1, <2>4 DEF QuietOK
<1> QED
  BY <1>2, <1>3, <1>4, <1>5, <1>6, <1>7 DEF IInv

\* A step that ends the run, or leaves nothing settled, keeps what it does not touch.
LEMMA CancelledFromOK ==
  ASSUME TypeOK, NEW i
  PROVE  CancelledFrom(result, i) \in [Doc -> {None, "completed", "skipped", "failed", "cancelled"}]
BY DEF CancelledFrom, TypeOK

LEMMA StoppedKeeps ==
  ASSUME IInv, Stopped
  PROVE  IInv'
<1> USE SizeIsNat
<1>1. /\ UNCHANGED <<site, file, part, http, cancel, faults, disk, torn, mem, at, runs, changes,
                     crashes, raced, owned>>
      /\ run.pc = "next" /\ run' = [run EXCEPT !.pc = "idle"] /\ settled' = None
      /\ result' = CancelledFrom(result, run.i)
  BY DEF Stopped, More, httpVars
<1>2. TypeOK' /\ HttpOK' /\ SiteOK'
  BY <1>1, CancelledFromOK DEF IInv, TypeOK, HttpOK, SiteOK, RunOK
<1>3. RunOK'
  BY <1>1 DEF IInv, RunOK, Running
<1>4. run'.pc = "idle"
  BY <1>1 DEF IInv, RunOK
<1>5. FetchOK' /\ FetchIsAtomic' /\ AnsweredOK'
  BY <1>1, <1>4 DEF IInv, FetchOK, FetchIsAtomic, AnsweredOK, Running, HttpAt
<1>6. LinesTrue'
  BY <1>1 DEF IInv, LinesTrue, IndexTrue, LineTrue
<1>7. SettledOK' /\ QuietOK'
  BY <1>1, <1>4 DEF SettledOK, QuietOK, Running
<1> QED
  BY <1>2, <1>3, <1>5, <1>6, <1>7 DEF IInv

LEMMA FinishedKeeps ==
  ASSUME IInv, Finished
  PROVE  IInv'
<1> USE SizeIsNat
<1>1. /\ UNCHANGED <<site, file, part, http, cancel, faults, disk, torn, mem, result, at, runs,
                     changes, crashes, raced, settled, owned>>
      /\ run.pc = "next" /\ run.i > Size /\ run' = [run EXCEPT !.pc = "idle"]
  BY DEF Finished, httpVars, Size
<1>2. TypeOK' /\ HttpOK' /\ SiteOK'
  BY <1>1 DEF IInv, TypeOK, HttpOK, SiteOK, RunOK
<1>3. RunOK'
  BY <1>1 DEF IInv, RunOK, Running
<1>4. run'.pc = "idle"
  BY <1>1 DEF IInv, RunOK
<1>5. FetchOK' /\ FetchIsAtomic' /\ AnsweredOK' /\ QuietOK'
  BY <1>1, <1>4 DEF IInv, FetchOK, FetchIsAtomic, AnsweredOK, Running, HttpAt, QuietOK
<1>6. LinesTrue'
  BY <1>1 DEF IInv, LinesTrue, IndexTrue, LineTrue
<1>7. SettledOK'
  <2> SUFFICES ASSUME settled # None
               PROVE  SettledOK'
    BY <1>1 DEF SettledOK
  <2>1. /\ settled \in Order \X Plans /\ settled = <<run.order, run.plan>>
        /\ \A j \in 1..run.i - 1 : InPlace(disk, run.order, run.plan, run.order[j])
    BY <1>1 DEF IInv, SettledOK, EarlierInPlace, Running, Replacing
  <2>2. run.i - 1 = Size /\ run.order \in Order
    BY <1>1 DEF IInv, RunOK, Running
  <2>3. \A d \in Doc : InPlace(disk, settled[1], settled[2], d)
    BY <2>1, <2>2, OrderNamesAll
  <2>4. ASSUME NEW d \in Doc
        PROVE  InPlace(disk, settled[1], settled[2], d)'
    <3>1. InPlace(disk, settled[1], settled[2], d)
      BY <2>3
    <3> QED
      BY <1>1, <3>1 DEF InPlace, Good, Strange
  <2> QED
    BY <1>1, <1>4, <2>1, <2>4 DEF SettledOK, Running
<1> QED
  BY <1>2, <1>3, <1>5, <1>6, <1>7 DEF IInv

LEMMA CrashKeeps ==
  ASSUME IInv, Crash
  PROVE  IInv'
<1> USE SizeIsNat
<1>1. /\ UNCHANGED <<site, file, part, cancel, faults, disk, result, at, runs, changes, raced, owned>>
      /\ crashes < MaxCrash /\ crashes' = crashes + 1 /\ torn' \in {torn, Returned}
      /\ run' = [run EXCEPT !.pc = "idle"] /\ http' = NoCall /\ mem' = NoIndex /\ settled' = None
  BY DEF Crash
<1>2. TypeOK' /\ SiteOK'
  <2>1. torn' \in BOOLEAN
    BY <1>1 DEF IInv, TypeOK, Returned, HttpAt
  <2>2. mem'.exact \in [Doc \X Path -> Lines \cup {None}] /\ mem'.latest \in [Doc -> Lines \cup {None}]
    BY <1>1 DEF NoIndex
  <2>3. run'.pc = "idle"
    BY <1>1 DEF IInv, RunOK
  <2> QED
    BY <1>1, <2>1, <2>2, <2>3, DownloadsAssumption DEF IInv, TypeOK, SiteOK
<1>3. RunOK' /\ HttpOK' /\ run'.pc = "idle"
  BY <1>1 DEF IInv, RunOK, Running, HttpOK, NoCall
<1>5. FetchOK' /\ FetchIsAtomic' /\ AnsweredOK'
  BY <1>1, <1>3 DEF FetchOK, FetchIsAtomic, AnsweredOK, Running, NoCall, HttpAt
<1>6. LinesTrue'
  BY <1>1 DEF IInv, LinesTrue, IndexTrue, LineTrue, NoIndex
<1>7. SettledOK' /\ QuietOK'
  BY <1>1, <1>3 DEF SettledOK, QuietOK, Running
<1> QED
  BY <1>2, <1>3, <1>5, <1>6, <1>7 DEF IInv

LEMMA UpdateKeeps ==
  ASSUME IInv, NEW d \in Doc, Update(d)
  PROVE  IInv'
<1> USE SizeIsNat
<1>1. /\ UNCHANGED <<file, part, http, cancel, faults, disk, torn, mem, result, at, runs, crashes, owned>>
      /\ changes < MaxChange /\ changes' = changes + 1 /\ site' = [site EXCEPT ![d] = @ + 1]
      /\ raced' = IF run.pc = "fetch" /\ http.doc = d THEN raced \cup {d} ELSE raced
      /\ settled' = None /\ run' = [run EXCEPT !.quiet = FALSE]
  BY DEF Update, Changed
<1>2. run'.pc = run.pc /\ run'.quiet = FALSE /\ run'.order = run.order /\ run'.i = run.i
      /\ run'.plan = run.plan
  BY <1>1 DEF IInv, RunOK
<1>3. TypeOK' /\ SiteOK' /\ HttpOK'
  <2>1. SiteOK' /\ HttpOK'
    BY <1>1 DEF IInv, TypeOK, SiteOK, HttpOK
  <2>2. site[d] \in Nat /\ site[d] <= changes /\ changes' \in 0..MaxChange
    BY <1>1, DownloadsAssumption DEF IInv, TypeOK, SiteOK
  <2>3. site' \in [Doc -> 0..MaxChange]
    <3>1. site[d] + 1 \in 0..MaxChange
      BY <1>1, <2>2, DownloadsAssumption DEF IInv, TypeOK
    <3> QED
      BY <1>1, <3>1 DEF IInv, TypeOK
  <2>4. raced' \subseteq Doc
    BY <1>1 DEF IInv, TypeOK
  <2> QED
    BY <1>1, <1>2, <2>1, <2>2, <2>3, <2>4 DEF IInv, TypeOK
<1>4. RunOK'
  BY <1>1 DEF IInv, RunOK, Running
<1>5. FetchOK'
  <2>1. CASE run.pc # "fetch"
    BY <1>1, <1>2, <2>1 DEF IInv, FetchOK
  <2>2. CASE run.pc = "fetch"
    <3>1. http.content # None => \/ http.doc \in raced'
                                 \/ http.content.rev = site'[http.doc]
      BY <1>1, <2>2 DEF IInv, FetchOK, TypeOK
    <3> QED
      BY <1>1, <1>2, <2>2, <3>1 DEF IInv, FetchOK, Current
  <2> QED
    BY <2>1, <2>2
<1>6. FetchIsAtomic' /\ AnsweredOK'
  BY <1>1, <1>2 DEF IInv, FetchIsAtomic, AnsweredOK, Running, HttpAt
<1>7. LinesTrue'
  BY <1>1 DEF IInv, LinesTrue, IndexTrue, LineTrue
<1>8. SettledOK' /\ QuietOK'
  BY <1>1, <1>2 DEF SettledOK, QuietOK
<1> QED
  BY <1>3, <1>4, <1>5, <1>6, <1>7, <1>8 DEF IInv

LEMMA RemoveKeeps ==
  ASSUME IInv, NEW p \in Path, Remove(p)
  PROVE  IInv'
<1> USE SizeIsNat
<1>1. /\ UNCHANGED <<site, part, http, cancel, faults, disk, torn, mem, result, at, runs, crashes,
                     raced, owned>>
      /\ changes < MaxChange /\ changes' = changes + 1 /\ file' = [file EXCEPT ![p] = None]
      /\ ~(run.pc = "fetch" /\ http.path = p)
      /\ settled' = None /\ run' = [run EXCEPT !.quiet = FALSE]
  BY DEF Remove, Changed
<1>2. run'.pc = run.pc /\ run'.quiet = FALSE /\ run'.order = run.order /\ run'.i = run.i
      /\ run'.plan = run.plan
  BY <1>1 DEF IInv, RunOK
<1>3. TypeOK' /\ SiteOK' /\ HttpOK'
  <2>1. SiteOK' /\ HttpOK' /\ changes' \in 0..MaxChange
    BY <1>1, DownloadsAssumption DEF IInv, TypeOK, SiteOK, HttpOK
  <2>2. file' \in [Path -> Content \cup {None}]
    BY <1>1 DEF IInv, TypeOK
  <2> QED
    BY <1>1, <1>2, <2>1, <2>2 DEF IInv, TypeOK
<1>4. RunOK'
  BY <1>1 DEF IInv, RunOK, Running
<1>5. FetchOK' /\ FetchIsAtomic'
  <2>1. CASE run.pc # "fetch"
    BY <1>1, <1>2, <2>1 DEF IInv, FetchOK, FetchIsAtomic, HttpAt, NoCall
  <2>2. CASE run.pc = "fetch"
    <3>1. file'[http.path] = file[http.path]
      BY <1>1, <2>2 DEF IInv, FetchOK, TypeOK
    <3> QED
      BY <1>1, <1>2, <2>2, <3>1 DEF IInv, FetchOK, FetchIsAtomic, HttpAt, Current
  <2> QED
    BY <2>1, <2>2
<1>6. AnsweredOK'
  BY <1>1, <1>2 DEF IInv, AnsweredOK, Running
<1>7. LinesTrue'
  BY <1>1 DEF IInv, LinesTrue, IndexTrue, LineTrue
<1>8. SettledOK' /\ QuietOK'
  BY <1>1, <1>2 DEF SettledOK, QuietOK
<1> QED
  BY <1>3, <1>4, <1>5, <1>6, <1>7, <1>8 DEF IInv

\* What holds when the run turns to its next document.
LEMMA AtDocument ==
  ASSUME IInv, More
  PROVE  /\ run.pc = "next" /\ run.i \in 1..Size /\ Current \in Doc /\ Running
         /\ run.order \in Order /\ run.plan \in Plans /\ run.plan[Current] \in Name \cup {None}
         /\ run.target \in [Doc -> Path \cup {None}]
         /\ run.plan[Current] # None => run.target[Current] \in Path
         /\ http = NoCall
         /\ mem.exact \in [Doc \X Path -> Lines \cup {None}]
         /\ mem.latest \in [Doc -> Lines \cup {None}]
         /\ \A j \in 1..Size : j # run.i => run.order[j] # Current
<1> USE SizeIsNat
<1>1. run.pc = "next" /\ run.i <= Size /\ Running
  BY DEF More, Size, Running
<1>2. run.i \in 1..Size /\ run.order \in Order /\ run.plan \in Plans
      /\ run.target \in [Doc -> Path \cup {None}]
      /\ \A d \in Doc : run.plan[d] # None => run.target[d] \in Path
  BY <1>1 DEF IInv, RunOK
<1>3. Current \in Doc
  BY <1>2, OrderOK DEF Current
<1>4. \A j \in 1..Size : j # run.i => run.order[j] # Current
  BY <1>2 DEF Current, Order, Size
<1>5. http = NoCall
  BY <1>1 DEF IInv, FetchOK
<1>6. mem.exact \in [Doc \X Path -> Lines \cup {None}] /\ mem.latest \in [Doc -> Lines \cup {None}]
  BY DEF IInv, TypeOK
<1> QED
  BY <1>1, <1>2, <1>3, <1>4, <1>5, <1>6, PlanOK

\* A document gets its answer and the run goes on.
LEMMA AnswerOK ==
  ASSUME IInv, Running, run.i \in 1..Size, NEW r \in {"completed", "skipped", "failed"},
         NEW d \in Doc, d = Current, result' = [result EXCEPT ![d] = r], NextDocument
  PROVE  /\ result' \in [Doc -> {None, "completed", "skipped", "failed", "cancelled"}]
         /\ RunOK' /\ AnsweredOK' /\ run'.pc = "next" /\ run'.i = run.i + 1
         /\ run'.order = run.order /\ run'.plan = run.plan /\ run'.target = run.target
         /\ run'.listed = run.listed /\ run'.quiet = run.quiet /\ run'.policy = run.policy
<1> USE SizeIsNat
<1>1. run' = [run EXCEPT !.pc = "next", !.i = @ + 1]
  BY DEF NextDocument
<1>2. /\ run'.pc = "next" /\ run'.i = run.i + 1
      /\ run'.order = run.order /\ run'.plan = run.plan /\ run'.target = run.target
      /\ run'.listed = run.listed /\ run'.quiet = run.quiet /\ run'.policy = run.policy
  BY <1>1 DEF IInv, RunOK
<1>3. result' \in [Doc -> {None, "completed", "skipped", "failed", "cancelled"}]
  BY DEF IInv, TypeOK
<1>4. RunOK'
  <2>1. run'.i \in 1..Size + 1 /\ run'.i \in 0..Size + 1
    BY <1>2
  <2>2. run' \in [pc : {"idle", "next", "fetch"}, order : Order \cup {None}, plan : Plans \cup {None},
                 policy : Policies \cup {None}, i : 0..Size + 1,
                 listed : [Doc -> 0..MaxChange] \cup {None},
                 target : [Doc -> Path \cup {None}] \cup {None}, quiet : BOOLEAN]
    BY <1>1, <1>2, <2>1 DEF IInv, RunOK
  <2>3. /\ run.order \in Order /\ run.plan \in Plans
        /\ run.listed \in [Doc -> 0..MaxChange] /\ run.target \in [Doc -> Path \cup {None}]
        /\ \A e \in Doc : run.plan[e] # None => run.target[e] \in Path
    BY DEF IInv, RunOK
  <2> QED
    BY <1>2, <2>1, <2>2, <2>3 DEF RunOK
<1>5. AnsweredOK'
  <2> SUFFICES ASSUME NEW j \in 1..run.i
               PROVE  result'[run.order[j]] \in {"completed", "skipped", "failed"}
    BY <1>2 DEF AnsweredOK
  <2>1. run.order[j] \in Doc
    BY OrderOK DEF IInv, RunOK
  <2>2. CASE j = run.i
    BY <2>1, <2>2 DEF IInv, TypeOK, Current
  <2>3. CASE j # run.i
    <3>1. result[run.order[j]] \in {"completed", "skipped", "failed"}
      BY <2>3 DEF IInv, AnsweredOK
    <3> QED
      BY <2>1, <3>1 DEF IInv, TypeOK
  <2> QED
    BY <2>2, <2>3
<1> QED
  BY <1>2, <1>3, <1>4, <1>5

\* A quiet run in which the history, the files and the site stay remains quiet.
LEMMA QuietStays ==
  ASSUME QuietOK, Running, run'.pc = "next", UNCHANGED <<site, file, mem>>,
         run'.order = run.order, run'.plan = run.plan, run'.target = run.target,
         run'.listed = run.listed, run'.quiet = run.quiet, run'.policy = run.policy
  PROVE  QuietOK'
<1> SUFFICES ASSUME run.quiet
             PROVE  QuietOK'
  BY DEF QuietOK
<1>1. /\ run.policy = "REUSE" /\ run.listed = site /\ run.target = Targets(run.order, run.plan)
      /\ \A d \in Doc : InPlace(mem, run.order, run.plan, d)
  BY DEF QuietOK
<1>2. \A d \in Doc : InPlace(mem, run.order, run.plan, d)'
  <2> SUFFICES ASSUME NEW d \in Doc, InPlace(mem, run.order, run.plan, d)
               PROVE  InPlace(mem, run.order, run.plan, d)'
    BY <1>1
  <2> QED
    BY DEF InPlace, Good, Strange
<1> QED
  BY <1>1, <1>2 DEF QuietOK

LEMMA NamingFailsKeeps ==
  ASSUME IInv, NamingFails
  PROVE  IInv'
<1> USE SizeIsNat
<1>1. /\ UNCHANGED <<site, file, part, http, cancel, faults, disk, torn, mem, runs, changes,
                     crashes, raced, owned>>
      /\ More /\ settled' = None /\ NextDocument
      /\ result' = [result EXCEPT ![Current] = "failed"] /\ at' = [at EXCEPT ![Current] = None]
  BY DEF NamingFails, Answer, httpVars
<1>2. /\ RunOK' /\ AnsweredOK' /\ run'.pc = "next"
      /\ result' \in [Doc -> {None, "completed", "skipped", "failed", "cancelled"}]
      /\ run'.order = run.order /\ run'.plan = run.plan /\ run'.target = run.target
      /\ run'.listed = run.listed /\ run'.quiet = run.quiet /\ run'.policy = run.policy
  BY <1>1, AtDocument, AnswerOK
<1>3. TypeOK' /\ SiteOK' /\ HttpOK'
  <2>1. at' \in [Doc -> Path \cup {None}]
    BY <1>1 DEF IInv, TypeOK
  <2> QED
    BY <1>1, <1>2, <2>1 DEF IInv, TypeOK, SiteOK, HttpOK
<1>4. FetchOK' /\ FetchIsAtomic'
  BY <1>1, <1>2, AtDocument DEF IInv, FetchOK, FetchIsAtomic, HttpAt
<1>5. LinesTrue'
  BY <1>1 DEF IInv, LinesTrue, IndexTrue, LineTrue
<1>6. SettledOK'
  BY <1>1 DEF SettledOK
<1>7. QuietOK'
  BY <1>1, <1>2, AtDocument, QuietStays DEF IInv
<1> QED
  BY <1>2, <1>3, <1>4, <1>5, <1>6, <1>7 DEF IInv

-----------------------------------------------------------------------------
(* The history: lines that are appended, and documents that are in place *)

\* Appending a true line of the right shape keeps the indexes typed and true.
LEMMA AppendKeeps ==
  ASSUME TypeOK, LinesTrue, raced' = raced, NEW d \in Doc, NEW t \in Path, NEW rec \in Lines,
         LineTrue(rec, d), AppendRecord(d, t, rec)
  PROVE  /\ faults' \in 0..MaxFault /\ torn' \in BOOLEAN
         /\ \A ix \in {disk', mem'} : /\ ix.exact \in [Doc \X Path -> Lines \cup {None}]
                                      /\ ix.latest \in [Doc -> Lines \cup {None}]
         /\ LinesTrue'
         /\ faults' = faults /\ ~torn /\ mem = disk =>
              mem' = Put(disk, d, t, rec) /\ disk' = Put(disk, d, t, rec)
<1>0. faults \in 0..MaxFault /\ MaxFault \in Nat /\ torn \in BOOLEAN
  BY HttpAssumption DEF TypeOK
<1>1. \A ix \in {disk, mem} : /\ ix.exact \in [Doc \X Path -> Lines \cup {None}]
                              /\ ix.latest \in [Doc -> Lines \cup {None}] /\ IndexTrue(ix)
  BY DEF TypeOK, LinesTrue
<1>2. CASE /\ disk' = IF torn THEN disk ELSE Put(disk, d, t, rec)
           /\ torn' = FALSE /\ mem' = Put(mem, d, t, rec) /\ UNCHANGED faults
  <2>1. \A ix \in {disk', mem'} : /\ ix.exact \in [Doc \X Path -> Lines \cup {None}]
                                  /\ ix.latest \in [Doc -> Lines \cup {None}] /\ IndexTrue(ix)
    <3>1. disk' \in {disk, Put(disk, d, t, rec)} /\ mem' = Put(mem, d, t, rec)
      BY <1>2
    <3>2. /\ Put(disk, d, t, rec).exact \in [Doc \X Path -> Lines \cup {None}]
          /\ Put(disk, d, t, rec).latest \in [Doc -> Lines \cup {None}]
          /\ IndexTrue(Put(disk, d, t, rec))
      BY <1>1, PutOK
    <3>3. /\ Put(mem, d, t, rec).exact \in [Doc \X Path -> Lines \cup {None}]
          /\ Put(mem, d, t, rec).latest \in [Doc -> Lines \cup {None}]
          /\ IndexTrue(Put(mem, d, t, rec))
      BY <1>1, PutOK
    <3> QED
      BY <1>1, <3>1, <3>2, <3>3
  <2>2. LinesTrue'
    BY <2>1 DEF LinesTrue, IndexTrue, LineTrue
  <2> QED
    BY <1>0, <1>2, <2>1, <2>2
<1>3. CASE UNCHANGED <<disk, torn, mem>> /\ Failing
  <2>1. faults' = faults + 1 /\ faults' \in 0..MaxFault /\ faults' # faults
    BY <1>0, <1>3 DEF Failing
  <2>2. LinesTrue'
    BY <1>3 DEF LinesTrue, IndexTrue, LineTrue
  <2> QED
    BY <1>0, <1>1, <1>3, <2>1, <2>2
<1> QED
  BY <1>2, <1>3 DEF AppendRecord

\* A line about one document leaves the others in place.
LEMMA PutKeepsOthers ==
  ASSUME NEW ix, ix.exact \in [Doc \X Path -> Lines \cup {None}],
         ix.latest \in [Doc -> Lines \cup {None}], NEW o, NEW plan \in Plans,
         NEW d \in Doc, NEW t \in Path, NEW rec \in Lines,
         NEW e \in Doc, e # d, InPlace(ix, o, plan, e)
  PROVE  InPlace(Put(ix, d, t, rec), o, plan, e)
<1>1. plan[e] # None /\ Targets(o, plan)[e] \in Path /\ Own(plan[e], e) \in Path
  BY TargetsOK, PlanOK, PlacesArePaths DEF InPlace
<1>2. \A u \in Path : Put(ix, d, t, rec).exact[<<e, u>>] = ix.exact[<<e, u>>]
  BY DEF Put
<1> QED
  BY <1>1, <1>2 DEF InPlace, Good, Strange

\* A document whose line is good at its place is in place.
LEMMA GoodIsInPlace ==
  ASSUME NEW ix, NEW o, NEW plan \in Plans, NEW d \in Doc, plan[d] # None, NEW p,
         Good(ix, d, p),
         p = Targets(o, plan)[d] \/ (p = Own(plan[d], d) /\ Strange(ix, d, Targets(o, plan)[d]))
  PROVE  InPlace(ix, o, plan, d)
BY DEF InPlace

\* A new line makes its document good at the place it was written for; a stranger at the
\* planned place remains one.
LEMMA PutGood ==
  ASSUME NEW ix, ix.exact \in [Doc \X Path -> Lines \cup {None}],
         ix.latest \in [Doc -> Lines \cup {None}], NEW o, NEW plan \in Plans,
         NEW d \in Doc, plan[d] # None, NEW p \in Path, NEW rec \in Lines,
         rec.status = "SUCCESS", d \in Dated => rec.seen >= site[d],
         rec.content # None, file[rec.path] = rec.content,
         ~(rec.alias /\ rec.path.name \in Unresolved /\ p.name \notin Unresolved),
         p = Targets(o, plan)[d] \/ (p = Own(plan[d], d) /\ Strange(ix, d, Targets(o, plan)[d]))
  PROVE  InPlace(Put(ix, d, p, rec), o, plan, d)
<1> DEFINE new == Put(ix, d, p, rec)
           t == Targets(o, plan)[d]
<1>1. t \in Path
  BY TargetsOK
<1>2. new.exact[<<d, p>>] = rec /\ (t # p => new.exact[<<d, t>>] = ix.exact[<<d, t>>])
  BY <1>1 DEF Put
<1>3. Good(new, d, p)
  <2>1. rec # None /\ rec.path \in Path
    BY NoneIsNothing DEF Lines
  <2> QED
    BY <1>2, <2>1 DEF Good
<1>4. p = t \/ (p = Own(plan[d], d) /\ Strange(new, d, t))
  BY <1>2 DEF Strange
<1> QED
  BY <1>3, <1>4, GoodIsInPlace

\* What a kept document rests on.
LEMMA KeptOK ==
  ASSUME TypeOK, LinesTrue, NEW d \in Doc, run.plan[d] \in Name, run.target[d] \in Path,
         Decision(d).look.match
  PROVE  LET dec == Decision(d) look == dec.look rec == look.rec
         IN  /\ rec \in Lines /\ rec.status = "SUCCESS" /\ (d \in Dated => Fresh(rec, d))
             /\ look.path = rec.path /\ rec.path \in Path /\ file[rec.path] = rec.content
             /\ rec.content # None /\ LineTrue(rec, d)
             /\ look.needs \in BOOLEAN /\ look.alias = (look.needs \/ rec.alias)
             /\ ~look.needs => rec = mem.exact[<<d, dec.place>>]
<1> DEFINE dec == Decision(d)
<1>0. mem.exact \in [Doc \X Path -> Lines \cup {None}] /\ mem.latest \in [Doc -> Lines \cup {None}]
  BY DEF TypeOK
<1>1. PICK rec \in Lines, alias \in BOOLEAN :
         /\ rec = IF alias THEN mem.latest[d] ELSE mem.exact[<<d, dec.place>>]
         /\ dec.look = Evaluate(rec, d, alias)
  BY <1>0, DecisionOK
<1>2. dec.place \in Path
  BY <1>0, DecisionOK
<1>3. /\ rec.status = "SUCCESS" /\ (d \in Dated => Fresh(rec, d)) /\ file[rec.path] = rec.content
      /\ dec.look.path = rec.path /\ dec.look.rec = rec /\ dec.look.needs = alias
      /\ dec.look.alias = (alias \/ rec.alias)
  <2> HIDE DEF dec
  <2>1. dec.look.match /\ dec.look = Evaluate(rec, d, alias)
    BY <1>1 DEF dec
  <2> QED
    BY <1>1, <2>1, MatchOK
<1>4. LineTrue(rec, d)
  BY <1>1, <1>2 DEF LinesTrue, IndexTrue
<1>5. rec.path \in Path /\ rec # None
  BY NoneIsNothing DEF Lines
<1>6. rec.content # None
  BY <1>3, <1>4, <1>5 DEF LineTrue
<1> QED
  BY <1>1, <1>3, <1>4, <1>5, <1>6

\* A document in place is found by its exact line and kept.
LEMMA InPlaceIsKept ==
  ASSUME mem.exact \in [Doc \X Path -> Lines \cup {None}], mem.latest \in [Doc -> Lines \cup {None}],
         NEW d \in Doc, run.plan \in Plans, run.target = Targets(run.order, run.plan),
         run.listed = site, InPlace(mem, run.order, run.plan, d)
  PROVE  LET dec == Decision(d) IN dec.look.match /\ ~LegacyRedo(dec) /\ dec.look.needs = FALSE
<1> DEFINE t == run.target[d]
           own == Own(run.plan[d], d)
           dec == Decision(d)
<1>1. run.plan[d] \in Name /\ t \in Path /\ own \in Path
  BY PlanOK, TargetsOK, PlacesArePaths DEF InPlace
<1>2. PICK p \in {t, own} : /\ Good(mem, d, p) /\ (p # t => Strange(mem, d, t))
  BY DEF InPlace
<1> DEFINE rec == mem.exact[<<d, p>>]
<1>3. p \in Path
  BY <1>1, <1>2
<1>4. rec \in Lines /\ LookupExact(d, p) = Evaluate(rec, d, FALSE) /\ ~Nothing(LookupExact(d, p))
  BY <1>2, <1>3, LookupExactOK DEF Good
<1>5. /\ Evaluate(rec, d, FALSE).match /\ Evaluate(rec, d, FALSE).path = rec.path
      /\ Evaluate(rec, d, FALSE).needs = FALSE /\ Evaluate(rec, d, FALSE).alias = rec.alias
  <2>1. rec.status = "SUCCESS" /\ (d \in Dated => Fresh(rec, d)) /\ file[rec.path] = rec.content
    BY <1>2 DEF Good, Fresh
  <2>2. rec.alias \in BOOLEAN
    BY <1>4 DEF Lines
  <2> QED
    BY <1>4, <2>1, <2>2, EvaluateOK
<1>6. dec.place = p /\ dec.look = LookupExact(d, p)
  <2>1. CASE p = t
    BY <1>4, <2>1 DEF Decision
  <2>2. CASE p # t
    <3>1. Nothing(LookupExact(d, t)) /\ file[t] # None /\ p = own
      BY <1>1, <1>2, <2>2, LookupExactOK DEF Strange
    <3> QED
      BY <1>4, <3>1 DEF Decision
  <2> QED
    BY <2>1, <2>2
<1> QED
  BY <1>2, <1>4, <1>5, <1>6 DEF LegacyRedo, Good

-----------------------------------------------------------------------------
(* The steps that keep, fetch and record a document *)

\* The two things a step that keeps the document d may do.
LEMMA ReuseOK ==
  ASSUME IInv, Reuse
  PROVE  LET d == Current dec == Decision(d)
             rec == Line(d, dec.look.path, "SUCCESS", dec.look.rec.content, dec.look.rec.seen, TRUE)
         IN  /\ More /\ run.plan[d] \in Name /\ run.target[d] \in Path /\ d \in Doc
             /\ Kept(dec) /\ dec.place \in Path
             /\ rec \in Lines /\ LineTrue(rec, d)
             /\ \/ dec.look.needs /\ AppendRecord(d, dec.place, rec)
                \/ ~dec.look.needs /\ UNCHANGED <<disk, torn, mem, faults>>
             /\ result' = [result EXCEPT ![d] = "skipped"] /\ at' = [at EXCEPT ![d] = dec.look.path]
             /\ NextDocument /\ settled' = IF faults' # faults \/ torn THEN None ELSE settled
             /\ UNCHANGED <<site, file, part, http, cancel, runs, changes, crashes, raced, owned>>
<1> DEFINE d == Current
           dec == Decision(d)
           rec == Line(d, dec.look.path, "SUCCESS", dec.look.rec.content, dec.look.rec.seen, TRUE)
<1>1. /\ More /\ run.plan[d] # None /\ Kept(dec)
      /\ IF dec.look.needs THEN AppendRecord(d, dec.place, rec) ELSE UNCHANGED <<disk, torn, mem, faults>>
      /\ result' = [result EXCEPT ![d] = "skipped"] /\ at' = [at EXCEPT ![d] = dec.look.path]
      /\ NextDocument /\ settled' = IF faults' # faults \/ torn THEN None ELSE settled
      /\ UNCHANGED <<site, file, part, http, cancel, runs, changes, crashes, raced, owned>>
  BY DEF Reuse, Answer
<1>2. /\ d \in Doc /\ run.plan[d] \in Name /\ run.target[d] \in Path
      /\ mem.exact \in [Doc \X Path -> Lines \cup {None}] /\ mem.latest \in [Doc -> Lines \cup {None}]
  BY <1>1, AtDocument
<1>3. dec.place \in Path
  BY <1>2, DecisionOK
<1>4. /\ dec.look.rec \in Lines /\ dec.look.rec.status = "SUCCESS"
      /\ dec.look.path = dec.look.rec.path /\ LineTrue(dec.look.rec, d)
      /\ dec.look.rec # None
  <2>1. dec.look.match
    BY <1>1 DEF Kept
  <2>2. TypeOK /\ LinesTrue
    BY DEF IInv
  <2> QED
    BY <1>2, <2>1, <2>2, KeptOK, NoneIsNothing
<1>5. rec \in Lines
  BY <1>4 DEF Line, Lines
<1>6. LineTrue(rec, d)
  BY <1>4 DEF LineTrue, Line
<1> QED
  BY <1>1, <1>2, <1>3, <1>5, <1>6

LEMMA ReuseSettled ==
  ASSUME IInv, Reuse
  PROVE  SettledOK'
<1> DEFINE d == Current
           dec == Decision(d)
           rec == Line(d, dec.look.path, "SUCCESS", dec.look.rec.content, dec.look.rec.seen, TRUE)
           t == Targets(run.order, run.plan)[d]
<1> SUFFICES ASSUME settled' # None
             PROVE  SettledOK'
  BY DEF SettledOK
<1> USE SizeIsNat
<1>1. /\ More /\ run.plan[d] \in Name /\ run.target[d] \in Path /\ d \in Doc
      /\ Kept(dec) /\ dec.place \in Path /\ rec \in Lines /\ LineTrue(rec, d)
      /\ \/ dec.look.needs /\ AppendRecord(d, dec.place, rec)
         \/ ~dec.look.needs /\ UNCHANGED <<disk, torn, mem, faults>>
      /\ result' = [result EXCEPT ![d] = "skipped"]
      /\ NextDocument /\ settled' = IF faults' # faults \/ torn THEN None ELSE settled
      /\ UNCHANGED <<site, file, raced>>
  BY ReuseOK
<1>2. settled' = settled /\ settled # None /\ faults' = faults /\ ~torn
  BY <1>1
<1>3. /\ run.pc = "next" /\ run.i \in 1..Size /\ Running
      /\ run.order \in Order /\ run.plan \in Plans
      /\ mem.exact \in [Doc \X Path -> Lines \cup {None}]
      /\ mem.latest \in [Doc -> Lines \cup {None}]
      /\ \A j \in 1..Size : j # run.i => run.order[j] # d
  BY <1>1, AtDocument
<1>4. /\ RunOK' /\ run'.pc = "next" /\ run'.i = run.i + 1 /\ run'.order = run.order
      /\ run'.plan = run.plan /\ run'.target = run.target /\ run'.listed = run.listed
  BY <1>1, <1>3, AnswerOK
<1>5. /\ settled \in Order \X Plans /\ settled = <<run.order, run.plan>>
      /\ mem = disk /\ run.listed = site /\ LaterAsPlanned
      /\ \A j \in 1..run.i - 1 : InPlace(disk, run.order, run.plan, run.order[j])
  BY <1>2, <1>3 DEF IInv, SettledOK, EarlierInPlace, Replacing
<1>6. run.target[d] = t
  BY <1>3, <1>5 DEF LaterAsPlanned, Current
<1>7. dec.place = t \/ (dec.place = Own(run.plan[d], d) /\ Strange(disk, d, t))
  BY <1>1, <1>3, <1>5, <1>6, DecisionOK
<1>8. LET kept == dec.look.rec
      IN  /\ kept \in Lines /\ kept.status = "SUCCESS" /\ (d \in Dated => Fresh(kept, d))
          /\ dec.look.path = kept.path /\ kept.path \in Path /\ file[kept.path] = kept.content
          /\ kept.content # None /\ dec.look.alias = (dec.look.needs \/ kept.alias)
          /\ ~dec.look.needs => kept = mem.exact[<<d, dec.place>>]
  <2>1. dec.look.match /\ TypeOK /\ LinesTrue
    BY <1>1 DEF Kept, IInv
  <2> QED
    BY <1>1, <2>1, KeptOK
<1>9. ~(dec.look.alias /\ dec.look.path.name \in Unresolved /\ dec.place.name \notin Unresolved)
  BY <1>1 DEF Kept, LegacyRedo
<1>10. d \in Dated => dec.look.rec.seen >= site[d]
  BY <1>5, <1>8 DEF Fresh
<1>11. PICK new : /\ disk' = new /\ mem' = new
                  /\ \A j \in 1..run.i : InPlace(new, run.order, run.plan, run.order[j])
  <2>1. CASE ~dec.look.needs
    <3>1. Good(disk, d, dec.place)
      BY <1>1, <1>5, <1>8, <1>9, <1>10, <2>1, NoneIsNothing DEF Good
    <3>2. InPlace(disk, run.order, run.plan, d)
      BY <1>1, <1>3, <1>7, <3>1, GoodIsInPlace, NoneIsNothing
    <3>3. \A j \in 1..run.i : InPlace(disk, run.order, run.plan, run.order[j])
      <4>1. \A j \in 1..run.i : j = run.i \/ j \in 1..run.i - 1
        BY <1>3
      <4>2. run.order[run.i] = d
        BY DEF Current
      <4> QED
        BY <1>5, <3>2, <4>1, <4>2
    <3> QED
      BY <1>1, <1>5, <2>1, <3>3
  <2>2. CASE dec.look.needs
    <3> DEFINE new == Put(disk, d, dec.place, rec)
    <3>1. disk' = new /\ mem' = new
      <4>1. TypeOK /\ LinesTrue
        BY DEF IInv
      <4> QED
        BY <1>1, <1>2, <1>5, <2>2, <4>1, AppendKeeps
    <3>2. InPlace(new, run.order, run.plan, d)
      <4>1. /\ rec.status = "SUCCESS" /\ rec.content = dec.look.rec.content
            /\ rec.path = dec.look.path /\ rec.seen = dec.look.rec.seen /\ rec.alias = TRUE
        BY DEF Line
      <4>2. rec.content # None /\ file[rec.path] = rec.content /\ (d \in Dated => rec.seen >= site[d])
        BY <1>8, <1>10, <4>1
      <4>3. ~(rec.alias /\ rec.path.name \in Unresolved /\ dec.place.name \notin Unresolved)
        BY <1>8, <1>9, <2>2, <4>1
      <4>4. run.plan[d] # None
        BY <1>1, NoneIsNothing
      <4> QED
        BY <1>1, <1>3, <1>5, <1>7, <4>1, <4>2, <4>3, <4>4, PutGood
    <3>3. ASSUME NEW j \in 1..run.i - 1
          PROVE  InPlace(new, run.order, run.plan, run.order[j])
      <4>1. j \in 1..Size /\ run.order[j] \in Doc /\ run.order[j] # d
        BY <1>3, OrderOK
      <4>2. InPlace(disk, run.order, run.plan, run.order[j])
        BY <1>5
      <4> QED
        BY <1>1, <1>3, <1>5, <4>1, <4>2, PutKeepsOthers
    <3>4. \A j \in 1..run.i : j = run.i \/ j \in 1..run.i - 1
      BY <1>3
    <3>5. run.order[run.i] = d
      BY DEF Current
    <3>6. \A j \in 1..run.i : InPlace(new, run.order, run.plan, run.order[j])
      BY <3>2, <3>3, <3>4, <3>5
    <3> QED
      BY <3>1, <3>6
  <2> QED
    BY <2>1, <2>2
<1>12. EarlierInPlace'
  <2> SUFFICES ASSUME NEW j \in 1..run.i
               PROVE  InPlace(disk, run.order, run.plan, run.order[j])'
    <3>1. run'.i - 1 = run.i
      BY <1>3, <1>4
    <3> QED
      BY <3>1 DEF EarlierInPlace
  <2>1. InPlace(new, run.order, run.plan, run.order[j])
    BY <1>11
  <2>2. disk' = new /\ run'.order = run.order /\ run'.plan = run.plan /\ site' = site /\ file' = file
    BY <1>1, <1>4, <1>11
  <2> HIDE <1>1, <1>4, <1>11
  <2> QED
    BY <2>1, <2>2 DEF InPlace, Good, Strange
<1>13. LaterAsPlanned' /\ CurrentAsPlanned'
  BY <1>3, <1>4, <1>5 DEF LaterAsPlanned, CurrentAsPlanned
<1> QED
  BY <1>1, <1>2, <1>4, <1>5, <1>11, <1>12, <1>13 DEF SettledOK, Running

LEMMA ReuseKeeps ==
  ASSUME IInv, Reuse
  PROVE  IInv'
<1> DEFINE d == Current
           dec == Decision(d)
           rec == Line(d, dec.look.path, "SUCCESS", dec.look.rec.content, dec.look.rec.seen, TRUE)
<1>1. /\ More /\ run.plan[d] \in Name /\ run.target[d] \in Path /\ d \in Doc
      /\ Kept(dec) /\ dec.place \in Path /\ rec \in Lines /\ LineTrue(rec, d)
      /\ \/ dec.look.needs /\ AppendRecord(d, dec.place, rec)
         \/ ~dec.look.needs /\ UNCHANGED <<disk, torn, mem, faults>>
      /\ result' = [result EXCEPT ![d] = "skipped"] /\ at' = [at EXCEPT ![d] = dec.look.path]
      /\ NextDocument
      /\ UNCHANGED <<site, file, part, http, cancel, runs, changes, crashes, raced, owned>>
  BY ReuseOK
<1>2. TypeOK /\ LinesTrue
  BY DEF IInv
<1>3. /\ faults' \in 0..MaxFault /\ torn' \in BOOLEAN /\ LinesTrue'
      /\ \A ix \in {disk', mem'} : /\ ix.exact \in [Doc \X Path -> Lines \cup {None}]
                                   /\ ix.latest \in [Doc -> Lines \cup {None}]
  <2>1. CASE dec.look.needs
    BY <1>1, <1>2, <2>1, AppendKeeps
  <2>2. CASE ~dec.look.needs
    <3>1. UNCHANGED <<disk, torn, mem, faults>> /\ raced' = raced
      BY <1>1, <2>2
    <3> QED
      BY <1>2, <3>1 DEF TypeOK, LinesTrue, IndexTrue, LineTrue
  <2> QED
    BY <2>1, <2>2
<1>4. /\ run.pc = "next" /\ run.i \in 1..Size /\ Running /\ run.plan \in Plans /\ http = NoCall
      /\ mem.exact \in [Doc \X Path -> Lines \cup {None}]
      /\ mem.latest \in [Doc -> Lines \cup {None}]
  BY <1>1, AtDocument
<1>5. /\ result' \in [Doc -> {None, "completed", "skipped", "failed", "cancelled"}]
      /\ RunOK' /\ AnsweredOK' /\ run'.pc = "next"
      /\ run'.order = run.order /\ run'.plan = run.plan /\ run'.target = run.target
      /\ run'.listed = run.listed /\ run'.quiet = run.quiet /\ run'.policy = run.policy
  BY <1>1, <1>4, AnswerOK
<1>6. TypeOK'
  <2>1. dec.look.path \in Path \cup {None}
    BY <1>1, <1>4, DecisionOK
  <2>2. at' \in [Doc -> Path \cup {None}]
    BY <1>1, <1>2, <2>1 DEF TypeOK
  <2> QED
    BY <1>1, <1>2, <1>3, <1>5, <2>2 DEF TypeOK
<1>7. SiteOK' /\ HttpOK' /\ FetchOK' /\ FetchIsAtomic'
  BY <1>1, <1>4, <1>5 DEF IInv, SiteOK, HttpOK, FetchOK, FetchIsAtomic, HttpAt, NoCall
<1>8. QuietOK'
  <2> SUFFICES ASSUME run.quiet
               PROVE  QuietOK'
    BY <1>5 DEF QuietOK
  <2>1. /\ run.listed = site /\ run.target = Targets(run.order, run.plan)
        /\ InPlace(mem, run.order, run.plan, d) /\ QuietOK
    BY <1>1, <1>4 DEF IInv, QuietOK
  <2>2. dec.look.needs = FALSE
    BY <1>1, <1>4, <2>1, InPlaceIsKept
  <2>3. mem' = mem
    BY <1>1, <2>2
  <2> QED
    BY <1>1, <1>4, <1>5, <2>1, <2>3, QuietStays
<1> QED
  BY <1>3, <1>5, <1>6, <1>7, <1>8, ReuseSettled DEF IInv

\* A fetch begins: never in a quiet run, and always at a path.
LEMMA FetchFacts ==
  ASSUME IInv, Fetch
  PROVE  LET d == Current dec == Decision(d)
         IN  /\ More /\ d \in Doc /\ run.plan[d] \in Name /\ run.target[d] \in Path
             /\ dec.place \in Path
             /\ dec.place = run.target[d] \/ (dec.place = Own(run.plan[d], d)
                                              /\ Strange(mem, d, run.target[d]))
             /\ \E p \in Path : http' = [NoCall EXCEPT !.step = "attempt", !.doc = d, !.path = p,
                                                       !.attempt = 1, !.before = file[p]]
             /\ run' = [run EXCEPT !.pc = "fetch", !.target[d] = dec.place]
             /\ ~run.quiet
             /\ UNCHANGED <<site, file, part, cancel, faults, disk, torn, mem, result, at, runs,
                            changes, crashes, raced, settled, owned>>
<1> DEFINE d == Current
           dec == Decision(d)
<1>1. /\ More /\ run.plan[d] # None /\ ~Kept(dec)
      /\ \E p \in SavePath(dec, d) : Call(d, p)
      /\ run' = [run EXCEPT !.pc = "fetch", !.target[d] = dec.place]
      /\ UNCHANGED <<site, file, part, cancel, faults, disk, torn, mem, result, at, runs,
                     changes, crashes, raced, settled, owned>>
  BY DEF Fetch
<1>2. /\ d \in Doc /\ run.plan[d] \in Name /\ run.target[d] \in Path /\ run.plan \in Plans /\ Running
      /\ mem.exact \in [Doc \X Path -> Lines \cup {None}] /\ mem.latest \in [Doc -> Lines \cup {None}]
  BY <1>1, AtDocument
<1>3. /\ dec.place \in Path /\ dec.look.path \in Path \cup {None}
      /\ dec.place = run.target[d] \/ (dec.place = Own(run.plan[d], d) /\ Strange(mem, d, run.target[d]))
  BY <1>2, DecisionOK
<1>4. SavePath(dec, d) \subseteq Path
  BY <1>2, <1>3, SavePathOK
<1>5. ~run.quiet
  <2> SUFFICES ASSUME run.quiet
               PROVE  FALSE
    OBVIOUS
  <2>1. /\ run.policy = "REUSE" /\ run.listed = site /\ run.target = Targets(run.order, run.plan)
        /\ InPlace(mem, run.order, run.plan, d)
    BY <1>2 DEF IInv, QuietOK
  <2>2. dec.look.match /\ ~LegacyRedo(dec)
    BY <1>2, <2>1, InPlaceIsKept
  <2> QED
    BY <1>1, <2>1, <2>2 DEF Kept
<1>6. \E p \in Path : http' = [NoCall EXCEPT !.step = "attempt", !.doc = d, !.path = p,
                                             !.attempt = 1, !.before = file[p]]
  BY <1>1, <1>4 DEF Call
<1> QED
  BY <1>1, <1>2, <1>3, <1>5, <1>6

LEMMA FetchKeeps ==
  ASSUME IInv, Fetch
  PROVE  IInv'
<1> DEFINE d == Current
           dec == Decision(d)
<1> USE SizeIsNat
<1>1. /\ More /\ d \in Doc /\ run.plan[d] \in Name /\ run.target[d] \in Path
      /\ dec.place \in Path
      /\ dec.place = run.target[d] \/ (dec.place = Own(run.plan[d], d) /\ Strange(mem, d, run.target[d]))
      /\ run' = [run EXCEPT !.pc = "fetch", !.target[d] = dec.place]
      /\ ~run.quiet
      /\ UNCHANGED <<site, file, part, cancel, faults, disk, torn, mem, result, at, runs,
                     changes, crashes, raced, settled, owned>>
  BY FetchFacts
<1>2. PICK p \in Path : http' = [NoCall EXCEPT !.step = "attempt", !.doc = d, !.path = p,
                                               !.attempt = 1, !.before = file[p]]
  BY FetchFacts
<1>3. /\ run.pc = "next" /\ run.i \in 1..Size /\ Running
      /\ run.order \in Order /\ run.plan \in Plans /\ run.target \in [Doc -> Path \cup {None}]
      /\ \A j \in 1..Size : j # run.i => run.order[j] # d
  BY <1>1, AtDocument
<1> HIDE DEF dec
<1>4. /\ run'.pc = "fetch" /\ run'.target = [run.target EXCEPT ![d] = dec.place]
      /\ run'.i = run.i /\ run'.order = run.order /\ run'.plan = run.plan
      /\ run'.listed = run.listed /\ run'.quiet = FALSE /\ run'.policy = run.policy
  BY <1>1 DEF IInv, RunOK
<1>5. /\ http'.step = "attempt" /\ http'.doc = d /\ http'.path = p /\ http'.attempt = 1
      /\ http'.content = None /\ http'.before = file[p] /\ http'.result = None /\ http'.dirty = FALSE
  BY <1>2 DEF NoCall
<1>6. TypeOK' /\ SiteOK'
  BY <1>1, <1>4 DEF IInv, TypeOK, SiteOK
<1>7. HttpOK'
  <2>1. file[p] \in Content \cup {None}
    BY DEF IInv, TypeOK
  <2> QED
    BY <1>1, <1>2, <2>1 DEF HttpOK, NoCall
<1>8. RunOK'
  <2>1. /\ run'.target \in [Doc -> Path \cup {None}]
        /\ \A e \in Doc : run'.plan[e] # None => run'.target[e] \in Path
    <3>1. \A e \in Doc : run.plan[e] # None => run.target[e] \in Path
      BY <1>3 DEF IInv, RunOK
    <3> QED
      BY <1>1, <1>3, <1>4, <3>1
  <2>2. run' \in [pc : {"idle", "next", "fetch"}, order : Order \cup {None}, plan : Plans \cup {None},
                 policy : Policies \cup {None}, i : 0..Size + 1,
                 listed : [Doc -> 0..MaxChange] \cup {None},
                 target : [Doc -> Path \cup {None}] \cup {None}, quiet : BOOLEAN]
    BY <1>1, <1>4, <2>1 DEF IInv, RunOK
  <2>3. run.listed \in [Doc -> 0..MaxChange]
    BY <1>3 DEF IInv, RunOK
  <2> QED
    BY <1>3, <1>4, <2>1, <2>2, <2>3 DEF RunOK
<1>9. FetchOK' /\ FetchIsAtomic'
  <2>1. run.plan[d] # None
    BY <1>1, NoneIsNothing
  <2>2. Current' = d
    BY <1>4 DEF Current
  <2> QED
    BY <1>1, <1>4, <1>5, <2>1, <2>2, NoneIsNothing DEF FetchOK, FetchIsAtomic, HttpAt
<1>10. AnsweredOK'
  BY <1>1, <1>3, <1>4 DEF IInv, AnsweredOK, Running
<1>11. LinesTrue'
  BY <1>1 DEF IInv, LinesTrue, IndexTrue, LineTrue
<1>12. QuietOK'
  BY <1>4 DEF QuietOK
<1>13. SettledOK'
  <2> SUFFICES ASSUME settled # None
               PROVE  SettledOK'
    BY <1>1 DEF SettledOK
  <2>1. /\ settled \in Order \X Plans /\ settled = <<run.order, run.plan>>
        /\ mem = disk /\ run.listed = site /\ LaterAsPlanned
        /\ \A j \in 1..run.i - 1 : InPlace(disk, run.order, run.plan, run.order[j])
    BY <1>3 DEF IInv, SettledOK, EarlierInPlace, Replacing
  <2>2. EarlierInPlace'
    <3> SUFFICES ASSUME NEW j \in 1..run.i - 1, InPlace(disk, run.order, run.plan, run.order[j])
                 PROVE  InPlace(disk, run.order, run.plan, run.order[j])'
      BY <1>4, <2>1 DEF EarlierInPlace
    <3> QED
      BY <1>1, <1>4 DEF InPlace, Good, Strange
  <2>3. LaterAsPlanned'
    <3> SUFFICES ASSUME NEW j \in run.i..Size, j > run.i
                 PROVE  run'.target[run.order[j]] = Targets(run.order, run.plan)[run.order[j]]
      BY <1>4 DEF LaterAsPlanned
    <3>1. j \in 1..Size /\ run.order[j] \in Doc /\ run.order[j] # d
      BY <1>3, OrderOK
    <3>2. run.target[run.order[j]] = Targets(run.order, run.plan)[run.order[j]]
      BY <1>3, <2>1 DEF LaterAsPlanned
    <3> QED
      BY <1>3, <1>4, <3>1, <3>2
  <2>4. CurrentAsPlanned'
    <3>1. run.target[d] = Targets(run.order, run.plan)[d]
      BY <1>3, <2>1 DEF LaterAsPlanned, Current
    <3>2. run'.target[d] = dec.place /\ Current' = d
      BY <1>1, <1>3, <1>4 DEF Current
    <3> QED
      BY <1>1, <1>4, <2>1, <3>1, <3>2 DEF CurrentAsPlanned, Strange
  <2> QED
    BY <1>1, <1>3, <1>4, <2>1, <2>2, <2>3, <2>4 DEF SettledOK, Running
<1> QED
  BY <1>6, <1>7, <1>8, <1>9, <1>10, <1>11, <1>12, <1>13 DEF IInv

\* The call has returned: its line is of the right shape and true.
LEMMA RecordFacts ==
  ASSUME IInv, Record
  PROVE  LET d == http.doc ok == http.result = "SUCCESS"
             rec == Line(d, http.path, http.result, IF ok THEN http.content ELSE None, site[d], FALSE)
         IN  /\ run.pc = "fetch" /\ run.i \in 1..Size /\ Running /\ d \in Doc /\ d = Current
             /\ run.order \in Order /\ run.plan \in Plans /\ run.plan[d] # None /\ ~run.quiet
             /\ run.target \in [Doc -> Path \cup {None}] /\ run.target[d] \in Path /\ http.path \in Path
             /\ \A j \in 1..Size : j # run.i => run.order[j] # d
             /\ rec \in Lines /\ LineTrue(rec, d)
             /\ ok => http.content # None /\ file[http.path] = http.content
<1> DEFINE d == http.doc
           ok == http.result = "SUCCESS"
           rec == Line(d, http.path, http.result, IF ok THEN http.content ELSE None, site[d], FALSE)
<1>1. run.pc = "fetch" /\ http.step = "end" /\ Running
  BY DEF Record, Returned, HttpAt, Running
<1>2. /\ run.order \in Order /\ run.plan \in Plans /\ run.i \in 1..Size + 1 /\ run.i <= Size
      /\ run.target \in [Doc -> Path \cup {None}]
      /\ \A e \in Doc : run.plan[e] # None => run.target[e] \in Path
  BY <1>1 DEF IInv, RunOK
<1>3. /\ d \in Doc /\ d = Current /\ http.path \in Path /\ run.plan[d] # None
      /\ http.result # None
      /\ http.content # None => http.content.doc = d /\ (d \in raced \/ http.content.rev = site[d])
      /\ ok => http.content # None /\ file[http.path] = http.content
  BY <1>1 DEF IInv, FetchOK
<1>4. run.i \in 1..Size /\ \A j \in 1..Size : j # run.i => run.order[j] # d
  <2>1. run.i \in 1..Size
    BY <1>2, SizeIsNat
  <2> QED
    BY <1>2, <1>3, <2>1 DEF Current, Order, Size
<1>5. ~run.quiet
  BY <1>1 DEF IInv, QuietOK
<1>6. /\ http.result \in {"SUCCESS", "FAILED", "CANCELLED"} /\ http.content \in Content \cup {None}
      /\ site[d] \in 0..MaxChange
  BY <1>3 DEF IInv, HttpOK, TypeOK
<1>7. rec \in Lines
  BY <1>3, <1>6 DEF Line, Lines
<1>8. LineTrue(rec, d)
  <2>1. rec.status = http.result /\ rec.seen = site[d] /\ (ok => rec.content = http.content)
    BY DEF Line
  <2>3. ok => /\ rec.content # None /\ rec.content.doc = d
              /\ d \in raced \/ rec.content.rev >= rec.seen
    <3>1. site[d] >= site[d]
      BY <1>6, DownloadsAssumption
    <3>2. ok => d \in raced \/ http.content.rev >= site[d]
      BY <1>3, <3>1
    <3> HIDE DEF rec
    <3> QED
      BY <1>3, <2>1, <3>2
  <2> HIDE DEF rec
  <2> QED
    BY <2>1, <2>3 DEF LineTrue
<1> QED
  BY <1>1, <1>2, <1>3, <1>4, <1>5, <1>7, <1>8

\* What the record changes.
LEMMA RecordSteps ==
  ASSUME IInv, Record
  PROVE  LET d == http.doc ok == http.result = "SUCCESS"
             rec == Line(d, http.path, http.result, IF ok THEN http.content ELSE None, site[d], FALSE)
         IN  /\ AppendRecord(d, run.target[d], rec)
             /\ at' = [at EXCEPT ![d] = http.path] /\ http' = NoCall
             /\ \/ /\ ~ok /\ settled' = None
                   /\ result' = CancelledFrom(result, run.i) /\ run' = [run EXCEPT !.pc = "idle"]
                \/ /\ \E r \in {"completed", "failed"} : result' = [result EXCEPT ![d] = r]
                   /\ NextDocument
             /\ settled' # None => /\ settled' = settled /\ faults' = faults /\ ~torn /\ ok
                                   /\ owned.held = None
             /\ UNCHANGED <<site, file, part, cancel, runs, changes, crashes, raced, owned>>
<1> DEFINE d == http.doc
           ok == http.result = "SUCCESS"
           rec == Line(d, http.path, http.result, IF ok THEN http.content ELSE None, site[d], FALSE)
           name == CASE ok -> "completed" [] http.result = "FAILED" -> "failed" [] OTHER -> "cancelled"
<1>1. /\ AppendRecord(d, run.target[d], rec) /\ at' = [at EXCEPT ![d] = http.path] /\ http' = NoCall
      /\ IF name = "cancelled"
         THEN result' = CancelledFrom(result, run.i) /\ run' = [run EXCEPT !.pc = "idle"]
         ELSE result' = [result EXCEPT ![d] = name] /\ NextDocument
      /\ settled' = IF faults' # faults \/ torn \/ ~ok \/ owned.held # None THEN None ELSE settled
      /\ UNCHANGED <<site, file, part, cancel, runs, changes, crashes, raced, owned>>
  BY DEF Record
<1>2. name \in {"completed", "failed", "cancelled"} /\ (name = "cancelled" => ~ok)
  OBVIOUS
<1>3. CASE name = "cancelled"
  BY <1>1, <1>2, <1>3
<1>4. CASE name # "cancelled"
  BY <1>1, <1>2, <1>4
<1> QED
  BY <1>3, <1>4

LEMMA RecordSettled ==
  ASSUME IInv, Record
  PROVE  SettledOK'
<1> DEFINE d == http.doc
           ok == http.result = "SUCCESS"
           rec == Line(d, http.path, http.result, IF ok THEN http.content ELSE None, site[d], FALSE)
           p == run.target[d]
           t == Targets(run.order, run.plan)[d]
           new == Put(disk, d, p, rec)
<1> SUFFICES ASSUME settled' # None
             PROVE  SettledOK'
  BY DEF SettledOK
<1> USE SizeIsNat
<1>1. /\ run.pc = "fetch" /\ run.i \in 1..Size /\ Running /\ d \in Doc /\ d = Current
      /\ run.order \in Order /\ run.plan \in Plans /\ run.plan[d] # None
      /\ p \in Path /\ http.path \in Path
      /\ \A j \in 1..Size : j # run.i => run.order[j] # d
      /\ rec \in Lines /\ LineTrue(rec, d)
      /\ ok => http.content # None /\ file[http.path] = http.content
  BY RecordFacts
<1>2. /\ AppendRecord(d, p, rec) /\ NextDocument
      /\ \E r \in {"completed", "failed"} : result' = [result EXCEPT ![d] = r]
      /\ settled' = settled /\ faults' = faults /\ ~torn /\ ok /\ owned.held = None
      /\ UNCHANGED <<site, file, raced>>
  BY RecordSteps
<1>3. /\ RunOK' /\ run'.pc = "next" /\ run'.i = run.i + 1 /\ run'.order = run.order
      /\ run'.plan = run.plan /\ run'.target = run.target /\ run'.listed = run.listed
  BY <1>1, <1>2, AnswerOK
<1>4. /\ settled \in Order \X Plans /\ settled = <<run.order, run.plan>>
      /\ mem = disk /\ run.listed = site /\ LaterAsPlanned /\ CurrentAsPlanned
      /\ \A j \in 1..run.i - 1 : InPlace(disk, run.order, run.plan, run.order[j])
  BY <1>1, <1>2 DEF IInv, SettledOK, EarlierInPlace, Replacing
<1>5. p = t \/ (p = Own(run.plan[d], d) /\ Strange(disk, d, t))
  BY <1>1, <1>4 DEF CurrentAsPlanned
<1>6. TypeOK /\ LinesTrue /\ disk.exact \in [Doc \X Path -> Lines \cup {None}]
      /\ disk.latest \in [Doc -> Lines \cup {None}]
  BY DEF IInv, TypeOK
<1>7. disk' = new /\ mem' = new
  <2>1. raced' = raced /\ AppendRecord(d, p, rec) /\ faults' = faults /\ ~torn /\ mem = disk
    BY <1>2, <1>4
  <2> HIDE DEF rec, p
  <2> QED
    BY <1>1, <1>6, <2>1, AppendKeeps
<1>8. InPlace(new, run.order, run.plan, d)
  <2>1. /\ rec.status = "SUCCESS" /\ rec.content = http.content /\ rec.path = http.path
        /\ rec.seen = site[d] /\ rec.alias = FALSE
    BY <1>2 DEF Line
  <2>2. site[d] >= site[d]
    BY <1>1, DownloadsAssumption DEF IInv, TypeOK
  <2> QED
    BY <1>1, <1>2, <1>5, <1>6, <2>1, <2>2, PutGood
<1>9. ASSUME NEW j \in 1..run.i - 1
      PROVE  InPlace(new, run.order, run.plan, run.order[j])
  <2>1. j \in 1..Size /\ run.order[j] \in Doc /\ run.order[j] # d
    BY <1>1, OrderOK
  <2>2. InPlace(disk, run.order, run.plan, run.order[j])
    BY <1>4
  <2> QED
    BY <1>1, <1>6, <2>1, <2>2, PutKeepsOthers
<1>10. EarlierInPlace'
  <2> SUFFICES ASSUME NEW j \in 1..run.i
               PROVE  InPlace(disk, run.order, run.plan, run.order[j])'
    <3>1. run'.i - 1 = run.i
      BY <1>1, <1>3
    <3> QED
      BY <3>1 DEF EarlierInPlace
  <2>1. InPlace(new, run.order, run.plan, run.order[j])
    <3>1. j = run.i \/ j \in 1..run.i - 1
      BY <1>1
    <3>2. run.order[run.i] = d
      BY <1>1 DEF Current
    <3> QED
      BY <1>8, <1>9, <3>1, <3>2
  <2>2. disk' = new /\ run'.order = run.order /\ run'.plan = run.plan /\ site' = site /\ file' = file
    BY <1>2, <1>3, <1>7
  <2> HIDE DEF new
  <2> HIDE <1>1, <1>2, <1>3, <1>4, <1>7
  <2> QED
    BY <2>1, <2>2 DEF InPlace, Good, Strange
<1>11. LaterAsPlanned' /\ CurrentAsPlanned'
  BY <1>1, <1>3, <1>4 DEF LaterAsPlanned, CurrentAsPlanned
<1> QED
  BY <1>2, <1>3, <1>4, <1>7, <1>10, <1>11 DEF SettledOK, Running

LEMMA RecordKeeps ==
  ASSUME IInv, Record
  PROVE  IInv'
<1> DEFINE d == http.doc
           ok == http.result = "SUCCESS"
           rec == Line(d, http.path, http.result, IF ok THEN http.content ELSE None, site[d], FALSE)
<1>1. /\ run.pc = "fetch" /\ run.i \in 1..Size /\ Running /\ d \in Doc /\ d = Current
      /\ run.order \in Order /\ run.plan \in Plans /\ run.plan[d] # None
      /\ run.target[d] \in Path /\ http.path \in Path /\ ~run.quiet
      /\ rec \in Lines /\ LineTrue(rec, d)
  BY RecordFacts
<1>2. /\ AppendRecord(d, run.target[d], rec) /\ at' = [at EXCEPT ![d] = http.path] /\ http' = NoCall
      /\ UNCHANGED <<site, file, part, cancel, runs, changes, crashes, raced, owned>>
  BY RecordSteps
<1>3. /\ TypeOK /\ LinesTrue
  BY DEF IInv
<1>4. /\ faults' \in 0..MaxFault /\ torn' \in BOOLEAN /\ LinesTrue'
      /\ \A ix \in {disk', mem'} : /\ ix.exact \in [Doc \X Path -> Lines \cup {None}]
                                   /\ ix.latest \in [Doc -> Lines \cup {None}]
  BY <1>1, <1>2, <1>3, AppendKeeps
<1>5. /\ run'.pc \in {"idle", "next"} /\ run'.quiet = FALSE /\ RunOK' /\ AnsweredOK'
      /\ result' \in [Doc -> {None, "completed", "skipped", "failed", "cancelled"}]
  <2>1. CASE NextDocument /\ \E r \in {"completed", "failed"} : result' = [result EXCEPT ![d] = r]
    <3>1. run'.quiet = run.quiet /\ run.quiet \in BOOLEAN /\ run'.pc = "next" /\ RunOK' /\ AnsweredOK'
          /\ result' \in [Doc -> {None, "completed", "skipped", "failed", "cancelled"}]
      BY <1>1, <2>1, AnswerOK DEF IInv, RunOK
    <3> QED
      BY <1>1, <3>1
  <2>2. CASE result' = CancelledFrom(result, run.i) /\ run' = [run EXCEPT !.pc = "idle"]
    <3>1. run'.pc = "idle" /\ run'.quiet = FALSE
      BY <1>1, <2>2 DEF IInv, RunOK
    <3>2. RunOK'
      BY <2>2 DEF IInv, RunOK, Running
    <3> QED
      BY <1>3, <2>2, <3>1, <3>2, CancelledFromOK DEF AnsweredOK, Running
  <2> QED
    BY <2>1, <2>2, RecordSteps
<1>6. TypeOK'
  <2>1. at' \in [Doc -> Path \cup {None}]
    BY <1>1, <1>2, <1>3 DEF TypeOK
  <2> QED
    BY <1>2, <1>3, <1>4, <1>5, <2>1 DEF TypeOK
<1>7. SiteOK' /\ HttpOK'
  BY <1>2 DEF IInv, SiteOK, HttpOK, NoCall
<1>8. FetchOK' /\ FetchIsAtomic'
  BY <1>2, <1>5 DEF FetchOK, FetchIsAtomic, HttpAt, NoCall
<1>9. QuietOK'
  BY <1>5 DEF QuietOK
<1> QED
  BY <1>4, <1>5, <1>6, <1>7, <1>8, <1>9, RecordSettled DEF IInv

-----------------------------------------------------------------------------
(* The steps of a call *)

\* What every step of a call leaves alone, and the frame in which it happens.
LEMMA HttpFacts ==
  ASSUME IInv, Http
  PROVE  /\ run.pc = "fetch" /\ Running /\ http.doc \in Doc /\ http.doc = Current /\ http.path \in Path
         /\ run.i \in 1..Size /\ ~run.quiet /\ HttpStep
         /\ UNCHANGED <<disk, torn, mem, run, result, at, runs, changes, crashes, raced, settled>>
         /\ owned' = IF http'.result # "SUCCESS" THEN owned
                     ELSE [path |-> http.path, held |-> file[http.path], by |-> http.doc]
         /\ part \subseteq Path /\ faults \in 0..MaxFault /\ MaxFault \in Nat /\ MaxAttempt \in Nat
<1>1. /\ run.pc = "fetch" /\ Running /\ HttpStep
      /\ UNCHANGED <<disk, torn, mem, run, result, at, runs, changes, crashes, raced, settled>>
      /\ owned' = IF http'.result # "SUCCESS" THEN owned
                  ELSE [path |-> http.path, held |-> file[http.path], by |-> http.doc]
  BY DEF Http, Running
<1>2. http.doc \in Doc /\ http.doc = Current /\ http.path \in Path
  BY <1>1 DEF IInv, FetchOK
<1>3. run.i \in 1..Size
  BY <1>1, SizeIsNat DEF IInv, RunOK
<1>4. ~run.quiet
  BY <1>1 DEF IInv, QuietOK
<1>5. part \subseteq Path /\ faults \in 0..MaxFault /\ MaxFault \in Nat /\ MaxAttempt \in Nat
  BY HttpAssumption DEF IInv, TypeOK
<1> QED
  BY <1>1, <1>2, <1>3, <1>4, <1>5

\* A step of a call other than Commit: the files stay, and the call goes on or ends
\* without success.
QuietStep ==
  /\ UNCHANGED <<site, file>> /\ part' \subseteq Path /\ faults' \in 0..MaxFault /\ cancel' = cancel
  /\ http'.doc = http.doc /\ http'.path = http.path /\ http'.before = http.before /\ HttpOK'
  /\ http'.content \in {http.content, [doc |-> http.doc, rev |-> site[http.doc]]}
  /\ http.step # "end" /\ http'.step # "idle"
  /\ http'.step # "end" => http'.result = None
  /\ http'.step = "end" => /\ http'.result \in {"FAILED", "CANCELLED"}
                           /\ http'.dirty \/ http.path \notin part'
  /\ http'.step \in {"body", "whole"} => http'.content # None

LEMMA StepsAreQuiet ==
  ASSUME IInv, Http, ~Commit
  PROVE  QuietStep
<1>0. /\ http.doc \in Doc /\ http.path \in Path /\ run.pc = "fetch"
      /\ part \subseteq Path /\ faults \in 0..MaxFault /\ MaxFault \in Nat /\ MaxAttempt \in Nat
  BY HttpFacts
<1>1. /\ HttpOK /\ http.step # "idle"
      /\ http.step # "end" => http.result = None
      /\ http.step \in {"body", "whole"} => http.content # None
  BY <1>0 DEF IInv, FetchOK
<1>2. faults < MaxFault /\ faults' = faults + 1 => faults' \in 0..MaxFault
  BY <1>0
<1>3. [doc |-> http.doc, rev |-> site[http.doc]] \in Content
  BY <1>0 DEF Content, IInv, TypeOK
<1>4. [doc |-> http.doc, rev |-> site[http.doc]] # None
  BY <1>3, NoneIsNothing
<1> USE DEF HttpAt, HttpGo, Result, Failing, Clean, RetryOrFail
<1>5. CASE Attempt
  BY <1>0, <1>1, <1>2, <1>5, ZenonT(40) DEF Attempt, QuietStep, HttpOK
<1>6. CASE Respond
  BY <1>0, <1>1, <1>3, <1>4, <1>6 DEF Respond, QuietStep, HttpOK
<1>7. CASE Body
  BY <1>0, <1>1, <1>7 DEF Body, QuietStep, HttpOK
<1>8. CASE Transient
  BY <1>0, <1>1, <1>2, <1>8, ZenonT(40) DEF Transient, QuietStep, HttpOK
<1>9. CASE Permanent
  BY <1>0, <1>1, <1>2, <1>9 DEF Permanent, QuietStep, HttpOK
<1>10. CASE Cancelled
  BY <1>0, <1>1, <1>2, <1>10, ZenonT(40) DEF Cancelled, QuietStep, HttpOK
<1>11. CASE Wait
  <2>1. http'.attempt = http.attempt + 1 /\ http'.attempt \in Nat /\ http'.step = "attempt"
        /\ http'.content = http.content /\ http'.result = http.result /\ http'.doc = http.doc
        /\ http'.path = http.path /\ http'.before = http.before /\ HttpOK'
    <3>1. /\ http' = [http EXCEPT !.step = "attempt", !.attempt = @ + 1]
          /\ HttpOK
      BY <1>1, <1>11 DEF Wait, IInv
    <3>2. http.attempt \in Nat /\ http.attempt + 1 \in Nat
      BY <3>1 DEF HttpOK
    <3>3. QED
      BY <3>1, <3>2 DEF HttpOK
  <2> QED
    BY <1>0, <1>1, <1>11, <2>1 DEF Wait, QuietStep
<1> QED
  BY <1>5, <1>6, <1>7, <1>8, <1>9, <1>10, <1>11, HttpFacts DEF HttpStep

LEMMA QuietStepKeeps ==
  ASSUME IInv, Http, QuietStep
  PROVE  IInv'
<1>1. /\ run.pc = "fetch" /\ Running /\ http.doc \in Doc /\ http.doc = Current /\ http.path \in Path
      /\ ~run.quiet
      /\ UNCHANGED <<disk, torn, mem, run, result, at, runs, changes, crashes, raced, settled>>
      /\ owned' = IF http'.result # "SUCCESS" THEN owned
                  ELSE [path |-> http.path, held |-> file[http.path], by |-> http.doc]
  BY HttpFacts
<1>2. http'.result # "SUCCESS"
  BY NoneIsNothing DEF QuietStep
<1>3. TypeOK' /\ RunOK' /\ HttpOK' /\ SiteOK'
  <2>1. RunOK' /\ HttpOK' /\ SiteOK'
    BY <1>1 DEF QuietStep, IInv, RunOK, SiteOK, Running
  <2> QED
    BY <1>1, <2>1 DEF QuietStep, IInv, TypeOK
<1>4. FetchOK'
  <2>1. Current' = Current /\ run.plan[http.doc] # None /\ file[http.path] = http.before
    BY <1>1 DEF QuietStep, IInv, FetchOK, Current
  <2>2. http'.content # None => /\ http'.content.doc = http.doc
                                /\ http.doc \in raced \/ http'.content.rev = site[http.doc]
    BY <1>1 DEF QuietStep, IInv, FetchOK
  <2>3. http'.step = "end" => http'.result # None /\ http'.result # "SUCCESS"
    BY NoneIsNothing DEF QuietStep
  <2> QED
    BY <1>1, <2>1, <2>2, <2>3 DEF QuietStep, FetchOK
<1>5. FetchIsAtomic'
  <2>1. file[http.path] = http.before
    BY <1>1 DEF QuietStep, IInv, FetchOK
  <2> QED
    BY <1>2, <2>1 DEF QuietStep, FetchIsAtomic
<1>6. AnsweredOK' /\ QuietOK'
  BY <1>1, <1>2 DEF IInv, AnsweredOK, QuietOK, Running
<1>7. LinesTrue'
  BY <1>1 DEF IInv, LinesTrue, IndexTrue, LineTrue
<1>8. SettledOK'
  <2> SUFFICES ASSUME settled # None
               PROVE  SettledOK'
    BY <1>1 DEF SettledOK
  <2>1. http.result = None
    BY <1>1 DEF QuietStep, IInv, FetchOK
  <2>2. /\ settled \in Order \X Plans /\ settled = <<run.order, run.plan>>
        /\ mem = disk /\ run.listed = site /\ LaterAsPlanned /\ CurrentAsPlanned
        /\ \A j \in 1..run.i - 1 : InPlace(disk, run.order, run.plan, run.order[j])
    BY <1>1, <2>1, NoneIsNothing DEF IInv, SettledOK, EarlierInPlace, Replacing
  <2>3. disk' = disk /\ run' = run /\ site' = site /\ file' = file
    BY <1>1 DEF QuietStep
  <2>4. EarlierInPlace'
    <3> SUFFICES ASSUME NEW j \in 1..run.i - 1, InPlace(disk, run.order, run.plan, run.order[j])
                 PROVE  InPlace(disk, run.order, run.plan, run.order[j])'
      BY <2>2, <2>3 DEF EarlierInPlace
    <3> QED
      BY <2>3 DEF InPlace, Good, Strange
  <2>5. LaterAsPlanned' /\ CurrentAsPlanned'
    BY <2>2, <2>3 DEF LaterAsPlanned, CurrentAsPlanned, Strange, Current
  <2> QED
    BY <1>1, <2>2, <2>3, <2>4, <2>5 DEF SettledOK, Running
<1> QED
  BY <1>3, <1>4, <1>5, <1>6, <1>7, <1>8 DEF IInv

LEMMA CommitKeeps ==
  ASSUME IInv, Http, Commit
  PROVE  IInv'
<1>1. /\ run.pc = "fetch" /\ Running /\ http.doc \in Doc /\ http.doc = Current /\ http.path \in Path
      /\ ~run.quiet
      /\ UNCHANGED <<disk, torn, mem, run, result, at, runs, changes, crashes, raced, settled>>
      /\ owned' = IF http'.result # "SUCCESS" THEN owned
                  ELSE [path |-> http.path, held |-> file[http.path], by |-> http.doc]
  BY HttpFacts
<1>2. /\ http.step = "whole" /\ file' = [file EXCEPT ![http.path] = http.content]
      /\ part' = part \ {http.path} /\ UNCHANGED <<site, cancel, faults>>
      /\ http' = [http EXCEPT !.step = "end", !.result = "SUCCESS", !.dirty = FALSE]
  BY DEF Commit, HttpAt, Result
<1>3. /\ http.content \in Content /\ http.content # None /\ http.result = None
      /\ run.plan[http.doc] # None /\ http.content.doc = http.doc
      /\ http.doc \in raced \/ http.content.rev = site[http.doc]
  BY <1>1, <1>2 DEF IInv, FetchOK, HttpOK
<1>4. /\ http'.step = "end" /\ http'.result = "SUCCESS" /\ http'.dirty = FALSE
      /\ http'.doc = http.doc /\ http'.path = http.path /\ http'.content = http.content
  BY <1>2 DEF IInv, HttpOK
<1>5. file' \in [Path -> Content \cup {None}] /\ file'[http.path] = http.content
      /\ \A q \in Path : q # http.path => file'[q] = file[q]
  BY <1>1, <1>2, <1>3 DEF IInv, TypeOK
<1>6. owned'.held = file[http.path]
  BY <1>1, <1>4
<1>7. TypeOK' /\ RunOK' /\ HttpOK' /\ SiteOK'
  <2>1. RunOK' /\ HttpOK' /\ SiteOK'
    BY <1>1, <1>2 DEF IInv, RunOK, HttpOK, SiteOK, Running
  <2>2. part' \subseteq Path
    BY <1>2 DEF IInv, TypeOK
  <2> QED
    BY <1>1, <1>2, <1>5, <2>1, <2>2 DEF IInv, TypeOK
<1>8. FetchOK' /\ FetchIsAtomic'
  <2>1. Current' = Current
    BY <1>1 DEF Current
  <2> QED
    BY <1>1, <1>2, <1>3, <1>4, <1>5, <2>1, NoneIsNothing DEF FetchOK, FetchIsAtomic
<1>9. AnsweredOK' /\ QuietOK'
  BY <1>1, <1>6 DEF IInv, AnsweredOK, QuietOK, Running
<1>10. LinesTrue'
  BY <1>1 DEF IInv, LinesTrue, IndexTrue, LineTrue
<1>11. SettledOK'
  <2> SUFFICES ASSUME settled # None
               PROVE  SettledOK'
    BY <1>1 DEF SettledOK
  <2>1. /\ settled \in Order \X Plans /\ settled = <<run.order, run.plan>>
        /\ mem = disk /\ run.listed = site /\ LaterAsPlanned /\ CurrentAsPlanned
        /\ \A j \in 1..run.i - 1 : InPlace(disk, run.order, run.plan, run.order[j])
    BY <1>1, <1>3, NoneIsNothing DEF IInv, SettledOK, EarlierInPlace, Replacing
  <2>2. disk' = disk /\ run' = run /\ site' = site
    BY <1>1, <1>2
  <2>3. EarlierInPlace'
    <3>1. CASE file[http.path] # None
      BY <1>1, <1>4, <1>6, <3>1 DEF EarlierInPlace, Replacing
    <3>2. CASE file[http.path] = None
      <4> SUFFICES ASSUME NEW j \in 1..run.i - 1
                   PROVE  InPlace(disk, run.order, run.plan, run.order[j])'
        BY <2>2 DEF EarlierInPlace
      <4>1. \A q \in Path : file[q] # None => file'[q] = file[q]
        BY <1>5, <3>2
      <4>2. run.order[j] \in Doc /\ run.plan \in Plans /\ run.order \in Order
        BY <1>1, OrderOK, SizeIsNat DEF IInv, RunOK
      <4>3. InPlace(disk, run.order, run.plan, run.order[j])
        BY <2>1
      <4>4. Targets(run.order, run.plan)[run.order[j]] \in Path
        BY <4>2, <4>3, TargetsOK DEF InPlace
      <4> HIDE <1>1, <1>2
      <4> QED
        BY <2>2, <4>1, <4>2, <4>3, <4>4, Zenon DEF InPlace, Good, Strange
    <3> QED
      BY <3>1, <3>2
  <2>4. LaterAsPlanned'
    BY <2>1, <2>2 DEF LaterAsPlanned
  <2>5. CurrentAsPlanned'
    <3>1. Targets(run.order, run.plan)[Current] \in Path
      BY <1>1, <1>3, TargetsOK DEF IInv, RunOK
    <3>2. \A q \in Path : file[q] # None => file'[q] # None
      BY <1>3, <1>5
    <3> QED
      BY <2>1, <2>2, <3>1, <3>2 DEF CurrentAsPlanned, Strange, Current
  <2> QED
    BY <1>1, <2>1, <2>2, <2>3, <2>4, <2>5 DEF SettledOK, Running
<1> QED
  BY <1>7, <1>8, <1>9, <1>10, <1>11 DEF IInv

-----------------------------------------------------------------------------
(* The theorems *)

LEMMA StepKeeps == IInv /\ [Next]_vars => IInv'
<1> SUFFICES ASSUME IInv, [Next]_vars
             PROVE  IInv'
  OBVIOUS
<1>1. CASE \E o \in Order, pl \in Plans, po \in Policies : Start(o, pl, po)
  BY <1>1, StartKeeps
<1>2. CASE Stopped
  BY <1>2, StoppedKeeps
<1>3. CASE NamingFails
  BY <1>3, NamingFailsKeeps
<1>4. CASE Reuse
  BY <1>4, ReuseKeeps
<1>5. CASE Fetch
  BY <1>5, FetchKeeps
<1>6. CASE Http
  BY <1>6, CommitKeeps, StepsAreQuiet, QuietStepKeeps
<1>7. CASE Record
  BY <1>7, RecordKeeps
<1>8. CASE Finished
  BY <1>8, FinishedKeeps
<1>9. CASE \E d \in Doc : Update(d)
  BY <1>9, UpdateKeeps
<1>10. CASE \E p \in Path : Remove(p)
  BY <1>10, RemoveKeeps
<1>11. CASE Crash
  BY <1>11, CrashKeeps
<1>12. CASE Cancel \/ UNCHANGED vars
  BY <1>12, CancelKeeps
<1> QED
  BY <1>1, <1>2, <1>3, <1>4, <1>5, <1>6, <1>7, <1>8, <1>9, <1>10, <1>11, <1>12 DEF Next, Work

LEMMA Invariance == Spec => []IInv
BY InitIInv, StepKeeps, PTL DEF Spec

LEMMA PlacesFollow == IInv => PlacesTrue
<1> SUFFICES ASSUME IInv
             PROVE  PlacesTrue
  OBVIOUS
<1>1. EveryDocumentAnswered
  <2> SUFFICES ASSUME run.pc = "next", run.i > Cardinality(Doc), NEW d \in Doc
               PROVE  result[d] \in {"completed", "skipped", "failed"}
    BY DEF EveryDocumentAnswered
  <2>1. run.order \in Order /\ run.i \in 1..Size + 1
    BY DEF IInv, RunOK, Running
  <2>2. run.i - 1 = Size
    BY <2>1, SizeIsNat DEF Size
  <2>3. PICK j \in 1..Size : run.order[j] = d
    BY <2>1, OrderNamesAll
  <2> QED
    BY <2>2, <2>3 DEF IInv, AnsweredOK, Running
<1> QED
  BY <1>1 DEF PlacesTrue, IInv

\* Whatever the network, the files, the user and the site do, a place changes only by a
\* whole document, a call that fails leaves the place as it was, and a run that ends has
\* answered for every document: Downloader.download_files with HTTPClient.download_file.
THEOREM PlacesAreTrue == Spec => []PlacesTrue
BY Invariance, PlacesFollow, PTL

\* A run that is repeated, in the same order and under the same names, after a run that put
\* everything in place, fetches nothing: the lookup of _DownloadHistory finds every line
\* that Downloader.download_files has written.
THEOREM RepeatedRunFetchesNothing == Spec => []SecondRunIdle
<1>1. IInv => SecondRunIdle
  BY DEF IInv, QuietOK, SecondRunIdle, Running
<1> QED
  BY <1>1, Invariance, PTL

\* A document that a run keeps is in its place, is that document, and is not older than
\* what the search has listed, unless the site changed it during an earlier fetch: the
\* check of _DownloadHistory.lookup against the file and against the date.
LEMMA KeptIsCurrent ==
  ASSUME IInv, [Next]_vars, NEW d \in Doc, result[d] # "skipped", result'[d] = "skipped", d \notin raced
  PROVE  /\ file[at'[d]] # None /\ file[at'[d]].doc = d
         /\ d \in Dated => file[at'[d]].rev >= run.listed[d]
<1>0. result \in [Doc -> {None, "completed", "skipped", "failed", "cancelled"}]
  BY DEF IInv, TypeOK
<1>1. CASE Reuse
  <2> DEFINE c == Current
             dec == Decision(c)
  <2>1. /\ More /\ run.plan[c] \in Name /\ run.target[c] \in Path /\ c \in Doc /\ Kept(dec)
        /\ result' = [result EXCEPT ![c] = "skipped"] /\ at' = [at EXCEPT ![c] = dec.look.path]
    BY <1>1, ReuseOK
  <2>2. d = c
    BY <1>0, <2>1
  <2>3. TypeOK /\ LinesTrue /\ dec.look.match /\ Running
    BY <2>1, AtDocument DEF IInv, Kept
  <2>4. at'[d] = dec.look.path
    BY <2>1, <2>2, <2>3 DEF TypeOK
  <2>5. LET rec == dec.look.rec
        IN  /\ rec \in Lines /\ rec.status = "SUCCESS" /\ (d \in Dated => Fresh(rec, d))
            /\ dec.look.path = rec.path /\ file[rec.path] = rec.content /\ rec.path \in Path
            /\ rec.content # None /\ LineTrue(rec, d)
    BY <2>1, <2>2, <2>3, KeptOK
  <2>6. LET rec == dec.look.rec IN rec.content.doc = d /\ rec.content.rev >= rec.seen
    BY <2>5, NoneIsNothing DEF LineTrue
  <2>7. dec.look.rec.content.rev \in Nat /\ dec.look.rec.seen \in Nat /\ run.listed[d] \in Nat
    BY <2>3, <2>5, DownloadsAssumption DEF Lines, Content, IInv, RunOK
  <2> QED
    BY <2>4, <2>5, <2>6, <2>7 DEF Fresh
<1>2. CASE ~Reuse
  <2> SUFFICES ASSUME NEW r, result' = r, r[d] = "skipped"
               PROVE  FALSE
    OBVIOUS
  <2>1. CASE UNCHANGED result
    BY <2>1
  <2>2. CASE \E e \in Doc, s \in {"failed", "completed"} : result' = [result EXCEPT ![e] = s]
    BY <1>0, <2>2
  <2>3. CASE \E i : result' = CancelledFrom(result, i)
    BY <1>0, <2>3 DEF CancelledFrom
  <2>4. CASE result' = [e \in Doc |-> None]
    BY <2>4, NoneIsNothing
  <2>5. CASE NamingFails
    BY <2>2, <2>5, AtDocument DEF NamingFails, Answer
  <2>6. CASE Record
    BY <2>2, <2>3, <2>6, RecordSteps, RecordFacts
  <2> QED
    BY <1>2, <2>1, <2>3, <2>4, <2>5, <2>6
    DEF Next, Work, Start, Stopped, Fetch, Http, Finished, Update, Remove, Cancel, Crash, vars,
        downloadVars
<1> QED
  BY <1>1, <1>2

THEOREM ReusedFilesAreCurrent == Spec => ReusedIsCurrent
<1>1. IInv /\ [Next]_vars =>
        [\A d \in Doc : result[d] # "skipped" /\ result'[d] = "skipped" /\ d \notin raced =>
           /\ file[at'[d]] # None /\ file[at'[d]].doc = d
           /\ d \in Dated => file[at'[d]].rev >= run.listed[d] ]_vars
  BY KeptIsCurrent
<1> QED
  BY <1>1, Invariance, PTL DEF Spec, ReusedIsCurrent
=============================================================================
