--------------------------- MODULE ResearchLibrary ---------------------------
(***************************************************************************)
(* What a business knows of its market: projects, competitors, sources,    *)
(* evidence and findings, written by people and by collection jobs, and    *)
(* the intelligence reports that reading the library generates from it.    *)
(*                                                                         *)
(* Rows of sources and evidence are never deleted and evidence is never    *)
(* changed, so that storing evidence or a finding is one step. A project's *)
(* status, a competitor and a report are read, checked and then written.   *)
(* A collection (see ResearchCollection) is here its last commit.          *)
(***************************************************************************)
EXTENDS Naturals, Sequences, FiniteSets, FiniteSetsExt

CONSTANTS
  Requests, NA,
  Projects,    \* projects a person may create
  Names,       \* names of competitors
  Folded,      \* [Names -> the name in lower case]
  Submissions, \* sources a person may submit:
               \*   [type, domain, rival : a name or NA, text : content or NA]
  Pages,       \* [contents of web pages -> sequence of [type, statement, price]]
  Claims,      \* evidence a person may submit:
               \*   [type, statement, class, both, price]
  Recent, Ageing,    \* FRESH_THRESHOLD, AGING_THRESHOLD
  MaxTime, MaxWork   \* bounds: time, and accepted requests

VARIABLES
  now,
  status,      \* [Projects -> status or "absent"]
  competitors, \* [name, seen]
  sources,     \* [id, of, hash]
  snapshots,   \* <<source, hash>>
  evidence,    \* [id, source, project, type, statement, class, hash, at, price]
  findings,    \* [project, class, strength, cites, report]: 0 is a person's
  reports,     \* [id, scope, input, items, fresh, covered, missing]
  call,        \* the requests
  work

vars == <<now, status, competitors, sources, snapshots, evidence, findings,
          reports, call, work>>

rows == <<competitors, sources, snapshots, evidence>>
derived == <<findings, reports>>

Quiet == [pc |-> "idle"]

Init ==
  /\ now = 0 /\ work = 0
  /\ status = [p \in Projects |-> "absent"]
  /\ competitors = {} /\ sources = {} /\ snapshots = {} /\ evidence = {}
  /\ findings = {} /\ reports = {}
  /\ call = [r \in Requests |-> Quiet]

Accepted == work < MaxWork /\ work' = work + 1
Present == {p \in Projects : status[p] # "absent"}
SourceRow(id) == CHOOSE s \in sources : s.id = id
NextId(set) == Cardinality(set) + 1

Answer(r) == call' = [call EXCEPT ![r] = Quiet]

-----------------------------------------------------------------------------
(* Projects and competitors: read, check, write.                           *)

CreateProject(p) ==
  /\ status[p] = "absent" /\ Accepted
  /\ status' = [status EXCEPT ![p] = "draft"]
  /\ UNCHANGED <<now, rows, derived, call>>

Terminal == {"failed", "archived"}
Successors == [draft |-> {"collecting", "processing", "completed"} \union Terminal,
               collecting |-> {"processing", "completed"} \union Terminal,
               processing |-> {"completed"} \union Terminal,
               completed |-> {"archived"}, failed |-> {}, archived |-> {}]

\* set_project_status loads the row and checks the transition on it ...
LoadProject(r, p) ==
  /\ call[r] = Quiet /\ status[p] # "absent" /\ Accepted
  /\ \E to \in Successors[status[p]] :
       call' = [call EXCEPT ![r] = [pc |-> "status", project |-> p,
                                    was |-> status[p], to |-> to]]
  /\ UNCHANGED <<now, status, rows, derived>>

\* ... and writes it whatever it has become.
StoreStatus(r) ==
  /\ call[r].pc = "status"
  /\ status' = [status EXCEPT ![call[r].project] = call[r].to]
  /\ Answer(r)
  /\ UNCHANGED <<now, rows, derived, work>>

\* Mutant: names are compared as they are written.
CheckNameAsWritten(r, name) ==
  /\ call[r] = Quiet /\ Accepted
  /\ \A c \in competitors : c.name # name
  /\ call' = [call EXCEPT ![r] = [pc |-> "competitor", name |-> name,
                                  seen |-> {c.name : c \in competitors}]]
  /\ UNCHANGED <<now, status, rows, derived>>

\* create_competitor compares names in lower case; the unique index does not.
CheckCompetitor(r, name) ==
  /\ call[r] = Quiet /\ Accepted
  /\ \A c \in competitors : Folded[c.name] # Folded[name]
  /\ call' = [call EXCEPT ![r] = [pc |-> "competitor", name |-> name,
                                  seen |-> {c.name : c \in competitors}]]
  /\ UNCHANGED <<now, status, rows, derived>>

StoreCompetitor(r) ==
  /\ call[r].pc = "competitor"
  /\ \A c \in competitors : c.name # call[r].name
  /\ competitors' = competitors \union {[name |-> call[r].name, seen |-> call[r].seen]}
  /\ Answer(r)
  /\ UNCHANGED <<now, status, sources, snapshots, evidence, derived, work>>

-----------------------------------------------------------------------------
(* Sources, evidence and findings.                                         *)

\* create_source: content that is stored already collapses into its row.
CreateSource(sub) ==
  /\ sub.rival # NA => \E c \in competitors : c.name = sub.rival
  /\ sub.text # NA => \A s \in sources : s.hash # sub.text
  /\ Accepted
  /\ sources' = sources \union {[id |-> NextId(sources), of |-> sub, hash |-> sub.text]}
  /\ snapshots' = IF sub.text = NA THEN snapshots
                  ELSE snapshots \union {<<NextId(sources), sub.text>>}
  /\ UNCHANGED <<now, status, competitors, evidence, derived, call>>

Record(id, s, p, signal, class, hash) ==
  [id |-> id, source |-> s.id, project |-> p, type |-> signal.type,
   statement |-> signal.statement, class |-> class, hash |-> hash, at |-> now,
   price |-> signal.price]

\* create_evidence: an excerpt with a value read out of it is not observed.
CreateEvidence(s, claim) ==
  /\ ~(claim.both /\ claim.class = "observed")
  /\ Accepted
  /\ evidence' = evidence \union
       {Record(NextId(evidence), s, NA, claim, claim.class, NA)}
  /\ UNCHANGED <<now, status, competitors, sources, snapshots, derived, call>>

\* A collection of one page for a project commits: content that another source
\* of the business has meets the unique index, and nothing is stored. The
\* signals of a page are stored again when it has not changed.
Collect(s, p, page) ==
  LET signals == Pages[page] IN
  /\ \A other \in sources \ {s} : other.hash # page
  /\ Accepted
  /\ sources' = (sources \ {s}) \union {[s EXCEPT !.hash = page]}
  /\ snapshots' = snapshots \union {<<s.id, page>>}
  /\ evidence' = evidence \union
       {Record(Cardinality(evidence) + i, s, p, signals[i], "observed", page) :
        i \in DOMAIN signals}
  /\ UNCHANGED <<now, status, competitors, derived, call>>

\* evidence_strength_ladder
Ladder(n, corroborated) ==
  CASE n >= 5 /\ corroborated >= 3 -> "strong"
    [] n >= 3 /\ ~(n >= 5 /\ corroborated >= 3) -> "moderate"
    [] n >= 1 /\ n < 3 -> "weak"
    [] OTHER -> "insufficient"

\* create_finding: evidence of the business, of whatever project; without a
\* class it is inferred.
CreateFinding(p, cited, class) ==
  /\ cited # {}
  /\ Accepted
  /\ findings' = findings \union
       {[project |-> p, class |-> class, report |-> 0,
         strength |-> Ladder(Cardinality(cited),
                             Cardinality({e \in cited : e.class = "observed"})),
         cites |-> {e.id : e \in cited}]}
  /\ UNCHANGED <<now, status, rows, reports, call>>

-----------------------------------------------------------------------------
(* Intelligence: groups of evidence that say the same. Its operators take  *)
(* what _inputs has read: rows of evidence, and from, their sources by id. *)

CustomerTypes == {"review", "social_post", "uploaded_document", "manual"}
MarketCategory ==
  [pricing |-> "pricing", offer |-> "offer", messaging |-> "messaging",
   market_signal |-> "trend", competitor_gap |-> "gap", pain_point |-> "problem",
   desire |-> "need"]
CustomerCategory ==
  [pain_point |-> "pain_point", complaint |-> "pain_point", desire |-> "desire",
   objection |-> "objection", buying_trigger |-> "buying_trigger",
   trust_signal |-> "trust_factor", benefit |-> "benefit"]
CompetitorCategory ==
  [t \in {"positioning", "pricing", "offer", "product", "feature", "benefit", "review",
          "messaging", "creative_pattern", "trust_signal", "complaint", "competitor_gap"} |->
     IF t = "review" THEN "social_proof" ELSE IF t = "competitor_gap" THEN "gap" ELSE t]

\* What a piece of evidence says and of whom; category NA is left out.
Kind(e, from) ==
  LET of == from[e.source].of
      In(kind, categories, default) ==
        [kind |-> kind,
         category |-> IF e.type \in DOMAIN categories THEN categories[e.type] ELSE default] IN
  IF of.type \in CustomerTypes /\ e.type \in DOMAIN CustomerCategory
    THEN In("customer", CustomerCategory, NA)
  ELSE IF of.rival # NA THEN In("competitor", CompetitorCategory, "other")
  ELSE In("market", MarketCategory, NA)

\* _groups: same kind, category, competitor and statement.
Groups(found, from) ==
  LET key(e) == <<Kind(e, from), from[e.source].of.rival, e.statement>>
      told == {e \in found : Kind(e, from).category # NA} IN
  {{e \in told : key(e) = k} : k \in {key(e) : e \in told}}

\* Contents, or for want of one web domains, that say so independently.
Independent(group, from) ==
  LET mark(e) == LET s == from[e.source] IN
        IF e.hash # NA THEN e.hash ELSE IF s.hash # NA THEN s.hash ELSE s.of.domain
      known == {mark(e) : e \in group} \ {NA} IN
  IF known = {} THEN Cardinality({e.source : e \in group}) ELSE Cardinality(known)

Strength(group, from) ==
  LET n == Independent(group, from) IN
  IF n >= 3 /\ \E e \in group : Kind(e, from).kind = "customer" THEN "strong"
  ELSE IF n >= 2 THEN "moderate" ELSE "weak"

\* The weakest classification, and the oldest freshness.
Classification(group) ==
  LET classes == {e.class : e \in group} IN
  IF "hypothesis" \in classes THEN "hypothesis"
  ELSE IF "inferred" \in classes THEN "inferred" ELSE "observed"

Freshness(group) ==
  LET oldest == Max({now - e.at : e \in group}) IN
  IF group = {} THEN "unknown"
  ELSE IF oldest <= Recent THEN "fresh" ELSE IF oldest <= Ageing THEN "aging" ELSE "stale"

\* _pricing_summary in one currency: range, points seen twice, and the median of three or more,
\* which of an even number is half the sum of the two in the middle.
Pricing(group) ==
  LET priced == {e \in group : e.price # NA}
      n == Cardinality(priced)
      upTo(v) == Cardinality({e \in priced : e.price <= v})
      values == {e.price : e \in priced}
      nth(k) == Min({v \in values : upTo(v) >= k}) IN
  [count  |-> n,
   range  |-> IF n = 0 THEN {} ELSE {nth(1), nth(n)},
   median |-> IF n < 3 THEN {} ELSE {<<nth((n + 1) \div 2), nth((n + 2) \div 2)>>},
   common |-> {v \in values : Cardinality({e \in priced : e.price = v}) >= 2}]

\* What is covered; no dimension is called "trend", so that it is always missing.
Coverage(found, from) ==
  LET types == {e.type : e \in found}
      of == {from[e.source].of : e \in found} IN
  {d \in {"market", "customer", "competitor", "pricing", "offer", "messaging", "product",
          "reviews", "trust"} :
     CASE d = "market"     -> types \cap DOMAIN MarketCategory # {}
       [] d = "customer"   -> \E sub \in of : sub.type \in CustomerTypes
       [] d = "competitor" -> \E sub \in of : sub.rival # NA
       [] d = "product"    -> types \cap {"product", "feature", "benefit"} # {}
       [] d = "reviews"    -> types \cap {"review", "complaint"} # {}
       [] d = "trust"      -> "trust_signal" \in types
       [] OTHER            -> d \in types}

Missing(found, from) ==
  {"customer", "pricing", "competitor", "offer", "messaging", "trend"} \ Coverage(found, from)

-----------------------------------------------------------------------------
(* Reports: read the library, look for a report of the same input, store.  *)

\* _inputs: the evidence of a project or of the business, and its sources.
Scope(project) == {e \in evidence : project = NA \/ e.project = project}
SourcesOf(found) == [id \in {e.source : e \in found} |-> SourceRow(id)]

\* Mutant: the hash leaves out the content of the sources.
InputOfRows(found, from) == {<<e.id, NA>> : e \in found}

\* _input_hash; a stored row of evidence does not change, its source does.
Input(found, from) == {<<e.id, from[e.source].hash>> : e \in found}

ProjectsOf(group) == {e.project : e \in group} \ {NA}

\* A group of a report becomes an item if it has a project to put findings in.
Items(found, from) ==
  {[cites    |-> {e.id : e \in group},
    class    |-> Classification(group),     strength |-> Strength(group, from),
    support  |-> Independent(group, from),  pricing  |-> Pricing(group)] :
   group \in {g \in Groups(found, from) : ProjectsOf(g) # {}}}

\* Mutant: the findings of a report go to the project it was asked for.
FindingsOfScope(found, from, project, id) ==
  {[project |-> project, class |-> Classification(group),
    strength |-> Strength(group, from), cites |-> {e.id : e \in group}, report |-> id] :
   group \in Groups(found, from)}

\* One finding per group and project with evidence in it.
Findings(found, from, project, id) ==
  UNION {{[project |-> p, class |-> Classification(group),
           strength |-> Strength(group, from), cites |-> {e.id : e \in group},
           report |-> id] :
          p \in ProjectsOf(group)} : group \in Groups(found, from)}

\* ensure_snapshot; a report of the same input is served as it is, which
\* changes nothing.
ReadInputs(r, project) ==
  LET scoped == Scope(project)
      from == SourcesOf(scoped) IN
  /\ call[r] = Quiet /\ Accepted
  /\ ~\E x \in reports : x.scope = project /\ x.input = Input(scoped, from)
  /\ call' = [call EXCEPT ![r] =
       [pc |-> "report", scope |-> project, input |-> Input(scoped, from),
        items |-> Items(scoped, from), fresh |-> Freshness(scoped),
        covered |-> Coverage(scoped, from), missing |-> Missing(scoped, from),
        findings |-> Findings(scoped, from, project, 0)]]
  /\ UNCHANGED <<now, status, rows, derived>>

StoreReport(r) ==
  LET q == call[r]
      id == NextId(reports) IN
  /\ q.pc = "report"
  /\ reports' = reports \union
       {[id |-> id, scope |-> q.scope, input |-> q.input, items |-> q.items,
         fresh |-> q.fresh, covered |-> q.covered, missing |-> q.missing]}
  /\ findings' = findings \union {[f EXCEPT !.report = id] : f \in q.findings}
  /\ Answer(r)
  /\ UNCHANGED <<now, status, rows, work>>

Tick ==
  /\ now < MaxTime /\ now' = now + 1
  /\ UNCHANGED <<status, rows, derived, call, work>>

\* A failed commit, a refused row or a process death rolls the request back.
RequestFails(r) ==
  /\ call[r] # Quiet /\ Answer(r)
  /\ UNCHANGED <<now, status, rows, derived, work>>

Classes == {"observed", "inferred", "hypothesis"}

Next ==
  \/ Tick
  \/ \E p \in Projects : CreateProject(p)
  \/ \E sub \in Submissions : CreateSource(sub)
  \/ \E s \in sources : \E claim \in Claims : CreateEvidence(s, claim)
  \/ \E s \in sources, p \in Present : \E page \in DOMAIN Pages : Collect(s, p, page)
  \/ \E p \in Present, cited \in SUBSET evidence, class \in Classes :
       CreateFinding(p, cited, class)
  \/ \E r \in Requests :
       \/ \E p \in Present : LoadProject(r, p)
       \/ \E name \in Names : CheckCompetitor(r, name)
       \/ \E project \in Present \union {NA} : ReadInputs(r, project)
       \/ StoreStatus(r) \/ StoreCompetitor(r) \/ StoreReport(r) \/ RequestFails(r)

Spec == Init /\ [][Next]_vars

-----------------------------------------------------------------------------
(* Properties.                                                             *)

\* What the schemas of requests and the collector let through.
Admissible ==
  /\ \A claim \in Claims : claim.class \in Classes
  /\ \A page \in DOMAIN Pages :
       Pages[page] \in Seq({Pages[page][i] : i \in DOMAIN Pages[page]})
  /\ MaxTime \in Nat /\ MaxWork \in Nat

\* Shape of the rows.
TypeOK ==
  /\ now \in 0..MaxTime /\ work \in 0..MaxWork
  /\ \A p \in Projects : status[p] \in {"absent"} \union DOMAIN Successors
  /\ \A s \in sources : s.id \in 1..Cardinality(sources) /\ s.of \in Submissions
  /\ \A e \in evidence :
       /\ e.id \in 1..Cardinality(evidence) /\ e.at \in 0..now /\ e.class \in Classes
       /\ \E s \in sources : s.id = e.source

\* A report that would be served again says what generating it now would say,
\* its age aside: whatever was stored or collected since, the items and the
\* coverage follow from the input it is recognised by.
ReportsAreCurrent == \A x \in reports :
  LET scoped == Scope(x.scope)
      from == SourcesOf(scoped) IN
  x.input = Input(scoped, from) =>
    /\ x.items = Items(scoped, from)
    /\ x.covered = Coverage(scoped, from) /\ x.missing = Missing(scoped, from)

\* A finding rests on stored evidence, one that a report generated on some of
\* its own project, and a report has an item for each.
FindingsAreGrounded == \A f \in findings :
  /\ f.project \in Present
  /\ f.cites # {} /\ \A id \in f.cites : \E e \in evidence : e.id = id
  /\ f.report # 0 =>
       /\ \E e \in evidence : e.id \in f.cites /\ e.project = f.project
       /\ \E x \in reports : x.id = f.report /\ \E i \in x.items : i.cites = f.cites

\* Two competitors differ by more than case, unless the request that stored one
\* of them could not see the other.
CompetitorsDiffer == \A a, b \in competitors :
  (a # b /\ Folded[a.name] = Folded[b.name]) => a.name \notin b.seen /\ b.name \notin a.seen

LibraryFits == TypeOK /\ FindingsAreGrounded /\ CompetitorsDiffer
=============================================================================
