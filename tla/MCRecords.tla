------------------------------- MODULE MCRecords -------------------------------
(* The records of a business: its catalog and its research library. They share *)
(* no row, so that a behaviour exercises one of them and their interleavings   *)
(* are left out. Two overlapping requests at a time, in any roles.             *)
EXTENDS Catalog, TLC

CONSTANTS NA, Projects, Names, Folded, Submissions, Pages, Claims, Recent, Ageing,
          MaxTime, MaxWork

VARIABLES now, status, competitors, sources, snapshots, evidence, findings, reports,
          call, work

Library == INSTANCE ResearchLibrary

ASSUME LibraryAssumption == Library!Admissible

library == <<now, status, competitors, sources, snapshots, evidence, findings,
             reports, call, work>>

MCDeltas == {-1, 1}

\* Two names that differ in case only.
MCFolded == ("Acme" :> "acme") @@ ("ACME" :> "acme")

\* A competitor's page, and a review with content.
MCSubmissions ==
  {[type |-> "website", domain |-> "shop", rival |-> NA, text |-> NA],
   [type |-> "review", domain |-> NA, rival |-> NA, text |-> "text"],
   [type |-> "website", domain |-> NA, rival |-> "Acme", text |-> NA]}

\* A page that says something and one that does not.
MCPages ==
  ("page1" :> <<[type |-> "pricing", statement |-> "s", price |-> 10]>>)
    @@ ("page2" :> <<>>)

MCClaims ==
  {[type |-> "pricing", statement |-> "s", class |-> "inferred", both |-> TRUE, price |-> 20],
   [type |-> "complaint", statement |-> "c", class |-> "observed", both |-> FALSE, price |-> NA]}

Symmetry == Permutations(Requests) \union Permutations(Projects)

\* Bounds: two sources, two rows of evidence, one finding by a person; what
\* nothing else reads (the status of a project, competitors that overlap, the
\* finding of a person) is exercised on its own.
Narrow ==
  LET moving == \/ \E p \in Projects : status'[p] \notin {"absent", "draft"}
                \/ \E r \in Requests : call'[r].pc = "status"
      naming == \/ \E r \in Requests : call'[r].pc = "competitor"
                \/ Cardinality(competitors') > 1
      found == \E f \in findings' : f.report = 0 IN
  /\ Cardinality(sources') <= 2 /\ Cardinality(evidence') <= 2
  /\ Cardinality({f \in findings' : f.report = 0}) <= 1
  /\ moving => sources' = {} /\ competitors' = {} /\ reports' = {} /\ now' = 0
  /\ naming => sources' = {} /\ reports' = {} /\ now' = 0
  /\ found => reports' = {} /\ competitors' = {} /\ now' = 0
                /\ \A r \in Requests : call'[r].pc = "idle"

MCInit == Init /\ Library!Init

MCNext ==
  \/ work = 0 /\ now = 0 /\ Next /\ UNCHANGED library
  \/ Started = 0 /\ Library!Next /\ Narrow /\ UNCHANGED vars

MCSpec == MCInit /\ [][MCNext]_<<vars, library>>

\* The properties of the library, by name.
ReportsAreCurrent == Library!ReportsAreCurrent
LibraryFits == Library!LibraryFits

===============================================================================
