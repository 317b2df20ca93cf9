--------------------------- MODULE CreativeLifecycle ---------------------------
(***************************************************************************)
(* From a decision plan to a closed creative test, for one business: plans *)
(* are assembled, people review their items, acknowledged items become     *)
(* draft tests, and a reviewed draft is activated and closed.              *)
(*                                                                         *)
(* Every handler is one transaction that reads first and commits last; two *)
(* requests interleave between the reads and the commit.                   *)
(***************************************************************************)
EXTENDS Naturals, Sequences, FiniteSets

CONSTANTS
  Requests,
  Opps,      \* opportunities, the items of plans
  Draftable, \* those whose category translates into a draft
  Facts,     \* optimization snapshots; each one gives one plan
  Items,     \* Items[f]: the opportunities in the plan of snapshot f
  NoFacts, NoOpp,
  MaxEvents  \* bound: requests and new snapshots

ASSUME CreativeAssumption ==
  /\ Draftable \subseteq Opps
  /\ Items \in [Facts -> SUBSET Opps]
  /\ NoFacts \notin Facts /\ NoOpp \notin Opps
  /\ MaxEvents \in Nat

VARIABLES
  facts,       \* the latest optimization snapshot
  plan,        \* creative_decision_plans: created_at by snapshot, 0 for none
  review,      \* creative_decision_item_reviews.review_state
  draftPlan,   \* creative_action_drafts: the plan it names, NoFacts for no row
  draftReview, \* creative_action_drafts.review_state
  test,        \* creative_tests.status
  hist,        \* creative_test_activations of the test, in commit order
  req,         \* the requests
  acked,       \* opportunities that were ever acknowledged
  cleared,     \* drafts that were ever acknowledged
  overtaken,   \* tests whose status was written from a stale read
  events

vars == <<facts, plan, review, draftPlan, draftReview, test, hist, req, acked,
          cleared, overtaken, events>>

drafts  == <<draftPlan, draftReview>>
tests   == <<test, hist, overtaken>>
history == <<acked, cleared>>

\* Proposed and deferred gate like dismissed; proposed is also the first state
\* of a draft.
Reviews  == {"proposed", "acknowledged", "dismissed"}
Statuses == {"draft", "active", "completed", "cancelled"}

\* LIFECYCLE_TRANSITIONS.
Transitions ==
  {<<"draft", "active">>, <<"active", "completed">>, <<"active", "cancelled">>}

Idle == [pc |-> "idle", at |-> 0, plan |-> NoFacts, opp |-> NoOpp, to |-> "none",
         was |-> "none", items |-> {}, known |-> {}]

TypeOK ==
  /\ facts \in Facts \cup {NoFacts}
  /\ plan \in [Facts -> 0..MaxEvents]
  /\ review \in [Opps -> Reviews \cup {"none"}]
  /\ draftPlan \in [Opps -> Facts \cup {NoFacts}]
  /\ draftReview \in [Opps -> Reviews \cup {"none"}]
  /\ test \in [Opps -> Statuses \cup {"absent"}]
  /\ hist \in [Opps ->
       Seq([from : Statuses, to : Statuses, plan : Facts \cup {NoFacts}])]
  /\ req \in [Requests ->
       [pc : {"idle", "plan", "storePlan", "review", "reviews", "lookup", "drafts",
              "draftReview", "check", "activate", "close"},
        at : 0..MaxEvents, plan : Facts \cup {NoFacts}, opp : Opps \cup {NoOpp},
        to : Reviews \cup Statuses \cup {"none"},
        was : Reviews \cup Statuses \cup {"none"},
        items : SUBSET Opps, known : SUBSET Opps]]
  /\ acked \subseteq Opps /\ cleared \subseteq Opps /\ overtaken \subseteq Opps
  /\ events \in 0..MaxEvents

Init ==
  /\ facts = NoFacts /\ plan = [f \in Facts |-> 0]
  /\ review = [o \in Opps |-> "none"]
  /\ draftPlan = [o \in Opps |-> NoFacts] /\ draftReview = [o \in Opps |-> "none"]
  /\ test = [o \in Opps |-> "absent"] /\ hist = [o \in Opps |-> <<>>]
  /\ req = [r \in Requests |-> Idle]
  /\ acked = {} /\ cleared = {} /\ overtaken = {} /\ events = 0

-----------------------------------------------------------------------------
(* Requests.                                                               *)

\* A request starts its transaction; `at` is the now() of all its rows.
Begin(r, rec) ==
  /\ req[r].pc = "idle"
  /\ events < MaxEvents /\ events' = events + 1
  /\ req' = [req EXCEPT ![r] = [rec EXCEPT !.at = events + 1]]
  /\ UNCHANGED <<facts, plan, review, drafts, tests, history>>

\* A read: the request goes on, nothing else changes.
Continue(r, rec) ==
  /\ req' = [req EXCEPT ![r] = rec]
  /\ UNCHANGED <<facts, plan, review, drafts, tests, history, events>>

\* The request is refused, fails or rolls back.
Refuse(r) == Continue(r, Idle)

\* The commit, and the end of the request.
Commit(r) == req' = [req EXCEPT ![r] = Idle] /\ UNCHANGED <<facts, events>>

\* What the optimization phase publishes is an input here.
Optimize(f) ==
  /\ f # facts
  /\ events < MaxEvents /\ events' = events + 1
  /\ facts' = f
  /\ UNCHANGED <<plan, review, drafts, tests, history, req>>

-----------------------------------------------------------------------------
(* Decision plans and their reviews.                                       *)

\* latest_plan: the newest created_at.
LatestPlan == {f \in Facts : plan[f] # 0 /\ \A g \in Facts : plan[g] <= plan[f]}

StartPlan(r) == Begin(r, [Idle EXCEPT !.pc = "plan"])

\* generate: the latest snapshot; a plan of it that exists is returned as is.
LookUpPlan(r) ==
  /\ req[r].pc = "plan"
  /\ IF facts = NoFacts \/ (facts # NoFacts /\ plan[facts] # 0)
     THEN Refuse(r)
     ELSE Continue(r, [req[r] EXCEPT !.pc = "storePlan", !.plan = facts])

\* A plan that another request stored meanwhile breaks the unique index.
StorePlan(r) ==
  LET f == req[r].plan IN
  /\ req[r].pc = "storePlan"
  /\ IF plan[f] # 0
     THEN Refuse(r)
     ELSE /\ plan' = [plan EXCEPT ![f] = req[r].at]
          /\ Commit(r) /\ UNCHANGED <<review, drafts, tests, history>>

\* upsert_review: the item has to be in the latest plan; its row is looked up.
StartReview(r, o, s) ==
  /\ \E f \in LatestPlan : o \in Items[f]
  /\ Begin(r, [Idle EXCEPT !.pc = "review", !.opp = o, !.to = s, !.was = review[o]])

\* A second insert meets the unique index; an update writes what changed.
StoreReview(r) ==
  LET o == req[r].opp  was == req[r].was  s == req[r].to IN
  /\ req[r].pc = "review"
  /\ IF was = "none" /\ review[o] # "none"
     THEN Refuse(r)
     ELSE /\ review' = [review EXCEPT ![o] = IF s = was THEN @ ELSE s]
          /\ acked' = IF s = "acknowledged" THEN acked \cup {o} ELSE acked
          /\ Commit(r) /\ UNCHANGED <<plan, drafts, tests, cleared>>

-----------------------------------------------------------------------------
(* Drafts.                                                                 *)

\* generate of the action service: the latest plan ...
StartDrafts(r) ==
  \E f \in LatestPlan : Begin(r, [Idle EXCEPT !.pc = "reviews", !.plan = f])

\* Mutant: every item that was reviewed becomes a draft.
ReadReviewsAny(r) ==
  /\ req[r].pc = "reviews"
  /\ \E items \in SUBSET {o \in Items[req[r].plan] \cap Draftable : review[o] # "none"} :
       Continue(r, [req[r] EXCEPT !.pc = "lookup", !.items = items])

\* ... the acknowledged reviews of its items, less the categories that are not
\* translated and the items whose context lacks a creative format ...
ReadReviews(r) ==
  /\ req[r].pc = "reviews"
  /\ \E items \in SUBSET {o \in Items[req[r].plan] \cap Draftable :
                            review[o] = "acknowledged"} :
       Continue(r, [req[r] EXCEPT !.pc = "lookup", !.items = items])

\* ... and the drafts that exist already.
LookUpDrafts(r) ==
  /\ req[r].pc = "lookup"
  /\ Continue(r, [req[r] EXCEPT !.pc = "drafts",
                                !.known = {o \in Opps : draftPlan[o] # NoFacts}])

\* Mutant: the draft names the latest plan, not the one its item came from.
StoreDraftsUnderLatest(r) ==
  LET new == req[r].items \ req[r].known IN
  /\ req[r].pc = "drafts"
  /\ IF \E o \in new : test[o] # "absent"
     THEN Refuse(r)
     ELSE /\ \E f \in LatestPlan :
               draftPlan' = [o \in Opps |-> IF o \in new THEN f ELSE draftPlan[o]]
          /\ draftReview' = [o \in Opps |-> IF o \in new THEN "proposed" ELSE draftReview[o]]
          /\ test' = [o \in Opps |-> IF o \in new THEN "draft" ELSE test[o]]
          /\ Commit(r) /\ UNCHANGED <<plan, review, hist, overtaken, history>>

\* One commit: a test and its draft row for each new item.  One that exists by
\* now breaks the unique index on test_id and rolls the whole request back.
StoreDrafts(r) ==
  LET new == req[r].items \ req[r].known
      For(new_value, old) == [o \in Opps |-> IF o \in new THEN new_value ELSE old[o]]
  IN
  /\ req[r].pc = "drafts"
  /\ IF \E o \in new : test[o] # "absent"
     THEN Refuse(r)
     ELSE /\ draftPlan' = For(req[r].plan, draftPlan)
          /\ draftReview' = For("proposed", draftReview)
          /\ test' = For("draft", test)
          /\ Commit(r) /\ UNCHANGED <<plan, review, hist, overtaken, history>>

\* review_draft: any state, whatever became of the test.
StartDraftReview(r, o, s) ==
  /\ draftPlan[o] # NoFacts
  /\ Begin(r, [Idle EXCEPT !.pc = "draftReview", !.opp = o, !.to = s, !.was = draftReview[o]])

StoreDraftReview(r) ==
  LET o == req[r].opp  s == req[r].to IN
  /\ req[r].pc = "draftReview"
  /\ draftReview' = [draftReview EXCEPT ![o] = IF s = req[r].was THEN @ ELSE s]
  /\ cleared' = IF s = "acknowledged" THEN cleared \cup {o} ELSE cleared
  /\ Commit(r) /\ UNCHANGED <<plan, review, draftPlan, tests, acked>>

-----------------------------------------------------------------------------
(* The lifecycle of a test.                                                *)

\* activate_draft: the draft's own review gates it ...
StartActivate(r, o) ==
  /\ draftReview[o] = "acknowledged"
  /\ Begin(r, [Idle EXCEPT !.pc = "check", !.opp = o, !.to = "active"])

\* Mutant: only the review is checked.
CheckReviewOnly(r) ==
  /\ req[r].pc = "check"
  /\ Continue(r, [req[r] EXCEPT !.pc = "activate", !.was = test[req[r].opp]])

\* ... and the test has no event yet and is a draft.
CheckTest(r) ==
  LET o == req[r].opp IN
  /\ req[r].pc = "check"
  /\ IF hist[o] = <<>> /\ test[o] = "draft"
     THEN Continue(r, [req[r] EXCEPT !.pc = "activate", !.was = test[o]])
     ELSE Refuse(r)

\* The status and its event are one commit; nothing guards the row.
Record(r, event) ==
  LET o == req[r].opp IN
  /\ test' = [test EXCEPT ![o] = event.to]
  /\ hist' = [hist EXCEPT ![o] = Append(@, event)]
  /\ overtaken' = IF test[o] = req[r].was THEN overtaken ELSE overtaken \cup {o}
  /\ Commit(r) /\ UNCHANGED <<plan, review, drafts, history>>

\* Mutant: the status is committed without its event.
ActivateSilently(r) ==
  /\ req[r].pc = "activate"
  /\ test' = [test EXCEPT ![req[r].opp] = "active"]
  /\ Commit(r) /\ UNCHANGED <<plan, review, drafts, hist, overtaken, history>>

Activate(r) ==
  /\ req[r].pc = "activate"
  /\ Record(r, [from |-> req[r].was, to |-> "active", plan |-> draftPlan[req[r].opp]])

\* transition_lifecycle, up to the check.
StartClose(r, o, s) ==
  /\ test[o] # "absent" /\ <<test[o], s>> \in Transitions /\ s # "active"
  /\ Begin(r, [Idle EXCEPT !.pc = "close", !.opp = o, !.to = s, !.was = test[o]])

\* The event takes its provenance from the activation; without one it would say
\* "unknown", which is NoFacts here.
Close(r) ==
  LET o == req[r].opp
      activations == {i \in DOMAIN hist[o] : hist[o][i].to = "active"}
  IN
  /\ req[r].pc = "close"
  /\ Record(r, [from |-> req[r].was, to |-> req[r].to,
                plan |-> IF activations = {} THEN NoFacts
                         ELSE hist[o][CHOOSE i \in activations : \A j \in activations : j <= i].plan])

RequestFails(r) == req[r].pc # "idle" /\ Refuse(r)

Next ==
  \/ \E f \in Facts : Optimize(f)
  \/ \E r \in Requests :
       \/ StartPlan(r) \/ LookUpPlan(r) \/ StorePlan(r)
       \/ \E o \in Opps, s \in Reviews : StartReview(r, o, s) \/ StartDraftReview(r, o, s)
       \/ StoreReview(r) \/ StartDrafts(r) \/ ReadReviews(r) \/ LookUpDrafts(r)
       \/ StoreDrafts(r) \/ StoreDraftReview(r)
       \/ \E o \in Opps : StartActivate(r, o) \/ \E s \in Statuses : StartClose(r, o, s)
       \/ CheckTest(r) \/ Activate(r) \/ Close(r) \/ RequestFails(r)

Spec == Init /\ [][Next]_vars

-----------------------------------------------------------------------------
(* Properties.                                                             *)

\* Nothing is executed that a person did not acknowledge, twice: a test exists
\* only for an opportunity that was acknowledged, and it left `draft` only
\* after its own draft was acknowledged too.
TwoStageReview ==
  \A o \in Opps :
    /\ test[o] # "absent" => o \in acked
    /\ test[o] \notin {"absent", "draft"} => o \in cleared

\* The plan that a draft names exists and holds its opportunity, whatever plan
\* became the latest while the draft was made.
PlanBehindDraft ==
  \A o \in Opps : test[o] # "absent" =>
    /\ draftPlan[o] \in Facts
    /\ plan[draftPlan[o]] # 0 /\ o \in Items[draftPlan[o]]

\* Every event names the plan of its draft, even when requests overlap: a test
\* is closed only when an activation is on record.  Status and history agree.
ProvenanceKnown ==
  \A o \in Opps :
    /\ \A i \in DOMAIN hist[o] : hist[o][i].plan = draftPlan[o]
    /\ test[o] \notin {"absent", "draft"} =>
         /\ hist[o] # <<>> /\ hist[o][1].to = "active"
         /\ hist[o][Len(hist[o])].to = test[o]

\* The history of a test is one legal path from `draft`: each event starts
\* where the one before ended.  Excepted are tests that a request wrote
\* from a status another request had replaced.
HistoryIsChain ==
  \A o \in Opps \ overtaken : \A i \in DOMAIN hist[o] :
    /\ <<hist[o][i].from, hist[o][i].to>> \in Transitions
    /\ hist[o][i].from = (IF i = 1 THEN "draft" ELSE hist[o][i-1].to)

\* A test, its draft, its plan and its history fit together.
TestsFit == TypeOK /\ PlanBehindDraft /\ ProvenanceKnown
===============================================================================
