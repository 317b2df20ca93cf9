--------------------------- MODULE DecisionProofs ---------------------------
(***************************************************************************)
(* Proofs about what the rules decide and what people decide of it: the    *)
(* creatives (CreativeLifecycle, for any number of requests, opportunities *)
(* and snapshots, then CreativeInsight, as Insight), and the diagnostics   *)
(* and recommendations (Recommendations, as Rules).                        *)
(*                                                                         *)
(* None of the properties is inductive.  A request acts on what it read:   *)
(* Justified says what still holds of those reads when it commits, because *)
(* plans, acknowledgements and tests only ever accumulate.  A snapshot is  *)
(* right of inputs that have since changed: SnapshotInv says what it keeps *)
(* of them, for the stored ones and for those about to be inserted.  Two   *)
(* rules agree because they read one set of facts: FactsHold says what the *)
(* tables admit, and that what is read of them is of these facts.          *)
(***************************************************************************)
EXTENDS CreativeLifecycle, CreativeLayers, Decisions, Integers, FiniteSetTheorems,
        WellFoundedInduction, TLAPS

USE CreativeAssumption

\* The reads of a request that no other request can take back.
Justified(x) ==
  /\ x.pc \in {"storePlan", "reviews", "lookup", "drafts"} => x.plan \in Facts
  /\ x.pc \in {"reviews", "lookup", "drafts"} => plan[x.plan] # 0
  /\ x.pc \in {"lookup", "drafts"} => x.items \subseteq Items[x.plan] \cap acked
  /\ x.pc \in {"review", "draftReview", "check", "activate", "close"} => x.opp \in Opps
  /\ x.pc \in {"review", "draftReview"} => x.to \in Reviews
  /\ x.pc \in {"check", "activate"} => x.opp \in cleared
  /\ x.pc = "activate" => x.was = "draft" /\ test[x.opp] # "absent"
  /\ x.pc = "close" =>
       /\ <<x.was, x.to>> \in Transitions /\ x.to # "active"
       /\ test[x.opp] \notin {"absent", "draft"}

AllJustified == \A r \in Requests : Justified(req[r])

\* The two bits of memory hold every review that now says acknowledged.
Remembered == \A o \in Opps :
  /\ review[o] = "acknowledged" => o \in acked
  /\ draftReview[o] = "acknowledged" => o \in cleared

\* A test without events is absent or a draft, and conversely.
Untouched == \A o \in Opps : test[o] \in {"absent", "draft"} <=> hist[o] = <<>>

Safe == /\ Remembered /\ Untouched /\ TwoStageReview /\ PlanBehindDraft
        /\ ProvenanceKnown /\ HistoryIsChain

-----------------------------------------------------------------------------
(* Types, with the sets of the fields by name.                             *)

Pcs == {"idle", "plan", "storePlan", "review", "reviews", "lookup", "drafts",
        "draftReview", "check", "activate", "close"}
Times    == 0..MaxEvents
AnyPlan  == Facts \cup {NoFacts}
AnyOpp   == Opps \cup {NoOpp}
AnyState == Reviews \cup Statuses \cup {"none"}
OppSets  == SUBSET Opps
Request  == [pc : Pcs, at : Times, plan : AnyPlan, opp : AnyOpp, to : AnyState,
             was : AnyState, items : OppSets, known : OppSets]
Event    == [from : Statuses, to : Statuses, plan : AnyPlan]

Typed ==
  /\ facts \in AnyPlan /\ plan \in [Facts -> Times]
  /\ review \in [Opps -> Reviews \cup {"none"}]
  /\ draftPlan \in [Opps -> AnyPlan] /\ draftReview \in [Opps -> Reviews \cup {"none"}]
  /\ test \in [Opps -> Statuses \cup {"absent"}] /\ hist \in [Opps -> Seq(Event)]
  /\ req \in [Requests -> Request]
  /\ acked \subseteq Opps /\ cleared \subseteq Opps /\ overtaken \subseteq Opps
  /\ events \in Times

LEMMA TypedIsTypeOK == Typed <=> TypeOK
  BY DEF Typed, TypeOK, Pcs, Times, AnyPlan, AnyOpp, AnyState, OppSets, Request, Event

LEMMA Members ==
  /\ Facts \subseteq AnyPlan /\ NoFacts \in AnyPlan
  /\ Opps \subseteq AnyOpp /\ NoOpp \in AnyOpp
  /\ Reviews \subseteq AnyState /\ Statuses \subseteq AnyState /\ "none" \in AnyState
  /\ {} \in OppSets /\ (\A S : S \subseteq Opps <=> S \in OppSets)
  /\ {"idle", "plan", "storePlan", "review", "reviews", "lookup", "drafts",
      "draftReview", "check", "activate", "close"} \subseteq Pcs
  /\ 0 \in Times /\ \A n \in Times : n < MaxEvents => n + 1 \in Times
BY DEF AnyPlan, AnyOpp, AnyState, OppSets, Pcs, Times

LEMMA IdleIsARequest == Idle \in Request /\ Justified(Idle)
BY Members DEF Idle, Request, Justified

-----------------------------------------------------------------------------
(* What requests read stays justified, whatever other requests commit.     *)

\* Plans, acknowledgements and tests accumulate.
Accumulate ==
  /\ \A f \in Facts : plan[f] # 0 => plan'[f] # 0
  /\ acked \subseteq acked' /\ cleared \subseteq cleared'
  /\ \A o \in Opps :
       /\ test[o] # "absent" => test'[o] # "absent"
       /\ test[o] \notin {"absent", "draft"} => test'[o] \notin {"absent", "draft"}

LEMMA StaysJustified ==
  ASSUME Typed, AllJustified, Accumulate, NEW r \in Requests,
         NEW x \in Request, req' = [req EXCEPT ![r] = x], Justified(req[r])'
  PROVE  AllJustified' /\ req' \in [Requests -> Request]
<1>1. \A q \in Requests : req'[q] = IF q = r THEN x ELSE req[q]  BY DEF Typed
<1>2. ASSUME NEW q \in Requests, q # r PROVE Justified(req[q])'
  <2>1. Justified(req[q]) /\ req'[q] = req[q]  BY <1>1, <1>2 DEF AllJustified
  <2> QED BY <2>1 DEF Justified, Accumulate
<1>3. req' \in [Requests -> Request]  BY DEF Typed
<1> QED BY <1>2, <1>3 DEF AllJustified

Rest == <<facts, plan, review, drafts, tests, history>>

LEMMA SafeStutters == ASSUME Safe, UNCHANGED Rest PROVE Safe'
<1>1. Remembered' BY DEF Safe, Remembered, Rest, history, drafts
<1>2. Untouched' BY DEF Safe, Untouched, Rest, tests
<1>3. TwoStageReview' BY DEF Safe, TwoStageReview, Rest, tests, history
<1>4. PlanBehindDraft' BY DEF Safe, PlanBehindDraft, Rest, tests, drafts
<1>5. ProvenanceKnown' BY DEF Safe, ProvenanceKnown, Rest, tests, drafts
<1>6. HistoryIsChain' BY DEF Safe, HistoryIsChain, Rest, tests
<1> QED BY <1>1, <1>2, <1>3, <1>4, <1>5, <1>6 DEF Safe

IInv == Typed /\ AllJustified /\ Safe

\* A request that only reads, from its start to its refusal.
LEMMA Reading ==
  ASSUME IInv, NEW r \in Requests, NEW x \in Request,
         req' = [req EXCEPT ![r] = x], UNCHANGED Rest, events' \in Times,
         Justified(x)
  PROVE  IInv'
<1>1. Accumulate BY DEF Accumulate, Rest, tests, history
<1>2. req'[r] = x BY DEF IInv, Typed
<1>3. Justified(req[r])' BY <1>2 DEF Justified, Rest, tests, history
<1>4. AllJustified' /\ req' \in [Requests -> Request]
  BY <1>1, <1>3, StaysJustified DEF IInv
<1>5. Typed' BY <1>4 DEF IInv, Typed, Rest, tests, drafts, history
<1>6. Safe' BY SafeStutters DEF IInv
<1> QED BY <1>4, <1>5, <1>6 DEF IInv

LEMMA Refusing ==
  ASSUME IInv, NEW r \in Requests, Refuse(r)
  PROVE  IInv'
<1>1. events' \in Times BY DEF Refuse, Continue, IInv, Typed
<1> QED BY <1>1, IdleIsARequest, Reading DEF Refuse, Continue, Rest

LEMMA Continuing ==
  ASSUME IInv, NEW r \in Requests, NEW x \in Request, Continue(r, x), Justified(x)
  PROVE  IInv'
<1>1. events' \in Times BY DEF Continue, IInv, Typed
<1> QED BY <1>1, Reading DEF Continue, Rest

LEMMA Beginning ==
  ASSUME IInv, NEW r \in Requests, NEW x \in Request, Begin(r, x),
         \A n \in Times : Justified([x EXCEPT !.at = n])
  PROVE  IInv'
<1>1. events \in Times /\ events < MaxEvents BY DEF Begin, IInv, Typed
<1>2. events + 1 \in Times BY <1>1, Members
<1>3. [x EXCEPT !.at = events + 1] \in Request BY <1>2 DEF Request
<1>4. events' \in Times BY <1>2 DEF Begin
<1> DEFINE y == [x EXCEPT !.at = events + 1]
<1>5. Justified(y) BY <1>2
<1>6. y \in Request /\ req' = [req EXCEPT ![r] = y] /\ UNCHANGED Rest
  BY <1>3 DEF Begin, Rest
<1> HIDE DEF y
<1> QED BY <1>4, <1>5, <1>6, Reading

-----------------------------------------------------------------------------
(* The handlers, up to their commits.                                      *)

LEMMA PlanReads ==
  ASSUME IInv, NEW r \in Requests, StartPlan(r) \/ LookUpPlan(r)
  PROVE  IInv'
<1>1. CASE StartPlan(r)
  <2> DEFINE x == [Idle EXCEPT !.pc = "plan"]
  <2>1. x \in Request BY IdleIsARequest, Members DEF Request
  <2>2. \A n \in Times : Justified([x EXCEPT !.at = n]) BY DEF Justified, Idle
  <2>3. Begin(r, x) BY <1>1 DEF StartPlan
  <2> HIDE DEF x
  <2> QED BY <2>1, <2>2, <2>3, Beginning
<1>2. CASE LookUpPlan(r)
  <2>1. CASE Refuse(r) BY <2>1, Refusing
  <2>2. CASE Continue(r, [req[r] EXCEPT !.pc = "storePlan", !.plan = facts])
             /\ facts # NoFacts
    <3> DEFINE x == [req[r] EXCEPT !.pc = "storePlan", !.plan = facts]
    <3>1. facts \in Facts /\ req[r] \in Request BY <2>2 DEF IInv, Typed, AnyPlan
    <3>2. x \in Request BY <3>1, Members DEF Request
    <3>3. Justified(x) BY <3>1 DEF Justified, Request
    <3> HIDE DEF x
    <3> QED BY <2>2, <3>2, <3>3, Continuing DEF x
  <2> QED BY <1>2, <2>1, <2>2 DEF LookUpPlan
<1> QED BY <1>1, <1>2

LEMMA ReviewReads ==
  ASSUME IInv, NEW r \in Requests, NEW o \in Opps, NEW s \in Reviews,
         StartReview(r, o, s) \/ StartDraftReview(r, o, s)
  PROVE  IInv'
<1>1. review[o] \in AnyState /\ draftReview[o] \in AnyState
  BY DEF IInv, Typed, AnyState
<1>2. CASE StartReview(r, o, s)
  <2> DEFINE x == [Idle EXCEPT !.pc = "review", !.opp = o, !.to = s, !.was = review[o]]
  <2>1. x \in Request BY <1>1, IdleIsARequest, Members DEF Request
  <2>2. \A n \in Times : Justified([x EXCEPT !.at = n]) BY DEF Justified, Idle
  <2> HIDE DEF x
  <2> QED BY <1>2, <2>1, <2>2, Beginning DEF StartReview, x
<1>3. CASE StartDraftReview(r, o, s)
  <2> DEFINE x == [Idle EXCEPT !.pc = "draftReview", !.opp = o, !.to = s,
                               !.was = draftReview[o]]
  <2>1. x \in Request BY <1>1, IdleIsARequest, Members DEF Request
  <2>2. \A n \in Times : Justified([x EXCEPT !.at = n]) BY DEF Justified, Idle
  <2> HIDE DEF x
  <2> QED BY <1>3, <2>1, <2>2, Beginning DEF StartDraftReview, x
<1> QED BY <1>2, <1>3

\* The latest plan exists; its acknowledged items were acknowledged once.
LEMMA DraftReads ==
  ASSUME IInv, NEW r \in Requests, StartDrafts(r) \/ ReadReviews(r) \/ LookUpDrafts(r)
  PROVE  IInv'
<1>1. CASE StartDrafts(r)
  <2>1. PICK f \in LatestPlan : Begin(r, [Idle EXCEPT !.pc = "reviews", !.plan = f])
    BY <1>1 DEF StartDrafts
  <2>2. f \in Facts /\ plan[f] # 0 BY <2>1 DEF LatestPlan
  <2> DEFINE x == [Idle EXCEPT !.pc = "reviews", !.plan = f]
  <2>3. x \in Request BY <2>2, IdleIsARequest, Members DEF Request
  <2>4. \A n \in Times : Justified([x EXCEPT !.at = n]) BY <2>2 DEF Justified, Idle
  <2> HIDE DEF x
  <2> QED BY <2>1, <2>3, <2>4, Beginning DEF x
<1>2. CASE ReadReviews(r)
  <2>1. PICK items \in SUBSET {o \in Items[req[r].plan] \cap Draftable :
                                review[o] = "acknowledged"} :
          Continue(r, [req[r] EXCEPT !.pc = "lookup", !.items = items])
    BY <1>2 DEF ReadReviews
  <2>2. req[r].pc = "reviews" /\ req[r] \in Request /\ Justified(req[r])
    BY <1>2 DEF ReadReviews, IInv, Typed, AllJustified
  <2>3. items \subseteq Opps BY <2>1
  <2>4. items \subseteq Items[req[r].plan] \cap acked
    BY <2>1, <2>3 DEF IInv, Safe, Remembered
  <2> DEFINE x == [req[r] EXCEPT !.pc = "lookup", !.items = items]
  <2>5. x \in Request BY <2>2, <2>3, Members DEF Request
  <2>6. Justified(x) BY <2>2, <2>4 DEF Justified, Request
  <2> HIDE DEF x
  <2> QED BY <2>1, <2>5, <2>6, Continuing DEF x
<1>3. CASE LookUpDrafts(r)
  <2> DEFINE known == {o \in Opps : draftPlan[o] # NoFacts}
             x == [req[r] EXCEPT !.pc = "drafts", !.known = known]
  <2>1. req[r].pc = "lookup" /\ req[r] \in Request /\ Justified(req[r])
    BY <1>3 DEF LookUpDrafts, IInv, Typed, AllJustified
  <2>2. known \in OppSets BY Members
  <2>3. Continue(r, x) BY <1>3 DEF LookUpDrafts
  <2> HIDE DEF known
  <2>4. x \in Request BY <2>1, <2>2, Members DEF Request
  <2>5. Justified(x) BY <2>1 DEF Justified, Request
  <2> HIDE DEF x
  <2> QED BY <2>3, <2>4, <2>5, Continuing
<1> QED BY <1>1, <1>2, <1>3

LEMMA LifecycleReads ==
  ASSUME IInv, NEW r \in Requests
  PROVE  /\ \A o \in Opps : StartActivate(r, o) => IInv'
         /\ CheckTest(r) => IInv'
         /\ \A o \in Opps, s \in Statuses : StartClose(r, o, s) => IInv'
<1>1. ASSUME NEW o \in Opps, StartActivate(r, o) PROVE IInv'
  <2> DEFINE x == [Idle EXCEPT !.pc = "check", !.opp = o, !.to = "active"]
  <2>1. o \in cleared BY <1>1 DEF StartActivate, IInv, Safe, Remembered
  <2>2. x \in Request BY IdleIsARequest, Members DEF Request, Statuses
  <2>3. \A n \in Times : Justified([x EXCEPT !.at = n]) BY <2>1 DEF Justified, Idle
  <2> HIDE DEF x
  <2> QED BY <1>1, <2>2, <2>3, Beginning DEF StartActivate, x
<1>2. ASSUME CheckTest(r) PROVE IInv'
  <2>1. CASE Refuse(r) BY <2>1, Refusing
  <2>2. CASE test[req[r].opp] = "draft" /\
             Continue(r, [req[r] EXCEPT !.pc = "activate", !.was = test[req[r].opp]])
    <3>1. req[r].pc = "check" /\ req[r] \in Request /\ Justified(req[r])
      BY <1>2 DEF CheckTest, IInv, Typed, AllJustified
    <3> DEFINE x == [req[r] EXCEPT !.pc = "activate", !.was = "draft"]
    <3>2. x \in Request BY <3>1, Members DEF Request, Statuses
    <3>3. Justified(x) BY <2>2, <3>1 DEF Justified, Request
    <3> HIDE DEF x
    <3> QED BY <2>2, <3>2, <3>3, Continuing DEF x
  <2> QED BY <1>2, <2>1, <2>2 DEF CheckTest
<1>3. ASSUME NEW o \in Opps, NEW s \in Statuses, StartClose(r, o, s) PROVE IInv'
  <2> DEFINE x == [Idle EXCEPT !.pc = "close", !.opp = o, !.to = s, !.was = test[o]]
  <2>1. test[o] \in Statuses /\ test[o] \notin {"absent", "draft"}
        /\ <<test[o], s>> \in Transitions /\ s # "active"
    BY <1>3 DEF StartClose, IInv, Typed, Transitions, Statuses
  <2>2. x \in Request BY <2>1, IdleIsARequest, Members DEF Request
  <2>3. \A n \in Times : Justified([x EXCEPT !.at = n]) BY <2>1 DEF Justified, Idle
  <2> HIDE DEF x
  <2> QED BY <1>3, <2>2, <2>3, Beginning DEF StartClose, x
<1> QED BY <1>1, <1>2, <1>3

-----------------------------------------------------------------------------
(* The commits.                                                            *)

LEMMA Committing ==
  ASSUME IInv, NEW r \in Requests, Commit(r), Accumulate
  PROVE  /\ AllJustified' /\ req' \in [Requests -> Request]
         /\ facts' = facts /\ events' = events
<1>1. req'[r] = Idle /\ req' = [req EXCEPT ![r] = Idle] BY DEF Commit, IInv, Typed
<1>2. Justified(req[r])' BY <1>1 DEF Justified, Idle
<1> QED BY <1>1, <1>2, IdleIsARequest, StaysJustified DEF IInv, Commit

LEMMA StorePlanStep ==
  ASSUME IInv, NEW r \in Requests, StorePlan(r)
  PROVE  IInv'
<1>1. CASE Refuse(r) BY <1>1, Refusing
<1>2. CASE ~Refuse(r)
  <2> DEFINE f == req[r].plan
  <2>1. f \in Facts /\ req[r].at \in Times /\ plan[f] = 0
        /\ plan' = [plan EXCEPT ![f] = req[r].at] /\ Commit(r)
        /\ UNCHANGED <<review, drafts, tests, history>>
    BY <1>2 DEF StorePlan, IInv, AllJustified, Justified, Typed, Request
  <2>2. \A g \in Facts : plan[g] # 0 => plan'[g] # 0 BY <2>1 DEF IInv, Typed
  <2>3. Accumulate BY <2>1, <2>2 DEF Accumulate, tests, history
  <2>4. Typed' BY <2>1, <2>3, Committing DEF IInv, Typed, drafts, tests, history
  <2>5. Safe'
    <3>1. Remembered' BY <2>1 DEF IInv, Safe, Remembered, drafts, history
    <3>2. Untouched' BY <2>1 DEF IInv, Safe, Untouched, tests
    <3>3. TwoStageReview' BY <2>1 DEF IInv, Safe, TwoStageReview, tests, history
    <3>4. PlanBehindDraft' BY <2>1, <2>2 DEF IInv, Safe, PlanBehindDraft, tests, drafts
    <3>5. ProvenanceKnown' BY <2>1 DEF IInv, Safe, ProvenanceKnown, tests, drafts
    <3>6. HistoryIsChain' BY <2>1 DEF IInv, Safe, HistoryIsChain, tests
    <3> QED BY <3>1, <3>2, <3>3, <3>4, <3>5, <3>6 DEF Safe
  <2> QED BY <2>1, <2>3, <2>4, <2>5, Committing DEF IInv
<1> QED BY <1>1, <1>2

LEMMA StoreReviewStep ==
  ASSUME IInv, NEW r \in Requests, StoreReview(r)
  PROVE  IInv'
<1>1. CASE Refuse(r) BY <1>1, Refusing
<1>2. CASE ~Refuse(r)
  <2> DEFINE at == req[r].opp
             to == req[r].to
  <2>1. /\ at \in Opps /\ to \in Reviews
        /\ review' = [review EXCEPT ![at] = IF to = req[r].was THEN review[at] ELSE to]
        /\ acked' = IF to = "acknowledged" THEN acked \cup {at} ELSE acked
        /\ Commit(r) /\ UNCHANGED <<plan, drafts, tests, cleared>>
    BY <1>2 DEF StoreReview, IInv, AllJustified, Justified
  <2>2. Accumulate BY <2>1 DEF Accumulate, tests
  <2> HIDE DEF at, to
  <2>3. Typed' BY <2>1, <2>2, Committing DEF IInv, Typed, drafts, tests
  <2>4. Safe'
    <3>1. Remembered' BY <2>1 DEF IInv, Typed, Safe, Remembered, drafts
    <3>2. Untouched' BY <2>1 DEF IInv, Safe, Untouched, tests
    <3>3. TwoStageReview' BY <2>1 DEF IInv, Safe, TwoStageReview, tests
    <3>4. PlanBehindDraft' BY <2>1 DEF IInv, Safe, PlanBehindDraft, tests, drafts
    <3>5. ProvenanceKnown' BY <2>1 DEF IInv, Safe, ProvenanceKnown, tests, drafts
    <3>6. HistoryIsChain' BY <2>1 DEF IInv, Safe, HistoryIsChain, tests
    <3> QED BY <3>1, <3>2, <3>3, <3>4, <3>5, <3>6 DEF Safe
  <2> QED BY <2>1, <2>2, <2>3, <2>4, Committing DEF IInv
<1> QED BY <1>1, <1>2

LEMMA StoreDraftReviewStep ==
  ASSUME IInv, NEW r \in Requests, StoreDraftReview(r)
  PROVE  IInv'
<1> DEFINE at == req[r].opp
           to == req[r].to
<1>1. /\ at \in Opps /\ to \in Reviews
      /\ draftReview' = [draftReview EXCEPT ![at] = IF to = req[r].was THEN draftReview[at] ELSE to]
      /\ cleared' = IF to = "acknowledged" THEN cleared \cup {at} ELSE cleared
      /\ Commit(r) /\ UNCHANGED <<plan, review, draftPlan, tests, acked>>
  BY DEF StoreDraftReview, IInv, AllJustified, Justified
<1>2. Accumulate BY <1>1 DEF Accumulate, tests
<1> HIDE DEF at, to
<1>3. Typed' BY <1>1, <1>2, Committing DEF IInv, Typed, tests
<1>4. Safe'
  <2>1. Remembered' BY <1>1 DEF IInv, Typed, Safe, Remembered
  <2>2. Untouched' BY <1>1 DEF IInv, Safe, Untouched, tests
  <2>3. TwoStageReview' BY <1>1 DEF IInv, Safe, TwoStageReview, tests
  <2>4. PlanBehindDraft' BY <1>1 DEF IInv, Safe, PlanBehindDraft, tests
  <2>5. ProvenanceKnown' BY <1>1 DEF IInv, Safe, ProvenanceKnown, tests
  <2>6. HistoryIsChain' BY <1>1 DEF IInv, Safe, HistoryIsChain, tests
  <2> QED BY <2>1, <2>2, <2>3, <2>4, <2>5, <2>6 DEF Safe
<1> QED BY <1>1, <1>2, <1>3, <1>4, Committing DEF IInv

\* The new drafts are acknowledged items of the plan that their rows name.
LEMMA StoreDraftsStep ==
  ASSUME IInv, NEW r \in Requests, StoreDrafts(r)
  PROVE  IInv'
<1>1. CASE Refuse(r) BY <1>1, Refusing
<1>2. CASE ~Refuse(r)
  <2> DEFINE new == req[r].items \ req[r].known
             p   == req[r].plan
  <2>1. /\ p \in Facts /\ plan[p] # 0 /\ new \subseteq Items[p] \cap acked
        /\ \A o \in new : test[o] = "absent"
        /\ draftPlan' = [o \in Opps |-> IF o \in new THEN p ELSE draftPlan[o]]
        /\ draftReview' = [o \in Opps |-> IF o \in new THEN "proposed" ELSE draftReview[o]]
        /\ test' = [o \in Opps |-> IF o \in new THEN "draft" ELSE test[o]]
        /\ Commit(r) /\ UNCHANGED <<plan, review, hist, overtaken, history>>
    BY <1>2 DEF StoreDrafts, IInv, AllJustified, Justified
  <2> HIDE DEF new, p
  <2>2. Accumulate BY <2>1 DEF Accumulate, history
  <2>3. Typed' BY <2>1, <2>2, Committing
        DEF IInv, Typed, AnyPlan, Reviews, Statuses, history
  <2>4. \A o \in new \cap Opps : hist[o] = <<>>
    BY <2>1 DEF IInv, Safe, Untouched
  <2>5. Safe'
    <3>1. Remembered' BY <2>1 DEF IInv, Safe, Remembered, history
    <3>2. Untouched' BY <2>1, <2>4 DEF IInv, Safe, Untouched
    <3>3. TwoStageReview' BY <2>1 DEF IInv, Safe, TwoStageReview, history
    <3>4. PlanBehindDraft' BY <2>1 DEF IInv, Safe, PlanBehindDraft
    <3>5. ProvenanceKnown' BY <2>1, <2>4 DEF IInv, Safe, ProvenanceKnown
    <3>6. HistoryIsChain' BY <2>1 DEF IInv, Safe, HistoryIsChain
    <3> QED BY <3>1, <3>2, <3>3, <3>4, <3>5, <3>6 DEF Safe
  <2> QED BY <2>1, <2>2, <2>3, <2>5, Committing DEF IInv
<1> QED BY <1>1, <1>2

-----------------------------------------------------------------------------
(* The lifecycle of a test.                                                *)

\* An event that continues the history from the status the request read.
LEMMA Recording ==
  ASSUME IInv, NEW r \in Requests, NEW o \in Opps, NEW e \in Event,
         o = req[r].opp, Record(r, e),
         test[o] # "absent", o \in cleared,
         e.plan = draftPlan[o], e.from = req[r].was,
         <<e.from, e.to>> \in Transitions,
         hist[o] = <<>> => e.to = "active"
  PROVE  IInv'
<1> DEFINE n == Len(hist[o])
           h == Append(hist[o], e)
<1>1. /\ test' = [test EXCEPT ![o] = e.to]
      /\ hist' = [hist EXCEPT ![o] = h]
      /\ overtaken' = IF test[o] = req[r].was THEN overtaken ELSE overtaken \cup {o}
      /\ Commit(r) /\ UNCHANGED <<plan, review, drafts, history>>
  BY DEF Record
<1>2. e.to \in Statuses /\ e.to \notin {"absent", "draft"}
  BY DEF Transitions, Statuses
<1>3. /\ h \in Seq(Event) /\ n \in Nat /\ Len(h) = n + 1 /\ h[n + 1] = e
      /\ DOMAIN hist[o] = 1..n /\ DOMAIN h = 1..(n + 1)
      /\ \A i \in 1..n : h[i] = hist[o][i]
      /\ hist[o] = <<>> <=> n = 0
  BY DEF IInv, Typed
<1> HIDE DEF n, h
<1>4. /\ \A p \in Opps : hist'[p] = IF p = o THEN h ELSE hist[p]
      /\ \A p \in Opps : test'[p] = IF p = o THEN e.to ELSE test[p]
  BY <1>1 DEF IInv, Typed
<1>5. Accumulate BY <1>1, <1>2, <1>4 DEF Accumulate, history
<1>6. Typed' BY <1>1, <1>2, <1>3, <1>5, Committing DEF IInv, Typed, drafts, history
<1>7. hist'[o] # <<>> BY <1>3, <1>4
<1>8. Safe'
  <2>1. Remembered' BY <1>1 DEF IInv, Safe, Remembered, drafts, history
  <2>2. Untouched' BY <1>2, <1>4, <1>7 DEF IInv, Safe, Untouched
  <2>3. TwoStageReview' BY <1>1, <1>4 DEF IInv, Safe, TwoStageReview, history
  <2>4. PlanBehindDraft' BY <1>1, <1>4 DEF IInv, Safe, PlanBehindDraft, drafts
  <2>5. ProvenanceKnown'
    <3>1. \A i \in 1..n : hist[o][i].plan = draftPlan[o]
      BY <1>3 DEF IInv, Safe, ProvenanceKnown
    <3>2. \A i \in 1..(n + 1) : h[i].plan = draftPlan[o]
      <4>1. \A i \in 1..(n + 1) : i \in 1..n \/ i = n + 1 BY <1>3
      <4> QED BY <3>1, <1>3, <4>1
    <3>3. h[1].to = "active"
      <4>1. CASE n = 0 BY <1>3, <4>1
      <4>2. CASE n # 0
        <5>1. hist[o][1].to = "active"
          BY <1>3, <4>2 DEF IInv, Safe, Untouched, ProvenanceKnown
        <5>2. 1 \in 1..n BY <1>3, <4>2
        <5> QED BY <5>1, <5>2, <1>3
      <4> QED BY <4>1, <4>2
    <3>4. h # <<>> /\ h[Len(h)].to = e.to BY <1>3
    <3>5. ASSUME NEW p \in Opps
          PROVE  (/\ \A i \in DOMAIN hist[p] : hist[p][i].plan = draftPlan[p]
                  /\ test[p] \notin {"absent", "draft"} =>
                       /\ hist[p] # <<>> /\ hist[p][1].to = "active"
                       /\ hist[p][Len(hist[p])].to = test[p])'
      <4>1. CASE p = o BY <1>1, <1>3, <1>4, <3>2, <3>3, <3>4, <4>1 DEF drafts
      <4>2. CASE p # o BY <1>1, <1>4, <4>2 DEF IInv, Safe, ProvenanceKnown, drafts
      <4> QED BY <4>1, <4>2
    <3> QED BY <3>5 DEF ProvenanceKnown
  <2>6. HistoryIsChain'
    <3>1. SUFFICES ASSUME NEW p \in Opps, p \notin overtaken', NEW i \in DOMAIN hist'[p]
          PROVE  /\ <<hist'[p][i].from, hist'[p][i].to>> \in Transitions
                 /\ hist'[p][i].from = (IF i = 1 THEN "draft" ELSE hist'[p][i-1].to)
      BY DEF HistoryIsChain
    <3>2. p \notin overtaken BY <1>1, <3>1
    <3>3. CASE p # o BY <1>4, <3>2, <3>3 DEF IInv, Safe, HistoryIsChain
    <3>4. CASE p = o /\ i \in 1..n
      <4>1. hist'[p][i] = hist[o][i] BY <3>4, <1>3, <1>4
      <4>2. i # 1 => hist'[p][i-1] = hist[o][i-1]
        <5>1. i # 1 => i - 1 \in 1..n BY <3>4, <1>3
        <5> QED BY <5>1, <3>4, <1>3, <1>4
      <4>3. /\ <<hist[o][i].from, hist[o][i].to>> \in Transitions
            /\ hist[o][i].from = (IF i = 1 THEN "draft" ELSE hist[o][i-1].to)
        <5>1. o \notin overtaken /\ i \in DOMAIN hist[o]  BY <3>2, <3>4, <1>3
        <5>2. HistoryIsChain BY DEF IInv, Safe
        <5> QED BY <5>1, <5>2 DEF HistoryIsChain
      <4> QED BY <4>1, <4>2, <4>3
    <3>5. CASE p = o /\ i = n + 1
      <4>1. hist'[p][i] = e BY <3>5, <1>3, <1>4
      <4>2. e.from = test[o] BY <1>1, <3>1, <3>5
      <4>3. CASE n = 0
        <5>1. e.from = "draft" BY <4>2, <4>3, <1>3 DEF IInv, Safe, Untouched
        <5> QED BY <4>1, <4>3, <5>1, <3>5
      <4>4. CASE n # 0
        <5>1. test[o] \notin {"absent", "draft"}
          BY <1>3, <4>4 DEF IInv, Safe, Untouched
        <5>2. hist[o][n].to = test[o]
          BY <5>1 DEF IInv, Safe, ProvenanceKnown, n
        <5>3. n \in 1..n /\ i - 1 = n /\ i # 1 BY <1>3, <3>5, <4>4
        <5>4. hist'[p][i-1] = hist[o][n] BY <5>3, <3>5, <1>3, <1>4
        <5> QED BY <4>1, <4>2, <5>2, <5>3, <5>4
      <4> QED BY <4>3, <4>4
    <3> QED
      <4>1. p = o => i \in 1..n \/ i = n + 1
        <5>1. p = o => i \in 1..(n + 1) BY <1>3, <1>4
        <5> QED BY <5>1, <1>3
      <4> QED BY <3>3, <3>4, <3>5, <4>1
  <2> QED BY <2>1, <2>2, <2>3, <2>4, <2>5, <2>6 DEF Safe
<1> QED BY <1>1, <1>5, <1>6, <1>8, Committing DEF IInv

LEMMA ActivateStep ==
  ASSUME IInv, NEW r \in Requests, Activate(r)
  PROVE  IInv'
<1> DEFINE o == req[r].opp
           e == [from |-> req[r].was, to |-> "active", plan |-> draftPlan[o]]
<1>1. /\ o \in Opps /\ o \in cleared /\ req[r].was = "draft" /\ test[o] # "absent"
  BY DEF Activate, IInv, AllJustified, Justified
<1>2. e \in Event BY <1>1 DEF Event, IInv, Typed, Statuses
<1>3. /\ e.plan = draftPlan[o] /\ e.from = req[r].was /\ e.to = "active"
      /\ <<e.from, e.to>> \in Transitions
  BY <1>1 DEF Transitions
<1>4. Record(r, e) BY DEF Activate
<1> HIDE DEF o, e
<1>5. o = req[r].opp BY DEF o
<1> QED BY <1>1, <1>2, <1>3, <1>4, <1>5, Recording

\* A nonempty set of positions has a last one: the first of its mirror image.
LEMMA Largest ==
  ASSUME NEW n \in Nat, NEW S, S \subseteq 1..n, S # {}
  PROVE  \E i \in S : \A j \in S : j <= i
<1> DEFINE flip(i) == n - i  mirror == {flip(i) : i \in S}
<1>1. \A i \in S : i \in Nat /\ flip(i) \in Nat /\ flip(i) \in mirror OBVIOUS
<1>2. mirror \subseteq Nat /\ mirror # {} BY <1>1
<1>3. \A x, y \in Nat : <<y, x>> \notin OpToRel(<, Nat) => x <= y BY DEF OpToRel
<1> HIDE DEF mirror
<1>4. PICK m \in mirror : \A y \in mirror : m <= y
  BY <1>2, <1>3, NatLessThanWellFounded, WFMin
<1>5. PICK i \in S : m = flip(i) BY DEF mirror
<1>6. \A j \in S : flip(i) <= flip(j) BY <1>1, <1>4, <1>5
<1> QED BY <1>1, <1>6

\* A test that may be closed has an activation on record, so that the event
\* never says "unknown".
LEMMA CloseStep ==
  ASSUME IInv, NEW r \in Requests, Close(r)
  PROVE  IInv'
<1> DEFINE o == req[r].opp
           activations == {i \in DOMAIN hist[o] : hist[o][i].to = "active"}
           last == CHOOSE i \in activations : \A j \in activations : j <= i
           source == IF activations = {} THEN NoFacts ELSE hist[o][last].plan
           e == [from |-> req[r].was, to |-> req[r].to, plan |-> source]
<1>1. /\ o \in Opps /\ <<req[r].was, req[r].to>> \in Transitions
      /\ test[o] \notin {"absent", "draft"}
  BY DEF Close, IInv, AllJustified, Justified
<1>2. /\ hist[o] \in Seq(Event) /\ Len(hist[o]) \in Nat
      /\ DOMAIN hist[o] = 1..Len(hist[o]) /\ hist[o] # <<>>
      /\ hist[o][1].to = "active" /\ o \in cleared
  BY <1>1 DEF IInv, Typed, Safe, ProvenanceKnown, TwoStageReview
<1>3. Len(hist[o]) # 0 /\ 1 \in DOMAIN hist[o] BY <1>2
<1>4. activations # {} /\ activations \subseteq 1..Len(hist[o]) BY <1>2, <1>3
<1>5. Record(r, e) BY DEF Close
<1> HIDE DEF activations
<1>6. last \in activations BY <1>2, <1>4, Largest
<1>7. last \in DOMAIN hist[o] BY <1>2, <1>4, <1>6
<1>8. source = draftPlan[o] BY <1>1, <1>4, <1>7 DEF IInv, Safe, ProvenanceKnown
<1>9. draftPlan[o] \in AnyPlan BY <1>1 DEF IInv, Typed
<1>10. req[r].was \in Statuses /\ req[r].to \in Statuses
  BY <1>1 DEF Transitions, Statuses
<1> HIDE DEF last, source
<1>11. e \in Event BY <1>8, <1>9, <1>10 DEF Event
<1>12. /\ e.plan = draftPlan[o] /\ e.from = req[r].was
       /\ <<e.from, e.to>> \in Transitions
  BY <1>1, <1>8
<1>13. test[o] # "absent" /\ hist[o] # <<>> BY <1>1, <1>2
<1> HIDE DEF o, e
<1>14. o = req[r].opp BY DEF o
<1> QED BY <1>1, <1>2, <1>5, <1>11, <1>12, <1>13, <1>14, Recording

-----------------------------------------------------------------------------
(* The invariant, and the theorems.                                        *)

LEMMA OptimizeStep ==
  ASSUME IInv, NEW f \in Facts, Optimize(f)
  PROVE  IInv'
<1>1. events + 1 \in Times BY Members DEF Optimize, IInv, Typed
<1>2. Typed' BY <1>1, Members DEF Optimize, IInv, Typed, drafts, tests, history
<1>3. AllJustified'
  BY DEF Optimize, IInv, AllJustified, Justified, tests, history
<1>4. Safe'
  <2>1. Remembered' BY DEF Optimize, IInv, Safe, Remembered, history, drafts
  <2>2. Untouched' BY DEF Optimize, IInv, Safe, Untouched, tests
  <2>3. TwoStageReview' BY DEF Optimize, IInv, Safe, TwoStageReview, tests, history
  <2>4. PlanBehindDraft' BY DEF Optimize, IInv, Safe, PlanBehindDraft, tests, drafts
  <2>5. ProvenanceKnown' BY DEF Optimize, IInv, Safe, ProvenanceKnown, tests, drafts
  <2>6. HistoryIsChain' BY DEF Optimize, IInv, Safe, HistoryIsChain, tests
  <2> QED BY <2>1, <2>2, <2>3, <2>4, <2>5, <2>6 DEF Safe
<1> QED BY <1>2, <1>3, <1>4 DEF IInv

LEMMA Initially == Init => IInv
<1> SUFFICES ASSUME Init PROVE IInv OBVIOUS
<1>1. Typed BY Members, IdleIsARequest DEF Init, Typed, Reviews, Statuses
<1>2. AllJustified BY IdleIsARequest DEF Init, AllJustified
<1>3. Safe
  BY DEF Init, Safe, Remembered, Untouched, TwoStageReview, PlanBehindDraft,
         ProvenanceKnown, HistoryIsChain
<1> QED BY <1>1, <1>2, <1>3 DEF IInv

LEMMA Stuttering == ASSUME IInv, UNCHANGED vars PROVE IInv'
<1>1. UNCHANGED Rest /\ req' = req /\ events' = events
  BY DEF vars, Rest, drafts, tests, history
<1>2. Typed' BY <1>1 DEF IInv, Typed, Rest, drafts, tests, history
<1>3. AllJustified' BY <1>1 DEF IInv, AllJustified, Justified, Rest, tests, history
<1> QED BY <1>1, <1>2, <1>3, SafeStutters DEF IInv

LEMMA Step == IInv /\ [Next]_vars => IInv'
<1> SUFFICES ASSUME IInv, [Next]_vars PROVE IInv' OBVIOUS
<1>1. ASSUME NEW f \in Facts, Optimize(f) PROVE IInv' BY <1>1, OptimizeStep
<1>2. ASSUME NEW r \in Requests, StartPlan(r) \/ LookUpPlan(r) PROVE IInv'
  BY <1>2, PlanReads
<1>3. ASSUME NEW r \in Requests, StorePlan(r) PROVE IInv' BY <1>3, StorePlanStep
<1>4. ASSUME NEW r \in Requests, NEW o \in Opps, NEW s \in Reviews,
             StartReview(r, o, s) \/ StartDraftReview(r, o, s) PROVE IInv'
  BY <1>4, ReviewReads
<1>5. ASSUME NEW r \in Requests, StoreReview(r) PROVE IInv' BY <1>5, StoreReviewStep
<1>6. ASSUME NEW r \in Requests, StartDrafts(r) \/ ReadReviews(r) \/ LookUpDrafts(r)
      PROVE IInv'
  BY <1>6, DraftReads
<1>7. ASSUME NEW r \in Requests, StoreDrafts(r) PROVE IInv' BY <1>7, StoreDraftsStep
<1>8. ASSUME NEW r \in Requests, StoreDraftReview(r) PROVE IInv'
  BY <1>8, StoreDraftReviewStep
<1>9. ASSUME NEW r \in Requests, NEW o \in Opps, StartActivate(r, o) PROVE IInv'
  BY <1>9, LifecycleReads
<1>10. ASSUME NEW r \in Requests, CheckTest(r) PROVE IInv' BY <1>10, LifecycleReads
<1>11. ASSUME NEW r \in Requests, NEW o \in Opps, NEW s \in Statuses, StartClose(r, o, s)
       PROVE IInv'
  BY <1>11, LifecycleReads
<1>12. ASSUME NEW r \in Requests, Activate(r) PROVE IInv' BY <1>12, ActivateStep
<1>13. ASSUME NEW r \in Requests, Close(r) PROVE IInv' BY <1>13, CloseStep
<1>14. ASSUME NEW r \in Requests, RequestFails(r) PROVE IInv'
  BY <1>14, Refusing DEF RequestFails
<1>15. CASE UNCHANGED vars BY <1>15, Stuttering
<1> QED BY <1>1, <1>2, <1>3, <1>4, <1>5, <1>6, <1>7, <1>8, <1>9, <1>10, <1>11, <1>12,
           <1>13, <1>14, <1>15 DEF Next

LEMMA Invariance == Spec => []IInv
BY Initially, Step, PTL DEF Spec

\* A test exists only for an opportunity that a person acknowledged, and left
\* `draft` only after its own draft was acknowledged (action/service.py, generate
\* and activate_draft).
THEOREM NothingUnreviewed == Spec => []TwoStageReview
<1>1. IInv => TwoStageReview BY DEF IInv, Safe
<1> QED BY <1>1, Invariance, PTL

\* The draft of a test names the stored plan that holds its opportunity, and
\* every event of the test names that plan; its last event gives its status
\* (action/service.py, transition_lifecycle).
THEOREM ProvenanceIsKept == Spec => []TestsFit
<1>1. IInv => TestsFit BY TypedIsTypeOK DEF IInv, Safe, TestsFit
<1> QED BY <1>1, Invariance, PTL

\* The history of a test that no request wrote from a stale status is a legal
\* path from `draft` (LIFECYCLE_TRANSITIONS).
THEOREM HistoryIsLegal == Spec => []HistoryIsChain
<1>1. IInv => HistoryIsChain BY DEF IInv, Safe
<1> QED BY <1>1, Invariance, PTL

-----------------------------------------------------------------------------
(* The layers above the linked creatives: sums, rules, plans, snapshots.   *)

LEMMA SameNotions ==
  ASSUME NEW S
  PROVE  /\ Insight!Cardinality(S) = Cardinality(S)
         /\ Insight!IsFiniteSet(S) <=> IsFiniteSet(S)
BY DEF Insight!Cardinality, Cardinality, Insight!IsFiniteSet, IsFiniteSet

\* Of a family of subsets of a finite set one has no other below it.
LEMMA Minimal ==
  ASSUME NEW S, IsFiniteSet(S), NEW family, family \subseteq SUBSET S, family # {}
  PROVE  \E s \in family : \A t \in family : ~(t \subseteq s /\ t # s)
<1>1. \A T \in SUBSET S : IsFiniteSet(T) BY FS_Subset
<1>2. family \subseteq FiniteSubsetsOf(S) BY <1>1 DEF FiniteSubsetsOf
<1>3. IsWellFoundedOn(StrictSubsetOrdering(S), FiniteSubsetsOf(S))
  BY FS_StrictSubsetOrderingWellFounded
<1>4. PICK s \in family : \A t \in family : <<t, s>> \notin StrictSubsetOrdering(S)
  BY <1>2, <1>3, WFMin
<1>5. ASSUME NEW t \in family, t \subseteq s, t # s PROVE FALSE
  <2>1. t \in SUBSET S /\ s \in SUBSET S BY <1>5
  <2>2. <<t, s>> \in StrictSubsetOrdering(S) BY <1>5, <2>1 DEF StrictSubsetOrdering
  <2> QED BY <1>4, <2>2
<1> QED
  <2> WITNESS s \in family
  <2> QED BY <1>5

\* The recursion that a sum is evaluated by.
First(s) == CHOOSE x \in s : TRUE
Remainder(s) == s \ {First(s)}
Adds(g, f, U) == g = [s \in SUBSET U |-> IF s = {} THEN 0 ELSE f[First(s)] + g[Remainder(s)]]

LEMMA Recurs ==
  ASSUME NEW f, NEW S
  PROVE  Insight!SumFunctionOnSet(f, S) = (CHOOSE g : Adds(g, f, S))[S]
BY DEF Insight!SumFunctionOnSet, Insight!FoldFunctionOnSet, Insight!MapThenFoldSet,
   Adds, First, Remainder

LEMMA RestIsLess ==
  ASSUME NEW s, s # {}
  PROVE  First(s) \in s /\ Remainder(s) \subseteq s /\ Remainder(s) # s
BY DEF First, Remainder

LEMMA OneValue ==
  ASSUME NEW S, IsFiniteSet(S), NEW f, NEW U \in SUBSET S, NEW V \in SUBSET S,
         NEW g, Adds(g, f, U), NEW h, Adds(h, f, V)
  PROVE  \A s \in SUBSET (U \cap V) : g[s] = h[s]
<1> DEFINE bad == {s \in SUBSET (U \cap V) : g[s] # h[s]}
<1> SUFFICES ASSUME bad # {} PROVE FALSE OBVIOUS
<1>1. bad \subseteq SUBSET S OBVIOUS
<1>2. PICK s \in bad : \A t \in bad : ~(t \subseteq s /\ t # s)
  <2> HIDE DEF bad
  <2> QED BY <1>1, Minimal
<1>3. s \in SUBSET U /\ s \in SUBSET V /\ g[s] # h[s] OBVIOUS
<1>4. g[s] = IF s = {} THEN 0 ELSE f[First(s)] + g[Remainder(s)] BY <1>3 DEF Adds
<1>5. h[s] = IF s = {} THEN 0 ELSE f[First(s)] + h[Remainder(s)] BY <1>3 DEF Adds
<1>6. s # {} BY <1>3, <1>4, <1>5
<1>7. g[Remainder(s)] = h[Remainder(s)] BY <1>2, <1>3, <1>6, RestIsLess
<1> QED BY <1>3, <1>4, <1>5, <1>7

LEMMA SumsExist ==
  ASSUME NEW S, IsFiniteSet(S), NEW f
  PROVE  \A U \in SUBSET S : \E g : Adds(g, f, U)
<1> DEFINE bad == {U \in SUBSET S : ~\E g : Adds(g, f, U)}
<1> SUFFICES ASSUME bad # {} PROVE FALSE OBVIOUS
<1>1. PICK U \in bad : \A t \in bad : ~(t \subseteq U /\ t # U)
  <2> HIDE DEF bad
  <2>1. bad \subseteq SUBSET S BY DEF bad
  <2> QED BY <2>1, Minimal
<1> DEFINE of(t) == CHOOSE g : Adds(g, f, t)
<1>2. U \in SUBSET S OBVIOUS
<1>3. ASSUME NEW t \in SUBSET U, t # U PROVE Adds(of(t), f, t)
  <2>1. \E g : Adds(g, f, t) BY <1>1, <1>2, <1>3
  <2> QED BY <2>1
<1> HIDE DEF of
<1> DEFINE sum(s) == IF s = {} THEN 0 ELSE f[First(s)] + of(Remainder(s))[Remainder(s)]
           h == [s \in SUBSET U |-> sum(s)]
<1>4. ASSUME NEW s \in SUBSET U, s # U PROVE sum(s) = of(s)[s]
  <2>1. of(s)[s] = IF s = {} THEN 0 ELSE f[First(s)] + of(s)[Remainder(s)]
    BY <1>3, <1>4 DEF Adds
  <2>2. CASE s = {} BY <2>1, <2>2
  <2>3. CASE s # {}
    <3>1. Remainder(s) \in SUBSET s /\ Remainder(s) \in SUBSET U /\ Remainder(s) # U
      BY <1>4, <2>3, RestIsLess
    <3>2. Adds(of(s), f, s) /\ Adds(of(Remainder(s)), f, Remainder(s))
      BY <1>3, <1>4, <3>1
    <3>3. Remainder(s) \in SUBSET (s \cap Remainder(s)) BY <3>1
    <3>4. s \in SUBSET S /\ Remainder(s) \in SUBSET S BY <1>2, <3>1
    <3>5. \A t \in SUBSET (s \cap Remainder(s)) : of(s)[t] = of(Remainder(s))[t]
      BY <3>2, <3>4, OneValue
    <3>6. of(s)[Remainder(s)] = of(Remainder(s))[Remainder(s)] BY <3>3, <3>5
    <3> QED BY <2>1, <2>3, <3>6
  <2> QED BY <2>2, <2>3
<1>5. ASSUME NEW s \in SUBSET U
      PROVE  h[s] = IF s = {} THEN 0 ELSE f[First(s)] + h[Remainder(s)]
  <2>1. CASE s = {} BY <2>1
  <2>2. CASE s # {}
    <3>1. Remainder(s) \in SUBSET U /\ Remainder(s) # U BY <1>5, <2>2, RestIsLess
    <3>2. h[Remainder(s)] = sum(Remainder(s)) BY <3>1
    <3>3. h[Remainder(s)] = of(Remainder(s))[Remainder(s)] BY <1>4, <3>1, <3>2
    <3>4. h[s] = sum(s) OBVIOUS
    <3> QED BY <2>2, <3>3, <3>4
  <2> QED BY <2>1, <2>2
<1>6. h = [s \in SUBSET U |-> h[s]] OBVIOUS
<1> HIDE DEF h
<1>7. Adds(h, f, U) BY <1>5, <1>6 DEF Adds
<1> QED BY <1>2, <1>7

\* A sum of members of a set that addition does not leave is in the set.
LEMMA SumStays ==
  ASSUME NEW S, IsFiniteSet(S), NEW f, NEW T, 0 \in T, \A a, b \in T : a + b \in T,
         \A x \in S : f[x] \in T
  PROVE  Insight!SumFunctionOnSet(f, S) \in T
<1> DEFINE g == CHOOSE g : Adds(g, f, S)
           bad == {s \in SUBSET S : g[s] \notin T}
<1>1. Adds(g, f, S) BY SumsExist
<1> HIDE DEF g
<1>2. bad = {}
  <2> SUFFICES ASSUME bad # {} PROVE FALSE OBVIOUS
  <2>1. PICK s \in bad : \A t \in bad : ~(t \subseteq s /\ t # s)
    <3> HIDE DEF bad
    <3>1. bad \subseteq SUBSET S BY DEF bad
    <3> QED BY <3>1, Minimal
  <2>2. g[s] = IF s = {} THEN 0 ELSE f[First(s)] + g[Remainder(s)] BY <1>1 DEF Adds
  <2>3. s # {} BY <2>2
  <2>4. g[Remainder(s)] \in T BY <2>1, <2>3, RestIsLess
  <2>5. f[First(s)] \in T BY <2>3, RestIsLess
  <2> QED BY <2>2, <2>3, <2>4, <2>5
<1>3. g[S] \in T BY <1>2
<1> QED BY <1>3, Recurs DEF g
-----------------------------------------------------------------------------
(* Integers: a bounded set has a greatest element, a finite one a bound.   *)

LEMMA GreatestIs ==
  ASSUME NEW S, S \subseteq Int, S # {}, NEW b \in Int, \A x \in S : x <= b
  PROVE  \E m \in S : \A x \in S : x <= m
<1> DEFINE T == {b - x : x \in S}
<1>1. T \subseteq Nat /\ T # {}
  <2>1. \A x \in S : b - x \in Nat /\ b - x \in T OBVIOUS
  <2> QED BY <2>1
<1>2. PICK n \in T : \A k \in T : <<k, n>> \notin OpToRel(<, Nat)
  <2> HIDE DEF T
  <2> QED BY <1>1, NatLessThanWellFounded, WFMin
<1>3. PICK m \in S : n = b - m OBVIOUS
<1>4. ASSUME NEW x \in S PROVE x <= m
  <2>1. b - x \in T OBVIOUS
  <2>2. <<b - x, n>> \notin OpToRel(<, Nat) BY <1>2, <2>1
  <2>3. b - x \in Nat /\ n \in Nat BY <1>1, <2>1
  <2>4. ~(b - x < n) BY <2>2, <2>3 DEF OpToRel
  <2> QED BY <1>3, <2>4
<1> QED BY <1>4

LEMMA FiniteIsBounded ==
  ASSUME NEW S, IsFiniteSet(S), \A x \in S : x \in Int
  PROVE  \E b \in Int : \A x \in S : x <= b
<1> DEFINE bad == {s \in SUBSET S : ~\E b \in Int : \A x \in s : x <= b}
<1> SUFFICES ASSUME bad # {} PROVE FALSE OBVIOUS
<1>1. PICK s \in bad : \A t \in bad : ~(t \subseteq s /\ t # s)
  <2> HIDE DEF bad
  <2>1. bad \subseteq SUBSET S BY DEF bad
  <2> QED BY <2>1, Minimal
<1>2. s # {} OBVIOUS
<1>3. PICK x \in s : TRUE BY <1>2
<1>4. s \ {x} \in SUBSET S /\ s \ {x} \notin bad BY <1>1, <1>3
<1>5. PICK b \in Int : \A y \in s \ {x} : y <= b BY <1>4
<1>6. \A y \in s : y <= IF x <= b THEN b ELSE x BY <1>3, <1>5
<1> QED BY <1>3, <1>5, <1>6

-----------------------------------------------------------------------------
\* What the two rules say of one observation.
Agrees(o) ==
  LET reviewable == o.ready \in {"ready_for_review", "strong_candidate_for_review"}
  IN  /\ reviewable \/ Insight!Measured(o) => o.class # "insufficient_data"
      /\ reviewable => o.class # "fatigue_signal"
      /\ o.ready = "strong_candidate_for_review" <=> reviewable /\ o.class = "strong"

LEMMA ReadyTells ==
  ASSUME NEW sig, NEW n, NEW fatigue, NEW class,
         Insight!Readiness(sig, n, fatigue, class)
            \in {"ready_for_review", "strong_candidate_for_review"}
  PROVE  /\ Insight!Sampled(sig) /\ ~(n < Limit.scalingDays)
         /\ fatigue \notin {"watch", "fatigue_signal"}
         /\ Insight!Readiness(sig, n, fatigue, class) = "strong_candidate_for_review"
               <=> class = "strong"
BY DEF Insight!Readiness

LEMMA ClassTells ==
  ASSUME NEW sig, NEW n, NEW fatigue, NEW trend, Insight!Sampled(sig),
         ~(n < Limit.classDays)
  PROVE  /\ Insight!Classification(sig, n, fatigue, trend) # "insufficient_data"
         /\ Insight!Classification(sig, n, fatigue, trend) = "fatigue_signal"
               => fatigue = "fatigue_signal"
BY DEF Insight!Classification

LEMMA DaysCount ==
  ASSUME Insight!InsightAssumption, NEW range \in Period, NEW l \in links
  PROVE  Insight!Measure(l, range).days \in Nat
<1>1. Insight!DaysSeen(l.target, range) \subseteq range BY DEF Insight!DaysSeen
<1>2. IsFiniteSet(Insight!DaysSeen(l.target, range))
  BY <1>1, SameNotions, FS_Subset DEF Insight!InsightAssumption
<1> QED BY <1>2, SameNotions, FS_CardinalityType DEF Insight!Measure

LEMMA JudgedAgree ==
  ASSUME Insight!InsightAssumption, NEW m, m.days \in Nat
  PROVE  Agrees(Insight!Judged(m))
<1> DEFINE class == Insight!Classification(m.signals, m.days, m.fatigue, m.trend)
           ready == Insight!Readiness(m.signals, m.days, m.fatigue, class)
<1>1. /\ Insight!Judged(m).class = class /\ Insight!Judged(m).ready = ready
      /\ Insight!Judged(m).signals = m.signals /\ Insight!Judged(m).days = m.days
  BY DEF Insight!Judged
<1> HIDE DEF class, ready
<1>2. ~(m.days < Limit.scalingDays) => ~(m.days < Limit.classDays)
  BY DEF Insight!InsightAssumption
<1>3. Insight!Measured(Insight!Judged(m)) => Insight!Sampled(m.signals) /\ ~(m.days < Limit.scalingDays)
  BY <1>1 DEF Insight!Measured, Insight!InsightAssumption
<1>4. ASSUME ready \in {"ready_for_review", "strong_candidate_for_review"}
      PROVE  /\ Insight!Sampled(m.signals) /\ ~(m.days < Limit.scalingDays)
             /\ m.fatigue # "fatigue_signal"
             /\ ready = "strong_candidate_for_review" <=> class = "strong"
  <2>1. Insight!Readiness(m.signals, m.days, m.fatigue, class)
          \in {"ready_for_review", "strong_candidate_for_review"}
    BY <1>4 DEF ready
  <2> QED BY <2>1, ReadyTells DEF ready
<1>5. Insight!Sampled(m.signals) /\ ~(m.days < Limit.scalingDays)
        => class # "insufficient_data" /\ (class = "fatigue_signal" => m.fatigue = "fatigue_signal")
  BY <1>2, ClassTells DEF class
<1> QED BY <1>1, <1>3, <1>4, <1>5 DEF Agrees

-----------------------------------------------------------------------------
(* Scores are integers, and no score is above the sum of all weights.      *)

Sums == {Insight!SumFunctionOnSet(Insight!Weight, F) : F \in SUBSET DOMAIN Insight!Weight}
Heaviest == CHOOSE b \in Int : \A x \in Sums : x <= b

LEMMA WeightsAreIntegers == \A f \in DOMAIN Insight!Weight : Insight!Weight[f] \in Int
BY DEF Insight!Weight

LEMMA FewAreFinite ==
  ASSUME NEW a, NEW b, NEW c, NEW d
  PROVE  IsFiniteSet({a, b, c, d})
<1>1. IsFiniteSet({a} \cup {b}) BY FS_Singleton, FS_Union
<1>2. IsFiniteSet({c} \cup {d}) BY FS_Singleton, FS_Union
<1>3. IsFiniteSet(({a} \cup {b}) \cup ({c} \cup {d})) BY <1>1, <1>2, FS_Union
<1>4. {a, b, c, d} = ({a} \cup {b}) \cup ({c} \cup {d}) OBVIOUS
<1> QED BY <1>3, <1>4

LEMMA FactorsAreFew == IsFiniteSet(DOMAIN Insight!Weight)
<1> DEFINE A == {"strong", "moderate", "weak", "sufficient"}
           B == {"fresh", "aligned", "stage", "high"}
           C == {"medium", "coverage", "diversity", "fatigue"}
<1>1. IsFiniteSet(A) /\ IsFiniteSet(B) /\ IsFiniteSet(C) BY FewAreFinite
<1>2. DOMAIN Insight!Weight = (A \cup B) \cup C BY DEF Insight!Weight
<1> HIDE DEF A, B, C
<1>3. IsFiniteSet(A \cup B) BY <1>1, FS_Union
<1>4. IsFiniteSet((A \cup B) \cup C) BY <1>1, <1>3, FS_Union
<1> QED BY <1>2, <1>4

LEMMA WeightsSum ==
  ASSUME NEW F \in SUBSET DOMAIN Insight!Weight
  PROVE  Insight!SumFunctionOnSet(Insight!Weight, F) \in Int
<1>1. IsFiniteSet(F) BY FactorsAreFew, FS_Subset
<1>2. \A f \in F : Insight!Weight[f] \in Int BY WeightsAreIntegers
<1>3. \A x, y \in Int : x + y \in Int OBVIOUS
<1> QED BY <1>1, <1>2, <1>3, SumStays

LEMMA HeaviestBounds ==
  Heaviest \in Int /\ \A F \in SUBSET DOMAIN Insight!Weight :
     Insight!SumFunctionOnSet(Insight!Weight, F) <= Heaviest
<1> DEFINE sum == [F \in SUBSET DOMAIN Insight!Weight |-> Insight!SumFunctionOnSet(Insight!Weight, F)]
<1>1. sum \in Surjection(SUBSET DOMAIN Insight!Weight, Sums) BY DEF Surjection, Sums
<1>2. IsFiniteSet(SUBSET DOMAIN Insight!Weight) BY FactorsAreFew, FS_SUBSET
<1>3. IsFiniteSet(Sums) BY <1>1, <1>2, FS_Surjection
<1>4. \A x \in Sums : x \in Int BY WeightsSum DEF Sums
<1>5. \E b \in Int : \A x \in Sums : x <= b BY <1>3, <1>4, FiniteIsBounded
<1>6. Heaviest \in Int /\ \A x \in Sums : x <= Heaviest BY <1>5 DEF Heaviest
<1> QED BY <1>6 DEF Sums

LEMMA ScoreIsBounded ==
  ASSUME NEW factors, NEW against \in Nat
  PROVE  Insight!Score(factors, against) \in Int /\ Insight!Score(factors, against) <= Heaviest
<1> DEFINE sum == Insight!SumFunctionOnSet(Insight!Weight, factors \cap DOMAIN Insight!Weight)
<1>1. sum \in Int /\ sum <= Heaviest /\ Heaviest \in Int BY WeightsSum, HeaviestBounds
<1>2. Insight!Min({against, 4}) \in Nat
  <2>1. \E x \in {against, 4} : \A y \in {against, 4} : x <= y OBVIOUS
  <2> QED BY <2>1 DEF Insight!Min
<1>3. Insight!Score(factors, against) = sum - Insight!Min({against, 4})
  BY DEF Insight!Score
<1> HIDE DEF sum
<1> QED BY <1>1, <1>2, <1>3

-----------------------------------------------------------------------------
(* Patterns: each is the pattern of its reference.                         *)

LEMMA PatternIs ==
  ASSUME NEW ps, NEW p \in Insight!Patterns(ps)
  PROVE  /\ p.ref[1] \in Insight!PatternDimension /\ p.ref = <<p.ref[1], p.ref[2]>>
         /\ p = Insight!Pattern(ps, p.ref[1], p.ref[2])
<1>1. PICK d \in Insight!PatternDimension : \E v : p = Insight!Pattern(ps, d, v)
  BY DEF Insight!Patterns
<1>3. PICK v : p = Insight!Pattern(ps, d, v) BY <1>1
<1>2. Insight!Pattern(ps, d, v).ref = <<d, v>> BY DEF Insight!Pattern
<1> QED BY <1>1, <1>2, <1>3

LEMMA AgainstCounts ==
  ASSUME NEW ps, IsFiniteSet(ps), NEW p \in Insight!Patterns(ps)
  PROVE  p.against \in Nat
<1> DEFINE d == p.ref[1]  v == p.ref[2]
           neg == {q \in {r \in ps : Insight!Shares(r, d, v) /\ r.sufficient} :
                     q.direction["ctr"] = "negative"}
<1>1. Insight!Pattern(ps, d, v).against = Insight!Cardinality(neg)
  BY DEF Insight!Pattern
<1>2. neg \subseteq ps OBVIOUS
<1>3. Insight!Cardinality(neg) \in Nat
  BY <1>2, SameNotions, FS_Subset, FS_CardinalityType
<1> QED BY <1>1, <1>3, PatternIs

\* Of too few sampled profiles no pattern says anything.
LEMMA FewSayNothing ==
  ASSUME NEW ps, IsFiniteSet(ps), NEW p \in Insight!Patterns(ps),
         Limit.minEntities \in Int, Insight!SufficientCount(ps) < Limit.minEntities
  PROVE  p.status = "insufficient_data"
<1> DEFINE d == p.ref[1]  v == p.ref[2]
           all == {q \in ps : q.sufficient}
           sampled == {q \in ps : Insight!Shares(q, d, v) /\ q.sufficient}
<1>1. sampled \subseteq all /\ all \subseteq ps OBVIOUS
<1>2. IsFiniteSet(all) /\ IsFiniteSet(sampled) BY <1>1, FS_Subset
<1>3. /\ Insight!Cardinality(sampled) \in Nat /\ Insight!Cardinality(all) \in Nat
      /\ Insight!Cardinality(sampled) <= Insight!Cardinality(all)
  BY <1>1, <1>2, SameNotions, FS_Subset, FS_CardinalityType
<1>4. Insight!SufficientCount(ps) = Insight!Cardinality(all)
  BY DEF Insight!SufficientCount
<1>5. Insight!Cardinality(sampled) < Limit.minEntities BY <1>3, <1>4
<1>6. \A minority, fresh :
        Insight!StatusOf(Insight!Cardinality(sampled), minority, fresh) = "insufficient_data"
  BY <1>5 DEF Insight!StatusOf
<1> HIDE DEF sampled
<1>7. \E minority, fresh :
        Insight!Pattern(ps, d, v).status = Insight!StatusOf(Insight!Cardinality(sampled), minority, fresh)
  BY DEF Insight!Pattern, sampled
<1> QED BY <1>6, <1>7, PatternIs

-----------------------------------------------------------------------------
(* Opportunities: the identifier tells the dimension from the type.        *)

About(type) ==
  CASE type \in {"expand_supported_angle", "investigate_conflicting_evidence",
                 "gather_more_evidence"} -> "angle"
    [] type = "test_new_hook" -> "hook"
    [] type = "test_new_format" -> "format"
    [] type \in {"refresh_fatigued_creative", "investigate_underperformance"} -> "entity"
    [] type \in {"reduce_angle_concentration", "reduce_format_concentration"} -> "portfolio"
    [] type = "improve_funnel_coverage" -> "stage"
    [] type = "improve_proof_coverage" -> "proof"
    [] type = "improve_objection_coverage" -> "objection"
    [] type = "validate_offer_alignment" -> "offer"
    [] OTHER -> "messaging"

Sound(o) ==
  /\ o.id = <<o.id[1], About(o.id[1]), o.id[3]>>
  /\ o.score \in Int /\ o.score <= Heaviest

LEMMA OpportunityIs ==
  ASSUME NEW type, NEW dimension, NEW ref, NEW status, NEW evidence, NEW factors
  PROVE  LET o == Insight!Opportunity(type, dimension, ref, status, evidence, factors)
         IN  /\ o.id = <<type, dimension, ref>> /\ o.status = status
             /\ o.id[1] = type /\ o.id[3] = ref
             /\ dimension = About(type) /\ evidence.against \in Nat => Sound(o)
<1> DEFINE o == Insight!Opportunity(type, dimension, ref, status, evidence, factors)
<1>1. o.id = <<type, dimension, ref>> /\ o.status = status BY DEF Insight!Opportunity
<1>2. \E fs : o.score = Insight!Score(fs, evidence.against) BY DEF Insight!Opportunity
<1> HIDE DEF o
<1>3. evidence.against \in Nat => o.score \in Int /\ o.score <= Heaviest
  BY <1>2, ScoreIsBounded
<1> QED BY <1>1, <1>3 DEF Sound, o

LEMMA EvidenceCounts ==
  /\ \A strength : Insight!Evidence(strength).against = 0
  /\ \A pattern : Insight!EvidenceOf(pattern).against = pattern.against
  /\ \A profile, strength : Insight!EvidenceFrom(profile, strength).against = 0
BY DEF Insight!Evidence, Insight!EvidenceOf, Insight!EvidenceFrom

\* An opportunity of a report: sound, and a claim of a supported pattern or an
\* expansion only where a pattern passed the gates.
Earned(o, ps) ==
  /\ Sound(o)
  /\ o.status = "supported_pattern" =>
       \E p \in Insight!Patterns(ps) : p.status # "insufficient_data"
  /\ o.id[1] = "expand_supported_angle" =>
       \E p \in Insight!Favoured(Insight!Patterns(ps)) : p.status \notin Insight!Blocking /\ o.id[3] = p.ref[2]

LEMMA ExpansionsEarned ==
  ASSUME NEW ps, IsFiniteSet(ps), NEW o \in Insight!Expansions(Insight!Patterns(ps))
  PROVE  Earned(o, ps)
<1> DEFINE good == {q \in Insight!Favoured(Insight!Patterns(ps)) : q.status \notin Insight!Blocking}
<1>1. PICK p \in good : \E factors : o = Insight!Opportunity("expand_supported_angle", "angle",
        p.ref[2], "supported_pattern", Insight!EvidenceOf(p), factors)
  BY DEF Insight!Expansions
<1>2. /\ p \in Insight!Favoured(Insight!Patterns(ps)) /\ p.status \notin Insight!Blocking
      /\ p \in Insight!Patterns(ps) /\ p.status # "insufficient_data"
  BY DEF Insight!Favoured, Insight!OfDimension, Insight!Blocking
<1>3. Insight!EvidenceOf(p).against \in Nat BY <1>2, AgainstCounts, EvidenceCounts
<1>4. "angle" = About("expand_supported_angle") BY DEF About
<1>5. Sound(o) /\ o.id[3] = p.ref[2] BY <1>1, <1>3, <1>4, OpportunityIs
<1> QED BY <1>2, <1>5 DEF Earned

LEMMA InquiriesEarned ==
  ASSUME NEW ps, IsFiniteSet(ps), NEW o \in Insight!Inquiries(Insight!Patterns(ps))
  PROVE  Earned(o, ps)
<1> DEFINE fresh(p) == [Insight!Evidence(p.strength) EXCEPT !.fresh = p.fresh]
<1>1. ASSUME NEW p \in Insight!Patterns(ps), NEW factors,
             o = Insight!Opportunity("investigate_conflicting_evidence", "angle", p.ref[2],
                             "conflicting_evidence", Insight!EvidenceOf(p), factors)
      PROVE  Earned(o, ps)
  <2>1. Insight!EvidenceOf(p).against \in Nat BY AgainstCounts, EvidenceCounts
  <2>2. "angle" = About("investigate_conflicting_evidence") BY DEF About
  <2>3. /\ Sound(o) /\ o.status # "supported_pattern"
        /\ o.id[1] = "investigate_conflicting_evidence"
    BY <1>1, <2>1, <2>2, OpportunityIs
  <2> QED BY <2>3 DEF Earned
<1>2. ASSUME NEW p \in Insight!Patterns(ps), NEW factors,
             p.status \in {"insufficient_data", "emerging"},
             o = Insight!Opportunity("gather_more_evidence", "angle", p.ref[2], p.status,
                             fresh(p), factors)
      PROVE  Earned(o, ps)
  <2>1. fresh(p).against \in Nat BY DEF Insight!Evidence
  <2>2. "angle" = About("gather_more_evidence") BY DEF About
  <2> HIDE DEF fresh
  <2>3. Sound(o) /\ o.status = p.status /\ o.id[1] = "gather_more_evidence"
    BY <1>2, <2>1, <2>2, OpportunityIs
  <2> QED BY <1>2, <2>3 DEF Earned
<1>3. \/ \E p \in Insight!Patterns(ps) : \E factors : o = Insight!Opportunity("investigate_conflicting_evidence",
             "angle", p.ref[2], "conflicting_evidence", Insight!EvidenceOf(p), factors)
      \/ \E p \in {q \in Insight!Patterns(ps) : q.status \in {"insufficient_data", "emerging"}} :
             \E factors : o = Insight!Opportunity("gather_more_evidence", "angle", p.ref[2],
                                          p.status, fresh(p), factors)
  BY DEF Insight!Inquiries, Insight!OfDimension
<1> HIDE DEF fresh
<1> QED BY <1>1, <1>2, <1>3

LEMMA ExplorationsEarned ==
  ASSUME NEW ps, IsFiniteSet(ps), NEW o \in Insight!Explorations(Insight!Patterns(ps))
  PROVE  Earned(o, ps)
<1> DEFINE type(p) == IF p.ref[1] = "hook" THEN "test_new_hook" ELSE "test_new_format"
           good == {q \in Insight!Patterns(ps) : /\ q.ref[1] \in {"hook", "format"}
                                         /\ q.dominant = "positive"
                                         /\ q.status \in {"stable", "supported"}}
<1>1. PICK p \in good : \E factors : o = Insight!Opportunity(type(p), p.ref[1], p.ref[2],
        "supported_pattern", Insight!EvidenceOf(p), factors)
  BY DEF Insight!Explorations
<1>2. p \in Insight!Patterns(ps) /\ p.status # "insufficient_data" /\ p.ref[1] \in {"hook", "format"}
  OBVIOUS
<1>3. Insight!EvidenceOf(p).against \in Nat BY <1>2, AgainstCounts, EvidenceCounts
<1>4. p.ref[1] = About(type(p)) /\ type(p) # "expand_supported_angle" BY <1>2 DEF About
<1> HIDE DEF type
<1>5. Sound(o) /\ o.id[1] = type(p) BY <1>1, <1>3, <1>4, OpportunityIs
<1> QED BY <1>2, <1>4, <1>5 DEF Earned

LEMMA CreativesEarned ==
  ASSUME NEW ps, NEW o \in Insight!Refreshes(ps) \cup Insight!Underperformers(ps)
  PROVE  Earned(o, ps)
<1>1. CASE o \in Insight!Refreshes(ps)
  <2>1. PICK p \in ps : \E factors : o = Insight!Opportunity("refresh_fatigued_creative",
          "entity", p.link.entity, "fatigue_signal", Insight!EvidenceFrom(p, "moderate"), factors)
    BY <1>1 DEF Insight!Refreshes
  <2>2. Insight!EvidenceFrom(p, "moderate").against \in Nat BY EvidenceCounts
  <2>3. "entity" = About("refresh_fatigued_creative") BY DEF About
  <2>4. /\ Sound(o) /\ o.status # "supported_pattern"
        /\ o.id[1] = "refresh_fatigued_creative"
    BY <2>1, <2>2, <2>3, OpportunityIs
  <2> QED BY <2>4 DEF Earned
<1>2. CASE o \in Insight!Underperformers(ps)
  <2>1. PICK p \in ps : \E factors : o = Insight!Opportunity("investigate_underperformance",
          "entity", p.link.entity, "investigate", Insight!EvidenceFrom(p, "weak"), factors)
    BY <1>2 DEF Insight!Underperformers
  <2>2. Insight!EvidenceFrom(p, "weak").against \in Nat BY EvidenceCounts
  <2>3. "entity" = About("investigate_underperformance") BY DEF About
  <2>4. /\ Sound(o) /\ o.status # "supported_pattern"
        /\ o.id[1] = "investigate_underperformance"
    BY <2>1, <2>2, <2>3, OpportunityIs
  <2> QED BY <2>4 DEF Earned
<1> QED BY <1>1, <1>2

LEMMA ConcentrationsEarned ==
  ASSUME NEW ps, NEW o \in Insight!Concentrations(ps)
  PROVE  Earned(o, ps)
<1>1. PICK type \in {"reduce_angle_concentration", "reduce_format_concentration"} :
        \E v, factors : o = Insight!Opportunity(type, "portfolio", v, "concentration_risk",
                                        Insight!Evidence("moderate"), factors)
  BY DEF Insight!Concentrations
<1>2. Insight!Evidence("moderate").against \in Nat BY EvidenceCounts
<1>3. "portfolio" = About(type) /\ type # "expand_supported_angle" BY DEF About
<1>4. Sound(o) /\ o.status # "supported_pattern" /\ o.id[1] = type
  BY <1>1, <1>2, <1>3, OpportunityIs
<1> QED BY <1>3, <1>4 DEF Earned

LEMMA GapIs ==
  ASSUME NEW type, NEW ref, NEW ps, type # "expand_supported_angle"
  PROVE  Earned(Insight!Gap(type, About(type), ref), ps)
<1> DEFINE o == Insight!Gap(type, About(type), ref)
<1>1. \E factors : o = Insight!Opportunity(type, About(type), ref, "coverage_gap",
                                   Insight!Evidence("weak"), factors)
  BY DEF Insight!Gap
<1> HIDE DEF o
<1>2. Insight!Evidence("weak").against \in Nat BY EvidenceCounts
<1>3. Sound(o) /\ o.status # "supported_pattern" /\ o.id[1] = type
  BY <1>1, <1>2, OpportunityIs
<1>4. Earned(o, ps) BY <1>3 DEF Earned
<1> QED BY <1>4 DEF o

LEMMA CoverageEarned ==
  ASSUME NEW ps, NEW o \in Insight!Coverage(ps)
  PROVE  Earned(o, ps)
<1> DEFINE types == {"improve_funnel_coverage", "test_new_hook", "test_new_format",
                     "improve_proof_coverage", "improve_objection_coverage"}
<1>1. \A g \in Insight!CoverageGaps(ps) : g[1] \in {"hook", "format"}
  BY DEF Insight!CoverageGaps
<1>2. \E type \in types : \E dimension, ref :
         dimension = About(type) /\ o = Insight!Gap(type, dimension, ref)
  <2>1. CASE o \in {Insight!Gap("improve_funnel_coverage", "stage", s) :
                       s \in Insight!Stages \ {p.context.stage : p \in ps}}
    BY <2>1 DEF About
  <2>2. CASE o \in {Insight!Gap(IF g[1] = "hook" THEN "test_new_hook" ELSE "test_new_format",
                        g[1], g[2]) : g \in Insight!CoverageGaps(ps)}
    <3>1. PICK g \in Insight!CoverageGaps(ps) :
            o = Insight!Gap(IF g[1] = "hook" THEN "test_new_hook" ELSE "test_new_format",
                    g[1], g[2])
      BY <2>2
    <3>2. CASE g[1] = "hook" BY <3>1, <3>2 DEF About
    <3>3. CASE g[1] = "format" BY <3>1, <3>3 DEF About
    <3> QED BY <1>1, <3>2, <3>3
  <2>3. CASE o \in {Insight!Gap(IF t = "proof" THEN "improve_proof_coverage"
                                       ELSE "improve_objection_coverage", t, NA) :
                       t \in {u \in {"proof", "objection"} :
                                 \A c \in Insight!Written : ~Insight!Known(concepts[c][u])}}
    <3>1. \/ o = Insight!Gap("improve_proof_coverage", "proof", NA)
          \/ o = Insight!Gap("improve_objection_coverage", "objection", NA)
      BY <2>3
    <3> QED BY <3>1 DEF About
  <2> QED BY <2>1, <2>2, <2>3 DEF Insight!Coverage
<1>3. PICK type \in types : \E ref : o = Insight!Gap(type, About(type), ref) BY <1>2
<1>4. type # "expand_supported_angle" OBVIOUS
<1> QED BY <1>3, <1>4, GapIs

LEMMA AlignmentsEarned ==
  ASSUME NEW ps, NEW o \in Insight!Alignments
  PROVE  Earned(o, ps)
<1> DEFINE evidence == [Insight!Evidence("weak") EXCEPT
                            !.supporting = {c \in Insight!Written : ~Insight!Anchored(c)}]
<1>1. \/ o = Insight!Opportunity("validate_offer_alignment", "offer", NA,
                         "strategic_alignment_review", evidence, {"unavailable"})
      \/ o = Insight!Opportunity("validate_message_alignment", "messaging", NA,
                         "strategic_alignment_review", evidence, {"unavailable"})
  BY DEF Insight!Alignments
<1>2. evidence.against \in Nat BY DEF Insight!Evidence
<1> HIDE DEF evidence
<1>3. /\ "offer" = About("validate_offer_alignment")
      /\ "messaging" = About("validate_message_alignment")
  BY DEF About
<1>4. /\ Sound(o) /\ o.status # "supported_pattern"
      /\ o.id[1] # "expand_supported_angle"
  BY <1>1, <1>2, <1>3, OpportunityIs
<1> QED BY <1>4 DEF Earned

LEMMA OpportunitiesEarned ==
  ASSUME NEW ps, IsFiniteSet(ps), NEW o \in Insight!Opportunities(ps,
         Insight!Patterns(ps))
  PROVE  Earned(o, ps)
<1>1. \/ o \in Insight!Expansions(Insight!Patterns(ps)) \/ o \in Insight!Inquiries(Insight!Patterns(ps))
      \/ o \in Insight!Explorations(Insight!Patterns(ps)) \/ o \in Insight!Refreshes(ps) \cup Insight!Underperformers(ps)
      \/ o \in Insight!Concentrations(ps) \/ o \in Insight!Coverage(ps) \/ o \in Insight!Alignments
  BY DEF Insight!Opportunities
<1> QED BY <1>1, ExpansionsEarned, InquiriesEarned, ExplorationsEarned, CreativesEarned,
           ConcentrationsEarned, CoverageEarned, AlignmentsEarned

-----------------------------------------------------------------------------
(* Items: the opportunities, one for each identifier.                      *)

LEMMA DedupeKeepsOne ==
  ASSUME NEW ops, \A o \in ops : Sound(o)
  PROVE  /\ Insight!Dedupe(ops) \subseteq ops
         /\ \A o \in ops : \E i \in Insight!Dedupe(ops) : i.id = o.id
         /\ \A i, j \in Insight!Dedupe(ops) : i.id = j.id => i = j
<1> DEFINE same(id) == {o \in ops : o.id = id}
           best(S) == CHOOSE o \in S : \A p \in S : p.score <= o.score
           ids == {o.id : o \in ops}
<1>1. Insight!Dedupe(ops) = {best(S) : S \in {same(id) : id \in ids}}
  BY DEF Insight!Dedupe
<1>2. ASSUME NEW id \in ids PROVE best(same(id)) \in same(id)
  <2> DEFINE scores == {o.score : o \in same(id)}
  <2>1. scores # {} OBVIOUS
  <2>2. scores \subseteq Int /\ \A x \in scores : x <= Heaviest BY DEF Sound
  <2>3. PICK m \in scores : \A x \in scores : x <= m
    <3> HIDE DEF scores
    <3> QED BY <2>1, <2>2, HeaviestBounds, GreatestIs
  <2>4. PICK o \in same(id) : o.score = m OBVIOUS
  <2>5. \A p \in same(id) : p.score <= o.score BY <2>3, <2>4
  <2> HIDE DEF same
  <2> QED BY <2>4, <2>5
<1> HIDE DEF best
<1>3. \A id \in ids : best(same(id)) \in ops /\ best(same(id)).id = id BY <1>2
<1>4. \A i \in Insight!Dedupe(ops) : \E id \in ids : i = best(same(id)) BY <1>1
<1>5. \A id \in ids : best(same(id)) \in Insight!Dedupe(ops) BY <1>1
<1> HIDE DEF same
<1>6. Insight!Dedupe(ops) \subseteq ops BY <1>3, <1>4
<1>7. \A i, j \in Insight!Dedupe(ops) : i.id = j.id => i = j BY <1>3, <1>4
<1>8. ASSUME NEW o \in ops PROVE \E i \in Insight!Dedupe(ops) : i.id = o.id
  <2>1. o.id \in ids OBVIOUS
  <2> QED BY <1>3, <1>5, <2>1
<1> QED BY <1>6, <1>7, <1>8

-----------------------------------------------------------------------------
(* Every recommendation that is not ignored is an opportunity.             *)

Meets(rec, ops) == \E o \in ops : o.id[1] = Insight!ItemType(rec) /\ o.id[3] = rec.ref[2]

LEMMA TiredIsRefreshed ==
  ASSUME NEW ps, NEW p \in ps, p.fatigue = "fatigue_signal", NEW rec,
         rec.type = "refresh_creative", rec.ref = <<"entity", p.link.entity>>
  PROVE  Meets(rec, Insight!Refreshes(ps))
<1> DEFINE o == Insight!Opportunity("refresh_fatigued_creative", "entity", p.link.entity,
                  "fatigue_signal", Insight!EvidenceFrom(p, "moderate"),
                  {"fatigue", IF p.sufficient THEN "sufficient" ELSE "insufficient"})
<1>1. o \in Insight!Refreshes(ps) BY DEF Insight!Refreshes
<1>2. o.id[1] = "refresh_fatigued_creative" /\ o.id[3] = p.link.entity
  BY OpportunityIs
<1>3. Insight!ItemType(rec) = "refresh_fatigued_creative" BY DEF Insight!ItemType
<1> QED BY <1>1, <1>2, <1>3 DEF Meets

LEMMA ConcentratedIsReduced ==
  ASSUME NEW ps, NEW v \in Insight!Concentrated(ps, "angle"), NEW rec,
         rec.type = "reduce_concentration", rec.ref = <<"angle", v>>
  PROVE  Meets(rec, Insight!Concentrations(ps))
<1>1. PICK o \in Insight!Concentrations(ps) : \E status, evidence, factors :
        o = Insight!Opportunity("reduce_angle_concentration", "portfolio", v, status,
                        evidence, factors)
  BY DEF Insight!Concentrations
<1>2. o.id[1] = "reduce_angle_concentration" /\ o.id[3] = v BY <1>1, OpportunityIs
<1>3. Insight!ItemType(rec) = "reduce_angle_concentration" BY DEF Insight!ItemType
<1> QED BY <1>2, <1>3 DEF Meets

LEMMA InquiryIsMade ==
  ASSUME NEW patterns, NEW p \in patterns, p.ref[1] = "angle", NEW rec, rec.ref = p.ref,
         \/ rec.type = "investigate_conflicting_evidence" /\ p.status = "conflicting"
         \/ rec.type = "gather_more_evidence" /\ p.status = "emerging"
  PROVE  Meets(rec, Insight!Inquiries(patterns))
<1>1. ASSUME rec.type = "investigate_conflicting_evidence" /\ p.status = "conflicting"
      PROVE  \E x \in Insight!Inquiries(patterns) : x.id[1] = rec.type /\ x.id[3] = p.ref[2]
  <2> DEFINE o == Insight!Opportunity("investigate_conflicting_evidence", "angle", p.ref[2],
                    "conflicting_evidence", Insight!EvidenceOf(p), {"insufficient"})
  <2>1. o \in Insight!Inquiries(patterns)
    BY <1>1 DEF Insight!Inquiries, Insight!OfDimension
  <2>2. o.id[1] = rec.type /\ o.id[3] = p.ref[2] BY <1>1, OpportunityIs
  <2> QED BY <2>1, <2>2
<1>4. ASSUME rec.type = "gather_more_evidence" /\ p.status = "emerging"
      PROVE  \E x \in Insight!Inquiries(patterns) : x.id[1] = rec.type /\ x.id[3] = p.ref[2]
  <2> DEFINE o == Insight!Opportunity("gather_more_evidence", "angle", p.ref[2], p.status,
                    [Insight!Evidence(p.strength) EXCEPT !.fresh = p.fresh],
                    {IF p.status = "emerging" THEN "sufficient" ELSE "insufficient"})
  <2>1. o \in Insight!Inquiries(patterns)
    BY <1>4 DEF Insight!Inquiries, Insight!OfDimension
  <2>2. o.id[1] = rec.type /\ o.id[3] = p.ref[2] BY <1>4, OpportunityIs
  <2> QED BY <2>1, <2>2
<1>2. PICK o \in Insight!Inquiries(patterns) : o.id[1] = rec.type /\ o.id[3] = p.ref[2]
  BY <1>1, <1>4
<1>3. Insight!ItemType(rec) = rec.type BY DEF Insight!ItemType
<1> QED BY <1>2, <1>3 DEF Meets

LEMMA PositiveExpands ==
  ASSUME NEW patterns, NEW p \in patterns, p.dominant = "positive",
         p.status \in {"stable", "supported"}, p.ref[1] = "angle",
         NEW rec, rec.type = "expand_angle", rec.ref = p.ref
  PROVE  Meets(rec, Insight!Expansions(patterns))
<1>1. p \in Insight!Favoured(patterns) /\ p.status \notin Insight!Blocking
  BY DEF Insight!Favoured, Insight!OfDimension, Insight!Blocking
<1> DEFINE o == Insight!Opportunity("expand_supported_angle", "angle", p.ref[2],
                  "supported_pattern", Insight!EvidenceOf(p),
                  {"sufficient"} \union
                     Insight!StrategyFlags(p.supporting \union p.contradicting))
<1>2. o \in Insight!Expansions(patterns) BY <1>1 DEF Insight!Expansions
<1>3. o.id[1] = "expand_supported_angle" /\ o.id[3] = p.ref[2] BY OpportunityIs
<1>4. Insight!ItemType(rec) = "expand_supported_angle" BY DEF Insight!ItemType
<1> QED BY <1>2, <1>3, <1>4 DEF Meets

LEMMA PositiveIsExplored ==
  ASSUME NEW patterns, NEW p \in patterns, p.dominant = "positive",
         p.status \in {"stable", "supported"}, p.ref[1] \in {"hook", "format"},
         NEW rec, rec.type = "explore_more", rec.ref = p.ref
  PROVE  Meets(rec, Insight!Explorations(patterns))
<1> DEFINE type == IF p.ref[1] = "hook" THEN "test_new_hook" ELSE "test_new_format"
       o == Insight!Opportunity(type, p.ref[1], p.ref[2], "supported_pattern", Insight!EvidenceOf(p),
                  {"sufficient"} \union Insight!StrategyFlags(p.supporting))
<1>1. o \in Insight!Explorations(patterns) BY DEF Insight!Explorations
<1>2. Insight!ItemType(rec) = type BY DEF Insight!ItemType
<1>3. o.id[1] = type /\ o.id[3] = p.ref[2] BY OpportunityIs
<1> QED BY <1>1, <1>2, <1>3 DEF Meets

LEMMA GapIsCovered ==
  ASSUME NEW ps, NEW g \in Insight!CoverageGaps(ps), NEW rec, rec.ref = g,
         rec.type = IF g[1] = "hook" THEN "test_new_hook" ELSE "test_new_format"
  PROVE  Meets(rec, Insight!Coverage(ps))
<1>1. PICK o \in Insight!Coverage(ps) : o = Insight!Gap(rec.type, g[1], g[2])
  BY DEF Insight!Coverage
<1>2. o.id[1] = rec.type /\ o.id[3] = g[2] BY <1>1, OpportunityIs DEF Insight!Gap
<1>3. Insight!ItemType(rec) = rec.type BY DEF Insight!ItemType
<1> QED BY <1>2, <1>3 DEF Meets

LEMMA RecommendedIsFound ==
  ASSUME NEW ps, NEW rec \in Insight!Recommendations(ps, Insight!Patterns(ps)),
         ~Insight!Ignored(rec)
  PROVE  Meets(rec, Insight!Opportunities(ps, Insight!Patterns(ps)))
<1> DEFINE patterns == Insight!Patterns(ps)
           ops == Insight!Opportunities(ps, patterns)
           weight(p) == CASE p.strength = "strong" -> 4
                          [] p.strength = "moderate" -> 3
                          [] OTHER -> 2
           positive(statuses) ==
             {p \in patterns : p.dominant = "positive" /\ p.status \in statuses}
           tired(f) == {<<"entity", p.link.entity>> : p \in {q \in ps : q.fatigue = f}}
<1>1. \A type, ref, w : Insight!Recommend(type, ref, w).type = type /\ Insight!Recommend(type, ref, w).ref = ref
  BY DEF Insight!Recommend
<1>2. /\ Insight!Expansions(patterns) \subseteq ops /\ Insight!Inquiries(patterns) \subseteq ops
      /\ Insight!Explorations(patterns) \subseteq ops /\ Insight!Refreshes(ps) \subseteq ops
      /\ Insight!Concentrations(ps) \subseteq ops /\ Insight!Coverage(ps) \subseteq ops
  BY DEF Insight!Opportunities
<1>3. \A part : part \subseteq ops /\ Meets(rec, part) => Meets(rec, ops) BY DEF Meets
<1>4. \/ \E r \in tired("fatigue_signal") : rec = Insight!Recommend("refresh_creative", r, 6)
      \/ \E r \in tired("watch") : rec = Insight!Recommend("investigate_fatigue", r, 0)
      \/ \E v \in Insight!Concentrated(ps, "angle") :
            rec = Insight!Recommend("reduce_concentration", <<"angle", v>>, 5)
      \/ \E p \in Insight!Conflicts(patterns) :
            rec = Insight!Recommend("investigate_conflicting_evidence", p.ref, 4)
      \/ \E p \in {q \in positive({"stable", "supported"}) : q.ref[1] # "stage"} :
            rec = Insight!Recommend(IF p.ref[1] = "angle" THEN "expand_angle" ELSE "explore_more",
                            p.ref, weight(p))
      \/ \E p \in positive({"emerging"}) : rec = Insight!Recommend("gather_more_evidence", p.ref, 2)
      \/ \E g \in Insight!FirstGaps(Insight!CoverageGaps(ps)) :
            rec = Insight!Recommend(IF g[1] = "hook" THEN "test_new_hook" ELSE "test_new_format",
                            g, 0)
  BY DEF Insight!Recommendations
<1> HIDE DEF ops, weight
<1>5. ASSUME NEW r \in tired("fatigue_signal"),
             rec = Insight!Recommend("refresh_creative", r, 6)
      PROVE  Meets(rec, ops)
  <2>1. PICK p \in ps : p.fatigue = "fatigue_signal" /\ r = <<"entity", p.link.entity>>
    OBVIOUS
  <2> QED BY <1>1, <1>2, <1>3, <1>5, <2>1, TiredIsRefreshed
<1>6. ASSUME NEW r \in tired("watch"), rec = Insight!Recommend("investigate_fatigue",
             r, 0)
      PROVE  FALSE
  <2>1. rec.type = "investigate_fatigue" BY <1>1, <1>6
  <2> QED BY <2>1 DEF Insight!Ignored
<1>7. ASSUME NEW v \in Insight!Concentrated(ps, "angle"),
             rec = Insight!Recommend("reduce_concentration", <<"angle", v>>, 5)
      PROVE  Meets(rec, ops)
  BY <1>1, <1>2, <1>3, <1>7, ConcentratedIsReduced
<1>8. ASSUME NEW p \in Insight!Conflicts(patterns),
             rec = Insight!Recommend("investigate_conflicting_evidence", p.ref, 4)
      PROVE  Meets(rec, ops)
  <2>1. p \in patterns /\ p.status = "conflicting" BY DEF Insight!Conflicts
  <2>2. p.ref[1] = "angle" BY <1>1, <1>8 DEF Insight!Ignored
  <2> QED BY <1>1, <1>2, <1>3, <1>8, <2>1, <2>2, InquiryIsMade
<1>9. ASSUME NEW p \in positive({"stable", "supported"}), p.ref[1] # "stage",
             rec = Insight!Recommend(IF p.ref[1] = "angle" THEN "expand_angle" ELSE "explore_more",
                             p.ref, weight(p))
      PROVE  Meets(rec, ops)
  <2>1. p \in patterns /\ p.dominant = "positive" /\ p.status \in {"stable", "supported"}
    OBVIOUS
  <2>2. p.ref[1] \in {"angle", "hook", "format"}
    BY <1>9, <2>1, PatternIs DEF Insight!PatternDimension
  <2>3. CASE p.ref[1] = "angle"
    BY <1>1, <1>2, <1>3, <1>9, <2>1, <2>3, PositiveExpands
  <2>4. CASE p.ref[1] # "angle"
    BY <1>1, <1>2, <1>3, <1>9, <2>1, <2>2, <2>4, PositiveIsExplored
  <2> QED BY <2>3, <2>4
<1>10. ASSUME NEW p \in positive({"emerging"}),
              rec = Insight!Recommend("gather_more_evidence", p.ref, 2)
       PROVE  Meets(rec, ops)
  <2>1. p \in patterns /\ p.status = "emerging" OBVIOUS
  <2>2. p.ref[1] = "angle" BY <1>1, <1>10 DEF Insight!Ignored
  <2> QED BY <1>1, <1>2, <1>3, <1>10, <2>1, <2>2, InquiryIsMade
<1>11. ASSUME NEW g \in Insight!FirstGaps(Insight!CoverageGaps(ps)),
              rec = Insight!Recommend(IF g[1] = "hook" THEN "test_new_hook" ELSE "test_new_format",
                              g, 0)
       PROVE  Meets(rec, ops)
  <2>1. g \in Insight!CoverageGaps(ps) BY DEF Insight!FirstGaps
  <2> QED BY <1>1, <1>2, <1>3, <1>11, <2>1, GapIsCovered
<1>12. Meets(rec, ops) BY <1>4, <1>5, <1>6, <1>7, <1>8, <1>9, <1>10, <1>11
<1> QED BY <1>12 DEF ops

LEMMA WatchIsOfCreatives ==
  ASSUME NEW ps, NEW patterns, NEW rec \in Insight!Recommendations(ps, patterns),
         rec.type = "investigate_fatigue"
  PROVE  rec.ref[1] = "entity"
<1>1. \A type, ref, w : /\ Insight!Recommend(type, ref, w).type = type
                       /\ Insight!Recommend(type, ref, w).ref = ref
  BY DEF Insight!Recommend
<1> DEFINE others == {"refresh_creative", "reduce_concentration", "explore_more", "expand_angle",
                      "investigate_conflicting_evidence", "gather_more_evidence",
                      "test_new_hook", "test_new_format"}
<1>2. \/ \E p \in ps : rec = Insight!Recommend("investigate_fatigue", <<"entity", p.link.entity>>, 0)
      \/ \E type \in others : \E ref, w : rec = Insight!Recommend(type, ref, w)
  BY DEF Insight!Recommendations
<1>3. "investigate_fatigue" \notin others OBVIOUS
<1> HIDE DEF others
<1>4. CASE \E type \in others : \E ref, w : rec = Insight!Recommend(type, ref, w)
  BY <1>1, <1>3, <1>4
<1>5. CASE \E p \in ps : rec = Insight!Recommend("investigate_fatigue", <<"entity", p.link.entity>>, 0)
  BY <1>1, <1>5
<1> QED BY <1>2, <1>4, <1>5

-----------------------------------------------------------------------------
(* A plan follows its report.                                              *)

Follows(report, p) ==
  /\ \A rec \in report.recommendations : Insight!Answered(rec, p.items)
  /\ p.status = "insufficient_data" <=> report.status = "insufficient_data"
  /\ p.status = "insufficient_data" => \A i \in p.items : i.status # "supported_pattern"
  /\ \A b \in p.blocked : \A i \in p.items : ~(i.id[1] = b.type /\ i.id[3] = b.ref)

LEMMA BlockedIsNotExpanded ==
  ASSUME NEW ps, NEW b \in Insight!Blocked(Insight!Patterns(ps)), NEW o, Earned(o, ps)
  PROVE  ~(o.id[1] = b.type /\ o.id[3] = b.ref)
<1> SUFFICES ASSUME o.id[1] = b.type, o.id[3] = b.ref PROVE FALSE OBVIOUS
<1>1. PICK p \in Insight!Favoured(Insight!Patterns(ps)) : /\ p.status \in Insight!Blocking /\ b.ref = p.ref[2]
                                          /\ b.type = "expand_supported_angle"
  BY DEF Insight!Blocked
<1>2. PICK q \in Insight!Favoured(Insight!Patterns(ps)) : q.status \notin Insight!Blocking /\ o.id[3] = q.ref[2]
  BY <1>1 DEF Earned
<1>3. p \in Insight!Patterns(ps) /\ q \in Insight!Patterns(ps) /\ p.ref[1] = "angle" /\ q.ref[1] = "angle"
  BY DEF Insight!Favoured, Insight!OfDimension
<1>4. p = Insight!Pattern(ps, "angle", b.ref) /\ q = Insight!Pattern(ps, "angle", b.ref)
  BY <1>1, <1>2, <1>3, PatternIs
<1> QED BY <1>1, <1>2, <1>4

LEMMA StatusesAgree ==
  ASSUME NEW ps, IsFiniteSet(ps), ps # {}, NEW patterns, NEW items
  PROVE  /\ Insight!PlanStatus(items, Insight!Cardinality(ps), Insight!SufficientCount(ps)) = "insufficient_data"
               <=> Insight!LearningStatus(ps, patterns) = "insufficient_data"
         /\ Insight!LearningStatus(ps, patterns) = "insufficient_data"
               => Insight!SufficientCount(ps) < Limit.minEntities
<1> DEFINE n == Insight!Cardinality(ps)  few == Insight!SufficientCount(ps) < Limit.minEntities
<1>1. n \in Nat /\ n # 0 BY SameNotions, FS_CardinalityType, FS_EmptySet
<1> HIDE DEF n, few
<1>2. Insight!PlanStatus(items, n, Insight!SufficientCount(ps)) = "insufficient_data" <=> few
  BY <1>1 DEF Insight!PlanStatus, few
<1>3. Insight!LearningStatus(ps, patterns) = "insufficient_data" <=> few
  BY DEF Insight!LearningStatus, few
<1> QED BY <1>2, <1>3 DEF n, few

LEMMA PlanFollows ==
  ASSUME NEW ps, IsFiniteSet(ps), ps # {}, Limit.minEntities \in Int, NEW report,
         report = Insight!LearningReport(ps, Insight!Patterns(ps)), NEW key
  PROVE  Follows(report,
           Insight!Plan(report, Insight!Dedupe(Insight!Opportunities(report.profiles, report.patterns)), key))
<1> DEFINE patterns == Insight!Patterns(ps)
           ops == Insight!Opportunities(ps, patterns)
           items == Insight!Dedupe(ops)
           p == Insight!Plan(report, items, key)
<1>1. /\ report.profiles = ps /\ report.patterns = patterns
      /\ report.recommendations = Insight!Recommendations(ps, patterns)
      /\ report.status = Insight!LearningStatus(ps, patterns)
  BY DEF Insight!LearningReport
<1>2. /\ p.items = items /\ p.blocked = Insight!Blocked(patterns)
      /\ p.status = Insight!PlanStatus(items, Insight!Cardinality(ps), Insight!SufficientCount(ps))
  BY <1>1 DEF Insight!Plan
<1>3. \A o \in ops : Earned(o, ps) BY OpportunitiesEarned
<1> HIDE DEF p, ops
<1>4. \A o \in ops : Sound(o) BY <1>3 DEF Earned
<1>5. /\ items \subseteq ops
      /\ \A o \in ops : \E i \in items : i.id = o.id
      /\ \A i, j \in items : i.id = j.id => i = j
  BY <1>4, DedupeKeepsOne
<1>6. ASSUME NEW rec \in report.recommendations, ~Insight!Ignored(rec)
      PROVE  Insight!Answered(rec, p.items)
  <2>1. PICK o \in ops : o.id[1] = Insight!ItemType(rec) /\ o.id[3] = rec.ref[2]
    BY <1>1, <1>6, RecommendedIsFound DEF Meets, ops
  <2>2. PICK i \in items : i.id = o.id BY <1>5
  <2>3. ASSUME NEW j \in items, j.id[1] = Insight!ItemType(rec), j.id[3] = rec.ref[2]
        PROVE  j = i
    <3>1. Sound(j) /\ Sound(o) BY <1>4, <1>5
    <3>2. j.id = o.id BY <2>1, <2>3, <3>1 DEF Sound
    <3> QED BY <1>5, <2>2, <3>2
  <2>4. {j \in items : j.id[1] = Insight!ItemType(rec) /\ j.id[3] = rec.ref[2]} = {i}
    BY <2>1, <2>2, <2>3
  <2>5. {j \in {x \in items : x.id[1] = Insight!ItemType(rec)} : j.id[3] = rec.ref[2]} = {i}
    BY <2>4
  <2> QED BY <1>2, <1>6, <2>5, SameNotions, FS_Singleton DEF Insight!Answered
<1>11. ASSUME NEW rec \in report.recommendations, Insight!Ignored(rec)
       PROVE  Insight!Answered(rec, p.items)
  <2>1. /\ rec.type \in {"investigate_fatigue", "gather_more_evidence",
                         "investigate_conflicting_evidence"}
        /\ rec.ref[1] # About(rec.type)
    <3>1. rec.type = "investigate_fatigue" => rec.ref[1] = "entity"
      BY <1>1, WatchIsOfCreatives
    <3>2. CASE rec.type = "investigate_fatigue"
      BY <3>1, <3>2 DEF About
    <3>3. CASE rec.type # "investigate_fatigue"
      BY <1>11, <3>3 DEF Insight!Ignored, About
    <3> QED BY <3>2, <3>3
  <2>2. Insight!ItemType(rec) = rec.type BY <2>1 DEF Insight!ItemType
  <2>3. ASSUME NEW i \in p.items, i.id[1] = rec.type PROVE i.id[2] # rec.ref[1]
    <3>1. Sound(i) BY <1>2, <1>4, <1>5
    <3>2. i.id[2] = About(rec.type) BY <2>3, <3>1 DEF Sound
    <3> QED BY <2>1, <3>2
  <2> QED BY <1>11, <2>2, <2>3 DEF Insight!Answered
<1>7. /\ p.status = "insufficient_data" <=> report.status = "insufficient_data"
      /\ report.status = "insufficient_data" => Insight!SufficientCount(ps) < Limit.minEntities
  BY <1>1, <1>2, StatusesAgree
<1>8. ASSUME p.status = "insufficient_data", NEW i \in p.items
      PROVE  i.status # "supported_pattern"
  <2>1. Earned(i, ps) BY <1>2, <1>3, <1>5
  <2>2. \A q \in Insight!Patterns(ps) : q.status = "insufficient_data"
    BY <1>7, <1>8, FewSayNothing
  <2> QED BY <2>1, <2>2 DEF Earned
<1>9. ASSUME NEW b \in p.blocked, NEW i \in p.items
      PROVE  ~(i.id[1] = b.type /\ i.id[3] = b.ref)
  BY <1>2, <1>3, <1>5, BlockedIsNotExpanded
<1> HIDE DEF items, patterns
<1>10. Follows(report, p) BY <1>6, <1>7, <1>8, <1>9, <1>11 DEF Follows
<1> QED BY <1>1, <1>10 DEF p, items, ops

-----------------------------------------------------------------------------
(* Snapshots, stored and about to be stored.                               *)

Pending == {work[r] : r \in Reader} \ {NA}

Learnt(report) ==
  \E ps : /\ IsFiniteSet(ps) /\ ps # {}
          /\ report = Insight!LearningReport(ps, Insight!Patterns(ps))

Right(s) ==
  /\ s.layer = "performance" => \A o \in s.body.observed : Agrees(o)
  /\ s.layer = "learning" => Learnt(s.body)
  /\ s.layer = "plan" => Follows(s.body, s.key)

SameFingerprint(s, u) == s.layer = u.layer /\ s.key = u.key

\* The report that a plan was built from is stored under the key it names.
Cites(s) == s.cites =>
  \E u \in stored : u.layer = "learning" /\ u.key = s.key.learning /\ u.body = s.body

SnapshotInv ==
  /\ work = [r \in Reader |-> work[r]]
  /\ clock \in Nat
  /\ IsFiniteSet(links)
  /\ \A s \in stored \cup Pending : Right(s) /\ s.at \in 0 .. clock /\ Cites(s)
  /\ \A s, u \in stored : SameFingerprint(s, u) => s = u

LEMMA LatestIsStored ==
  ASSUME SnapshotInv, NEW layer, Insight!Known(Insight!Latest(layer))
  PROVE  Insight!Latest(layer) \in stored /\ Insight!Latest(layer).layer = layer
<1> DEFINE of == {s \in stored : s.layer = layer}
           times == {s.at : s \in of}
<1>1. of # {} /\ Insight!Latest(layer) = CHOOSE s \in of : \A u \in of : u.at <= s.at
  BY DEF Insight!Latest, Insight!Known
<1>2. \A s \in of : s.at \in 0 .. clock BY DEF SnapshotInv
<1>3. times # {} /\ times \subseteq Int /\ \A x \in times : x <= clock
  BY <1>1, <1>2 DEF SnapshotInv
<1>4. clock \in Int BY DEF SnapshotInv
<1>5. PICK m \in times : \A x \in times : x <= m
  <2> HIDE DEF times
  <2> QED BY <1>3, <1>4, GreatestIs
<1>6. PICK s \in of : s.at = m OBVIOUS
<1>7. \A u \in of : u.at <= s.at BY <1>5, <1>6
<1>8. Insight!Latest(layer) \in of
  <2> HIDE DEF of
  <2> QED BY <1>1, <1>6, <1>7
<1> QED BY <1>8

LEMMA ProfilesAreFew ==
  ASSUME SnapshotInv, links # {}, NEW range
  PROVE  IsFiniteSet(Insight!Profiles(Insight!Observations(range))) /\ Insight!Profiles(Insight!Observations(range)) # {}
<1> DEFINE O == Insight!Observations(range)
           judge == [l \in links |-> Insight!Judged(Insight!Measure(l, range))]
<1>1. O = {judge[l] : l \in links} BY DEF Insight!Observations
<1>2. judge \in Surjection(links, O) BY <1>1 DEF Surjection
<1>3. IsFiniteSet(O) BY <1>2, FS_Surjection DEF SnapshotInv
<1>4. O # {} BY <1>1
<1> HIDE DEF O
<1>5. PICK f : /\ f = [o \in O |-> f[o]]
               /\ Insight!Profiles(O) = {f[o] : o \in O}
  <2> DEFINE towards(o) == [metric \in Insight!Metric |->
                              Insight!Direction(o, metric, Insight!Baseline(O, metric))]
             profile(o) ==
               [link |-> o.link, context |-> o.context, fresh |-> o.fresh,
                fatigue |-> o.fatigue, class |-> o.class,
                sufficient |-> Insight!Sampled(o.signals), direction |-> towards(o),
                conflicts |-> {m \in Insight!Metric \ {"ctr"} :
                   towards(o)["ctr"] = "positive" /\ towards(o)[m] = "negative"}]
             f == [o \in O |-> profile(o)]
  <2>1. Insight!Profiles(O) = {profile(o) : o \in O} BY DEF Insight!Profiles
  <2> HIDE DEF profile
  <2>2. \A o \in O : f[o] = profile(o) OBVIOUS
  <2>3. {f[o] : o \in O} = {profile(o) : o \in O} BY <2>2
  <2> QED BY <2>1, <2>3
<1>6. f \in Surjection(O, Insight!Profiles(O)) BY <1>5 DEF Surjection
<1>7. IsFiniteSet(Insight!Profiles(O)) BY <1>3, <1>6, FS_Surjection
<1>8. Insight!Profiles(O) # {} BY <1>4, <1>5
<1> QED BY <1>7, <1>8 DEF O

LEMMA LearnedIsLearnt ==
  ASSUME SnapshotInv, links # {}, NEW range, NEW c \in Insight!Learned(range)
  PROVE  Learnt(c.body)
<1> DEFINE P == Insight!Profiles(Insight!Observations(range))
<1>1. c.body = Insight!LearningReport(P, Insight!Patterns(P)) BY DEF Insight!Learned
<1> HIDE DEF P
<1>2. IsFiniteSet(P) /\ P # {} BY ProfilesAreFew DEF P
<1> QED BY <1>1, <1>2 DEF Learnt

LEMMA ComputedIsRight ==
  ASSUME SnapshotInv, Insight!InsightAssumption, NEW range \in Period,
         NEW layer \in {"performance", "learning", "plan"}, Insight!Storable(layer, range),
         NEW c \in Insight!Computed(layer, range), NEW at, NEW cites
  PROVE  Right([layer |-> layer, at |-> at, key |-> c.key, body |-> c.body, cites |-> cites])
<1>1. CASE layer = "performance"
  <2>1. c.body.observed = Insight!Observations(range)
    BY <1>1 DEF Insight!Computed, Insight!PerformanceReport
  <2>2. \A l \in links : Agrees(Insight!Judged(Insight!Measure(l, range)))
    BY DaysCount, JudgedAgree
  <2>3. \A o \in c.body.observed : Agrees(o) BY <2>1, <2>2 DEF Insight!Observations
  <2> QED BY <1>1, <2>3 DEF Right
<1>2. CASE layer = "learning"
  <2>1. links # {} /\ c \in Insight!Learned(range)
    BY <1>2 DEF Insight!Storable, Insight!Computed
  <2> QED BY <1>2, <2>1, LearnedIsLearnt DEF Right
<1>3. CASE layer = "plan"
  <2>1. c \in Insight!Planned(range) /\ (Insight!Known(Insight!Latest("learning")) \/ links # {})
    BY <1>3 DEF Insight!Storable, Insight!Computed
  <2>2. PICK s \in Insight!Sources(range) :
          /\ c.key = Insight!Plan(s.body, Insight!Dedupe(Insight!Opportunities(s.body.profiles, s.body.patterns)),
                          s.key)
          /\ c.body = s.body
    BY <2>1 DEF Insight!Planned
  <2>3. Learnt(s.body)
    <3>1. CASE Insight!Known(Insight!Latest("learning"))
      <4>1. s = Insight!Latest("learning") BY <3>1 DEF Insight!Sources
      <4>2. s \in stored /\ s.layer = "learning" BY <3>1, <4>1, LatestIsStored
      <4> QED BY <4>2 DEF SnapshotInv, Right
    <3>2. CASE ~Insight!Known(Insight!Latest("learning"))
      <4>1. links # {} /\ s \in Insight!Learned(range) BY <2>1, <3>2 DEF Insight!Sources
      <4> QED BY <4>1, LearnedIsLearnt
    <3> QED BY <3>1, <3>2
  <2>4. Follows(c.body, c.key)
    BY <2>2, <2>3, PlanFollows DEF Learnt, Insight!InsightAssumption
  <2> QED BY <1>3, <2>4 DEF Right
<1> QED BY <1>1, <1>2, <1>3

LEMMA PlanCites ==
  ASSUME SnapshotInv, NEW range, NEW c \in Insight!Planned(range),
         Insight!Known(Insight!Latest("learning"))
  PROVE  \E u \in stored : u.layer = "learning" /\ u.key = c.key.learning /\ u.body = c.body
<1> DEFINE u == Insight!Latest("learning")
           made == Insight!Plan(u.body, Insight!Dedupe(Insight!Opportunities(
                     u.body.profiles, u.body.patterns)), u.key)
<1>1. c.key = made /\ c.body = u.body BY DEF Insight!Planned, Insight!Sources
<1>2. made.learning = u.key BY DEF Insight!Plan
<1>3. u \in stored /\ u.layer = "learning" BY LatestIsStored
<1> QED BY <1>1, <1>2, <1>3

-----------------------------------------------------------------------------
(* The steps.                                                              *)

LEMMA Starts == Insight!InsightAssumption /\ Insight!Init => SnapshotInv
<1> SUFFICES ASSUME Insight!InsightAssumption, Insight!Init PROVE SnapshotInv OBVIOUS
<1>1. Pending = {} BY DEF Insight!Init, Pending
<1> QED
  BY <1>1, SameNotions DEF Insight!Init, SnapshotInv, Insight!InsightAssumption

\* A step that leaves the snapshots and the requests alone.
LEMMA Keeps ==
  ASSUME SnapshotInv, UNCHANGED <<stored, work, clock>>, IsFiniteSet(links')
  PROVE  SnapshotInv'
<1>1. \A s : (Right(s) /\ Cites(s))' <=> (Right(s) /\ Cites(s))
  BY DEF Right, Learnt, Follows, Cites
<1>2. stored' = stored /\ Pending' = Pending /\ work' = work /\ clock' = clock
  BY DEF Pending
<1> QED BY <1>1, <1>2 DEF SnapshotInv, SameFingerprint

LEMMA Changes ==
  ASSUME SnapshotInv,
         \/ \E c \in Concept, form \in Form : Insight!CreateConcept(c, form)
         \/ \E e \in Concept \union Variant, t \in Target : Insight!CreateLink(e, t)
         \/ \E l \in links : Insight!DeleteLink(l)
         \/ \E a \in Ad, series \in Series : Insight!Sync(a, series)
         \/ \E e \in Economy : Insight!Reprice(e)
  PROVE  SnapshotInv'
<1>1. UNCHANGED <<stored, work, clock>>
  BY DEF Insight!CreateConcept, Insight!CreateLink, Insight!DeleteLink, Insight!Sync,
     Insight!Reprice, Insight!Change, Insight!layers
<1>2. links' = links \/ (\E x : links' = links \cup {x}) \/ links' \subseteq links
  BY DEF Insight!CreateConcept, Insight!CreateLink, Insight!DeleteLink, Insight!Sync,
     Insight!Reprice
<1>3. IsFiniteSet(links') BY <1>2, FS_AddElement, FS_Subset DEF SnapshotInv
<1> QED BY <1>1, <1>3, Keeps

LEMMA Generates ==
  ASSUME SnapshotInv, Insight!InsightAssumption, NEW r \in Reader, NEW range \in Period,
         NEW layer \in {"performance", "learning", "plan"}, Insight!Generate(r, layer, range)
  PROVE  SnapshotInv'
<1> DEFINE cites == layer = "plan" /\ Insight!Known(Insight!Latest("learning"))
           entry(c) == [layer |-> layer, at |-> clock, key |-> c.key, body |-> c.body,
                        cites |-> cites]
<1>1. PICK c \in Insight!Computed(layer, range) : work' = [work EXCEPT ![r] = entry(c)]
  BY DEF Insight!Generate
<1>2. /\ stored' = stored /\ links' = links /\ clock' = clock + 1
      /\ Insight!Storable(layer, range)
  BY DEF Insight!Generate, Insight!inputs
<1>3. Right(entry(c)) BY <1>2, ComputedIsRight
<1>4. entry(c).at = clock OBVIOUS
<1>10. Cites(entry(c))
  <2> SUFFICES ASSUME cites
               PROVE  \E u \in stored : u.layer = "learning" /\ u.key = c.key.learning
                                         /\ u.body = c.body
    BY DEF Cites
  <2> QED BY PlanCites DEF Insight!Computed
<1> HIDE DEF entry
<1>5. Pending' \subseteq Pending \cup {entry(c)}
  BY <1>1 DEF SnapshotInv, Pending
<1>6. clock \in Nat /\ clock' \in Nat /\ \A t \in 0 .. clock : t \in 0 .. clock'
  BY <1>2 DEF SnapshotInv
<1>7. ASSUME NEW s \in stored' \cup Pending' PROVE Right(s) /\ s.at \in 0 .. clock' /\ Cites(s)
  <2>1. s \in stored \cup Pending \/ s = entry(c) BY <1>2, <1>5
  <2>2. clock \in 0 .. clock' BY <1>6, <1>2
  <2> QED BY <1>3, <1>4, <1>6, <1>10, <2>1, <2>2 DEF SnapshotInv
<1>8. work' = [q \in Reader |-> work'[q]] BY <1>1 DEF SnapshotInv
<1>9. (\A s \in stored \cup Pending : Right(s) /\ s.at \in 0 .. clock /\ Cites(s))'
  BY <1>2, <1>7 DEF Right, Learnt, Follows, Cites
<1> QED BY <1>2, <1>6, <1>8, <1>9 DEF SnapshotInv, SameFingerprint

LEMMA Inserts ==
  ASSUME SnapshotInv, NEW r \in Reader, Insight!Insert(r)
  PROVE  SnapshotInv'
<1>1. /\ Insight!Known(work[r]) /\ work' = [work EXCEPT ![r] = NA]
      /\ stored' = IF Insight!Present(work[r].layer, work[r].key) THEN stored
                   ELSE stored \union {work[r]}
      /\ links' = links /\ clock' = clock
  BY DEF Insight!Insert, Insight!inputs
<1>2. work[r] \in Pending BY <1>1 DEF Pending, Insight!Known
<1>3. stored' \cup Pending' \subseteq stored \cup Pending
  BY <1>1, <1>2 DEF SnapshotInv, Pending
<1>4. (\A s \in stored \cup Pending : Right(s) /\ s.at \in 0 .. clock /\ Cites(s))'
  BY <1>1, <1>3 DEF SnapshotInv, Right, Learnt, Follows, Cites
<1>5. (\A s, u \in stored : SameFingerprint(s, u) => s = u)'
  BY <1>1 DEF SnapshotInv, SameFingerprint, Insight!Present
<1>6. work' = [q \in Reader |-> work'[q]] BY <1>1 DEF SnapshotInv
<1> QED BY <1>1, <1>4, <1>5, <1>6 DEF SnapshotInv

LEMMA Steps == Insight!InsightAssumption /\ SnapshotInv /\ [Insight!Next]_(Insight!vars) => SnapshotInv'
<1> SUFFICES ASSUME Insight!InsightAssumption, SnapshotInv,
                    [Insight!Next]_(Insight!vars)
             PROVE SnapshotInv' OBVIOUS
<1>1. CASE \/ \E c \in Concept, form \in Form : Insight!CreateConcept(c, form)
           \/ \E e \in Concept \union Variant, t \in Target : Insight!CreateLink(e, t)
           \/ \E l \in links : Insight!DeleteLink(l)
           \/ \E a \in Ad, series \in Series : Insight!Sync(a, series)
           \/ \E e \in Economy : Insight!Reprice(e)
  BY <1>1, Changes
<1>2. ASSUME NEW r \in Reader, NEW range \in Period,
             NEW layer \in {"performance", "learning", "plan"}, Insight!Generate(r, layer, range)
      PROVE  SnapshotInv'
  BY <1>2, Generates
<1>3. ASSUME NEW r \in Reader, Insight!Insert(r) PROVE SnapshotInv' BY <1>3, Inserts
<1>4. CASE \/ Insight!Decide \/ Insight!GenerateDrafts \/ \E i \in Insight!Items : Insight!Acknowledge(i.id)
           \/ UNCHANGED Insight!vars
  <2>1. UNCHANGED <<stored, work, clock, links>>
    BY <1>4 DEF Insight!Decide, Insight!GenerateDrafts, Insight!Acknowledge,
       Insight!vars, Insight!inputs, Insight!layers
  <2> QED BY <2>1, Keeps DEF SnapshotInv
<1> QED BY <1>1, <1>2, <1>3, <1>4 DEF Insight!Next

\* Every snapshot, and every one that a request is about to insert, was right of
\* the inputs its request read.
THEOREM SnapshotsAreKept == Insight!Spec => []SnapshotInv
<1>1. Insight!Init => SnapshotInv BY Starts, LayersAssumption
<1>2. SnapshotInv /\ [Insight!Next]_(Insight!vars) => SnapshotInv'
  BY Steps, LayersAssumption
<1> QED BY <1>1, <1>2, PTL DEF Insight!Spec

\* classify, scaling_readiness and _observation_sufficiency agree in every stored
\* report: what may be reviewed for scaling is classified on enough data.
THEOREM RulesAgree == Insight!Spec => []GatesAgree
<1>1. SnapshotInv => GatesAgree
  BY DEF SnapshotInv, Right, Agrees, GatesAgree, Insight!GatesAgree
<1> QED BY <1>1, SnapshotsAreKept, PTL

\* The optimization engine makes one item of each recommendation the learning
\* engine makes, none of those it ignores (early signs of fatigue, thin or mixed
\* evidence on anything but an angle), says insufficient_data when the learning
\* engine does, and expands nothing that a gate blocks.
THEOREM PlansAreFollowed == Insight!Spec => []PlansFollowReports
<1>1. SnapshotInv => PlansFollowReports
  <2> SUFFICES ASSUME SnapshotInv PROVE Insight!PlansFollowReports
    BY DEF PlansFollowReports
  <2>1. \A s \in {u \in stored : u.layer = "plan"} : Follows(s.body, s.key)
    BY DEF SnapshotInv, Right
  <2>2. Insight!RecommendedIsPlanned BY <2>1 DEF Follows, Insight!RecommendedIsPlanned
  <2>3. Insight!PlanAgreesWithLearning
    BY <2>1 DEF Follows, Insight!PlanAgreesWithLearning
  <2> QED BY <2>2, <2>3 DEF Insight!PlansFollowReports
<1> QED BY <1>1, SnapshotsAreKept, PTL

\* _latest_learning_artifacts and persist_snapshot: the fingerprint by which a
\* plan cites a stored report leads to that report, and to no other.
THEOREM PlansCiteTheirReport == Insight!Spec => []CitationsHold
<1>1. SnapshotInv => CitationsHold
  <2> SUFFICES ASSUME SnapshotInv, NEW s \in stored, s.cites
               PROVE  {u.body : u \in {v \in stored : v.layer = "learning"
                                                     /\ v.key = s.key.learning}} = {s.body}
    BY DEF CitationsHold, Insight!CitationsHold
  <2>1. PICK u \in stored : u.layer = "learning" /\ u.key = s.key.learning /\ u.body = s.body
    BY DEF SnapshotInv, Cites
  <2>2. \A v \in stored : v.layer = "learning" /\ v.key = s.key.learning => v = u
    BY <2>1 DEF SnapshotInv, SameFingerprint
  <2> QED BY <2>1, <2>2
<1> QED BY <1>1, SnapshotsAreKept, PTL

-----------------------------------------------------------------------------
(* Diagnostics and recommendations (Rules): what its modules import is     *)
(* what the lemmas above speak of.                                         *)

LEMMA SameSets ==
  ASSUME NEW S
  PROVE  /\ Rules!Cardinality(S) = Cardinality(S)
         /\ Rules!IsFiniteSet(S) <=> IsFiniteSet(S)
BY DEF Rules!Cardinality, Cardinality, Rules!IsFiniteSet, IsFiniteSet

LEMMA TotalStays ==
  ASSUME NEW S, IsFiniteSet(S), NEW f, NEW T, 0 \in T, \A a, b \in T : a + b \in T,
         \A x \in S : f[x] \in T
  PROVE  Rules!SumFunctionOnSet(f, S) \in T
<1>1. Rules!SumFunctionOnSet(f, S) = (CHOOSE g : Adds(g, f, S))[S]
  BY DEF Rules!SumFunctionOnSet, Rules!FoldFunctionOnSet, Rules!MapThenFoldSet,
         Adds, First, Remainder
<1>2. Insight!SumFunctionOnSet(f, S) \in T BY SumStays
<1> QED BY <1>1, <1>2, Recurs

LEMMA ImageIsFinite ==
  ASSUME NEW S, IsFiniteSet(S), NEW f, f = [x \in S |-> f[x]]
  PROVE  IsFiniteSet({f[x] : x \in S})
<1>1. f \in Surjection(S, {f[x] : x \in S}) BY DEF Surjection
<1> QED BY <1>1, FS_Surjection

LEMMA GreatestOf ==
  ASSUME NEW S, IsFiniteSet(S), S # {}, \A x \in S : x \in Int
  PROVE  Rules!Max(S) \in S /\ \A x \in S : x <= Rules!Max(S)
<1>1. PICK b \in Int : \A x \in S : x <= b BY FiniteIsBounded
<1>2. S \subseteq Int OBVIOUS
<1>3. \E m \in S : \A x \in S : x <= m BY <1>1, <1>2, GreatestIs
<1>4. \E m \in S : \A x \in S : m >= x BY <1>2, <1>3
<1>5. Rules!Max(S) \in S /\ \A x \in S : Rules!Max(S) >= x BY <1>4 DEF Rules!Max
<1> QED BY <1>2, <1>5

LEMMA SmallerIs ==
  ASSUME NEW a \in Int, NEW b \in Int
  PROVE  Rules!Min({a, b}) \in Int /\ Rules!Min({a, b}) <= a /\ Rules!Min({a, b}) <= b
<1>1. \E x \in {a, b} : \A y \in {a, b} : x <= y
  <2>1. CASE a <= b BY <2>1
  <2>2. CASE ~(a <= b) BY <2>2
  <2> QED BY <2>1, <2>2
<1>2. Rules!Min({a, b}) \in {a, b} /\ \A y \in {a, b} : Rules!Min({a, b}) <= y
  BY <1>1 DEF Rules!Min
<1> QED BY <1>2

\* Unit economics: the products with a price, and what one order of each earns.
PricedOf(entry) == {p \in DOMAIN entry : Rules!Known(entry[p].price)}

HighestOf(entry) ==
  IF PricedOf(entry) = {} THEN NA ELSE Rules!Max({entry[p].price : p \in PricedOf(entry)})

EarnedOf(entry, terms, p) ==
  Rules!ContributionProfit(entry[p].price, entry[p].cost, terms.shipping,
                     Rules!BestDiscount(terms.discounts, HighestOf(entry)))

ProfitOf(entry, terms) ==
  Rules!SumFunctionOnSet([p \in PricedOf(entry) |-> EarnedOf(entry, terms, p)], PricedOf(entry))

IncomeOf(entry, terms) ==
  Rules!SumFunctionOnSet([p \in PricedOf(entry) |-> Rules!CustomerRevenue(entry[p].price, terms.shipping)],
                   PricedOf(entry))

LEMMA ProfileIs ==
  ASSUME NEW entry, NEW terms, PricedOf(entry) # {}
  PROVE  LET e == Rules!Profile(entry, terms.shipping, terms.discounts)
             profit == ProfitOf(entry, terms)
         IN  /\ e.average = <<profit, Rules!Cardinality(PricedOf(entry))>>
             /\ e.cpaHigh
                  = Rules!Max({EarnedOf(entry, terms, p) : p \in PricedOf(entry)})
             /\ e.roas = IF profit > 0 THEN <<IncomeOf(entry, terms), profit>> ELSE NA
BY DEF Rules!Profile, PricedOf, HighestOf, EarnedOf, ProfitOf, IncomeOf

LEMMA NothingPriced ==
  ASSUME NEW entry, NEW terms, PricedOf(entry) = {}
  PROVE  LET e == Rules!Profile(entry, terms.shipping, terms.discounts)
         IN  e.average = NA /\ e.cpaHigh = NA /\ e.roas = NA
BY DEF Rules!Profile, PricedOf

LEMMA DiscountIs ==
  ASSUME NEW discounts, IsFiniteSet(discounts),
         \A d \in discounts : d \in Rules!Discount,
         NEW highest \in Rules!OrNone(Int)
  PROVE  Rules!BestDiscount(discounts, highest) \in Rules!OrNone(Rules!Discount)
<1> DEFINE worth(d) == IF d.type = "percentage" THEN (highest * d.value) \div 100 ELSE d.value
           W == {worth(d) : d \in discounts}
<1>1. CASE discounts = {} \/ ~Rules!Known(highest)
  BY <1>1 DEF Rules!BestDiscount, Rules!OrNone
<1>2. CASE discounts # {} /\ Rules!Known(highest)
  <2>1. highest \in Int BY <1>2 DEF Rules!OrNone, Rules!Known
  <2>2. \A d \in discounts : worth(d) \in Int BY <2>1 DEF Rules!Discount
  <2>3. IsFiniteSet(W) /\ W # {}
    <3> DEFINE f == [d \in discounts |-> worth(d)]
    <3>1. IsFiniteSet({f[d] : d \in discounts})
      <4> HIDE DEF worth
      <4>1. f = [d \in discounts |-> f[d]] OBVIOUS
      <4> HIDE DEF f
      <4> QED BY <4>1, ImageIsFinite
    <3>2. W = {f[d] : d \in discounts}
      <4> HIDE DEF worth
      <4> QED OBVIOUS
    <3> HIDE DEF worth, f
    <3> QED BY <1>2, <3>1, <3>2
  <2>4. \A x \in W : x \in Int
    <3> HIDE DEF worth
    <3> QED BY <2>2
  <2>5. Rules!Max(W) \in W /\ \A x \in W : x <= Rules!Max(W)
    <3> HIDE DEF W
    <3> QED BY <2>3, <2>4, GreatestOf
  <2>6. PICK d \in discounts : worth(d) = Rules!Max(W)
    <3> HIDE DEF worth
    <3> QED BY <2>5
  <2>7. \A e \in discounts : worth(e) <= worth(d)
    <3> HIDE DEF worth
    <3> QED BY <2>5, <2>6
  <2>8. Rules!BestDiscount(discounts, highest)
          = CHOOSE x \in discounts : \A e \in discounts : worth(e) <= worth(x)
    BY <1>2 DEF Rules!BestDiscount
  <2>9. Rules!BestDiscount(discounts, highest) \in discounts
    <3> HIDE DEF worth
    <3> QED BY <2>7, <2>8
  <2> QED BY <2>9 DEF Rules!OrNone
<1> QED BY <1>1, <1>2

LEMMA AmountIs ==
  ASSUME NEW d \in Rules!Discount, NEW price \in Int, NEW order \in Int
  PROVE  Rules!DiscountAmount(d, price, order) \in Int
<1> DEFINE amount == IF d.type = "percentage" THEN (price * d.value) \div 100 ELSE d.value
           capped == IF Rules!Known(d.cap) THEN Rules!Min({amount, d.cap}) ELSE amount
<1>1. amount \in Int BY DEF Rules!Discount
<1>2. capped \in Int
  <2> HIDE DEF amount
  <2>1. d.cap \in Int \/ d.cap = NA BY DEF Rules!Discount, Rules!OrNone
  <2> QED BY <1>1, <2>1, SmallerIs DEF Rules!Known
<1>3. Rules!Min({capped, price}) \in Int
  <2> HIDE DEF capped
  <2> QED BY <1>2, SmallerIs
<1> QED BY <1>3 DEF Rules!DiscountAmount

LEMMA EarnedIs ==
  ASSUME NEW entry, Rules!CatalogFits(entry), NEW terms, Rules!OfferFits(terms),
         NEW p \in PricedOf(entry)
  PROVE  EarnedOf(entry, terms, p) \in Int /\ Rules!CustomerRevenue(entry[p].price, terms.shipping) \in Int
<1>1. IsFiniteSet(PricedOf(entry))
  BY SameSets, FS_Subset DEF Rules!CatalogFits, PricedOf
<1>2. \A q \in PricedOf(entry) : entry[q].price \in Int /\ entry[q].cost \in Rules!OrNone(Int)
  BY DEF PricedOf, Rules!CatalogFits, Rules!Amounts, Rules!OrNone, Rules!Known
<1> DEFINE prices == {entry[q].price : q \in PricedOf(entry)}
<1>3. Rules!Max(prices) \in Int
  <2>1. IsFiniteSet(prices) /\ prices # {}
    <3> DEFINE f == [q \in PricedOf(entry) |-> entry[q].price]
    <3>1. /\ f = [q \in PricedOf(entry) |-> f[q]]
          /\ prices = {f[q] : q \in PricedOf(entry)}
      OBVIOUS
    <3> HIDE DEF f
    <3> QED BY <1>1, <3>1, ImageIsFinite
  <2>2. \A x \in prices : x \in Int BY <1>2
  <2> HIDE DEF prices
  <2> QED BY <2>1, <2>2, GreatestOf
<1>4. HighestOf(entry) \in Rules!OrNone(Int) BY <1>3 DEF HighestOf, Rules!OrNone
<1> DEFINE best == Rules!BestDiscount(terms.discounts, HighestOf(entry))
           order == Rules!CustomerRevenue(entry[p].price, terms.shipping)
<1>5. best \in Rules!OrNone(Rules!Discount)
  BY <1>4, DiscountIs, SameSets DEF Rules!OfferFits
<1>6. terms.shipping \in Rules!OrNone([price : Int, cost : Int]) BY DEF Rules!OfferFits
<1>7. order \in Int BY <1>2, <1>6 DEF Rules!CustomerRevenue, Rules!OrNone, Rules!Known
<1>8. Rules!Known(best) => Rules!DiscountAmount(best, entry[p].price, order) \in Int
  <2> HIDE DEF best, order
  <2> QED BY <1>2, <1>5, <1>7, AmountIs DEF Rules!OrNone, Rules!Known
<1>9. Rules!ContributionProfit(entry[p].price, entry[p].cost, terms.shipping, best)
           \in Int
  <2> HIDE DEF best
  <2> QED
    BY <1>2, <1>6, <1>7, <1>8 DEF Rules!ContributionProfit, Rules!OrNone, Rules!Known
<1> QED BY <1>7, <1>9 DEF EarnedOf

EconomyHolds(e) ==
  /\ Rules!Known(e.roas) => e.roas[1] \in Int /\ e.roas[2] \in Int /\ e.roas[2] > 0
  /\ Rules!Known(e.cpaHigh) => /\ e.cpaHigh \in Int /\ e.average[1] \in Int
                               /\ e.average = <<e.average[1], e.average[2]>>
                               /\ e.average[2] \in Int
                               /\ e.cpaHigh = 0 => e.average[1] <= 0

LEMMA ProfileHolds ==
  ASSUME NEW entry, Rules!CatalogFits(entry), NEW terms, Rules!OfferFits(terms)
  PROVE  EconomyHolds(Rules!Profile(entry, terms.shipping, terms.discounts))
<1> DEFINE e == Rules!Profile(entry, terms.shipping, terms.discounts)
           P == PricedOf(entry)
           earned == [p \in P |-> EarnedOf(entry, terms, p)]
           paid == [p \in P |-> Rules!CustomerRevenue(entry[p].price, terms.shipping)]
<1>1. CASE P = {} BY <1>1, NothingPriced DEF EconomyHolds, Rules!Known
<1>2. CASE P # {}
  <2>1. IsFiniteSet(P) BY SameSets, FS_Subset DEF Rules!CatalogFits, PricedOf
  <2>2. \A p \in P : earned[p] \in Int /\ paid[p] \in Int BY EarnedIs
  <2>3. ProfitOf(entry, terms) = Rules!SumFunctionOnSet(earned, P)
        /\ IncomeOf(entry, terms) = Rules!SumFunctionOnSet(paid, P)
    BY DEF ProfitOf, IncomeOf
  <2>4. ProfitOf(entry, terms) \in Int /\ IncomeOf(entry, terms) \in Int
    <3> HIDE DEF earned, paid, P
    <3>1. 0 \in Int /\ \A a, b \in Int : a + b \in Int OBVIOUS
    <3> QED BY <2>1, <2>2, <2>3, <3>1, TotalStays
  <2> DEFINE all == {EarnedOf(entry, terms, p) : p \in P}
  <2>5. IsFiniteSet(all) /\ all # {}
    <3>1. earned = [p \in P |-> earned[p]] /\ all = {earned[p] : p \in P}
      <4> HIDE DEF P
      <4> QED OBVIOUS
    <3> HIDE DEF P, earned
    <3> QED BY <1>2, <2>1, <3>1, ImageIsFinite
  <2>6. \A x \in all : x \in Int BY <2>2
  <2>7. Rules!Max(all) \in all /\ \A x \in all : x <= Rules!Max(all)
    <3> HIDE DEF all
    <3> QED BY <2>5, <2>6, GreatestOf
  <2>8. Rules!Max(all) = 0 => ProfitOf(entry, terms) <= 0
    <3> SUFFICES ASSUME Rules!Max(all) = 0 PROVE ProfitOf(entry, terms) <= 0 OBVIOUS
    <3> DEFINE losses == {n \in Int : n <= 0}
    <3>1. \A p \in P : earned[p] \in all BY DEF all
    <3>2. \A p \in P : earned[p] \in losses
      <4> HIDE DEF earned, all
      <4> QED BY <2>2, <2>7, <3>1
    <3>3. 0 \in losses /\ \A a, b \in losses : a + b \in losses OBVIOUS
    <3>4. Rules!SumFunctionOnSet(earned, P) \in losses
      <4> HIDE DEF losses, earned, P
      <4> QED BY <2>1, <3>2, <3>3, TotalStays
    <3> QED BY <2>3, <3>4
  <2>9. /\ e.average = <<ProfitOf(entry, terms), Rules!Cardinality(P)>>
        /\ e.cpaHigh = Rules!Max(all)
        /\ e.roas = IF ProfitOf(entry, terms) > 0
                    THEN <<IncomeOf(entry, terms), ProfitOf(entry, terms)>> ELSE NA
    BY <1>2, ProfileIs
  <2>10. Rules!Cardinality(P) \in Int BY <2>1, SameSets, FS_CardinalityType
  <2>11. Rules!Max(all) \in Int
    <3> HIDE DEF all
    <3> QED BY <2>6, <2>7
  <2>12. /\ e.average[1] = ProfitOf(entry, terms) /\ e.average[2] = Rules!Cardinality(P)
         /\ e.average = <<e.average[1], e.average[2]>>
    <3> HIDE DEF e, P
    <3> QED BY <2>9
  <2>13. Rules!Known(e.roas) => /\ e.roas[1] = IncomeOf(entry, terms)
                                /\ e.roas[2] = ProfitOf(entry, terms)
                                /\ ProfitOf(entry, terms) > 0
    <3> HIDE DEF e, P
    <3> QED BY <2>9 DEF Rules!Known
  <2>14. EconomyHolds(e)
    <3> HIDE DEF e, P, all
    <3> QED BY <2>4, <2>8, <2>9, <2>10, <2>11, <2>12, <2>13 DEF EconomyHolds
  <2> QED BY <2>14
<1> QED BY <1>1, <1>2
-----------------------------------------------------------------------------
(* The sums over the facts of a scope and a range.                         *)

Ranges == {Rules!Cur, Rules!Prev}

MeasuresHold(v) ==
  \A s \in Rules!Scope, days \in Ranges :
    /\ v.ads[s][days].rows \in Nat
    /\ \A c \in Rules!Column : v.ads[s][days].total[c] \in Rules!OrNone(Nat)

SalesHold(v) ==
  \A days \in Ranges :
    /\ v.sold[days]["purchases"] \in Rules!OrNone(Nat)
    /\ v.sold[days]["revenue"] \in Rules!OrNone(Int)
    /\ v.sold[days]["purchases"] # NA <=> v.sold[days]["revenue"] # NA

FactsFit(rows, sales, entry, terms) ==
  /\ rows \in [Ads -> [Rules!Days -> Rules!OrNone(Rules!AdRow)]]
  /\ sales \in [Rules!Days -> Rules!OrNone(Rules!SaleRow)]
  /\ Rules!CatalogFits(entry) /\ Rules!OfferFits(terms)

LEMMA RangesAreFew == \A days \in Ranges : days \subseteq Rules!Days /\ IsFiniteSet(days)
BY SameSets, FS_Subset, FactsAdmitted DEF Ranges, Rules!Cur, Rules!Prev, Rules!Days,
   Rules!DecisionAssumption

LEMMA RowsAreFew ==
  ASSUME NEW rows, NEW s \in Rules!Scope, NEW days \in Ranges
  PROVE  /\ IsFiniteSet(Rules!RowsOf(rows, s, days))
         /\ Rules!RowsOf(rows, s, days) \subseteq Ads \X Rules!Days
<1>1. Rules!AdsIn(s) \subseteq Ads
  BY ScopesFit DEF Rules!AdsIn, Rules!Scope, Rules!ScopeAssumption
<1>2. IsFiniteSet(Rules!AdsIn(s))
  BY <1>1, SameSets, FS_Subset, FactsAdmitted DEF Rules!DecisionAssumption
<1>3. IsFiniteSet(Rules!AdsIn(s) \X days) BY <1>2, RangesAreFew, FS_Product
<1>4. Rules!RowsOf(rows, s, days) \subseteq Rules!AdsIn(s) \X days BY DEF Rules!RowsOf
<1>5. IsFiniteSet(Rules!RowsOf(rows, s, days)) BY <1>3, <1>4, FS_Subset
<1> QED BY <1>1, <1>4, <1>5, RangesAreFew

LEMMA SumIs ==
  ASSUME NEW rows \in [Ads -> [Rules!Days -> Rules!OrNone(Rules!AdRow)]],
         NEW s \in Rules!Scope, NEW days \in Ranges,
         NEW c \in Rules!Column
  PROVE  Rules!SumOf(rows, Rules!RowsOf(rows, s, days), c) \in Rules!OrNone(Nat)
<1> DEFINE K == Rules!RowsOf(rows, s, days)
           f == [k \in K |-> rows[k[1]][k[2]][c]]
<1>1. IsFiniteSet(K) /\ K \subseteq Ads \X Rules!Days BY RowsAreFew
<1>2. \A k \in K : rows[k[1]][k[2]] \in Rules!AdRow
  <2> SUFFICES ASSUME NEW k \in K PROVE rows[k[1]][k[2]] \in Rules!AdRow OBVIOUS
  <2>1. k[1] \in Ads /\ k[2] \in Rules!Days BY <1>1
  <2>2. rows[k[1]][k[2]] \in Rules!OrNone(Rules!AdRow) BY <2>1
  <2>3. rows[k[1]][k[2]] # NA BY DEF Rules!RowsOf, Rules!Known
  <2> QED BY <2>2, <2>3 DEF Rules!OrNone
<1>3. \A k \in K : f[k] \in Nat
  <2> HIDE DEF K
  <2> QED BY <1>2 DEF Rules!AdRow
<1>4. 0 \in Nat /\ \A a, b \in Nat : a + b \in Nat OBVIOUS
<1>5. Rules!SumFunctionOnSet(f, K) \in Nat
  <2> HIDE DEF f, K
  <2> QED BY <1>1, <1>3, <1>4, TotalStays
<1> QED BY <1>5 DEF Rules!SumOf, Rules!OrNone

LEMMA SoldIs ==
  ASSUME NEW sales \in [Rules!Days -> Rules!OrNone(Rules!SaleRow)], NEW days \in Ranges
  PROVE  /\ Rules!SoldOf(sales, days, "purchases") \in Rules!OrNone(Nat)
         /\ Rules!SoldOf(sales, days, "revenue") \in Rules!OrNone(Int)
         /\ Rules!SoldOf(sales, days, "purchases") # NA
              <=> Rules!SoldOf(sales, days, "revenue") # NA
<1> DEFINE K == {d \in days : Rules!Known(sales[d])}
           f == [d \in K |-> sales[d]["purchases"]]
           g == [d \in K |-> sales[d]["revenue"]]
<1>1. IsFiniteSet(K) /\ K \subseteq Rules!Days BY FS_Subset, RangesAreFew
<1>2. \A d \in K : sales[d] \in Rules!SaleRow BY <1>1 DEF Rules!OrNone, Rules!Known
<1>3. \A d \in K : f[d] \in Nat /\ g[d] \in Int
  <2> HIDE DEF K
  <2> QED BY <1>2 DEF Rules!SaleRow
<1>4. 0 \in Nat /\ (\A a, b \in Nat : a + b \in Nat)
      /\ 0 \in Int /\ \A a, b \in Int : a + b \in Int OBVIOUS
<1>5. Rules!SumFunctionOnSet(f, K) \in Nat /\ Rules!SumFunctionOnSet(g, K) \in Int
  <2> HIDE DEF f, g, K
  <2> QED BY <1>1, <1>3, <1>4, TotalStays
<1>6. Rules!SumFunctionOnSet(f, K) # NA /\ Rules!SumFunctionOnSet(g, K) # NA
  BY <1>5, FactsAdmitted DEF Rules!DecisionAssumption
<1>7. /\ Rules!SoldOf(sales, days, "purchases") = IF K = {} THEN NA ELSE Rules!SumFunctionOnSet(f, K)
      /\ Rules!SoldOf(sales, days, "revenue") = IF K = {} THEN NA ELSE Rules!SumFunctionOnSet(g, K)
  BY DEF Rules!SoldOf
<1> HIDE DEF f, g, K
<1> QED BY <1>5, <1>6, <1>7 DEF Rules!OrNone

LEMMA ViewsHold ==
  ASSUME NEW rows, NEW sales, NEW entry, NEW terms, FactsFit(rows, sales, entry, terms)
  PROVE  LET v == Rules!Views(rows, sales, entry, terms)
         IN  MeasuresHold(v) /\ SalesHold(v) /\ EconomyHolds(v.economy)
<1> DEFINE v == Rules!Views(rows, sales, entry, terms)
<1>1. MeasuresHold(v)
  <2> SUFFICES ASSUME NEW s \in Rules!Scope, NEW days \in Ranges
               PROVE  /\ v.ads[s][days].rows \in Nat
                      /\ \A c \in Rules!Column : v.ads[s][days].total[c]
                           \in Rules!OrNone(Nat)
    BY DEF MeasuresHold
  <2>1. /\ v.ads[s][days].rows = Rules!Cardinality(Rules!RowsOf(rows, s, days))
        /\ \A c \in Rules!Column :
             v.ads[s][days].total[c] = Rules!SumOf(rows, Rules!RowsOf(rows, s, days), c)
    BY DEF Rules!Views, Ranges, Rules!Cur, Rules!Prev
  <2> HIDE DEF v
  <2>2. IsFiniteSet(Rules!RowsOf(rows, s, days)) BY RowsAreFew
  <2>3. Rules!Cardinality(Rules!RowsOf(rows, s, days)) \in Nat
    BY <2>2, SameSets, FS_CardinalityType
  <2>4. \A c \in Rules!Column : Rules!SumOf(rows, Rules!RowsOf(rows, s, days), c)
             \in Rules!OrNone(Nat)
    BY SumIs DEF FactsFit
  <2> QED BY <2>1, <2>3, <2>4
<1>2. SalesHold(v)
  <2>1. \A days \in Ranges :
          /\ v.sold[days]["purchases"] = Rules!SoldOf(sales, days, "purchases")
          /\ v.sold[days]["revenue"] = Rules!SoldOf(sales, days, "revenue")
    BY DEF Rules!Views, Ranges, Rules!Cur, Rules!Prev
  <2> HIDE DEF v
  <2> QED BY <2>1, SoldIs DEF FactsFit, SalesHold
<1>3. EconomyHolds(v.economy)
  <2>1. v.economy = Rules!Profile(entry, terms.shipping, terms.discounts)
    BY DEF Rules!Views
  <2> HIDE DEF v
  <2> QED BY <2>1, ProfileHolds DEF FactsFit
<1> QED BY <1>1, <1>2, <1>3
-----------------------------------------------------------------------------
(* The invariant: the facts are as the tables admit, the views are theirs. *)

FactsHold ==
  /\ FactsFit(insight, orders, catalog, offer)
  /\ goal \in Rules!OrNone(Rules!Aim)
  /\ views = Rules!Views(insight, orders, catalog, offer)

LEMMA FactsStart == Rules!Init => FactsHold
BY FactsAdmitted DEF Rules!Init, FactsHold, FactsFit, Rules!DecisionAssumption

LEMMA FactsKept == FactsHold /\ [Rules!Next]_(Rules!vars) => FactsHold'
<1> SUFFICES ASSUME FactsHold, [Rules!Next]_(Rules!vars) PROVE FactsHold' OBVIOUS
<1>1. CASE UNCHANGED Rules!factVars BY <1>1 DEF FactsHold, Rules!factVars
<1>2. ASSUME NEW d \in Rules!Days, NEW reading \in Readings, Rules!SyncInsights(d,
             reading)
      PROVE  FactsHold'
  <2>1. reading \in [Ads -> Rules!OrNone(Rules!AdRow)]
    BY FactsAdmitted DEF Rules!DecisionAssumption
  <2>2. insight' = [a \in Ads |-> [insight[a] EXCEPT ![d] = reading[a]]]
    BY <1>2 DEF Rules!SyncInsights
  <2>3. \A a \in Ads : insight[a] \in [Rules!Days -> Rules!OrNone(Rules!AdRow)]
    BY DEF FactsHold, FactsFit
  <2>4. insight' \in [Ads -> [Rules!Days -> Rules!OrNone(Rules!AdRow)]]
    BY <2>1, <2>2, <2>3
  <2>5. /\ views' = Rules!Views(insight', orders', catalog', offer')
        /\ UNCHANGED <<orders, catalog, offer, goal>>
    BY <1>2 DEF Rules!SyncInsights, Rules!Change
  <2> QED BY <2>4, <2>5 DEF FactsHold, FactsFit
<1>3. ASSUME NEW d \in Rules!Days, NEW sales \in Sales, Rules!SyncOrders(d, sales)
      PROVE FactsHold'
  <2>1. sales \in Rules!OrNone(Rules!SaleRow)
    BY FactsAdmitted DEF Rules!DecisionAssumption
  <2>2. orders' \in [Rules!Days -> Rules!OrNone(Rules!SaleRow)]
    BY <1>3, <2>1 DEF Rules!SyncOrders, FactsHold, FactsFit
  <2>3. /\ views' = Rules!Views(insight', orders', catalog', offer')
        /\ UNCHANGED <<insight, catalog, offer, goal>>
    BY <1>3 DEF Rules!SyncOrders, Rules!Change
  <2> QED BY <2>2, <2>3 DEF FactsHold, FactsFit
<1>4. ASSUME NEW entry \in Catalogs, Rules!EditCatalog(entry) PROVE FactsHold'
  <2>1. catalog' = entry /\ Rules!CatalogFits(entry)
    BY <1>4, FactsAdmitted DEF Rules!EditCatalog, Rules!DecisionAssumption
  <2>2. /\ views' = Rules!Views(insight', orders', catalog', offer')
        /\ UNCHANGED <<insight, orders, offer, goal>>
    BY <1>4 DEF Rules!EditCatalog, Rules!Change
  <2> QED BY <2>1, <2>2 DEF FactsHold, FactsFit
<1>5. ASSUME NEW terms \in Offers, Rules!EditOffer(terms) PROVE FactsHold'
  <2>1. offer' = terms /\ Rules!OfferFits(terms)
    BY <1>5, FactsAdmitted DEF Rules!EditOffer, Rules!DecisionAssumption
  <2>2. /\ views' = Rules!Views(insight', orders', catalog', offer')
        /\ UNCHANGED <<insight, orders, catalog, goal>>
    BY <1>5 DEF Rules!EditOffer, Rules!Change
  <2> QED BY <2>1, <2>2 DEF FactsHold, FactsFit
<1>6. ASSUME NEW target \in Goals, Rules!SetGoal(target) PROVE FactsHold'
  <2>1. goal' = target /\ target \in Rules!OrNone(Rules!Aim)
    BY <1>6, FactsAdmitted DEF Rules!SetGoal, Rules!DecisionAssumption
  <2>2. /\ views' = Rules!Views(insight', orders', catalog', offer')
        /\ UNCHANGED <<insight, orders, catalog, offer>>
    BY <1>6 DEF Rules!SetGoal, Rules!Change
  <2> QED BY <2>1, <2>2 DEF FactsHold, FactsFit
<1>7. ASSUME NEW q \in Rules!Provider, NEW outcome, Rules!RunSync(q, outcome)
      PROVE FactsHold'
  <2>1. views' = Rules!Views(insight', orders', catalog', offer')
        /\ UNCHANGED <<insight, orders, catalog, offer, goal>>
    BY <1>7 DEF Rules!RunSync, Rules!Change
  <2> QED BY <2>1 DEF FactsHold, FactsFit
<1>8. ASSUME NEW r \in Asker,
             \/ Rules!Begin(r) \/ \E c \in Rules!Campaigns : Rules!BeginCampaign(r, c)
             \/ Rules!Answer(r)
      PROVE  UNCHANGED Rules!factVars
  BY <1>8 DEF Rules!Begin, Rules!BeginCampaign, Rules!Answer, Rules!Decide, Rules!Store
<1> QED
  BY <1>1, <1>2, <1>3, <1>4, <1>5, <1>6, <1>7, <1>8 DEF Rules!Next, Rules!FactsMove,
     Rules!vars

-----------------------------------------------------------------------------
(* What the rules read.                                                    *)

LEMMA CurIs == Rules!Cur \in Ranges BY DEF Ranges

LEMMA MeasuresAre ==
  ASSUME FactsHold
  PROVE  /\ EconomyHolds(Rules!Economy)
         /\ \A days \in Ranges :
              /\ Rules!Purchases(days) \in Rules!OrNone(Nat)
              /\ Rules!Revenue(days) \in Rules!OrNone(Int)
              /\ Rules!Known(Rules!Purchases(days)) <=> Rules!Known(Rules!Revenue(days))
         /\ \A s \in Rules!Scope, days \in Ranges :
              /\ Rules!RowCount(s, days) \in Nat
              /\ \A c \in Rules!Column : Rules!AdTotal(s, days, c) \in Rules!OrNone(Nat)
<1> DEFINE v == Rules!Views(insight, orders, catalog, offer)
<1>1. MeasuresHold(v) /\ SalesHold(v) /\ EconomyHolds(v.economy)
  BY ViewsHold DEF FactsHold
<1>2. views = v BY DEF FactsHold
<1> HIDE DEF v
<1>3. MeasuresHold(views) /\ SalesHold(views) /\ EconomyHolds(views.economy)
  BY <1>1, <1>2
<1> QED
  BY <1>3 DEF MeasuresHold, SalesHold, Rules!Economy, Rules!Purchases, Rules!Revenue,
     Rules!CommerceTotal,
             Rules!RowCount, Rules!AdTotal, Rules!Known

LEMMA TotalsAre ==
  ASSUME FactsHold, NEW s \in Rules!Scope, NEW days \in Ranges
  PROVE  /\ Rules!Spend(s, days) \in Rules!OrNone(Nat)
         /\ Rules!Impressions(s, days) \in Rules!OrNone(Nat)
         /\ Rules!Conversions(s, days) \in Rules!OrNone(Nat)
         /\ Rules!AdTotal(s, days, "value") \in Rules!OrNone(Nat)
         /\ Rules!RowCount(s, days) \in Nat
BY MeasuresAre DEF Rules!Spend, Rules!Impressions, Rules!Conversions, Rules!Column

LEMMA RoasIs ==
  ASSUME FactsHold, NEW s \in Rules!Scope, NEW days \in Ranges,
         Rules!Known(Rules!Roas(s, days))
  PROVE  /\ Rules!Roas(s, days)[1] \in Nat /\ Rules!Roas(s, days)[2] \in Nat \ {0}
         /\ Rules!Spend(s, days) \in Nat \ {0}
<1>1. /\ Rules!Roas(s, days) = <<Rules!AdTotal(s, days, "value"), Rules!Spend(s, days)>>
      /\ Rules!Known(Rules!AdTotal(s, days, "value"))
      /\ Rules!Known(Rules!Spend(s, days)) /\ Rules!Spend(s, days) # 0
  BY DEF Rules!Roas, Rules!Ratio, Rules!SafeDivide, Rules!Known
<1> QED BY <1>1, TotalsAre DEF Rules!OrNone, Rules!Known

LEMMA NotPositive == ASSUME NEW a \in Int, a <= 0, NEW b \in Nat
  PROVE a * b \in Int /\ a * b <= 0
OBVIOUS

LEMMA FarUnderIsUnder ==
  ASSUME NEW a \in Int, NEW b \in Nat, NEW e \in Int, NEW f \in Nat, NEW k \in Nat,
         ~((a * f - e * b) * 100 >= (-k) * b * f)
  PROVE  a * f < e * b
<1>1. (-k) * b \in Int /\ (-k) * b <= 0 BY NotPositive
<1>2. (-k) * b * f \in Int /\ (-k) * b * f <= 0 BY <1>1, NotPositive
<1>3. a * f \in Int /\ e * b \in Int OBVIOUS
<1> DEFINE m == a * f
           n == e * b
           z == (-k) * b * f
<1>4. m \in Int /\ n \in Int /\ z \in Int /\ z <= 0 /\ ~((m - n) * 100 >= z)
  BY <1>2, <1>3
<1> HIDE DEF m, n, z
<1>5. m < n BY <1>4
<1> QED BY <1>5 DEF m, n

LEMMA LimitsAre ==
  /\ Threshold.minSpend \in Nat /\ Threshold.minImpressions \in Nat
  /\ Threshold.minConversions \in Nat
  /\ Threshold.minDays \in Nat /\ Threshold.minPurchases \in Nat
  /\ Threshold.killBuffer \in Nat
  /\ Threshold.floorSpend \in Nat /\ Threshold.floorSpend <= Threshold.minSpend
  /\ Threshold.floorImpressions \in Nat
BY ThresholdsFit, FactsAdmitted DEF Rules!LimitAssumption, Rules!DecisionAssumption

\* Diagnostics and decisions of one campaign with facts.
LEMMA CampaignIs ==
  ASSUME FactsHold, NEW c \in Rules!Campaigns \cap Rules!Active
  PROVE  /\ c \in Rules!Scope /\ c # Business /\ Rules!Cur \in Ranges
         /\ Rules!RowCount(c, Rules!Cur) \in Nat \ {0}
         /\ \A pct : ~Rules!CpaOverViable(c, pct)
<1>1. c \in Entity /\ Rules!RowCount(c, Rules!Cur) > 0
  BY DEF Rules!Campaigns, Rules!Active
<1>2. c \in Rules!Scope /\ c # Business /\ Rules!Cur \in Ranges
  BY <1>1, ScopesFit DEF Rules!Scope, Ranges, Rules!ScopeAssumption
<1>3. Rules!RowCount(c, Rules!Cur) \in Nat BY <1>2, TotalsAre
<1>4. Rules!CpaOf(c) = NA BY <1>2 DEF Rules!CpaOf
<1> QED BY <1>1, <1>2, <1>3, <1>4 DEF Rules!CpaOverViable, Rules!Known

LEMMA KillIsUnder ==
  ASSUME FactsHold, NEW c \in Rules!Campaigns \cap Rules!Active, NEW outlook,
         Rules!KillReview(c, outlook)
  PROVE  Rules!UnderBreakEven(Rules!Roas(c, Rules!Cur)) /\ Rules!Spend(c, Rules!Cur) \in Nat \ {0}
<1> DEFINE roas == Rules!Roas(c, Rules!Cur)
<1>1. /\ Rules!Known(roas) /\ Rules!Known(Rules!Economy.roas)
      /\ ~Rules!AtOrOver(roas, -Threshold.killBuffer)
  BY CampaignIs DEF Rules!KillReview
<1>2. /\ roas[1] \in Nat /\ roas[2] \in Nat \ {0}
      /\ Rules!Spend(c, Rules!Cur) \in Nat \ {0}
  BY <1>1, CampaignIs, RoasIs
<1>3. Rules!Economy.roas[1] \in Int /\ Rules!Economy.roas[2] \in Nat
  BY <1>1, MeasuresAre DEF EconomyHolds
<1>4. Rules!RatLess(roas, Rules!Economy.roas)
  <2>1. ~((roas[1] * Rules!Economy.roas[2] - Rules!Economy.roas[1] * roas[2]) * 100
             >= (-Threshold.killBuffer) * roas[2] * Rules!Economy.roas[2])
    BY <1>1 DEF Rules!AtOrOver
  <2>2. Threshold.killBuffer \in Nat BY LimitsAre
  <2> HIDE DEF roas
  <2> QED BY <1>2, <1>3, <2>1, <2>2, FarUnderIsUnder DEF Rules!RatLess
<1> QED BY <1>1, <1>2, <1>4 DEF Rules!UnderBreakEven

LEMMA LearnedIsSampled ==
  ASSUME NEW c, ~Rules!Learning(c), Rules!AtLeast(Rules!Spend(c, Rules!Cur), 1)
  PROVE  Rules!SampleSufficient(c)
BY DEF Rules!Learning

LEMMA ReadyIs ==
  ASSUME FactsHold, NEW c \in Rules!Campaigns \cap Rules!Active, Rules!ReadyForReview(c)
  PROVE  /\ Rules!Sampled(c) /\ Rules!SampleSufficient(c)
         /\ Rules!Freshness("meta") # "stale"
         /\ ~Rules!UnderBreakEven(Rules!Roas(c, Rules!Cur)) /\ Rules!MeetsTarget(c)
<1>1. /\ Rules!GatesMet(c) /\ ~Rules!UnderBreakEven(Rules!Roas(c, Rules!Cur))
      /\ Rules!MeetsTarget(c)
  BY DEF Rules!ReadyForReview, Rules!Scaling
<1>2. /\ Rules!Sampled(c) /\ Rules!Freshness("meta") # "stale"
      /\ Rules!AtLeast(Rules!Conversions(c, Rules!Cur), Threshold.minConversions)
      /\ Rules!RowCount(c, Rules!Cur) >= Threshold.minDays
  BY <1>1 DEF Rules!GatesMet
<1>3. Rules!DaysSeen(c) >= Threshold.minDays
  <2>1. Rules!Cardinality(Rules!Cur) \in Nat
    BY RangesAreFew, CampaignIs, SameSets, FS_CardinalityType
  <2>2. Rules!DaysSeen(c)
             = Rules!Larger(Rules!RowCount(c, Rules!Cur), Rules!Cardinality(Rules!Cur))
    BY CampaignIs DEF Rules!DaysSeen
  <2>3. Rules!RowCount(c, Rules!Cur) \in Nat /\ Threshold.minDays \in Nat
    BY CampaignIs, LimitsAre
  <2> QED BY <1>2, <2>1, <2>2, <2>3 DEF Rules!Larger
<1> QED BY <1>1, <1>2, <1>3 DEF Rules!SampleSufficient

LEMMA CampaignsAgree ==
  ASSUME FactsHold, NEW c \in Rules!Campaigns \cap Rules!Active, NEW outlook, NEW seen
  PROVE  LET state == Rules!PerformanceState(c)
             verdict == Rules!VerdictOn(c, seen, outlook)
         IN  /\ Rules!ReadyForReview(c) =>
                   /\ state = "profitable"
                   /\ verdict \notin {"kill_review", "learning"}
                   /\ verdict = "insufficient_data" =>
                        Rules!Impressions(c, Rules!Cur) < Threshold.floorImpressions
             /\ verdict = "kill_review" => state = "unprofitable"
             /\ verdict = "scale_review" =>
                   state \notin {"unprofitable", "stale_data", "learning", "insufficient_data"}
<1> DEFINE state == Rules!PerformanceState(c)
           verdict == Rules!VerdictOn(c, seen, outlook)
<1>1. Rules!RowCount(c, Rules!Cur) # 0 BY CampaignIs
<1>2. ASSUME Rules!ReadyForReview(c)
      PROVE  /\ state = "profitable"
             /\ verdict \notin {"kill_review", "learning"}
             /\ verdict = "insufficient_data"
                  => Rules!Impressions(c, Rules!Cur) < Threshold.floorImpressions
  <2>1. state = "profitable" BY <1>1, <1>2, ReadyIs DEF Rules!PerformanceState
  <2>2. ~Rules!Learning(c) BY <1>2, ReadyIs DEF Rules!Learning
  <2>3. ~Rules!KillReview(c, outlook) BY <1>2, ReadyIs, KillIsUnder
  <2>4. verdict \notin {"kill_review", "learning"} BY <2>2, <2>3 DEF Rules!VerdictOn
  <2>5. Rules!InsufficientData(c)
             => Rules!Impressions(c, Rules!Cur) < Threshold.floorImpressions
    <3>1. /\ Rules!Known(Rules!Spend(c, Rules!Cur))
          /\ Rules!Spend(c, Rules!Cur) >= Threshold.minSpend
          /\ Rules!Known(Rules!Impressions(c, Rules!Cur))
      BY <1>2, ReadyIs DEF Rules!Sampled, Rules!AtLeast
    <3>2. Rules!Spend(c, Rules!Cur) \in Nat /\ Rules!Impressions(c, Rules!Cur) \in Nat
      BY <3>1, CampaignIs, TotalsAre DEF Rules!OrNone, Rules!Known
    <3>3. Rules!Spend(c, Rules!Cur) >= Threshold.floorSpend BY <3>1, <3>2, LimitsAre
    <3> QED BY <3>1, <3>2, <3>3, LimitsAre DEF Rules!InsufficientData, Rules!AtLeast
  <2>6. verdict = "insufficient_data" => Rules!InsufficientData(c)
    BY DEF Rules!VerdictOn
  <2> QED BY <2>1, <2>4, <2>5, <2>6
<1>3. ASSUME verdict = "kill_review" PROVE state = "unprofitable"
  <2>1. ~Rules!QualityIssue(seen) /\ ~Rules!Learning(c) /\ Rules!KillReview(c, outlook)
    BY <1>3 DEF Rules!VerdictOn
  <2>2. /\ Rules!UnderBreakEven(Rules!Roas(c, Rules!Cur))
        /\ Rules!Spend(c, Rules!Cur) \in Nat \ {0}
    BY <2>1, KillIsUnder
  <2>3. Rules!AtLeast(Rules!Spend(c, Rules!Cur), 1)
    BY <2>2, FactsAdmitted DEF Rules!AtLeast, Rules!Known, Rules!DecisionAssumption
  <2>4. Rules!Sampled(c) BY <2>1, <2>3, LearnedIsSampled DEF Rules!SampleSufficient
  <2>5. Rules!Freshness("meta") # "stale" BY <2>1 DEF Rules!QualityIssue
  <2> QED BY <1>1, <2>2, <2>4, <2>5 DEF Rules!PerformanceState
<1>4. ASSUME verdict = "scale_review"
      PROVE  state \notin {"unprofitable", "stale_data", "learning", "insufficient_data"}
  <2>1. Rules!ScaleReview(c, seen, outlook) BY <1>4 DEF Rules!VerdictOn
  <2>2. state \notin {"unprofitable", "stale_data"} /\ Rules!SampleSufficient(c)
    BY <2>1, CampaignIs DEF Rules!ScaleReview
  <2>3. Rules!Sampled(c) BY <2>2 DEF Rules!SampleSufficient
  <2>4. state \notin {"learning", "insufficient_data"}
    BY <1>1, <2>3 DEF Rules!PerformanceState
  <2> QED BY <2>2, <2>4
<1> QED BY <1>2, <1>3, <1>4
-----------------------------------------------------------------------------
(* Persistence: of all rules one alone gives the finding.                  *)

Persistent(f) == f.code = "persistent_unprofitable_performance"

Found(code, s, severity) ==
  [code |-> code, scope |-> s, severity |-> severity, of |-> NA, status |-> "detected"]

LEMMA FindingIs ==
  ASSUME NEW code, NEW s, NEW severity, NEW condition
  PROVE  /\ condition => Found(code, s, severity) \in Rules!When(condition, Rules!Finding(code, s, severity))
         /\ \A f \in Rules!When(condition, Rules!Finding(code, s, severity)) :
              condition /\ f = Found(code, s, severity)
BY DEF Rules!Finding, Found, Rules!When

LEMMA OthersDiffer ==
  ASSUME NEW s, NEW f, Persistent(f)
  PROVE  /\ f \notin Rules!SharedRules(s)
         /\ f \notin UNION {Rules!LowCvr, Rules!CvrDecline, Rules!HighCpa, Rules!NegativeProfit, Rules!DecliningMargin,
                 Rules!RevenueProfitDivergence, Rules!NegativeUnitMargin, Rules!BreakEvenUnavailable,
                 Rules!TargetAboveViable, Rules!FunnelBottleneck, Rules!LowClickToPurchase,
                 Rules!SpendWithoutPurchase, Rules!PurchaseRevenueMismatch,
                 Rules!RevenuePurchaseMismatch, Rules!ConversionMismatch,
                 Rules!ProviderFindings("meta"), Rules!ProviderFindings("shopify"),
                 Rules!IncompletePeriod, Rules!UnobservedStages, Rules!RecentSyncFailures}
         /\ f \notin Rules!CreativeLowCtr(s) \cup Rules!PossibleFatigue(s)
<1>1. \A code, t, severity :
        f \in Rules!Finding(code, t, severity) \cup Rules!Insufficient(code, t)
           => code = "persistent_unprofitable_performance"
  BY DEF Rules!Finding, Rules!Insufficient, Persistent
<1>2. \A condition, F : f \in Rules!When(condition, F) => f \in F BY DEF Rules!When
<1>3. /\ f \notin Rules!LowCtr(s) /\ f \notin Rules!CtrDecline(s)
      /\ f \notin Rules!HighCpc(s)
      /\ f \notin Rules!HighCpm(s) /\ f \notin Rules!BelowBreakEvenRoas(s)
      /\ f \notin Rules!BelowTargetRoas(s)
  BY <1>1, <1>2 DEF Rules!LowCtr, Rules!CtrDecline, Rules!HighCpc, Rules!HighCpm,
     Rules!BelowBreakEvenRoas, Rules!BelowTargetRoas
<1>4. /\ f \notin Rules!LowCvr /\ f \notin Rules!CvrDecline /\ f \notin Rules!HighCpa
      /\ f \notin Rules!NegativeProfit
      /\ f \notin Rules!DecliningMargin
  BY <1>1, <1>2 DEF Rules!LowCvr, Rules!CvrDecline, Rules!HighCpa,
     Rules!NegativeProfit, Rules!DecliningMargin
<1>5. /\ f \notin Rules!RevenueProfitDivergence /\ f \notin Rules!NegativeUnitMargin
      /\ f \notin Rules!BreakEvenUnavailable /\ f \notin Rules!TargetAboveViable
      /\ f \notin Rules!FunnelBottleneck /\ f \notin Rules!LowClickToPurchase
  BY <1>1, <1>2 DEF Rules!RevenueProfitDivergence, Rules!NegativeUnitMargin,
     Rules!BreakEvenUnavailable,
     Rules!TargetAboveViable, Rules!FunnelBottleneck, Rules!LowClickToPurchase
<1>6. /\ f \notin Rules!SpendWithoutPurchase /\ f \notin Rules!PurchaseRevenueMismatch
      /\ f \notin Rules!RevenuePurchaseMismatch /\ f \notin Rules!ConversionMismatch
      /\ f \notin Rules!IncompletePeriod /\ f \notin Rules!UnobservedStages
      /\ f \notin Rules!RecentSyncFailures
  BY <1>1, <1>2 DEF Rules!SpendWithoutPurchase, Rules!PurchaseRevenueMismatch,
     Rules!RevenuePurchaseMismatch,
     Rules!ConversionMismatch, Rules!IncompletePeriod, Rules!UnobservedStages, Rules!RecentSyncFailures
<1>7. \A q : f \notin Rules!ProviderFindings(q)
  <2> SUFFICES ASSUME NEW q, f \in Rules!ProviderFindings(q) PROVE FALSE OBVIOUS
  <2>1. f.code \in {"stale_data", "delayed_data", "not_connected", "missing_reporting_period"}
    <3> DEFINE x == Rules!Freshness(q)
    <3> HIDE DEF x
    <3>1. f \in CASE x = "stale" -> Rules!ProviderFinding("stale_data", q, "medium")
                 [] x = "delayed" -> Rules!ProviderFinding("delayed_data", q, "low")
                 [] x = "not connected" -> Rules!ProviderFinding("not_connected", q, "info")
                 [] x = "no facts" -> Rules!ProviderFinding("missing_reporting_period", q, "info")
                 [] OTHER -> {}
      BY DEF Rules!ProviderFindings, x
    <3>2. \A code, severity : f \in Rules!ProviderFinding(code, q, severity)
               => f.code = code
      BY DEF Rules!ProviderFinding
    <3>3. CASE x = "stale" BY <3>1, <3>2, <3>3
    <3>4. CASE x = "delayed" BY <3>1, <3>2, <3>4
    <3>5. CASE x = "not connected" BY <3>1, <3>2, <3>5
    <3>6. CASE x = "no facts" BY <3>1, <3>2, <3>6
    <3>7. CASE x \notin {"stale", "delayed", "not connected", "no facts"}
      BY <3>1, <3>7
    <3> QED BY <3>3, <3>4, <3>5, <3>6, <3>7
  <2> QED BY <2>1 DEF Persistent
<1>8. f \notin Rules!CreativeLowCtr(s) /\ f \notin Rules!PossibleFatigue(s)
  BY <1>1, <1>2 DEF Rules!CreativeLowCtr, Rules!PossibleFatigue
<1> QED BY <1>3, <1>4, <1>5, <1>6, <1>7, <1>8 DEF Rules!SharedRules

LEMMA PersistentIs ==
  ASSUME NEW f \in Rules!Findings, Persistent(f)
  PROVE  /\ f \in Rules!PersistentlyUnprofitable(f.scope)
         /\ f.scope = Business \/ (f.scope \in Rules!Active /\ f.scope # Business)
<1>1. ASSUME NEW s, f \in Rules!PersistentlyUnprofitable(s) PROVE f.scope = s
  <2>1. f \in Rules!Finding("persistent_unprofitable_performance", s, "high")
    BY <1>1 DEF Rules!PersistentlyUnprofitable, Rules!When
  <2> QED BY <2>1 DEF Rules!Finding
<1>2. CASE f \in Rules!BusinessFindings
  BY <1>1, <1>2, OthersDiffer DEF Rules!BusinessFindings
<1>3. ASSUME NEW e \in Rules!Active, f \in Rules!EntityFindings(e)
      PROVE  f \in Rules!PersistentlyUnprofitable(e)
  BY <1>3, OthersDiffer DEF Rules!EntityFindings
<1>4. \A e \in Rules!Active : e # Business
  BY ScopesFit DEF Rules!Active, Rules!ScopeAssumption
<1> QED BY <1>1, <1>2, <1>3, <1>4 DEF Rules!Findings

Cause(g, s) ==
  /\ g.scope = s /\ g.status = "detected"
  /\ g.code \in {"below_break_even_roas", "high_cpa", "negative_contribution_profit",
                 "negative_unit_margin"}

LEMMA RoasIsCause ==
  ASSUME NEW s, Rules!UnderBreakEven(Rules!Roas(s, Rules!Cur)),
         s = Business \/ s \in Rules!Active
  PROVE  \E g \in Rules!Findings : Cause(g, s)
<1> DEFINE g == Found("below_break_even_roas", s, "high")
<1>1. g \in Rules!BelowBreakEvenRoas(s) /\ Cause(g, s)
  BY FindingIs DEF Rules!BelowBreakEvenRoas, Found, Cause
<1> HIDE DEF g
<1>2. g \in Rules!SharedRules(s) BY <1>1 DEF Rules!SharedRules
<1>3. g \in Rules!Findings
  BY <1>2 DEF Rules!Findings, Rules!BusinessFindings, Rules!EntityFindings
<1> QED BY <1>1, <1>3

LEMMA BusinessHas ==
  ASSUME NEW g, g \in Rules!HighCpa \/ g \in Rules!NegativeProfit
  PROVE  g \in Rules!Findings
BY DEF Rules!Findings, Rules!BusinessFindings

\* Of the business by CPA: the CPA is over the target, or the target is a best product
\* that earns nothing, and then so does the period.
LEMMA CpaIsCause ==
  ASSUME FactsHold, Rules!PersistentCpa, Rules!AtLeast(Rules!Purchases(Rules!Cur),
         Threshold.minPurchases)
  PROVE  \E g \in Rules!Findings : Cause(g, Business)
<1>1. /\ Rules!Known(Rules!Cpa(Rules!Cur)) /\ Rules!Known(Rules!CpaTarget)
      /\ Rules!Above(Rules!Cpa(Rules!Cur), Rules!CpaTarget)
  BY DEF Rules!PersistentCpa, Rules!Above
<1>2. CASE Rules!CpaTarget # 0
  <2> DEFINE severity == IF Rules!CpaOver(Rules!Cpa(Rules!Cur), Rules!CpaTarget, Threshold.cpaCritical) THEN "critical"
                         ELSE IF Rules!CpaOver(Rules!Cpa(Rules!Cur), Rules!CpaTarget, Threshold.cpaHigh)
                         THEN "high" ELSE "medium"
             g == Found("high_cpa", Business, severity)
             over == /\ Rules!Known(Rules!Cpa(Rules!Cur))
                     /\ Rules!Known(Rules!CpaTarget) /\ Rules!CpaTarget # 0
                      /\ Rules!Above(Rules!Cpa(Rules!Cur), Rules!CpaTarget)
  <2>2. Rules!HighCpa = Rules!When(over, Rules!Finding("high_cpa", Business, severity))
    BY DEF Rules!HighCpa
  <2>3. over BY <1>1, <1>2
  <2>4. Cause(g, Business) BY DEF Found, Cause
  <2> HIDE DEF severity, over
  <2>1. g \in Rules!HighCpa BY <2>2, <2>3, FindingIs
  <2> HIDE DEF g
  <2> QED BY <2>1, <2>4, BusinessHas
<1>3. CASE Rules!CpaTarget = 0
  <2>1. Rules!Economy.cpaHigh = 0 /\ Rules!Known(Rules!Economy.cpaHigh)
    BY <1>1, <1>3 DEF Rules!CpaTarget, FactsHold, Rules!OrNone, Rules!Aim, Rules!Known
  <2>2. /\ Rules!Economy.average[1] \in Int /\ Rules!Economy.average[2] \in Int
        /\ Rules!Economy.average
             = <<Rules!Economy.average[1], Rules!Economy.average[2]>>
        /\ Rules!Economy.average[1] <= 0
    BY <2>1, MeasuresAre DEF EconomyHolds
  <2>3. Rules!Known(Rules!Economy.average)
    <3>1. Rules!Economy.average \in Int \X Int BY <2>2
    <3> QED BY <3>1, FactsAdmitted DEF Rules!Known, Rules!DecisionAssumption
  <2>4. Rules!Purchases(Rules!Cur) \in Nat /\ Rules!Known(Rules!Revenue(Rules!Cur))
    BY MeasuresAre, CurIs DEF Rules!AtLeast, Rules!OrNone, Rules!Known
  <2>5. Rules!PeriodProfit(Rules!Cur) = <<Rules!Economy.average[1] * Rules!Purchases(Rules!Cur), Rules!Economy.average[2]>>
    BY <2>3, <2>4 DEF Rules!PeriodProfit
  <2>6. /\ Rules!Economy.average[1] * Rules!Purchases(Rules!Cur) \in Int
        /\ Rules!Economy.average[1] * Rules!Purchases(Rules!Cur) <= 0
    BY <2>2, <2>4, NotPositive
  <2>7. Rules!Known(Rules!PeriodProfit(Rules!Cur))
    <3>1. Rules!PeriodProfit(Rules!Cur) \in Int \X Int BY <2>2, <2>5, <2>6
    <3> QED BY <3>1, FactsAdmitted DEF Rules!Known, Rules!DecisionAssumption
  <2>8. Rules!PeriodProfit(Rules!Cur)[1] <= 0 BY <2>5, <2>6
  <2> DEFINE g == Found("negative_contribution_profit", Business, "high")
  <2>9. g \in Rules!NegativeProfit BY <2>7, <2>8, FindingIs DEF Rules!NegativeProfit
  <2>10. Cause(g, Business) BY DEF Found, Cause
  <2> HIDE DEF g
  <2> QED BY <2>9, <2>10, BusinessHas
<1> QED BY <1>2, <1>3

LEMMA CausesAre ==
  ASSUME FactsHold, NEW f \in Rules!Findings, Persistent(f)
  PROVE  \E g \in Rules!Findings : Cause(g, f.scope)
<1> DEFINE s == f.scope
<1>1. Rules!PersistentlyUnprofitable(s) # {} /\ (s = Business \/ s \in Rules!Active)
  BY PersistentIs
<1>2. CASE s # Business
  <2>1. Rules!UnderBreakEven(Rules!Roas(s, Rules!Cur))
    BY <1>1, <1>2 DEF Rules!PersistentlyUnprofitable, Rules!When, Rules!PersistentRoas
  <2> QED BY <1>1, <2>1, RoasIsCause
<1>3. CASE s = Business
  <2>1. /\ Rules!AtLeast(Rules!Purchases(Rules!Cur), Threshold.minPurchases)
        /\ Rules!UnderBreakEven(Rules!Roas(Business, Rules!Cur)) \/ Rules!PersistentCpa
    BY <1>1, <1>3 DEF Rules!PersistentlyUnprofitable, Rules!When, Rules!PersistentRoas
  <2> QED BY <1>3, <2>1, RoasIsCause, CpaIsCause
<1> QED BY <1>2, <1>3

-----------------------------------------------------------------------------
(* The theorems.                                                           *)

LEMMA FactsAreKept == Rules!Spec => []FactsHold
BY FactsStart, FactsKept, PTL DEF Rules!Spec

\* PerformanceState, ReadyForReview and the verdict of a campaign.
THEOREM RulesDoNotContradict == Rules!Spec => []ViewsAgree
<1>1. FactsHold => ViewsAgree BY CampaignsAgree DEF ViewsAgree, Rules!ViewsAgree
<1> QED BY <1>1, FactsAreKept, PTL

\* persistent_unprofitable_performance.
THEOREM PersistenceIsCaused == Rules!Spec => []PersistenceHasACause
<1>1. FactsHold => PersistenceHasACause
  BY CausesAre DEF PersistenceHasACause, Rules!PersistenceHasACause, Persistent, Cause
<1> QED BY <1>1, FactsAreKept, PTL

=============================================================================
