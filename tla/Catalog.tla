-------------------------------- MODULE Catalog --------------------------------
(***************************************************************************)
(* What a business tells the system about itself and the economics are     *)
(* computed from: price and cost histories of a product, goals, shipping   *)
(* rules and stock.                                                        *)
(*                                                                         *)
(* The rules between rows (no overlapping periods, one default, a stock    *)
(* level that follows the last one) are kept by handlers that read first   *)
(* and commit last, under READ COMMITTED and without a constraint in the   *)
(* schema.  Rows remember what their writer had read (`seen`),             *)
(* so that the properties can tell a wrong check from a race.              *)
(***************************************************************************)
EXTENDS Naturals, Integers, FiniteSets

CONSTANTS
  Requests,
  Times,       \* instants a period may start or end at
  Quantities,  \* stock levels a person or the shop may report
  Deltas,      \* adjustments a person may ask for
  Open,        \* effective_to IS NULL
  Keep,        \* a field the PATCH leaves out
  MaxRequests, \* bound: requests that write
  MaxTables    \* bound: tables one behaviour writes to

ASSUME CatalogAssumption ==
  /\ Times \subseteq Nat /\ Quantities \subseteq Nat /\ Deltas \subseteq Int
  /\ Open \notin Times /\ Keep \notin Times
  /\ MaxRequests \in Nat /\ MaxTables \in Nat

VARIABLES
  history, \* product_prices and product_costs of one product
  goals,   \* business_goals
  rules,   \* shipping_rules
  stock,   \* inventory_snapshots of one product
  req,     \* the requests, each one a transaction
  begun,   \* the tables with requests and how many each had
  level,   \* the stock level the accepted requests add up to
  lost     \* a stock request overlapped another and no later count settled it

vars == <<history, goals, rules, stock, req, begun, level, lost>>

Histories == {"prices", "costs"}
Tables    == Histories \cup {"goals", "rules", "stock"}
Idle      == [pc |-> "idle"]

Count(b) == b["prices"] + b["costs"] + b["goals"] + b["rules"] + b["stock"]

Started == Count(begun)

Init ==
  /\ history = [h \in Histories |-> {}]
  /\ goals = {} /\ rules = {} /\ stock = {}
  /\ req = [r \in Requests |-> Idle]
  /\ begun = [t \in Tables |-> 0]
  /\ level = 0 /\ lost = FALSE

\* A request on table t starts its transaction, the at-th one.
Begin(r, t, rec) ==
  /\ req[r].pc = "idle" /\ Started < MaxRequests
  /\ begun' = [begun EXCEPT ![t] = @ + 1]
  /\ Cardinality({u \in Tables : begun'[u] > 0}) <= MaxTables
  /\ req' = [req EXCEPT ![r] = rec]

Continue(r, rec) == req' = [req EXCEPT ![r] = rec] /\ UNCHANGED begun

Done(r) == Continue(r, Idle)

\* What requests on the other tables write.
OnlyHistory == UNCHANGED <<goals, rules, stock, level, lost>>
OnlyGoals   == UNCHANGED <<history, rules, stock, level, lost>>
OnlyRules   == UNCHANGED <<history, goals, stock, level, lost>>
OnlyStock   == UNCHANGED <<history, goals, rules>>
NoRow       == UNCHANGED <<history, goals, rules, stock, level, lost>>

-----------------------------------------------------------------------------
(* Price and cost histories.                                               *)

\* Mutant: an open period conflicts with nothing.
OverlapClosedOnly(a, b) ==
  a.to # Open /\ (b.to = Open \/ a.from < b.to) /\ b.from < a.to

\* periods_overlap: a is stored, b is new.
PeriodsOverlap(a, b) ==
  \/ a.to = Open /\ b.from < a.from
  \/ a.to # Open /\ b.to = Open /\ b.from < a.to
  \/ a.to # Open /\ b.to # Open /\ a.from < b.to /\ b.from < a.to

Covers(p, t) == p.from <= t /\ (p.to = Open \/ t < p.to)

\* resolve_active_price and resolve_active_cost: any of these rows.
Effective(rows, t) ==
  {p \in rows : /\ Covers(p, t)
                /\ \A q \in rows : Covers(q, t) => q.from <= p.from}

\* ProductPriceCreate and ProductCostCreate refuse an empty period.
Periods == {p \in [from : Times, to : Times \cup {Open}] :
              p.to = Open \/ p.from < p.to}

Refused(rows, p) == \E q \in rows : PeriodsOverlap(q, p)

\* The checks of create_price and create_cost; a refused request writes nothing.
CheckPeriod(r, h) == \E p \in Periods :
  /\ ~Refused(history[h], p)
  /\ Begin(r, h, [pc |-> "period", id |-> Started + 1, h |-> h, from |-> p.from,
                  to |-> p.to, seen |-> {q.id : q \in history[h]}])
  /\ NoRow

\* upsert_product of a sync: a price of the shop that differs from the active
\* one is appended from now on, without a check.
SyncPrice(r) == \E now \in Times :
  LET active == Effective(history["prices"], now) IN
  \E seen \in IF active = {} THEN {{}} ELSE {{p.id} : p \in active} :
    /\ Begin(r, "prices", [pc |-> "period", id |-> Started + 1, h |-> "prices",
                           from |-> now, to |-> Open, seen |-> seen])
    /\ NoRow

StorePeriod(r) ==
  LET q == req[r] IN
  /\ q.pc = "period"
  /\ history' = [history EXCEPT ![q.h] = @ \cup
       {[id |-> q.id, from |-> q.from, to |-> q.to, seen |-> q.seen]}]
  /\ Done(r) /\ OnlyHistory

-----------------------------------------------------------------------------
(* Goals.  `version` names the last request that wrote a row; a row is torn *)
(* when that request had loaded an older version of it.                     *)

Versions(rows) == {<<x.id, x.version>> : x \in rows}

\* Mutant: the period of the request's own row is all that is compared.
GoalRefusedSelf(id, p) == \E g \in goals : g.id = id /\ PeriodsOverlap(g, p)

\* _assert_no_overlap of the goal that takes period p, against the others.
GoalRefused(id, p) == \E g \in goals : g.id # id /\ PeriodsOverlap(g, p)

\* create_goal, up to its commit.
CreateGoal(r) == \E p \in {q \in Periods : q.to # Open} :
  /\ ~GoalRefused(0, p)
  /\ Begin(r, "goals", [pc |-> "create", id |-> Started + 1, from |-> p.from,
                        to |-> p.to, seen |-> Versions(goals)])
  /\ NoRow

\* The path dependency of a PATCH loads the row.  A PATCH with both ends is
\* refused when they are out of order, one with a single end is not.
LoadGoal(r) == \E g \in goals, from \in Times \cup {Keep}, to \in Times \cup {Keep} :
  /\ ({from, to} \subseteq Times) => from < to
  /\ Begin(r, "goals", [pc |-> "load", id |-> Started + 1, goal |-> g,
                        from |-> from, to |-> to])
  /\ NoRow

\* update_goal checks the period the row will have if it is as it was loaded.
CheckGoal(r) ==
  LET q == req[r]
      p == [from |-> IF q.from = Keep THEN q.goal.from ELSE q.from,
            to   |-> IF q.to = Keep THEN q.goal.to ELSE q.to] IN
  /\ q.pc = "load"
  /\ IF GoalRefused(q.goal.id, p)
     THEN Done(r)
     ELSE Continue(r, [pc |-> "update", id |-> q.id, goal |-> q.goal,
                       from |-> q.from, to |-> q.to, seen |-> Versions(goals)])
  /\ NoRow

\* The commit of create_goal, or of update_goal: it writes the named columns of
\* the row as it is now, and fails if the row is gone or would be empty.
StoreGoal(r) ==
  LET q == req[r] IN
  \/ /\ q.pc = "create"
     /\ goals' = goals \cup {[id |-> q.id, from |-> q.from, to |-> q.to,
                              version |-> q.id, seen |-> q.seen, torn |-> FALSE]}
     /\ Done(r) /\ OnlyGoals
  \/ /\ q.pc = "update"
     /\ \E g \in goals :
          LET new == [g EXCEPT !.from = IF q.from = Keep THEN @ ELSE q.from,
                               !.to = IF q.to = Keep THEN @ ELSE q.to,
                               !.version = q.id, !.seen = q.seen,
                               !.torn = g.version # q.goal.version] IN
          /\ g.id = q.goal.id /\ new.from < new.to
          /\ goals' = (goals \ {g}) \cup {new}
     /\ Done(r) /\ OnlyGoals

DeleteGoal(r) == \E g \in goals :
  /\ req[r].pc = "idle" /\ goals' = goals \ {g}
  /\ UNCHANGED <<req, begun>> /\ OnlyGoals

-----------------------------------------------------------------------------
(* Shipping rules.  Clearing the defaults is one UPDATE statement: it picks  *)
(* the rows its snapshot shows as default, waits for those that another      *)
(* request holds, and skips the ones that are no longer default then.        *)

Defaults == {s \in rules : s.default}

Ids(rows) == {s.id : s \in rows}

\* Rows whose default another transaction has cleared and not yet committed.
HeldByOthers(r) ==
  UNION {req[o].cleared : o \in {x \in Requests \ {r} : req[x].pc = "rule"}}

\* A request without is_default = true clears nothing.
Plain(rule, was) ==
  [pc |-> "rule", id |-> Started + 1, rule |-> rule, was |-> was, to |-> FALSE,
   seen |-> {}, cleared |-> {}]

\* create_rule (rule 0 is the row to be made).
CreateRule(r) == \E default \in BOOLEAN :
  /\ Begin(r, "rules",
       IF default
       THEN [pc |-> "clear", id |-> Started + 1, rule |-> 0, was |-> FALSE,
             seen |-> Versions(Defaults), picked |-> Ids(Defaults)]
       ELSE Plain(0, FALSE))
  /\ NoRow

\* update_rule: the path dependency loads the row, is_default as it is then.
LoadRule(r) == \E s \in rules, to \in BOOLEAN :
  /\ Begin(r, "rules",
       IF to
       THEN [pc |-> "loaded", id |-> Started + 1, rule |-> s.id, was |-> s.default]
       ELSE Plain(s.id, s.default))
  /\ NoRow

PickAmong(r, ids) ==
  LET q == req[r] IN
  /\ q.pc = "loaded"
  /\ Continue(r, [pc |-> "clear", id |-> q.id, rule |-> q.rule, was |-> q.was,
                  seen |-> Versions(Defaults), picked |-> ids \ {q.rule}])
  /\ NoRow

\* Mutant: nothing is cleared.
PickNone(r) == PickAmong(r, {})

\* The snapshot of _clear_defaults, with the rule itself excluded.
PickDefaults(r) == PickAmong(r, Ids(Defaults))

ClearDefaults(r) ==
  LET q == req[r] IN
  /\ q.pc = "clear" /\ q.picked \cap HeldByOthers(r) = {}
  /\ Continue(r, [pc |-> "rule", id |-> q.id, rule |-> q.rule, was |-> q.was, to |-> TRUE,
                  seen |-> q.seen, cleared |-> q.picked \cap Ids(Defaults)])
  /\ NoRow

\* The commit.  An update that assigns the value it had loaded writes nothing
\* to the row, and one whose row is gone fails.
StoreRule(r) ==
  LET q == req[r]
      own == IF q.rule = 0 THEN q.id ELSE q.rule
      writes == q.rule = 0 \/ q.was # q.to
      others == {[s EXCEPT !.default = @ /\ s.id \notin q.cleared] :
                   s \in {x \in rules : x.id # own \/ ~writes}} IN
  /\ q.pc = "rule"
  /\ writes => own \notin HeldByOthers(r)
  /\ (writes /\ q.rule # 0) => own \in Ids(rules)
  /\ rules' = others \cup
       {s \in {[id |-> own, default |-> q.to, version |-> q.id, seen |-> q.seen]} : writes}
  /\ Done(r) /\ OnlyRules

DeleteRule(r) == \E s \in rules :
  /\ req[r].pc = "idle" /\ s.id \notin HeldByOthers(r)
  /\ rules' = rules \ {s}
  /\ UNCHANGED <<req, begun>> /\ OnlyRules

-----------------------------------------------------------------------------
(* Stock.  recorded_at is the start of the writer's transaction: `at`.       *)

\* current_inventory_quantity: the newest snapshot, 0 without one.
Current ==
  IF stock = {} THEN 0
  ELSE (CHOOSE s \in stock : \A o \in stock : o.at <= s.at).quantity

\* Mutant: the oldest snapshot is the base of an adjustment.
Oldest ==
  IF stock = {} THEN 0
  ELSE (CHOOSE s \in stock : \A o \in stock : o.at >= s.at).quantity

\* set_inventory, adjust_inventory and, for a page of the shop,
\* write_inventory_snapshot.
StartStock(r) == \E kind \in {"set", "adjust", "sync"} :
  \E n \in IF kind = "adjust" THEN Deltas ELSE Quantities :
    /\ Begin(r, "stock", [pc |-> kind, at |-> Started + 1, n |-> n,
                          before |-> Cardinality(stock)])
    /\ NoRow

ReadFrom(r, base, least) ==
  LET q == req[r]
      n == IF q.pc = "adjust" THEN base + q.n ELSE q.n IN
  /\ q.pc \in {"adjust", "sync"}
  /\ IF n < least \/ (q.pc = "sync" /\ stock # {} /\ n = base)
     THEN Done(r)
     ELSE Continue(r, [pc |-> "write", at |-> q.at, quantity |-> n, kind |-> q.pc,
                       n |-> q.n, before |-> q.before])
  /\ NoRow

\* Mutant: the base is the oldest snapshot.
ReadOldest(r) == ReadFrom(r, Oldest, 0)

\* The read of an adjustment, and the refusal of one below zero; a sync writes
\* nothing when the level is the one it brings.
ReadStock(r) == ReadFrom(r, Current, 0)

\* The commit: a count settles the level, unless it overlapped another write.
StoreStock(r) ==
  LET q == req[r]
      n == IF q.pc = "set" THEN q.n ELSE q.quantity
      alone == q.before = Cardinality(stock)
      count == q.pc = "set" \/ q.kind = "sync" IN
  /\ q.pc \in {"set", "write"}
  /\ stock' = stock \cup {[at |-> q.at, quantity |-> n]}
  /\ level' = IF count THEN q.n ELSE level + q.n
  /\ lost' = (~alone \/ (lost /\ ~count))
  /\ Done(r) /\ OnlyStock

-----------------------------------------------------------------------------
\* A failed statement, a lost connection or a process death rolls back.
RequestFails(r) == req[r].pc # "idle" /\ Done(r) /\ NoRow

Next == \E r \in Requests :
  \/ \E h \in Histories : CheckPeriod(r, h)
  \/ SyncPrice(r) \/ StorePeriod(r)
  \/ CreateGoal(r) \/ LoadGoal(r) \/ CheckGoal(r) \/ StoreGoal(r) \/ DeleteGoal(r)
  \/ CreateRule(r) \/ LoadRule(r) \/ PickDefaults(r) \/ ClearDefaults(r)
  \/ StoreRule(r) \/ DeleteRule(r)
  \/ StartStock(r) \/ ReadStock(r) \/ StoreStock(r)
  \/ RequestFails(r)

Spec == Init /\ [][Next]_vars

-----------------------------------------------------------------------------
(* Properties.                                                             *)

\* Shape of the rows.
TypeOK ==
  /\ \A h \in Histories : \A p \in history[h] :
       /\ [from |-> p.from, to |-> p.to] \in Periods
       /\ p.id \in 1..Started /\ p.seen \subseteq 1..Started
  /\ \A g \in goals : g.from \in Times /\ g.to \in Times /\ g.from < g.to
  /\ \A s \in rules : s.id \in 1..Started /\ s.default \in BOOLEAN
  /\ stock \subseteq [at : 1..Started, quantity : Nat]
  /\ Started \in 0..MaxRequests

\* A stored price or cost gives way to a newer one: where both apply, the row
\* whose request had read the other starts later and is the one resolved.
\* Rows that start together are excepted: of those the resolver may return
\* either.
NewestWins == \A h \in Histories : \A p, q \in history[h] :
  (/\ p.id \in q.seen /\ p.from # q.from
   /\ \E t \in Times : Covers(p, t) /\ Covers(q, t)) => p.from < q.from

\* Goals of a business overlap only if two requests overlapped: no request that
\* had read the other row as it is wrote one of the two, or one of them was
\* written by a request that had loaded an older version of it.
GoalsDisjoint == \A g, h \in goals :
  (g.id # h.id /\ g.from < h.to /\ h.from < g.to) =>
    \/ g.torn \/ h.torn
    \/ <<g.id, g.version>> \notin h.seen /\ <<h.id, h.version>> \notin g.seen

\* Two rules are default only if neither was made default by a request that
\* could see the other one as a default.
OneDefaultRule == \A a, b \in rules :
  (a.default /\ b.default /\ a.id # b.id) =>
    <<a.id, a.version>> \notin b.seen /\ <<b.id, b.version>> \notin a.seen

\* The stock level is the last count and every adjustment since, as long as no
\* two stock requests overlapped after that count.
StockAddsUp == ~lost => Current = level

\* The rows that a check of the service keeps apart are apart.
RowsFit == TypeOK /\ GoalsDisjoint /\ OneDefaultRule /\ StockAddsUp
===============================================================================
