---------------------------- MODULE RecordsProofs ----------------------------
(***************************************************************************)
(* Proofs about Catalog, for any number of requests, instants and levels,  *)
(* and about ResearchLibrary (Library), for any number of projects,        *)
(* submissions, pages and requests: the two parts of MCRecords.            *)
(*                                                                         *)
(* Catalog: none of the properties is inductive. They are about stored     *)
(* rows, and a row is right because of what its request had read.  Each    *)
(* table has an invariant that says of the requests under way what the     *)
(* property says of rows; the tables share only the tickets (the ids of    *)
(* requests), which name the version of every row and are never used       *)
(* twice.                                                                  *)
(*                                                                         *)
(* Library: a report is current because it, and a request that is about to *)
(* store one, was generated from rows of evidence that are still there and *)
(* from sources that differ from those of today at most in their content   *)
(* (Generated), and because the input tells which evidence and which       *)
(* content that was (InputTells).                                          *)
(***************************************************************************)
EXTENDS MCRecords, Sequences, FiniteSetTheorems, TLAPS

-----------------------------------------------------------------------------
(* Catalog: what the requests under way have read.                          *)

PeriodPcs == {"period"}
GoalPcs   == {"create", "load", "update"}
RulePcs   == {"clear", "loaded", "rule"}
StockPcs  == {"set", "adjust", "sync", "write"}
Pcs       == PeriodPcs \cup GoalPcs \cup RulePcs \cup StockPcs

Ticket(x) == IF x.pc \in StockPcs THEN x.at ELSE x.id

Pending == {r \in Requests : req[r].pc # "idle"}

\* Every request under way has a ticket of its own.
Ticketed ==
  /\ req = [r \in Requests |-> req[r]]
  /\ begun \in [Tables -> Nat] /\ Started \in 0..MaxRequests
  /\ \A r \in Requests : req[r].pc \in Pcs \cup {"idle"}
  /\ \A r \in Pending : Ticket(req[r]) \in 1..Started
  /\ \A r, s \in Pending : Ticket(req[r]) = Ticket(req[s]) => r = s

-----------------------------------------------------------------------------
(* Prices and costs.                                                       *)

RowIds(h) == {p.id : p \in history[h]}

\* The period a request is about to store gives way to none it has read.
Succeeds(x) == \A p \in history[x.h] :
  (/\ p.id \in x.seen /\ p.from # x.from
   /\ \E t \in Times : Covers(p, t) /\ Covers(x, t)) => p.from < x.from

PeriodsHold ==
  /\ history = [h \in Histories |-> history[h]]
  /\ \A h \in Histories : \A p \in history[h] :
       /\ [from |-> p.from, to |-> p.to] \in Periods
       /\ p.id \in 1..Started /\ p.seen \subseteq RowIds(h)
       /\ \A r \in Pending : p.id # Ticket(req[r])
  /\ \A h \in Histories : \A p, q \in history[h] : p.id = q.id => p = q
  /\ \A r \in Requests : req[r].pc = "period" =>
       /\ req[r].h \in Histories
       /\ [from |-> req[r].from, to |-> req[r].to] \in Periods
       /\ req[r].seen \subseteq RowIds(req[r].h)
       /\ Succeeds(req[r])
  /\ NewestWins

-----------------------------------------------------------------------------
(* Goals.                                                                  *)

\* No row that the set of versions `seen` still describes overlaps p.
Clear(seen, id, p) == \A g \in goals :
  (g.id # id /\ <<g.id, g.version>> \in seen) => ~(g.from < p.to /\ p.from < g.to)

\* The period a PATCH has checked: the one of the row it had loaded.
Checked(x) == [from |-> IF x.from = Keep THEN x.goal.from ELSE x.from,
               to   |-> IF x.to = Keep THEN x.goal.to ELSE x.to]

\* The row as it was loaded, if it has not been written since.
Loaded(x) ==
  /\ x.from \in Times \cup {Keep} /\ x.to \in Times \cup {Keep}
  /\ x.goal.from \in Times /\ x.goal.to \in Times
  /\ \A g \in goals : (g.id = x.goal.id /\ g.version = x.goal.version) =>
                        g.from = x.goal.from /\ g.to = x.goal.to

\* Ticket t is the version of no row, now or in what a request has read.
UnknownGoal(t) ==
  /\ \A g \in goals : g.id # t /\ g.version # t /\ \A v \in g.seen : v[2] # t
  /\ \A r \in Requests :
       /\ req[r].pc \in {"create", "update"} => \A v \in req[r].seen : v[2] # t
       /\ req[r].pc \in {"load", "update"} => req[r].goal.version # t

GoalFields == {"id", "from", "to", "version", "seen", "torn"}

GoalsHold ==
  /\ \A g \in goals :
       /\ g.id \in 1..Started
       /\ g.from \in Times /\ g.to \in Times /\ g.from < g.to
       /\ g.torn \in BOOLEAN
       /\ DOMAIN g = GoalFields
  /\ \A g, h \in goals : g.id = h.id => g = h
  /\ \A t \in (Started + 1)..MaxRequests : UnknownGoal(t)
  /\ \A r \in Pending : UnknownGoal(Ticket(req[r]))
  /\ \A r \in Requests :
       /\ req[r].pc = "create" => /\ req[r].from \in Times /\ req[r].to \in Times
                                  /\ req[r].from < req[r].to
                                  /\ Clear(req[r].seen, 0, req[r])
       /\ req[r].pc \in {"load", "update"} => Loaded(req[r])
       /\ req[r].pc = "update" =>
            Clear(req[r].seen, req[r].goal.id, Checked(req[r]))
  /\ GoalsDisjoint

-----------------------------------------------------------------------------
(* Shipping rules.                                                         *)

UnknownRule(t) ==
  /\ \A s \in rules : s.version # t /\ \A v \in s.seen : v[2] # t
  /\ \A r \in Requests : req[r].pc \in {"clear", "rule"} =>
       \A v \in req[r].seen : v[2] # t

Own(x) == IF x.rule = 0 THEN x.id ELSE x.rule

RulesHold ==
  /\ \A s \in rules :
       /\ s.id \in 1..Started /\ s.default \in BOOLEAN
       /\ DOMAIN s = {"id", "default", "version", "seen"}
  /\ \A t \in (Started + 1)..MaxRequests : UnknownRule(t)
  /\ \A r \in Pending : UnknownRule(Ticket(req[r]))
  /\ \A r \in Requests :
       /\ req[r].pc \in RulePcs => req[r].rule \in 0..Started
       /\ req[r].pc = "clear" =>
            \A v \in req[r].seen : v[1] \in req[r].picked \cup {req[r].rule}
       /\ req[r].pc = "rule" =>
            /\ req[r].to \in BOOLEAN
            /\ \A s \in rules :
                 (s.default /\ <<s.id, s.version>> \in req[r].seen /\ s.id # Own(req[r]))
                   => s.id \in req[r].cleared
  /\ OneDefaultRule

-----------------------------------------------------------------------------
(* Stock.                                                                  *)

\* A request that nothing was stored behind is newer than every row, and has
\* read the level that still holds.
Undisturbed(x) == x.before = Cardinality(stock) =>
  /\ \A s \in stock : s.at < x.at
  /\ x.pc = "write" /\ x.kind = "adjust" => x.quantity = Current + x.n

StockHolds ==
  /\ stock \subseteq [at : 1..Started, quantity : Nat] /\ IsFiniteSet(stock)
  /\ stock # {} => \E s \in stock : \A o \in stock : o.at <= s.at
  /\ \A s \in stock : \A r \in Pending : s.at # Ticket(req[r])
  /\ \A r \in Requests : req[r].pc \in StockPcs =>
       /\ req[r].before \in Nat /\ req[r].before <= Cardinality(stock)
       /\ req[r].pc = "adjust" => req[r].n \in Int
       /\ req[r].pc \in {"set", "sync"} => req[r].n \in Nat
       /\ req[r].pc = "write" =>
            /\ req[r].n \in Int /\ req[r].quantity \in Nat
            /\ req[r].kind \in {"adjust", "sync"}
            /\ req[r].kind = "sync" => req[r].quantity = req[r].n
       /\ Undisturbed(req[r])
  /\ level \in Int /\ lost \in BOOLEAN
  /\ StockAddsUp

-----------------------------------------------------------------------------
IInv == Ticketed /\ PeriodsHold /\ GoalsHold /\ RulesHold /\ StockHolds

USE CatalogAssumption

-----------------------------------------------------------------------------
(* How requests move.                                                      *)

\* A request of the table with points pcs starts, goes on or ends.
Moves(r, x, pcs) ==
  /\ x.pc \in pcs \cup {"idle"} /\ req' = [req EXCEPT ![r] = x]
  /\ \/ /\ req[r].pc = "idle" /\ Ticket(x) = Started + 1 /\ Started < MaxRequests
        /\ Started' = Started + 1 /\ begun' \in [Tables -> Nat]
     \/ /\ begun' = begun
        /\ x.pc # "idle" => req[r].pc # "idle" /\ Ticket(x) = Ticket(req[r])

\* One of the actions of the table, for some request.
Table(pcs) == \/ \E r \in Requests : \E x : Moves(r, x, pcs)
              \/ UNCHANGED <<req, begun>>

LEMMA CountStep ==
  ASSUME Ticketed, NEW t \in Tables, begun' = [begun EXCEPT ![t] = @ + 1]
  PROVE  Started' = Started + 1 /\ begun' \in [Tables -> Nat]
BY DEF Ticketed, Started, Count, Tables, Histories

LEMMA BeginMoves ==
  ASSUME Ticketed, NEW r \in Requests, NEW t \in Tables, NEW x, Begin(r, t, x),
         NEW pcs, x.pc \in pcs, Ticket(x) = Started + 1
  PROVE  Moves(r, x, pcs) /\ Started < MaxRequests /\ Started' = Started + 1
         /\ req[r].pc = "idle"
BY CountStep DEF Begin, Moves

LEMMA ContinueMoves ==
  ASSUME NEW r \in Requests, NEW x, Continue(r, x), NEW pcs, x.pc \in pcs,
         req[r].pc # "idle", Ticket(x) = Ticket(req[r])
  PROVE  Moves(r, x, pcs)
BY DEF Continue, Moves

LEMMA DoneMoves ==
  ASSUME NEW r \in Requests, Done(r), NEW pcs
  PROVE  Moves(r, Idle, pcs)
BY DEF Done, Continue, Moves, Idle

LEMMA TicketsStay ==
  ASSUME Ticketed, NEW pcs, pcs \subseteq Pcs, Table(pcs)
  PROVE  Ticketed'
<1>1. CASE UNCHANGED <<req, begun>>
  BY <1>1 DEF Ticketed, Pending, Ticket, Started, Count
<1>2. ASSUME NEW r \in Requests, NEW x, Moves(r, x, pcs) PROVE Ticketed'
  <2>1. \A q \in Requests : req'[q] = IF q = r THEN x ELSE req[q]
    BY <1>2 DEF Moves, Ticketed
  <2>2. req' = [q \in Requests |-> req'[q]]
    BY <1>2 DEF Moves, Ticketed
  <2>3. begun' \in [Tables -> Nat] /\ Started' \in 0..MaxRequests /\ Started <= Started'
    <3>1. CASE begun' = begun BY <3>1 DEF Ticketed, Started, Count
    <3>2. CASE begun' # begun BY <1>2, <3>2 DEF Ticketed, Moves
    <3> QED BY <3>1, <3>2
  <2>4. \A q \in Requests : req'[q].pc \in Pcs \cup {"idle"}
    BY <1>2, <2>1 DEF Ticketed, Moves
  <2>5. \A q \in Pending' : q # r => q \in Pending /\ Ticket(req'[q]) = Ticket(req[q])
    BY <2>1 DEF Pending
  <2>6. r \in Pending' =>
          \/ r \in Pending /\ Ticket(req'[r]) = Ticket(req[r])
          \/ Ticket(req'[r]) = Started + 1 /\ Started' = Started + 1
    BY <1>2, <2>1 DEF Moves, Pending
  <2>7. \A q \in Pending' : Ticket(req'[q]) \in 1..Started'
    BY <2>3, <2>5, <2>6 DEF Ticketed
  <2>8. \A q, s \in Pending' : Ticket(req'[q]) = Ticket(req'[s]) => q = s
    BY <2>5, <2>6 DEF Ticketed
  <2> QED BY <2>2, <2>3, <2>4, <2>7, <2>8 DEF Ticketed, Ticket
<1> QED BY <1>1, <1>2 DEF Table

\* Tickets are kept, or new.
Advance ==
  /\ Started \in Nat /\ Started' \in Started..MaxRequests
  /\ \A q \in Requests : req'[q].pc # "idle" =>
       \/ q \in Pending /\ Ticket(req'[q]) = Ticket(req[q])
       \/ Ticket(req'[q]) = Started + 1 /\ Started + 1 <= MaxRequests

LEMMA TicketsAdvance ==
  ASSUME Ticketed, NEW pcs, pcs \subseteq Pcs, Table(pcs)
  PROVE  Advance
<1>1. CASE UNCHANGED <<req, begun>>
  BY <1>1 DEF Ticketed, Pending, Started, Count, Advance
<1>2. ASSUME NEW r \in Requests, NEW x, Moves(r, x, pcs) PROVE Advance
  <2>1. \A q \in Requests : req'[q] = IF q = r THEN x ELSE req[q]
    BY <1>2 DEF Moves, Ticketed
  <2>2. Started \in Nat /\ Started' \in Started..MaxRequests
    <3>1. CASE begun' = begun BY <3>1 DEF Ticketed, Started, Count
    <3>2. CASE begun' # begun BY <1>2, <3>2 DEF Ticketed, Moves
    <3> QED BY <3>1, <3>2
  <2>3. CASE begun' = begun /\ (x.pc # "idle" => req[r].pc # "idle" /\ Ticket(x) = Ticket(req[r]))
    BY <2>1, <2>2, <2>3 DEF Advance, Pending
  <2>4. CASE Ticket(x) = Started + 1 /\ Started < MaxRequests
    <3>1. Started + 1 <= MaxRequests BY <2>2, <2>4
    <3> QED BY <2>1, <2>2, <2>4, <3>1 DEF Advance, Pending
  <2> QED BY <1>2, <2>3, <2>4 DEF Moves
<1> QED BY <1>1, <1>2 DEF Table

\* Requests of the other tables do not move.
Elsewhere(own) == \A q \in Requests : req'[q].pc \in own => req'[q] = req[q]

LEMMA OthersStay ==
  ASSUME Ticketed, NEW pcs, NEW own, Table(pcs), own \cap (pcs \cup {"idle"}) = {}
  PROVE  Elsewhere(own)
<1>1. CASE UNCHANGED <<req, begun>> BY <1>1 DEF Elsewhere
<1>2. ASSUME NEW r \in Requests, NEW x, Moves(r, x, pcs) PROVE Elsewhere(own)
  <2>1. \A q \in Requests : req'[q] = IF q = r THEN x ELSE req[q]
    BY <1>2 DEF Moves, Ticketed
  <2>2. x.pc \notin own BY <1>2 DEF Moves
  <2> QED BY <2>1, <2>2 DEF Elsewhere
<1> QED BY <1>1, <1>2 DEF Table

LEMMA Ranges ==
  ASSUME NEW m \in Nat, NEW n \in Nat, NEW top \in Nat, m <= n
  PROVE  1..m \subseteq 1..n /\ (n + 1)..top \subseteq (m + 1)..top
OBVIOUS

LEMMA MoreTickets ==
  ASSUME Advance
  PROVE  /\ 1..Started \subseteq 1..Started'
         /\ (Started' + 1)..MaxRequests \subseteq (Started + 1)..MaxRequests
<1>1. Started \in Nat /\ Started' \in Nat /\ Started <= Started' /\ MaxRequests \in Nat
  BY DEF Advance
<1> QED BY <1>1, Ranges

\* Rows keep their tickets to themselves.
LEMMA RowsStayApart ==
  ASSUME PeriodsHold, Advance
  PROVE  \A h \in Histories : \A p \in history[h] :
           /\ [from |-> p.from, to |-> p.to] \in Periods
           /\ p.id \in 1..Started' /\ p.seen \subseteq RowIds(h)
           /\ \A q \in Pending' : p.id # Ticket(req'[q])
<1>1. SUFFICES ASSUME NEW h \in Histories, NEW p \in history[h]
               PROVE  /\ [from |-> p.from, to |-> p.to] \in Periods
                      /\ p.id \in 1..Started' /\ p.seen \subseteq RowIds(h)
                      /\ \A q \in Pending' : p.id # Ticket(req'[q])
  OBVIOUS
<1>2. /\ [from |-> p.from, to |-> p.to] \in Periods
      /\ p.id \in 1..Started /\ p.seen \subseteq RowIds(h)
      /\ \A q \in Pending : p.id # Ticket(req[q])
  BY DEF PeriodsHold
<1>3. p.id \in 1..Started' BY <1>2 DEF Advance
<1>4. \A q \in Pending' : p.id # Ticket(req'[q])
  BY <1>2 DEF Advance, Pending
<1> QED BY <1>2, <1>3, <1>4

LEMMA PeriodsStay ==
  ASSUME PeriodsHold, Advance, Elsewhere(PeriodPcs), UNCHANGED history
  PROVE  PeriodsHold'
<1>1. \A h \in Histories : RowIds(h)' = RowIds(h) BY DEF RowIds
<1>2. \A h \in Histories : \A p \in history[h] :
        /\ [from |-> p.from, to |-> p.to] \in Periods
        /\ p.id \in 1..Started' /\ p.seen \subseteq RowIds(h)
        /\ \A q \in Pending' : p.id # Ticket(req'[q])
  BY RowsStayApart
<1>3. \A q \in Requests : req'[q].pc = "period" => req'[q] = req[q]
  BY DEF Elsewhere, PeriodPcs
<1>4. \A q \in Requests : req'[q].pc = "period" =>
        /\ req'[q].h \in Histories
        /\ [from |-> req'[q].from, to |-> req'[q].to] \in Periods
        /\ req'[q].seen \subseteq RowIds(req'[q].h)
        /\ Succeeds(req[q])'
  BY <1>3 DEF PeriodsHold, Succeeds
<1>5. NewestWins' /\ (\A h \in Histories : \A p, q \in history[h] : p.id = q.id => p = q)'
  BY DEF PeriodsHold, NewestWins
<1>6. (history = [h \in Histories |-> history[h]])' BY DEF PeriodsHold
<1> HIDE DEF RowIds, Ticket, Periods, Succeeds, NewestWins, Histories
<1>7. \A h \in Histories : \A p \in history'[h] :
        /\ [from |-> p.from, to |-> p.to] \in Periods
        /\ p.id \in 1..Started' /\ p.seen \subseteq RowIds(h)'
        /\ \A q \in Pending' : p.id # Ticket(req'[q])
  BY <1>1, <1>2
<1>8. \A q \in Requests : req'[q].pc = "period" =>
        req'[q].seen \subseteq RowIds(req[q].h)'
  BY <1>3, <1>4 DEF RowIds
<1> QED BY <1>4, <1>5, <1>6, <1>7, <1>8 DEF PeriodsHold, Ticket

LEMMA UnknownGoalStays ==
  ASSUME NEW t, UnknownGoal(t), Elsewhere(GoalPcs), UNCHANGED goals
  PROVE  UnknownGoal(t)'
BY DEF UnknownGoal, Elsewhere, GoalPcs

LEMMA GoalsStay ==
  ASSUME GoalsHold, Advance, Elsewhere(GoalPcs), UNCHANGED goals
  PROVE  GoalsHold'
<1>1. \A t \in (Started' + 1)..MaxRequests : UnknownGoal(t)
  BY MoreTickets DEF GoalsHold
<1>2. \A q \in Pending' : UnknownGoal(Ticket(req'[q]))
  BY DEF GoalsHold, Advance, Pending
<1>3. \A q \in Requests : req'[q].pc \in GoalPcs => req'[q] = req[q]
  BY DEF Elsewhere
<1>4. \A q \in Requests :
        /\ req'[q].pc = "create" => /\ req'[q].from \in Times /\ req'[q].to \in Times
                                    /\ req'[q].from < req'[q].to
                                    /\ Clear(req[q].seen, 0, req[q])'
        /\ req'[q].pc \in {"load", "update"} => Loaded(req[q])'
        /\ req'[q].pc = "update" =>
             Clear(req[q].seen, req[q].goal.id, Checked(req[q]))'
  BY <1>3 DEF GoalsHold, Clear, Loaded, Checked, GoalPcs
<1>5. GoalsDisjoint' BY DEF GoalsHold, GoalsDisjoint
<1>6. \A t \in (Started' + 1)..MaxRequests : UnknownGoal(t)'
  BY <1>1, UnknownGoalStays
<1>7. \A q \in Pending' : UnknownGoal(Ticket(req[q]))'
  BY <1>2, UnknownGoalStays DEF Ticket
<1>8. \A g \in goals : g.id \in 1..Started' BY MoreTickets DEF GoalsHold
<1> QED BY <1>4, <1>5, <1>6, <1>7, <1>8 DEF GoalsHold

LEMMA UnknownRuleStays ==
  ASSUME NEW t, UnknownRule(t), Elsewhere(RulePcs), UNCHANGED rules
  PROVE  UnknownRule(t)'
BY DEF UnknownRule, Elsewhere, RulePcs

LEMMA RulesStay ==
  ASSUME RulesHold, Advance, Elsewhere(RulePcs), UNCHANGED rules
  PROVE  RulesHold'
<1>1. \A t \in (Started' + 1)..MaxRequests : UnknownRule(t)
  BY MoreTickets DEF RulesHold
<1>2. \A q \in Pending' : UnknownRule(Ticket(req'[q]))
  BY DEF RulesHold, Advance, Pending
<1>3. \A q \in Requests : req'[q].pc \in RulePcs => req'[q] = req[q]
  BY DEF Elsewhere
<1>4. \A q \in Requests :
        /\ req'[q].pc \in RulePcs => req'[q].rule \in 0..Started'
        /\ req'[q].pc = "clear" =>
             \A v \in req'[q].seen : v[1] \in req'[q].picked \cup {req'[q].rule}
        /\ req'[q].pc = "rule" =>
             /\ req'[q].to \in BOOLEAN
             /\ \A s \in rules :
                  (s.default /\ <<s.id, s.version>> \in req'[q].seen /\ s.id # Own(req'[q]))
                    => s.id \in req'[q].cleared
  <2>1. SUFFICES ASSUME NEW q \in Requests, req'[q] = req[q]
        PROVE  /\ req[q].pc \in RulePcs => req[q].rule \in 0..Started'
               /\ req[q].pc = "clear" =>
                    \A v \in req[q].seen : v[1] \in req[q].picked \cup {req[q].rule}
               /\ req[q].pc = "rule" =>
                    /\ req[q].to \in BOOLEAN
                    /\ \A s \in rules :
                         (s.default /\ <<s.id, s.version>> \in req[q].seen /\ s.id # Own(req[q]))
                           => s.id \in req[q].cleared
    BY <1>3 DEF RulePcs
  <2>2. req[q].pc \in RulePcs => req[q].rule \in 0..Started'
    BY DEF RulesHold, Advance
  <2> QED BY <2>2 DEF RulesHold
<1>5. OneDefaultRule' BY DEF RulesHold, OneDefaultRule
<1>6. \A t \in (Started' + 1)..MaxRequests : UnknownRule(t)'
  BY <1>1, UnknownRuleStays
<1>7. \A q \in Pending' : UnknownRule(Ticket(req[q]))'
  BY <1>2, UnknownRuleStays DEF Ticket
<1>8. \A s \in rules : s.id \in 1..Started' BY DEF RulesHold, Advance
<1> QED BY <1>4, <1>5, <1>6, <1>7, <1>8 DEF RulesHold, Own

LEMMA StockStays ==
  ASSUME StockHolds, Advance, Elsewhere(StockPcs), UNCHANGED <<stock, level, lost>>
  PROVE  StockHolds'
<1>1. stock \subseteq [at : 1..Started', quantity : Nat]
  BY DEF StockHolds, Advance
<1>2. \A s \in stock : \A q \in Pending' : s.at # Ticket(req'[q])
  <2>1. \A s \in stock : s.at \in 1..Started BY DEF StockHolds
  <2> QED BY <2>1 DEF StockHolds, Advance, Pending
<1>3. \A q \in Requests : req'[q].pc \in StockPcs => req'[q] = req[q]
  BY DEF Elsewhere
<1>4. Current' = Current BY DEF Current
<1>5. ASSUME NEW q \in Requests, req'[q].pc \in StockPcs
      PROVE  /\ req'[q].before \in Nat /\ req'[q].before <= Cardinality(stock)
             /\ req'[q].pc = "adjust" => req'[q].n \in Int
             /\ req'[q].pc \in {"set", "sync"} => req'[q].n \in Nat
             /\ req'[q].pc = "write" =>
                  /\ req'[q].n \in Int /\ req'[q].quantity \in Nat
                  /\ req'[q].kind \in {"adjust", "sync"}
                  /\ req'[q].kind = "sync" => req'[q].quantity = req'[q].n
             /\ Undisturbed(req[q])'
  <2>1. req'[q] = req[q] BY <1>3, <1>5
  <2>2. Undisturbed(req[q]) BY <1>5, <2>1 DEF StockHolds
  <2>3. Undisturbed(req[q])' BY <1>4, <2>1, <2>2 DEF Undisturbed
  <2> QED BY <1>5, <2>1, <2>3 DEF StockHolds
<1>6. StockAddsUp' BY <1>4 DEF StockHolds, StockAddsUp
<1> QED BY <1>1, <1>2, <1>5, <1>6 DEF StockHolds, Ticket

-----------------------------------------------------------------------------
(* Prices and costs.                                                       *)

\* A request that has read its rows and found a period that gives way to none.
LEMMA PeriodRead ==
  ASSUME Ticketed, PeriodsHold, UNCHANGED history,
         NEW r \in Requests, NEW h \in Histories, NEW from, NEW to, NEW seen,
         [from |-> from, to |-> to] \in Periods, seen \subseteq RowIds(h),
         \A p \in history[h] :
           (/\ p.id \in seen /\ p.from # from
            /\ \E t \in Times : Covers(p, t) /\ Covers([from |-> from, to |-> to], t))
              => p.from < from,
         Begin(r, h, [pc |-> "period", id |-> Started + 1, h |-> h, from |-> from,
                      to |-> to, seen |-> seen])
  PROVE  Table(PeriodPcs) /\ PeriodsHold'
<1> DEFINE x == [pc |-> "period", id |-> Started + 1, h |-> h, from |-> from,
                 to |-> to, seen |-> seen]
<1>1. x.pc \in PeriodPcs /\ Ticket(x) = Started + 1 /\ h \in Tables /\ Begin(r, h, x)
  BY DEF PeriodPcs, Ticket, StockPcs, Tables
<1>2. /\ x.pc = "period" /\ x.h = h /\ x.from = from /\ x.to = to /\ x.seen = seen
      /\ Succeeds(x)
  BY DEF Succeeds, Covers
<1> HIDE DEF x
<1>3. Moves(r, x, PeriodPcs) BY <1>1, BeginMoves
<1>4. Advance BY <1>3, TicketsAdvance DEF Table, Pcs
<1>5. \A q \in Requests : req'[q] = IF q = r THEN x ELSE req[q]
  BY <1>3 DEF Moves, Ticketed
<1>6. \A k \in Histories : \A p \in history[k] :
        /\ [from |-> p.from, to |-> p.to] \in Periods
        /\ p.id \in 1..Started' /\ p.seen \subseteq RowIds(k)
        /\ \A q \in Pending' : p.id # Ticket(req'[q])
  BY <1>4, RowsStayApart
<1>8. \A q \in Requests : req'[q].pc = "period" =>
        /\ req'[q].h \in Histories
        /\ [from |-> req'[q].from, to |-> req'[q].to] \in Periods
        /\ req'[q].seen \subseteq RowIds(req'[q].h)
        /\ Succeeds(req[q])'
  <2>1. ASSUME NEW q \in Requests, q # r, req'[q].pc = "period"
        PROVE  /\ req[q].h \in Histories
               /\ [from |-> req[q].from, to |-> req[q].to] \in Periods
               /\ req[q].seen \subseteq RowIds(req[q].h)
               /\ Succeeds(req[q])
    BY <1>5, <2>1 DEF PeriodsHold
  <2>2. ASSUME NEW q \in Requests, q # r, req'[q].pc = "period"
        PROVE  Succeeds(req[q])'
    BY <1>5, <2>1, <2>2 DEF Succeeds
  <2>3. Succeeds(req[r])' BY <1>2, <1>5 DEF Succeeds
  <2> QED BY <1>2, <1>5, <2>1, <2>2, <2>3
<1>9. NewestWins' /\ (\A k \in Histories : \A p, q \in history[k] : p.id = q.id => p = q)'
  BY DEF PeriodsHold, NewestWins
<1>10. (history = [k \in Histories |-> history[k]])' BY DEF PeriodsHold
<1>11. Table(PeriodPcs) BY <1>3 DEF Table
<1>12. \A k \in Histories : RowIds(k)' = RowIds(k) BY DEF RowIds
<1>13. \A q \in Requests : req'[q].pc = "period" =>
         req'[q].seen \subseteq RowIds(req[q].h)'
  BY <1>8 DEF RowIds
<1> HIDE DEF RowIds
<1>14. \A k \in Histories : \A p \in history'[k] :
         /\ [from |-> p.from, to |-> p.to] \in Periods
         /\ p.id \in 1..Started' /\ p.seen \subseteq RowIds(k)'
         /\ \A q \in Pending' : p.id # Ticket(req'[q])
  BY <1>6, <1>12
<1> QED BY <1>8, <1>9, <1>10, <1>11, <1>13, <1>14 DEF PeriodsHold, Ticket

LEMMA CheckPeriodStep ==
  ASSUME IInv, NEW r \in Requests, NEW h \in Histories, CheckPeriod(r, h)
  PROVE  Table(PeriodPcs) /\ PeriodsHold' /\ NoRow
<1>1. PICK p \in Periods :
        /\ ~Refused(history[h], p)
        /\ Begin(r, h, [pc |-> "period", id |-> Started + 1, h |-> h, from |-> p.from,
                        to |-> p.to, seen |-> {q.id : q \in history[h]}])
        /\ NoRow
  BY DEF CheckPeriod
<1>2. [from |-> p.from, to |-> p.to] \in Periods
      /\ p.from \in Times /\ p.to \in Times \cup {Open}
  BY DEF Periods
<1>3. ASSUME NEW q \in history[h], NEW t \in Times, q.from # p.from,
             Covers(q, t), Covers([from |-> p.from, to |-> p.to], t)
      PROVE  q.from < p.from
  <2>1. q.from \in Nat /\ q.to \in Times \cup {Open} /\ t \in Nat /\ p.from \in Nat
    BY <1>2 DEF IInv, PeriodsHold, Periods
  <2>2. ~PeriodsOverlap(q, p) BY <1>1 DEF Refused
  <2> QED BY <1>2, <1>3, <2>1, <2>2 DEF PeriodsOverlap, Covers
<1>4. UNCHANGED history BY <1>1 DEF NoRow
<1> QED BY <1>1, <1>2, <1>3, <1>4, PeriodRead DEF RowIds, IInv

LEMMA SyncPriceStep ==
  ASSUME IInv, NEW r \in Requests, SyncPrice(r)
  PROVE  Table(PeriodPcs) /\ PeriodsHold' /\ NoRow
<1> DEFINE rows == history["prices"]
<1>1. PICK today \in Times : \E seen \in
        IF Effective(rows, today) = {} THEN {{}} ELSE {{p.id} : p \in Effective(rows, today)} :
          /\ Begin(r, "prices", [pc |-> "period", id |-> Started + 1, h |-> "prices",
                                 from |-> today, to |-> Open, seen |-> seen])
          /\ NoRow
  BY DEF SyncPrice
<1>2. PICK seen :
        /\ seen = {} \/ \E p \in Effective(rows, today) : seen = {p.id}
        /\ Begin(r, "prices", [pc |-> "period", id |-> Started + 1, h |-> "prices",
                               from |-> today, to |-> Open, seen |-> seen])
        /\ NoRow
  BY <1>1
<1>3. "prices" \in Histories /\ [from |-> today, to |-> Open] \in Periods
  BY DEF Histories, Periods
<1>4. \A p \in Effective(rows, today) : p \in rows /\ p.from <= today
  BY DEF Effective, Covers
<1>5. \A p \in rows : p.id \in seen => p.from <= today
  BY <1>2, <1>3, <1>4 DEF IInv, PeriodsHold
<1>6. \A p \in rows : p.from \in Nat /\ today \in Nat
  BY <1>3 DEF IInv, PeriodsHold, Periods
<1>7. seen \subseteq RowIds("prices") BY <1>2, <1>4 DEF RowIds
<1>8. \A p \in rows : (p.id \in seen /\ p.from # today) => p.from < today
  BY <1>5, <1>6
<1>9. UNCHANGED history BY <1>2 DEF NoRow
<1> QED BY <1>2, <1>3, <1>7, <1>8, <1>9, PeriodRead DEF IInv

LEMMA StorePeriodStep ==
  ASSUME IInv, NEW r \in Requests, StorePeriod(r)
  PROVE  Table(PeriodPcs) /\ PeriodsHold'
<1>0. PICK h \in Histories : h = req[r].h
  BY DEF StorePeriod, IInv, PeriodsHold
<1> DEFINE new == [id |-> req[r].id, from |-> req[r].from, to |-> req[r].to,
                  seen |-> req[r].seen]
<1>1. /\ req[r].pc = "period" /\ Done(r) /\ h \in Histories
      /\ history' = [history EXCEPT ![h] = @ \cup {new}]
      /\ [from |-> new.from, to |-> new.to] \in Periods
      /\ new.seen \subseteq RowIds(h)
      /\ new.id = Ticket(req[r]) /\ r \in Pending
  BY <1>0 DEF StorePeriod, IInv, PeriodsHold, Ticket, StockPcs, Pending
<1>2. \A p \in history[h] :
        (/\ p.id \in new.seen /\ p.from # new.from
         /\ \E t \in Times : Covers(p, t) /\ Covers(new, t)) => p.from < new.from
  BY <1>1, <1>0 DEF IInv, PeriodsHold, Succeeds, Covers
<1> HIDE DEF new
<1>3. Moves(r, Idle, PeriodPcs) BY <1>1, DoneMoves
<1>4. Advance BY <1>3, TicketsAdvance DEF Table, Pcs, IInv
<1>5. \A q \in Requests : req'[q] = IF q = r THEN Idle ELSE req[q]
  BY <1>3 DEF Moves, IInv, Ticketed
<1>6. Started' = Started BY <1>1 DEF Done, Continue, Started
<1>7. \A k \in Histories : history'[k] = IF k = h THEN history[h] \cup {new} ELSE history[k]
  BY <1>1 DEF IInv, PeriodsHold
<1>8. \A k \in Histories : \A p \in history[k] : p.id # new.id
  BY <1>1 DEF IInv, PeriodsHold
<1>9. new.id \in 1..Started BY <1>1 DEF IInv, Ticketed
<1>10. \A q \in Pending' : q \in Pending /\ q # r /\ req'[q] = req[q]
  BY <1>5 DEF Pending, Idle
<1>11. \A q \in Pending' : new.id # Ticket(req'[q])
  BY <1>1, <1>10 DEF IInv, Ticketed
<1>12. \A k \in Histories : RowIds(k) \subseteq RowIds(k)'
  BY <1>7 DEF RowIds
<1>13. \A k \in Histories : \A p \in history'[k] :
         /\ [from |-> p.from, to |-> p.to] \in Periods
         /\ p.id \in 1..Started' /\ p.seen \subseteq RowIds(k)'
         /\ \A q \in Pending' : p.id # Ticket(req'[q])
  <2>1. ASSUME NEW k \in Histories, NEW p \in history[k]
        PROVE  /\ [from |-> p.from, to |-> p.to] \in Periods
               /\ p.id \in 1..Started /\ p.seen \subseteq RowIds(k)
               /\ \A q \in Pending : p.id # Ticket(req[q])
    BY DEF IInv, PeriodsHold
  <2>2. \A q \in Pending' : Ticket(req'[q]) = Ticket(req[q]) /\ q \in Pending
    BY <1>10
  <2>3. ASSUME NEW k \in Histories, NEW p \in history[k]
        PROVE  /\ [from |-> p.from, to |-> p.to] \in Periods
               /\ p.id \in 1..Started' /\ p.seen \subseteq RowIds(k)'
               /\ \A q \in Pending' : p.id # Ticket(req'[q])
    <3>1. \A q \in Pending' : p.id # Ticket(req'[q]) BY <2>1, <2>2
    <3>2. p.seen \subseteq RowIds(k)' BY <2>1, <1>12
    <3>3. p.id \in 1..Started' BY <2>1, <1>6
    <3> QED BY <2>1, <3>1, <3>2, <3>3
  <2>4. /\ [from |-> new.from, to |-> new.to] \in Periods
        /\ new.id \in 1..Started' /\ new.seen \subseteq RowIds(h)'
        /\ \A q \in Pending' : new.id # Ticket(req'[q])
    <3>1. new.seen \subseteq RowIds(h)' BY <1>1, <1>12
    <3>2. new.id \in 1..Started' BY <1>6, <1>9
    <3> QED BY <1>1, <1>11, <3>1, <3>2
  <2>5. ASSUME NEW k \in Histories, NEW p \in history'[k]
        PROVE  p \in history[k] \/ (k = h /\ p = new)
    BY <1>7
  <2> HIDE DEF Ticket, RowIds
  <2> QED BY <2>3, <2>4, <2>5
<1>14. \A k \in Histories : \A p, q \in history'[k] : p.id = q.id => p = q
  BY <1>7, <1>8 DEF IInv, PeriodsHold
<1>15. ASSUME NEW q \in Requests, req'[q].pc = "period"
       PROVE  /\ req'[q].h \in Histories
              /\ [from |-> req'[q].from, to |-> req'[q].to] \in Periods
              /\ req'[q].seen \subseteq RowIds(req[q].h)'
              /\ Succeeds(req[q])'
  <2>1. q # r /\ req'[q] = req[q] BY <1>5, <1>15 DEF Idle
  <2>2. /\ req[q].h \in Histories
        /\ [from |-> req[q].from, to |-> req[q].to] \in Periods
        /\ req[q].seen \subseteq RowIds(req[q].h)
        /\ Succeeds(req[q])
    BY <2>1, <1>15 DEF IInv, PeriodsHold
  <2>3. new.id \notin req[q].seen BY <1>8, <2>2 DEF RowIds
  <2>4. Succeeds(req[q])' BY <1>7, <2>1, <2>2, <2>3 DEF Succeeds
  <2>5. RowIds(req[q].h) \subseteq RowIds(req[q].h)' BY <1>7, <2>1, <2>2 DEF RowIds
  <2> QED BY <2>1, <2>2, <2>4, <2>5
<1>16. NewestWins'
  <2>1. SUFFICES ASSUME NEW k \in Histories, NEW p \in history'[k], NEW q \in history'[k],
                        p.id \in q.seen, p.from # q.from,
                        NEW t \in Times, Covers(p, t), Covers(q, t)
                 PROVE  p.from < q.from
    BY DEF NewestWins
  <2>2. CASE p \in history[k] /\ q \in history[k]
    BY <2>1, <2>2 DEF IInv, PeriodsHold, NewestWins
  <2>3. CASE k = h /\ p = new
    <3>1. q.seen \subseteq RowIds(h)
      BY <1>1, <1>7, <2>3 DEF IInv, PeriodsHold
    <3> QED BY <3>1, <2>1, <2>3, <1>8, <1>1 DEF RowIds
  <2>4. CASE k = h /\ q = new /\ p \in history[h]
    BY <1>2, <2>1, <2>4
  <2> QED BY <1>7, <2>2, <2>3, <2>4
<1>17. (history = [k \in Histories |-> history[k]])'
  BY <1>1 DEF IInv, PeriodsHold
<1>18. Table(PeriodPcs) BY <1>3 DEF Table
<1> HIDE DEF RowIds
<1> QED BY <1>13, <1>14, <1>15, <1>16, <1>17, <1>18 DEF PeriodsHold, Ticket

-----------------------------------------------------------------------------
(* Goals.                                                                  *)

\* A request that reads goals learns of no ticket but those of rows.
LEMMA GoalRead ==
  ASSUME Ticketed, GoalsHold, UNCHANGED goals, NEW r \in Requests, NEW x,
         Moves(r, x, GoalPcs),
         x.pc \in {"create", "update"} => x.seen = Versions(goals),
         x.pc \in {"load", "update"} =>
           /\ Loaded(x)
           /\ x.goal \in goals \/ (req[r].pc = "load" /\ x.goal = req[r].goal),
         x.pc = "create" => /\ x.from \in Times /\ x.to \in Times /\ x.from < x.to
                            /\ Clear(x.seen, 0, x),
         x.pc = "update" => Clear(x.seen, x.goal.id, Checked(x))
  PROVE  Table(GoalPcs) /\ GoalsHold'
<1>1. Table(GoalPcs) BY DEF Table
<1>2. Advance BY <1>1, TicketsAdvance DEF Pcs
<1>3. \A q \in Requests : req'[q] = IF q = r THEN x ELSE req[q]
  BY DEF Moves, Ticketed
<1>4. ASSUME NEW t, UnknownGoal(t) PROVE UnknownGoal(t)'
  <2>1. x.pc \in {"create", "update"} => \A v \in x.seen : v[2] # t
    BY <1>4 DEF UnknownGoal, Versions
  <2>2. x.pc \in {"load", "update"} => x.goal.version # t
    BY <1>4 DEF UnknownGoal
  <2> QED BY <1>3, <1>4, <2>1, <2>2 DEF UnknownGoal
<1>5. \A t \in (Started' + 1)..MaxRequests : UnknownGoal(t)
  BY <1>2, MoreTickets DEF GoalsHold
<1>6. \A q \in Pending' : UnknownGoal(Ticket(req'[q]))
  BY <1>2 DEF GoalsHold, Advance, Pending
<1>7. \A t \in (Started' + 1)..MaxRequests : UnknownGoal(t)' BY <1>4, <1>5
<1>8. \A q \in Pending' : UnknownGoal(Ticket(req[q]))' BY <1>4, <1>6 DEF Ticket
<1>9. ASSUME NEW q \in Requests
      PROVE  /\ req'[q].pc = "create" => /\ req'[q].from \in Times /\ req'[q].to \in Times
                                         /\ req'[q].from < req'[q].to
                                         /\ Clear(req[q].seen, 0, req[q])'
             /\ req'[q].pc \in {"load", "update"} => Loaded(req[q])'
             /\ req'[q].pc = "update" =>
                  Clear(req[q].seen, req[q].goal.id, Checked(req[q]))'
  <2>1. CASE q = r BY <1>3, <2>1 DEF Clear, Loaded, Checked
  <2>2. CASE q # r BY <1>3, <2>2 DEF GoalsHold, Clear, Loaded, Checked
  <2> QED BY <2>1, <2>2
<1>10. GoalsDisjoint' BY DEF GoalsHold, GoalsDisjoint
<1>11. \A g \in goals : g.id \in 1..Started'
  BY <1>2, MoreTickets DEF GoalsHold
<1> QED BY <1>1, <1>7, <1>8, <1>9, <1>10, <1>11 DEF GoalsHold

\* A period that a check lets through is apart from the rows of the check.
LEMMA AllowedIsClear ==
  ASSUME GoalsHold, NEW id, NEW from \in Times, NEW to \in Times,
         ~GoalRefused(id, [from |-> from, to |-> to])
  PROVE  \A g \in goals : g.id # id => ~(g.from < to /\ from < g.to)
BY DEF GoalRefused, PeriodsOverlap, GoalsHold

LEMMA CreateGoalStep ==
  ASSUME IInv, NEW r \in Requests, CreateGoal(r)
  PROVE  Table(GoalPcs) /\ GoalsHold' /\ NoRow
<1>1. PICK p \in Periods :
        /\ p.to # Open /\ ~GoalRefused(0, p) /\ NoRow
        /\ Begin(r, "goals", [pc |-> "create", id |-> Started + 1, from |-> p.from,
                              to |-> p.to, seen |-> Versions(goals)])
  BY DEF CreateGoal
<1>2. p.from \in Times /\ p.to \in Times /\ p.from < p.to
      /\ p = [from |-> p.from, to |-> p.to]
  BY <1>1 DEF Periods
<1> DEFINE x == [pc |-> "create", id |-> Started + 1, from |-> p.from,
                 to |-> p.to, seen |-> Versions(goals)]
<1>3. Moves(r, x, GoalPcs)
  <2>1. x.pc \in GoalPcs /\ Ticket(x) = Started + 1 /\ "goals" \in Tables
    BY DEF GoalPcs, Ticket, StockPcs, Tables
  <2> QED BY <1>1, <2>1, BeginMoves DEF IInv
<1>4. Clear(x.seen, 0, x) BY <1>1, <1>2, AllowedIsClear DEF Clear, IInv
<1>5. /\ x.pc = "create" /\ x.seen = Versions(goals)
      /\ x.from \in Times /\ x.to \in Times /\ x.from < x.to
  BY <1>2
<1> HIDE DEF x
<1>6. goals' = goals BY <1>1 DEF NoRow
<1> QED BY <1>1, <1>3, <1>4, <1>5, <1>6, GoalRead DEF IInv

LEMMA LoadGoalStep ==
  ASSUME IInv, NEW r \in Requests, LoadGoal(r)
  PROVE  Table(GoalPcs) /\ GoalsHold' /\ NoRow
<1>1. PICK g \in goals, from \in Times \cup {Keep}, to \in Times \cup {Keep} :
        /\ NoRow
        /\ Begin(r, "goals", [pc |-> "load", id |-> Started + 1, goal |-> g,
                              from |-> from, to |-> to])
  BY DEF LoadGoal
<1> DEFINE x == [pc |-> "load", id |-> Started + 1, goal |-> g, from |-> from, to |-> to]
<1>2. Moves(r, x, GoalPcs)
  <2>1. x.pc \in GoalPcs /\ Ticket(x) = Started + 1 /\ "goals" \in Tables
    BY DEF GoalPcs, Ticket, StockPcs, Tables
  <2> QED BY <1>1, <2>1, BeginMoves DEF IInv
<1>3. Loaded(x) BY DEF Loaded, IInv, GoalsHold
<1>4. x.pc = "load" /\ x.goal \in goals OBVIOUS
<1> HIDE DEF x
<1>5. goals' = goals BY <1>1 DEF NoRow
<1> QED BY <1>1, <1>2, <1>3, <1>4, <1>5, GoalRead DEF IInv

LEMMA CheckGoalStep ==
  ASSUME IInv, NEW r \in Requests, CheckGoal(r)
  PROVE  Table(GoalPcs) /\ GoalsHold' /\ NoRow
<1> DEFINE q == req[r]
           x == [pc |-> "update", id |-> q.id, goal |-> q.goal, from |-> q.from,
                 to |-> q.to, seen |-> Versions(goals)]
<1>1. NoRow /\ goals' = goals /\ q.pc = "load" BY DEF CheckGoal, NoRow
<1>2. CASE Done(r)
  <2>1. Moves(r, Idle, GoalPcs) BY <1>2, DoneMoves
  <2> QED BY <1>1, <2>1, GoalRead DEF IInv, Idle
<1>3. CASE ~GoalRefused(q.goal.id, Checked(q)) /\ Continue(r, x)
  <2>1. Moves(r, x, GoalPcs)
    <3>1. x.pc \in GoalPcs /\ req[r].pc # "idle" /\ Ticket(x) = Ticket(req[r])
      BY <1>1 DEF GoalPcs, Ticket, StockPcs
    <3> QED BY <1>3, <3>1, ContinueMoves
  <2>2. Loaded(q) BY <1>1 DEF IInv, GoalsHold
  <2>3. Loaded(x) BY <2>2 DEF Loaded
  <2>4. Checked(x).from \in Times /\ Checked(x).to \in Times /\ Checked(x) = Checked(q)
        /\ Checked(x) = [from |-> Checked(x).from, to |-> Checked(x).to]
    BY <2>2 DEF Loaded, Checked
  <2>5. Clear(x.seen, x.goal.id, Checked(x))
    <3>1. ~GoalRefused(q.goal.id, [from |-> Checked(x).from, to |-> Checked(x).to])
      BY <1>3, <2>4
    <3>2. \A g \in goals : g.id # q.goal.id =>
            ~(g.from < Checked(x).to /\ Checked(x).from < g.to)
      BY <3>1, <2>4, AllowedIsClear DEF IInv
    <3> QED BY <3>2 DEF Clear
  <2>6. x.pc = "update" /\ x.seen = Versions(goals) /\ x.goal = req[r].goal OBVIOUS
  <2> HIDE DEF x
  <2> QED BY <1>1, <2>1, <2>3, <2>5, <2>6, GoalRead DEF IInv
<1> QED BY <1>2, <1>3 DEF CheckGoal, Checked

\* The commit of a request: its ticket is the version of the row it writes, so
\* that nobody has read that row yet.
LEMMA GoalWritten ==
  ASSUME Ticketed, GoalsHold, NEW r \in Requests, req[r].pc \in {"create", "update"},
         Done(r), NEW old, NEW new, goals' = (goals \ old) \cup {new},
         DOMAIN new = GoalFields,
         new.version = req[r].id, new.seen = req[r].seen, new.torn \in BOOLEAN,
         new.from \in Times, new.to \in Times, new.from < new.to,
         new.id = req[r].id \/ \E g \in goals : g.id = new.id,
         \A g \in goals \ old : g.id # new.id,
         ~new.torn => Clear(new.seen, new.id, new)
  PROVE  Table(GoalPcs) /\ GoalsHold'
<1> DEFINE mine == req[r].id
<1>1. Moves(r, Idle, GoalPcs) BY DoneMoves
<1>2. Table(GoalPcs) BY <1>1 DEF Table
<1>3. /\ \A q \in Requests : req'[q] = IF q = r THEN Idle ELSE req[q]
      /\ begun' = begun /\ Started' = Started
  BY DEF Done, Continue, Ticketed, Started, Count
<1>4. r \in Pending /\ mine = Ticket(req[r]) BY DEF Pending, Ticket, StockPcs
<1>5. mine \in 1..Started /\ UnknownGoal(mine)
  BY <1>4 DEF Ticketed, GoalsHold
<1>6. \A q \in Pending' : q \in Pending /\ q # r /\ req'[q] = req[q]
                          /\ Ticket(req[q]) # mine
  <2>1. \A q \in Pending' : q \in Pending /\ q # r /\ req'[q] = req[q]
    BY <1>3 DEF Pending, Idle
  <2> QED BY <1>4, <2>1 DEF Ticketed
<1> HIDE DEF mine
<1>6a. PICK m : m = mine OBVIOUS
<1>6b. new.version = m /\ (new.id = m \/ \E g \in goals : g.id = new.id)
  BY <1>6a DEF mine
<1>7. ASSUME NEW t, UnknownGoal(t), t # m PROVE UnknownGoal(t)'
  <2>1. \A v \in new.seen : v[2] # t BY <1>7 DEF UnknownGoal
  <2>2. new.id # t BY <1>6b, <1>7 DEF UnknownGoal
  <2>3. \A g \in goals' : g.id # t /\ g.version # t /\ \A v \in g.seen : v[2] # t
    BY <1>6b, <1>7, <2>1, <2>2 DEF UnknownGoal
  <2> QED BY <1>3, <1>7, <2>3 DEF UnknownGoal, Idle
<1>8. \A t \in (Started' + 1)..MaxRequests : UnknownGoal(t)'
  <2>1. \A t \in (Started' + 1)..MaxRequests : UnknownGoal(t) /\ t # m
    BY <1>3, <1>5, <1>6a DEF GoalsHold, Ticketed
  <2> QED BY <2>1, <1>7
<1>9. \A q \in Pending' : UnknownGoal(Ticket(req[q]))'
  <2>1. \A q \in Pending' : UnknownGoal(Ticket(req[q])) /\ Ticket(req[q]) # m
                            /\ Ticket(req[q])' = Ticket(req[q])
    BY <1>6, <1>6a DEF GoalsHold, Ticket
  <2> QED BY <2>1, <1>7
<1>10. \A g \in goals' :
         /\ g.id \in 1..Started'
         /\ g.from \in Times /\ g.to \in Times /\ g.from < g.to
         /\ g.torn \in BOOLEAN
         /\ DOMAIN g = GoalFields
  <2>1. new.id \in 1..Started' BY <1>3, <1>5, <1>6a, <1>6b DEF GoalsHold
  <2>2. ASSUME NEW g \in goals
        PROVE  /\ g.id \in 1..Started'
               /\ g.from \in Times /\ g.to \in Times /\ g.from < g.to
               /\ g.torn \in BOOLEAN
               /\ DOMAIN g = GoalFields
    BY <1>3 DEF GoalsHold
  <2>3. ASSUME NEW g \in goals' PROVE g \in goals \/ g = new OBVIOUS
  <2> QED BY <2>1, <2>2, <2>3
<1>11. \A g, h \in goals' : g.id = h.id => g = h BY DEF GoalsHold
<1>12. ASSUME NEW q \in Requests, q # r
       PROVE  /\ req[q].pc \in {"create", "update"} => <<new.id, m>> \notin req[q].seen
              /\ req[q].pc \in {"load", "update"} => req[q].goal.version # m
  BY <1>5, <1>6a DEF UnknownGoal
<1>13. ASSUME NEW q \in Requests
       PROVE  /\ req'[q].pc = "create" => /\ req'[q].from \in Times /\ req'[q].to \in Times
                                          /\ req'[q].from < req'[q].to
                                          /\ Clear(req[q].seen, 0, req[q])'
              /\ req'[q].pc \in {"load", "update"} => Loaded(req[q])'
              /\ req'[q].pc = "update" =>
                   Clear(req[q].seen, req[q].goal.id, Checked(req[q]))'
  <2>1. CASE q = r BY <1>3, <2>1 DEF Idle
  <2>2. CASE q # r
    <3>1. req'[q] = req[q] BY <1>3, <2>2
    <3>2. req[q].pc = "create" => Clear(req[q].seen, 0, req[q])'
      BY <1>6b, <1>12, <2>2, <3>1 DEF GoalsHold, Clear
    <3>3. req[q].pc \in {"load", "update"} => Loaded(req[q])'
      BY <1>6b, <1>12, <2>2, <3>1 DEF GoalsHold, Loaded
    <3>4. req[q].pc = "update" => Clear(req[q].seen, req[q].goal.id, Checked(req[q]))'
      BY <1>6b, <1>12, <2>2, <3>1 DEF GoalsHold, Clear, Checked
    <3> QED BY <3>1, <3>2, <3>3, <3>4 DEF GoalsHold
  <2> QED BY <2>1, <2>2
<1>14. GoalsDisjoint'
  <2>1. \A h \in goals : h.version # m /\ <<new.id, m>> \notin h.seen
    BY <1>5, <1>6a DEF UnknownGoal
  <2>2. SUFFICES ASSUME NEW g \in goals', NEW h \in goals',
                        g.id # h.id, g.from < h.to, h.from < g.to, ~g.torn, ~h.torn
        PROVE  <<g.id, g.version>> \notin h.seen /\ <<h.id, h.version>> \notin g.seen
    BY DEF GoalsDisjoint
  <2>3. CASE g \in goals /\ h \in goals BY <2>2, <2>3 DEF GoalsHold, GoalsDisjoint
  <2>4. CASE g = new /\ h \in goals BY <1>6b, <2>1, <2>2, <2>4 DEF Clear
  <2>5. CASE h = new /\ g \in goals BY <1>6b, <2>1, <2>2, <2>5 DEF Clear
  <2> QED BY <2>2, <2>3, <2>4, <2>5
<1> QED BY <1>2, <1>8, <1>9, <1>10, <1>11, <1>13, <1>14 DEF GoalsHold

LEMMA StoreGoalStep ==
  ASSUME IInv, NEW r \in Requests, StoreGoal(r)
  PROVE  Table(GoalPcs) /\ GoalsHold'
<1> DEFINE q == req[r]
<1>1. CASE q.pc = "create"
  <2> DEFINE new == [id |-> q.id, from |-> q.from, to |-> q.to, version |-> q.id,
                     seen |-> q.seen, torn |-> FALSE]
  <2>1. goals' = (goals \ {}) \cup {new} /\ Done(r) BY <1>1 DEF StoreGoal
  <2>2. /\ q.from \in Times /\ q.to \in Times /\ q.from < q.to
        /\ Clear(q.seen, 0, q)
    BY <1>1 DEF IInv, GoalsHold
  <2>3. UnknownGoal(q.id) BY <1>1 DEF IInv, GoalsHold, Pending, Ticket, StockPcs
  <2>4. \A g \in goals : g.id # q.id /\ g.id # 0 BY <2>3 DEF UnknownGoal, IInv, GoalsHold
  <2>5. Clear(new.seen, new.id, new) BY <2>2, <2>4 DEF Clear
  <2>6. /\ DOMAIN new = GoalFields
        /\ new.version = req[r].id /\ new.seen = req[r].seen /\ new.torn \in BOOLEAN
        /\ new.from \in Times /\ new.to \in Times /\ new.from < new.to
        /\ new.id = req[r].id
    BY <2>2 DEF GoalFields
  <2>7. \A g \in goals \ {} : g.id # new.id BY <2>4
  <2> HIDE DEF new
  <2> QED BY <1>1, <2>1, <2>5, <2>6, <2>7, GoalWritten DEF IInv
<1>2. CASE q.pc = "update"
  <2> DEFINE New(g) == [g EXCEPT !.from = IF q.from = Keep THEN @ ELSE q.from,
                                 !.to = IF q.to = Keep THEN @ ELSE q.to,
                                 !.version = q.id, !.seen = q.seen,
                                 !.torn = g.version # q.goal.version]
  <2>1. PICK g \in goals : /\ g.id = q.goal.id /\ New(g).from < New(g).to
                           /\ goals' = (goals \ {g}) \cup {New(g)}
    BY <1>2 DEF StoreGoal
  <2>2. Done(r) BY <1>2 DEF StoreGoal
  <2>3. /\ DOMAIN g = GoalFields
        /\ g.from \in Times /\ g.to \in Times
    BY DEF IInv, GoalsHold
  <2>4. PICK new : new = New(g) OBVIOUS
  <2>5. goals' = (goals \ {g}) \cup {new} /\ new.from < new.to BY <2>1, <2>4
  <2>6. DOMAIN new = GoalFields BY <2>3, <2>4 DEF GoalFields
  <2>7. /\ new.id = g.id /\ new.version = q.id /\ new.seen = q.seen
        /\ new.from = (IF q.from = Keep THEN g.from ELSE q.from)
        /\ new.to = (IF q.to = Keep THEN g.to ELSE q.to)
    BY <2>3, <2>4 DEF GoalFields
  <2>8. new.torn \in BOOLEAN /\ (~new.torn => g.version = q.goal.version)
    BY <2>3, <2>4 DEF GoalFields
  <2>9. Loaded(q) /\ Clear(q.seen, q.goal.id, Checked(q))
    BY <1>2 DEF IInv, GoalsHold
  <2> HIDE DEF New
  <2>10. new.from \in Times /\ new.to \in Times
    BY <2>3, <2>7, <2>9 DEF Loaded
  <2>11. ~new.torn => Clear(new.seen, new.id, new)
    BY <2>1, <2>7, <2>8, <2>9 DEF Loaded, Clear, Checked
  <2>12. \A h \in goals \ {g} : h.id # new.id BY <2>7 DEF IInv, GoalsHold
  <2>13. \E h \in goals : h.id = new.id BY <2>7
  <2> QED BY <1>2, <2>2, <2>6, <2>7, <2>8, <2>5, <2>10, <2>11, <2>12, <2>13, GoalWritten
          DEF IInv
<1> QED BY <1>1, <1>2 DEF StoreGoal

LEMMA DeleteGoalStep ==
  ASSUME IInv, NEW r \in Requests, DeleteGoal(r)
  PROVE  Table(GoalPcs) /\ GoalsHold'
<1>1. PICK gone \in goals : goals' = goals \ {gone} /\ UNCHANGED <<req, begun>>
  BY DEF DeleteGoal
<1>2. Table(GoalPcs) BY <1>1 DEF Table
<1>3. Started' = Started BY <1>1 DEF Started, Count
<1>4. ASSUME NEW t, UnknownGoal(t) PROVE UnknownGoal(t)'
  BY <1>1, <1>4 DEF UnknownGoal
<1>5. (\A t \in (Started + 1)..MaxRequests : UnknownGoal(t))' BY <1>3, <1>4 DEF IInv, GoalsHold
<1>6. (\A q \in Pending : UnknownGoal(Ticket(req[q])))'
  <2>1. \A q \in Pending : UnknownGoal(Ticket(req[q]))' BY <1>1, <1>4 DEF IInv, GoalsHold, Ticket
  <2> QED BY <1>1, <2>1 DEF Pending, Ticket
<1>7. \A q \in Requests :
        /\ req'[q].pc = "create" => /\ req'[q].from \in Times /\ req'[q].to \in Times
                                    /\ req'[q].from < req'[q].to
                                    /\ Clear(req[q].seen, 0, req[q])'
        /\ req'[q].pc \in {"load", "update"} => Loaded(req[q])'
        /\ req'[q].pc = "update" =>
             Clear(req[q].seen, req[q].goal.id, Checked(req[q]))'
  BY <1>1 DEF IInv, GoalsHold, Clear, Loaded, Checked
<1>8. GoalsDisjoint' BY <1>1 DEF IInv, GoalsHold, GoalsDisjoint
<1>9. (\A g \in goals :
         /\ g.id \in 1..Started
         /\ g.from \in Times /\ g.to \in Times /\ g.from < g.to
         /\ g.torn \in BOOLEAN
         /\ DOMAIN g = GoalFields)'
  BY <1>1, <1>3 DEF IInv, GoalsHold
<1>10. (\A g, h \in goals : g.id = h.id => g = h)' BY <1>1 DEF IInv, GoalsHold
<1> QED BY <1>2, <1>5, <1>6, <1>7, <1>8, <1>9, <1>10 DEF GoalsHold

-----------------------------------------------------------------------------
(* Shipping rules.                                                         *)

LEMMA RuleRead ==
  ASSUME Ticketed, RulesHold, UNCHANGED rules, NEW r \in Requests, NEW x,
         Moves(r, x, RulePcs),
         x.pc \in RulePcs => x.rule \in 0..Started,
         x.pc \in {"clear", "rule"} =>
           x.seen \subseteq Versions(rules) \/ (req[r].pc = "clear" /\ x.seen = req[r].seen),
         x.pc = "clear" => \A v \in x.seen : v[1] \in x.picked \cup {x.rule},
         x.pc = "rule" =>
           /\ x.to \in BOOLEAN
           /\ \A s \in rules :
                (s.default /\ <<s.id, s.version>> \in x.seen /\ s.id # Own(x))
                  => s.id \in x.cleared
  PROVE  Table(RulePcs) /\ RulesHold'
<1>1. Table(RulePcs) BY DEF Table
<1>2. Advance BY <1>1, TicketsAdvance DEF Pcs
<1>3. \A q \in Requests : req'[q] = IF q = r THEN x ELSE req[q]
  BY DEF Moves, Ticketed
<1>4. ASSUME NEW t, UnknownRule(t) PROVE UnknownRule(t)'
  <2>1. x.pc \in {"clear", "rule"} => \A v \in x.seen : v[2] # t
    <3>1. \A v \in Versions(rules) : v[2] # t BY <1>4 DEF UnknownRule, Versions
    <3>2. req[r].pc = "clear" => \A v \in req[r].seen : v[2] # t
      BY <1>4 DEF UnknownRule
    <3> QED BY <3>1, <3>2
  <2> QED BY <1>3, <1>4, <2>1 DEF UnknownRule
<1>5. \A t \in (Started' + 1)..MaxRequests : UnknownRule(t)
  BY <1>2, MoreTickets DEF RulesHold
<1>6. \A q \in Pending' : UnknownRule(Ticket(req'[q]))
  BY <1>2 DEF RulesHold, Advance, Pending
<1>7. \A t \in (Started' + 1)..MaxRequests : UnknownRule(t)' BY <1>4, <1>5
<1>8. \A q \in Pending' : UnknownRule(Ticket(req[q]))' BY <1>4, <1>6 DEF Ticket
<1>9. 0..Started \subseteq 0..Started' BY <1>2 DEF Advance
<1>10. ASSUME NEW q \in Requests
       PROVE  /\ req'[q].pc \in RulePcs => req'[q].rule \in 0..Started'
              /\ req'[q].pc = "clear" =>
                   \A v \in req'[q].seen : v[1] \in req'[q].picked \cup {req'[q].rule}
              /\ req'[q].pc = "rule" =>
                   /\ req'[q].to \in BOOLEAN
                   /\ \A s \in rules :
                        (s.default /\ <<s.id, s.version>> \in req'[q].seen
                         /\ s.id # Own(req'[q])) => s.id \in req'[q].cleared
  <2>1. CASE q = r
    <3>1. req'[q] = x BY <1>3, <2>1
    <3> QED BY <1>9, <3>1
  <2>2. CASE q # r
    <3>1. req'[q] = req[q] BY <1>3, <2>2
    <3>2. req[q].pc \in RulePcs => req[q].rule \in 0..Started' BY <1>9 DEF RulesHold
    <3> QED BY <3>1, <3>2 DEF RulesHold
  <2> QED BY <2>1, <2>2
<1>11. OneDefaultRule' BY DEF RulesHold, OneDefaultRule
<1>12. \A s \in rules : s.id \in 1..Started' BY <1>2, MoreTickets DEF RulesHold
<1> QED BY <1>1, <1>7, <1>8, <1>10, <1>11, <1>12 DEF RulesHold, Own

LEMMA CreateRuleStep ==
  ASSUME IInv, NEW r \in Requests, CreateRule(r)
  PROVE  Table(RulePcs) /\ RulesHold' /\ NoRow
<1>1. NoRow /\ rules' = rules BY DEF CreateRule, NoRow
<1> DEFINE x == [pc |-> "clear", id |-> Started + 1, rule |-> 0, was |-> FALSE,
                 seen |-> Versions(Defaults), picked |-> Ids(Defaults)]
           y == Plain(0, FALSE)
<1>2. Begin(r, "rules", x) \/ Begin(r, "rules", y) BY DEF CreateRule
<1>3. 0 \in 0..Started BY DEF IInv, Ticketed
<1>4. CASE Begin(r, "rules", x)
  <2>1. Moves(r, x, RulePcs)
    <3>1. x.pc \in RulePcs /\ Ticket(x) = Started + 1 /\ "rules" \in Tables
      BY DEF RulePcs, Ticket, StockPcs, Tables
    <3> QED BY <1>4, <3>1, BeginMoves DEF IInv
  <2>2. x.pc = "clear" /\ x.rule = 0 /\ x.seen \subseteq Versions(rules)
    BY DEF Versions, Defaults
  <2>3. \A v \in x.seen : v[1] \in x.picked \cup {x.rule} BY DEF Versions, Ids
  <2> HIDE DEF x
  <2> QED BY <1>1, <1>3, <2>1, <2>2, <2>3, RuleRead DEF IInv
<1>5. CASE Begin(r, "rules", y)
  <2>1. /\ y.pc = "rule" /\ y.seen = {} /\ y.rule = 0 /\ y.to = FALSE /\ y.id = Started + 1
    BY DEF Plain
  <2> HIDE DEF y
  <2>2. Moves(r, y, RulePcs)
    <3>1. y.pc \in RulePcs /\ Ticket(y) = Started + 1 /\ "rules" \in Tables
      BY <2>1 DEF RulePcs, Ticket, StockPcs, Tables
    <3> QED BY <1>5, <3>1, BeginMoves DEF IInv
  <2> QED BY <1>1, <1>3, <2>1, <2>2, RuleRead DEF IInv
<1> QED BY <1>2, <1>4, <1>5

LEMMA LoadRuleStep ==
  ASSUME IInv, NEW r \in Requests, LoadRule(r)
  PROVE  Table(RulePcs) /\ RulesHold' /\ NoRow
<1>1. NoRow /\ rules' = rules BY DEF LoadRule, NoRow
<1>2. PICK s \in rules : Begin(r, "rules", [pc |-> "loaded", id |-> Started + 1,
                                            rule |-> s.id, was |-> s.default])
                         \/ Begin(r, "rules", Plain(s.id, s.default))
  BY DEF LoadRule
<1> DEFINE x == [pc |-> "loaded", id |-> Started + 1, rule |-> s.id, was |-> s.default]
           y == Plain(s.id, s.default)
<1>3. s.id \in 0..Started
  <2>1. s.id \in 1..Started BY DEF IInv, RulesHold
  <2> QED BY <2>1 DEF IInv, Ticketed
<1>4. CASE Begin(r, "rules", x)
  <2>1. Moves(r, x, RulePcs)
    <3>1. x.pc \in RulePcs /\ Ticket(x) = Started + 1 /\ "rules" \in Tables
      BY DEF RulePcs, Ticket, StockPcs, Tables
    <3> QED BY <1>4, <3>1, BeginMoves DEF IInv
  <2>2. x.pc = "loaded" /\ x.rule = s.id OBVIOUS
  <2> HIDE DEF x
  <2> QED BY <1>1, <1>3, <2>1, <2>2, RuleRead DEF IInv
<1>5. CASE Begin(r, "rules", y)
  <2>1. /\ y.pc = "rule" /\ y.seen = {} /\ y.rule = s.id /\ y.to = FALSE
        /\ y.id = Started + 1
    BY DEF Plain
  <2> HIDE DEF y
  <2>2. Moves(r, y, RulePcs)
    <3>1. y.pc \in RulePcs /\ Ticket(y) = Started + 1 /\ "rules" \in Tables
      BY <2>1 DEF RulePcs, Ticket, StockPcs, Tables
    <3> QED BY <1>5, <3>1, BeginMoves DEF IInv
  <2> QED BY <1>1, <1>3, <2>1, <2>2, RuleRead DEF IInv
<1> QED BY <1>2, <1>4, <1>5

LEMMA PickDefaultsStep ==
  ASSUME IInv, NEW r \in Requests, PickDefaults(r)
  PROVE  Table(RulePcs) /\ RulesHold' /\ NoRow
<1> DEFINE q == req[r]
           x == [pc |-> "clear", id |-> q.id, rule |-> q.rule, was |-> q.was,
                 seen |-> Versions(Defaults), picked |-> Ids(Defaults) \ {q.rule}]
<1>1. NoRow /\ rules' = rules /\ q.pc = "loaded" /\ Continue(r, x)
  BY DEF PickDefaults, PickAmong, NoRow
<1>2. Moves(r, x, RulePcs)
  <2>1. x.pc \in RulePcs /\ req[r].pc # "idle" /\ Ticket(x) = Ticket(req[r])
    BY <1>1 DEF RulePcs, Ticket, StockPcs
  <2> QED BY <1>1, <2>1, ContinueMoves
<1>3. q.rule \in 0..Started BY <1>1 DEF IInv, RulesHold, RulePcs
<1>4. x.pc = "clear" /\ x.rule = q.rule /\ x.seen \subseteq Versions(rules)
  BY DEF Versions, Defaults
<1>5. \A v \in x.seen : v[1] \in x.picked \cup {x.rule} BY DEF Versions, Ids
<1> HIDE DEF x
<1> QED BY <1>1, <1>2, <1>3, <1>4, <1>5, RuleRead DEF IInv

LEMMA ClearDefaultsStep ==
  ASSUME IInv, NEW r \in Requests, ClearDefaults(r)
  PROVE  Table(RulePcs) /\ RulesHold' /\ NoRow
<1> DEFINE q == req[r]
           x == [pc |-> "rule", id |-> q.id, rule |-> q.rule, was |-> q.was, to |-> TRUE,
                 seen |-> q.seen, cleared |-> q.picked \cap Ids(Defaults)]
<1>1. NoRow /\ rules' = rules /\ q.pc = "clear" /\ Continue(r, x)
  BY DEF ClearDefaults, NoRow
<1>2. Moves(r, x, RulePcs)
  <2>1. x.pc \in RulePcs /\ req[r].pc # "idle" /\ Ticket(x) = Ticket(req[r])
    BY <1>1 DEF RulePcs, Ticket, StockPcs
  <2> QED BY <1>1, <2>1, ContinueMoves
<1>3. q.rule \in 0..Started BY <1>1 DEF IInv, RulesHold, RulePcs
<1>4. ASSUME NEW s \in rules, s.default, <<s.id, s.version>> \in x.seen, s.id # Own(x)
      PROVE  s.id \in x.cleared
  <2>1. s.id \in q.picked \cup {q.rule} BY <1>1, <1>4 DEF IInv, RulesHold
  <2>2. s.id \in 1..Started BY DEF IInv, RulesHold
  <2>3. s.id # q.rule
    <3>1. CASE q.rule = 0 BY <2>2, <3>1 DEF IInv, Ticketed
    <3>2. CASE q.rule # 0 BY <1>4, <3>2 DEF Own
    <3> QED BY <3>1, <3>2
  <2>4. s.id \in Ids(Defaults) BY <1>4 DEF Ids, Defaults
  <2> QED BY <2>1, <2>3, <2>4
<1>5. x.pc = "rule" /\ x.rule = q.rule /\ x.seen = req[r].seen /\ x.to \in BOOLEAN
  OBVIOUS
<1> HIDE DEF x
<1> QED BY <1>1, <1>2, <1>3, <1>4, <1>5, RuleRead DEF IInv

\* What is left of a row whose default may have been cleared.
Cleared(b, s, ids) ==
  /\ DOMAIN b = {"id", "default", "version", "seen"} /\ b.default \in BOOLEAN
  /\ b.id = s.id /\ b.version = s.version /\ b.seen = s.seen
  /\ b.default => s.default /\ s.id \notin ids

LEMMA ClearedRow ==
  ASSUME RulesHold, NEW s \in rules, NEW ids
  PROVE  Cleared([s EXCEPT !.default = @ /\ s.id \notin ids], s, ids)
BY DEF RulesHold, Cleared

LEMMA StoreRuleStep ==
  ASSUME IInv, NEW r \in Requests, StoreRule(r)
  PROVE  Table(RulePcs) /\ RulesHold'
<1>0. PICK q : q = req[r] OBVIOUS
<1> DEFINE own == Own(q)
           writes == q.rule = 0 \/ q.was # q.to
           others == {[s EXCEPT !.default = @ /\ s.id \notin q.cleared] :
                        s \in {x \in rules : x.id # own \/ ~writes}}
           new == [id |-> own, default |-> q.to, version |-> q.id, seen |-> q.seen]
<1>1. /\ q.pc = "rule" /\ Done(r)
      /\ (writes /\ q.rule # 0) => own \in Ids(rules)
      /\ rules' = others \cup {s \in {new} : writes}
  BY <1>0 DEF StoreRule, Own
<1>2. \A b \in others : \E s \in rules : Cleared(b, s, q.cleared) /\ (s.id # own \/ ~writes)
  BY ClearedRow DEF IInv
<1>3. \A b \in rules' : \/ b = new /\ writes
                        \/ \E s \in rules : /\ Cleared(b, s, q.cleared)
                                            /\ s.id # own \/ ~writes
  BY <1>1, <1>2
<1>4. /\ DOMAIN new = {"id", "default", "version", "seen"} /\ new.id = own
      /\ new.version = q.id /\ new.seen = q.seen /\ new.default = q.to
  OBVIOUS
<1>5. /\ q.to \in BOOLEAN /\ q.rule \in 0..Started
      /\ \A s \in rules : (s.default /\ <<s.id, s.version>> \in q.seen /\ s.id # own)
                            => s.id \in q.cleared
  BY <1>0, <1>1 DEF IInv, RulesHold, RulePcs
<1>6. Moves(r, Idle, RulePcs) BY <1>1, DoneMoves
<1>7. Table(RulePcs) BY <1>6 DEF Table
<1>8. /\ \A o \in Requests : req'[o] = IF o = r THEN Idle ELSE req[o]
      /\ Started' = Started
  BY <1>1 DEF Done, Continue, IInv, Ticketed, Started, Count
<1>9. r \in Pending /\ q.id = Ticket(req[r]) /\ q.id \in 1..Started /\ UnknownRule(q.id)
  <2>1. r \in Pending /\ q.id = Ticket(req[r])
    BY <1>0, <1>1 DEF Pending, Ticket, StockPcs
  <2> QED BY <2>1 DEF IInv, Ticketed, RulesHold
<1>10. \A o \in Pending' : o \in Pending /\ o # r /\ req'[o] = req[o]
                           /\ Ticket(req[o]) # q.id
  <2>1. \A o \in Pending' : o \in Pending /\ o # r /\ req'[o] = req[o]
    BY <1>8 DEF Pending, Idle
  <2> QED BY <1>9, <2>1 DEF IInv, Ticketed
<1>11. own \in 1..Started /\ Started \in Nat
  <2>1. own = q.id \/ own \in 1..Started
    BY <1>5 DEF Own, IInv, Ticketed
  <2> QED BY <1>9, <2>1 DEF IInv, Ticketed
<1> HIDE DEF others, new, own, writes
<1>12. ASSUME NEW t, UnknownRule(t), t # q.id PROVE UnknownRule(t)'
  <2>1. \A v \in q.seen : v[2] # t BY <1>0, <1>1, <1>12 DEF UnknownRule
  <2>2. \A b \in rules' : b.version # t /\ \A v \in b.seen : v[2] # t
    BY <1>3, <1>4, <1>12, <2>1 DEF UnknownRule, Cleared
  <2> QED BY <1>8, <1>12, <2>2 DEF UnknownRule, Idle
<1>13. \A t \in (Started' + 1)..MaxRequests : UnknownRule(t)'
  <2>1. \A t \in (Started' + 1)..MaxRequests : UnknownRule(t) /\ t # q.id
    BY <1>8, <1>9, <1>11 DEF IInv, RulesHold
  <2> QED BY <2>1, <1>12
<1>14. \A o \in Pending' : UnknownRule(Ticket(req[o]))'
  <2>1. \A o \in Pending' : UnknownRule(Ticket(req[o])) /\ Ticket(req[o]) # q.id
                            /\ Ticket(req[o])' = Ticket(req[o])
    BY <1>10 DEF IInv, RulesHold, Ticket
  <2> QED BY <2>1, <1>12
<1>15. \A b \in rules' :
         /\ b.id \in 1..Started' /\ b.default \in BOOLEAN
         /\ DOMAIN b = {"id", "default", "version", "seen"}
  <2>1. ASSUME NEW b \in rules', NEW s \in rules, Cleared(b, s, q.cleared)
        PROVE  /\ b.id \in 1..Started' /\ b.default \in BOOLEAN
               /\ DOMAIN b = {"id", "default", "version", "seen"}
    BY <1>8, <2>1 DEF IInv, RulesHold, Cleared
  <2>2. /\ new.id \in 1..Started' /\ new.default \in BOOLEAN
        /\ DOMAIN new = {"id", "default", "version", "seen"}
    BY <1>4, <1>5, <1>8, <1>11
  <2> QED BY <1>3, <2>1, <2>2
<1>16. ASSUME NEW o \in Requests
       PROVE  /\ req'[o].pc \in RulePcs => req'[o].rule \in 0..Started'
              /\ req'[o].pc = "clear" =>
                   \A v \in req'[o].seen : v[1] \in req'[o].picked \cup {req'[o].rule}
              /\ req'[o].pc = "rule" =>
                   /\ req'[o].to \in BOOLEAN
                   /\ \A b \in rules' :
                        (b.default /\ <<b.id, b.version>> \in req'[o].seen
                         /\ b.id # Own(req'[o])) => b.id \in req'[o].cleared
  <2>1. CASE o = r BY <1>8, <2>1 DEF Idle, RulePcs
  <2>2. CASE o # r
    <3>1. req'[o] = req[o] BY <1>8, <2>2
    <3>2. ASSUME req[o].pc = "rule", NEW b \in rules', b.default,
                 <<b.id, b.version>> \in req[o].seen, b.id # Own(req[o])
          PROVE  b.id \in req[o].cleared
      <4>1. b # new BY <1>4, <1>9, <3>2 DEF UnknownRule
      <4>2. PICK s \in rules : Cleared(b, s, q.cleared) BY <1>3, <4>1
      <4> QED BY <3>2, <4>2 DEF IInv, RulesHold, Cleared
    <3> QED BY <1>8, <3>1, <3>2 DEF IInv, RulesHold
  <2> QED BY <2>1, <2>2
<1>17. OneDefaultRule'
  <2>1. \A s \in rules : s.version # q.id /\ <<own, q.id>> \notin s.seen
    BY <1>9 DEF UnknownRule
  <2>2. ASSUME NEW b \in rules', NEW s \in rules, Cleared(b, s, q.cleared), b.default,
               writes, s.id # own
        PROVE  <<b.id, b.version>> \notin new.seen /\ <<new.id, new.version>> \notin b.seen
    BY <1>4, <1>5, <2>1, <2>2 DEF Cleared
  <2>3. ASSUME NEW a \in rules', NEW b \in rules', NEW s \in rules, NEW t \in rules,
               Cleared(a, s, q.cleared), Cleared(b, t, q.cleared),
               a.default, b.default, a.id # b.id
        PROVE  <<a.id, a.version>> \notin b.seen /\ <<b.id, b.version>> \notin a.seen
    BY <2>3 DEF IInv, RulesHold, OneDefaultRule, Cleared
  <2>4. ASSUME NEW a \in rules', NEW b \in rules', a.default, b.default, a.id # b.id
        PROVE  <<a.id, a.version>> \notin b.seen /\ <<b.id, b.version>> \notin a.seen
    <3>1. CASE a = new /\ b = new BY <2>4, <3>1
    <3>2. CASE a = new /\ b # new /\ writes
      <4>1. PICK s \in rules : Cleared(b, s, q.cleared) /\ s.id # own
        BY <1>3, <3>2
      <4> QED BY <2>2, <2>4, <3>2, <4>1
    <3>3. CASE a # new /\ b = new /\ writes
      <4>1. PICK s \in rules : Cleared(a, s, q.cleared) /\ s.id # own
        BY <1>3, <3>3
      <4> QED BY <2>2, <2>4, <3>3, <4>1
    <3>4. CASE \E s, t \in rules : Cleared(a, s, q.cleared) /\ Cleared(b, t, q.cleared)
      BY <2>3, <2>4, <3>4
    <3> QED BY <1>3, <3>1, <3>2, <3>3, <3>4
  <2> QED BY <2>4 DEF OneDefaultRule
<1> QED BY <1>7, <1>13, <1>14, <1>15, <1>16, <1>17 DEF RulesHold, Own

LEMMA DeleteRuleStep ==
  ASSUME IInv, NEW r \in Requests, DeleteRule(r)
  PROVE  Table(RulePcs) /\ RulesHold'
<1>1. rules' \subseteq rules /\ UNCHANGED <<req, begun>> BY DEF DeleteRule
<1>2. Table(RulePcs) BY <1>1 DEF Table
<1>3. Started' = Started BY <1>1 DEF Started, Count
<1>4. ASSUME NEW t, UnknownRule(t) PROVE UnknownRule(t)'
  BY <1>1, <1>4 DEF UnknownRule
<1>5. (\A t \in (Started + 1)..MaxRequests : UnknownRule(t))'
  BY <1>3, <1>4 DEF IInv, RulesHold
<1>6. (\A q \in Pending : UnknownRule(Ticket(req[q])))'
  <2>1. \A q \in Pending : UnknownRule(Ticket(req[q]))'
    BY <1>1, <1>4 DEF IInv, RulesHold, Ticket
  <2> QED BY <1>1, <2>1 DEF Pending, Ticket
<1>7. (\A q \in Requests :
         /\ req[q].pc \in RulePcs => req[q].rule \in 0..Started
         /\ req[q].pc = "clear" =>
              \A v \in req[q].seen : v[1] \in req[q].picked \cup {req[q].rule}
         /\ req[q].pc = "rule" =>
              /\ req[q].to \in BOOLEAN
              /\ \A s \in rules :
                   (s.default /\ <<s.id, s.version>> \in req[q].seen /\ s.id # Own(req[q]))
                     => s.id \in req[q].cleared)'
  BY <1>1, <1>3 DEF IInv, RulesHold, Own
<1>8. OneDefaultRule' BY <1>1 DEF IInv, RulesHold, OneDefaultRule
<1>9. (\A s \in rules : /\ s.id \in 1..Started /\ s.default \in BOOLEAN
                        /\ DOMAIN s = {"id", "default", "version", "seen"})'
  BY <1>1, <1>3 DEF IInv, RulesHold
<1> QED BY <1>2, <1>5, <1>6, <1>7, <1>8, <1>9 DEF RulesHold

-----------------------------------------------------------------------------
(* Stock.                                                                  *)

LEMMA CurrentIsALevel ==
  ASSUME StockHolds
  PROVE  Current \in Nat
<1>1. CASE stock = {} BY <1>1 DEF Current
<1>2. CASE stock # {}
  <2> DEFINE newest == CHOOSE s \in stock : \A o \in stock : o.at <= s.at
  <2>1. \E s \in stock : \A o \in stock : o.at <= s.at BY <1>2 DEF StockHolds
  <2>2. newest \in stock BY <2>1
  <2>3. Current = newest.quantity BY <1>2 DEF Current
  <2> HIDE DEF newest
  <2> QED BY <2>2, <2>3 DEF StockHolds
<1> QED BY <1>1, <1>2

LEMMA StockRead ==
  ASSUME Ticketed, StockHolds, UNCHANGED <<stock, level, lost>>,
         NEW r \in Requests, NEW x, Moves(r, x, StockPcs),
         x.pc \in StockPcs =>
           /\ x.before \in Nat /\ x.before <= Cardinality(stock)
           /\ x.pc = "adjust" => x.n \in Int
           /\ x.pc \in {"set", "sync"} => x.n \in Nat
           /\ x.pc = "write" => /\ x.n \in Int /\ x.quantity \in Nat
                                /\ x.kind \in {"adjust", "sync"}
                                /\ x.kind = "sync" => x.quantity = x.n
           /\ Undisturbed(x)
  PROVE  Table(StockPcs) /\ StockHolds'
<1>1. Table(StockPcs) BY DEF Table
<1>2. Advance BY <1>1, TicketsAdvance DEF Pcs
<1>3. \A q \in Requests : req'[q] = IF q = r THEN x ELSE req[q]
  BY DEF Moves, Ticketed
<1>4. stock \subseteq [at : 1..Started', quantity : Nat]
  BY <1>2, MoreTickets DEF StockHolds
<1>5. \A s \in stock : \A q \in Pending' : s.at # Ticket(req'[q])
  <2>1. \A s \in stock : s.at \in 1..Started BY DEF StockHolds
  <2> QED BY <1>2, <2>1 DEF StockHolds, Advance, Pending
<1>6. Current' = Current BY DEF Current
<1>7. ASSUME NEW q \in Requests, req'[q].pc \in StockPcs
      PROVE  /\ req'[q].before \in Nat /\ req'[q].before <= Cardinality(stock)
             /\ req'[q].pc = "adjust" => req'[q].n \in Int
             /\ req'[q].pc \in {"set", "sync"} => req'[q].n \in Nat
             /\ req'[q].pc = "write" =>
                  /\ req'[q].n \in Int /\ req'[q].quantity \in Nat
                  /\ req'[q].kind \in {"adjust", "sync"}
                  /\ req'[q].kind = "sync" => req'[q].quantity = req'[q].n
             /\ Undisturbed(req[q])'
  <2>1. CASE q = r
    <3>1. req'[q] = x BY <1>3, <2>1
    <3>2. Undisturbed(req[q])' BY <1>6, <1>7, <3>1 DEF Undisturbed
    <3> QED BY <1>7, <3>1, <3>2
  <2>2. CASE q # r
    <3>1. req'[q] = req[q] BY <1>3, <2>2
    <3>2. Undisturbed(req[q]) BY <1>7, <3>1 DEF StockHolds
    <3>3. Undisturbed(req[q])' BY <1>6, <3>1, <3>2 DEF Undisturbed
    <3> QED BY <1>7, <3>1, <3>3 DEF StockHolds
  <2> QED BY <2>1, <2>2
<1>8. StockAddsUp' BY <1>6 DEF StockHolds, StockAddsUp
<1> QED BY <1>1, <1>4, <1>5, <1>7, <1>8 DEF StockHolds, Ticket

LEMMA StartStockStep ==
  ASSUME IInv, NEW r \in Requests, StartStock(r)
  PROVE  Table(StockPcs) /\ StockHolds' /\ NoRow
<1>1. PICK kind \in {"set", "adjust", "sync"} :
        \E n \in IF kind = "adjust" THEN Deltas ELSE Quantities :
          /\ Begin(r, "stock", [pc |-> kind, at |-> Started + 1, n |-> n,
                                before |-> Cardinality(stock)])
          /\ NoRow
  BY DEF StartStock
<1>2. PICK n \in IF kind = "adjust" THEN Deltas ELSE Quantities :
        /\ Begin(r, "stock", [pc |-> kind, at |-> Started + 1, n |-> n,
                              before |-> Cardinality(stock)])
        /\ NoRow
  BY <1>1
<1> DEFINE x == [pc |-> kind, at |-> Started + 1, n |-> n, before |-> Cardinality(stock)]
<1>3. UNCHANGED <<stock, level, lost>> BY <1>2 DEF NoRow
<1>4. Moves(r, x, StockPcs)
  <2>1. x.pc \in StockPcs /\ Ticket(x) = Started + 1 /\ "stock" \in Tables
    BY DEF StockPcs, Ticket, Tables
  <2> QED BY <1>2, <2>1, BeginMoves DEF IInv
<1>5. /\ x.before \in Nat /\ x.before <= Cardinality(stock)
      /\ x.pc = "adjust" => x.n \in Int
      /\ x.pc \in {"set", "sync"} => x.n \in Nat
      /\ x.pc # "write"
  <2>1. Cardinality(stock) \in Nat BY FS_CardinalityType DEF IInv, StockHolds
  <2> QED BY <2>1
<1>6. Undisturbed(x)
  <2>1. \A s \in stock : s.at < x.at
    BY DEF IInv, StockHolds, Ticketed
  <2> QED BY <1>5, <2>1 DEF Undisturbed
<1> HIDE DEF x
<1> QED BY <1>2, <1>3, <1>4, <1>5, <1>6, StockRead DEF IInv

LEMMA ReadStockStep ==
  ASSUME IInv, NEW r \in Requests, ReadStock(r)
  PROVE  Table(StockPcs) /\ StockHolds' /\ NoRow
<1>0. PICK q : q = req[r] OBVIOUS
<1> DEFINE n == IF q.pc = "adjust" THEN Current + q.n ELSE q.n
           x == [pc |-> "write", at |-> q.at, quantity |-> n, kind |-> q.pc,
                 n |-> q.n, before |-> q.before]
<1>1. /\ q.pc \in {"adjust", "sync"} /\ NoRow /\ UNCHANGED <<stock, level, lost>>
      /\ Done(r) \/ (~(n < 0) /\ Continue(r, x))
  BY <1>0 DEF ReadStock, ReadFrom, NoRow
<1>2. CASE Done(r)
  <2>1. Moves(r, Idle, StockPcs) BY <1>2, DoneMoves
  <2> QED BY <1>1, <2>1, StockRead DEF IInv, Idle, StockPcs
<1>3. CASE ~(n < 0) /\ Continue(r, x)
  <2>1. Moves(r, x, StockPcs)
    <3>1. x.pc \in StockPcs /\ req[r].pc # "idle" /\ Ticket(x) = Ticket(req[r])
      BY <1>0, <1>1 DEF StockPcs, Ticket
    <3> QED BY <1>3, <3>1, ContinueMoves
  <2>2. /\ q.before \in Nat /\ q.before <= Cardinality(stock)
        /\ q.pc = "adjust" => q.n \in Int
        /\ q.pc = "sync" => q.n \in Nat
        /\ Undisturbed(q)
    BY <1>0, <1>1 DEF IInv, StockHolds, StockPcs
  <2>3. Current \in Nat BY CurrentIsALevel DEF IInv
  <2>4. n \in Nat /\ q.n \in Int BY <1>1, <1>3, <2>2, <2>3
  <2>5. q.pc = "adjust" => n = Current + q.n OBVIOUS
  <2>6. q.pc = "sync" => n = q.n OBVIOUS
  <2> HIDE DEF n
  <2>7. Undisturbed(x) BY <2>2, <2>5 DEF Undisturbed
  <2>8. /\ x.pc = "write" /\ x.before = q.before /\ x.n = q.n /\ x.quantity = n
        /\ x.kind = q.pc
    OBVIOUS
  <2> HIDE DEF x
  <2> QED BY <1>1, <2>1, <2>2, <2>4, <2>6, <2>7, <2>8, StockRead DEF IInv
<1> QED BY <1>1, <1>2, <1>3

\* The commit: every other request under way is disturbed by it, and one that
\* is not disturbed itself writes the newest row, on the level it has read.
LEMMA StoreStockStep ==
  ASSUME IInv, NEW r \in Requests, StoreStock(r)
  PROVE  Table(StockPcs) /\ StockHolds'
<1>0. PICK q : q = req[r] OBVIOUS
<1> DEFINE n == IF q.pc = "set" THEN q.n ELSE q.quantity
           new == [at |-> q.at, quantity |-> n]
           alone == q.before = Cardinality(stock)
           count == q.pc = "set" \/ q.kind = "sync"
<1>1. /\ q.pc \in {"set", "write"} /\ Done(r) /\ stock' = stock \cup {new}
      /\ level' = IF count THEN q.n ELSE level + q.n
  BY <1>0 DEF StoreStock
<1>2. lost' = (~alone \/ (lost /\ ~count)) BY <1>0 DEF StoreStock
<1>3. /\ q.before \in Nat /\ q.before <= Cardinality(stock)
      /\ q.pc = "set" => q.n \in Nat
      /\ q.pc = "write" => /\ q.n \in Int /\ q.quantity \in Nat
                           /\ q.kind \in {"adjust", "sync"}
                           /\ q.kind = "sync" => q.quantity = q.n
      /\ Undisturbed(q)
  BY <1>0, <1>1 DEF IInv, StockHolds, StockPcs
<1>4. r \in Pending /\ q.at = Ticket(req[r]) /\ q.at \in 1..Started
  <2>1. r \in Pending /\ q.at = Ticket(req[r])
    BY <1>0, <1>1 DEF Pending, Ticket, StockPcs
  <2> QED BY <2>1 DEF IInv, Ticketed
<1>5. Moves(r, Idle, StockPcs) BY <1>1, DoneMoves
<1>6. Table(StockPcs) BY <1>5 DEF Table
<1>7. /\ \A o \in Requests : req'[o] = IF o = r THEN Idle ELSE req[o]
      /\ Started' = Started
  BY <1>1 DEF Done, Continue, IInv, Ticketed, Started, Count
<1>8. \A o \in Pending' : o \in Pending /\ o # r /\ req'[o] = req[o]
                          /\ Ticket(req[o]) # q.at
  <2>1. \A o \in Pending' : o \in Pending /\ o # r /\ req'[o] = req[o]
    BY <1>7 DEF Pending, Idle
  <2> QED BY <1>4, <2>1 DEF IInv, Ticketed
<1>9. n \in Nat /\ new.at = q.at /\ new.quantity = n BY <1>1, <1>3
<1>10. \A s \in stock : s.at # q.at BY <1>4 DEF IInv, StockHolds
<1>11. stock' \subseteq [at : 1..Started', quantity : Nat]
  BY <1>1, <1>4, <1>7, <1>9 DEF IInv, StockHolds
<1> HIDE DEF new
<1>12. IsFiniteSet(stock') /\ Cardinality(stock') = Cardinality(stock) + 1
  <2>1. IsFiniteSet(stock) /\ new \notin stock BY <1>9, <1>10 DEF IInv, StockHolds
  <2> QED BY <1>1, <2>1, FS_AddElement
<1>13. Cardinality(stock) \in Nat BY FS_CardinalityType DEF IInv, StockHolds
<1>14. \E s \in stock' : \A o \in stock' : o.at <= s.at
  <2>0. \A s \in stock' : s.at \in Nat BY <1>11
  <2>1. CASE stock = {} BY <1>1, <2>0, <2>1
  <2>2. CASE stock # {}
    <3>1. PICK s \in stock : \A o \in stock : o.at <= s.at
      BY <2>2 DEF IInv, StockHolds
    <3>2. CASE s.at <= new.at BY <1>1, <2>0, <3>1, <3>2
    <3>3. CASE ~(s.at <= new.at) BY <1>1, <2>0, <3>1, <3>3
    <3> QED BY <3>2, <3>3
  <2> QED BY <2>1, <2>2
<1>15. \A s \in stock' : \A o \in Pending' : s.at # Ticket(req[o])'
  <2>1. \A o \in Pending' : Ticket(req[o])' = Ticket(req[o]) BY <1>8 DEF Ticket
  <2> HIDE DEF Ticket
  <2>2. \A s \in stock : \A o \in Pending : s.at # Ticket(req[o]) BY DEF IInv, StockHolds
  <2> QED BY <1>1, <1>8, <1>9, <2>1, <2>2
<1>16. ASSUME NEW o \in Requests, req'[o].pc \in StockPcs
       PROVE  /\ req'[o].before \in Nat /\ req'[o].before <= Cardinality(stock')
              /\ req'[o].pc = "adjust" => req'[o].n \in Int
              /\ req'[o].pc \in {"set", "sync"} => req'[o].n \in Nat
              /\ req'[o].pc = "write" =>
                   /\ req'[o].n \in Int /\ req'[o].quantity \in Nat
                   /\ req'[o].kind \in {"adjust", "sync"}
                   /\ req'[o].kind = "sync" => req'[o].quantity = req'[o].n
              /\ Undisturbed(req[o])'
  <2>1. o # r /\ req'[o] = req[o] BY <1>7, <1>16 DEF Idle, StockPcs
  <2>2. req[o].before \in Nat /\ req[o].before <= Cardinality(stock)
    BY <1>16, <2>1 DEF IInv, StockHolds
  <2>3. req[o].before < Cardinality(stock') BY <1>12, <1>13, <2>2
  <2>4. Undisturbed(req[o])' BY <2>1, <2>2, <2>3, <1>12, <1>13 DEF Undisturbed
  <2>5. req[o].before <= Cardinality(stock') BY <1>12, <1>13, <2>2
  <2> QED BY <1>16, <2>1, <2>2, <2>4, <2>5 DEF IInv, StockHolds
<1>17. level' \in Int /\ lost' \in BOOLEAN
  <2>1. level' \in Int BY <1>1, <1>3 DEF IInv, StockHolds
  <2> QED BY <2>1, <1>2
<1>18. StockAddsUp'
  <2>1. SUFFICES ASSUME ~lost' PROVE Current' = level'
    BY DEF StockAddsUp
  <2>2. alone /\ (lost => count) BY <1>2, <2>1
  <2>3. \A s \in stock : s.at < q.at BY <1>3, <2>2 DEF Undisturbed
  <2>4. \A s \in stock' : (\A o \in stock' : o.at <= s.at) => s = new
    <3>1. \A s \in stock' : s.at \in Nat BY <1>11
    <3> QED BY <1>1, <1>9, <2>3, <3>1
  <2>5. (CHOOSE s \in stock' : \A o \in stock' : o.at <= s.at) = new
    BY <1>14, <2>4
  <2>6. Current' = n BY <1>1, <1>9, <2>5 DEF Current
  <2>7. CASE count
    <3>1. n = q.n BY <1>1, <1>3, <2>7
    <3> QED BY <1>1, <2>6, <2>7, <3>1
  <2>8. CASE ~count
    <3>1. q.pc = "write" /\ q.kind = "adjust" BY <1>1, <1>3, <2>8
    <3>2. n = Current + q.n BY <1>3, <2>2, <3>1 DEF Undisturbed
    <3>3. Current = level BY <2>2, <2>8 DEF IInv, StockHolds, StockAddsUp
    <3> QED BY <1>1, <2>6, <2>8, <3>2, <3>3
  <2> QED BY <2>7, <2>8
<1> QED BY <1>6, <1>11, <1>12, <1>14, <1>15, <1>16, <1>17, <1>18 DEF StockHolds

-----------------------------------------------------------------------------
(* The step of one table leaves the others as they were.                   *)

LEMMA Elsewheres ==
  ASSUME IInv, NEW pcs, Table(pcs), pcs \subseteq Pcs
  PROVE  /\ Ticketed' /\ Advance
         /\ \A own : own \cap (pcs \cup {"idle"}) = {} => Elsewhere(own)
BY TicketsStay, TicketsAdvance, OthersStay DEF IInv

LEMMA PeriodStep ==
  ASSUME IInv, Table(PeriodPcs), PeriodsHold', OnlyHistory
  PROVE  IInv'
<1>1. PeriodPcs \subseteq Pcs BY DEF Pcs
<1>2. /\ GoalPcs \cap (PeriodPcs \cup {"idle"}) = {}
      /\ RulePcs \cap (PeriodPcs \cup {"idle"}) = {}
      /\ StockPcs \cap (PeriodPcs \cup {"idle"}) = {}
  BY DEF PeriodPcs, GoalPcs, RulePcs, StockPcs
<1>3. /\ Ticketed' /\ Advance
      /\ Elsewhere(GoalPcs) /\ Elsewhere(RulePcs) /\ Elsewhere(StockPcs)
  BY <1>1, <1>2, Elsewheres
<1> QED BY <1>3, GoalsStay, RulesStay, StockStays DEF IInv, OnlyHistory

LEMMA GoalStep ==
  ASSUME IInv, Table(GoalPcs), GoalsHold', OnlyGoals
  PROVE  IInv'
<1>1. GoalPcs \subseteq Pcs BY DEF Pcs
<1>2. /\ PeriodPcs \cap (GoalPcs \cup {"idle"}) = {}
      /\ RulePcs \cap (GoalPcs \cup {"idle"}) = {}
      /\ StockPcs \cap (GoalPcs \cup {"idle"}) = {}
  BY DEF PeriodPcs, GoalPcs, RulePcs, StockPcs
<1>3. /\ Ticketed' /\ Advance
      /\ Elsewhere(PeriodPcs) /\ Elsewhere(RulePcs) /\ Elsewhere(StockPcs)
  BY <1>1, <1>2, Elsewheres
<1> QED BY <1>3, PeriodsStay, RulesStay, StockStays DEF IInv, OnlyGoals

LEMMA RuleStep ==
  ASSUME IInv, Table(RulePcs), RulesHold', OnlyRules
  PROVE  IInv'
<1>1. RulePcs \subseteq Pcs BY DEF Pcs
<1>2. /\ PeriodPcs \cap (RulePcs \cup {"idle"}) = {}
      /\ GoalPcs \cap (RulePcs \cup {"idle"}) = {}
      /\ StockPcs \cap (RulePcs \cup {"idle"}) = {}
  BY DEF PeriodPcs, GoalPcs, RulePcs, StockPcs
<1>3. /\ Ticketed' /\ Advance
      /\ Elsewhere(PeriodPcs) /\ Elsewhere(GoalPcs) /\ Elsewhere(StockPcs)
  BY <1>1, <1>2, Elsewheres
<1> QED BY <1>3, PeriodsStay, GoalsStay, StockStays DEF IInv, OnlyRules

LEMMA StockStep ==
  ASSUME IInv, Table(StockPcs), StockHolds', OnlyStock
  PROVE  IInv'
<1>1. StockPcs \subseteq Pcs BY DEF Pcs
<1>2. /\ PeriodPcs \cap (StockPcs \cup {"idle"}) = {}
      /\ GoalPcs \cap (StockPcs \cup {"idle"}) = {}
      /\ RulePcs \cap (StockPcs \cup {"idle"}) = {}
  BY DEF PeriodPcs, GoalPcs, RulePcs, StockPcs
<1>3. /\ Ticketed' /\ Advance
      /\ Elsewhere(PeriodPcs) /\ Elsewhere(GoalPcs) /\ Elsewhere(RulePcs)
  BY <1>1, <1>2, Elsewheres
<1> QED BY <1>3, PeriodsStay, GoalsStay, RulesStay DEF IInv, OnlyStock

LEMMA NothingMoves ==
  ASSUME IInv, Table({}), NoRow
  PROVE  IInv'
<1>1. /\ PeriodPcs \cap ({} \cup {"idle"}) = {}
      /\ GoalPcs \cap ({} \cup {"idle"}) = {}
      /\ RulePcs \cap ({} \cup {"idle"}) = {}
      /\ StockPcs \cap ({} \cup {"idle"}) = {}
  BY DEF PeriodPcs, GoalPcs, RulePcs, StockPcs
<1>2. /\ Ticketed' /\ Advance /\ Elsewhere(PeriodPcs)
      /\ Elsewhere(GoalPcs) /\ Elsewhere(RulePcs) /\ Elsewhere(StockPcs)
  BY <1>1, Elsewheres
<1> QED BY <1>2, PeriodsStay, GoalsStay, RulesStay, StockStays DEF IInv, NoRow

-----------------------------------------------------------------------------
LEMMA Start == Init => IInv
<1> SUFFICES ASSUME Init PROVE IInv OBVIOUS
<1>1. /\ \A r \in Requests : req[r].pc = "idle"
      /\ req = [r \in Requests |-> req[r]]
  BY DEF Init, Idle
<1>2. Pending = {} BY <1>1 DEF Pending
<1>3. begun \in [Tables -> Nat] /\ Started = 0
  BY DEF Init, Started, Count, Tables, Histories
<1>4. Ticketed BY <1>1, <1>2, <1>3 DEF Ticketed
<1>5. PeriodsHold BY <1>1 DEF Init, PeriodsHold, NewestWins
<1>6. \A t : UnknownGoal(t) /\ UnknownRule(t)
  BY <1>1 DEF Init, UnknownGoal, UnknownRule
<1>7. GoalsHold BY <1>1, <1>6 DEF Init, GoalsHold, GoalsDisjoint
<1>8. RulesHold BY <1>1, <1>6 DEF Init, RulesHold, OneDefaultRule, RulePcs
<1>9. StockHolds
  <2>1. StockAddsUp BY DEF Init, StockAddsUp, Current
  <2>2. IsFiniteSet(stock) BY FS_EmptySet DEF Init
  <2>3. stock = {} /\ level \in Int BY DEF Init
  <2>4. lost \in BOOLEAN BY DEF Init
  <2>5. \A r \in Requests : req[r].pc \notin StockPcs BY <1>1 DEF StockPcs
  <2> HIDE DEF Init
  <2> QED BY <2>1, <2>2, <2>3, <2>4, <2>5 DEF StockHolds
<1> QED BY <1>4, <1>5, <1>7, <1>8, <1>9 DEF IInv

LEMMA Step == IInv /\ [Next]_vars => IInv'
<1> SUFFICES ASSUME IInv, [Next]_vars PROVE IInv' OBVIOUS
<1> USE DEF NoRow, OnlyHistory, OnlyGoals, OnlyRules, OnlyStock
<1>1. CASE UNCHANGED vars
  BY <1>1, NothingMoves DEF Table, vars
<1>2. ASSUME NEW r \in Requests, NEW h \in Histories, CheckPeriod(r, h) PROVE IInv'
  BY <1>2, CheckPeriodStep, PeriodStep
<1>3. ASSUME NEW r \in Requests, SyncPrice(r) PROVE IInv'
  BY <1>3, SyncPriceStep, PeriodStep
<1>4. ASSUME NEW r \in Requests, StorePeriod(r) PROVE IInv'
  BY <1>4, StorePeriodStep, PeriodStep DEF StorePeriod
<1>5. ASSUME NEW r \in Requests, CreateGoal(r) PROVE IInv'
  BY <1>5, CreateGoalStep, GoalStep
<1>6. ASSUME NEW r \in Requests, LoadGoal(r) PROVE IInv'
  BY <1>6, LoadGoalStep, GoalStep
<1>7. ASSUME NEW r \in Requests, CheckGoal(r) PROVE IInv'
  BY <1>7, CheckGoalStep, GoalStep
<1>8. ASSUME NEW r \in Requests, StoreGoal(r) PROVE IInv'
  BY <1>8, StoreGoalStep, GoalStep DEF StoreGoal
<1>9. ASSUME NEW r \in Requests, DeleteGoal(r) PROVE IInv'
  BY <1>9, DeleteGoalStep, GoalStep DEF DeleteGoal
<1>10. ASSUME NEW r \in Requests, CreateRule(r) PROVE IInv'
  BY <1>10, CreateRuleStep, RuleStep
<1>11. ASSUME NEW r \in Requests, LoadRule(r) PROVE IInv'
  BY <1>11, LoadRuleStep, RuleStep
<1>12. ASSUME NEW r \in Requests, PickDefaults(r) PROVE IInv'
  BY <1>12, PickDefaultsStep, RuleStep
<1>13. ASSUME NEW r \in Requests, ClearDefaults(r) PROVE IInv'
  BY <1>13, ClearDefaultsStep, RuleStep
<1>14. ASSUME NEW r \in Requests, StoreRule(r) PROVE IInv'
  BY <1>14, StoreRuleStep, RuleStep DEF StoreRule
<1>15. ASSUME NEW r \in Requests, DeleteRule(r) PROVE IInv'
  BY <1>15, DeleteRuleStep, RuleStep DEF DeleteRule
<1>16. ASSUME NEW r \in Requests, StartStock(r) PROVE IInv'
  BY <1>16, StartStockStep, StockStep
<1>17. ASSUME NEW r \in Requests, ReadStock(r) PROVE IInv'
  BY <1>17, ReadStockStep, StockStep
<1>18. ASSUME NEW r \in Requests, StoreStock(r) PROVE IInv'
  BY <1>18, StoreStockStep, StockStep DEF StoreStock
<1>19. ASSUME NEW r \in Requests, RequestFails(r) PROVE IInv'
  <2>1. Moves(r, Idle, {}) BY <1>19, DoneMoves DEF RequestFails
  <2>2. Table({}) BY <2>1 DEF Table
  <2> QED BY <1>19, <2>2, NothingMoves DEF RequestFails
<1> QED BY <1>1, <1>2, <1>3, <1>4, <1>5, <1>6, <1>7, <1>8, <1>9, <1>10, <1>11,
           <1>12, <1>13, <1>14, <1>15, <1>16, <1>17, <1>18, <1>19 DEF Next

\* Whatever requests overlap, a row and the request that is about to write it
\* are of the version that the request has read or newer.
THEOREM Invariance == Spec => []IInv
BY Start, Step, PTL DEF Spec

\* create_price, create_cost and the price history of a sync: where two stored
\* periods apply at once, the one whose request had read the other starts later
\* and is the one that resolve_active_price and resolve_active_cost return.
THEOREM NewerPeriodWins == Spec => []NewestWins
<1>1. IInv => NewestWins BY DEF IInv, PeriodsHold
<1> QED BY <1>1, Invariance, PTL

LEMMA InvariantIsTyped == IInv => TypeOK
<1> SUFFICES ASSUME IInv PROVE TypeOK OBVIOUS
<1>1. ASSUME NEW h \in Histories, NEW p \in history[h]
      PROVE  /\ [from |-> p.from, to |-> p.to] \in Periods
             /\ p.id \in 1..Started /\ p.seen \subseteq 1..Started
  <2>1. \A q \in history[h] : q.id \in 1..Started BY DEF IInv, PeriodsHold
  <2>2. RowIds(h) \subseteq 1..Started BY <2>1 DEF RowIds
  <2> QED BY <2>2 DEF IInv, PeriodsHold
<1>2. /\ \A g \in goals : g.from \in Times /\ g.to \in Times /\ g.from < g.to
      /\ \A s \in rules : s.id \in 1..Started /\ s.default \in BOOLEAN
  BY DEF IInv, GoalsHold, RulesHold
<1>3. stock \subseteq [at : 1..Started, quantity : Nat] /\ Started \in 0..MaxRequests
  BY DEF IInv, StockHolds, Ticketed
<1> QED BY <1>1, <1>2, <1>3 DEF TypeOK

\* The goals of a business overlap, two of its shipping rules are default and
\* its stock level is not what the requests add up to only if the requests that
\* wrote those rows overlapped: _assert_no_overlap, _clear_defaults and
\* adjust_inventory are right whenever one request follows the other.
THEOREM RowsAreApart == Spec => []RowsFit
<1>1. IInv => RowsFit
  BY InvariantIsTyped DEF IInv, RowsFit, GoalsHold, RulesHold, StockHolds
<1> QED BY <1>1, Invariance, PTL

-----------------------------------------------------------------------------
(* The library: what its rows and its requests hold.                        *)

USE LibraryAssumption

\* Rows are numbered as they come, and none is ever deleted.
Numbered(set) ==
  /\ IsFiniteSet(set)
  /\ \A x \in set : x.id \in 1..Cardinality(set)
  /\ \A x, y \in set : x.id = y.id => x = y

Texts == {sub.text : sub \in Submissions} \cup DOMAIN Pages
SourceRows == [id : Nat, of : Submissions, hash : Texts]
Statuses == DOMAIN Library!Successors

LibraryTyped ==
  /\ now \in 0..MaxTime /\ work \in 0..MaxWork
  /\ status \in [Projects -> {"absent"} \cup Statuses]
  /\ sources \subseteq SourceRows /\ Numbered(sources)
  /\ Numbered(evidence) /\ Numbered(reports)
  /\ \A e \in evidence :
       /\ e.at \in 0..now /\ e.class \in Library!Classes
       /\ e.project \in Library!Present \cup {NA}
       /\ \E s \in sources : s.id = e.source

\* A finding of a report: it rests on evidence of its project, and is in an item.
Grounded(f, items) ==
  /\ f = [project |-> f.project, class |-> f.class, strength |-> f.strength,
          cites |-> f.cites, report |-> f.report]
  /\ f.project \in Library!Present
  /\ f.cites # {} /\ \A id \in f.cites : \E e \in evidence : e.id = id
  /\ \E e \in evidence : e.id \in f.cites /\ e.project = f.project
  /\ \E i \in items : i.cites = f.cites

\* Rows of the sources, as they are or as they were before a collection: what a
\* person submitted has not changed.
SourcesOnce(found, from) ==
  /\ from \in [{e.source : e \in found} -> SourceRows]
  /\ \A id \in DOMAIN from : \E s \in sources :
       s.id = id /\ from[id].id = id /\ from[id].of = s.of

\* A report says what it says of evidence and of sources that its input names.
GeneratedFrom(x, found, from) ==
  /\ SourcesOnce(found, from)
  /\ x.input = Library!Input(found, from) /\ x.items = Library!Items(found, from)
  /\ x.covered = Library!Coverage(found, from) /\ x.missing = Library!Missing(found, from)

Generated(x) == \E found \in SUBSET evidence :
  \E from \in [{e.source : e \in found} -> SourceRows] : GeneratedFrom(x, found, from)

StatusCalls == [pc : {"status"}, project : Projects, was : Statuses, to : Statuses]
NameCalls   == [pc : {"competitor"}, name : Names, seen : SUBSET Names]

\* What a request carries.
Carrying(x) ==
  \/ x = Library!Quiet
  \/ x \in StatusCalls
  \/ /\ x \in NameCalls /\ x.seen \subseteq {c.name : c \in competitors}
     /\ \A c \in competitors : Folded[c.name] = Folded[x.name] => c.name \notin x.seen
  \/ /\ x.pc = "report"
     /\ Generated(x)
     /\ \A f \in x.findings : Grounded(f, x.items)

CallsHold == /\ call = [r \in Requests |-> call[r]]
             /\ \A r \in Requests : Carrying(call[r])

CompetitorsHold ==
  /\ competitors \subseteq [name : Names, seen : SUBSET Names]
  /\ \A c \in competitors : c.seen \subseteq {d.name : d \in competitors}
  /\ Library!CompetitorsDiffer

ReportsHold == \A x \in reports : Generated(x)

LibraryInv == /\ LibraryTyped /\ CallsHold /\ CompetitorsHold
              /\ Library!FindingsAreGrounded /\ ReportsHold

-----------------------------------------------------------------------------
\* The library counts with the same operator as these proofs.
LEMMA SameCount == ASSUME NEW S PROVE Library!Cardinality(S) = Cardinality(S)
BY DEF Library!Cardinality, Cardinality

LEMMA NextIdIs == ASSUME NEW S PROVE Library!NextId(S) = Cardinality(S) + 1
BY SameCount DEF Library!NextId

LEMMA OneMore ==
  ASSUME NEW S, Numbered(S), NEW x, x.id = Cardinality(S) + 1
  PROVE  Numbered(S \cup {x})
<1>1. Cardinality(S) \in Nat BY FS_CardinalityType DEF Numbered
<1>2. x \notin S BY <1>1 DEF Numbered
<1>3. IsFiniteSet(S \cup {x}) /\ Cardinality(S \cup {x}) = Cardinality(S) + 1
  BY <1>2, FS_AddElement DEF Numbered
<1>4. \A y \in S \cup {x} : y.id \in 1..(Cardinality(S) + 1) BY <1>1 DEF Numbered
<1>5. \A y, z \in S \cup {x} : y.id = z.id => y = z BY <1>1 DEF Numbered
<1> QED BY <1>3, <1>4, <1>5 DEF Numbered

LEMMA AnotherVersion ==
  ASSUME NEW S, Numbered(S), NEW s \in S, NEW t, t.id = s.id
  PROVE  Numbered((S \ {s}) \cup {t})
<1> DEFINE R == S \ {s}
<1>1. Cardinality(S) \in Nat BY FS_CardinalityType DEF Numbered
<1>2. IsFiniteSet(R) /\ Cardinality(R) = Cardinality(S) - 1
  BY FS_RemoveElement DEF Numbered
<1>3. t \notin R BY DEF Numbered
<1>4. IsFiniteSet(R \cup {t}) /\ Cardinality(R \cup {t}) = Cardinality(R) + 1
  BY <1>2, <1>3, FS_AddElement
<1>5. Cardinality(R \cup {t}) = Cardinality(S) BY <1>1, <1>2, <1>4
<1>6. \A x \in R \cup {t} : x.id \in 1..Cardinality(S) BY DEF Numbered
<1>7. \A x, y \in R \cup {t} : x.id = y.id => x = y BY DEF Numbered
<1> QED BY <1>4, <1>5, <1>6, <1>7 DEF Numbered

LEMMA SeveralMore ==
  ASSUME NEW S, Numbered(S), NEW n \in Nat, NEW f, f = [i \in 1..n |-> f[i]],
         \A i \in 1..n : f[i].id = Cardinality(S) + i
  PROVE  Numbered(S \cup {f[i] : i \in 1..n})
<1> DEFINE T == {f[i] : i \in 1..n}  C == Cardinality(S)
<1>1. C \in Nat BY FS_CardinalityType DEF Numbered
<1>2. f \in Bijection(1..n, T)
  <2>1. \A i, j \in 1..n : f[i] = f[j] => i = j BY <1>1
  <2> QED BY <2>1 DEF Bijection, Injection, Surjection, IsInjective
<1>3. IsFiniteSet(1..n) /\ Cardinality(1..n) = n
  <2>1. 1 \in Int /\ n \in Int /\ (IF 1 > n THEN 0 ELSE n - 1 + 1) = n OBVIOUS
  <2> QED BY <2>1, FS_Interval
<1>4. IsFiniteSet(T) /\ Cardinality(T) = n
  BY <1>2, <1>3, FS_Bijection DEF ExistsBijection
<1>5. S \cap T = {} BY <1>1 DEF Numbered
<1>6. IsFiniteSet(S) BY DEF Numbered
<1>7. IsFiniteSet(S \cup T) /\ Cardinality(S \cup T) = C + n
  <2> HIDE DEF T
  <2>1. IsFiniteSet(S \cup T) /\ Cardinality(S \cup T)
          = Cardinality(S) + Cardinality(T) - Cardinality(S \cap T)
    BY <1>4, <1>6, FS_Union
  <2>2. Cardinality(S \cap T) = 0 BY <1>5, FS_EmptySet
  <2> QED BY <1>1, <1>4, <2>1, <2>2
<1>8. \A x \in S \cup T : x.id \in 1..(C + n) BY <1>1 DEF Numbered
<1>9. \A x, y \in S \cup T : x.id = y.id => x = y
  <2>1. \A x, y \in S : x.id = y.id => x = y BY DEF Numbered
  <2>2. \A x \in S : x.id \in 1..C BY DEF Numbered
  <2>3. \A i, j \in 1..n : C + i = C + j => i = j BY <1>1
  <2>4. \A x, y \in T : x.id = y.id => x = y BY <2>3
  <2>5. \A x \in S, y \in T : x.id # y.id BY <1>1, <2>2
  <2> QED BY <2>1, <2>4, <2>5
<1> HIDE DEF T, C
<1> QED BY <1>7, <1>8, <1>9 DEF Numbered, T, C
-----------------------------------------------------------------------------
(* Sources are known by their numbers, and reports by their inputs.         *)

LEMMA RowById ==
  ASSUME Numbered(sources), NEW s \in sources
  PROVE  Library!SourceRow(s.id) = s
BY DEF Numbered, Library!SourceRow

LEMMA SourcesNow ==
  ASSUME LibraryTyped, NEW found \in SUBSET evidence
  PROVE  /\ SourcesOnce(found, Library!SourcesOf(found))
         /\ Library!SourcesOf(found) \in [{e.source : e \in found} -> SourceRows]
<1> DEFINE from == Library!SourcesOf(found)
<1>1. ASSUME NEW id \in {e.source : e \in found}
      PROVE  \E s \in sources : s.id = id /\ from[id] = s
  <2>1. PICK s \in sources : s.id = id BY DEF LibraryTyped
  <2>2. Library!SourceRow(id) = s BY <2>1, RowById DEF LibraryTyped
  <2> QED BY <2>1, <2>2 DEF Library!SourcesOf
<1>2. from = [id \in {e.source : e \in found} |-> from[id]] BY DEF Library!SourcesOf
<1> HIDE DEF from
<1>3. from \in [{e.source : e \in found} -> SourceRows] BY <1>1, <1>2 DEF LibraryTyped
<1> QED BY <1>1, <1>3 DEF SourcesOnce, from

\* The input names the rows of evidence, and the content of each source of one.
LEMMA InputTells ==
  ASSUME LibraryTyped, NEW found \in SUBSET evidence, NEW scoped \in SUBSET evidence,
         NEW from, SourcesOnce(found, from), NEW cur, SourcesOnce(scoped, cur),
         Library!Input(found, from) = Library!Input(scoped, cur)
  PROVE  found = scoped /\ from = cur
<1>1. \A e, d \in evidence : e.id = d.id => e = d BY DEF LibraryTyped, Numbered
<1>2. ASSUME NEW e \in found PROVE e \in scoped /\ from[e.source].hash = cur[e.source].hash
  <2>1. <<e.id, from[e.source].hash>> \in Library!Input(scoped, cur)
    BY DEF Library!Input
  <2>2. PICK d \in scoped : <<e.id, from[e.source].hash>> = <<d.id, cur[d.source].hash>>
    BY <2>1 DEF Library!Input
  <2>3. e = d BY <1>1, <2>2
  <2> QED BY <2>2, <2>3
<1>3. ASSUME NEW d \in scoped PROVE d \in found
  <2>1. <<d.id, cur[d.source].hash>> \in Library!Input(found, from) BY DEF Library!Input
  <2>2. PICK e \in found : <<d.id, cur[d.source].hash>> = <<e.id, from[e.source].hash>>
    BY <2>1 DEF Library!Input
  <2> QED BY <1>1, <2>2
<1>4. found = scoped BY <1>2, <1>3
<1>5. ASSUME NEW id \in {e.source : e \in found} PROVE from[id] = cur[id]
  <2>1. PICK s \in sources : s.id = id /\ from[id].id = id /\ from[id].of = s.of
    BY DEF SourcesOnce
  <2>2. PICK t \in sources : t.id = id /\ cur[id].id = id /\ cur[id].of = t.of
    BY <1>4 DEF SourcesOnce
  <2>3. s = t BY <2>1, <2>2 DEF LibraryTyped, Numbered
  <2>4. from[id].hash = cur[id].hash BY <1>2
  <2>5. from[id] \in SourceRows /\ cur[id] \in SourceRows BY <1>4 DEF SourcesOnce
  <2> QED BY <2>1, <2>2, <2>3, <2>4, <2>5 DEF SourceRows
<1> QED BY <1>4, <1>5 DEF SourcesOnce

LEMMA GeneratedIsCurrent ==
  ASSUME LibraryTyped, ReportsHold
  PROVE  Library!ReportsAreCurrent
<1> SUFFICES ASSUME NEW x \in reports, NEW read, read = Library!Scope(x.scope),
                    NEW kept, kept = Library!SourcesOf(read),
                    x.input = Library!Input(read, kept)
             PROVE  /\ x.items = Library!Items(read, kept)
                    /\ x.covered = Library!Coverage(read, kept)
                    /\ x.missing = Library!Missing(read, kept)
  BY DEF Library!ReportsAreCurrent
<1>1. PICK found \in SUBSET evidence :
        \E from \in [{e.source : e \in found} -> SourceRows] : GeneratedFrom(x, found, from)
  BY DEF ReportsHold, Generated
<1>2. PICK from \in [{e.source : e \in found} -> SourceRows] : GeneratedFrom(x, found, from)
  BY <1>1
<1>3. PICK scoped \in SUBSET evidence : scoped = read BY DEF Library!Scope
<1>4. PICK cur \in [{e.source : e \in scoped} -> SourceRows] :
        cur = kept /\ SourcesOnce(scoped, cur)
  BY <1>3, SourcesNow
<1>5. SourcesOnce(found, from) /\ SourcesOnce(scoped, cur)
  BY <1>2, <1>4 DEF GeneratedFrom
<1>6. Library!Input(found, from) = Library!Input(scoped, cur)
  BY <1>2, <1>3, <1>4 DEF GeneratedFrom
<1>7. found = scoped /\ from = cur BY <1>5, <1>6, InputTells
<1> QED BY <1>2, <1>3, <1>4, <1>7 DEF GeneratedFrom

-----------------------------------------------------------------------------
(* What the library keeps.                                                  *)

\* Rows stay, up to the content of a source.
Grows ==
  /\ evidence \subseteq evidence' /\ Library!Present \subseteq Library!Present'
  /\ \A s \in sources : \E t \in sources' : t.id = s.id /\ t.of = s.of

LEMMA GeneratedStays ==
  ASSUME Grows, NEW x, Generated(x)
  PROVE  Generated(x)'
<1>1. PICK found \in SUBSET evidence :
        \E from \in [{e.source : e \in found} -> SourceRows] : GeneratedFrom(x, found, from)
  BY DEF Generated
<1>2. PICK from \in [{e.source : e \in found} -> SourceRows] : GeneratedFrom(x, found, from)
  BY <1>1
<1>3. SourcesOnce(found, from)'
  BY <1>2 DEF GeneratedFrom, SourcesOnce, Grows, SourceRows
<1>4. found \in SUBSET evidence' BY DEF Grows
<1>5. GeneratedFrom(x, found, from)' BY <1>2, <1>3 DEF GeneratedFrom
<1> QED BY <1>4, <1>5 DEF Generated

LEMMA GroundedStays ==
  ASSUME Grows, NEW f, NEW items, Grounded(f, items)
  PROVE  Grounded(f, items)'
BY DEF Grows, Grounded

LEMMA CarryingStays ==
  ASSUME Grows, competitors' = competitors, NEW x, Carrying(x)
  PROVE  Carrying(x)'
<1>1. CASE x.pc = "report" /\ Generated(x) /\ \A f \in x.findings : Grounded(f, x.items)
  <2>1. Generated(x)' BY <1>1, GeneratedStays
  <2>2. \A f \in x.findings : Grounded(f, x.items)' BY <1>1, GroundedStays
  <2> QED BY <1>1, <2>1, <2>2 DEF Carrying
<1> QED BY <1>1 DEF Carrying

\* A request moves on, or none does.
LEMMA CallsStay ==
  ASSUME CallsHold, Grows, competitors' = competitors,
         \/ call' = call
         \/ \E r \in Requests : \E x : call' = [call EXCEPT ![r] = x] /\ Carrying(x)'
  PROVE  CallsHold'
<1>1. ASSUME NEW r \in Requests PROVE Carrying(call[r])'
  <2>1. CASE call'[r] = call[r]
    <3>1. PICK y : y = call[r] /\ Carrying(y) BY DEF CallsHold
    <3>2. Carrying(y)' BY <3>1, CarryingStays
    <3> QED BY <2>1, <3>1, <3>2
  <2>2. CASE \E x : call'[r] = x /\ Carrying(x)' BY <2>2
  <2> QED BY <2>1, <2>2 DEF CallsHold
<1>2. call' = [r \in Requests |-> call'[r]] BY DEF CallsHold
<1> QED BY <1>1, <1>2 DEF CallsHold

LEMMA ReportsStay ==
  ASSUME ReportsHold, Grows, reports' = reports
  PROVE  ReportsHold'
BY GeneratedStays DEF ReportsHold

LEMMA FindingsStay ==
  ASSUME Library!FindingsAreGrounded, Grows, reports \subseteq reports',
         findings' \subseteq findings
  PROVE  Library!FindingsAreGrounded'
BY DEF Library!FindingsAreGrounded, Grows

LEMMA RowsGrow ==
  ASSUME LibraryInv, Grows, LibraryTyped', UNCHANGED <<competitors, findings, reports>>,
         \/ call' = call
         \/ \E r \in Requests : \E x : call' = [call EXCEPT ![r] = x] /\ Carrying(x)'
  PROVE  LibraryInv'
<1>1. CallsHold' BY CallsStay DEF LibraryInv
<1>2. CompetitorsHold' BY DEF LibraryInv, CompetitorsHold, Library!CompetitorsDiffer
<1>3. Library!FindingsAreGrounded' BY FindingsStay DEF LibraryInv
<1>4. ReportsHold' BY ReportsStay DEF LibraryInv
<1> QED BY <1>1, <1>2, <1>3, <1>4 DEF LibraryInv

LEMMA OnlyRequests ==
  ASSUME UNCHANGED <<sources, evidence>>, Library!Present \subseteq Library!Present'
  PROVE  Grows
BY DEF Grows

-----------------------------------------------------------------------------
(* The steps.                                                               *)

LEMMA Counts ==
  ASSUME LibraryTyped, Library!Accepted
  PROVE  work' \in 0..MaxWork
BY DEF Library!Admissible, LibraryTyped, Library!Accepted

LEMMA TickStep == ASSUME LibraryInv, Library!Tick PROVE LibraryInv'
<1>1. now' \in 0..MaxTime /\ 0..now \subseteq 0..now' /\ Library!Present' = Library!Present
  BY DEF Library!Tick, LibraryInv, LibraryTyped, Library!Admissible, Library!Present
<1>2. LibraryTyped'
  BY <1>1 DEF Library!Tick, Library!rows, Library!derived, LibraryInv, LibraryTyped, Numbered
<1> QED
  BY <1>1, <1>2, OnlyRequests, RowsGrow DEF Library!Tick, Library!rows, Library!derived

LEMMA StatusFacts ==
  /\ Statuses = {"draft", "collecting", "processing", "completed", "failed", "archived"}
  /\ \A s \in Statuses : Library!Successors[s] \subseteq Statuses
BY DEF Statuses, Library!Successors, Library!Terminal

LEMMA CreateProjectStep ==
  ASSUME LibraryInv, NEW p \in Projects, Library!CreateProject(p)
  PROVE  LibraryInv'
<1>1. /\ status' \in [Projects -> {"absent"} \cup Statuses]
      /\ Library!Present \subseteq Library!Present'
  BY StatusFacts DEF Library!CreateProject, LibraryInv, LibraryTyped, Library!Present
<1>2. work' \in 0..MaxWork BY Counts DEF Library!CreateProject, LibraryInv
<1>3. LibraryTyped'
  BY <1>1, <1>2 DEF Library!CreateProject, Library!rows, Library!derived, LibraryInv,
     LibraryTyped, Numbered
<1> QED
  BY <1>1, <1>3, OnlyRequests, RowsGrow DEF Library!CreateProject, Library!rows,
     Library!derived

LEMMA LoadProjectStep ==
  ASSUME LibraryInv, NEW r \in Requests, NEW p \in Projects, Library!LoadProject(r, p)
  PROVE  LibraryInv'
<1>1. PICK to \in Library!Successors[status[p]] :
        call' = [call EXCEPT ![r] = [pc |-> "status", project |-> p,
                                     was |-> status[p], to |-> to]]
  BY DEF Library!LoadProject
<1>2. status[p] \in Statuses BY DEF Library!LoadProject, LibraryInv, LibraryTyped
<1>3. to \in Statuses BY <1>1, <1>2, StatusFacts
<1> DEFINE x == [pc |-> "status", project |-> p, was |-> status[p], to |-> to]
<1>4. PICK y \in StatusCalls : y = x BY <1>2, <1>3 DEF StatusCalls
<1>5. Carrying(y)' BY DEF Carrying
<1>6. work' \in 0..MaxWork /\ Library!Present' = Library!Present
  BY Counts DEF Library!LoadProject, LibraryInv, Library!Present
<1>7. LibraryTyped'
  BY <1>6 DEF Library!LoadProject, Library!rows, Library!derived, LibraryInv, LibraryTyped,
     Numbered
<1> QED
  BY <1>1, <1>4, <1>5, <1>6, <1>7, OnlyRequests, RowsGrow DEF Library!LoadProject,
     Library!rows, Library!derived

LEMMA Answered ==
  ASSUME NEW r \in Requests, Library!Answer(r)
  PROVE  \E x : call' = [call EXCEPT ![r] = x] /\ Carrying(x)'
<1>1. PICK x : x = Library!Quiet OBVIOUS
<1>2. Carrying(x)' BY <1>1 DEF Carrying, Library!Quiet
<1> QED BY <1>1, <1>2 DEF Library!Answer

LEMMA StoreStatusStep ==
  ASSUME LibraryInv, NEW r \in Requests, Library!StoreStatus(r)
  PROVE  LibraryInv'
<1>1. PICK x : x = call[r] /\ Carrying(x) BY DEF LibraryInv, CallsHold
<1>2. x \in StatusCalls
  BY <1>1 DEF Library!StoreStatus, Carrying, Library!Quiet, NameCalls
<1>3. x.to \in Statuses /\ x.project \in Projects BY <1>2 DEF StatusCalls
<1>4. status' = [status EXCEPT ![x.project] = x.to] BY <1>1 DEF Library!StoreStatus
<1>5. /\ status' \in [Projects -> {"absent"} \cup Statuses]
      /\ Library!Present \subseteq Library!Present'
  BY <1>3, <1>4, StatusFacts DEF LibraryInv, LibraryTyped, Library!Present
<1>6. LibraryTyped'
  BY <1>5 DEF Library!StoreStatus, Library!rows, Library!derived, LibraryInv, LibraryTyped,
     Numbered
<1> QED
  BY <1>5, <1>6, Answered, OnlyRequests, RowsGrow DEF Library!StoreStatus,
     Library!rows, Library!derived

LEMMA RequestFailsStep ==
  ASSUME LibraryInv, NEW r \in Requests, Library!RequestFails(r)
  PROVE  LibraryInv'
<1>1. Library!Present' = Library!Present BY DEF Library!RequestFails, Library!Present
<1>2. LibraryTyped'
  BY <1>1 DEF Library!RequestFails, Library!rows, Library!derived, LibraryInv, LibraryTyped,
     Numbered
<1> QED
  BY <1>1, <1>2, Answered, OnlyRequests, RowsGrow DEF Library!RequestFails,
     Library!rows, Library!derived

LEMMA CheckCompetitorStep ==
  ASSUME LibraryInv, NEW r \in Requests, NEW name \in Names, Library!CheckCompetitor(r, name)
  PROVE  LibraryInv'
<1> DEFINE seen == {c.name : c \in competitors}
           x == [pc |-> "competitor", name |-> name, seen |-> seen]
<1>1. seen \in SUBSET Names BY DEF LibraryInv, CompetitorsHold
<1> HIDE DEF seen
<1>2. PICK y \in NameCalls : y = x BY <1>1 DEF NameCalls
<1>3. \A c \in competitors : Folded[c.name] # Folded[name]
  BY DEF Library!CheckCompetitor
<1>4. competitors' = competitors BY DEF Library!CheckCompetitor, Library!rows
<1>5. Carrying(y)' BY <1>2, <1>3, <1>4 DEF Carrying, seen
<1>6. call' = [call EXCEPT ![r] = y] BY <1>2 DEF Library!CheckCompetitor, seen
<1>7. work' \in 0..MaxWork /\ Library!Present' = Library!Present
  BY Counts DEF Library!CheckCompetitor, LibraryInv, Library!Present
<1>8. LibraryTyped'
  BY <1>7 DEF Library!CheckCompetitor, Library!rows, Library!derived, LibraryInv,
     LibraryTyped, Numbered
<1> QED
  BY <1>5, <1>6, <1>7, <1>8, OnlyRequests, RowsGrow DEF Library!CheckCompetitor,
     Library!rows, Library!derived

\* A name that no row has is in no list of names that a request saw.
LEMMA StoreCompetitorStep ==
  ASSUME LibraryInv, NEW r \in Requests, Library!StoreCompetitor(r)
  PROVE  LibraryInv'
<1>1. PICK x : x = call[r] /\ Carrying(x) BY DEF LibraryInv, CallsHold
<1>2. /\ x \in NameCalls /\ x.seen \subseteq {c.name : c \in competitors}
      /\ \A c \in competitors : Folded[c.name] = Folded[x.name] => c.name \notin x.seen
  BY <1>1 DEF Library!StoreCompetitor, Carrying, Library!Quiet, StatusCalls
<1>3. PICK new \in [name : Names, seen : SUBSET Names] :
        new = [name |-> x.name, seen |-> x.seen]
  BY <1>2 DEF NameCalls
<1>4. /\ competitors' = competitors \cup {new}
      /\ \A c \in competitors : c.name # new.name
  BY <1>1, <1>3 DEF Library!StoreCompetitor
<1>5. Library!Present' = Library!Present BY DEF Library!StoreCompetitor, Library!Present
<1>6. LibraryTyped'
  BY <1>5 DEF Library!StoreCompetitor, Library!derived, LibraryInv, LibraryTyped, Numbered
<1>7. Grows BY <1>5, OnlyRequests DEF Library!StoreCompetitor
<1>8. CompetitorsHold'
  <2>1. competitors' \subseteq [name : Names, seen : SUBSET Names]
    BY <1>3, <1>4 DEF LibraryInv, CompetitorsHold
  <2>2. \A c \in competitors' : c.seen \subseteq {d.name : d \in competitors}
    BY <1>2, <1>3, <1>4 DEF LibraryInv, CompetitorsHold
  <2>3. \A c \in competitors' : c.seen \subseteq {d.name : d \in competitors'}
    BY <1>4, <2>2
  <2>4. ASSUME NEW a \in competitors', NEW b \in competitors', a # b,
               Folded[a.name] = Folded[b.name]
        PROVE  a.name \notin b.seen
    <3>1. CASE a = new BY <1>4, <2>2, <3>1
    <3>2. CASE b = new /\ a \in competitors BY <1>2, <1>3, <2>4, <3>2
    <3>3. CASE a \in competitors /\ b \in competitors
      BY <2>4, <3>3 DEF LibraryInv, CompetitorsHold, Library!CompetitorsDiffer
    <3> QED BY <1>4, <3>1, <3>2, <3>3
  <2>5. Library!CompetitorsDiffer' BY <2>4 DEF Library!CompetitorsDiffer
  <2> QED BY <2>1, <2>3, <2>5 DEF CompetitorsHold
<1>9. CallsHold'
  <2>1. ASSUME NEW q \in Requests PROVE Carrying(call[q])'
    <3>1. PICK y : y = call[q] /\ Carrying(y) BY DEF LibraryInv, CallsHold
    <3>2. CASE q = r
      <4>1. call'[q] = Library!Quiet
        BY <3>2 DEF Library!StoreCompetitor, Library!Answer, LibraryInv, CallsHold
      <4> QED BY <4>1 DEF Carrying
    <3>3. CASE q # r
      <4>1. call'[q] = y
        BY <3>1, <3>3 DEF Library!StoreCompetitor, Library!Answer, LibraryInv, CallsHold
      <4>2. CASE y.pc = "report" /\ Generated(y) /\ \A f \in y.findings : Grounded(f, y.items)
        BY <1>7, <4>1, <4>2, GeneratedStays, GroundedStays DEF Carrying
      <4>3. CASE y \in NameCalls /\ y.seen \subseteq {c.name : c \in competitors}
                 /\ \A c \in competitors :
                      Folded[c.name] = Folded[y.name] => c.name \notin y.seen
        <5>1. new.name \notin y.seen BY <1>4, <4>3
        <5>2. \A c \in competitors' : Folded[c.name] = Folded[y.name] => c.name \notin y.seen
          BY <1>4, <4>3, <5>1
        <5>3. y.seen \subseteq {c.name : c \in competitors'} BY <1>4, <4>3
        <5> QED BY <4>1, <4>3, <5>2, <5>3 DEF Carrying
      <4> QED BY <3>1, <4>1, <4>2, <4>3 DEF Carrying
    <3> QED BY <3>2, <3>3
  <2> QED BY <2>1 DEF Library!StoreCompetitor, Library!Answer, LibraryInv, CallsHold
<1>10. Library!FindingsAreGrounded'
  BY <1>7, FindingsStay DEF Library!StoreCompetitor, Library!derived, LibraryInv
<1>11. ReportsHold'
  BY <1>7, ReportsStay DEF Library!StoreCompetitor, Library!derived, LibraryInv
<1> QED BY <1>6, <1>8, <1>9, <1>10, <1>11 DEF LibraryInv

LEMMA CreateSourceStep ==
  ASSUME LibraryInv, NEW sub \in Submissions, Library!CreateSource(sub)
  PROVE  LibraryInv'
<1> DEFINE new == [id |-> Library!NextId(sources), of |-> sub, hash |-> sub.text]
<1>1. Cardinality(sources) \in Nat
  BY FS_CardinalityType DEF LibraryInv, LibraryTyped, Numbered
<1>2. new \in SourceRows BY <1>1, NextIdIs DEF SourceRows, Texts
<1>3. Numbered(sources \cup {new}) BY NextIdIs, OneMore DEF LibraryInv, LibraryTyped
<1>4. sources' = sources \cup {new} BY DEF Library!CreateSource
<1> HIDE DEF new
<1>5. work' \in 0..MaxWork /\ Library!Present' = Library!Present
  BY Counts DEF Library!CreateSource, LibraryInv, Library!Present
<1>6. Grows BY <1>4, <1>5 DEF Grows, Library!CreateSource
<1>7. Numbered(sources)' BY <1>3, <1>4 DEF Numbered
<1>8. LibraryTyped'
  BY <1>2, <1>4, <1>5, <1>7 DEF Library!CreateSource, Library!derived, LibraryInv,
     LibraryTyped, Numbered
<1> QED BY <1>6, <1>8, RowsGrow DEF Library!CreateSource, Library!derived

LEMMA CreateEvidenceStep ==
  ASSUME LibraryInv, NEW s \in sources, NEW claim \in Claims, Library!CreateEvidence(s, claim)
  PROVE  LibraryInv'
<1> DEFINE new == Library!Record(Library!NextId(evidence), s, NA, claim, claim.class, NA)
<1>1. /\ new.id = Cardinality(evidence) + 1 /\ new.source = s.id /\ new.project = NA
      /\ new.class = claim.class /\ new.at = now
  BY NextIdIs DEF Library!Record
<1>2. evidence' = evidence \cup {new} BY DEF Library!CreateEvidence
<1> HIDE DEF new
<1>3. Numbered(evidence \cup {new}) BY <1>1, OneMore DEF LibraryInv, LibraryTyped
<1>4. work' \in 0..MaxWork /\ Library!Present' = Library!Present
  BY Counts DEF Library!CreateEvidence, LibraryInv, Library!Present
<1>5. Grows BY <1>2, <1>4 DEF Grows, Library!CreateEvidence
<1>6. Numbered(evidence)' BY <1>2, <1>3 DEF Numbered
<1>7. new.at \in 0..now /\ new.class \in Library!Classes
  BY <1>1 DEF LibraryInv, LibraryTyped, Library!Admissible
<1>8. LibraryTyped'
  BY <1>1, <1>2, <1>4, <1>6, <1>7 DEF Library!CreateEvidence, Library!derived, LibraryInv,
     LibraryTyped, Numbered
<1> QED BY <1>5, <1>8, RowsGrow DEF Library!CreateEvidence, Library!derived

LEMMA CollectStep ==
  ASSUME LibraryInv, NEW s \in sources, NEW p \in Library!Present, NEW page \in DOMAIN Pages,
         Library!Collect(s, p, page)
  PROVE  LibraryInv'
<1> DEFINE t == [s EXCEPT !.hash = page]
           n == Len(Pages[page])
           f == [i \in 1..n |-> Library!Record(Cardinality(evidence) + i, s, p,
                                               Pages[page][i], "observed", page)]
           new == {f[i] : i \in 1..n}
<1>1. n \in Nat /\ DOMAIN Pages[page] = 1..n BY DEF Library!Admissible
<1>2. t \in SourceRows /\ t.id = s.id /\ t.of = s.of
  BY DEF LibraryInv, LibraryTyped, SourceRows, Texts
<1>3. \A i \in 1..n : /\ f[i].id = Cardinality(evidence) + i /\ f[i].source = s.id
                      /\ f[i].project = p /\ f[i].class = "observed" /\ f[i].at = now
  BY DEF Library!Record
<1>4. f = [i \in 1..n |-> f[i]] OBVIOUS
<1>5. evidence' = evidence \cup new
  <2>1. new = {Library!Record(Cardinality(evidence) + i, s, p, Pages[page][i],
                              "observed", page) : i \in 1..n}
    OBVIOUS
  <2> HIDE DEF new, n
  <2> QED BY <1>1, <2>1, SameCount DEF Library!Collect
<1>6. sources' = (sources \ {s}) \cup {t} BY DEF Library!Collect
<1> HIDE DEF t, n, f
<1>7. Numbered((sources \ {s}) \cup {t}) BY <1>2, AnotherVersion DEF LibraryInv, LibraryTyped
<1>8. Numbered(evidence \cup new)
  BY <1>1, <1>3, <1>4, SeveralMore DEF LibraryInv, LibraryTyped
<1>9. work' \in 0..MaxWork /\ Library!Present' = Library!Present
  BY Counts DEF Library!Collect, LibraryInv, Library!Present
<1>10. Grows BY <1>2, <1>5, <1>6, <1>9 DEF Grows
<1>11. Numbered(sources)' BY <1>6, <1>7 DEF Numbered
<1>12. Numbered(evidence)' BY <1>5, <1>8 DEF Numbered
<1>13. sources' \subseteq SourceRows BY <1>2, <1>6 DEF LibraryInv, LibraryTyped
<1>14. now \in Nat /\ now' = now
  BY DEF LibraryInv, LibraryTyped, Library!Admissible, Library!Collect
<1>15. ASSUME NEW e \in evidence'
       PROVE  /\ e.at \in 0..now /\ e.class \in Library!Classes
              /\ e.project \in Library!Present \cup {NA}
              /\ \E o \in sources' : o.id = e.source
  <2>1. \A o \in sources : \E u \in sources' : u.id = o.id BY <1>2, <1>6
  <2>2. CASE e \in evidence BY <2>1, <2>2 DEF LibraryInv, LibraryTyped
  <2>3. CASE e \in new
    <3>1. PICK i \in 1..n : e = f[i] BY <2>3
    <3>2. e.at = now /\ e.class = "observed" /\ e.project = p /\ e.source = s.id
      BY <1>3, <3>1
    <3> QED BY <1>14, <2>1, <3>2 DEF Library!Classes
  <2> QED BY <1>5, <2>2, <2>3
<1>16. LibraryTyped'
  <2>1. /\ now' \in 0..MaxTime /\ status' \in [Projects -> {"absent"} \cup Statuses]
        /\ Numbered(reports)'
    BY DEF Library!Collect, Library!derived, LibraryInv, LibraryTyped, Numbered
  <2> QED BY <1>9, <1>11, <1>12, <1>13, <1>14, <1>15, <2>1 DEF LibraryTyped
<1> QED BY <1>10, <1>16, RowsGrow DEF Library!Collect, Library!derived

LEMMA CreateFindingStep ==
  ASSUME LibraryInv, NEW p \in Library!Present, NEW cited \in SUBSET evidence,
         NEW class \in Library!Classes, Library!CreateFinding(p, cited, class)
  PROVE  LibraryInv'
<1> DEFINE strength == Library!Ladder(Cardinality(cited),
                         Cardinality({e \in cited : e.class = "observed"}))
           new == [project |-> p, class |-> class, report |-> 0, strength |-> strength,
                   cites |-> {e.id : e \in cited}]
<1>1. findings' = findings \cup {new} BY SameCount DEF Library!CreateFinding
<1>2. /\ new.project = p /\ new.report = 0 /\ new.cites = {e.id : e \in cited}
      /\ new.cites # {}
  BY DEF Library!CreateFinding
<1> HIDE DEF new
<1>3. /\ work' \in 0..MaxWork /\ Library!Present' = Library!Present
      /\ UNCHANGED <<Library!rows, reports, call>>
  BY Counts DEF Library!CreateFinding, LibraryInv, Library!Present
<1>4. Grows BY <1>3, OnlyRequests DEF Library!rows
<1>5. LibraryTyped'
  BY <1>3 DEF Library!CreateFinding, Library!rows, LibraryInv, LibraryTyped, Numbered
<1>6. Library!FindingsAreGrounded'
  <2>1. \A f \in findings : f \in findings' BY <1>1
  <2>2. ASSUME NEW f \in findings'
        PROVE  /\ f.project \in Library!Present'
               /\ f.cites # {} /\ \A id \in f.cites : \E e \in evidence' : e.id = id
               /\ f.report # 0 =>
                    /\ \E e \in evidence' : e.id \in f.cites /\ e.project = f.project
                    /\ \E x \in reports' :
                         x.id = f.report /\ \E i \in x.items : i.cites = f.cites
    <3>1. CASE f = new BY <1>2, <1>3, <3>1 DEF Library!rows
    <3>2. CASE f \in findings
      BY <1>3, <3>2 DEF Library!rows, LibraryInv, Library!FindingsAreGrounded
    <3> QED BY <1>1, <3>1, <3>2
  <2> QED BY <2>2 DEF Library!FindingsAreGrounded
<1>7. CallsHold' BY <1>3, <1>4, CallsStay DEF Library!rows, LibraryInv
<1>8. ReportsHold' BY <1>3, <1>4, ReportsStay DEF LibraryInv
<1>9. CompetitorsHold'
  BY <1>3 DEF Library!rows, LibraryInv, CompetitorsHold, Library!CompetitorsDiffer
<1> QED BY <1>5, <1>6, <1>7, <1>8, <1>9 DEF LibraryInv

\* A group is made of evidence, and what a report finds in one is an item.
LEMMA FindingsGrounded ==
  ASSUME LibraryInv, NEW scoped \in SUBSET evidence, NEW from, NEW project,
         NEW f \in Library!Findings(scoped, from, project, 0)
  PROVE  Grounded(f, Library!Items(scoped, from))
<1>1. PICK g \in Library!Groups(scoped, from) : \E p \in Library!ProjectsOf(g) :
        f = [project |-> p, class |-> Library!Classification(g),
             strength |-> Library!Strength(g, from), cites |-> {e.id : e \in g}, report |-> 0]
  BY DEF Library!Findings
<1>2. PICK p \in Library!ProjectsOf(g) :
        f = [project |-> p, class |-> Library!Classification(g),
             strength |-> Library!Strength(g, from), cites |-> {e.id : e \in g}, report |-> 0]
  BY <1>1
<1>3. g \subseteq evidence BY DEF Library!Groups
<1>4. PICK e \in g : e.project = p /\ p # NA BY DEF Library!ProjectsOf
<1>5. p \in Library!Present BY <1>3, <1>4 DEF LibraryInv, LibraryTyped
<1>6. \E i \in Library!Items(scoped, from) : i.cites = {d.id : d \in g}
  <2>1. g \in {h \in Library!Groups(scoped, from) : Library!ProjectsOf(h) # {}} BY <1>4
  <2>2. [cites |-> {d.id : d \in g}, class |-> Library!Classification(g),
         strength |-> Library!Strength(g, from), support |-> Library!Independent(g, from),
         pricing |-> Library!Pricing(g)] \in Library!Items(scoped, from)
    BY <2>1 DEF Library!Items
  <2> QED BY <2>2
<1> QED BY <1>2, <1>3, <1>4, <1>5, <1>6 DEF Grounded

LEMMA ReadInputsStep ==
  ASSUME LibraryInv, NEW r \in Requests, NEW project, Library!ReadInputs(r, project)
  PROVE  LibraryInv'
<1>1. PICK scoped \in SUBSET evidence : scoped = Library!Scope(project)
  BY DEF Library!Scope
<1>2. PICK from \in [{e.source : e \in scoped} -> SourceRows] :
        from = Library!SourcesOf(scoped) /\ SourcesOnce(scoped, from)
  BY SourcesNow DEF LibraryInv
<1>3. PICK x : x =
       [pc |-> "report", scope |-> project, input |-> Library!Input(scoped, from),
        items |-> Library!Items(scoped, from), fresh |-> Library!Freshness(scoped),
        covered |-> Library!Coverage(scoped, from), missing |-> Library!Missing(scoped, from),
        findings |-> Library!Findings(scoped, from, project, 0)]
  OBVIOUS
<1>4. call' = [call EXCEPT ![r] = x] BY <1>1, <1>2, <1>3 DEF Library!ReadInputs
<1>5. /\ x.pc = "report" /\ x.input = Library!Input(scoped, from)
      /\ x.items = Library!Items(scoped, from)
      /\ x.covered = Library!Coverage(scoped, from)
      /\ x.missing = Library!Missing(scoped, from)
      /\ x.findings = Library!Findings(scoped, from, project, 0)
  BY <1>3
<1>6. Generated(x) BY <1>2, <1>5 DEF Generated, GeneratedFrom
<1>7. \A f \in x.findings : Grounded(f, x.items) BY <1>5, FindingsGrounded
<1>8. Carrying(x) BY <1>5, <1>6, <1>7 DEF Carrying
<1>9. /\ work' \in 0..MaxWork /\ Library!Present' = Library!Present
      /\ UNCHANGED <<now, status, Library!rows, Library!derived>>
  BY Counts DEF Library!ReadInputs, LibraryInv, Library!Present
<1>10. Grows BY <1>9, OnlyRequests DEF Library!rows
<1>11. Carrying(x)' BY <1>8, <1>9, <1>10, CarryingStays DEF Library!rows
<1>12. LibraryTyped'
  BY <1>9 DEF Library!rows, Library!derived, LibraryInv, LibraryTyped, Numbered
<1> QED BY <1>4, <1>9, <1>10, <1>11, <1>12, RowsGrow DEF Library!rows, Library!derived

LEMMA StoreReportStep ==
  ASSUME LibraryInv, NEW r \in Requests, Library!StoreReport(r)
  PROVE  LibraryInv'
<1>1. PICK x : x = call[r] /\ Carrying(x) BY DEF LibraryInv, CallsHold
<1>2. Generated(x) /\ \A f \in x.findings : Grounded(f, x.items)
  BY <1>1 DEF Library!StoreReport, Carrying, Library!Quiet, StatusCalls, NameCalls
<1>3. PICK id : id = Library!NextId(reports) OBVIOUS
<1>4. PICK new : new = [id |-> id, scope |-> x.scope, input |-> x.input, items |-> x.items,
         fresh |-> x.fresh, covered |-> x.covered, missing |-> x.missing]
  OBVIOUS
<1>5. /\ reports' = reports \cup {new}
      /\ findings' = findings \cup {[f EXCEPT !.report = id] : f \in x.findings}
  BY <1>1, <1>3, <1>4 DEF Library!StoreReport
<1>6. new.id = id /\ new.items = x.items /\ new.input = x.input
      /\ new.covered = x.covered /\ new.missing = x.missing
  BY <1>4
<1>7. Library!Present' = Library!Present /\ UNCHANGED <<now, status, Library!rows, work>>
  BY DEF Library!StoreReport, Library!Present
<1>8. Grows BY <1>7, OnlyRequests DEF Library!rows
<1>9. Numbered(reports)'
  <2>1. Numbered(reports \cup {new})
    BY <1>3, <1>6, NextIdIs, OneMore DEF LibraryInv, LibraryTyped
  <2> QED BY <1>5, <2>1 DEF Numbered
<1>10. LibraryTyped' BY <1>7, <1>9 DEF Library!rows, LibraryInv, LibraryTyped, Numbered
<1>11. Generated(new) BY <1>2, <1>6 DEF Generated, GeneratedFrom
<1>12. ReportsHold'
  <2>1. \A y \in reports \cup {new} : Generated(y) BY <1>11 DEF LibraryInv, ReportsHold
  <2>2. ASSUME NEW y \in reports' PROVE Generated(y)'
    BY <1>5, <1>8, <2>1, GeneratedStays
  <2> QED BY <2>2 DEF ReportsHold
<1>13. Library!FindingsAreGrounded'
  <2>1. ASSUME NEW f \in findings'
        PROVE  /\ f.project \in Library!Present'
               /\ f.cites # {} /\ \A e \in f.cites : \E d \in evidence' : d.id = e
               /\ f.report # 0 =>
                    /\ \E e \in evidence' : e.id \in f.cites /\ e.project = f.project
                    /\ \E y \in reports' :
                         y.id = f.report /\ \E i \in y.items : i.cites = f.cites
    <3>1. CASE f \in findings
      BY <1>5, <1>7, <3>1 DEF Library!rows, LibraryInv, Library!FindingsAreGrounded
    <3>2. CASE f \notin findings
      <4>1. PICK g \in x.findings : f = [g EXCEPT !.report = id] BY <1>5, <3>2
      <4>2. Grounded(g, x.items) BY <1>2
      <4>3. f.project = g.project /\ f.cites = g.cites /\ f.report = id
        BY <4>1, <4>2 DEF Grounded
      <4>4. new \in reports' BY <1>5
      <4> QED BY <1>6, <1>7, <4>2, <4>3, <4>4 DEF Library!rows, Grounded
    <3> QED BY <3>1, <3>2
  <2> QED BY <2>1 DEF Library!FindingsAreGrounded
<1>14. CallsHold'
  BY <1>7, <1>8, Answered, CallsStay DEF Library!rows, LibraryInv, Library!StoreReport
<1>15. CompetitorsHold'
  BY <1>7 DEF Library!rows, LibraryInv, CompetitorsHold, Library!CompetitorsDiffer
<1> QED BY <1>10, <1>12, <1>13, <1>14, <1>15 DEF LibraryInv

-----------------------------------------------------------------------------
LEMMA LibraryStarts == ASSUME Library!Init PROVE LibraryInv
<1>1. \A S : S = {} => Numbered(S) BY FS_EmptySet DEF Numbered
<1>2. LibraryTyped BY <1>1 DEF Library!Init, LibraryTyped, Library!Admissible
<1>3. CallsHold BY DEF Library!Init, CallsHold, Carrying
<1> QED
  BY <1>2, <1>3 DEF Library!Init, LibraryInv, CompetitorsHold, Library!CompetitorsDiffer,
                          Library!FindingsAreGrounded, ReportsHold

LEMMA LibraryRests == ASSUME LibraryInv, UNCHANGED Library!vars PROVE LibraryInv'
<1>1. Library!Present' = Library!Present BY DEF Library!vars, Library!Present
<1>2. LibraryTyped'
  BY <1>1 DEF Library!vars, Library!rows, Library!derived, LibraryInv, LibraryTyped, Numbered
<1> QED
  BY <1>1, <1>2, OnlyRequests, RowsGrow DEF Library!vars, Library!rows, Library!derived

LEMMA LibrarySteps == ASSUME LibraryInv, Library!Next PROVE LibraryInv'
<1>1. ASSUME NEW p \in Library!Present, NEW r \in Requests, Library!LoadProject(r, p)
      PROVE  LibraryInv'
  BY <1>1, LoadProjectStep DEF Library!Present
<1> QED
  BY <1>1, TickStep, CreateProjectStep, CreateSourceStep, CreateEvidenceStep,
     CollectStep,
     CreateFindingStep, CheckCompetitorStep, ReadInputsStep, StoreStatusStep,
     StoreCompetitorStep, StoreReportStep, RequestFailsStep DEF Library!Next

LEMMA LibraryHolds == ASSUME LibraryInv PROVE Library!ReportsAreCurrent /\ Library!LibraryFits
<1>1. Library!TypeOK
  <2>1. \A s \in sources : s.id \in 1..Cardinality(sources) /\ s.of \in Submissions
    BY DEF LibraryInv, LibraryTyped, Numbered, SourceRows
  <2> QED BY <2>1, SameCount DEF LibraryInv, LibraryTyped, Numbered, Library!TypeOK, Statuses
<1> QED BY <1>1, GeneratedIsCurrent DEF LibraryInv, Library!LibraryFits, CompetitorsHold

LEMMA LibraryKept == Library!Spec => []LibraryInv
<1>1. Library!Init => LibraryInv BY LibraryStarts
<1>2. LibraryInv /\ [Library!Next]_(Library!vars) => LibraryInv'
  BY LibrarySteps, LibraryRests
<1> QED BY <1>1, <1>2, PTL DEF Library!Spec

\* ensure_snapshot serves a stored report whose input hash is the present one:
\* the evidence and the content of its sources are then those it was generated
\* from, whatever was stored, collected and collected back meanwhile.
THEOREM ServedReportsAreCurrent == Library!Spec => []ReportsAreCurrent
<1>1. LibraryInv => ReportsAreCurrent BY LibraryHolds DEF ReportsAreCurrent
<1> QED BY <1>1, LibraryKept, PTL

\* create_finding, ensure_snapshot and create_competitor: every variable keeps its
\* type, a finding rests on evidence and one of a report on an item and on its own
\* project, and competitors differ by more than case unless their requests overlapped.
THEOREM LibraryRowsFit == Library!Spec => []LibraryFits
<1>1. LibraryInv => LibraryFits BY LibraryHolds DEF LibraryFits
<1> QED BY <1>1, LibraryKept, PTL

===============================================================================
