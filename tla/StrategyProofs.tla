---------------------------- MODULE StrategyProofs ----------------------------
(***************************************************************************)
(* Proofs about Strategy and Funnel, for any evidence, candidates, views,  *)
(* goals and number of requests.                                           *)
(*                                                                         *)
(* No property is inductive.  A row has the version that its request had   *)
(* counted, so that no version is skipped depends on the versions the      *)
(* requests have in hand (Carries).  What a selection has earned is what   *)
(* its score says (Scored), and a funnel leads to what the rows say that   *)
(* it was generated from: they are never deleted, and what people asked    *)
(* for and what was decided does not change (Extends).                     *)
(*                                                                         *)
(* The second part is about Forecasting and Simulator, as Sim.  A forecast *)
(* agrees with its points because no request has the metrics of another    *)
(* left to store (ForecastJob).  The hints of a simulation agree with its  *)
(* figures because each is within half a part of the ratio it is rounded   *)
(* from (Close), and a row keeps the values it was computed from           *)
(* (RowHolds).                                                             *)
(***************************************************************************)
EXTENDS Funnel, Planning, Integers, FiniteSetTheorems, WellFoundedInduction, TLAPS

USE StrategyAssumption

-----------------------------------------------------------------------------
(* Sequences, of rows of any kind.                                         *)

IsRows(rows) == \E S : rows \in Seq(S)

LEMMA RowsHaveLength ==
  ASSUME NEW rows, IsRows(rows)
  PROVE  Len(rows) \in Nat /\ DOMAIN rows = 1..Len(rows)
BY DEF IsRows

LEMMA OneMoreRow ==
  ASSUME NEW rows, IsRows(rows), NEW x
  PROVE  /\ IsRows(Append(rows, x))
         /\ Len(Append(rows, x)) = Len(rows) + 1
         /\ DOMAIN Append(rows, x) = 1..(Len(rows) + 1)
         /\ \A i \in 1..Len(rows) : Append(rows, x)[i] = rows[i]
         /\ Append(rows, x)[Len(rows) + 1] = x
<1>1. PICK S : rows \in Seq(S) BY DEF IsRows
<1>2. rows \in Seq(S \cup {x}) /\ x \in S \cup {x}
  <2>1. rows \in [1..Len(rows) -> S] /\ Len(rows) \in Nat BY <1>1
  <2>2. rows \in [1..Len(rows) -> S \cup {x}] BY <2>1
  <2> QED BY <2>1, <2>2
<1>3. Append(rows, x) \in Seq(S \cup {x}) BY <1>2
<1>4. IsRows(Append(rows, x)) BY <1>3 DEF IsRows
<1> QED BY <1>2, <1>3, <1>4

LEMMA NoRows == IsRows(<<>>) /\ Len(<<>>) = 0 /\ DOMAIN <<>> = {}
<1>1. <<>> \in Seq({}) OBVIOUS
<1> QED BY <1>1 DEF IsRows

LEMMA AsManyRows ==
  ASSUME NEW rows, IsRows(rows), NEW new, new = [j \in DOMAIN rows |-> new[j]]
  PROVE  IsRows(new) /\ Len(new) = Len(rows)
<1> DEFINE S == {new[j] : j \in DOMAIN rows}
<1>1. Len(rows) \in Nat /\ DOMAIN rows = 1..Len(rows) BY RowsHaveLength
<1>2. new \in [1..Len(rows) -> S] BY <1>1
<1> HIDE DEF S
<1>3. new \in Seq(S) BY <1>1, <1>2
<1>4. Len(new) = Len(rows) BY <1>1, <1>2, <1>3
<1> QED BY <1>3, <1>4 DEF IsRows

-----------------------------------------------------------------------------
(* The numbers.                                                            *)

LEMMA LeastOf ==
  ASSUME NEW a \in Nat, NEW b \in Nat
  PROVE  Min({a, b}) = IF a <= b THEN a ELSE b
<1> DEFINE m == IF a <= b THEN a ELSE b
<1>1. m \in {a, b} /\ \A y \in {a, b} : m <= y OBVIOUS
<1>2. \A x \in {a, b} : (\A y \in {a, b} : x <= y) => x = m OBVIOUS
<1> HIDE DEF m
<1>3. Min({a, b}) \in {a, b} /\ \A y \in {a, b} : Min({a, b}) <= y BY <1>1 DEF Min
<1> QED BY <1>2, <1>3 DEF m

LEMMA AtLeastOne == ASSUME NEW n \in Nat, n # 0 PROVE Max({n, 1}) = n
<1>1. n \in {n, 1} /\ \A y \in {n, 1} : n >= y OBVIOUS
<1>2. \A x \in {n, 1} : (\A y \in {n, 1} : x >= y) => x = n OBVIOUS
<1> QED BY <1>1, <1>2 DEF Max

\* Versions are 1 to the highest, and the next one follows it.
Versions(rows) == {rows[i].version : i \in DOMAIN rows}

LEMMA NextFollows ==
  ASSUME NEW rows, NEW k \in Nat, Versions(rows) = 1..k
  PROVE  NextVersion(rows) = k + 1
<1> DEFINE S == {0} \cup Versions(rows)
<1>1. S = 0..k OBVIOUS
<1>2. k \in 0..k /\ \A y \in 0..k : k >= y OBVIOUS
<1>3. \A x \in 0..k : (\A y \in 0..k : x >= y) => x = k OBVIOUS
<1>4. Max(0..k) = k BY <1>2, <1>3 DEF Max
<1>5. NextVersion(rows) = Max(S) + 1 BY DEF NextVersion, Versions
<1> HIDE DEF S
<1> QED BY <1>1, <1>4, <1>5

\* A nonempty set of positions has a last one: the first of its mirror image.
LEMMA Largest ==
  ASSUME NEW n \in Nat, NEW S, S \subseteq 1..n, S # {}
  PROVE  \E i \in S : \A j \in S : j <= i
<1> DEFINE flip(i) == n - i  mirror == {flip(i) : i \in S}
<1>1. \A i \in S : i \in Nat /\ flip(i) \in Nat /\ flip(i) \in mirror OBVIOUS
<1>2. mirror \subseteq Nat /\ mirror # {} BY <1>1
<1>3. \A x, y \in Nat : <<y, x>> \notin OpToRel(<, Nat) => x <= y BY DEF OpToRel
<1> HIDE DEF mirror
<1>4. PICK m \in mirror : \A y \in mirror : m <= y
  BY <1>2, <1>3, NatLessThanWellFounded, WFMin
<1>5. PICK i \in S : m = flip(i) BY DEF mirror
<1>6. \A j \in S : flip(i) <= flip(j) BY <1>1, <1>4, <1>5
<1> QED BY <1>1, <1>6

\* created_at: the latest of rows that started by now.
LEMMA LatestIsRow ==
  ASSUME NEW rows, IsRows(rows), \A i \in DOMAIN rows : rows[i].start \in 1..clock,
         clock \in Nat
  PROVE  Latest(rows) \in 0..Len(rows)
<1>1. CASE rows = <<>> BY <1>1, NoRows DEF Latest
<1>2. CASE rows # <<>>
  <2>1. Len(rows) \in Nat /\ DOMAIN rows = 1..Len(rows) BY RowsHaveLength
  <2>2. DOMAIN rows # {} BY <1>2 DEF IsRows
  <2> DEFINE starts == {rows[i].start : i \in DOMAIN rows}
  <2>3. starts \subseteq 1..clock /\ starts # {} BY <2>2
  <2>4. \E s \in starts : \A t \in starts : t <= s
    <3> HIDE DEF starts
    <3> QED BY <2>3, Largest
  <2>5. \E i \in DOMAIN rows : \A j \in DOMAIN rows : rows[j].start <= rows[i].start
    BY <2>4
  <2>6. Latest(rows) \in DOMAIN rows BY <1>2, <2>5 DEF Latest
  <2> QED BY <2>1, <2>6
<1> QED BY <1>1, <1>2

-----------------------------------------------------------------------------
(* The inductive invariant.                                                *)

\* A table: its rows started by c, and its versions are 1 to the highest.
Held(rows, c) ==
  /\ IsRows(rows) /\ \A i \in DOMAIN rows : rows[i].start \in 1..c
  /\ \E k \in Nat : Versions(rows) = 1..k

Tables == {"positioning", "offer", "messaging", "funnel"}

Table(kind) == CASE kind = "positioning" -> positionings
                 [] kind = "offer" -> offers
                 [] kind = "messaging" -> messages
                 [] OTHER -> funnels

TablesHold ==
  /\ clock \in Nat
  /\ \A kind \in Tables : Held(Table(kind), clock)
  /\ IsRows(decisions) /\ \A i \in DOMAIN decisions : decisions[i].start \in 1..clock

PositionHolds(row) ==
  /\ row = [version |-> row.version, start |-> row.start, ask |-> row.ask,
            refs |-> row.refs, score |-> row.score, cand |-> row.cand,
            status |-> row.status, selected |-> row.selected]
  /\ row.ask \in Positions /\ row.score = PositionScore(row.ask)
  /\ row.selected = "yes" => row.score >= 18 /\ row.ask.evidence # {}

OfferHolds(row) ==
  /\ row = [version |-> row.version, start |-> row.start, ask |-> row.ask,
            refs |-> row.refs, economics |-> row.economics, score |-> row.score,
            risks |-> row.risks, cand |-> row.cand, status |-> row.status,
            selected |-> row.selected]
  /\ row.ask \in Offers /\ row.score = OfferScore(row.ask, row.economics)
  /\ row.selected = "yes" => row.score >= 240

\* A row is selected for what its score says.
Scored == /\ \A i \in DOMAIN positionings : PositionHolds(positionings[i])
          /\ \A i \in DOMAIN offers : OfferHolds(offers[i])

\* The offer and the decision that a funnel is built on, 0 where there is none.
Within(in) == in.offer \in 0..Len(offers) /\ in.decision \in 0..Len(decisions)

FunnelHolds(row) ==
  /\ Within(row.input)
  /\ row.funnel.status = "recommended" =>
       LET in == row.input
       IN  /\ in.offer # 0 /\ ~offers[in.offer].ask.bundle
           /\ in.positioning # 0 \/ in.messaging # 0
           /\ in.decision # 0 => decisions[in.decision].status # "insufficient_data"
           /\ \E s \in Stages : row.funnel.stages[s] = "healthy"
           /\ \A to \in DOMAIN Steps : Transition(in.view.counts, to) # "likely"

FunnelsHold == \A i \in DOMAIN funnels : FunnelHolds(funnels[i])

\* What a request has in hand: the version it counted is at most the next one.
Carries(x) ==
  \/ x = Idle
  \/ /\ x = [step |-> x.step, kind |-> x.kind, input |-> x.input, start |-> x.start,
             fresh |-> x.fresh, version |-> x.version]
     /\ x.step \in {"read", "numbered"} /\ x.kind \in Tables \cup {"decision"}
     /\ x.start \in 1..clock
     /\ x.step = "numbered" => /\ x.kind \in Tables
                               /\ x.version \in 1..NextVersion(Table(x.kind))
     /\ x.kind = "positioning" => x.input.ask \in Positions
     /\ x.kind = "offer" => x.input.ask \in Offers
     /\ x.kind = "funnel" => Within(x.input)

Working == /\ work = [r \in Request |-> work[r]]
           /\ \A r \in Request : Carries(work[r])

IInv == TablesHold /\ Scored /\ FunnelsHold /\ Working

-----------------------------------------------------------------------------
(* What a table keeps when a row is added or restated.                     *)

Kept(rows, new, c) ==
  /\ IsRows(new) /\ Len(rows) <= Len(new)
  /\ \A i \in DOMAIN new : new[i].start \in 1..c
  /\ \E k, m \in Nat : k <= m /\ Versions(rows) = 1..k /\ Versions(new) = 1..m

LEMMA SameKept ==
  ASSUME NEW c \in Nat, NEW d \in Nat, c <= d, NEW rows, Held(rows, c)
  PROVE  Kept(rows, rows, d)
<1>1. Len(rows) <= Len(rows) BY RowsHaveLength DEF Held
<1>2. PICK k \in Nat : Versions(rows) = 1..k BY DEF Held
<1>3. \A i \in DOMAIN rows : rows[i].start \in 1..d BY DEF Held
<1>4. k <= k OBVIOUS
<1> QED BY <1>1, <1>2, <1>3, <1>4 DEF Held, Kept

LEMMA AppendKept ==
  ASSUME NEW c \in Nat, NEW d \in Nat, c <= d, NEW rows, Held(rows, c),
         NEW x, x.start \in 1..d, x.version \in 1..NextVersion(rows)
  PROVE  Kept(rows, Append(rows, x), d)
<1> DEFINE new == Append(rows, x)
<1>1. PICK k \in Nat : Versions(rows) = 1..k BY DEF Held
<1>2. /\ IsRows(new) /\ Len(new) = Len(rows) + 1 /\ DOMAIN new = 1..(Len(rows) + 1)
      /\ \A i \in 1..Len(rows) : new[i] = rows[i]
      /\ new[Len(rows) + 1] = x
  BY OneMoreRow DEF Held
<1>3. Len(rows) \in Nat /\ DOMAIN rows = 1..Len(rows) BY RowsHaveLength DEF Held
<1> HIDE DEF new
<1>4. DOMAIN new = DOMAIN rows \cup {Len(rows) + 1} BY <1>2, <1>3
<1>5. Versions(new) = Versions(rows) \cup {x.version}
  BY <1>2, <1>3, <1>4 DEF Versions
<1>6. x.version \in 1..(k + 1) BY <1>1, NextFollows
<1>7. \E m \in Nat : k <= m /\ Versions(new) = 1..m
  <2>1. CASE x.version = k + 1 BY <2>1, <1>1, <1>5, 1..(k + 1) = 1..k \cup {k + 1}
  <2>2. CASE x.version # k + 1
    <3>1. Versions(new) = 1..k BY <2>2, <1>1, <1>5, <1>6
    <3> QED BY <3>1
  <2> QED BY <2>1, <2>2
<1>8. \A i \in DOMAIN new : new[i].start \in 1..d BY <1>2, <1>3, <1>4 DEF Held
<1>9. Len(rows) <= Len(new) BY <1>2, <1>3
<1> QED BY <1>1, <1>2, <1>7, <1>8, <1>9 DEF Kept, new

LEMMA RestatedKept ==
  ASSUME NEW c \in Nat, NEW rows, Held(rows, c), NEW i \in DOMAIN rows, NEW x,
         x.version = rows[i].version, x.start = rows[i].start,
         NEW new, new = [rows EXCEPT ![i] = x]
  PROVE  Kept(rows, new, c)
<1>1. /\ IsRows(new) /\ Len(new) = Len(rows) /\ DOMAIN new = DOMAIN rows
      /\ new[i] = x /\ \A j \in DOMAIN rows \ {i} : new[j] = rows[j]
  <2>1. IsRows(rows) BY DEF Held
  <2>2. DOMAIN new = DOMAIN rows /\ new = [j \in DOMAIN rows |-> new[j]] OBVIOUS
  <2>3. new[i] = x /\ \A j \in DOMAIN rows \ {i} : new[j] = rows[j] OBVIOUS
  <2>4. IsRows(new) /\ Len(new) = Len(rows) BY <2>1, <2>2, AsManyRows
  <2> QED BY <2>2, <2>3, <2>4
<1>2. Versions(new) = Versions(rows) BY <1>1 DEF Versions
<1>3. \A j \in DOMAIN new : new[j].start \in 1..c BY <1>1 DEF Held
<1>4. Len(rows) <= Len(new) BY <1>1, RowsHaveLength DEF Held
<1>5. PICK k \in Nat : Versions(rows) = 1..k BY DEF Held
<1>6. k <= k OBVIOUS
<1> QED BY <1>1, <1>2, <1>3, <1>4, <1>5, <1>6 DEF Kept

LEMMA KeptHolds ==
  ASSUME NEW rows, NEW new, NEW c, Kept(rows, new, c)
  PROVE  /\ Held(new, c)
         /\ NextVersion(rows) \in Nat /\ NextVersion(new) \in Nat
         /\ NextVersion(rows) <= NextVersion(new)
<1>1. PICK k \in Nat, m \in Nat : k <= m /\ Versions(rows) = 1..k /\ Versions(new) = 1..m
  BY DEF Kept
<1>2. NextVersion(rows) = k + 1 /\ NextVersion(new) = m + 1 BY <1>1, NextFollows
<1> QED BY <1>1, <1>2 DEF Kept, Held
-----------------------------------------------------------------------------
(* Rows are added, restated, never deleted.                                *)

Extends ==
  /\ clock' \in Nat /\ clock <= clock'
  /\ \A kind \in Tables : Kept(Table(kind), Table(kind)', clock')
  /\ IsRows(decisions') /\ Len(decisions) <= Len(decisions')
  /\ \A i \in DOMAIN decisions' : decisions'[i].start \in 1..clock'
  /\ \A i \in 1..Len(decisions) : decisions'[i].status = decisions[i].status
  /\ \A i \in 1..Len(offers) : offers'[i].ask = offers[i].ask

LEMMA TablesStay == Extends => TablesHold'
<1> SUFFICES ASSUME Extends PROVE TablesHold' OBVIOUS
<1>1. ASSUME NEW kind \in Tables PROVE Held(Table(kind)', clock')
  <2>1. Kept(Table(kind), Table(kind)', clock') BY DEF Extends
  <2> QED BY <2>1, KeptHolds
<1> QED BY <1>1 DEF Extends, TablesHold

LEMMA LongerOffers ==
  ASSUME TablesHold, Extends
  PROVE  /\ Len(offers) \in Nat /\ Len(offers') \in Nat /\ Len(offers) <= Len(offers')
         /\ Len(decisions) \in Nat /\ Len(decisions') \in Nat
<1>1. "offer" \in Tables /\ Table("offer") = offers /\ Table("offer")' = offers'
  BY DEF Tables, Table
<1>2. Kept(offers, offers', clock') /\ Held(offers, clock)
  BY <1>1 DEF Extends, TablesHold
<1> QED BY <1>2, RowsHaveLength DEF Kept, Held, Extends, TablesHold

LEMMA WithinStays ==
  ASSUME TablesHold, Extends, NEW in, Within(in) PROVE Within(in)'
BY LongerOffers DEF Within, Extends

LEMMA FunnelStay ==
  ASSUME TablesHold, Extends, NEW row, FunnelHolds(row) PROVE FunnelHolds(row)'
<1> DEFINE in == row.input
<1>1. Within(in) BY DEF FunnelHolds
<1>2. Within(in)' BY <1>1, WithinStays
<1>3. in.offer # 0 => offers'[in.offer].ask = offers[in.offer].ask
  BY <1>1, LongerOffers DEF Within, Extends
<1>4. in.decision # 0 => decisions'[in.decision].status = decisions[in.decision].status
  BY <1>1, LongerOffers DEF Within, Extends
<1> QED BY <1>1, <1>2, <1>3, <1>4 DEF FunnelHolds

LEMMA StillCarries ==
  ASSUME TablesHold, Extends, NEW x, Carries(x) PROVE Carries(x)'
<1>1. CASE x = Idle BY <1>1 DEF Carries
<1>2. CASE x # Idle
  <2>1. x.start \in 1..clock' BY <1>2 DEF Carries, Extends, TablesHold
  <2>2. ASSUME x.step = "numbered"
        PROVE  x.kind \in Tables /\ x.version \in 1..NextVersion(Table(x.kind)')
    <3>1. x.kind \in Tables /\ x.version \in 1..NextVersion(Table(x.kind))
      BY <1>2, <2>2 DEF Carries
    <3>2. Kept(Table(x.kind), Table(x.kind)', clock') BY <3>1 DEF Extends
    <3>3. /\ NextVersion(Table(x.kind)) \in Nat /\ NextVersion(Table(x.kind)') \in Nat
          /\ NextVersion(Table(x.kind)) <= NextVersion(Table(x.kind)')
      BY <3>2, KeptHolds
    <3> QED BY <3>1, <3>3
  <2>3. x.kind = "funnel" => Within(x.input)' BY <1>2, WithinStays DEF Carries
  <2> QED BY <1>2, <2>1, <2>2, <2>3 DEF Carries
<1> QED BY <1>1, <1>2

LEMMA OthersWork ==
  ASSUME TablesHold, Extends, Working, NEW r \in Request, NEW x,
         work' = [work EXCEPT ![r] = x], Carries(x)'
  PROVE  Working'
<1>1. work' = [q \in Request |-> work'[q]] /\ work'[r] = x BY DEF Working
<1>2. ASSUME NEW q \in Request PROVE Carries(work[q])'
  <2>1. PICK y : y = work'[q] OBVIOUS
  <2>2. Carries(y)'
    <3>1. CASE q = r BY <3>1, <1>1, <2>1
    <3>2. CASE q # r
      <4>1. y = work[q] BY <2>1, <3>2 DEF Working
      <4>2. Carries(y) BY <4>1 DEF Working
      <4> QED BY <4>2, StillCarries
    <3> QED BY <3>1, <3>2
  <2> QED BY <2>1, <2>2 DEF Carries
<1> QED BY <1>1, <1>2 DEF Working

LEMMA WorkStays ==
  ASSUME TablesHold, Extends, Working, UNCHANGED work PROVE Working'
<1>1. ASSUME NEW q \in Request PROVE Carries(work[q])'
  <2>1. PICK y : y = work[q] OBVIOUS
  <2>2. Carries(y)' BY <2>1, StillCarries DEF Working
  <2> QED BY <2>1, <2>2 DEF Carries
<1> QED BY <1>1 DEF Working

\* The tables as they are.
LEMMA NothingAdded ==
  ASSUME TablesHold, clock' \in Nat, clock <= clock',
         UNCHANGED <<positionings, offers, decisions, messages, funnels>>
  PROVE  Extends
<1>1. ASSUME NEW kind \in Tables PROVE Kept(Table(kind), Table(kind)', clock')
  <2>1. Table(kind)' = Table(kind) BY DEF Table
  <2>2. Held(Table(kind), clock) /\ clock \in Nat BY DEF TablesHold
  <2> QED BY <2>1, <2>2, SameKept
<1>2. Len(decisions) <= Len(decisions') BY RowsHaveLength DEF TablesHold
<1>3. \A i \in DOMAIN decisions' : decisions'[i].start \in 1..clock' BY DEF TablesHold
<1> QED BY <1>1, <1>2, <1>3 DEF Extends, TablesHold
-----------------------------------------------------------------------------
(* The steps.                                                              *)

LEMMA Start == Init => IInv
<1> SUFFICES ASSUME Init PROVE IInv OBVIOUS
<1>1. /\ positionings = <<>> /\ offers = <<>> /\ decisions = <<>>
      /\ messages = <<>> /\ funnels = <<>> /\ clock = 0
      /\ work = [r \in Request |-> Idle]
  BY DEF Init
<1>2. Held(<<>>, 0)
  <2>1. Versions(<<>>) = {} BY NoRows DEF Versions
  <2>2. 1..0 = {} OBVIOUS
  <2> QED BY <2>1, <2>2, NoRows DEF Held
<1>3. TablesHold
  <2>1. \A kind \in Tables : Table(kind) = <<>> BY <1>1 DEF Table
  <2> QED BY <1>1, <1>2, <2>1, NoRows DEF TablesHold
<1>4. Scored /\ FunnelsHold BY <1>1, NoRows DEF Scored, FunnelsHold
<1>5. Working BY <1>1 DEF Working, Carries
<1> QED BY <1>3, <1>4, <1>5 DEF IInv

LEMMA ScoredStays ==
  ASSUME Scored, UNCHANGED candidates PROVE Scored'
BY DEF Scored, PositionHolds, OfferHolds, candidates

LEMMA FunnelsStay ==
  ASSUME TablesHold, Extends, FunnelsHold, UNCHANGED funnels PROVE FunnelsHold'
<1>1. ASSUME NEW i \in DOMAIN funnels' PROVE FunnelHolds(funnels[i])'
  <2>1. PICK row : row = funnels[i] OBVIOUS
  <2>2. FunnelHolds(row) BY <1>1, <2>1 DEF FunnelsHold
  <2>3. FunnelHolds(row)' BY <2>2, FunnelStay
  <2> QED BY <2>1, <2>3 DEF FunnelHolds
<1> QED BY <1>1 DEF FunnelsHold

\* A request begins with what it read.
Reading(job) ==
  /\ job = [step |-> job.step, kind |-> job.kind, input |-> job.input,
            start |-> job.start, fresh |-> job.fresh, version |-> job.version]
  /\ job.step = "read" /\ job.start = clock + 1
  /\ job.kind \in Tables \cup {"decision"}
  /\ job.kind = "positioning" => job.input.ask \in Positions
  /\ job.kind = "offer" => job.input.ask \in Offers
  /\ job.kind = "funnel" => Within(job.input)

LEMMA BeginStep ==
  ASSUME IInv, NEW r \in Request, NEW job, Reading(job), Begin(r, job),
         UNCHANGED <<candidates, decisions, messages, funnels>>
  PROVE  IInv'
<1>1. clock \in Nat /\ clock' = clock + 1 /\ work' = [work EXCEPT ![r] = job]
  BY DEF Begin, IInv, TablesHold
<1>2. Extends BY <1>1, NothingAdded DEF IInv, candidates
<1>3. Carries(job)'
  <2>1. job.start \in 1..clock' BY <1>1 DEF Reading
  <2>2. job.kind = "funnel" => Within(job.input)'
    BY <1>2, WithinStays DEF Reading, IInv
  <2> QED BY <2>1, <2>2 DEF Carries, Reading
<1>4. Working' BY <1>1, <1>2, <1>3, OthersWork DEF IInv
<1>5. Scored' BY ScoredStays DEF IInv
<1>6. FunnelsHold' BY <1>2, FunnelsStay DEF IInv
<1>7. TablesHold' BY <1>2, TablesStay
<1> QED BY <1>4, <1>5, <1>6, <1>7 DEF IInv

LEMMA ReadsStep ==
  ASSUME IInv, NEW r \in Request, Reads(r) PROVE IInv'
<1> USE DEF Tables
<1>1. UNCHANGED <<candidates, decisions, messages, funnels>> BY DEF Reads
<1>2. CASE \E ask \in Positions : Read(r, "positioning", ask)
  <2>1. PICK ask \in Positions : Read(r, "positioning", ask) BY <1>2
  <2>2. PICK job : /\ job = [Job("positioning", [ask |-> ask, refs |-> Links(ask.evidence)])
                              EXCEPT !.fresh = IF Snapshotted THEN "no" ELSE "yes"]
                   /\ Begin(r, job)
    BY <2>1 DEF Read
  <2>3. Reading(job) BY <2>2 DEF Job, Reading
  <2> QED BY <1>1, <2>2, <2>3, BeginStep
<1>3. CASE \E ask \in Offers : Read(r, "offer", ask)
  <2>1. PICK ask \in Offers : Read(r, "offer", ask) BY <1>3
  <2>2. PICK job : /\ job = [Job("offer", [ask |-> ask, refs |-> Links(ask.evidence)])
                              EXCEPT !.fresh = IF Snapshotted THEN "no" ELSE "yes"]
                   /\ Begin(r, job)
    BY <2>1 DEF Read
  <2>3. Reading(job) BY <2>2 DEF Job, Reading
  <2> QED BY <1>1, <2>2, <2>3, BeginStep
<1>4. ASSUME NEW kind, NEW i, ReadDecision(r, kind, i) PROVE IInv'
  <2>1. PICK input : Begin(r, Job("decision", input)) BY <1>4 DEF ReadDecision
  <2>2. PICK job : job = Job("decision", input) /\ Begin(r, job) BY <2>1
  <2>3. Reading(job) BY <2>2 DEF Job, Reading
  <2> QED BY <1>1, <2>2, <2>3, BeginStep
<1>5. CASE ReadMessaging(r)
  <2>1. PICK job : job = Job("messaging", Inputs) /\ Begin(r, job)
    BY <1>5 DEF ReadMessaging
  <2>2. Reading(job) BY <2>1 DEF Job, Reading
  <2> QED BY <1>1, <2>1, <2>2, BeginStep
<1>6. CASE \E v \in Variants : ReadFunnel(r, v)
  <2>1. PICK v \in Variants : ReadFunnel(r, v) BY <1>6
  <2>2. PICK input :
          /\ Begin(r, Job("funnel", input))
          /\ input.offer = Latest(offers) /\ input.decision = Latest(decisions)
    BY <2>1 DEF ReadFunnel
  <2>3. PICK job : job = Job("funnel", input) /\ Begin(r, job) BY <2>2
  <2>4. Within(input)
    <3>1. "offer" \in Tables /\ Table("offer") = offers BY DEF Table
    <3>2. /\ clock \in Nat /\ Held(offers, clock) /\ IsRows(decisions)
          /\ \A i \in DOMAIN decisions : decisions[i].start \in 1..clock
      BY <3>1 DEF IInv, TablesHold
    <3> QED BY <2>2, <3>2, LatestIsRow DEF Held, Within
  <2>5. Reading(job) BY <2>3, <2>4 DEF Job, Reading
  <2> QED BY <1>1, <2>3, <2>5, BeginStep
<1> QED BY <1>2, <1>3, <1>4, <1>5, <1>6 DEF Reads

LEMMA NumberStep ==
  ASSUME IInv, NEW r \in Request, NEW kind \in Tables,
         Number(r, kind, Table(kind)),
         UNCHANGED <<candidates, decisions, messages, funnels>>
  PROVE  IInv'
<1>1. PICK x : x = work[r] OBVIOUS
<1>2. Carries(x) /\ x.step = "read" /\ x.kind = kind
  BY <1>1 DEF Number, IInv, Working
<1>3. x # Idle BY <1>2 DEF Idle
<1>4. /\ clock \in Nat /\ clock' \in Nat /\ clock <= clock'
      /\ clock' = clock \/ clock' = clock + 1
  BY DEF Number, IInv, TablesHold
<1>5. Extends BY <1>4, NothingAdded DEF IInv, candidates
<1>6. PICK y :
        /\ y = [x EXCEPT !.step = "numbered", !.version = NextVersion(Table(kind)),
                         !.start = IF x.fresh = "yes" THEN clock' ELSE @]
        /\ work' = [work EXCEPT ![r] = y]
  BY <1>1 DEF Number
<1>7. /\ x = [step |-> x.step, kind |-> x.kind, input |-> x.input, start |-> x.start,
              fresh |-> x.fresh, version |-> x.version]
      /\ x.start \in 1..clock
      /\ x.kind = "positioning" => x.input.ask \in Positions
      /\ x.kind = "offer" => x.input.ask \in Offers
      /\ x.kind = "funnel" => Within(x.input)
  BY <1>2, <1>3 DEF Carries
<1>8. y = [step |-> "numbered", kind |-> kind, input |-> x.input,
           start |-> IF x.fresh = "yes" THEN clock' ELSE x.start,
           fresh |-> x.fresh, version |-> NextVersion(Table(kind))]
  BY <1>2, <1>6, <1>7
<1>9. y.start \in 1..clock'
  <2>1. x.fresh = "yes" => clock' = clock + 1 BY <1>1 DEF Number
  <2> QED BY <1>4, <1>7, <1>8, <2>1
<1>10. y.version \in 1..NextVersion(Table(kind)')
  <2>1. Kept(Table(kind), Table(kind)', clock') BY <1>5 DEF Extends
  <2>2. PICK k \in Nat : Versions(Table(kind)) = 1..k BY <2>1 DEF Kept
  <2>3. NextVersion(Table(kind)) = k + 1 BY <2>2, NextFollows
  <2>4. NextVersion(Table(kind)') \in Nat
        /\ NextVersion(Table(kind)) <= NextVersion(Table(kind)')
    BY <2>1, KeptHolds
  <2> QED BY <1>8, <2>3, <2>4
<1>11. x.kind = "funnel" => Within(x.input)' BY <1>5, <1>7, WithinStays DEF IInv
<1>12. Carries(y)' BY <1>2, <1>7, <1>8, <1>9, <1>10, <1>11 DEF Carries
<1>13. Working' BY <1>5, <1>6, <1>12, OthersWork DEF IInv
<1>14. Scored' BY ScoredStays DEF IInv
<1>15. FunnelsHold' BY <1>5, FunnelsStay DEF IInv
<1>16. TablesHold' BY <1>5, TablesStay
<1> QED BY <1>13, <1>14, <1>15, <1>16 DEF IInv

\* A request that commits puts a row of its version into its table.
Adds(r, kind, x) ==
  /\ x.version = work[r].version /\ x.start = work[r].start
  /\ Table(kind)' = Append(Table(kind), x)
  /\ \A other \in Tables \ {kind} : Table(other)' = Table(other)
  /\ UNCHANGED <<decisions, clock>>

LEMMA AddExtends ==
  ASSUME IInv, NEW r \in Request, NEW kind \in Tables, NEW x, Adds(r, kind, x),
         Finish(r, kind)
  PROVE  Extends /\ Working'
<1>1. PICK y : y = work[r] OBVIOUS
<1>2. Carries(y) /\ y.step = "numbered" /\ y.kind = kind
  BY <1>1 DEF Finish, IInv, Working
<1>3. y # Idle BY <1>2 DEF Idle
<1>4. y.start \in 1..clock /\ y.version \in 1..NextVersion(Table(kind))
  BY <1>2, <1>3 DEF Carries
<1>5. clock \in Nat /\ clock' = clock /\ clock <= clock BY DEF Adds, IInv, TablesHold
<1>6. ASSUME NEW other \in Tables PROVE Kept(Table(other), Table(other)', clock')
  <2>1. Held(Table(other), clock) BY DEF IInv, TablesHold
  <2>2. CASE other = kind
    <3>1. x.start \in 1..clock /\ x.version \in 1..NextVersion(Table(kind))
      BY <1>1, <1>4 DEF Adds
    <3>2. Kept(Table(kind), Append(Table(kind), x), clock)
      BY <1>5, <2>1, <2>2, <3>1, AppendKept
    <3> QED BY <1>5, <2>2, <3>2 DEF Adds
  <2>3. CASE other # kind
    <3>1. Table(other)' = Table(other) BY <2>3 DEF Adds
    <3> QED BY <1>5, <2>1, <3>1, SameKept
  <2> QED BY <2>2, <2>3
<1>7. \A i \in 1..Len(offers) : offers'[i].ask = offers[i].ask
  <2>1. "offer" \in Tables /\ Table("offer") = offers /\ Table("offer")' = offers'
    BY DEF Tables, Table
  <2>2. IsRows(offers) BY <2>1 DEF IInv, TablesHold, Held
  <2>3. CASE kind = "offer" BY <2>1, <2>2, <2>3, OneMoreRow DEF Adds
  <2>4. CASE kind # "offer"
    <3>1. offers' = offers BY <2>1, <2>4 DEF Adds
    <3> QED BY <3>1
  <2> QED BY <2>3, <2>4
<1>8. Extends
  <2>1. IsRows(decisions) /\ \A i \in DOMAIN decisions : decisions[i].start \in 1..clock
    BY DEF IInv, TablesHold
  <2>2. Len(decisions) <= Len(decisions) BY <2>1, RowsHaveLength
  <2>3. decisions' = decisions BY DEF Adds
  <2> QED BY <1>5, <1>6, <1>7, <2>1, <2>2, <2>3 DEF Extends
<1>9. PICK z : z = Idle /\ work' = [work EXCEPT ![r] = z] BY DEF Finish
<1>10. Carries(z)' BY <1>9 DEF Carries
<1> QED BY <1>8, <1>9, <1>10, OthersWork DEF IInv

LEMMA CreatePositionStep ==
  ASSUME IInv, NEW r \in Request, CreatePosition(r), UNCHANGED <<messages, funnels>>
  PROVE  IInv'
<1> DEFINE ask == work[r].input.ask
<1>1. PICK x :
        /\ x = [version |-> work[r].version, start |-> work[r].start, ask |-> ask,
                refs |-> work[r].input.refs, score |-> PositionScore(ask),
                cand |-> "draft", status |-> "draft", selected |-> "no"]
        /\ positionings' = Append(positionings, x)
  BY DEF CreatePosition
<1>2. Finish(r, "positioning") /\ UNCHANGED <<offers, decisions, clock, messages, funnels>>
  BY DEF CreatePosition
<1>3. Adds(r, "positioning", x) BY <1>1, <1>2 DEF Adds, Table, Tables
<1>4. Extends /\ Working' BY <1>2, <1>3, AddExtends DEF Tables
<1>5. PositionHolds(x)
  <2>1. PICK y : y = work[r] OBVIOUS
  <2>2. Carries(y) /\ y.step = "numbered" /\ y.kind = "positioning"
    BY <1>2, <2>1 DEF Finish, IInv, Working
  <2>3. ask \in Positions BY <2>1, <2>2 DEF Carries, Idle
  <2> QED BY <1>1, <2>3 DEF PositionHolds
<1>6. Scored'
  <2>1. IsRows(positionings)
    BY "positioning" \in Tables, Table("positioning") = positionings
       DEF IInv, TablesHold, Held, Tables, Table
  <2>2. \A i \in DOMAIN positionings : PositionHolds(positionings[i]) BY DEF IInv, Scored
  <2>3. ASSUME NEW i \in DOMAIN positionings' PROVE PositionHolds(positionings'[i])
    BY <1>1, <1>5, <2>1, <2>2, OneMoreRow, RowsHaveLength
  <2> QED BY <1>2, <2>3 DEF IInv, Scored, PositionHolds, OfferHolds
<1>7. FunnelsHold' BY <1>2, <1>4, FunnelsStay DEF IInv
<1>8. TablesHold' BY <1>4, TablesStay
<1> QED BY <1>4, <1>6, <1>7, <1>8 DEF IInv

LEMMA CreateOfferStep ==
  ASSUME IInv, NEW r \in Request, CreateOffer(r), UNCHANGED <<messages, funnels>>
  PROVE  IInv'
<1> DEFINE ask == work[r].input.ask
           economics == OfferEconomics(ask)
<1>1. PICK x :
        /\ x = [version |-> work[r].version, start |-> work[r].start, ask |-> ask,
                refs |-> work[r].input.refs, economics |-> economics,
                score |-> OfferScore(ask, economics),
                risks |-> OfferRisks(ask, economics),
                cand |-> "draft", status |-> "draft", selected |-> "no"]
        /\ offers' = Append(offers, x)
  BY DEF CreateOffer
<1>2. Finish(r, "offer") /\ UNCHANGED <<positionings, decisions, clock, messages, funnels>>
  BY DEF CreateOffer
<1>3. Adds(r, "offer", x) BY <1>1, <1>2 DEF Adds, Table, Tables
<1>4. Extends /\ Working' BY <1>2, <1>3, AddExtends DEF Tables
<1>5. OfferHolds(x)
  <2>1. PICK y : y = work[r] OBVIOUS
  <2>2. Carries(y) /\ y.step = "numbered" /\ y.kind = "offer"
    BY <1>2, <2>1 DEF Finish, IInv, Working
  <2>3. ask \in Offers BY <2>1, <2>2 DEF Carries, Idle
  <2> QED BY <1>1, <2>3 DEF OfferHolds
<1>6. Scored'
  <2>1. IsRows(offers)
    BY "offer" \in Tables, Table("offer") = offers DEF IInv, TablesHold, Held, Tables, Table
  <2>2. \A i \in DOMAIN offers : OfferHolds(offers[i]) BY DEF IInv, Scored
  <2>3. ASSUME NEW i \in DOMAIN offers' PROVE OfferHolds(offers'[i])
    BY <1>1, <1>5, <2>1, <2>2, OneMoreRow, RowsHaveLength
  <2> QED BY <1>2, <2>3 DEF IInv, Scored, PositionHolds, OfferHolds
<1>7. FunnelsHold' BY <1>2, <1>4, FunnelsStay DEF IInv
<1>8. TablesHold' BY <1>4, TablesStay
<1> QED BY <1>4, <1>6, <1>7, <1>8 DEF IInv

LEMMA CommitDecisionStep ==
  ASSUME IInv, NEW r \in Request, CommitDecision(r), UNCHANGED <<messages, funnels>>
  PROVE  IInv'
<1>1. PICK x : decisions' = Append(decisions, x) /\ x.start = work[r].start
  BY DEF CommitDecision
<1>2. /\ work[r].step = "read"
      /\ UNCHANGED <<positionings, offers, clock, messages, funnels>>
  BY DEF CommitDecision
<1>3. x.start \in 1..clock
  <2>1. PICK y : y = work[r] OBVIOUS
  <2>2. Carries(y) /\ y # Idle BY <1>2, <2>1 DEF IInv, Working, Idle
  <2> QED BY <1>1, <2>1, <2>2 DEF Carries
<1>4. clock \in Nat /\ clock <= clock BY DEF IInv, TablesHold
<1>5. IsRows(decisions) /\ \A i \in DOMAIN decisions : decisions[i].start \in 1..clock
  BY DEF IInv, TablesHold
<1>6. Extends
  <2>1. ASSUME NEW kind \in Tables PROVE Kept(Table(kind), Table(kind)', clock')
    <3>1. Table(kind)' = Table(kind) BY <1>2 DEF Table
    <3>2. Held(Table(kind), clock) BY DEF IInv, TablesHold
    <3> QED BY <1>2, <1>4, <3>1, <3>2, SameKept
  <2>2. Len(decisions) \in Nat /\ DOMAIN decisions = 1..Len(decisions)
    BY <1>5, RowsHaveLength
  <2>3. /\ IsRows(decisions') /\ Len(decisions') = Len(decisions) + 1
        /\ DOMAIN decisions' = 1..(Len(decisions) + 1)
        /\ \A i \in 1..Len(decisions) : decisions'[i] = decisions[i]
        /\ decisions'[Len(decisions) + 1] = x
    BY <1>1, <1>5, OneMoreRow
  <2>4. \A i \in DOMAIN decisions' : decisions'[i].start \in 1..clock
    BY <1>3, <1>5, <2>2, <2>3
  <2>5. Len(decisions) <= Len(decisions') BY <2>2, <2>3
  <2> QED BY <1>2, <1>4, <2>1, <2>3, <2>4, <2>5 DEF Extends
<1>7. Working'
  <2>1. PICK z : z = Idle /\ work' = [work EXCEPT ![r] = z] BY DEF CommitDecision
  <2>2. Carries(z)' BY <2>1 DEF Carries
  <2> QED BY <1>6, <2>1, <2>2, OthersWork DEF IInv
<1>8. Scored' BY <1>2, ScoredStays DEF IInv, candidates
<1>9. FunnelsHold' BY <1>2, <1>6, FunnelsStay DEF IInv
<1>10. TablesHold' BY <1>6, TablesStay
<1> QED BY <1>7, <1>8, <1>9, <1>10 DEF IInv

LEMMA CommitMessagingStep ==
  ASSUME IInv, NEW r \in Request, CommitMessaging(r) PROVE IInv'
<1>1. PICK x : /\ x.version = work[r].version /\ x.start = work[r].start
               /\ messages' = Append(messages, x)
  BY DEF CommitMessaging
<1>2. /\ Finish(r, "messaging")
      /\ UNCHANGED <<positionings, offers, decisions, clock, funnels>>
  BY DEF CommitMessaging, candidates
<1>3. Adds(r, "messaging", x) BY <1>1, <1>2 DEF Adds, Table, Tables
<1>4. Extends /\ Working' BY <1>2, <1>3, AddExtends DEF Tables
<1>5. Scored' BY <1>2, ScoredStays DEF IInv, candidates
<1>6. FunnelsHold' BY <1>2, <1>4, FunnelsStay DEF IInv
<1>7. TablesHold' BY <1>4, TablesStay
<1> QED BY <1>4, <1>5, <1>6, <1>7 DEF IInv

\* Three quarters of the weight are out of reach without a healthy stage.
LEMMA HealthyStage ==
  ASSUME NEW statuses, statuses = [s \in Stages |-> statuses[s]],
         ScoreAtLeast(statuses, 3), \E s \in Stages : Weight(statuses[s]) # 0
  PROVE  \E s \in Stages : statuses[s] = "healthy"
<1> SUFFICES ASSUME \A s \in Stages : statuses[s] # "healthy" PROVE FALSE OBVIOUS
<1> DEFINE w == [s \in Stages |-> Weight(statuses[s])]
<1>1. \A s \in Stages : w[s] \in 0..2 BY DEF Weight
<1>2. ASSUME NEW n \in 0..2 PROVE n * n <= 2 * n
  <2>1. n = 0 \/ n = 1 \/ n = 2 OBVIOUS
  <2> QED BY <2>1
<1>3. PICK a, b, c, d : /\ a = w["awareness"] /\ b = w["interest"]
                        /\ c = w["consideration"] /\ d = w["purchase"]
  OBVIOUS
<1>4. a * a + b * b + c * c + d * d >= 3 * (a + b + c + d)
  BY <1>3 DEF ScoreAtLeast, Stages
<1>5. a # 0 \/ b # 0 \/ c # 0 \/ d # 0 BY <1>3 DEF Stages
<1>6. a \in 0..2 /\ b \in 0..2 /\ c \in 0..2 /\ d \in 0..2
  BY <1>1, <1>3 DEF Stages
<1> HIDE DEF w
<1>7. /\ a * a \in Int /\ b * b \in Int /\ c * c \in Int /\ d * d \in Int
      /\ a * a <= 2 * a /\ b * b <= 2 * b /\ c * c <= 2 * c /\ d * d <= 2 * d
  BY <1>2, <1>6
<1> DEFINE p == a * a  q == b * b  u == c * c  v == d * d
<1>8. p + q + u + v >= 3 * (a + b + c + d) BY <1>4
<1>9. /\ p \in Int /\ q \in Int /\ u \in Int /\ v \in Int
      /\ p <= 2 * a /\ q <= 2 * b /\ u <= 2 * c /\ v <= 2 * d
  BY <1>7
<1> HIDE DEF p, q, u, v
<1> QED BY <1>5, <1>6, <1>8, <1>9

\* What the gaps of a recommended funnel leave open.
LEMMA RecommendedHolds ==
  ASSUME TablesHold, NEW row, row = [input |-> row.input, version |-> row.version,
                         start |-> row.start, funnel |-> FunnelOf(row.input)],
         Within(row.input)
  PROVE  FunnelHolds(row)
<1> DEFINE in == row.input
           statuses == [s \in Stages |-> StageStatus(in.view, s)]
           gaps == IF in.variant = "lead_generation" THEN {} ELSE Gaps(in, in.view)
<1> SUFFICES ASSUME row.funnel.status = "recommended"
             PROVE  /\ in.offer # 0 /\ ~offers[in.offer].ask.bundle
                    /\ in.positioning # 0 \/ in.messaging # 0
                    /\ in.decision # 0 =>
                         decisions[in.decision].status # "insufficient_data"
                    /\ \E s \in Stages : row.funnel.stages[s] = "healthy"
                    /\ \A to \in DOMAIN Steps : Transition(in.view.counts, to) # "likely"
  BY DEF FunnelHolds
<1>1. row.funnel.stages = statuses /\ FunnelStatus(in, gaps, statuses) = "recommended"
  BY DEF FunnelOf
<1>2. /\ in.variant # "lead_generation" /\ gaps \subseteq {"low", "info"}
      /\ \E s \in Stages : Weight(statuses[s]) # 0
      /\ ScoreAtLeast(statuses, 3)
  <2> DEFINE known == \E s \in Stages : Weight(statuses[s]) # 0
             lead == in.variant = "lead_generation"
  <2> HIDE DEF statuses, gaps, in
  <2>1. ~lead
    <3>1. lead => Supported(in) = FALSE BY DEF Supported
    <3> QED BY <1>1, <3>1 DEF FunnelStatus
  <2>2. Supported(in) BY <1>1, <2>1 DEF FunnelStatus
  <2>3. known BY <1>1, <2>1, <2>2 DEF FunnelStatus
  <2>4. ScoreAtLeast(statuses, 3) /\ gaps \subseteq {"low", "info"}
    BY <1>1, <2>1, <2>2, <2>3 DEF FunnelStatus
  <2> QED BY <2>1, <2>3, <2>4
<1>3. \E s \in Stages : statuses[s] = "healthy"
  <2>1. statuses = [s \in Stages |-> statuses[s]] OBVIOUS
  <2> HIDE DEF statuses
  <2> QED BY <1>2, <2>1, HealthyStage
<1>4. Gaps(in, in.view) \subseteq {"low", "info"} BY <1>2
<1>5. /\ ~(in.positioning = 0 /\ in.messaging = 0)
      /\ ~(in.decision # 0 /\ decisions[Max({in.decision, 1})].status = "insufficient_data")
      /\ ~(\E to \in DOMAIN Steps : Transition(in.view.counts, to) = "likely")
      /\ ~(in.offer = 0 \/ offers[Max({in.offer, 1})].ask.bundle)
  BY <1>4 DEF Gaps
<1>6. in.offer \in Nat /\ in.decision \in Nat
  <2>1. "offer" \in Tables /\ Table("offer") = offers BY DEF Tables, Table
  <2>2. IsRows(offers) /\ IsRows(decisions) BY <2>1 DEF TablesHold, Held
  <2> QED BY <2>2, RowsHaveLength DEF Within
<1>7. in.offer # 0 /\ Max({in.offer, 1}) = in.offer BY <1>5, <1>6, AtLeastOne
<1>8. in.decision # 0 => Max({in.decision, 1}) = in.decision BY <1>6, AtLeastOne
<1> QED BY <1>1, <1>3, <1>5, <1>7, <1>8

LEMMA CommitFunnelStep ==
  ASSUME IInv, NEW r \in Request, CommitFunnel(r) PROVE IInv'
<1>1. PICK x : /\ x = [input |-> work[r].input, version |-> work[r].version,
                       start |-> work[r].start, funnel |-> FunnelOf(work[r].input)]
               /\ funnels' = Append(funnels, x)
  BY DEF CommitFunnel
<1>2. /\ Finish(r, "funnel")
      /\ UNCHANGED <<positionings, offers, decisions, clock, messages>>
  BY DEF CommitFunnel, candidates
<1>3. Adds(r, "funnel", x) BY <1>1, <1>2 DEF Adds, Table, Tables
<1>4. Extends /\ Working' BY <1>2, <1>3, AddExtends DEF Tables
<1>5. Scored' BY <1>2, ScoredStays DEF IInv, candidates
<1>6. FunnelHolds(x)'
  <2>1. PICK y : y = work[r] OBVIOUS
  <2>2. Carries(y) /\ y.step = "numbered" /\ y.kind = "funnel"
    BY <1>2, <2>1 DEF Finish, IInv, Working
  <2>3. Within(x.input) BY <1>1, <2>1, <2>2 DEF Carries, Idle
  <2>4. x = [input |-> x.input, version |-> x.version, start |-> x.start,
             funnel |-> FunnelOf(x.input)]
    BY <1>1
  <2>5. FunnelHolds(x) BY <2>3, <2>4, RecommendedHolds DEF IInv
  <2> QED BY <1>4, <2>5, FunnelStay DEF IInv
<1>7. FunnelsHold'
  <2>1. IsRows(funnels)
    BY "funnel" \in Tables, Table("funnel") = funnels
    DEF IInv, TablesHold, Held, Tables, Table
  <2>2. ASSUME NEW i \in DOMAIN funnels' PROVE FunnelHolds(funnels[i])'
    <3>1. PICK row : row = funnels'[i] OBVIOUS
    <3>2. FunnelHolds(row)'
      <4>1. CASE row = x BY <1>6, <4>1
      <4>2. CASE row # x
        <5>1. i \in DOMAIN funnels /\ row = funnels[i]
          BY <1>1, <2>1, <3>1, <4>2, OneMoreRow, RowsHaveLength
        <5>2. FunnelHolds(row) BY <5>1 DEF IInv, FunnelsHold
        <5> QED BY <1>4, <5>2, FunnelStay DEF IInv
      <4> QED BY <4>1, <4>2
    <3> QED BY <3>1, <3>2 DEF FunnelHolds
  <2> QED BY <2>2 DEF FunnelsHold
<1>8. TablesHold' BY <1>4, TablesStay
<1> QED BY <1>4, <1>5, <1>7, <1>8 DEF IInv

\* A restated row keeps what it was asked, its version and its start.
LEMMA RestateExtends ==
  ASSUME IInv, NEW kind \in {"positioning", "offer"}, NEW i \in DOMAIN Table(kind),
         NEW x, x.version = Table(kind)[i].version, x.start = Table(kind)[i].start,
         x.ask = Table(kind)[i].ask, Table(kind)' = [Table(kind) EXCEPT ![i] = x],
         \A other \in Tables \ {kind} : Table(other)' = Table(other),
         UNCHANGED <<decisions, clock>>
  PROVE  Extends
<1>1. clock \in Nat /\ clock' = clock /\ clock <= clock BY DEF IInv, TablesHold
<1>2. ASSUME NEW other \in Tables PROVE Kept(Table(other), Table(other)', clock')
  <2>1. Held(Table(other), clock) BY DEF IInv, TablesHold
  <2>2. CASE other = kind
    <3>1. PICK new : new = Table(kind)' OBVIOUS
    <3>2. Kept(Table(kind), new, clock) BY <1>1, <2>1, <2>2, <3>1, RestatedKept
    <3> QED BY <1>1, <2>2, <3>1, <3>2
  <2>3. CASE other # kind BY <1>1, <2>1, <2>3, SameKept
  <2> QED BY <2>2, <2>3
<1>3. \A j \in 1..Len(offers) : offers'[j].ask = offers[j].ask
  <2>1. "offer" \in Tables /\ Table("offer") = offers /\ Table("offer")' = offers'
    BY DEF Tables, Table
  <2>2. CASE kind = "offer"
    <3>1. offers' = [offers EXCEPT ![i] = x] /\ x.ask = offers[i].ask BY <2>1, <2>2
    <3>2. DOMAIN offers = 1..Len(offers)
      BY <2>1, RowsHaveLength DEF IInv, TablesHold, Held
    <3> QED BY <3>1, <3>2
  <2>3. CASE kind # "offer"
    <3>1. offers' = offers BY <2>1, <2>3
    <3> QED BY <3>1
  <2> QED BY <2>2, <2>3
<1>4. IsRows(decisions) /\ \A j \in DOMAIN decisions : decisions[j].start \in 1..clock
  BY DEF IInv, TablesHold
<1>5. Len(decisions) <= Len(decisions) BY <1>4, RowsHaveLength
<1> QED BY <1>1, <1>2, <1>3, <1>4, <1>5 DEF Extends

LEMMA RecommendPositionStep ==
  ASSUME IInv, RecommendPosition,
         UNCHANGED <<offers, decisions, work, clock, messages, funnels>>
  PROVE  IInv'
<1>1. PICK i, row, x :
        /\ i \in Newest(positionings)
        /\ row = positionings[i]
        /\ x = IF row.score >= 18 /\ row.ask.evidence # {}
               THEN [row EXCEPT !.cand = "recommended", !.status = "recommended",
                                !.selected = "yes"]
               ELSE [row EXCEPT !.status = "insufficient_data", !.selected = "no"]
        /\ positionings' = [positionings EXCEPT ![i] = x]
  BY DEF RecommendPosition
<1>2. i \in DOMAIN positionings BY <1>1 DEF Newest
<1>3. PositionHolds(row) BY <1>1, <1>2 DEF IInv, Scored
<1>4. /\ PositionHolds(x)
      /\ x.version = row.version /\ x.start = row.start /\ x.ask = row.ask
  <2>1. CASE row.score >= 18 /\ row.ask.evidence # {}
    BY <1>1, <1>3, <2>1 DEF PositionHolds
  <2>2. CASE ~(row.score >= 18 /\ row.ask.evidence # {})
    BY <1>1, <1>3, <2>2 DEF PositionHolds
  <2> QED BY <2>1, <2>2
<1>5. Extends
  <2>1. Table("positioning") = positionings /\ Table("positioning")' = positionings'
    BY DEF Table
  <2>2. \A other \in Tables \ {"positioning"} : Table(other)' = Table(other)
    BY DEF Tables, Table
  <2>3. UNCHANGED <<decisions, clock>> OBVIOUS
  <2>4. /\ i \in DOMAIN Table("positioning")
        /\ x.version = Table("positioning")[i].version
        /\ x.start = Table("positioning")[i].start /\ x.ask = Table("positioning")[i].ask
        /\ Table("positioning")' = [Table("positioning") EXCEPT ![i] = x]
    BY <1>1, <1>2, <1>4, <2>1
  <2> QED BY <2>2, <2>3, <2>4, RestateExtends
<1>6. Scored' BY <1>1, <1>2, <1>4 DEF IInv, Scored, PositionHolds, OfferHolds
<1>7. Working' BY <1>5, WorkStays DEF IInv
<1>8. FunnelsHold' BY <1>5, FunnelsStay DEF IInv
<1>9. TablesHold' BY <1>5, TablesStay
<1> QED BY <1>6, <1>7, <1>8, <1>9 DEF IInv

LEMMA RestateOffer ==
  ASSUME IInv, NEW i \in DOMAIN offers, NEW x, OfferHolds(x),
         x.version = offers[i].version, x.start = offers[i].start,
         x.ask = offers[i].ask, offers' = [offers EXCEPT ![i] = x],
         UNCHANGED <<positionings, decisions, work, clock, messages, funnels>>
  PROVE  IInv'
<1>1. Extends
  <2>1. Table("offer") = offers /\ Table("offer")' = offers' BY DEF Table
  <2>2. \A other \in Tables \ {"offer"} : Table(other)' = Table(other)
    BY DEF Tables, Table
  <2> QED BY <2>1, <2>2, RestateExtends
<1>2. Scored' BY DEF IInv, Scored, PositionHolds, OfferHolds
<1>3. Working' BY <1>1, WorkStays DEF IInv
<1>4. FunnelsHold' BY <1>1, FunnelsStay DEF IInv
<1>5. TablesHold' BY <1>1, TablesStay
<1> QED BY <1>2, <1>3, <1>4, <1>5 DEF IInv

LEMMA RecommendOfferStep ==
  ASSUME IInv, RecommendOffer,
         UNCHANGED <<positionings, decisions, work, clock, messages, funnels>>
  PROVE  IInv'
<1>1. PICK i, row, x :
        /\ i \in Newest(offers)
        /\ row = offers[i]
        /\ \/ /\ row.score >= 240
              /\ x = [row EXCEPT !.cand = "recommended", !.status = "recommended",
                                 !.selected = "yes"]
           \/ \E status : x = [row EXCEPT !.selected = "no", !.status = status]
        /\ offers' = [offers EXCEPT ![i] = x]
  <2>1. PICK i \in Newest(offers) :
          LET row == offers[i]
              free == row.cand \in {"validated", "draft"}
              ok == free /\ row.score >= 240 /\ "missing_price" \notin row.risks
          IN  offers' = [offers EXCEPT ![i] =
                IF ok THEN [row EXCEPT !.cand = "recommended",
                                !.status = "recommended", !.selected = "yes"]
                ELSE [row EXCEPT !.selected = "no",
                        !.status = IF free THEN "invalid" ELSE "insufficient_data"]]
    BY DEF RecommendOffer
  <2> QED BY <2>1
<1>2. i \in DOMAIN offers BY <1>1 DEF Newest
<1>3. OfferHolds(row) BY <1>1, <1>2 DEF IInv, Scored
<1>4. /\ OfferHolds(x)
      /\ x.version = row.version /\ x.start = row.start /\ x.ask = row.ask
  BY <1>1, <1>3 DEF OfferHolds
<1> QED BY <1>1, <1>2, <1>4, RestateOffer

LEMMA ValidateOfferStep ==
  ASSUME IInv, NEW i \in DOMAIN offers, ValidateOffer(i),
         UNCHANGED <<positionings, decisions, work, clock, messages, funnels>>
  PROVE  IInv'
<1>1. PICK row, verdict, x :
        /\ row = offers[i] /\ x = [row EXCEPT !.cand = verdict, !.status = verdict]
        /\ offers' = [offers EXCEPT ![i] = x]
  BY DEF ValidateOffer
<1>2. OfferHolds(row) BY <1>1 DEF IInv, Scored
<1>3. /\ OfferHolds(x)
      /\ x.version = row.version /\ x.start = row.start /\ x.ask = row.ask
  BY <1>1, <1>2 DEF OfferHolds
<1> QED BY <1>1, <1>3, RestateOffer

LEMMA StillStep ==
  ASSUME IInv, UNCHANGED <<positionings, offers, decisions, work, clock, messages, funnels>>
  PROVE  IInv'
<1>1. clock' \in Nat /\ clock <= clock' BY DEF IInv, TablesHold
<1>2. Extends BY <1>1, NothingAdded DEF IInv
<1>3. Scored' BY ScoredStays DEF IInv, candidates
<1>4. Working' BY <1>2, WorkStays DEF IInv
<1>5. FunnelsHold' BY <1>2, FunnelsStay DEF IInv
<1>6. TablesHold' BY <1>2, TablesStay
<1> QED BY <1>3, <1>4, <1>5, <1>6 DEF IInv

LEMMA Step == IInv /\ [Next]_vars => IInv'
<1> SUFFICES ASSUME IInv, [Next]_vars PROVE IInv' OBVIOUS
<1>1. CASE UNCHANGED vars BY <1>1, StillStep DEF vars, candidates
<1>2. ASSUME NEW r \in Request, Reads(r) PROVE IInv' BY <1>2, ReadsStep
<1>3. ASSUME NEW r \in Request, Numbers(r) PROVE IInv'
  <2>1. UNCHANGED <<candidates, decisions, messages, funnels>> BY <1>3 DEF Numbers
  <2>2. PICK kind \in Tables : Number(r, kind, Table(kind))
    BY <1>3 DEF Numbers, Tables, Table
  <2> QED BY <2>1, <2>2, NumberStep
<1>4. ASSUME NEW r \in Request, Commits(r) PROVE IInv'
  BY <1>4, CreatePositionStep, CreateOfferStep, CommitDecisionStep,
     CommitMessagingStep, CommitFunnelStep DEF Commits
<1>5. CASE Reviews
  BY <1>5, RecommendPositionStep, RecommendOfferStep, ValidateOfferStep DEF Reviews
<1>6. CASE Moves
  BY <1>6, StillStep DEF Moves, candidates
<1> QED BY <1>1, <1>2, <1>3, <1>4, <1>5, <1>6 DEF Next

THEOREM Invariance == Spec => []IInv
BY Start, Step, PTL DEF Spec

-----------------------------------------------------------------------------
(* The theorems.                                                           *)

\* NextVersion counts from the highest version there is, under requests that
\* overlap: whatever they commit and in which order, no version is skipped.
THEOREM VersionsFollow == Spec => []NoVersionSkipped
<1>1. IInv => NoVersionSkipped
  <2> SUFFICES ASSUME IInv, NEW rows \in {positionings, offers, messages, funnels}
               PROVE  Versions(rows) = 1..(NextVersion(rows) - 1)
    BY DEF NoVersionSkipped, Versions
  <2>1. PICK kind \in Tables : rows = Table(kind) BY DEF Tables, Table
  <2>2. Held(rows, clock) BY <2>1 DEF IInv, TablesHold
  <2>3. PICK k \in Nat : Versions(rows) = 1..k BY <2>2 DEF Held
  <2>4. NextVersion(rows) - 1 = k BY <2>3, NextFollows
  <2> QED BY <2>3, <2>4
<1> QED BY <1>1, Invariance, PTL

LEMMA PositionEarns ==
  ASSUME NEW ask \in Positions, PositionScore(ask) >= 18, ask.evidence # {}
  PROVE  /\ Cardinality(ask.evidence) >= 2
         /\ \/ Kinds(ask.evidence) \intersect (CustomerKinds \union EdgeKinds) # {}
            \/ /\ Cardinality(ask.evidence) >= 3
               /\ ask.fields \intersect {"solution", "differentiator"} # {}
<1> DEFINE n == Cardinality(ask.evidence)
           customer == Kinds(ask.evidence) \intersect CustomerKinds # {}
           edge == Kinds(ask.evidence) \intersect EdgeKinds # {}
           solution == {"solution", "differentiator"} \intersect ask.fields # {}
<1>1. IsFiniteSet(ask.evidence) OBVIOUS
<1>2. n \in Nat /\ n # 0 BY <1>1, FS_CardinalityType, FS_EmptySet
<1>3. Third(n) = IF n <= 3 THEN n ELSE 3 BY <1>2, LeastOf DEF Third
<1>4. ~(n = 1 /\ customer /\ edge)
  <2> SUFFICES ASSUME n = 1, customer, edge PROVE FALSE OBVIOUS
  <2>1. PICK e : ask.evidence = {e} BY <1>1, FS_Singleton
  <2>2. Kinds(ask.evidence) = {KindOf[e]} BY <2>1 DEF Kinds
  <2>3. CustomerKinds \intersect EdgeKinds = {} BY DEF CustomerKinds, EdgeKinds
  <2> QED BY <2>2, <2>3
<1>5. PositionScore(ask) = 4 * Third(n) + (IF customer THEN 6 ELSE 0)
                             + (IF edge THEN 6 ELSE 0) + (IF solution THEN 6 ELSE 0)
  BY DEF PositionScore, Points
<1> HIDE DEF n, customer, edge, solution
<1>6. n >= 2 /\ (customer \/ edge \/ (n >= 3 /\ solution))
  BY <1>2, <1>3, <1>4, <1>5
<1> QED BY <1>6 DEF n, customer, edge, solution

LEMMA OfferEarns ==
  ASSUME NEW ask \in Offers, NEW economics, OfferScore(ask, economics) >= 240
  PROVE  Pays(economics)
<1> SUFFICES ASSUME ~Pays(economics) PROVE FALSE OBVIOUS
<1> DEFINE n == Cardinality(ask.evidence)
           worth == IF ask.evidence = {} THEN 0 ELSE <<33, 66, 100>>[Third(n)]
           stock == IF economics.stock > 0 THEN 100 ELSE 0
<1>1. worth \in 0..100
  <2>1. CASE ask.evidence = {} BY <2>1
  <2>2. CASE ask.evidence # {}
    <3>1. IsFiniteSet(ask.evidence) OBVIOUS
    <3>2. n \in Nat /\ n # 0 BY <2>2, <3>1, FS_CardinalityType, FS_EmptySet
    <3>3. Third(n) = IF n <= 3 THEN n ELSE 3 BY <3>2, LeastOf DEF Third
    <3> HIDE DEF n
    <3>4. Third(n) \in {1, 2, 3} BY <3>2, <3>3
    <3> QED BY <2>2, <3>4
  <2> QED BY <2>1, <2>2
<1>2. OfferScore(ask, economics) = 0 + stock + worth BY DEF OfferScore, Points
<1>3. stock \in {0, 100} OBVIOUS
<1> HIDE DEF worth, stock
<1> QED BY <1>1, <1>2, <1>3

\* recommend_positioning and recommend_offer select by the score alone; it is
\* high enough only for a position with evidence behind it and for an offer that
\* earns money, in whatever order requests create, validate and recommend.
THEOREM SelectionsAreEarned == Spec => []SelectionIsEarned
<1>1. IInv => SelectionIsEarned
  <2> SUFFICES ASSUME IInv PROVE SelectionIsEarned OBVIOUS
  <2>1. RecommendedHasEvidence
    BY PositionEarns DEF IInv, Scored, PositionHolds, RecommendedHasEvidence
  <2>2. SelectedOfferPays
    BY OfferEarns DEF IInv, Scored, OfferHolds, SelectedOfferPays
  <2> QED BY <2>1, <2>2 DEF SelectionIsEarned
<1> QED BY <1>1, Invariance, PTL

\* A funnel that _funnel_status recommends leads to a sale by the rows that its
\* request had read, and still does whatever the candidates become.
THEOREM FunnelsLead == Spec => []RecommendedFunnelLeadsToSale
<1>1. IInv => RecommendedFunnelLeadsToSale
  BY DEF IInv, FunnelsHold, FunnelHolds, RecommendedFunnelLeadsToSale
<1> QED BY <1>1, Invariance, PTL

-----------------------------------------------------------------------------
(* Planning: forecasts, and the invariant of their rows and requests.      *)

LEMMA SameNotions ==
  ASSUME NEW S
  PROVE  Sim!Cardinality(S) = Cardinality(S)
BY DEF Sim!Cardinality, Cardinality

\* A model was scored on what the holdout left it.
ScoredOnEnough(f) ==
  f.status = "current" /\ f.metric # "contribution_profit" =>
    f.obs >= Least.backtest /\ f.obs - Sim!Holdout(f.obs) >= Sim!Needs(f.model)

Entry(f) ==
  f.scope \in Sim!Scope /\ f.metric \in Sim!MetricCode /\ f.cutoff \in Int /\ ScoredOnEnough(f)

\* The forecasts of a request, each of a metric of its own.
Entries(left) ==
  /\ \E n \in Nat : left = [i \in 1 .. n |-> left[i]]
  /\ \A i \in DOMAIN left : Entry(left[i])
  /\ \A i, j \in DOMAIN left : left[i].metric = left[j].metric => i = j

Owned(f, number, metric) ==
  Sim!Unnamed(f.key.scope) /\ f.key.number = number /\ f.key.metric = metric

\* The row a request stored last is there, a row of the business as it stored it.
Stored(x, table) ==
  \E f \in table : /\ f.key = x.row
                   /\ Sim!Unnamed(x.left[1].scope) => f.expected = x.left[1].expected

\* A request, one of n: its forecasts have no row yet, but for the first one.
ForecastJob(x, table, n) ==
  /\ x = [left |-> x.left, row |-> x.row, number |-> x.number]
  /\ x.number \in 1 .. n
  /\ Entries(x.left) /\ x.left # <<>>
  /\ \/ /\ x.row = NA
        /\ \A f \in table, i \in DOMAIN x.left : ~Owned(f, x.number, x.left[i].metric)
     \/ /\ x.row = Sim!RowKey(x.left[1], x.number)
        /\ \A f \in table : \A i \in DOMAIN x.left \ {1} :
             ~Owned(f, x.number, x.left[i].metric)
        /\ Stored(x, table)

ForecastRow(f, n) ==
  /\ f = [key |-> f.key, status |-> f.status, obs |-> f.obs, expected |-> f.expected,
          model |-> f.model, points |-> f.points]
  /\ f.key \in Sim!Key
  /\ Sim!Unnamed(f.key.scope) => f.key.number \in 1 .. n
  /\ f.status = "current" /\ f.key.metric # "contribution_profit" =>
       /\ f.obs >= Least.backtest
       /\ Sim!Unnamed(f.key.scope) => f.obs - Sim!Holdout(f.obs) >= Sim!Needs(f.model)
  /\ Sim!Unnamed(f.key.scope) /\ Sim!Known(f.points) => f.points = f.expected

Apart(jobs) ==
  \A r, q \in Forecaster :
    jobs[r] # Sim!Idle /\ jobs[q] # Sim!Idle /\ jobs[r].number = jobs[q].number => r = q

ForecastInv ==
  /\ pending = [r \in Forecaster |-> pending[r]]
  /\ begun \in Nat /\ today \in Int
  /\ \A r \in Forecaster : pending[r] # Sim!Idle => ForecastJob(pending[r], forecasts, begun)
  /\ Apart(pending)
  /\ \A f \in forecasts : ForecastRow(f, begun)
  /\ \A f, g \in forecasts : f.key = g.key => f = g

-----------------------------------------------------------------------------
(* The contest leaves a model its minimum.                                 *)

LEMMA SmallerIs ==
  ASSUME NEW a \in Int, NEW b \in Int
  PROVE  Sim!Min({a, b}) \in {a, b} /\ Sim!Min({a, b}) <= a /\ Sim!Min({a, b}) <= b
<1>1. \E x \in {a, b} : \A y \in {a, b} : x <= y OBVIOUS
<1> QED BY <1>1 DEF Sim!Min

LEMMA LargerIs ==
  ASSUME NEW a \in Int, NEW b \in Int
  PROVE  Sim!Max({a, b}) \in {a, b} /\ Sim!Max({a, b}) >= a /\ Sim!Max({a, b}) >= b
<1>1. \E x \in {a, b} : \A y \in {a, b} : x >= y OBVIOUS
<1> QED BY <1>1 DEF Sim!Max

LEMMA HoldoutIsLess ==
  ASSUME Sim!ForecastAssumption, NEW n \in Nat, n >= Least.backtest
  PROVE  Sim!Holdout(n) \in Int /\ Sim!Holdout(n) <= n - 1
<1> DEFINE few == Sim!Min({Least.maxHoldout, (n * 3) \div 10})
           some == Sim!Max({Least.holdout, few})
<1>1. /\ Least.maxHoldout \in Int /\ Least.holdout \in Int /\ Least.backtest \in Int
      /\ (n * 3) \div 10 \in Int
  BY DEF Sim!ForecastAssumption
<1>2. few \in Int BY <1>1, SmallerIs
<1> HIDE DEF few
<1>3. some \in Int BY <1>1, <1>2, LargerIs
<1>4. Sim!Holdout(n) = Sim!Min({some, n - 1}) BY <1>1 DEF Sim!Holdout, few
<1> HIDE DEF some
<1>5. n - 1 \in Int OBVIOUS
<1>6. /\ Sim!Min({some, n - 1}) \in {some, n - 1}
      /\ Sim!Min({some, n - 1}) <= n - 1
  BY <1>3, <1>5, SmallerIs
<1> QED BY <1>3, <1>4, <1>5, <1>6

LEMMA DaysAreFew ==
  ASSUME Sim!ForecastAssumption, today \in Int, NEW s, NEW metric
  PROVE  Sim!Cardinality(Sim!Observed(s, metric)) \in Nat
<1>1. Sim!Observed(s, metric) \subseteq FirstDay .. (today - 1)
  BY DEF Sim!Observed, Sim!TrainingDays, Sim!AdDays, Sim!SoldDays
<1>2. IsFiniteSet(FirstDay .. (today - 1))
  <2>1. FirstDay \in Int BY DEF Sim!ForecastAssumption
  <2>2. today - 1 \in Int OBVIOUS
  <2> QED BY <2>1, <2>2, FS_Interval
<1> QED BY <1>1, <1>2, FS_Subset, SameNotions, FS_CardinalityType

LEMMA CandidatesAreScored ==
  ASSUME Sim!ForecastAssumption, NEW n \in Nat, Sim!Candidates(n) # {}
  PROVE  /\ n >= Least.backtest
         /\ \A m \in Sim!Candidates(n) \cup {"naive"} : n - Sim!Holdout(n) >= Sim!Needs(m)
<1>1. Sim!Holdout(n) # 0 BY DEF Sim!Candidates
<1>2. n >= Least.backtest BY <1>1 DEF Sim!ForecastAssumption, Sim!Holdout
<1>3. n - Sim!Holdout(n) >= Sim!Needs("naive") BY <1>2, HoldoutIsLess DEF Sim!Needs
<1> QED BY <1>1, <1>2, <1>3 DEF Sim!Candidates

LEMMA RefusedIs ==
  ASSUME NEW s, NEW metric, NEW reason
  PROVE  LET f == Sim!Refused(s, metric, reason)
         IN  /\ f.scope = s /\ f.metric = metric /\ f.cutoff = today - 1
             /\ f.status = reason /\ f.obs = Sim!Cardinality(Sim!Observed(s, metric))
BY DEF Sim!Refused

LEMMA PredictedIs ==
  ASSUME NEW s, NEW metric, NEW m, NEW expected
  PROVE  LET f == Sim!Predicted(s, metric, m, expected)
         IN  /\ f.scope = s /\ f.metric = metric /\ f.cutoff = today - 1
             /\ f.model = m /\ f.obs = Sim!Cardinality(Sim!Observed(s, metric))
BY DEF Sim!Predicted, Sim!Refused

LEMMA ForecastIsEntry ==
  ASSUME Sim!ForecastAssumption, today \in Int, NEW s \in Sim!Scope,
         NEW metric \in Sim!MetricCode, NEW favourite
  PROVE  /\ Entry(Sim!MetricForecast(s, metric, favourite))
         /\ Sim!MetricForecast(s, metric, favourite).metric = metric
<1> DEFINE n == Sim!Cardinality(Sim!Observed(s, metric))
           f == Sim!MetricForecast(s, metric, favourite)
<1>1. n \in Nat BY DaysAreFew
<1>2. \/ f = Sim!Refused(s, metric, "insufficient_data")
      \/ /\ Sim!Candidates(n) # {}
         /\ \E m \in Sim!Candidates(n) \cup {"naive"} :
               \E expected : f = Sim!Predicted(s, metric, m, expected)
  BY DEF Sim!MetricForecast
<1> HIDE DEF f
<1>3. f.scope = s /\ f.metric = metric /\ f.cutoff \in Int
  BY <1>2, RefusedIs, PredictedIs
<1>4. ASSUME f = Sim!Refused(s, metric, "insufficient_data") PROVE Entry(f)
  <2>1. f.status = "insufficient_data" BY <1>4, RefusedIs
  <2>2. ScoredOnEnough(f) BY <2>1 DEF ScoredOnEnough
  <2> QED BY <1>3, <2>2 DEF Entry
<1>5. ASSUME Sim!Candidates(n) # {}, NEW m \in Sim!Candidates(n) \cup {"naive"},
             NEW expected,
             f = Sim!Predicted(s, metric, m, expected)
      PROVE  Entry(f)
  <2>1. f.model = m /\ f.obs = n BY <1>5, PredictedIs
  <2>2. n >= Least.backtest /\ n - Sim!Holdout(n) >= Sim!Needs(m)
    BY <1>1, <1>5, CandidatesAreScored
  <2> HIDE DEF n
  <2> QED BY <1>3, <2>1, <2>2 DEF Entry, ScoredOnEnough
<1> QED BY <1>2, <1>3, <1>4, <1>5 DEF f

LEMMA ProfitIsEntry ==
  ASSUME Sim!ForecastAssumption, NEW revenue, NEW purchases, revenue.cutoff \in Int,
         revenue.scope \in Sim!Scope
  PROVE  /\ Entry(Sim!ProfitForecast(revenue, purchases))
         /\ Sim!ProfitForecast(revenue, purchases).metric = "contribution_profit"
<1> DEFINE f == Sim!ProfitForecast(revenue, purchases)
<1>1. f.scope = revenue.scope /\ f.metric = "contribution_profit" /\ f.cutoff = revenue.cutoff
  BY DEF Sim!ProfitForecast, Sim!Refused
<1> QED BY <1>1 DEF Entry, ScoredOnEnough, Sim!MetricCode

-----------------------------------------------------------------------------
(* What a request is about to store.                                       *)

LEMMA PassIsEntries ==
  ASSUME Sim!ForecastAssumption, today \in Int, NEW s \in Sim!Scope,
         NEW pass \in Sim!Passes(s)
  PROVE  Entries(pass)
<1>1. PICK m \in Sim!Model :
        pass = IF Sim!OfCampaign(s) THEN Sim!CampaignPass(s, m) ELSE Sim!BusinessPass(s, m)
  BY DEF Sim!Passes
<1> DEFINE f(metric) == Sim!MetricForecast(s, metric, m)
<1>2. \A metric \in Sim!MetricCode : Entry(f(metric)) /\ f(metric).metric = metric
  BY ForecastIsEntry
<1>3. CASE ~Sim!OfCampaign(s)
  <2> DEFINE profit == Sim!ProfitForecast(f("revenue"), f("purchases"))
  <2>1. pass = <<f("revenue"), f("spend"), f("purchases"), profit>>
    BY <1>1, <1>3 DEF Sim!BusinessPass
  <2>2. f("revenue").cutoff \in Int /\ f("revenue").scope \in Sim!Scope
    BY <1>2 DEF Entry, Sim!MetricCode
  <2>3. Entry(profit) /\ profit.metric = "contribution_profit" BY <2>2, ProfitIsEntry
  <2> HIDE DEF f, profit
  <2>4. /\ f("revenue").metric = "revenue" /\ f("spend").metric = "spend"
        /\ f("purchases").metric = "purchases"
        /\ Entry(f("revenue")) /\ Entry(f("spend")) /\ Entry(f("purchases"))
    BY <1>2 DEF Sim!MetricCode
  <2>5. DOMAIN pass = 1 .. 4 /\ pass = [i \in 1 .. 4 |-> pass[i]] BY <2>1
  <2>6. /\ pass[1] = f("revenue") /\ pass[2] = f("spend") /\ pass[3] = f("purchases")
        /\ pass[4] = profit
    BY <2>1
  <2>7. \A i \in DOMAIN pass : i = 1 \/ i = 2 \/ i = 3 \/ i = 4 BY <2>5
  <2>8. \A i \in DOMAIN pass : Entry(pass[i]) BY <2>3, <2>4, <2>6, <2>7
  <2>9. \A i, j \in DOMAIN pass : pass[i].metric = pass[j].metric => i = j
    BY <2>3, <2>4, <2>6, <2>7
  <2> QED BY <2>5, <2>8, <2>9 DEF Entries
<1>4. CASE Sim!OfCampaign(s)
  <2>1. \/ pass = <<f("spend"), f("purchases")>>
        \/ pass = <<f("spend"), f("purchases"), f("revenue")>>
    BY <1>1, <1>4 DEF Sim!CampaignPass
  <2> HIDE DEF f
  <2>2. /\ f("revenue").metric = "revenue" /\ f("spend").metric = "spend"
        /\ f("purchases").metric = "purchases"
        /\ Entry(f("revenue")) /\ Entry(f("spend")) /\ Entry(f("purchases"))
    BY <1>2 DEF Sim!MetricCode
  <2>3. CASE pass = <<f("spend"), f("purchases")>>
    <3>1. DOMAIN pass = 1 .. 2 /\ pass = [i \in 1 .. 2 |-> pass[i]] BY <2>3
    <3>2. pass[1] = f("spend") /\ pass[2] = f("purchases") BY <2>3
    <3>3. \A i \in DOMAIN pass : i = 1 \/ i = 2 BY <3>1
    <3> QED BY <2>2, <3>1, <3>2, <3>3 DEF Entries
  <2>4. CASE pass = <<f("spend"), f("purchases"), f("revenue")>>
    <3>1. DOMAIN pass = 1 .. 3 /\ pass = [i \in 1 .. 3 |-> pass[i]] BY <2>4
    <3>2. pass[1] = f("spend") /\ pass[2] = f("purchases") /\ pass[3] = f("revenue")
      BY <2>4
    <3>3. \A i \in DOMAIN pass : i = 1 \/ i = 2 \/ i = 3 BY <3>1
    <3> QED BY <2>2, <3>1, <3>2, <3>3 DEF Entries
  <2> QED BY <2>1, <2>3, <2>4
<1> QED BY <1>3, <1>4

LEMMA WantedIsEntries ==
  ASSUME NEW pass, Entries(pass), NEW metric
  PROVE  Entries(Sim!Wanted(pass, metric))
<1> DEFINE asked == {i \in DOMAIN pass : pass[i].metric = metric}
<1>1. CASE ~Sim!Known(metric) BY <1>1 DEF Sim!Wanted
<1>2. CASE Sim!Known(metric) /\ asked = {}
  <2> DEFINE none == <<>>
  <2>1. Sim!Wanted(pass, metric) = none BY <1>2 DEF Sim!Wanted
  <2>2. none = [i \in 1 .. 0 |-> none[i]] /\ DOMAIN none = {} OBVIOUS
  <2> HIDE DEF none
  <2>3. Entries(none) BY <2>2 DEF Entries
  <2> QED BY <2>1, <2>3
<1>3. CASE Sim!Known(metric) /\ asked # {}
  <2>1. PICK i \in DOMAIN pass : Sim!Wanted(pass, metric) = <<pass[i]>>
    BY <1>3 DEF Sim!Wanted
  <2> DEFINE one == <<pass[i]>>
  <2>2. DOMAIN one = 1 .. 1 /\ one[1] = pass[i] /\ one = [k \in 1 .. 1 |-> one[k]] OBVIOUS
  <2>3. Entry(pass[i]) BY DEF Entries
  <2> HIDE DEF one
  <2>4. \A k \in DOMAIN one : k = 1 BY <2>2
  <2>5. Entries(one) BY <2>2, <2>3, <2>4 DEF Entries
  <2> QED BY <2>1, <2>5 DEF one
<1> QED BY <1>1, <1>2, <1>3

LEMMA RestIsEntries ==
  ASSUME NEW left, Entries(left), left # <<>>
  PROVE  LET rest == SubSeq(left, 2, Len(left))
         IN  /\ Entries(rest) /\ Head(left) = left[1] /\ 1 \in DOMAIN left
             /\ \A i \in DOMAIN rest : i + 1 \in DOMAIN left \ {1} /\ rest[i] = left[i + 1]
<1> DEFINE rest == SubSeq(left, 2, Len(left))
<1>1. PICK n \in Nat : left = [i \in 1 .. n |-> left[i]] BY DEF Entries
<1>2. DOMAIN left = 1 .. n /\ Len(left) = n BY <1>1
<1>3. n # 0 BY <1>1
<1>4. Head(left) = left[1] /\ 1 \in DOMAIN left BY <1>2, <1>3
<1>5. DOMAIN rest = 1 .. (n - 1) /\ \A i \in 1 .. (n - 1) : rest[i] = left[i + 1]
  BY <1>1, <1>2, <1>3
<1>6. n - 1 \in Nat /\ rest = [i \in 1 .. (n - 1) |-> rest[i]] BY <1>2, <1>3, <1>5
<1>7. \A i \in DOMAIN rest : i + 1 \in DOMAIN left \ {1} /\ rest[i] = left[i + 1]
  BY <1>2, <1>3, <1>5
<1> HIDE DEF rest
<1>8. \A i \in DOMAIN rest : Entry(rest[i]) BY <1>7 DEF Entries
<1>9. \A i, j \in DOMAIN rest : rest[i].metric = rest[j].metric => i = j
  <2> SUFFICES ASSUME NEW i \in DOMAIN rest, NEW j \in DOMAIN rest,
                      rest[i].metric = rest[j].metric
               PROVE  i = j
    OBVIOUS
  <2>0. /\ i + 1 \in DOMAIN left /\ j + 1 \in DOMAIN left
        /\ left[i + 1].metric = left[j + 1].metric
    BY <1>7
  <2>1. i + 1 = j + 1 BY <2>0 DEF Entries
  <2>2. i \in Int /\ j \in Int BY <1>5
  <2> QED BY <2>1, <2>2
<1>10. Entries(rest) BY <1>6, <1>8, <1>9 DEF Entries
<1> QED BY <1>4, <1>7, <1>10 DEF rest

-----------------------------------------------------------------------------
(* Requests.                                                               *)

LEMMA IdleIs == Sim!Idle.left = <<>> /\ Sim!Idle.row = NA
BY DEF Sim!Idle

LEMMA JobGoesOn ==
  ASSUME NEW x, NEW table, NEW n \in Nat, NEW k \in Nat, n <= k, ForecastJob(x, table,
         n)
  PROVE  ForecastJob(x, table, k)
<1>1. \A i \in 1 .. n : i \in 1 .. k OBVIOUS
<1> QED BY <1>1 DEF ForecastJob

LEMMA Generates ==
  ASSUME Sim!ForecastAssumption, ForecastInv, NEW r \in Forecaster,
         NEW s \in Sim!Scope, NEW metric,
         Sim!Generate(r, s, metric)
  PROVE  ForecastInv'
<1>1. PICK pass \in Sim!Passes(s) : pending' = [pending EXCEPT ![r] =
         IF Sim!Fails(pass) THEN Sim!Idle
         ELSE IF Sim!Wanted(pass, metric) = <<>> THEN Sim!Idle
         ELSE [left |-> Sim!Wanted(pass, metric), row |-> NA, number |-> begun']]
  BY DEF Sim!Generate
<1>2. begun' = begun + 1 /\ today' = today /\ forecasts' = forecasts
  BY DEF Sim!Generate, Sim!facts
<1>3. Entries(Sim!Wanted(pass, metric))
  BY PassIsEntries, WantedIsEntries DEF ForecastInv
<1> DEFINE new == [left |-> Sim!Wanted(pass, metric), row |-> NA, number |-> begun']
<1>4. /\ new.left = Sim!Wanted(pass, metric) /\ new.row = NA /\ new.number = begun + 1
  BY <1>2
<1> HIDE DEF new
<1>5. /\ pending'[r] # Sim!Idle => pending'[r] = new /\ new.left # <<>>
      /\ \A q \in Forecaster \ {r} : pending'[q] = pending[q]
      /\ pending' = [q \in Forecaster |-> pending'[q]]
  BY <1>1, <1>4 DEF ForecastInv, new
<1>6. /\ begun \in Nat /\ begun' \in Nat /\ begun <= begun' /\ begun + 1 \notin 1 .. begun
      /\ begun + 1 \in 1 .. begun' /\ \A n \in 1 .. begun : n \in 1 .. begun'
  BY <1>2 DEF ForecastInv
<1>7. \A f \in forecasts : ForecastRow(f, begun) /\ (Sim!Unnamed(f.key.scope) => f.key.number # begun + 1)
  BY <1>6 DEF ForecastInv, ForecastRow
<1>8. \A f \in forecasts : ForecastRow(f, begun') BY <1>6, <1>7 DEF ForecastRow
<1>9. ASSUME new.left # <<>> PROVE ForecastJob(new, forecasts, begun')
  <2>1. new = [left |-> new.left, row |-> new.row, number |-> new.number] BY DEF new
  <2> QED BY <1>3, <1>4, <1>6, <1>7, <1>9, <2>1 DEF ForecastJob, Owned
<1>10. ASSUME NEW q \in Forecaster, pending'[q] # Sim!Idle
       PROVE ForecastJob(pending'[q], forecasts, begun')
  <2>1. CASE q = r BY <1>5, <1>9, <1>10, <2>1
  <2>2. CASE q # r
    <3>1. pending'[q] = pending[q] /\ ForecastJob(pending[q], forecasts, begun)
      BY <1>5, <1>10, <2>2 DEF ForecastInv
    <3> QED BY <1>6, <3>1, JobGoesOn
  <2> QED BY <2>1, <2>2
<1>11. Apart(pending')
  <2>1. \A q \in Forecaster \ {r} : pending'[q] # Sim!Idle => pending'[q].number # begun + 1
    BY <1>5, <1>6 DEF ForecastInv, ForecastJob
  <2> QED BY <1>4, <1>5, <2>1 DEF ForecastInv, Apart
<1> QED BY <1>2, <1>5, <1>6, <1>8, <1>10, <1>11 DEF ForecastInv

\* A request that ends leaves the others as they are.
LEMMA Ends ==
  ASSUME ForecastInv, NEW r \in Forecaster, pending' = [pending EXCEPT ![r] = Sim!Idle],
         UNCHANGED <<forecasts, begun, today>>
  PROVE  ForecastInv'
<1>1. /\ pending'[r] = Sim!Idle /\ \A q \in Forecaster \ {r} : pending'[q] = pending[q]
      /\ pending' = [q \in Forecaster |-> pending'[q]]
  BY DEF ForecastInv
<1>2. \A q \in Forecaster : pending'[q] # Sim!Idle => ForecastJob(pending'[q], forecasts, begun)
  BY <1>1 DEF ForecastInv
<1>3. Apart(pending') BY <1>1 DEF ForecastInv, Apart
<1> QED BY <1>1, <1>2, <1>3 DEF ForecastInv

LEMMA RowAtIs ==
  ASSUME ForecastInv, NEW f \in forecasts
  PROVE  Sim!RowAt(f.key) = f
BY DEF ForecastInv, Sim!RowAt

LEMMA KeyIs ==
  ASSUME Sim!ForecastAssumption, NEW f, Entry(f), NEW number \in Nat
  PROVE  /\ Sim!RowKey(f, number) \in Sim!Key /\ Sim!RowKey(f, number) # NA
         /\ Sim!RowKey(f, number).scope = f.scope /\ Sim!RowKey(f, number).metric = f.metric
         /\ Sim!Unnamed(f.scope) => Sim!RowKey(f, number).number = number
<1>1. Sim!RowKey(f, number) \in Sim!Key BY DEF Sim!RowKey, Sim!Key, Entry
<1> QED BY <1>1 DEF Sim!ForecastAssumption, Sim!RowKey

\* A request keeps its place when a table changes what is not its own.
LEMMA OtherJob ==
  ASSUME NEW x, NEW table, NEW next, NEW n, ForecastJob(x, table, n), n \in Nat,
         \A f \in next : \/ \E g \in table : g.key = f.key
                         \/ \A m : ~Owned(f, x.number, m),
         \A f \in table : \E g \in next :
            /\ g.key = f.key
            /\ Sim!Unnamed(f.key.scope) /\ f.key.number = x.number => g.expected = f.expected
  PROVE  ForecastJob(x, next, n)
<1>1. \A m : (\A f \in table : ~Owned(f, x.number, m)) => \A f \in next : ~Owned(f, x.number, m)
  BY DEF Owned
<1>2. CASE x.row = NA /\ \A f \in table, i \in DOMAIN x.left : ~Owned(f, x.number, x.left[i].metric)
  BY <1>1, <1>2 DEF ForecastJob
<1>3. CASE /\ x.row = Sim!RowKey(x.left[1], x.number)
           /\ \A f \in table : \A i \in DOMAIN x.left \ {1} :
                ~Owned(f, x.number, x.left[i].metric)
           /\ Stored(x, table)
  <2>1. PICK f \in table : /\ f.key = x.row
                           /\ Sim!Unnamed(x.left[1].scope) => f.expected = x.left[1].expected
    BY <1>3 DEF Stored
  <2>2. Sim!Unnamed(x.left[1].scope) => Sim!Unnamed(f.key.scope) /\ f.key.number = x.number
    BY <1>3, <2>1 DEF Sim!RowKey
  <2>3. Stored(x, next) BY <2>1, <2>2 DEF Stored
  <2>4. \A f_1 \in next : \A i \in DOMAIN x.left \ {1} : ~Owned(f_1, x.number, x.left[i].metric)
    BY <1>1, <1>3
  <2> QED BY <1>3, <2>3, <2>4 DEF ForecastJob
<1> QED BY <1>2, <1>3 DEF ForecastJob

LEMMA StoresRow ==
  ASSUME Sim!ForecastAssumption, ForecastInv, NEW r \in Forecaster, Sim!StoreRow(r)
  PROVE  ForecastInv'
<1> DEFINE x == pending[r]  f == x.left[1]  key == Sim!RowKey(f, x.number)
           old == {g \in forecasts : g.key = key}
           new == [key |-> key, status |-> f.status, obs |-> f.obs, expected |-> f.expected,
                   model |-> IF old = {} THEN f.model ELSE Sim!RowAt(key).model,
                   points |-> IF old = {} THEN NA ELSE Sim!RowAt(key).points]
<1>1. x.left # <<>> /\ x.row = NA /\ UNCHANGED <<begun, today>>
  BY DEF Sim!StoreRow, Sim!facts
<1>2. x # Sim!Idle /\ ForecastJob(x, forecasts, begun) BY <1>1, IdleIs DEF ForecastInv
<1>3. Head(x.left) = f /\ 1 \in DOMAIN x.left
  BY <1>1, <1>2, RestIsEntries DEF ForecastJob
<1>4. \/ forecasts' = forecasts /\ pending' = [pending EXCEPT ![r] = Sim!Idle]
      \/ forecasts' = (forecasts \ old) \union {new} /\ pending' = [pending EXCEPT ![r].row = key]
  BY <1>3 DEF Sim!StoreRow
<1>5. CASE forecasts' = forecasts /\ pending' = [pending EXCEPT ![r] = Sim!Idle]
  BY <1>1, <1>5, Ends
<1>6. CASE forecasts' = (forecasts \ old) \union {new} /\ pending' = [pending EXCEPT ![r].row = key]
  <2>1. Entry(f) /\ x.number \in Nat BY <1>2, <1>3 DEF ForecastJob, Entries, ForecastInv
  <2>2. /\ key \in Sim!Key /\ key # NA /\ key.scope = f.scope /\ key.metric = f.metric
        /\ Sim!Unnamed(f.scope) => key.number = x.number
    BY <2>1, KeyIs
  <2>3. \A g \in forecasts, i \in DOMAIN x.left : ~Owned(g, x.number, x.left[i].metric)
    BY <1>1, <1>2, <2>2 DEF ForecastJob
  <2>4. Sim!Unnamed(f.scope) => old = {} BY <1>3, <2>2, <2>3 DEF Owned
  <2>5. /\ new.key = key /\ new.status = f.status /\ new.obs = f.obs
        /\ new.expected = f.expected
        /\ Sim!Unnamed(f.scope) => new.model = f.model /\ new.points = NA
        /\ new = [key |-> new.key, status |-> new.status, obs |-> new.obs,
                  expected |-> new.expected, model |-> new.model, points |-> new.points]
    BY <2>4
  <2> DEFINE y == [left |-> x.left, row |-> key, number |-> x.number]
  <2>6. /\ pending'[r] = y /\ \A q \in Forecaster \ {r} : pending'[q] = pending[q]
        /\ pending' = [q \in Forecaster |-> pending'[q]]
    <3>1. x = [left |-> x.left, row |-> x.row, number |-> x.number]
      BY <1>2 DEF ForecastJob
    <3>2. [x EXCEPT !.row = key] = y BY <3>1
    <3> QED BY <1>6, <3>2 DEF ForecastInv
  <2>7. y.left = x.left /\ y.row = key /\ y.number = x.number
        /\ y = [left |-> y.left, row |-> y.row, number |-> y.number]
    OBVIOUS
  <2> HIDE DEF key, new, y
  <2>8. ForecastRow(new, begun)
    <3>1. Sim!Unnamed(f.scope) => x.number \in 1 .. begun BY <1>2 DEF ForecastJob
    <3> QED BY <2>1, <2>2, <2>5, <3>1 DEF ForecastRow, Entry, ScoredOnEnough, Sim!Known
  <2>9. ForecastJob(y, forecasts', begun)
    <3>1. \A g \in forecasts' : \A i \in DOMAIN x.left \ {1} : ~Owned(g, x.number, x.left[i].metric)
      <4>1. \A i \in DOMAIN x.left \ {1} : x.left[i].metric # f.metric
        BY <1>2, <1>3 DEF ForecastJob, Entries
      <4> QED BY <1>6, <2>2, <2>3, <2>5, <4>1 DEF Owned
    <3>2. Stored(y, forecasts') BY <1>6, <2>5, <2>7 DEF Stored
    <3> QED BY <1>2, <2>7, <3>1, <3>2 DEF ForecastJob, key
  <2>10. ASSUME NEW q \in Forecaster, q # r, pending[q] # Sim!Idle
         PROVE ForecastJob(pending[q], forecasts', begun)
    <3>1. ForecastJob(pending[q], forecasts, begun) /\ begun \in Nat
      BY <2>10 DEF ForecastInv
    <3>2. pending[q].number # x.number BY <1>2, <2>10 DEF ForecastInv, Apart
    <3>3. \A g \in forecasts' : \/ \E h \in forecasts : h.key = g.key
                           \/ \A m : ~Owned(g, pending[q].number, m)
      BY <1>6, <2>2, <2>5, <3>2 DEF Owned
    <3>4. \A h \in forecasts : \E g \in forecasts' :
             /\ g.key = h.key
             /\ Sim!Unnamed(h.key.scope) /\ h.key.number = pending[q].number => g.expected = h.expected
      BY <1>6, <2>2, <2>5, <3>2
    <3> QED BY <3>1, <3>3, <3>4, OtherJob
  <2>11. \A q \in Forecaster : pending'[q] # Sim!Idle => ForecastJob(pending'[q], forecasts', begun')
    BY <1>1, <2>6, <2>9, <2>10
  <2>12. Apart(pending') BY <1>2, <2>6, <2>7 DEF ForecastInv, Apart
  <2>13. \A g \in forecasts' : ForecastRow(g, begun')
    BY <1>1, <1>6, <2>8 DEF ForecastInv
  <2>14. \A g, h \in forecasts' : g.key = h.key => g = h BY <1>6, <2>5 DEF ForecastInv
  <2> QED BY <1>1, <2>6, <2>11, <2>12, <2>13, <2>14 DEF ForecastInv
<1> QED BY <1>4, <1>5, <1>6

LEMMA StoresPoints ==
  ASSUME Sim!ForecastAssumption, ForecastInv, NEW r \in Forecaster, Sim!StorePoints(r)
  PROVE  ForecastInv'
<1> DEFINE x == pending[r]  f == x.left[1]  row == Sim!RowAt(x.row)
           rest == SubSeq(x.left, 2, Len(x.left))
           next == IF rest = <<>> THEN Sim!Idle ELSE [x EXCEPT !.left = rest, !.row = NA]
           new == [row EXCEPT !.points = f.expected]
<1>1. Sim!Known(x.row) /\ UNCHANGED <<begun, today>> BY DEF Sim!StorePoints, Sim!facts
<1>2. x # Sim!Idle /\ ForecastJob(x, forecasts, begun) /\ x.row # NA /\ begun \in Nat
  BY <1>1, IdleIs DEF ForecastInv, Sim!Known
<1>3. Entries(x.left) /\ x.left # <<>> /\ x.row = Sim!RowKey(f, x.number)
        /\ (\A g \in forecasts : \A i \in DOMAIN x.left \ {1} :
              ~Owned(g, x.number, x.left[i].metric))
        /\ Stored(x, forecasts)
  BY <1>2 DEF ForecastJob
<1>4. /\ Entries(rest) /\ Head(x.left) = f /\ 1 \in DOMAIN x.left
      /\ \A i \in DOMAIN rest : i + 1 \in DOMAIN x.left \ {1} /\ rest[i] = x.left[i + 1]
  BY <1>3, RestIsEntries
<1>5. row \in forecasts /\ row.key = x.row /\ (Sim!Unnamed(f.scope) => row.expected = f.expected)
  <2>1. PICK g \in forecasts : g.key = x.row /\ (Sim!Unnamed(f.scope) => g.expected = f.expected)
    BY <1>3 DEF Stored
  <2>2. row = g BY <2>1, RowAtIs
  <2> QED BY <2>1, <2>2
<1>6. Entry(f) /\ x.number \in Nat
  <2>1. x.number \in 1 .. begun BY <1>2 DEF ForecastJob
  <2>2. Entry(f) BY <1>3, <1>4 DEF Entries
  <2> QED BY <1>2, <2>1, <2>2
<1>7. /\ x.row.scope = f.scope
      /\ Sim!Unnamed(f.scope) => x.row.number = x.number
  BY <1>3, <1>6, KeyIs
<1>8. \/ forecasts' = forecasts /\ pending' = [pending EXCEPT ![r] = next]
      \/ forecasts' = forecasts /\ pending' = [pending EXCEPT ![r] = Sim!Idle]
      \/ forecasts' = (forecasts \ {row}) \union {new} /\ pending' = [pending EXCEPT ![r] = next]
  BY <1>4 DEF Sim!StorePoints
<1>9. CASE forecasts' = forecasts /\ pending' = [pending EXCEPT ![r] = Sim!Idle]
  BY <1>1, <1>9, Ends
<1>10. /\ new.key = row.key /\ new.points = f.expected /\ new.expected = row.expected
       /\ ForecastRow(new, begun)
  <2>1. ForecastRow(row, begun) BY <1>5 DEF ForecastInv
  <2> HIDE DEF row
  <2>2. /\ new.key = row.key /\ new.points = f.expected /\ new.expected = row.expected
        /\ new.status = row.status /\ new.obs = row.obs /\ new.model = row.model
        /\ new = [key |-> new.key, status |-> new.status, obs |-> new.obs,
                  expected |-> new.expected, model |-> new.model, points |-> new.points]
    BY <2>1 DEF ForecastRow
  <2> HIDE DEF new
  <2> QED BY <1>5, <1>7, <2>1, <2>2 DEF ForecastRow
<1> HIDE DEF row, new
<1>11. ASSUME pending' = [pending EXCEPT ![r] = next],
              forecasts' = forecasts \/ forecasts' = (forecasts \ {row}) \union {new}
       PROVE  ForecastInv'
  <2>1. /\ pending'[r] = next /\ \A q \in Forecaster \ {r} : pending'[q] = pending[q]
        /\ pending' = [q \in Forecaster |-> pending'[q]]
    BY <1>11 DEF ForecastInv
  <2>2. \A g \in forecasts' : \E h \in forecasts : h.key = g.key BY <1>5, <1>10, <1>11
  <2>3. \A h \in forecasts : \E g \in forecasts' : g.key = h.key /\ g.expected = h.expected
    BY <1>5, <1>10, <1>11
  <2>4. ASSUME next # Sim!Idle
        PROVE  next.number = x.number /\ ForecastJob(next, forecasts', begun)
    <3>1. rest # <<>> /\ x = [left |-> x.left, row |-> x.row, number |-> x.number]
      BY <1>2, <2>4 DEF ForecastJob
    <3> DEFINE y == [left |-> rest, row |-> NA, number |-> x.number]
    <3>2. next = y BY <3>1
    <3>3. y.left = rest /\ y.row = NA /\ y.number = x.number
          /\ y = [left |-> y.left, row |-> y.row, number |-> y.number]
      OBVIOUS
    <3>4. \A g \in forecasts, i \in DOMAIN rest : ~Owned(g, x.number, rest[i].metric)
      BY <1>3, <1>4
    <3> HIDE DEF y, rest
    <3>5. \A g \in forecasts', i \in DOMAIN rest : ~Owned(g, x.number, rest[i].metric)
      BY <2>2, <3>4 DEF Owned
    <3> HIDE DEF next
    <3> QED BY <1>2, <1>4, <3>1, <3>2, <3>3, <3>5 DEF ForecastJob
  <2> HIDE DEF next
  <2>5. ASSUME NEW q \in Forecaster, pending'[q] # Sim!Idle
        PROVE ForecastJob(pending'[q], forecasts', begun)
    <3>1. CASE q = r BY <2>1, <2>4, <2>5, <3>1
    <3>2. CASE q # r
      <4>1. ForecastJob(pending[q], forecasts, begun)
        BY <2>1, <2>5, <3>2 DEF ForecastInv
      <4>2. ForecastJob(pending[q], forecasts', begun)
        <5>1. \A g \in forecasts' : \/ \E h \in forecasts : h.key = g.key
                               \/ \A m : ~Owned(g, pending[q].number, m)
          BY <2>2
        <5>2. \A h \in forecasts : \E g \in forecasts' :
                 /\ g.key = h.key
                 /\ Sim!Unnamed(h.key.scope) /\ h.key.number = pending[q].number
                      => g.expected = h.expected
          BY <2>3
        <5> QED BY <1>2, <4>1, <5>1, <5>2, OtherJob
      <4> QED BY <2>1, <3>2, <4>2
    <3> QED BY <3>1, <3>2
  <2>6. Apart(pending') BY <1>2, <2>1, <2>4 DEF ForecastInv, Apart
  <2>7. \A g \in forecasts' : ForecastRow(g, begun) BY <1>10, <1>11 DEF ForecastInv
  <2>8. \A g, h \in forecasts' : g.key = h.key => g = h
    BY <1>5, <1>10, <1>11 DEF ForecastInv
  <2> QED BY <1>1, <2>1, <2>5, <2>6, <2>7, <2>8 DEF ForecastInv
<1> HIDE DEF next
<1> QED BY <1>8, <1>9, <1>11

\* Facts and simulations leave the table of forecasts alone.
LEMMA Leaves ==
  ASSUME ForecastInv, UNCHANGED <<forecasts, pending>>, begun' \in Nat,
         begun <= begun', today' \in Int
  PROVE  ForecastInv'
<1>1. begun \in Nat /\ \A n \in 1 .. begun : n \in 1 .. begun' BY DEF ForecastInv
<1>2. \A r \in Forecaster : pending[r] # Sim!Idle => ForecastJob(pending[r], forecasts, begun')
  BY <1>1, JobGoesOn DEF ForecastInv
<1>3. \A f \in forecasts : ForecastRow(f, begun') BY <1>1 DEF ForecastInv, ForecastRow
<1> QED BY <1>2, <1>3 DEF ForecastInv

LEMMA ForecastStarts == Sim!ForecastAssumption /\ Sim!Init => ForecastInv
<1> SUFFICES ASSUME Sim!ForecastAssumption, Sim!Init PROVE ForecastInv OBVIOUS
<1>1. today \in Int BY DEF Sim!ForecastAssumption, Sim!Init, Sim!FactsInit
<1>2. forecasts = {} /\ begun = 0 /\ pending = [r \in Forecaster |-> Sim!Idle]
  BY DEF Sim!Init, Sim!ForecastInit
<1> QED BY <1>1, <1>2 DEF ForecastInv, Apart

LEMMA ForecastSteps == Sim!ForecastAssumption /\ ForecastInv /\ [Sim!Next]_(Sim!vars) => ForecastInv'
<1> SUFFICES ASSUME Sim!ForecastAssumption, ForecastInv, [Sim!Next]_(Sim!vars)
             PROVE ForecastInv' OBVIOUS
<1> begun \in Nat /\ today \in Int BY DEF ForecastInv
<1>1. CASE UNCHANGED Sim!vars BY <1>1, Leaves DEF Sim!vars, Sim!facts, Sim!forecastVars
<1>2. CASE Sim!FactsNext
  <2>1. today' \in Int /\ UNCHANGED <<forecasts, pending, begun>>
    BY <1>2 DEF Sim!FactsNext, Sim!NextDay, Sim!SyncAds, Sim!SyncOrders,
       Sim!EditCatalog, Sim!forecastVars
  <2> QED BY <2>1, Leaves
<1>3. ASSUME NEW q, NEW skew, Sim!Resolve(q, skew) PROVE ForecastInv'
  BY <1>3, Leaves DEF Sim!Resolve, Sim!facts
<1>4. CASE Sim!Simulate BY <1>4, Leaves DEF Sim!Simulate, Sim!facts, Sim!forecastVars
<1>5. CASE Sim!ForecastNext
  <2> PICK r \in Forecaster :
        \/ \E asked \in Asked : Sim!Generate(r, asked[1], asked[2])
        \/ Sim!Summary(r)
        \/ \E c \in Campaign : Sim!CampaignForecast(r, c)
        \/ Sim!Proceed(r) \/ Sim!Die(r)
    BY <1>5 DEF Sim!ForecastNext
  <2>1. Sim!Business \in Sim!Scope /\ \A asked \in Asked : asked[1] \in Sim!Scope
    BY DEF Sim!ForecastAssumption, Sim!Scope, Sim!Business
  <2>2. CASE \E asked \in Asked : Sim!Generate(r, asked[1], asked[2])
    BY <2>1, <2>2, Generates
  <2>3. CASE Sim!Summary(r) BY <2>1, <2>3, Generates DEF Sim!Summary
  <2>4. ASSUME NEW c \in Campaign, Sim!CampaignForecast(r, c) PROVE ForecastInv'
    <3>1. <<"campaign", c>> \in Sim!Scope BY DEF Sim!Scope
    <3> QED BY <2>4, <3>1, Generates DEF Sim!CampaignForecast
  <2>5. CASE Sim!Proceed(r) BY <2>5, StoresRow, StoresPoints DEF Sim!Proceed
  <2>6. CASE Sim!Die(r) BY <2>6, Ends DEF Sim!Die, Sim!facts
  <2> QED BY <2>2, <2>3, <2>4, <2>5, <2>6
<1> QED BY <1>1, <1>2, <1>3, <1>4, <1>5 DEF Sim!Next, Sim!Rerun

\* _upsert_forecast and _replace_points: a current forecast has the history of a
\* contest, and one without an entity_id names a model that had its minimum left
\* after the holdout and has the daily points of its own total.
THEOREM ForecastsHold == Sim!Spec => []ForecastRowsHold
<1>1. ForecastInv => ForecastRowsHold
  BY DEF ForecastInv, ForecastRow, ForecastRowsHold, Sim!ForecastRowsHold, Sim!EvidenceBehindModel,
     Sim!PointsMatchRow
<1>2. Sim!Init => ForecastInv BY ForecastStarts, PlanningAssumption
<1>3. ForecastInv /\ [Sim!Next]_(Sim!vars) => ForecastInv'
  BY ForecastSteps, PlanningAssumption
<1> QED BY <1>1, <1>2, <1>3, PTL DEF Sim!Spec

-----------------------------------------------------------------------------
(* Ratios. *)

LEMMA SameSets == ASSUME NEW S PROVE Sim!IsFiniteSet(S) <=> IsFiniteSet(S)
BY DEF Sim!IsFiniteSet, IsFiniteSet

\* Signs and cancelling in products of integers.
LEMMA ProductSign ==
  ASSUME NEW a \in Int, NEW k \in Nat \ {0}
  PROVE  /\ a * k \in Int /\ (a * k = 0 <=> a = 0) /\ (a * k > 0 <=> a > 0)
         /\ (a * k >= 0 <=> a >= 0)
<1>1. a * k \in Int OBVIOUS
<1>2. CASE a = 0 BY <1>2
<1>3. CASE a > 0 
  <2>1. a * k > 0 BY <1>3
  <2> QED BY <1>3, <2>1, <1>1
<1>4. CASE a < 0
  <2>1. a * k < 0 BY <1>4
  <2> QED BY <1>4, <2>1, <1>1
<1> QED BY <1>2, <1>3, <1>4

LEMMA Cancel ==
  ASSUME NEW a \in Int, NEW b \in Int, NEW k \in Nat \ {0}
  PROVE  (a * k = b * k <=> a = b) /\ (a * k <= b * k <=> a <= b)
<1>1. a - b \in Int /\ a * k \in Int /\ b * k \in Int OBVIOUS
<1>2. (a - b) * k = a * k - b * k OBVIOUS
<1>3. /\ ((a - b) * k = 0 <=> a - b = 0) /\ ((a - b) * k > 0 <=> a - b > 0)
      /\ ((a - b) * k >= 0 <=> a - b >= 0)
  BY <1>1, ProductSign
<1> DEFINE x == a * k
           y == b * k
           z == (a - b) * k
<1>4. x \in Int /\ y \in Int /\ z = x - y /\ (z = 0 <=> a - b = 0) /\ (z > 0 <=> a - b > 0)
  BY <1>1, <1>2, <1>3
<1> HIDE DEF x, y, z
<1>5. (x = y <=> a = b) /\ (x <= y <=> a <= b) BY <1>4
<1> QED BY <1>5 DEF x, y

\* The integer x is n over d, rounded either way.
Close(x, n, d) == x \in Int /\ 2 * (x * d - n) <= d /\ 2 * (n - x * d) <= d

LEMMA RoundedIs ==
  ASSUME NEW n \in Int, NEW d \in Nat \ {0}
  PROVE  Close(Sim!Rounded(n, d), n, d)
<1> DEFINE q == n \div d
           m == n % d
           r == Sim!Rounded(n, d)
<1>1. q \in Int /\ m \in 0 .. (d - 1) /\ n = q * d + m OBVIOUS
<1>2. \/ r = q /\ 2 * m <= d
      \/ r = q + 1 /\ 2 * m >= d
  <2>1. r = IF 2 * m > d \/ (2 * m = d /\ q % 2 = 1) THEN q + 1 ELSE q BY DEF Sim!Rounded
  <2> HIDE DEF q, m, r
  <2> QED BY <1>1, <2>1
<1> HIDE DEF q, m, r
<1>3. (q + 1) * d = q * d + d /\ q * d \in Int BY <1>1
<1>4. ASSUME r = q, 2 * m <= d PROVE Close(r, n, d)
  <2>1. r * d \in Int /\ r * d - n = -m /\ n - r * d = m BY <1>1, <1>3, <1>4
  <2> DEFINE p == r * d
  <2> HIDE DEF p
  <2>2. r \in Int BY <1>1, <1>4
  <2>3. p - n = -m /\ n - p = m BY <2>1 DEF p
  <2>4. 2 * (p - n) <= d /\ 2 * (n - p) <= d BY <1>1, <1>4, <2>3
  <2> QED BY <2>2, <2>4 DEF Close, p
<1>5. ASSUME r = q + 1, 2 * m >= d PROVE Close(r, n, d)
  <2>1. r * d \in Int /\ r * d - n = d - m /\ n - r * d = m - d
    <3>1. r * d = q * d + d BY <1>3, <1>5
    <3>2. r * d \in Int BY <1>3, <3>1
    <3> DEFINE x == r * d
               y == q * d
    <3>3. x = y + d /\ n = y + m /\ y \in Int BY <1>1, <1>3, <3>1
    <3> HIDE DEF x, y
    <3>4. x - n = d - m /\ n - x = m - d BY <1>1, <3>3
    <3> QED BY <3>2, <3>4 DEF x
  <2> DEFINE p == r * d
  <2> HIDE DEF p
  <2>2. r \in Int BY <1>1, <1>5
  <2>3. p - n = d - m /\ n - p = m - d BY <2>1 DEF p
  <2>4. 2 * (p - n) <= d /\ 2 * (n - p) <= d BY <1>1, <1>5, <2>3
  <2> QED BY <2>2, <2>4 DEF Close, p
<1> QED
  <2>1. Close(r, n, d) BY <1>2, <1>4, <1>5
  <2> QED BY <2>1 DEF r

\* Rounding keeps the order with whole numbers.
LEMMA RoundedKeeps ==
  ASSUME NEW n \in Int, NEW d \in Nat \ {0}, NEW x, Close(x, n, d), NEW k \in Int
  PROVE  (k * d <= n => k <= x) /\ (n <= k * d => x <= k)
<1> DEFINE s == (k - x) * d
<1>1. x \in Int BY DEF Close
<1>2. s = k * d - x * d /\ k * d \in Int /\ x * d \in Int BY <1>1
<1>3. (k - x - 1) * d = s - d /\ (k - x + 1) * d = s + d BY <1>1
<1>4. /\ (k - x - 1 >= 0 <=> (k - x - 1) * d >= 0)
      /\ (k - x + 1 > 0 <=> (k - x + 1) * d > 0)
  <2>1. k - x - 1 \in Int /\ k - x + 1 \in Int BY <1>1
  <2> QED BY <2>1, ProductSign
<1>5. s \in Int /\ 2 * (x * d - n) <= d /\ 2 * (n - x * d) <= d BY <1>1, <1>2 DEF Close
<1> HIDE DEF s
<1>6. ASSUME k * d <= n PROVE k <= x
  <2>1. 2 * s <= d BY <1>2, <1>5, <1>6
  <2>2. ~(k - x - 1 >= 0) BY <1>3, <1>4, <1>5, <2>1
  <2> QED BY <1>1, <2>2
<1>7. ASSUME n <= k * d PROVE x <= k
  <2>1. 2 * s >= -d BY <1>2, <1>5, <1>7
  <2>2. k - x + 1 > 0 BY <1>3, <1>4, <1>5, <2>1
  <2> QED BY <1>1, <2>2
<1> QED BY <1>6, <1>7

LEMMA Scale ==
  ASSUME NEW a \in Int, NEW b \in Int, NEW k \in Nat, a <= b
  PROVE  a * k <= b * k
<1>1. CASE k = 0 BY <1>1
<1>2. CASE k # 0
  <2>1. k \in Nat \ {0} BY <1>2
  <2> QED BY <2>1, Cancel
<1> QED BY <1>1, <1>2

\* A hint L, n over K of the rounded P, and a figure r that is no more than P:
\* which is larger agrees with the figures that were not rounded.
LEMMA HintAgrees ==
  ASSUME NEW z \in Int, NEW d \in Nat \ {0}, NEW P \in Nat \ {0}, Close(P, z, d),
         NEW n \in Int, NEW K \in Nat \ {0}, NEW L, Close(L, n, K * P),
         NEW r \in Nat, r <= P
  PROVE  /\ L < r => n * d <= K * (r * z)
         /\ r < L => K * (r * z) <= n * d
<1> DEFINE y == P * d
           ry == r * y
           rz == r * z
           D == K * P
           LD == L * D
<1>1. y \in Nat /\ ry \in Int /\ rz \in Int /\ D \in Nat \ {0} /\ L \in Int /\ LD \in Int
  <2>1. K * P > 0 BY ProductSign
  <2> QED BY <2>1 DEF Close
<1>2. 2 * y - d <= 2 * z /\ 2 * z <= 2 * y + d BY DEF Close
<1>3. 2 * ry - y <= 2 * rz /\ 2 * rz <= 2 * ry + y
  <2>1. r * d <= y BY Scale
  <2>2. (2 * y - d) * r <= (2 * z) * r /\ (2 * z) * r <= (2 * y + d) * r
    <3>1. 2 * y - d \in Int /\ 2 * z \in Int /\ 2 * y + d \in Int BY <1>1
    <3> HIDE DEF y
    <3> QED BY <1>2, <3>1, Scale
  <2>3. /\ (2 * y - d) * r = 2 * ry - r * d /\ (2 * z) * r = 2 * rz
        /\ (2 * y + d) * r = 2 * ry + r * d
    <3> HIDE DEF y
    <3> QED BY <1>1
  <2>4. r * d \in Int OBVIOUS
  <2> HIDE DEF y, ry, rz
  <2> QED BY <1>1, <2>1, <2>2, <2>3, <2>4
<1>4. 2 * LD - D <= 2 * n /\ 2 * n <= 2 * LD + D BY DEF Close
<1>5. (K * (2 * ry - y)) <= K * (2 * rz) /\ K * (2 * rz) <= K * (2 * ry + y)
  <2>1. 2 * ry - y \in Int /\ 2 * rz \in Int /\ 2 * ry + y \in Int BY <1>1
  <2> DEFINE u == 2 * ry - y
             w == 2 * rz
             t == 2 * ry + y
  <2>2. u \in Int /\ w \in Int /\ t \in Int /\ u <= w /\ w <= t BY <1>3, <2>1
  <2> HIDE DEF u, w, t, ry, rz, y
  <2>3. u * K <= w * K /\ w * K <= t * K BY <2>2, Scale
  <2>4. u * K = K * u /\ w * K = K * w /\ t * K = K * t BY <2>2
  <2>5. K * u <= K * w /\ K * w <= K * t BY <2>3, <2>4
  <2> QED BY <2>5 DEF u, w, t
<1>6. /\ K * (2 * ry - y) = ((2 * r - 1) * D) * d
      /\ K * (2 * ry + y) = ((2 * r + 1) * D) * d
      /\ K * (2 * rz) = 2 * (K * (r * z))
  OBVIOUS
<1>7. K * (r * z) \in Int /\ n * d \in Int /\ (2 * n) * d = 2 * (n * d) OBVIOUS
<1>8. ASSUME L < r PROVE n * d <= K * (r * z)
  <2>1. (2 * L + 1) * D <= (2 * r - 1) * D
    <3>1. 2 * L + 1 <= 2 * r - 1 BY <1>1, <1>8
    <3>2. 2 * L + 1 \in Int /\ 2 * r - 1 \in Int /\ D \in Nat BY <1>1
    <3> HIDE DEF D
    <3> QED BY <3>1, <3>2, Scale
  <2>2. (2 * L + 1) * D = 2 * LD + D BY <1>1
  <2>3. 2 * n <= (2 * r - 1) * D /\ (2 * r - 1) * D \in Int
    <3>1. (2 * r - 1) * D \in Int BY <1>1
    <3> DEFINE f == (2 * r - 1) * D
    <3> HIDE DEF LD, D, f
    <3> QED BY <1>1, <1>4, <2>1, <2>2, <3>1 DEF f
  <2> HIDE DEF D
  <2>4. (2 * n) * d <= ((2 * r - 1) * D) * d BY <2>3, Scale
  <2> HIDE DEF ry, rz, y
  <2>5. 2 * (n * d) <= 2 * (K * (r * z))
    <3> DEFINE f == ((2 * r - 1) * D) * d
               g == K * (2 * rz)
               h == K * (r * z)
               i == n * d
    <3>1. 2 * i <= f /\ f <= g /\ g = 2 * h /\ f \in Int /\ g \in Int /\ h \in Int /\ i \in Int
      <4>1. f \in Int BY <2>3
      <4>2. g \in Int BY <1>1
      <4> QED BY <1>5, <1>6, <1>7, <2>4, <4>1, <4>2
    <3> HIDE DEF f, g, h, i
    <3>2. 2 * i <= 2 * h BY <3>1
    <3> QED BY <3>2 DEF h, i
  <2> QED BY <1>7, <2>5
<1>9. ASSUME r < L PROVE K * (r * z) <= n * d
  <2>1. (2 * r + 1) * D <= (2 * L - 1) * D
    <3>1. 2 * r + 1 <= 2 * L - 1 BY <1>1, <1>9
    <3>2. 2 * L - 1 \in Int /\ 2 * r + 1 \in Int /\ D \in Nat BY <1>1
    <3> HIDE DEF D
    <3> QED BY <3>1, <3>2, Scale
  <2>2. (2 * L - 1) * D = 2 * LD - D BY <1>1
  <2>3. (2 * r + 1) * D <= 2 * n /\ (2 * r + 1) * D \in Int
    <3>1. (2 * r + 1) * D \in Int BY <1>1
    <3> DEFINE f == (2 * r + 1) * D
    <3> HIDE DEF LD, D, f
    <3> QED BY <1>1, <1>4, <2>1, <2>2, <3>1 DEF f
  <2> HIDE DEF D
  <2>4. ((2 * r + 1) * D) * d <= (2 * n) * d BY <2>3, Scale
  <2> HIDE DEF ry, rz, y
  <2>5. 2 * (K * (r * z)) <= 2 * (n * d)
    <3> DEFINE f == ((2 * r + 1) * D) * d
               g == K * (2 * rz)
               h == K * (r * z)
               i == n * d
    <3>1. f <= 2 * i /\ g <= f /\ g = 2 * h /\ f \in Int /\ g \in Int /\ h \in Int /\ i \in Int
      <4>1. f \in Int BY <2>3
      <4>2. g \in Int BY <1>1
      <4> QED BY <1>5, <1>6, <1>7, <2>4, <4>1, <4>2
    <3> HIDE DEF f, g, h, i
    <3>2. 2 * h <= 2 * i BY <3>1
    <3> QED BY <3>2 DEF h, i
  <2> QED BY <1>7, <2>5
<1> QED BY <1>8, <1>9

\* The largest cost per order X, in parts of a cent, and a cost A that is a cent
\* or more away from it.
LEMMA DearestAgrees ==
  ASSUME NEW n \in Int, NEW q \in Nat \ {0}, NEW A, Close(A, n, q),
         NEW t \in Int, NEW E \in Nat \ {0}, NEW cent \in Nat \ {0}, NEW X,
         Close(X, t * cent, E)
  PROVE  /\ (A + 1) * cent <= X => E * n <= q * t
         /\ X <= (A - 1) * cent => q * t <= E * n
<1> DEFINE k == q * E
<1>1. A \in Int /\ X \in Int /\ k \in Nat \ {0}
  <2>1. q * E > 0 BY ProductSign
  <2> QED BY <2>1 DEF Close
<1>2. 2 * n <= (2 * A + 1) * q /\ (2 * A - 1) * q <= 2 * n BY <1>1 DEF Close
<1>3. 2 * (t * cent) <= (2 * X + 1) * E /\ (2 * X - 1) * E <= 2 * (t * cent) BY <1>1 DEF Close
<1>4. E * n \in Int /\ q * t \in Int OBVIOUS
<1>5. ASSUME (A + 1) * cent <= X PROVE E * n <= q * t
  <2>1. (2 * A + 1) * cent <= 2 * X - 1
    <3>1. (A + 1) * cent = A * cent + cent /\ (2 * A + 1) * cent = 2 * (A * cent) + cent
          /\ A * cent \in Int
      BY <1>1
    <3> QED BY <1>1, <1>5, <3>1
  <2>2. ((2 * A + 1) * cent) * k <= (2 * X - 1) * k
    <3>1. (2 * A + 1) * cent \in Int /\ 2 * X - 1 \in Int BY <1>1
    <3> HIDE DEF k
    <3> QED BY <1>1, <2>1, <3>1, Scale
  <2>3. (2 * n) * (cent * E) <= ((2 * A + 1) * q) * (cent * E)
    <3>1. cent * E \in Nat /\ 2 * n \in Int /\ (2 * A + 1) * q \in Int BY <1>1
    <3> QED BY <1>2, <3>1, Scale
  <2>4. ((2 * X - 1) * E) * q <= (2 * (t * cent)) * q
    <3>1. (2 * X - 1) * E \in Int /\ 2 * (t * cent) \in Int BY <1>1
    <3> QED BY <1>3, <3>1, Scale
  <2>5. /\ (2 * n) * (cent * E) = (E * n) * (2 * cent)
        /\ ((2 * A + 1) * q) * (cent * E) = ((2 * A + 1) * cent) * k
        /\ ((2 * X - 1) * E) * q = (2 * X - 1) * k
        /\ (2 * (t * cent)) * q = (q * t) * (2 * cent)
    BY <1>1
  <2>6. (E * n) * (2 * cent) <= (q * t) * (2 * cent)
    <3> DEFINE f == (E * n) * (2 * cent)
               g == ((2 * A + 1) * cent) * k
               h == (2 * X - 1) * k
               i == (q * t) * (2 * cent)
    <3>1. f \in Int /\ g \in Int /\ h \in Int /\ i \in Int BY <1>1
    <3>2. f <= g /\ g <= h /\ h <= i BY <2>2, <2>3, <2>4, <2>5
    <3> HIDE DEF f, g, h, i
    <3>3. f <= i BY <3>1, <3>2
    <3> QED BY <3>3 DEF f, i
  <2>7. 2 * cent \in Nat \ {0} OBVIOUS
  <2> QED BY <1>4, <2>6, <2>7, Cancel
<1>6. ASSUME X <= (A - 1) * cent PROVE q * t <= E * n
  <2>1. 2 * X + 1 <= (2 * A - 1) * cent
    <3>1. (A - 1) * cent = A * cent - cent /\ (2 * A - 1) * cent = 2 * (A * cent) - cent
          /\ A * cent \in Int
      BY <1>1
    <3> QED BY <1>1, <1>6, <3>1
  <2>2. (2 * X + 1) * k <= ((2 * A - 1) * cent) * k
    <3>1. (2 * A - 1) * cent \in Int /\ 2 * X + 1 \in Int BY <1>1
    <3> HIDE DEF k
    <3> QED BY <1>1, <2>1, <3>1, Scale
  <2>3. ((2 * A - 1) * q) * (cent * E) <= (2 * n) * (cent * E)
    <3>1. cent * E \in Nat /\ 2 * n \in Int /\ (2 * A - 1) * q \in Int BY <1>1
    <3> QED BY <1>2, <3>1, Scale
  <2>4. (2 * (t * cent)) * q <= ((2 * X + 1) * E) * q
    <3>1. (2 * X + 1) * E \in Int /\ 2 * (t * cent) \in Int BY <1>1
    <3> QED BY <1>3, <3>1, Scale
  <2>5. /\ (2 * n) * (cent * E) = (E * n) * (2 * cent)
        /\ ((2 * A - 1) * q) * (cent * E) = ((2 * A - 1) * cent) * k
        /\ ((2 * X + 1) * E) * q = (2 * X + 1) * k
        /\ (2 * (t * cent)) * q = (q * t) * (2 * cent)
    BY <1>1
  <2>6. (q * t) * (2 * cent) <= (E * n) * (2 * cent)
    <3> DEFINE f == (E * n) * (2 * cent)
               g == ((2 * A - 1) * cent) * k
               h == (2 * X + 1) * k
               i == (q * t) * (2 * cent)
    <3>1. f \in Int /\ g \in Int /\ h \in Int /\ i \in Int BY <1>1
    <3>2. i <= h /\ h <= g /\ g <= f BY <2>2, <2>3, <2>4, <2>5
    <3> HIDE DEF f, g, h, i
    <3>3. i <= f BY <3>1, <3>2
    <3> QED BY <3>3 DEF f, i
  <2>7. 2 * cent \in Nat \ {0} OBVIOUS
  <2> QED BY <1>4, <2>6, <2>7, Cancel
<1> QED BY <1>5, <1>6

\* The conversion rate of a run and its minimum, the cost per order and the
\* break-even cost.
LEMMA CvrHint ==
  ASSUME NEW U \in Nat \ {0}, NEW b \in Nat \ {0}, NEW k \in Nat \ {0},
         NEW c1 \in Nat, NEW c2 \in Nat \ {0}, NEW p1 \in Nat \ {0}, NEW p2 \in Nat \ {0},
         NEW r \in Nat, p1 * (c2 * U) = (c1 * r) * p2,
         NEW C \in Nat \ {0}, Close(C, c1 * U, c2), r <= C,
         NEW M, Close(M, (b * U) * U, k * C), NEW A, Close(A, b * p2, p1)
  PROVE  (M < r => A <= k) /\ (r < M => k <= A)
<1> DEFINE n == (b * U) * U
           z == c1 * U
           f == b * p2
           g == k * p1
           q == (U * c2) * U
<1>1. n \in Int /\ z \in Int /\ f \in Int /\ g \in Int /\ q \in Nat \ {0}
  <2>1. U * c2 > 0 BY ProductSign
  <2>2. (U * c2) * U > 0 BY <2>1, ProductSign
  <2> QED BY <2>2
<1>2. (M < r => n * c2 <= k * (r * z)) /\ (r < M => k * (r * z) <= n * c2)
  <2> HIDE DEF n, z
  <2> QED BY <1>1, HintAgrees DEF n, z
<1>3. n * c2 \in Int /\ k * (r * z) \in Int BY <1>1
<1>4. (n * c2) * p2 = f * q
  OBVIOUS
<1>5. (k * (r * z)) * p2 = g * q
  <2>1. (k * (r * z)) * p2 = (k * U) * ((c1 * r) * p2) OBVIOUS
  <2>2. (k * U) * (p1 * (c2 * U)) = g * q OBVIOUS
  <2> QED BY <2>1, <2>2
<1> DEFINE x == n * c2
           y == k * (r * z)
<1>6. x \in Int /\ y \in Int /\ x * p2 = f * q /\ y * p2 = g * q
      /\ (M < r => x <= y) /\ (r < M => y <= x)
  BY <1>2, <1>3, <1>4, <1>5
<1> HIDE DEF n, z, f, g, q, x, y
<1>7. (x <= y <=> f <= g) /\ (y <= x <=> g <= f)
  <2>1. (x * p2 <= y * p2 <=> x <= y) /\ (y * p2 <= x * p2 <=> y <= x) BY <1>6, Cancel
  <2>2. (f * q <= g * q <=> f <= g) /\ (g * q <= f * q <=> g <= f) BY <1>1, Cancel
  <2> QED BY <1>6, <2>1, <2>2
<1>8. (g <= f => k <= A) /\ (f <= g => A <= k) BY <1>1, RoundedKeeps DEF f, g
<1> QED BY <1>6, <1>7, <1>8

\* The order value of a run and its minimum, the return and the break-even one.
LEMMA AovHint ==
  ASSUME NEW U \in Nat \ {0}, NEW b \in Nat \ {0}, NEW E \in Nat \ {0}, NEW a \in Int,
         NEW p1 \in Nat \ {0}, NEW p2 \in Nat \ {0},
         NEW P \in Nat \ {0}, Close(P, p1 * U, p2), a <= P,
         NEW L, Close(L, (E * b) * U, U * P),
         NEW Q, Close(Q, (p1 * a) * U, p2 * b)
  PROVE  (L < a => E <= Q) /\ (a < L => Q <= E)
<1> DEFINE n == (E * b) * U
           z == p1 * U
           h == (p1 * a) * U
           d == p2 * b
<1>1. n \in Nat /\ n \in Int /\ z \in Int /\ h \in Int /\ d \in Nat \ {0} /\ U * P \in Nat \ {0}
  <2>1. p2 * b > 0 /\ U * P > 0 BY ProductSign
  <2> QED BY <2>1
<1>2. /\ E * d <= h => E <= Q
      /\ h <= E * d => Q <= E
  <2> HIDE DEF h, d
  <2> QED BY <1>1, RoundedKeeps DEF h, d
<1>3. CASE a >= 0
  <2>1. a \in Nat BY <1>3
  <2>2. (L < a => n * p2 <= U * (a * z)) /\ (a < L => U * (a * z) <= n * p2)
    <3> HIDE DEF n, z
    <3> QED BY <1>1, <2>1, HintAgrees DEF n, z
  <2>3. n * p2 = (E * d) * U /\ U * (a * z) = h * U /\ E * d \in Int
    OBVIOUS
  <2> DEFINE x == E * d
  <2>4. x \in Int /\ n * p2 = x * U /\ U * (a * z) = h * U BY <2>3
  <2> HIDE DEF n, z, h, x
  <2>5. (x * U <= h * U <=> x <= h) /\ (h * U <= x * U <=> h <= x)
    BY <1>1, <2>4, Cancel
  <2>6. (L < a => x <= h) /\ (a < L => h <= x) BY <2>2, <2>4, <2>5
  <2> QED BY <1>2, <2>6 DEF x
<1>4. CASE a < 0
  <2>1. 0 <= L
    <3>1. 0 * (U * P) <= n BY <1>1
    <3> HIDE DEF n
    <3> QED BY <1>1, <3>1, RoundedKeeps DEF n
  <2>2. L \in Int BY DEF Close
  <2>3. ~(L < a) BY <1>4, <2>1, <2>2
  <2>4. h <= 0
    <3>1. p1 * U \in Nat \ {0}
      <4>1. p1 * U > 0 BY ProductSign
      <4> QED BY <4>1
    <3>2. h = a * (p1 * U) OBVIOUS
    <3> DEFINE w == p1 * U
    <3>3. w \in Nat \ {0} /\ h = a * w BY <3>1, <3>2
    <3> HIDE DEF w, h
    <3>4. ~(a * w > 0) BY <1>4, <3>3, ProductSign
    <3>5. a * w \in Int BY <3>3
    <3> QED BY <3>3, <3>4, <3>5
  <2>5. E * d \in Nat BY <1>1
  <2>6. h <= E * d
    <3> DEFINE x == E * d
    <3>1. x \in Nat BY <2>5
    <3> HIDE DEF x, h, d
    <3>2. h <= x BY <1>1, <2>4, <3>1
    <3> QED BY <3>2 DEF x
  <2> QED BY <1>2, <2>3, <2>6
<1> QED BY <1>3, <1>4

\* The cost per order of a run, and the largest one it may have.
LEMMA CpaHint ==
  ASSUME NEW U \in Nat \ {0}, NEW b \in Nat \ {0}, NEW E \in Nat \ {0}, NEW a \in Int,
         NEW p1 \in Nat \ {0}, NEW p2 \in Nat \ {0}, NEW cent \in Nat \ {0},
         NEW A, Close(A, b * p2, p1), NEW X, Close(X, (a * U) * cent, E),
         NEW Q, Close(Q, (p1 * a) * U, p2 * b)
  PROVE  ((A + 1) * cent <= X => E <= Q) /\ (X <= (A - 1) * cent => Q <= E)
<1> DEFINE n == b * p2
           t == a * U
           h == (p1 * a) * U
           d == p2 * b
<1>1. n \in Int /\ t \in Int /\ h \in Int /\ d \in Nat \ {0}
  <2>1. p2 * b > 0 BY ProductSign
  <2> QED BY <2>1
<1>2. /\ E * d <= h => E <= Q
      /\ h <= E * d => Q <= E
  <2> HIDE DEF h, d
  <2> QED BY <1>1, RoundedKeeps DEF h, d
<1>3. /\ (A + 1) * cent <= X => E * n <= p1 * t
      /\ X <= (A - 1) * cent => p1 * t <= E * n
  <2> HIDE DEF n, t
  <2> QED BY <1>1, DearestAgrees DEF n, t
<1>4. E * n = E * d /\ p1 * t = h OBVIOUS
<1> HIDE DEF n, t, h, d
<1> QED BY <1>2, <1>3, <1>4

\* A ratio, and what is kept of one that was rounded to parts of a whole.
Frac == Int \X (Nat \ {0})
InParts(values, parts) == Sim!OrNone(values \X {parts})

LEMMA UnitIs ==
  Unit.rate \in Nat \ {0} /\ Unit.mille \in Nat \ {0} /\ Unit.cent \in Nat \ {0}
BY PlanningAssumption DEF Sim!SimulatorAssumption

LEMMA PairIs ==
  ASSUME NEW n \in Int, NEW d \in Nat \ {0}
  PROVE  /\ <<n, d>> \in Frac /\ Sim!Known(<<n, d>>)
         /\ n >= 0 => <<n, d>> \in Sim!Share
<1>1. <<n, d>> \in Int \X Int OBVIOUS
<1> QED
  BY <1>1, PlanningAssumption DEF Frac, Sim!Share, Sim!SimulatorAssumption, Sim!Known

LEMMA FracIs ==
  ASSUME NEW x \in Frac
  PROVE  /\ Sim!Known(x) /\ x[1] \in Int /\ x[2] \in Nat \ {0} /\ x = <<x[1], x[2]>>
         /\ x \in Sim!Share <=> x[1] >= 0
<1>1. x[1] \in Int /\ x[2] \in Nat \ {0} /\ x = <<x[1], x[2]>> BY DEF Frac
<1> QED BY <1>1, PairIs DEF Sim!Share

LEMMA SharesAre ==
  /\ Sim!Share \subseteq Frac
  /\ Sim!OrNone(Sim!Share) \subseteq Sim!OrNone(Frac)
  /\ \A x \in Sim!Share : x[1] \in Nat /\ x[2] \in Nat \ {0} /\ Sim!Known(x)
  /\ \A x : ~Sim!Known(x) <=> x = NA
<1>1. Sim!Share \subseteq Frac /\ \A x \in Sim!Share : x[1] \in Nat /\ x[2] \in Nat \ {0}
  BY DEF Sim!Share, Frac
<1>2. \A x \in Sim!Share : Sim!Known(x) BY <1>1, FracIs
<1> QED BY <1>1, <1>2 DEF Sim!OrNone, Sim!Known

\* A product or a quotient of known ratios, the divisor not zero.
LEMMA TimesIs ==
  ASSUME NEW x \in Frac, NEW y \in Frac
  PROVE  /\ Sim!Times(x, y) = <<x[1] * y[1], x[2] * y[2]>> /\ Sim!Times(x, y) \in Frac
         /\ x \in Sim!Share /\ y \in Sim!Share => Sim!Times(x, y) \in Sim!Share
<1> DEFINE n == x[1] * y[1]
           d == x[2] * y[2]
<1>1. x[1] \in Int /\ x[2] \in Nat \ {0} /\ y[1] \in Int /\ y[2] \in Nat \ {0}
      /\ Sim!Known(x) /\ Sim!Known(y)
  BY FracIs
<1>2. Sim!Times(x, y) = <<n, d>> BY <1>1 DEF Sim!Times
<1>3. n \in Int /\ d \in Nat \ {0}
  <2>1. x[2] * y[2] > 0 BY <1>1, ProductSign
  <2> QED BY <1>1, <2>1
<1>4. x \in Sim!Share /\ y \in Sim!Share => n >= 0
  <2>1. x \in Sim!Share /\ y \in Sim!Share => x[1] \in Nat /\ y[1] \in Nat BY SharesAre
  <2>2. x[1] \in Nat /\ y[1] \in Nat => n \in Nat OBVIOUS
  <2> HIDE DEF n
  <2> QED BY <2>1, <2>2
<1> HIDE DEF n, d
<1>5. <<n, d>> \in Frac /\ (n >= 0 => <<n, d>> \in Sim!Share) BY <1>3, PairIs
<1> QED BY <1>2, <1>4, <1>5 DEF n, d

LEMMA OverIs ==
  ASSUME NEW x \in Frac, NEW y \in Sim!Share, y[1] # 0
  PROVE  /\ Sim!Over(x, y) = <<x[1] * y[2], x[2] * y[1]>> /\ Sim!Over(x, y) \in Frac
         /\ x \in Sim!Share => Sim!Over(x, y) \in Sim!Share
<1> DEFINE n == x[1] * y[2]
           d == x[2] * y[1]
<1>1. /\ x[1] \in Int /\ x[2] \in Nat \ {0} /\ y[1] \in Nat \ {0} /\ y[2] \in Nat \ {0}
      /\ Sim!Known(x) /\ Sim!Known(y) /\ y[1] > 0
  BY FracIs, SharesAre
<1>2. Sim!Over(x, y) = <<n, d>> BY <1>1 DEF Sim!Over
<1>3. n \in Int /\ d \in Nat \ {0}
  <2>1. x[2] * y[1] > 0 BY <1>1, ProductSign
  <2> QED BY <1>1, <2>1
<1>4. x \in Sim!Share => n >= 0
  <2>1. x \in Sim!Share => x[1] \in Nat BY SharesAre
  <2>2. x[1] \in Nat => n \in Nat BY <1>1
  <2> HIDE DEF n
  <2> QED BY <2>1, <2>2
<1> HIDE DEF n, d
<1>5. <<n, d>> \in Frac /\ (n >= 0 => <<n, d>> \in Sim!Share) BY <1>3, PairIs
<1> QED BY <1>2, <1>4, <1>5 DEF n, d

LEMMA OverFits ==
  ASSUME NEW x \in Sim!OrNone(Frac), NEW y \in Sim!OrNone(Sim!Share)
  PROVE  /\ Sim!Over(x, y) \in Sim!OrNone(Frac)
         /\ x \in Sim!OrNone(Sim!Share) => Sim!Over(x, y) \in Sim!OrNone(Sim!Share)
         /\ Sim!Known(Sim!Over(x, y)) => x \in Frac /\ y \in Sim!Share /\ y[1] # 0
<1>1. CASE x = NA \/ y = NA \/ y[1] = 0
  <2>1. Sim!Over(x, y) = NA BY <1>1 DEF Sim!Over, Sim!Known
  <2> QED BY <2>1 DEF Sim!OrNone, Sim!Known
<1>2. CASE x # NA /\ y # NA /\ y[1] # 0
  <2>1. x \in Frac /\ y \in Sim!Share BY <1>2 DEF Sim!OrNone
  <2>2. x \in Sim!OrNone(Sim!Share) => x \in Sim!Share BY <1>2 DEF Sim!OrNone
  <2>3. /\ Sim!Over(x, y) \in Frac
        /\ x \in Sim!Share => Sim!Over(x, y) \in Sim!Share
    BY <1>2, <2>1, OverIs
  <2> QED BY <1>2, <2>1, <2>2, <2>3 DEF Sim!OrNone
<1> QED BY <1>1, <1>2

\* What is rounded keeps its sign, and its parts are those asked for.
LEMMA QuantizeIs ==
  ASSUME NEW n \in Int, NEW d \in Nat \ {0}, NEW u \in Nat \ {0}
  PROVE  \E r \in Int : /\ Sim!Quantize(<<n, d>>, u) = <<r, u>> /\ Close(r, n * u, d)
                        /\ n >= 0 => r \in Nat
<1> DEFINE r == Sim!Rounded(n * u, d)
<1>1. Sim!Quantize(<<n, d>>, u) = <<r, u>> BY PairIs DEF Sim!Quantize
<1>2. n * u \in Int /\ (n >= 0 => n * u >= 0) BY ProductSign
<1>3. Close(r, n * u, d) BY <1>2, RoundedIs
<1>4. r \in Int BY <1>3 DEF Close
<1> HIDE DEF r
<1>5. 0 * d <= n * u => 0 <= r BY <1>2, <1>3, RoundedKeeps
<1>6. 0 * d = 0 OBVIOUS
<1>7. n >= 0 => r \in Nat BY <1>2, <1>4, <1>5, <1>6
<1> QED BY <1>1, <1>3, <1>4, <1>7

LEMMA QuantizeFits ==
  ASSUME NEW x \in Sim!OrNone(Frac), NEW u \in Nat \ {0}
  PROVE  /\ Sim!Quantize(x, u) \in InParts(Int, u)
         /\ x \in Sim!OrNone(Sim!Share) => Sim!Quantize(x, u) \in InParts(Nat, u)
<1>1. CASE x = NA
  <2>1. Sim!Quantize(x, u) = NA BY <1>1 DEF Sim!Quantize, Sim!Known
  <2> QED BY <2>1 DEF InParts, Sim!OrNone
<1>2. CASE x # NA
  <2>1. x \in Frac BY <1>2 DEF Sim!OrNone
  <2>2. /\ x[1] \in Int /\ x[2] \in Nat \ {0} /\ x = <<x[1], x[2]>>
        /\ x \in Sim!OrNone(Sim!Share) => x[1] >= 0
    BY <1>2, <2>1, FracIs DEF Sim!OrNone
  <2>3. PICK r \in Int : Sim!Quantize(<<x[1], x[2]>>, u) = <<r, u>> /\ (x[1] >= 0 => r \in Nat)
    BY <2>2, QuantizeIs
  <2>4. Sim!Quantize(x, u) = <<r, u>> BY <2>2, <2>3
  <2> QED BY <2>2, <2>3, <2>4 DEF InParts, Sim!OrNone
<1> QED BY <1>1, <1>2

LEMMA InPartsFits ==
  ASSUME NEW u \in Nat \ {0}
  PROVE  InParts(Nat, u) \subseteq Sim!OrNone(Sim!Share) /\ InParts(Int, u) \subseteq Sim!OrNone(Frac)
BY DEF InParts, Sim!OrNone, Sim!Share, Frac

\* What is known was kept.
LEMMA InPartsIs ==
  ASSUME NEW values, NEW u, NEW x \in InParts(values, u), Sim!Known(x)
  PROVE  x[1] \in values /\ x[2] = u /\ x = <<x[1], u>>
<1>1. x \in values \X {u} BY DEF InParts, Sim!OrNone, Sim!Known
<1> QED BY <1>1

-----------------------------------------------------------------------------
(* The figures of a scenario.                                              *)

LevelFits(v) ==
  /\ v.budget \in (Nat \ {0}) \X {1}
  /\ v.ctr \in InParts(Nat, Unit.rate) /\ v.cvr \in InParts(Nat, Unit.rate)
  /\ v.cpm \in InParts(Nat, Unit.mille)
  /\ v.cpc \in InParts(Nat, 1) /\ v.cpa \in InParts(Nat, 1) /\ v.aov \in InParts(Int, 1)
  /\ v.even_cpa \in InParts(Int, 1) /\ v.even_roas \in InParts(Nat, Unit.rate)

Runs(model, v) ==
  model = Sim!SelectModel(v) /\ model # "unavailable" /\ ~Sim!FunnelFails(model, v)

LEMMA LevelIs ==
  ASSUME NEW v, LevelFits(v)
  PROVE  /\ v.ctr \in Sim!OrNone(Sim!Share) /\ v.cpc \in Sim!OrNone(Sim!Share)
         /\ v.cpm \in Sim!OrNone(Sim!Share) /\ v.cvr \in Sim!OrNone(Sim!Share)
         /\ v.cpa \in Sim!OrNone(Sim!Share) /\ v.aov \in Sim!OrNone(Frac)
<1>1. 1 \in Nat \ {0} OBVIOUS
<1> QED BY <1>1, InPartsFits, UnitIs DEF LevelFits

LEMMA ModelIs ==
  ASSUME NEW v, LevelFits(v), NEW model, Runs(model, v)
  PROVE  /\ v.aov \in Frac /\ Sim!Known(v.aov)
         /\ \/ /\ model = "cpm_ctr_cvr_aov" /\ v.cpm \in Sim!Share /\ v.ctr \in Sim!Share
               /\ v.cvr \in Sim!Share /\ v.cpm[1] # 0
            \/ /\ model = "cpc_cvr_aov" /\ v.cpc \in Sim!Share /\ v.cvr \in Sim!Share
               /\ v.cpc[1] # 0
            \/ /\ model = "cpa_aov" /\ v.cpa \in Sim!Share
               /\ ~Sim!Known(v.cpc) \/ ~Sim!Known(v.cvr)
<1>1. /\ Sim!Feeds(v, "cpm_ctr_cvr_aov")
           <=> Sim!Known(v.cpm) /\ Sim!Known(v.ctr) /\ Sim!Known(v.cvr) /\ Sim!Known(v.aov)
      /\ Sim!Feeds(v, "cpc_cvr_aov") <=> Sim!Known(v.cpc) /\ Sim!Known(v.cvr) /\ Sim!Known(v.aov)
      /\ Sim!Feeds(v, "cpa_aov") <=> Sim!Known(v.cpa) /\ Sim!Known(v.aov)
  BY DEF Sim!Feeds, Sim!FunnelInputs
<1>2. \/ model = "cpm_ctr_cvr_aov" /\ Sim!Feeds(v, "cpm_ctr_cvr_aov")
      \/ model = "cpc_cvr_aov" /\ Sim!Feeds(v, "cpc_cvr_aov")
      \/ model = "cpa_aov" /\ Sim!Feeds(v, "cpa_aov") /\ ~Sim!Feeds(v, "cpc_cvr_aov")
  <2> DEFINE a == Sim!Feeds(v, "cpm_ctr_cvr_aov")
             b == Sim!Feeds(v, "cpc_cvr_aov")
             c == Sim!Feeds(v, "cpa_aov")
  <2>1. model = CASE a -> "cpm_ctr_cvr_aov" [] ~a /\ b -> "cpc_cvr_aov"
                  [] ~a /\ ~b /\ c -> "cpa_aov" [] OTHER -> "unavailable"
    BY DEF Runs, Sim!SelectModel
  <2>2. model # "unavailable" BY DEF Runs
  <2> HIDE DEF a, b, c
  <2>4. CASE a BY <2>1, <2>4 DEF a
  <2>5. CASE ~a /\ b BY <2>1, <2>5 DEF b
  <2>6. CASE ~a /\ ~b /\ c
    <3>1. model = "cpa_aov" BY <2>1, <2>6
    <3> QED BY <2>6, <3>1 DEF b, c
  <2>7. CASE ~a /\ ~b /\ ~c
    <3>1. model = "unavailable" BY <2>1, <2>7
    <3> QED BY <2>2, <3>1
  <2> QED BY <2>4, <2>5, <2>6, <2>7
<1>3. /\ model = "cpm_ctr_cvr_aov" => v.cpm[1] # 0
      /\ model = "cpc_cvr_aov" => v.cpc[1] # 0
  BY DEF Runs, Sim!FunnelFails
<1> QED BY <1>1, <1>2, <1>3, LevelIs DEF Sim!OrNone, Sim!Known

LEMMA PriceIs ==
  ASSUME NEW v, LevelFits(v)
  PROVE  /\ v.budget \in Sim!Share /\ v.budget \in Frac
         /\ v.budget[1] \in Nat \ {0} /\ v.budget[2] = 1
<1>1. /\ v.budget[1] \in Nat \ {0} /\ v.budget[2] = 1
      /\ v.budget = <<v.budget[1], v.budget[2]>>
  BY DEF LevelFits
<1>2. v.budget \in Sim!Share BY <1>1 DEF Sim!Share
<1> QED BY <1>1, <1>2, SharesAre

\* What is bought is None where an order costs nothing, and is what the clicks
\* convert to, where clicks are known.
LEMMA BoughtIs ==
  ASSUME NEW v, LevelFits(v), NEW model, Runs(model, v)
  PROVE  LET p == Sim!Purchases(model, v.budget, v)
             c == Sim!Clicks(model, v.budget, v)
         IN  /\ p \in Sim!OrNone(Sim!Share)
             /\ Sim!Known(c)
                  => /\ p \in Sim!Share /\ c \in Sim!Share /\ v.cvr \in Sim!Share
                     /\ p[1] * (c[2] * v.cvr[2]) = (c[1] * v.cvr[1]) * p[2]
<1> DEFINE p == Sim!Purchases(model, v.budget, v)
           c == Sim!Clicks(model, v.budget, v)
           r == v.cvr
<1>b. v.budget \in Sim!Share /\ v.budget \in Frac BY PriceIs
<1>1. ASSUME p = Sim!Times(c, r), c \in Sim!Share, r \in Sim!Share
      PROVE  p \in Sim!Share /\ p[1] * (c[2] * r[2]) = (c[1] * r[1]) * p[2]
  <2>1. c \in Frac /\ r \in Frac BY <1>1, SharesAre
  <2> HIDE DEF p, c, r
  <2>2. p = <<c[1] * r[1], c[2] * r[2]>> /\ p \in Sim!Share BY <1>1, <2>1, TimesIs
  <2> QED BY <2>2
<1>2. CASE model = "cpm_ctr_cvr_aov" /\ v.cpm \in Sim!Share /\ v.ctr \in Sim!Share
           /\ v.cvr \in Sim!Share /\ v.cpm[1] # 0
  <2>1. c = Sim!Times(Sim!Over(v.budget, v.cpm), v.ctr) /\ p = Sim!Times(c, r)
    BY <1>2 DEF Sim!Purchases, Sim!Clicks
  <2>2. Sim!Over(v.budget, v.cpm) \in Sim!Share BY <1>2, <1>b, OverIs
  <2> DEFINE views == Sim!Over(v.budget, v.cpm)
  <2>3. c \in Sim!Share
    <3>1. views \in Sim!Share /\ views \in Frac /\ v.ctr \in Frac BY <1>2, <2>2, SharesAre
    <3> HIDE DEF views, c
    <3> QED BY <1>2, <2>1, <3>1, TimesIs DEF views
  <2> QED BY <1>1, <1>2, <2>1, <2>3 DEF Sim!OrNone
<1>3. CASE model = "cpc_cvr_aov" /\ v.cpc \in Sim!Share /\ v.cvr \in Sim!Share /\ v.cpc[1] # 0
  <2>1. c = Sim!Over(v.budget, v.cpc) /\ p = Sim!Times(c, r)
    BY <1>3 DEF Sim!Purchases, Sim!Clicks
  <2>2. c \in Sim!Share BY <1>3, <1>b, <2>1, OverIs
  <2> QED BY <1>1, <1>3, <2>1, <2>2 DEF Sim!OrNone
<1>4. CASE model = "cpa_aov" /\ v.cpa \in Sim!Share
  <2>1. c = Sim!Over(p, r) /\ p = Sim!Over(v.budget, v.cpa)
    BY <1>4 DEF Sim!Purchases, Sim!Clicks
  <2>2. CASE v.cpa[1] = 0
    <3>1. p = NA BY <2>1, <2>2 DEF Sim!Over
    <3>2. c = NA BY <2>1, <3>1 DEF Sim!Over, Sim!Known
    <3> QED BY <3>1, <3>2 DEF Sim!OrNone, Sim!Known
  <2>3. CASE v.cpa[1] # 0
    <3>1. p \in Sim!Share /\ p \in Frac BY <1>4, <1>b, <2>1, <2>3, OverIs, SharesAre
    <3>2. r \in Sim!OrNone(Sim!Share) BY LevelIs
    <3> HIDE DEF p, c, r
    <3>3. ASSUME Sim!Known(c)
          PROVE  /\ c \in Sim!Share /\ r \in Sim!Share
                 /\ p[1] * (c[2] * r[2]) = (c[1] * r[1]) * p[2]
      <4>1. r \in Sim!Share /\ r[1] # 0
        BY <2>1, <3>2, <3>3 DEF Sim!OrNone, Sim!Over, Sim!Known
      <4>2. c \in Sim!Share /\ c = <<p[1] * r[2], p[2] * r[1]>>
        BY <2>1, <3>1, <4>1, OverIs
      <4>3. p[1] \in Nat /\ p[2] \in Nat /\ r[1] \in Nat /\ r[2] \in Nat
        BY <3>1, <4>1, SharesAre
      <4> DEFINE p1 == p[1]
                 p2 == p[2]
                 r1 == r[1]
                 r2 == r[2]
      <4>4. c[1] = p1 * r2 /\ c[2] = p2 * r1 BY <4>2
      <4>5. p1 \in Nat /\ p2 \in Nat /\ r1 \in Nat /\ r2 \in Nat BY <4>3
      <4> HIDE DEF p1, p2, r1, r2
      <4>6. p1 * (c[2] * r2) = (c[1] * r1) * p2 BY <4>4, <4>5
      <4> QED BY <4>1, <4>2, <4>6 DEF p1, p2, r1, r2
    <3> QED BY <3>1, <3>3 DEF p, c, r, Sim!OrNone
  <2> QED BY <2>2, <2>3
<1> QED BY <1>2, <1>3, <1>4, ModelIs

\* A figure is None as soon as one of its parts is.
LEMMA PartsKnown ==
  ASSUME NEW x, NEW y, NEW u
  PROVE  /\ Sim!Known(Sim!Quantize(x, u)) => Sim!Known(x)
         /\ Sim!Known(Sim!Over(x, y)) => Sim!Known(x) /\ Sim!Known(y) /\ y[1] # 0
         /\ Sim!Known(Sim!Times(x, y)) => Sim!Known(x) /\ Sim!Known(y)
         /\ Sim!Known(Sim!Positive(x)) => Sim!Known(x) /\ x[1] # 0 /\ Sim!Positive(x) = x
BY DEF Sim!Quantize, Sim!Over, Sim!Times, Sim!Positive, Sim!Known

LEMMA Comparisons ==
  ASSUME NEW a \in Int, NEW b \in Int, NEW u \in Nat \ {0}
  PROVE  /\ Sim!AtMost(<<a, u>>, <<b, u>>) <=> a <= b
         /\ Sim!RatLess(<<a, u>>, <<b, u>>) <=> a < b
<1> DEFINE x == a * u
           y == b * u
<1>1. x \in Int /\ y \in Int OBVIOUS
<1>2. (y <= x <=> b <= a) /\ (x <= y <=> a <= b) BY Cancel
<1>3. (Sim!RatLess(<<a, u>>, <<b, u>>) <=> x < y) /\ (Sim!AtMost(<<a, u>>, <<b, u>>) <=> ~(y < x))
  BY DEF Sim!AtMost, Sim!RatLess
<1> HIDE DEF x, y
<1> QED BY <1>1, <1>2, <1>3

\* A budget over what it buys, to the cent.
LEMMA CostIs ==
  ASSUME NEW v, LevelFits(v), NEW p \in Sim!Share, p[1] # 0
  PROVE  \E A \in Int : Sim!Money(Sim!Over(v.budget, p)) = <<A, 1>>
                          /\ Close(A, v.budget[1] * p[2], p[1])
<1> DEFINE b == v.budget[1]
           p1 == p[1]
           p2 == p[2]
<1>1. v.budget \in Frac /\ b \in Nat \ {0} /\ v.budget[2] = 1 BY PriceIs
<1>2. p1 \in Nat \ {0} /\ p2 \in Nat \ {0} BY SharesAre
<1>3. Sim!Over(v.budget, p) = <<b * p2, 1 * p1>> BY <1>1, OverIs
<1> HIDE DEF b, p1, p2
<1>4. b * p2 \in Int /\ 1 * p1 = p1 /\ (b * p2) * 1 = b * p2 BY <1>1, <1>2
<1>5. PICK A \in Int : Sim!Quantize(<<b * p2, p1>>, 1) = <<A, 1>> /\ Close(A, (b * p2) * 1, p1)
  BY <1>2, <1>4, QuantizeIs
<1>6. Sim!Money(Sim!Over(v.budget, p)) = <<A, 1>> BY <1>3, <1>4, <1>5 DEF Sim!Money
<1> QED BY <1>4, <1>5, <1>6 DEF b, p1, p2

\* What a budget returns, as a rate.
LEMMA ReturnIs ==
  ASSUME NEW v, LevelFits(v), NEW p \in Sim!Share, NEW a \in Int, v.aov = <<a, 1>>
  PROVE  \E Q \in Int :
            /\ Sim!Rate(Sim!Over(Sim!Times(p, v.aov), v.budget)) = <<Q, Unit.rate>>
            /\ Close(Q, (p[1] * a) * Unit.rate, p[2] * v.budget[1])
<1> DEFINE b == v.budget[1]
           p1 == p[1]
           p2 == p[2]
           U == Unit.rate
<1>1. v.budget \in Sim!Share /\ b \in Nat \ {0} /\ v.budget[2] = 1 BY PriceIs
<1>2. p1 \in Nat /\ p2 \in Nat \ {0} /\ p \in Frac /\ U \in Nat \ {0} BY SharesAre, UnitIs
<1>3. v.aov \in Frac /\ v.aov[1] = a /\ v.aov[2] = 1
  <2>1. 1 \in Nat \ {0} OBVIOUS
  <2> QED BY <2>1, PairIs
<1>4. Sim!Times(p, v.aov) = <<p1 * a, p2 * 1>> /\ Sim!Times(p, v.aov) \in Frac
  BY <1>2, <1>3, TimesIs
<1> DEFINE earned == Sim!Times(p, v.aov)
<1> HIDE DEF b, p1, p2, U
<1>5. p2 * 1 = p2 /\ p1 * a \in Int /\ p2 * b \in Nat \ {0}
  <2>1. p2 * b > 0 BY <1>1, <1>2, ProductSign
  <2> QED BY <1>1, <1>2, <2>1
<1>6. earned \in Frac /\ earned[1] = p1 * a /\ earned[2] = p2 BY <1>4, <1>5
<1> HIDE DEF earned
<1>7. Sim!Over(earned, v.budget) = <<(p1 * a) * 1, p2 * b>>
  <2>1. v.budget[1] # 0 /\ v.budget[1] = b BY <1>1 DEF b
  <2> QED BY <1>1, <1>6, <2>1, OverIs
<1>8. (p1 * a) * 1 = p1 * a BY <1>5
<1>9. PICK Q \in Int : Sim!Quantize(<<p1 * a, p2 * b>>, U) = <<Q, U>> /\ Close(Q, (p1 * a) * U, p2 * b)
  BY <1>2, <1>5, QuantizeIs
<1>10. Sim!Rate(Sim!Over(earned, v.budget)) = <<Q, U>> BY <1>7, <1>8, <1>9 DEF Sim!Rate, U
<1> QED BY <1>9, <1>10 DEF earned, b, p1, p2, U

\* A cost per order exists only where something is bought.
LEMMA CostKnown ==
  ASSUME NEW v, LevelFits(v), NEW model, Runs(model, v),
         Sim!Known(Sim!Money(Sim!Over(v.budget, Sim!Purchases(model, v.budget, v))))
  PROVE  LET p == Sim!Purchases(model, v.budget, v) IN p \in Sim!Share /\ p[1] # 0
<1> DEFINE p == Sim!Purchases(model, v.budget, v)
<1>1. p \in Sim!OrNone(Sim!Share) BY BoughtIs
<1> HIDE DEF p
<1>2. Sim!Known(Sim!Over(v.budget, p)) BY PartsKnown DEF Sim!Money, p
<1>3. Sim!Known(p) /\ p[1] # 0 BY <1>2, PartsKnown
<1> QED BY <1>1, <1>3 DEF p, Sim!OrNone, Sim!Known

\* A count, rounded.
LEMMA RateOf ==
  ASSUME NEW x \in Sim!Share
  PROVE  \E C \in Int : /\ Sim!Rate(x) = <<C, Unit.rate>> /\ Close(C, x[1] * Unit.rate, x[2])
                        /\ C \in Nat
<1>1. x = <<x[1], x[2]>> /\ x[1] \in Int /\ x[1] >= 0 /\ x[2] \in Nat \ {0}
  BY SharesAre, FracIs
<1>2. PICK C \in Int : /\ Sim!Quantize(<<x[1], x[2]>>, Unit.rate) = <<C, Unit.rate>>
                      /\ Close(C, x[1] * Unit.rate, x[2]) /\ C \in Nat
  BY <1>1, UnitIs, QuantizeIs
<1> QED BY <1>1, <1>2 DEF Sim!Rate

LEMMA MinCvrAgrees ==
  ASSUME NEW v, LevelFits(v), NEW model, Runs(model, v), NEW refund, NEW profit
  PROVE  LET s == Sim!Funnel(model, v.budget, v, refund, profit)
             e == Sim!BreakEven(s, v.budget, v.even_cpa, v.even_roas)
         IN  /\ Sim!Known(s.cpa) /\ Sim!Known(e.minCvr) /\ v.even_cpa[1] > 0
             /\ Sim!AtMost(s.cvr, s.clicks)
             => /\ Sim!RatLess(e.minCvr, s.cvr) => Sim!AtMost(s.cpa, v.even_cpa)
                /\ Sim!RatLess(s.cvr, e.minCvr) => Sim!AtMost(v.even_cpa, s.cpa)
<1> DEFINE p == Sim!Purchases(model, v.budget, v)
           c == Sim!Clicks(model, v.budget, v)
           K == v.even_cpa
           U == Unit.rate
           b == v.budget[1]
           clicks == Sim!Rate(c)
           cpa == Sim!Money(Sim!Over(v.budget, p))
           low == Sim!Rate(Sim!Over(v.budget, Sim!Times(Sim!Positive(K), clicks)))
<1>1. LET s == Sim!Funnel(model, v.budget, v, refund, profit)
          e == Sim!BreakEven(s, v.budget, v.even_cpa, v.even_roas)
      IN  s.cvr = v.cvr /\ s.cpa = cpa /\ s.clicks = clicks /\ e.minCvr = low
  BY DEF Sim!Funnel, Sim!BreakEven
<1>2. SUFFICES ASSUME Sim!Known(cpa), Sim!Known(low), K[1] > 0, Sim!AtMost(v.cvr, clicks)
               PROVE  /\ Sim!RatLess(low, v.cvr) => Sim!AtMost(cpa, K)
                      /\ Sim!RatLess(v.cvr, low) => Sim!AtMost(K, cpa)
  BY <1>1
<1>u. U \in Nat \ {0} /\ 1 \in Nat \ {0} BY UnitIs
<1>3. /\ Sim!Known(K) /\ Sim!Positive(K) = K /\ Sim!Known(clicks) /\ Sim!Known(c)
      /\ Sim!Times(K, clicks)[1] # 0
  <2> HIDE DEF c, K
  <2>1. Sim!Known(Sim!Times(Sim!Positive(K), clicks))
        /\ Sim!Times(Sim!Positive(K), clicks)[1] # 0
    BY <1>2, PartsKnown DEF Sim!Rate
  <2>2. Sim!Known(Sim!Positive(K)) /\ Sim!Known(clicks) BY <2>1, PartsKnown
  <2> QED BY <2>1, <2>2, PartsKnown DEF Sim!Rate
<1>4. K[1] \in Nat \ {0} /\ K = <<K[1], 1>>
  <2>1. K \in InParts(Int, 1) BY DEF LevelFits
  <2> HIDE DEF K
  <2> QED BY <1>2, <1>3, <2>1, InPartsIs
<1>5. /\ p \in Sim!Share /\ c \in Sim!Share /\ v.cvr \in Sim!Share
      /\ p[1] * (c[2] * v.cvr[2]) = (c[1] * v.cvr[1]) * p[2]
  BY <1>3, BoughtIs
<1>6. v.cvr[1] \in Nat /\ v.cvr[2] = U /\ v.cvr = <<v.cvr[1], U>>
  <2>1. v.cvr \in InParts(Nat, U) /\ Sim!Known(v.cvr) BY <1>5, SharesAre DEF LevelFits
  <2> QED BY <2>1, InPartsIs
<1>7. p[1] # 0 BY <1>2, CostKnown
<1> DEFINE k == K[1]
           r == v.cvr[1]
           p1 == p[1]
           p2 == p[2]
           c1 == c[1]
           c2 == c[2]
<1>8. /\ b \in Nat \ {0} /\ v.budget \in Frac /\ v.budget[2] = 1
      /\ p1 \in Nat \ {0} /\ p2 \in Nat \ {0} /\ c1 \in Nat /\ c2 \in Nat \ {0}
  <2>1. p1 \in Nat /\ p2 \in Nat \ {0} /\ c1 \in Nat /\ c2 \in Nat \ {0}
    BY <1>5, SharesAre
  <2> QED BY <1>7, <2>1, PriceIs
<1>9. PICK A \in Int : cpa = <<A, 1>> /\ Close(A, b * p2, p1) BY <1>5, <1>7, CostIs
<1>10. PICK C \in Int : clicks = <<C, U>> /\ Close(C, c1 * U, c2) /\ C \in Nat
  BY <1>5, RateOf
<1> DEFINE T == Sim!Times(K, clicks)
<1>11. T = <<k * C, 1 * U>> /\ T \in Sim!Share
  <2>1. <<C, U>> \in Sim!Share /\ <<C, U>> \in Frac BY <1>10, <1>u, PairIs
  <2>2. K \in Sim!Share /\ K \in Frac
    <3>1. K[1] \in Int /\ K[1] >= 0 BY <1>4
    <3> HIDE DEF K
    <3>2. <<K[1], 1>> \in Sim!Share /\ <<K[1], 1>> \in Frac BY <1>u, <3>1, PairIs
    <3> QED BY <1>4, <3>2
  <2>3. K[2] = 1 /\ clicks[1] = C /\ clicks[2] = U BY <1>4, <1>10
  <2> HIDE DEF K, clicks
  <2> QED BY <1>10, <2>1, <2>2, <2>3, TimesIs
<1>12. T[1] # 0 /\ 1 * U = U BY <1>3, <1>u
<1>13. k * C \in Nat \ {0} /\ C \in Nat \ {0} /\ T[1] = k * C /\ T[2] = U
  <2>1. T[1] = k * C /\ T[2] = U BY <1>11, <1>12
  <2>2. k \in Nat \ {0} BY <1>4
  <2> HIDE DEF T, k
  <2>3. k * C # 0 /\ k * C \in Nat BY <1>10, <1>12, <2>1, <2>2
  <2>4. C # 0 BY <2>2, <2>3
  <2> QED BY <1>10, <2>1, <2>3, <2>4
<1>14. Sim!Over(v.budget, T) = <<b * U, 1 * (k * C)>>
  <2> HIDE DEF T
  <2>1. Sim!Over(v.budget, T) = <<v.budget[1] * T[2], v.budget[2] * T[1]>>
    BY <1>8, <1>11, <1>12, OverIs
  <2> QED BY <1>8, <1>13, <2>1
<1> HIDE DEF p, c, U, b, clicks, cpa, k, r, p1, p2, c1, c2, T
<1>15. 1 * (k * C) = k * C /\ b * U \in Int BY <1>8, <1>13, <1>u
<1>16. PICK M \in Int : Sim!Quantize(<<b * U, k * C>>, U) = <<M, U>> /\ Close(M, (b * U) * U, k * C)
  BY <1>13, <1>15, <1>u, QuantizeIs
<1>17. low = <<M, U>> BY <1>3, <1>14, <1>15, <1>16 DEF Sim!Rate, T, U
<1>18. v.cvr = <<r, U>> /\ K = <<k, 1>> /\ r \in Nat /\ k \in Nat \ {0}
  BY <1>4, <1>6 DEF r, k, U
<1>19. r <= C BY <1>2, <1>10, <1>18, <1>u, Comparisons
<1>20. p1 * (c2 * U) = (c1 * r) * p2 BY <1>5, <1>6 DEF p1, p2, c1, c2, r, U
<1>21. (M < r => A <= k) /\ (r < M => k <= A)
  BY <1>8, <1>9, <1>10, <1>13, <1>16, <1>18, <1>19, <1>20, <1>u, CvrHint
<1>22. /\ Sim!RatLess(low, v.cvr) <=> M < r
       /\ Sim!RatLess(v.cvr, low) <=> r < M
       /\ Sim!AtMost(cpa, K) <=> A <= k
       /\ Sim!AtMost(K, cpa) <=> k <= A
  <2> HIDE DEF low, K
  <2>1. r \in Int /\ k \in Int BY <1>18
  <2> QED BY <1>9, <1>17, <1>18, <1>u, <2>1, Comparisons
<1> QED BY <1>21, <1>22

LEMMA MinAovAgrees ==
  ASSUME NEW v, LevelFits(v), NEW model, Runs(model, v), NEW refund, NEW profit
  PROVE  LET s == Sim!Funnel(model, v.budget, v, refund, profit)
             e == Sim!BreakEven(s, v.budget, v.even_cpa, v.even_roas)
         IN  /\ Sim!Known(s.cpa) /\ Sim!Known(e.minAov) /\ s.aov[1] <= s.purchases[1]
             => /\ Sim!RatLess(e.minAov, s.aov) => Sim!AtMost(v.even_roas, s.roas)
                /\ Sim!RatLess(s.aov, e.minAov) => Sim!AtMost(s.roas, v.even_roas)
<1> DEFINE p == Sim!Purchases(model, v.budget, v)
           R == v.even_roas
           U == Unit.rate
           bought == Sim!Rate(p)
           cpa == Sim!Money(Sim!Over(v.budget, p))
           roas == Sim!Rate(Sim!Over(Sim!Times(p, v.aov), v.budget))
           low == Sim!Money(Sim!Over(Sim!Times(Sim!Positive(R), v.budget), bought))
<1>1. LET s == Sim!Funnel(model, v.budget, v, refund, profit)
          e == Sim!BreakEven(s, v.budget, v.even_cpa, v.even_roas)
      IN  /\ s.aov = v.aov /\ s.cpa = cpa /\ s.purchases = bought /\ s.roas = roas
          /\ e.minAov = low
  BY DEF Sim!Funnel, Sim!BreakEven
<1>2. SUFFICES ASSUME Sim!Known(cpa), Sim!Known(low), v.aov[1] <= bought[1]
               PROVE  /\ Sim!RatLess(low, v.aov) => Sim!AtMost(R, roas)
                      /\ Sim!RatLess(v.aov, low) => Sim!AtMost(roas, R)
  BY <1>1
<1>u. U \in Nat \ {0} /\ 1 \in Nat \ {0} BY UnitIs
<1>3. p \in Sim!Share /\ p[1] # 0 BY <1>2, CostKnown
<1>4. /\ Sim!Known(R) /\ Sim!Positive(R) = R /\ R[1] # 0 /\ bought[1] # 0
  <2> HIDE DEF p, R, bought
  <2>1. Sim!Known(Sim!Over(Sim!Times(Sim!Positive(R), v.budget), bought))
    BY <1>2, PartsKnown DEF Sim!Money
  <2>2. Sim!Known(Sim!Times(Sim!Positive(R), v.budget)) /\ bought[1] # 0 BY <2>1, PartsKnown
  <2>3. Sim!Known(Sim!Positive(R)) BY <2>2, PartsKnown
  <2> QED BY <2>2, <2>3, PartsKnown
<1>5. \E E \in Nat \ {0} : R = <<E, U>>
  <2>1. R \in InParts(Nat, U) BY DEF LevelFits
  <2> HIDE DEF R, U
  <2> QED BY <1>4, <2>1, InPartsIs
<1>6. PICK E \in Nat \ {0} : R = <<E, U>> BY <1>5
<1>7. PICK a \in Int : v.aov = <<a, 1>>
  <2>1. v.aov \in InParts(Int, 1) /\ Sim!Known(v.aov) BY ModelIs DEF LevelFits
  <2> QED BY <2>1, InPartsIs
<1>8. PICK Q \in Int : roas = <<Q, U>> /\ Close(Q, (p[1] * a) * U, p[2] * v.budget[1])
  BY <1>3, <1>7, ReturnIs
<1> DEFINE b == v.budget[1]
           p1 == p[1]
           p2 == p[2]
<1>9. /\ b \in Nat \ {0} /\ v.budget \in Sim!Share /\ v.budget \in Frac /\ v.budget[2] = 1
      /\ p1 \in Nat \ {0} /\ p2 \in Nat \ {0}
  <2>1. p1 \in Nat /\ p2 \in Nat \ {0} BY <1>3, SharesAre
  <2> QED BY <1>3, <2>1, PriceIs
<1>10. PICK P \in Int : bought = <<P, U>> /\ Close(P, p1 * U, p2) /\ P \in Nat
  BY <1>3, <1>u, RateOf
<1>11. P \in Nat \ {0} BY <1>4, <1>10
<1> HIDE DEF p, p1, p2, b, U, R, bought, cpa, roas
<1> DEFINE owed == Sim!Times(R, v.budget)
<1>12. owed \in Frac /\ owed[1] = E * b /\ owed[2] = U
  <2>1. R \in Frac /\ R[1] = E /\ R[2] = U BY <1>6, <1>u, PairIs
  <2>2. owed = <<E * b, U * 1>> /\ owed \in Frac BY <1>9, <2>1, TimesIs DEF b
  <2> QED BY <1>u, <2>2
<1> HIDE DEF owed
<1>13. Sim!Over(owed, bought) = <<(E * b) * U, U * P>>
  <2>1. bought \in Sim!Share /\ bought[1] = P /\ bought[2] = U BY <1>10, <1>u, PairIs
  <2> QED BY <1>11, <1>12, <2>1, OverIs
<1>14. (E * b) * U \in Int /\ U * P \in Nat \ {0} /\ ((E * b) * U) * 1 = (E * b) * U
  <2>1. U * P > 0 BY <1>11, <1>u, ProductSign
  <2> QED BY <1>9, <1>11, <1>u, <2>1
<1>15. PICK L \in Int : /\ Sim!Quantize(<<(E * b) * U, U * P>>, 1) = <<L, 1>>
                        /\ Close(L, ((E * b) * U) * 1, U * P)
  BY <1>14, <1>u, QuantizeIs
<1>16. low = <<L, 1>> BY <1>4, <1>13, <1>15 DEF Sim!Money, owed
<1>17. a <= P BY <1>2, <1>7, <1>10
<1>18. Close(L, (E * b) * U, U * P) /\ Close(Q, (p1 * a) * U, p2 * b)
  BY <1>8, <1>14, <1>15 DEF p1, p2, b
<1>19. (L < a => E <= Q) /\ (a < L => Q <= E)
  BY <1>9, <1>10, <1>11, <1>17, <1>18, <1>u, AovHint
<1>20. /\ Sim!RatLess(low, v.aov) <=> L < a
       /\ Sim!RatLess(v.aov, low) <=> a < L
       /\ Sim!AtMost(R, roas) <=> E <= Q
       /\ Sim!AtMost(roas, R) <=> Q <= E
  <2> HIDE DEF low
  <2>1. /\ Sim!RatLess(<<L, 1>>, <<a, 1>>) <=> L < a
        /\ Sim!RatLess(<<a, 1>>, <<L, 1>>) <=> a < L
    BY <1>u, Comparisons
  <2>2. E \in Int OBVIOUS
  <2>3. /\ Sim!AtMost(<<E, U>>, <<Q, U>>) <=> E <= Q
        /\ Sim!AtMost(<<Q, U>>, <<E, U>>) <=> Q <= E
    BY <1>u, <2>2, Comparisons
  <2> QED BY <1>6, <1>7, <1>8, <1>16, <2>1, <2>3
<1> QED BY <1>19, <1>20

LEMMA MaxCpaAgrees ==
  ASSUME NEW v, LevelFits(v), NEW model, Runs(model, v), NEW refund, NEW profit
  PROVE  LET s == Sim!Funnel(model, v.budget, v, refund, profit)
             e == Sim!BreakEven(s, v.budget, v.even_cpa, v.even_roas)
         IN  /\ Sim!Known(s.cpa) /\ Sim!Known(e.maxCpa)
             => /\ Sim!AtMost(<<s.cpa[1] + 1, 1>>, e.maxCpa) => Sim!AtMost(v.even_roas, s.roas)
                /\ Sim!AtMost(e.maxCpa, <<s.cpa[1] + -1, 1>>) => Sim!AtMost(s.roas, v.even_roas)
<1> DEFINE p == Sim!Purchases(model, v.budget, v)
           R == v.even_roas
           U == Unit.rate
           cent == Unit.cent
           cpa == Sim!Money(Sim!Over(v.budget, p))
           roas == Sim!Rate(Sim!Over(Sim!Times(p, v.aov), v.budget))
           high == Sim!Quantize(Sim!Over(v.aov, Sim!Positive(R)), cent)
<1>1. LET s == Sim!Funnel(model, v.budget, v, refund, profit)
          e == Sim!BreakEven(s, v.budget, v.even_cpa, v.even_roas)
      IN  s.cpa = cpa /\ s.roas = roas /\ e.maxCpa = high
  BY DEF Sim!Funnel, Sim!BreakEven
<1>2. SUFFICES ASSUME Sim!Known(cpa), Sim!Known(high)
               PROVE  /\ Sim!AtMost(<<cpa[1] + 1, 1>>, high) => Sim!AtMost(R, roas)
                      /\ Sim!AtMost(high, <<cpa[1] + -1, 1>>) => Sim!AtMost(roas, R)
  BY <1>1
<1>u. U \in Nat \ {0} /\ 1 \in Nat \ {0} /\ cent \in Nat \ {0} BY UnitIs
<1>3. p \in Sim!Share /\ p[1] # 0 BY <1>2, CostKnown
<1>4. Sim!Known(R) /\ Sim!Positive(R) = R /\ R[1] # 0
  <2> HIDE DEF R
  <2>1. Sim!Known(Sim!Over(v.aov, Sim!Positive(R))) BY <1>2, PartsKnown
  <2>2. Sim!Known(Sim!Positive(R)) BY <2>1, PartsKnown
  <2> QED BY <2>2, PartsKnown
<1>5. \E E \in Nat \ {0} : R = <<E, U>>
  <2>1. R \in InParts(Nat, U) BY DEF LevelFits
  <2> HIDE DEF R, U
  <2> QED BY <1>4, <2>1, InPartsIs
<1>6. PICK E \in Nat \ {0} : R = <<E, U>> BY <1>5
<1>7. PICK a \in Int : v.aov = <<a, 1>>
  <2>1. v.aov \in InParts(Int, 1) /\ Sim!Known(v.aov) BY ModelIs DEF LevelFits
  <2> QED BY <2>1, InPartsIs
<1>8. PICK Q \in Int : roas = <<Q, U>> /\ Close(Q, (p[1] * a) * U, p[2] * v.budget[1])
  BY <1>3, <1>7, ReturnIs
<1>9. PICK A \in Int : cpa = <<A, 1>> /\ Close(A, v.budget[1] * p[2], p[1])
  BY <1>3, CostIs
<1> DEFINE b == v.budget[1]
           p1 == p[1]
           p2 == p[2]
<1>10. b \in Nat \ {0} /\ p1 \in Nat \ {0} /\ p2 \in Nat \ {0}
  <2>1. p1 \in Nat /\ p2 \in Nat \ {0} BY <1>3, SharesAre
  <2> QED BY <1>3, <2>1, PriceIs
<1> HIDE DEF p, p1, p2, b, U, R, cent, cpa, roas
<1>11. Sim!Over(v.aov, R) = <<a * U, E>>
  <2>1. R \in Sim!Share /\ R[1] = E /\ R[2] = U BY <1>6, <1>u, PairIs
  <2>2. v.aov \in Frac /\ v.aov[1] = a /\ v.aov[2] = 1 BY <1>7, <1>u, PairIs
  <2>3. Sim!Over(v.aov, R) = <<a * U, 1 * E>> BY <2>1, <2>2, OverIs
  <2> QED BY <2>3
<1>12. a * U \in Int BY <1>u
<1>13. PICK X \in Int : Sim!Quantize(<<a * U, E>>, cent) = <<X, cent>> /\ Close(X, (a * U) * cent, E)
  BY <1>12, <1>u, QuantizeIs
<1>14. high = <<X, cent>> BY <1>4, <1>11, <1>13
<1> HIDE DEF high
<1>15. Close(A, b * p2, p1) /\ Close(Q, (p1 * a) * U, p2 * b) BY <1>8, <1>9 DEF p1, p2, b
<1>16. ((A + 1) * cent <= X => E <= Q) /\ (X <= (A - 1) * cent => Q <= E)
  BY <1>10, <1>13, <1>15, <1>u, CpaHint
<1>17. (Sim!AtMost(R, roas) <=> E <= Q) /\ (Sim!AtMost(roas, R) <=> Q <= E)
  BY <1>6, <1>8, <1>u, Comparisons
<1>18. /\ Sim!AtMost(<<A + 1, 1>>, high) => (A + 1) * cent <= X
       /\ Sim!AtMost(high, <<A + -1, 1>>) => X <= (A - 1) * cent
  <2>1. A + -1 = A - 1 /\ X * 1 = X /\ (A + 1) * cent \in Int /\ (A - 1) * cent \in Int
    BY <1>u
  <2>2. /\ Sim!AtMost(<<A + 1, 1>>, <<X, cent>>) <=> ~(X * 1 < (A + 1) * cent)
        /\ Sim!AtMost(<<X, cent>>, <<A - 1, 1>>) <=> ~((A - 1) * cent < X * 1)
    BY DEF Sim!AtMost, Sim!RatLess
  <2> DEFINE f == (A + 1) * cent
             g == (A - 1) * cent
  <2>3. f \in Int /\ g \in Int /\ A + -1 = A - 1 BY <2>1
  <2>4. /\ Sim!AtMost(<<A + 1, 1>>, <<X, cent>>) <=> ~(X < f)
        /\ Sim!AtMost(<<X, cent>>, <<A - 1, 1>>) <=> ~(g < X)
    BY <2>1, <2>2
  <2> HIDE DEF f, g
  <2>5. (~(X < f) => f <= X) /\ (~(g < X) => X <= g) BY <2>3
  <2>6. /\ Sim!AtMost(<<A + 1, 1>>, high) => f <= X
        /\ Sim!AtMost(high, <<A + -1, 1>>) => X <= g
    BY <1>14, <2>3, <2>4, <2>5
  <2> QED BY <2>6 DEF f, g
<1>19. cpa[1] = A BY <1>9
<1> QED BY <1>16, <1>17, <1>18, <1>19

-----------------------------------------------------------------------------
(* Sums and least elements of finite sets.                                 *)

\* Of a family of subsets of a finite set one has no other below it.
LEMMA Minimal ==
  ASSUME NEW S, IsFiniteSet(S), NEW family, family \subseteq SUBSET S, family # {}
  PROVE  \E s \in family : \A t \in family : ~(t \subseteq s /\ t # s)
<1>1. \A T \in SUBSET S : IsFiniteSet(T) BY FS_Subset
<1>2. family \subseteq FiniteSubsetsOf(S) BY <1>1 DEF FiniteSubsetsOf
<1>3. IsWellFoundedOn(StrictSubsetOrdering(S), FiniteSubsetsOf(S))
  BY FS_StrictSubsetOrderingWellFounded
<1>4. PICK s \in family : \A t \in family : <<t, s>> \notin StrictSubsetOrdering(S)
  BY <1>2, <1>3, WFMin
<1>5. ASSUME NEW t \in family, t \subseteq s, t # s PROVE FALSE
  <2>1. t \in SUBSET S /\ s \in SUBSET S BY <1>5
  <2>2. <<t, s>> \in StrictSubsetOrdering(S) BY <1>5, <2>1 DEF StrictSubsetOrdering
  <2> QED BY <1>4, <2>2
<1> QED
  <2> WITNESS s \in family
  <2> QED BY <1>5

\* The recursion that a sum is evaluated by.
First(s) == CHOOSE x \in s : TRUE
Rest(s) == s \ {First(s)}
Sums(g, f, U) == g = [s \in SUBSET U |-> IF s = {} THEN 0 ELSE f[First(s)] + g[Rest(s)]]

LEMMA Recurs ==
  ASSUME NEW f, NEW S
  PROVE  Sim!SumFunctionOnSet(f, S) = (CHOOSE g : Sums(g, f, S))[S]
BY DEF Sim!SumFunctionOnSet, Sim!FoldFunctionOnSet, Sim!MapThenFoldSet, Sums, First,
   Rest

LEMMA RestIsLess ==
  ASSUME NEW s, s # {}
  PROVE  First(s) \in s /\ Rest(s) \subseteq s /\ Rest(s) # s
BY DEF First, Rest

LEMMA OneValue ==
  ASSUME NEW S, IsFiniteSet(S), NEW f, NEW U \in SUBSET S, NEW V \in SUBSET S,
         NEW g, Sums(g, f, U), NEW h, Sums(h, f, V)
  PROVE  \A s \in SUBSET (U \cap V) : g[s] = h[s]
<1> DEFINE bad == {s \in SUBSET (U \cap V) : g[s] # h[s]}
<1> SUFFICES ASSUME bad # {} PROVE FALSE OBVIOUS
<1>1. bad \subseteq SUBSET S OBVIOUS
<1>2. PICK s \in bad : \A t \in bad : ~(t \subseteq s /\ t # s)
  <2> HIDE DEF bad
  <2> QED BY <1>1, Minimal
<1>3. s \in SUBSET U /\ s \in SUBSET V /\ g[s] # h[s] OBVIOUS
<1>4. g[s] = IF s = {} THEN 0 ELSE f[First(s)] + g[Rest(s)] BY <1>3 DEF Sums
<1>5. h[s] = IF s = {} THEN 0 ELSE f[First(s)] + h[Rest(s)] BY <1>3 DEF Sums
<1>6. s # {} BY <1>3, <1>4, <1>5
<1>7. g[Rest(s)] = h[Rest(s)] BY <1>2, <1>3, <1>6, RestIsLess
<1> QED BY <1>3, <1>4, <1>5, <1>7

LEMMA SumsExist ==
  ASSUME NEW S, IsFiniteSet(S), NEW f
  PROVE  \A U \in SUBSET S : \E g : Sums(g, f, U)
<1> DEFINE bad == {U \in SUBSET S : ~\E g : Sums(g, f, U)}
<1> SUFFICES ASSUME bad # {} PROVE FALSE OBVIOUS
<1>1. PICK U \in bad : \A t \in bad : ~(t \subseteq U /\ t # U)
  <2> HIDE DEF bad
  <2>1. bad \subseteq SUBSET S BY DEF bad
  <2> QED BY <2>1, Minimal
<1> DEFINE of(t) == CHOOSE g : Sums(g, f, t)
<1>2. U \in SUBSET S OBVIOUS
<1>3. ASSUME NEW t \in SUBSET U, t # U PROVE Sums(of(t), f, t)
  <2>1. \E g : Sums(g, f, t) BY <1>1, <1>2, <1>3
  <2> QED BY <2>1
<1> HIDE DEF of
<1> DEFINE sum(s) == IF s = {} THEN 0 ELSE f[First(s)] + of(Rest(s))[Rest(s)]
           h == [s \in SUBSET U |-> sum(s)]
<1>4. ASSUME NEW s \in SUBSET U, s # U PROVE sum(s) = of(s)[s]
  <2>1. of(s)[s] = IF s = {} THEN 0 ELSE f[First(s)] + of(s)[Rest(s)]
    BY <1>3, <1>4 DEF Sums
  <2>2. CASE s = {} BY <2>1, <2>2
  <2>3. CASE s # {}
    <3>1. Rest(s) \in SUBSET s /\ Rest(s) \in SUBSET U /\ Rest(s) # U
      BY <1>4, <2>3, RestIsLess
    <3>2. Sums(of(s), f, s) /\ Sums(of(Rest(s)), f, Rest(s)) BY <1>3, <1>4, <3>1
    <3>3. Rest(s) \in SUBSET (s \cap Rest(s)) BY <3>1
    <3>4. s \in SUBSET S /\ Rest(s) \in SUBSET S BY <1>2, <3>1
    <3>5. \A t \in SUBSET (s \cap Rest(s)) : of(s)[t] = of(Rest(s))[t]
      BY <3>2, <3>4, OneValue
    <3>6. of(s)[Rest(s)] = of(Rest(s))[Rest(s)] BY <3>3, <3>5
    <3> QED BY <2>1, <2>3, <3>6
  <2> QED BY <2>2, <2>3
<1>5. ASSUME NEW s \in SUBSET U
      PROVE  h[s] = IF s = {} THEN 0 ELSE f[First(s)] + h[Rest(s)]
  <2>1. CASE s = {} BY <2>1
  <2>2. CASE s # {}
    <3>1. Rest(s) \in SUBSET U /\ Rest(s) # U BY <1>5, <2>2, RestIsLess
    <3>2. h[Rest(s)] = sum(Rest(s)) BY <3>1
    <3>3. h[Rest(s)] = of(Rest(s))[Rest(s)] BY <1>4, <3>1, <3>2
    <3>4. h[s] = sum(s) OBVIOUS
    <3> QED BY <2>2, <3>3, <3>4
  <2> QED BY <2>1, <2>2
<1>6. h = [s \in SUBSET U |-> h[s]] OBVIOUS
<1> HIDE DEF h
<1>7. Sums(h, f, U) BY <1>5, <1>6 DEF Sums
<1> QED BY <1>2, <1>7

\* A sum of members of a set that addition does not leave is in the set.
LEMMA SumStays ==
  ASSUME NEW S, IsFiniteSet(S), NEW f, NEW T, 0 \in T, \A a, b \in T : a + b \in T,
         \A x \in S : f[x] \in T
  PROVE  Sim!SumFunctionOnSet(f, S) \in T
<1> DEFINE g == CHOOSE g : Sums(g, f, S)
           bad == {s \in SUBSET S : g[s] \notin T}
<1>1. Sums(g, f, S) BY SumsExist
<1> HIDE DEF g
<1>2. bad = {}
  <2> SUFFICES ASSUME bad # {} PROVE FALSE OBVIOUS
  <2>1. PICK s \in bad : \A t \in bad : ~(t \subseteq s /\ t # s)
    <3> HIDE DEF bad
    <3>1. bad \subseteq SUBSET S BY DEF bad
    <3> QED BY <3>1, Minimal
  <2>2. g[s] = IF s = {} THEN 0 ELSE f[First(s)] + g[Rest(s)] BY <1>1 DEF Sums
  <2>3. s # {} BY <2>2
  <2>4. g[Rest(s)] \in T BY <2>1, <2>3, RestIsLess
  <2>5. f[First(s)] \in T BY <2>3, RestIsLess
  <2> QED BY <2>2, <2>3, <2>4, <2>5
<1>3. g[S] \in T BY <1>2
<1> QED BY <1>3, Recurs DEF g
LEMMA FiniteHasFloor ==
  ASSUME NEW S, IsFiniteSet(S), \A x \in S : x \in Int
  PROVE  \E b \in Int : \A x \in S : b <= x
<1> DEFINE bad == {s \in SUBSET S : ~\E b \in Int : \A x \in s : b <= x}
<1> SUFFICES ASSUME bad # {} PROVE FALSE OBVIOUS
<1>1. PICK s \in bad : \A t \in bad : ~(t \subseteq s /\ t # s)
  <2> HIDE DEF bad
  <2>1. bad \subseteq SUBSET S BY DEF bad
  <2> QED BY <2>1, Minimal
<1>2. s # {} OBVIOUS
<1>3. PICK x \in s : TRUE BY <1>2
<1>4. s \ {x} \in SUBSET S /\ s \ {x} \notin bad BY <1>1, <1>3
<1>5. PICK b \in Int : \A y \in s \ {x} : b <= y BY <1>4
<1>6. \A y \in s : (IF x <= b THEN x ELSE b) <= y BY <1>3, <1>5
<1> QED BY <1>3, <1>5, <1>6

LEMMA ImageIsFinite ==
  ASSUME NEW S, IsFiniteSet(S), NEW f, f = [x \in S |-> f[x]]
  PROVE  IsFiniteSet({f[x] : x \in S})
<1>1. f \in Surjection(S, {f[x] : x \in S}) BY DEF Surjection
<1> QED BY <1>1, FS_Surjection


LEMMA LeastIs ==
  ASSUME NEW S, IsFiniteSet(S), S # {}, \A x \in S : x \in Int
  PROVE  Sim!Min(S) \in S
<1>1. PICK b \in Int : \A x \in S : b <= x BY FiniteHasFloor
<1> DEFINE T == {x - b : x \in S}
<1>2. T \subseteq Nat /\ T # {}
  <2>1. \A x \in S : x - b \in Nat /\ x - b \in T BY <1>1
  <2> QED BY <2>1
<1>3. PICK n \in T : \A k \in T : <<k, n>> \notin OpToRel(<, Nat)
  <2> HIDE DEF T
  <2> QED BY <1>2, NatLessThanWellFounded, WFMin
<1>4. PICK m \in S : n = m - b OBVIOUS
<1>5. ASSUME NEW x \in S PROVE m <= x
  <2>1. x - b \in T OBVIOUS
  <2>2. <<x - b, n>> \notin OpToRel(<, Nat) BY <1>3, <2>1
  <2>3. x - b \in Nat /\ n \in Nat /\ x \in Int /\ m \in Int BY <1>2, <2>1
  <2>4. ~(x - b < n) BY <2>2, <2>3 DEF OpToRel
  <2> QED BY <1>4, <2>3, <2>4
<1>6. \E y \in S : \A x \in S : y <= x BY <1>5
<1> QED BY <1>6 DEF Sim!Min

-----------------------------------------------------------------------------
(* What the tables admit, and what a run reads of them.                    *)

FactsFit ==
  /\ ads \in [Campaign -> [Sim!Calendar -> Sim!OrNone(Sim!AdFact)]]
  /\ sold \in [Sim!Calendar -> Sim!OrNone(Sim!SaleFact)]
  /\ Sim!PricesFit(catalog)

LEMMA SameSizes == ASSUME NEW S PROVE Sim!Cardinality(S) = Cardinality(S)
BY DEF Sim!Cardinality, Cardinality, Sim!IsFiniteSet, IsFiniteSet

LEMMA MoneyFits ==
  ASSUME NEW x \in Sim!OrNone(Frac)
  PROVE  /\ Sim!Money(x) \in InParts(Int, 1) /\ Sim!Money(x) \in Sim!OrNone(Frac)
         /\ x \in Sim!OrNone(Sim!Share) =>
               Sim!Money(x) \in InParts(Nat, 1) /\ Sim!Money(x) \in Sim!OrNone(Sim!Share)
<1>1. 1 \in Nat \ {0} OBVIOUS
<1> QED BY <1>1, QuantizeFits, InPartsFits DEF Sim!Money

LEMMA RateFits ==
  ASSUME NEW x \in Sim!OrNone(Sim!Share)
  PROVE  Sim!Rate(x) \in InParts(Nat, Unit.rate)
BY UnitIs, SharesAre, QuantizeFits DEF Sim!Rate

LEMMA EconomyIs ==
  ASSUME Sim!PricesFit(catalog)
  PROVE  /\ Sim!Economy.cpaLow \in Sim!OrNone(Int)
         /\ Sim!Known(Sim!Economy.roas) =>
               Sim!Economy.roas[1] \in Nat /\ Sim!Economy.average \in Sim!Share
<1> DEFINE P == {p \in DOMAIN catalog : Sim!Known(catalog[p].price)}
           best == Sim!BestDiscount({}, IF P = {} THEN NA
                                    ELSE Sim!Max({catalog[p].price : p \in P}))
           earned == [p \in P |-> Sim!ContributionProfit(catalog[p].price, catalog[p].cost, NA, best)]
           paid == [p \in P |-> Sim!CustomerRevenue(catalog[p].price, NA)]
           profit == Sim!SumFunctionOnSet(earned, P)
           revenue == Sim!SumFunctionOnSet(paid, P)
           all == {Sim!ContributionProfit(catalog[p].price, catalog[p].cost, NA, best) : p \in P}
<1>1. CASE P = {}
  <2>1. Sim!Economy = [average |-> NA, cpaLow |-> NA, cpaHigh |-> NA, roas |-> NA,
                   targetReason |-> "no_price"]
    BY <1>1 DEF Sim!Economy, Sim!Profile
  <2> QED BY <2>1 DEF Sim!OrNone, Sim!Known
<1>2. CASE P # {}
  <2>1. /\ Sim!Economy.cpaLow = Sim!Min(all)
        /\ Sim!Economy.roas = IF profit > 0 THEN <<revenue, profit>> ELSE NA
        /\ Sim!Economy.average = <<profit, Cardinality(P)>>
    BY <1>2, SameSizes DEF Sim!Economy, Sim!Profile
  <2>2. best = NA BY DEF Sim!BestDiscount
  <2>3. ASSUME NEW p \in P
        PROVE  /\ catalog[p].price \in Nat
               /\ paid[p] = catalog[p].price
               /\ earned[p] \in Int
    <3>1. catalog[p].price \in Nat /\ catalog[p].cost \in Sim!OrNone(Int)
      BY DEF Sim!PricesFit, Sim!OrNone, Sim!Known
    <3>2. paid[p] = catalog[p].price + 0 BY DEF Sim!CustomerRevenue, Sim!Known
    <3> HIDE DEF best
    <3>3. earned[p] = Sim!ContributionProfit(catalog[p].price, catalog[p].cost, NA, NA)
      BY <2>2
    <3> HIDE DEF earned
    <3>4. Sim!ContributionProfit(catalog[p].price, catalog[p].cost, NA, NA) \in Int
      BY <3>1 DEF Sim!ContributionProfit, Sim!CustomerRevenue, Sim!Known, Sim!OrNone
    <3> QED BY <3>1, <3>2, <3>3, <3>4
  <2>4. IsFiniteSet(P) BY SameSets, FS_Subset DEF Sim!PricesFit
  <2>5. profit \in Int /\ revenue \in Nat
    <3>1. 0 \in Int /\ (\A a, b \in Int : a + b \in Int)
          /\ 0 \in Nat /\ \A a, b \in Nat : a + b \in Nat OBVIOUS
    <3>2. \A p \in P : earned[p] \in Int /\ paid[p] \in Nat BY <2>3
    <3> HIDE DEF P, earned, paid
    <3> QED BY <2>4, <3>1, <3>2, SumStays
  <2>6. Sim!Min(all) \in Int
    <3>1. all = {earned[p] : p \in P} /\ earned = [p \in P |-> earned[p]] OBVIOUS
    <3>2. \A x \in all : x \in Int BY <2>3, <3>1
    <3>3. all # {} BY <1>2
    <3> HIDE DEF all, earned, P
    <3>4. IsFiniteSet(all) BY <2>4, <3>1, ImageIsFinite
    <3> QED BY <3>2, <3>3, <3>4, LeastIs
  <2>7. Cardinality(P) \in Nat \ {0}
    <3> HIDE DEF P
    <3> QED BY <1>2, <2>4, FS_CardinalityType, FS_EmptySet
  <2> DEFINE n == Cardinality(P)
  <2> HIDE DEF all, profit, revenue, n
  <2>8. Sim!Known(Sim!Economy.roas) => profit > 0 BY <2>1 DEF Sim!Known
  <2>9. profit > 0 => <<profit, n>> \in Sim!Share BY <2>5, <2>7 DEF Sim!Share, n
  <2>10. Sim!Economy.average = <<profit, n>> BY <2>1 DEF n
  <2> QED BY <2>1, <2>5, <2>6, <2>8, <2>9, <2>10 DEF Sim!OrNone
<1> QED BY <1>1, <1>2

\* A return that was computed from amounts to the cent.
LEMMA EvenIs ==
  ASSUME Sim!PricesFit(catalog)
  PROVE  /\ Sim!Whole(Sim!Economy.cpaLow) \in InParts(Int, 1)
         /\ Sim!BreakEvenRoas \in InParts(Nat, Unit.rate)
<1> DEFINE low == Sim!Economy.cpaLow
           roas == Sim!Economy.roas
           average == Sim!Economy.average
<1>1. low \in Sim!OrNone(Int) /\ (Sim!Known(roas) => roas[1] \in Nat /\ average \in Sim!Share)
  BY EconomyIs
<1>2. Sim!BreakEvenRoas =
        IF Sim!Known(roas)
        THEN Sim!Rate(Sim!Over(Sim!Money(<<roas[1], average[2]>>), Sim!Money(average)))
        ELSE NA
  BY DEF Sim!BreakEvenRoas
<1> HIDE DEF low, roas, average
<1>3. Sim!Whole(low) \in InParts(Int, 1)
  BY <1>1 DEF Sim!Whole, Sim!OrNone, InParts, Sim!Known
<1>4. ASSUME Sim!Known(roas) PROVE Sim!BreakEvenRoas \in InParts(Nat, Unit.rate)
  <2>1. <<roas[1], average[2]>> \in Sim!Share /\ average \in Sim!Share
    <3>1. average[2] \in Nat \ {0} BY <1>1, <1>4, SharesAre
    <3> QED BY <1>1, <1>4, <3>1 DEF Sim!Share
  <2> DEFINE paid == Sim!Money(<<roas[1], average[2]>>)
             earned == Sim!Money(average)
  <2>2. paid \in Sim!OrNone(Sim!Share) /\ earned \in Sim!OrNone(Sim!Share)
    BY <2>1, MoneyFits, SharesAre DEF Sim!OrNone
  <2>3. Sim!BreakEvenRoas = Sim!Rate(Sim!Over(paid, earned)) BY <1>2, <1>4
  <2> HIDE DEF paid, earned
  <2>4. Sim!Over(paid, earned) \in Sim!OrNone(Sim!Share) BY <2>2, OverFits, SharesAre
  <2>5. Sim!Rate(Sim!Over(paid, earned)) \in InParts(Nat, Unit.rate)
    BY <2>4, RateFits
  <2> QED BY <2>3, <2>5
<1>5. ASSUME ~Sim!Known(roas) PROVE Sim!BreakEvenRoas \in InParts(Nat, Unit.rate)
  <2>1. Sim!BreakEvenRoas = NA BY <1>2, <1>5
  <2> QED BY <2>1 DEF InParts, Sim!OrNone
<1>6. Sim!BreakEvenRoas \in InParts(Nat, Unit.rate) BY <1>4, <1>5
<1> QED BY <1>3, <1>6 DEF low

\* Totals are None or not negative, but for what orders brought.
LEMMA TotalsAre ==
  ASSUME FactsFit, NEW s, NEW days
  PROVE  LET t == Sim!Totals(s, days)
         IN  /\ t.spend \in Sim!OrNone(Sim!Share) /\ t.clicks \in Sim!OrNone(Sim!Share)
             /\ t.impressions \in Sim!OrNone(Sim!Share)
             /\ t.purchases \in Sim!OrNone(Sim!Share) /\ t.revenue \in Sim!OrNone(Frac)
<1> DEFINE keys == Sim!AdRowsOf(s, days)
           orders == Sim!SoldDays(days \intersect Sim!Calendar)
           ad(column) == [k \in keys |-> ads[k[1]][k[2]][column]]
           order(column) == [d \in orders |-> sold[d][column]]
           t == Sim!Totals(s, days)
<1>1. /\ t.spend = IF keys = {} THEN NA ELSE <<Sim!SumFunctionOnSet(ad("spend"), keys), 1>>
      /\ t.clicks = IF keys = {} THEN NA ELSE <<Sim!SumFunctionOnSet(ad("clicks"), keys), 1>>
      /\ t.impressions = IF keys = {} THEN NA ELSE <<Sim!SumFunctionOnSet(ad("impressions"), keys), 1>>
      /\ t.purchases = IF orders = {} THEN NA ELSE <<Sim!SumFunctionOnSet(order("purchases"), orders), 1>>
      /\ t.revenue = IF orders = {} THEN NA ELSE <<Sim!SumFunctionOnSet(order("revenue"), orders), 1>>
  BY DEF Sim!Totals
<1>2. IsFiniteSet(Sim!Calendar)
  BY FS_Interval, PlanningAssumption DEF Sim!Calendar, Sim!ForecastAssumption,
     Sim!SimulatorAssumption
<1>3. IsFiniteSet(days \intersect Sim!Calendar) BY <1>2, FS_Subset
<1>4. IsFiniteSet(keys) /\ keys \subseteq Campaign \X Sim!Calendar
  <2>1. IsFiniteSet(Campaign \X (days \intersect Sim!Calendar))
    BY <1>3, FS_Product, SameSets, PlanningAssumption DEF Sim!SimulatorAssumption
  <2>2. keys \subseteq Campaign \X (days \intersect Sim!Calendar) BY DEF Sim!AdRowsOf
  <2> QED BY <2>1, <2>2, FS_Subset
<1>5. IsFiniteSet(orders) BY <1>3, FS_Subset DEF Sim!SoldDays
<1>6. \A k \in keys : ads[k[1]][k[2]] \in Sim!AdFact
  <2> SUFFICES ASSUME NEW k \in keys PROVE ads[k[1]][k[2]] \in Sim!AdFact OBVIOUS
  <2>1. k[1] \in Campaign /\ k[2] \in Sim!Calendar BY <1>4
  <2>2. ads[k[1]][k[2]] \in Sim!OrNone(Sim!AdFact) BY <2>1 DEF FactsFit
  <2>3. ads[k[1]][k[2]] # NA BY DEF Sim!AdRowsOf, Sim!Known
  <2> QED BY <2>2, <2>3 DEF Sim!OrNone
<1>7. \A d \in orders : sold[d] \in Sim!SaleFact
  BY DEF Sim!SoldDays, Sim!Known, FactsFit, Sim!OrNone
<1>8. /\ 0 \in Nat /\ (\A a, b \in Nat : a + b \in Nat)
      /\ 0 \in Int /\ \A a, b \in Int : a + b \in Int OBVIOUS
<1>9. /\ Sim!SumFunctionOnSet(ad("spend"), keys) \in Nat
      /\ Sim!SumFunctionOnSet(ad("clicks"), keys) \in Nat
      /\ Sim!SumFunctionOnSet(ad("impressions"), keys) \in Nat
  <2>1. \A k \in keys : /\ ad("spend")[k] \in Nat /\ ad("clicks")[k] \in Nat
                        /\ ad("impressions")[k] \in Nat
    BY <1>6 DEF Sim!AdFact
  <2> HIDE DEF ad, keys
  <2>2. Sim!SumFunctionOnSet(ad("spend"), keys) \in Nat BY <1>4, <1>8, <2>1, SumStays
  <2>3. Sim!SumFunctionOnSet(ad("clicks"), keys) \in Nat BY <1>4, <1>8, <2>1, SumStays
  <2>4. Sim!SumFunctionOnSet(ad("impressions"), keys) \in Nat
    BY <1>4, <1>8, <2>1, SumStays
  <2> QED BY <2>2, <2>3, <2>4
<1>10. /\ Sim!SumFunctionOnSet(order("purchases"), orders) \in Nat
       /\ Sim!SumFunctionOnSet(order("revenue"), orders) \in Int
  <2>1. \A d \in orders : order("purchases")[d] \in Nat /\ order("revenue")[d] \in Int
    BY <1>7 DEF Sim!SaleFact
  <2> HIDE DEF order, orders
  <2>2. Sim!SumFunctionOnSet(order("purchases"), orders) \in Nat
    BY <1>5, <1>8, <2>1, SumStays
  <2>3. Sim!SumFunctionOnSet(order("revenue"), orders) \in Int
    BY <1>5, <1>8, <2>1, SumStays
  <2> QED BY <2>2, <2>3
<1> HIDE DEF keys, orders, ad, order, t
<1>11. \A n \in Nat : <<n, 1>> \in Sim!Share BY DEF Sim!Share
<1>12. \A n \in Int : <<n, 1>> \in Frac BY DEF Frac
<1> QED BY <1>1, <1>9, <1>10, <1>11, <1>12 DEF t, Sim!OrNone

\* A value is the user's, or what was found.
LEMMA ValueIs ==
  ASSUME NEW o, NEW found, NEW grade
  PROVE  Sim!Assumption(o, found, grade).value = IF Sim!Known(o) THEN o ELSE found
BY DEF Sim!Assumption, Sim!Known

LEMMA ValuesAre ==
  ASSUME NEW q, Sim!QuestionFits(q), NEW window
  PROVE  LET v == Sim!ValuesOf(Sim!Assumptions(q, window))
             f == Sim!RatiosOf(Sim!Totals(q.scope, window))
             Chosen(o, found) == IF Sim!Known(o) THEN o ELSE found
         IN  /\ v.ctr = Chosen(Sim!Quantize(q.overrides.ctr, Unit.rate), f.ctr) /\ v.cpc = Chosen(Sim!Quantize(q.overrides.cpc, 1), f.cpc)
             /\ v.cpm = Chosen(Sim!Quantize(q.overrides.cpm, Unit.mille), f.cpm)
             /\ v.cvr = Chosen(Sim!Quantize(q.overrides.cvr, Unit.rate), f.cvr)
             /\ v.aov = Chosen(Sim!Quantize(q.overrides.aov, 1), f.aov) /\ v.cpa = f.cpa
             /\ v.budget = <<q.budget, 1>>
             /\ v.even_cpa = Sim!Whole(Sim!Economy.cpaLow)
             /\ v.even_roas = Sim!BreakEvenRoas
<1> DEFINE t == Sim!Totals(q.scope, window)
           f == Sim!RatiosOf(t)
           ratios == Sim!FromHistory(q, t)
           others == Sim!FromEconomy(q, t)
           all == Sim!Assumptions(q, window)
           v == Sim!ValuesOf(all)
<1> HIDE DEF t, f
<1>1. /\ \A n \in {"ctr", "cpc", "cpm", "cvr", "aov"} :
            ratios[n] = Sim!Assumption(Sim!Quantize(q.overrides[n], Sim!PartsOf(n)), f[n],
                                       Sim!GradeOf(t.rows))
      /\ DOMAIN ratios = {"ctr", "cpc", "cpm", "cvr", "aov"}
  BY DEF Sim!FromHistory, Sim!RatioName, f
<1>2. /\ DOMAIN others = {"budget", "cpa", "refund", "profit", "even_cpa", "even_roas"}
      /\ others.budget = Sim!Assumption(<<q.budget, 1>>, NA, "strong")
      /\ others.cpa = Sim!Assumption(NA, f.cpa, Sim!GradeOf(t.rows))
      /\ others.even_cpa
           = Sim!Assumption(NA, Sim!Whole(Sim!Economy.cpaLow), Sim!GradeOf(t.rows))
      /\ others.even_roas = Sim!Assumption(NA, Sim!BreakEvenRoas, Sim!GradeOf(t.rows))
  BY DEF Sim!FromEconomy, f
<1>3. all = [n \in DOMAIN ratios \union DOMAIN others |->
               IF n \in DOMAIN ratios THEN ratios[n] ELSE others[n]]
  BY DEF Sim!Assumptions, t
<1> HIDE DEF ratios, others, all
<1>4. /\ \A n \in {"ctr", "cpc", "cpm", "cvr", "aov"} : n \in DOMAIN all /\ all[n] = ratios[n]
      /\ \A n \in {"budget", "cpa", "even_cpa", "even_roas"} : n \in DOMAIN all /\ all[n] = others[n]
  BY <1>1, <1>2, <1>3
<1>5. \A n \in DOMAIN all : v[n] = all[n].value BY DEF Sim!ValuesOf
<1> HIDE DEF v
<1>6. /\ \A n \in {"ctr", "cpc", "cpm", "cvr", "aov"} :
            v[n] = IF Sim!Known(Sim!Quantize(q.overrides[n], Sim!PartsOf(n)))
                   THEN Sim!Quantize(q.overrides[n], Sim!PartsOf(n)) ELSE f[n]
      /\ v.cpa = f.cpa /\ v.even_cpa = Sim!Whole(Sim!Economy.cpaLow)
      /\ v.even_roas = Sim!BreakEvenRoas
  BY <1>1, <1>2, <1>4, <1>5, ValueIs DEF Sim!Known
<1>7. v.budget = <<q.budget, 1>>
  <2>1. <<q.budget, 1>> \in Int \X Int BY DEF Sim!QuestionFits
  <2>2. Sim!Known(<<q.budget, 1>>)
    BY <2>1, PlanningAssumption DEF Sim!SimulatorAssumption, Sim!Known
  <2> QED BY <1>2, <1>4, <1>5, <2>2, ValueIs
<1>8. /\ Sim!PartsOf("ctr") = Unit.rate /\ Sim!PartsOf("cvr") = Unit.rate
      /\ Sim!PartsOf("cpm") = Unit.mille /\ Sim!PartsOf("cpc") = 1 /\ Sim!PartsOf("aov") = 1
  BY DEF Sim!PartsOf
<1> QED BY <1>6, <1>7, <1>8 DEF v, all, f, t

LEMMA RatiosAre ==
  ASSUME FactsFit, NEW s, NEW days
  PROVE  LET f == Sim!RatiosOf(Sim!Totals(s, days))
         IN  /\ f.ctr \in InParts(Nat, Unit.rate) /\ f.cvr \in InParts(Nat, Unit.rate)
             /\ f.cpm \in InParts(Nat, Unit.mille)
             /\ f.cpc \in InParts(Nat, 1) /\ f.cpa \in InParts(Nat, 1)
             /\ f.aov \in InParts(Int, 1)
<1> DEFINE t == Sim!Totals(s, days)
<1>1. /\ t.spend \in Sim!OrNone(Sim!Share) /\ t.clicks \in Sim!OrNone(Sim!Share)
      /\ t.impressions \in Sim!OrNone(Sim!Share)
      /\ t.purchases \in Sim!OrNone(Sim!Share) /\ t.revenue \in Sim!OrNone(Frac)
  BY TotalsAre
<1> HIDE DEF t
<1>2. /\ Sim!Over(t.clicks, t.impressions) \in Sim!OrNone(Sim!Share)
      /\ Sim!Over(t.purchases, t.clicks) \in Sim!OrNone(Sim!Share)
      /\ Sim!Over(t.spend, t.impressions) \in Sim!OrNone(Sim!Share)
      /\ Sim!Over(t.spend, t.clicks) \in Sim!OrNone(Sim!Share)
      /\ Sim!Over(t.spend, t.purchases) \in Sim!OrNone(Sim!Share)
      /\ Sim!Over(t.revenue, t.purchases) \in Sim!OrNone(Frac)
  BY <1>1, OverFits, SharesAre
<1>3. \A x \in Sim!OrNone(Sim!Share) : /\ Sim!Rate(x) \in InParts(Nat, Unit.rate)
                                    /\ Sim!Money(x) \in InParts(Nat, 1)
                                    /\ Sim!Quantize(x, Unit.mille) \in InParts(Nat, Unit.mille)
  BY SharesAre, RateFits, MoneyFits, QuantizeFits, UnitIs
<1>4. \A x \in Sim!OrNone(Frac) : Sim!Money(x) \in InParts(Int, 1) BY MoneyFits
<1> QED BY <1>2, <1>3, <1>4 DEF Sim!RatiosOf, t

LEMMA AssumedFits ==
  ASSUME FactsFit, NEW q, Sim!QuestionFits(q), NEW window
  PROVE  LevelFits(Sim!ValuesOf(Sim!Assumptions(q, window)))
<1> DEFINE v == Sim!ValuesOf(Sim!Assumptions(q, window))
           f == Sim!RatiosOf(Sim!Totals(q.scope, window))
           Chosen(o, found) == IF Sim!Known(o) THEN o ELSE found
<1>1. /\ v.ctr = Chosen(Sim!Quantize(q.overrides.ctr, Unit.rate), f.ctr)
      /\ v.cpc = Chosen(Sim!Quantize(q.overrides.cpc, 1), f.cpc)
      /\ v.cpm = Chosen(Sim!Quantize(q.overrides.cpm, Unit.mille), f.cpm)
      /\ v.cvr = Chosen(Sim!Quantize(q.overrides.cvr, Unit.rate), f.cvr)
      /\ v.aov = Chosen(Sim!Quantize(q.overrides.aov, 1), f.aov) /\ v.cpa = f.cpa
      /\ v.budget = <<q.budget, 1>>
      /\ v.even_cpa = Sim!Whole(Sim!Economy.cpaLow) /\ v.even_roas = Sim!BreakEvenRoas
  BY ValuesAre
<1>2. /\ f.ctr \in InParts(Nat, Unit.rate) /\ f.cvr \in InParts(Nat, Unit.rate)
      /\ f.cpm \in InParts(Nat, Unit.mille)
      /\ f.cpc \in InParts(Nat, 1) /\ f.cpa \in InParts(Nat, 1)
      /\ f.aov \in InParts(Int, 1)
  BY RatiosAre
<1>3. v.even_cpa \in InParts(Int, 1) /\ v.even_roas \in InParts(Nat, Unit.rate)
  BY <1>1, EvenIs DEF FactsFit
<1> HIDE DEF v, f
<1>4. /\ q.overrides.ctr \in Sim!OrNone(Sim!Share)
      /\ q.overrides.cpc \in Sim!OrNone(Sim!Share)
      /\ q.overrides.cpm \in Sim!OrNone(Sim!Share)
      /\ q.overrides.cvr \in Sim!OrNone(Sim!Share)
      /\ q.overrides.aov \in Sim!OrNone(Sim!Share) /\ q.budget \in Nat \ {0}
  BY DEF Sim!QuestionFits
<1>5. \A x \in Sim!OrNone(Sim!Share), u \in Nat \ {0} : Sim!Quantize(x, u) \in InParts(Nat, u)
  BY SharesAre, QuantizeFits
<1>6. InParts(Nat, 1) \subseteq InParts(Int, 1) /\ 1 \in Nat \ {0} BY DEF InParts, Sim!OrNone
<1>7. /\ Sim!Quantize(q.overrides.ctr, Unit.rate) \in InParts(Nat, Unit.rate)
      /\ Sim!Quantize(q.overrides.cvr, Unit.rate) \in InParts(Nat, Unit.rate)
      /\ Sim!Quantize(q.overrides.cpm, Unit.mille) \in InParts(Nat, Unit.mille)
      /\ Sim!Quantize(q.overrides.cpc, 1) \in InParts(Nat, 1)
      /\ Sim!Quantize(q.overrides.aov, 1) \in InParts(Int, 1)
  BY <1>4, <1>5, <1>6, UnitIs
<1> QED BY <1>1, <1>2, <1>3, <1>4, <1>7 DEF LevelFits, v

-----------------------------------------------------------------------------
(* The invariant of the runs and of the rows.                              *)

RunHolds(job) ==
  Sim!QuestionFits(job.input) /\ LevelFits(Sim!ValuesOf(job.assumed))

RowHolds(row) ==
  LET v == row.key.values
  IN  /\ Sim!QuestionFits(row.input) /\ LevelFits(v)
      /\ Sim!Known(row.result.expected) =>
           \E model, refund, profit :
              /\ Runs(model, v)
              /\ row.result.expected = Sim!Funnel(model, v.budget, v, refund, profit)
              /\ row.result.even
                   = Sim!BreakEven(row.result.expected, v.budget, v.even_cpa, v.even_roas)

SimInv ==
  /\ FactsFit
  /\ Sim!Known(run) => RunHolds(run)
  /\ \E S : sims \in Seq(S)
  /\ \A i \in DOMAIN sims : RowHolds(sims[i])

LEMMA SimStarts == Sim!Init => SimInv
<1> SUFFICES ASSUME Sim!Init PROVE SimInv OBVIOUS
<1>1. FactsFit
  BY PlanningAssumption DEF Sim!Init, Sim!FactsInit, FactsFit, Sim!SimulatorAssumption
<1>2. sims = <<>> /\ run = NA BY DEF Sim!Init
<1>3. sims \in Seq({}) /\ DOMAIN sims = {} BY <1>2
<1> QED BY <1>1, <1>2, <1>3 DEF SimInv, Sim!Known

\* A step that leaves the facts, the run and the rows.
LEMMA SimLeaves ==
  ASSUME SimInv, FactsFit', UNCHANGED <<sims, run>>
  PROVE  SimInv'
BY DEF SimInv

LEMMA ResolveHolds ==
  ASSUME SimInv, NEW q, Sim!QuestionFits(q), NEW skew, Sim!Resolve(q, skew)
  PROVE  SimInv'
<1>1. /\ run' = [input |-> q, window |-> Sim!WindowOf(q, skew),
                 assumed |-> Sim!Assumptions(q, Sim!WindowOf(q, skew))]
      /\ sims' = sims /\ ads' = ads /\ sold' = sold /\ catalog' = catalog
  BY DEF Sim!Resolve, Sim!facts
<1>2. RunHolds(run')
  <2>1. run'.input = q /\ run'.assumed = Sim!Assumptions(q, Sim!WindowOf(q, skew))
    BY <1>1
  <2>2. LevelFits(Sim!ValuesOf(Sim!Assumptions(q, Sim!WindowOf(q, skew))))
    BY AssumedFits DEF SimInv
  <2> HIDE DEF Sim!Resolve
  <2> QED BY <2>1, <2>2 DEF RunHolds
<1>3. FactsFit' BY <1>1 DEF SimInv, FactsFit
<1> QED BY <1>1, <1>2, <1>3 DEF SimInv

\* What a run computes that does not fail.
LEMMA ResultHolds ==
  ASSUME NEW q, NEW assumed, NEW series, ~Sim!RunFails(assumed, series)
  PROVE  LET v == Sim!ValuesOf(assumed)
             r == Sim!RunOf(q, assumed, series)
         IN  Sim!Known(r.expected) =>
                \E model, refund, profit :
                   /\ Runs(model, v)
                   /\ r.expected = Sim!Funnel(model, v.budget, v, refund, profit)
                   /\ r.even
                        = Sim!BreakEven(r.expected, v.budget, v.even_cpa, v.even_roas)
<1> DEFINE v == Sim!ValuesOf(assumed)
           model == Sim!SelectModel(v)
           r == Sim!RunOf(q, assumed, series)
           of == Sim!Funnel(model, v.budget, v, v.refund, v.profit)
<1>1. /\ r.expected = IF model = "unavailable" THEN NA ELSE IF ~Sim!Feeds(v, model) THEN NA ELSE of
      /\ Sim!Known(r.expected)
           => r.even = Sim!BreakEven(r.expected, v.budget, v.even_cpa, v.even_roas)
  BY DEF Sim!RunOf
<1>2. model # "unavailable" /\ Sim!Feeds(v, model) => ~Sim!FunnelFails(model, v)
  BY DEF Sim!RunFails
<1> HIDE DEF r, model, of, v
<1>3. ASSUME Sim!Known(r.expected)
      PROVE  /\ Runs(model, v) /\ r.expected = of
             /\ r.even = Sim!BreakEven(r.expected, v.budget, v.even_cpa, v.even_roas)
  BY <1>1, <1>2, <1>3 DEF Sim!Known, Runs, model
<1> QED BY <1>3 DEF r, model, of, v

LEMMA SimulateHolds ==
  ASSUME SimInv, Sim!Simulate
  PROVE  SimInv'
<1> DEFINE q == run.input
           series == Sim!DaySeries(q, run.window)
           same == {i \in DOMAIN sims : sims[i].key = Sim!KeyOf(run)}
           row == [key |-> Sim!KeyOf(run), asked |-> q, input |-> q,
                   result |-> Sim!RunOf(q, run.assumed, series)]
<1>1. /\ Sim!Known(run) /\ run' = NA /\ ads' = ads /\ sold' = sold /\ catalog' = catalog
      /\ sims' = IF Sim!SeriesFails(q, run.window) THEN sims
                 ELSE IF Sim!RunFails(run.assumed, series) THEN sims
                 ELSE IF same = {} THEN Append(sims, row)
                 ELSE [i \in DOMAIN sims |->
                          IF i \in same THEN [row EXCEPT !.asked = sims[i].asked]
                                        ELSE sims[i]]
  BY DEF Sim!Simulate, Sim!facts
<1>2. RunHolds(run) BY <1>1 DEF SimInv
<1>3. FactsFit' BY <1>1 DEF SimInv, FactsFit
<1>4. ASSUME ~Sim!RunFails(run.assumed, series), NEW x, x.key = Sim!KeyOf(run),
             x.input = q,
             x.result = Sim!RunOf(q, run.assumed, series)
      PROVE  RowHolds(x)
  <2>1. x.key.values = Sim!ValuesOf(run.assumed) BY <1>4 DEF Sim!KeyOf
  <2>2. LET v == Sim!ValuesOf(run.assumed)
            r == Sim!RunOf(q, run.assumed, series)
        IN  Sim!Known(r.expected) =>
              \E model, refund, profit :
                 /\ Runs(model, v)
                 /\ r.expected = Sim!Funnel(model, v.budget, v, refund, profit)
                 /\ r.even
                      = Sim!BreakEven(r.expected, v.budget, v.even_cpa, v.even_roas)
    BY <1>4, ResultHolds
  <2>3. Sim!QuestionFits(q) /\ LevelFits(Sim!ValuesOf(run.assumed))
    BY <1>2 DEF RunHolds
  <2> HIDE DEF q, series, same, row
  <2> QED BY <1>4, <2>1, <2>2, <2>3 DEF RowHolds
<1>5. PICK S : sims \in Seq(S) BY DEF SimInv
<1>6. CASE sims' = sims
  <2>1. \A i \in DOMAIN sims : RowHolds(sims[i]) BY DEF SimInv
  <2> QED BY <1>1, <1>3, <1>5, <1>6, <2>1 DEF SimInv, Sim!Known
<1>7. CASE ~Sim!RunFails(run.assumed, series) /\ sims' = Append(sims, row)
  <2>1. RowHolds(row) BY <1>4, <1>7
  <2> HIDE DEF row
  <2>2. sims' \in Seq(S \union {row}) /\ Len(sims') = Len(sims) + 1
        /\ \A i \in 1 .. Len(sims) : sims'[i] = sims[i]
    <3>1. sims \in Seq(S \union {row}) /\ row \in S \union {row} BY <1>5
    <3> QED BY <1>7, <3>1
  <2>3. sims'[Len(sims) + 1] = row BY <1>5, <1>7
  <2>4. /\ Len(sims) \in Nat /\ DOMAIN sims = 1 .. Len(sims)
        /\ DOMAIN sims' = 1 .. Len(sims')
    BY <1>5, <2>2
  <2>5. \A i \in DOMAIN sims' : RowHolds(sims'[i])
    <3> SUFFICES ASSUME NEW i \in DOMAIN sims' PROVE RowHolds(sims'[i]) OBVIOUS
    <3>1. CASE i \in 1 .. Len(sims) BY <2>2, <2>4, <3>1 DEF SimInv
    <3>2. CASE i = Len(sims) + 1 BY <2>1, <2>3, <3>2
    <3> QED BY <2>2, <2>4, <3>1, <3>2
  <2>6. \E R : sims' \in Seq(R) BY <2>2
  <2>7. ~Sim!Known(run') BY <1>1 DEF Sim!Known
  <2> QED BY <1>3, <2>5, <2>6, <2>7 DEF SimInv
<1>8. CASE ~Sim!RunFails(run.assumed, series)
           /\ sims' = [i \in DOMAIN sims |->
                          IF i \in same THEN [row EXCEPT !.asked = sims[i].asked]
                                        ELSE sims[i]]
  <2>1. \A i \in same : LET x == [row EXCEPT !.asked = sims[i].asked]
                        IN  /\ x.key = Sim!KeyOf(run) /\ x.input = q
                            /\ x.result = Sim!RunOf(q, run.assumed, series)
    OBVIOUS
  <2>2. \A i \in same : RowHolds([row EXCEPT !.asked = sims[i].asked])
    <3> HIDE DEF row, same, q, series
    <3> QED BY <1>4, <1>8, <2>1
  <2>3. \A i \in DOMAIN sims : RowHolds(sims[i]) BY DEF SimInv
  <2>4. DOMAIN sims = 1 .. Len(sims) /\ Len(sims) \in Nat BY <1>5
  <2> DEFINE R == {sims'[i] : i \in DOMAIN sims}
  <2>5. sims' \in Seq(R)
    <3>1. sims' = [i \in 1 .. Len(sims) |-> sims'[i]] /\ \A i \in 1 .. Len(sims) : sims'[i] \in R
      BY <1>8, <2>4
    <3> HIDE DEF R
    <3> QED BY <2>4, <3>1
  <2>6. \A i \in DOMAIN sims' : RowHolds(sims'[i])
    <3> HIDE DEF row, same, q, series, R
    <3> QED BY <1>8, <2>2, <2>3
  <2>7. ~Sim!Known(run') BY <1>1 DEF Sim!Known
  <2>8. \E T : sims' \in Seq(T) BY <2>5
  <2> QED BY <1>3, <2>6, <2>7, <2>8 DEF SimInv
<1> QED BY <1>1, <1>6, <1>7, <1>8

LEMMA FactsStep ==
  ASSUME FactsFit, Sim!FactsNext
  PROVE  FactsFit'
<1>1. CASE Sim!NextDay BY <1>1 DEF Sim!NextDay, FactsFit
<1>2. ASSUME NEW c \in Campaign, NEW d \in Arrivals, NEW row \in AdRows, Sim!SyncAds(c,
             d, row)
      PROVE FactsFit'
  <2>1. row \in Sim!OrNone(Sim!AdFact) /\ d \in Sim!Calendar
    BY PlanningAssumption DEF Sim!SimulatorAssumption
  <2>2. ads \in [Campaign -> [Sim!Calendar -> Sim!OrNone(Sim!AdFact)]] BY DEF FactsFit
  <2>3. ads' = [ads EXCEPT ![c] = [ads[c] EXCEPT ![d] = row]]
        /\ sold' = sold /\ catalog' = catalog
    BY <1>2 DEF Sim!SyncAds
  <2> HIDE DEF Sim!AdFact
  <2>4. [ads[c] EXCEPT ![d] = row] \in [Sim!Calendar -> Sim!OrNone(Sim!AdFact)]
    BY <2>1, <2>2
  <2>5. ads' \in [Campaign -> [Sim!Calendar -> Sim!OrNone(Sim!AdFact)]]
    BY <2>2, <2>3, <2>4
  <2> QED BY <2>3, <2>5 DEF FactsFit
<1>3. ASSUME NEW d \in Arrivals, NEW row \in SaleRows, Sim!SyncOrders(d, row)
      PROVE FactsFit'
  <2>1. row \in Sim!OrNone(Sim!SaleFact) /\ d \in Sim!Calendar
    BY PlanningAssumption DEF Sim!SimulatorAssumption
  <2> QED BY <1>3, <2>1 DEF Sim!SyncOrders, FactsFit
<1>4. ASSUME NEW entry \in Catalogs, Sim!EditCatalog(entry) PROVE FactsFit'
  BY <1>4, PlanningAssumption DEF Sim!SimulatorAssumption, Sim!EditCatalog, FactsFit
<1> QED BY <1>1, <1>2, <1>3, <1>4 DEF Sim!FactsNext

LEMMA SimSteps == SimInv /\ [Sim!Next]_(Sim!vars) => SimInv'
<1> SUFFICES ASSUME SimInv, [Sim!Next]_(Sim!vars) PROVE SimInv' OBVIOUS
<1> FactsFit BY DEF SimInv
<1>1. CASE UNCHANGED Sim!vars
  <2>1. UNCHANGED <<ads, sold, catalog, sims, run>>
    BY <1>1 DEF Sim!vars, Sim!facts, Sim!simVars
  <2> QED BY <2>1, SimLeaves DEF FactsFit
<1>2. CASE Sim!ForecastNext /\ ~Sim!Simulating /\ UNCHANGED Sim!simVars
  <2>1. UNCHANGED <<ads, sold, catalog>>
    BY <1>2 DEF Sim!ForecastNext, Sim!Generate, Sim!Summary, Sim!CampaignForecast,
       Sim!Proceed, Sim!StoreRow, Sim!StorePoints,
       Sim!Die, Sim!facts
  <2> QED BY <1>2, <2>1, SimLeaves DEF FactsFit, Sim!simVars
<1>3. CASE Sim!FactsNext /\ UNCHANGED Sim!simVars
  BY <1>3, FactsStep, SimLeaves DEF Sim!simVars
<1>4. ASSUME NEW q \in Question, NEW skew, Sim!Resolve(q, skew) PROVE SimInv'
  <2>1. Sim!QuestionFits(q) BY PlanningAssumption DEF Sim!SimulatorAssumption
  <2> QED BY <1>4, <2>1, ResolveHolds
<1>5. ASSUME NEW i \in DOMAIN sims, NEW skew, Sim!Rerun(i, skew) PROVE SimInv'
  <2>1. Sim!QuestionFits(sims[i].input) BY DEF SimInv, RowHolds
  <2>2. Sim!Resolve(sims[i].input, skew) BY <1>5 DEF Sim!Rerun
  <2> QED BY <2>1, <2>2, ResolveHolds
<1>6. CASE Sim!Simulate BY <1>6, SimulateHolds
<1> QED BY <1>1, <1>2, <1>3, <1>4, <1>5, <1>6 DEF Sim!Next

LEMMA FiguresHold == SimInv => BreakEvenAgrees
<1> SUFFICES ASSUME SimInv PROVE BreakEvenAgrees OBVIOUS
<1>1. ASSUME NEW i \in DOMAIN sims, Sim!Known(sims[i].result.expected),
             Sim!Known(sims[i].result.expected.cpa)
      PROVE  LET s == sims[i].result.expected
                 e == sims[i].result.even
                 v == sims[i].key.values
                 dearer(n) == <<s.cpa[1] + n, 1>>
             IN  /\ Sim!Known(e.minCvr) /\ v.even_cpa[1] > 0 /\ Sim!AtMost(s.cvr, s.clicks) =>
                       /\ Sim!RatLess(e.minCvr, s.cvr) => Sim!AtMost(s.cpa, v.even_cpa)
                       /\ Sim!RatLess(s.cvr, e.minCvr) => Sim!AtMost(v.even_cpa, s.cpa)
                 /\ Sim!Known(e.minAov) /\ s.aov[1] <= s.purchases[1] =>
                       /\ Sim!RatLess(e.minAov, s.aov) => Sim!AtMost(v.even_roas, s.roas)
                       /\ Sim!RatLess(s.aov, e.minAov) => Sim!AtMost(s.roas, v.even_roas)
                 /\ Sim!Known(e.maxCpa) =>
                       /\ Sim!AtMost(dearer(1), e.maxCpa) => Sim!AtMost(v.even_roas, s.roas)
                       /\ Sim!AtMost(e.maxCpa, dearer(-1)) => Sim!AtMost(s.roas, v.even_roas)
  <2> DEFINE s == sims[i].result.expected
             e == sims[i].result.even
             v == sims[i].key.values
  <2>1. RowHolds(sims[i]) BY DEF SimInv
  <2>2. PICK model, refund, profit :
           /\ Runs(model, v)
           /\ s = Sim!Funnel(model, v.budget, v, refund, profit)
           /\ e = Sim!BreakEven(s, v.budget, v.even_cpa, v.even_roas)
    BY <1>1, <2>1 DEF RowHolds
  <2>3. LevelFits(v) BY <2>1 DEF RowHolds
  <2>4. Sim!Known(s.cpa) BY <1>1
  <2> HIDE DEF s, e, v
  <2>5. Sim!Known(e.minCvr) /\ v.even_cpa[1] > 0 /\ Sim!AtMost(s.cvr, s.clicks) =>
          /\ Sim!RatLess(e.minCvr, s.cvr) => Sim!AtMost(s.cpa, v.even_cpa)
          /\ Sim!RatLess(s.cvr, e.minCvr) => Sim!AtMost(v.even_cpa, s.cpa)
    BY <2>2, <2>3, <2>4, MinCvrAgrees
  <2>6. Sim!Known(e.minAov) /\ s.aov[1] <= s.purchases[1] =>
          /\ Sim!RatLess(e.minAov, s.aov) => Sim!AtMost(v.even_roas, s.roas)
          /\ Sim!RatLess(s.aov, e.minAov) => Sim!AtMost(s.roas, v.even_roas)
    BY <2>2, <2>3, <2>4, MinAovAgrees
  <2>7. Sim!Known(e.maxCpa) =>
          /\ Sim!AtMost(<<s.cpa[1] + 1, 1>>, e.maxCpa) => Sim!AtMost(v.even_roas, s.roas)
          /\ Sim!AtMost(e.maxCpa, <<s.cpa[1] + -1, 1>>) => Sim!AtMost(s.roas, v.even_roas)
    BY <2>2, <2>3, <2>4, MaxCpaAgrees
  <2> QED BY <2>5, <2>6, <2>7 DEF s, e, v
<1> QED BY <1>1 DEF BreakEvenAgrees, Sim!BreakEvenAgrees

\* simulator/engine.py: the break-even hints of a run and its figures, each rounded
\* by itself, say the same of the scenario they are about, off the line by a part.
THEOREM FiguresAgree == Sim!Spec => []BreakEvenAgrees
<1>1. Sim!Init => SimInv BY SimStarts
<1>2. SimInv /\ [Sim!Next]_(Sim!vars) => SimInv' BY SimSteps
<1>3. SimInv => BreakEvenAgrees BY FiguresHold
<1> QED BY <1>1, <1>2, <1>3, PTL DEF Sim!Spec

=============================================================================
