--------------------------- MODULE ConnectionsProofs ---------------------------
(***************************************************************************)
(* Proofs about Connections, for any number of accounts, OAuth states,     *)
(* users, browsers, rows and requests.                                     *)
(*                                                                         *)
(* Between its read and its commit a request relies on the row as it was.  *)
(* Fresh says what it may rely on unless another request wrote the row     *)
(* meanwhile, which Store records in `late`; Carries says what holds of    *)
(* every request.  A state passes from Redis to one request and from there *)
(* to one token (Exchanging, TokensHold): what no step does is to bring a  *)
(* state back.                                                             *)
(***************************************************************************)
EXTENDS Connections, Integers, FiniteSetTheorems, WellFoundedInduction, TLAPS

USE ConnectionAssumption

Statuses  == {"absent", "pending", "connected", "disconnected", "error"}
Exts      == Accounts \cup {NoAccount}
Offers    == SUBSET Accounts
Pcs       == {"idle", "connect", "callback", "exchange", "credential", "store", "select",
              "disconnect", "reject"}
Places    == Ids \cup {NoRow}
AnyUser   == Users \cup {NoUser}
AnyBrowser == Browsers \cup {"none"}
AnyState  == States \cup {NoState}

Row     == [status : Statuses, ext : Exts, offered : Offers]
Request == [pc : Pcs, at : Places, was : Row, acct : Exts, user : AnyUser,
            browser : AnyBrowser, state : AnyState, had : AnyState]

TypedRest ==
  /\ provider \in {"shopify", "meta"}
  /\ row \in [Ids -> Row] /\ token \in [Ids -> AnyState]
  /\ grant \in [States -> Offers] /\ live \subseteq States
  /\ owner \in [States -> AnyUser] /\ cookie \in [Browsers -> AnyUser]
  /\ late \subseteq Requests /\ overtaken \subseteq Ids /\ events \in 0..MaxEvents

Typed == TypedRest /\ req \in [Requests -> Request]

IsPending(i) == row[i].status = "pending"

\* A row nobody wrote is empty, and a pending Meta row has no account.
RowsClean == \A i \in Ids :
  /\ row[i].status = "absent" => row[i] = Absent
  /\ provider = "meta" /\ IsPending(i) => row[i].ext = NoAccount

\* Every token was granted through a state that is used up.
TokensHold == \A i \in Ids : token[i] # NoState =>
  /\ token[i] \in States \ live /\ owner[token[i]] # NoUser
  /\ \A j \in Ids : token[j] = token[i] => j = i

Reads(x)      == x.pc \notin {"idle", "callback", "exchange"}
Exchanging(x) == x.pc \in {"exchange", "credential", "store"}

\* What a request has in its hands.
Carries(x) ==
  /\ Reads(x) /\ x.at = NoRow => x.pc = "connect" /\ x.was = Absent
  /\ Reads(x) /\ x.at # NoRow => x.at \in Present /\ x.was.status # "absent"
  /\ x.pc \in {"credential", "store", "select"} => x.was.status = "pending"
  /\ provider = "meta" /\ x.pc = "connect" /\ x.at # NoRow => x.was.status = "pending"
  /\ x.pc = "select" => provider = "meta"
  /\ provider = "shopify" /\ x.pc = "connect" => x.acct \in Accounts
  /\ x.pc = "callback" \/ Exchanging(x) => x.state \in States /\ owner[x.state] # NoUser
  /\ Exchanging(x) => x.state \notin live /\ \A i \in Ids : token[i] # x.state
  /\ provider = "shopify" /\ x.pc \in {"credential", "store"} =>
       x.was.ext \in grant[x.state]

Requesting ==
  /\ \A r \in Requests : Carries(req[r])
  /\ \A r, q \in Requests :
       Exchanging(req[r]) /\ Exchanging(req[q]) /\ req[r].state = req[q].state => r = q

\* What it may rely on unless its row was written since.
Fresh(x) == Reads(x) =>
  /\ x.at # NoRow => x.was = row[x.at]
  /\ x.at = NoRow => /\ provider = "shopify" => Present = {}
                     /\ provider = "meta" => \A i \in Ids : ~IsPending(i)
  /\ x.pc = "select" => token[x.at] # NoState /\ x.acct \in grant[token[x.at]]

Reliable == \A r \in Requests \ late : Fresh(req[r])

OneOpen == overtaken = {} =>
  /\ provider = "shopify" => \A i, j \in Present : i = j
  /\ provider = "meta" => \A i, j \in Ids : IsPending(i) /\ IsPending(j) => i = j

IInv == /\ Typed /\ RowsClean /\ TokensHold /\ Requesting /\ Reliable
        /\ TokenServesAccount /\ OneOpen

-----------------------------------------------------------------------------
LEMMA Members ==
  /\ {"absent", "pending", "connected", "disconnected", "error"} \subseteq Statuses
  /\ {"idle", "connect", "callback", "exchange", "credential", "store", "select",
      "disconnect", "reject"} \subseteq Pcs
  /\ Accounts \subseteq Exts /\ NoAccount \in Exts
  /\ {} \in Offers /\ (\A S : S \subseteq Accounts <=> S \in Offers)
  /\ Ids \subseteq Places /\ NoRow \in Places /\ NoRow \notin Ids
  /\ Users \subseteq AnyUser /\ NoUser \in AnyUser
  /\ Browsers \subseteq AnyBrowser /\ "none" \in AnyBrowser
  /\ States \subseteq AnyState /\ NoState \in AnyState
BY DEF Statuses, Pcs, Exts, Offers, Places, NoRow, Ids, AnyUser, AnyBrowser, AnyState

LEMMA Empty ==
  /\ Absent \in Row /\ Absent.status = "absent" /\ Absent.ext = NoAccount
  /\ Absent.offered = {}
  /\ Idle \in Request /\ Idle.pc = "idle" /\ Idle.at = NoRow /\ Idle.was = Absent
BY Members DEF Absent, Row, Idle, Request

LEMMA TypedIsTypeOK == Typed => TypeOK
<1> SUFFICES ASSUME Typed PROVE TypeOK OBVIOUS
<1>1. Row = [status : {"absent", "pending", "connected", "disconnected", "error"},
             ext : Accounts \cup {NoAccount}, offered : SUBSET Accounts]
  BY DEF Row, Statuses, Exts, Offers
<1>2. Request = [pc : {"idle", "connect", "callback", "exchange", "credential", "store",
                       "select", "disconnect", "reject"},
        at : Ids \cup {NoRow}, was : Row, acct : Accounts \cup {NoAccount},
        user : Users \cup {NoUser}, browser : Browsers \cup {"none"},
        state : States \cup {NoState}, had : States \cup {NoState}]
  BY DEF Request, Pcs, Places, Exts, AnyUser, AnyBrowser, AnyState
<1>3. /\ provider \in {"shopify", "meta"} /\ row \in [Ids -> Row]
      /\ token \in [Ids -> States \cup {NoState}]
      /\ grant \in [States -> SUBSET Accounts] /\ live \subseteq States
      /\ owner \in [States -> Users \cup {NoUser}]
      /\ cookie \in [Browsers -> Users \cup {NoUser}]
      /\ req \in [Requests -> Request]
      /\ late \subseteq Requests /\ overtaken \subseteq Ids /\ events \in 0..MaxEvents
  BY DEF Typed, TypedRest, AnyState, Offers, AnyUser
<1> QED BY <1>1, <1>2, <1>3 DEF TypeOK

\* A nonempty set of positions has a first one.
LEMMA Smallest ==
  ASSUME NEW S, S \subseteq Nat, S # {}
  PROVE  \E i \in S : \A j \in S : i <= j
<1>1. \A x, y \in Nat : <<y, x>> \notin OpToRel(<, Nat) => x <= y BY DEF OpToRel
<1> QED BY <1>1, NatLessThanWellFounded, WFMin

\* A nonempty set of positions has a last one: the first of its mirror image.
LEMMA Largest ==
  ASSUME NEW n \in Nat, NEW S, S \subseteq 1..n, S # {}
  PROVE  \E i \in S : \A j \in S : j <= i
<1> DEFINE flip(i) == n - i  mirror == {flip(i) : i \in S}
<1>1. \A i \in S : i \in Nat /\ flip(i) \in Nat /\ flip(i) \in mirror OBVIOUS
<1>2. mirror \subseteq Nat /\ mirror # {} BY <1>1
<1> HIDE DEF mirror
<1>3. PICK m \in mirror : \A y \in mirror : m <= y BY <1>2, Smallest
<1>4. PICK i \in S : m = flip(i) BY DEF mirror
<1>5. \A j \in S : flip(i) <= flip(j) BY <1>1, <1>3, <1>4
<1> QED BY <1>1, <1>5

\* The newest of the pending rows is one, and the next row to insert is free.
LEMMA NewestIsPending ==
  ASSUME NEW i \in PendingMeta
  PROVE  i \in Ids /\ IsPending(i) /\ row[i].ext = NoAccount
<1> DEFINE open == {j \in Ids : row[j].status = "pending" /\ row[j].ext = NoAccount}
<1>1. open # {} /\ i = Max(open) BY DEF PendingMeta
<1>2. open \subseteq 1..MaxRows BY DEF Ids
<1> HIDE DEF open
<1>3. PICK m \in open : \A j \in open : j <= m BY <1>1, <1>2, Largest
<1>4. m \in Nat /\ \A j \in open : j \in Nat /\ m >= j BY <1>2, <1>3
<1>5. Max(open) \in open BY <1>3, <1>4 DEF Max
<1> QED BY <1>1, <1>5 DEF open, IsPending

LEMMA NoneIsPending ==
  ASSUME RowsClean, provider = "meta", PendingMeta = {}
  PROVE  \A i \in Ids : ~IsPending(i)
BY DEF RowsClean, PendingMeta, IsPending

LEMMA NextIsFree ==
  ASSUME Present # Ids
  PROVE  Min(Ids \ Present) \in Ids \ Present
<1> DEFINE free == Ids \ Present
<1>1. free # {} /\ free \subseteq Nat BY DEF Ids, Present
<1> HIDE DEF free
<1>2. PICK m \in free : \A j \in free : m <= j BY <1>1, Smallest
<1>3. \A j \in free : j >= m BY <1>1, <1>2
<1>4. Min(free) \in free BY <1>2, <1>3 DEF Min
<1> QED BY <1>4 DEF free

-----------------------------------------------------------------------------
(* What requests keep while others move.                                    *)

\* States once issued keep their owner and their grant, and stay used up.
Issued ==
  \A s \in States : owner[s] # NoUser =>
    /\ owner'[s] = owner[s] /\ grant'[s] = grant[s] /\ (s \in live' => s \in live)

LEMMA IssuedByNobody ==
  ASSUME UNCHANGED <<grant, owner>>, live' \subseteq live
  PROVE  Issued
BY DEF Issued

\* A request that neither looks a row up nor writes one.
LEMMA RequestMoves ==
  ASSUME IInv, TypedRest', UNCHANGED <<provider, row, token, overtaken>>, Issued,
         NEW r \in Requests, NEW x \in Request, req' = [req EXCEPT ![r] = x],
         late' = late \/ late' = late \ {r},
         Carries(x)', r \notin late' => Fresh(x),
         \A q \in Requests \ {r} :
           Exchanging(x) /\ Exchanging(req[q]) => req[q].state # x.state
  PROVE  IInv'
<1>1. \A q \in Requests : req'[q] = IF q = r THEN x ELSE req[q]  BY DEF IInv, Typed
<1>2. Typed' BY DEF IInv, Typed
<1>3. RowsClean' BY DEF IInv, RowsClean, IsPending
<1>4. TokensHold' BY DEF IInv, TokensHold, Issued, Typed, TypedRest
<1>5. Present' = Present BY DEF Present
<1>6. ASSUME NEW q \in Requests PROVE Carries(req[q])'
  <2>1. CASE q = r
    <3>1. req'[q] = x BY <1>1, <2>1
    <3> QED BY <3>1 DEF Carries, Reads, Exchanging
  <2>2. CASE q # r
    <3>1. PICK y \in Request : y = req[q] BY DEF IInv, Typed
    <3>2. Carries(y) BY <3>1 DEF IInv, Requesting
    <3>3. Carries(y)' BY <1>5, <3>2 DEF Carries, Reads, Exchanging, Issued
    <3>4. req'[q] = y BY <1>1, <2>2, <3>1
    <3> QED BY <3>3, <3>4 DEF Carries, Reads, Exchanging
  <2> QED BY <2>1, <2>2
<1>7. Requesting' BY <1>1, <1>6 DEF IInv, Requesting, Exchanging
<1>8. ASSUME NEW q \in Requests, q \notin late' PROVE Fresh(req[q])'
  <2>1. PICK y \in Request : y = req'[q] BY <1>2 DEF Typed
  <2>2. Fresh(y) BY <1>1, <1>8, <2>1 DEF IInv, Reliable
  <2>3. y.pc = "select" /\ Reads(y) => token[y.at] \in States /\ owner[token[y.at]] # NoUser
    <3>1. CASE q = r /\ y.pc = "select"
      <4>1. y = x BY <1>1, <2>1, <3>1
      <4>2. Carries(y)' BY <4>1 DEF Carries, Reads, Exchanging
      <4>3. y.at \in Ids BY <1>5, <3>1, <4>2 DEF Carries, Reads, Present
      <4> QED BY <2>2, <3>1, <4>3 DEF Fresh, IInv, TokensHold
    <3>2. CASE q # r /\ y.pc = "select"
      <4>1. Carries(y) BY <1>1, <2>1, <3>2 DEF IInv, Requesting
      <4>2. y.at \in Ids BY <3>2, <4>1 DEF Carries, Reads, Present
      <4> QED BY <2>2, <3>2, <4>2 DEF Fresh, IInv, TokensHold
    <3> QED BY <3>1, <3>2
  <2>4. Fresh(y)' BY <1>5, <2>2, <2>3 DEF Fresh, Reads, IsPending, Issued
  <2> QED BY <2>1, <2>4 DEF Fresh, Reads
<1>9. Reliable' BY <1>8 DEF Reliable
<1>10. TokenServesAccount'
  BY DEF IInv, TokenServesAccount, TokensHold, Connected, Issued
<1>11. OneOpen' BY <1>5 DEF IInv, OneOpen, IsPending
<1> QED BY <1>2, <1>3, <1>4, <1>7, <1>9, <1>10, <1>11 DEF IInv

-----------------------------------------------------------------------------
(* Commits.                                                                 *)

\* What a commit leaves in the row: the loaded attributes, where the request
\* did not change them, give way to what the row holds by now.
Merged(y, held, was, new) ==
  /\ y.status = IF new.status = was.status THEN held.status ELSE new.status
  /\ y.ext = IF new.ext = was.ext THEN held.ext ELSE new.ext
  /\ was = held => y = new

LEMMA Merges ==
  ASSUME NEW held \in Row, NEW was \in Row, NEW new \in Row
  PROVE  \E y \in Row :
           /\ y = [f \in DOMAIN held |-> IF new[f] = was[f] THEN held[f] ELSE new[f]]
           /\ Merged(y, held, was, new)
<1> DEFINE y == [f \in DOMAIN held |-> IF new[f] = was[f] THEN held[f] ELSE new[f]]
<1>1. DOMAIN held = {"status", "ext", "offered"} BY DEF Row
<1>2. /\ y.status = IF new.status = was.status THEN held.status ELSE new.status
      /\ y.ext = IF new.ext = was.ext THEN held.ext ELSE new.ext
      /\ y.offered = IF new.offered = was.offered THEN held.offered ELSE new.offered
  BY <1>1
<1>3. y = [status |-> y.status, ext |-> y.ext, offered |-> y.offered] BY <1>1
<1>4. y.status \in Statuses /\ y.ext \in Exts /\ y.offered \in Offers
  <2> HIDE DEF y
  <2> QED BY <1>2 DEF Row
<1> HIDE DEF y
<1>5. y \in Row BY <1>3, <1>4 DEF Row
<1>6. ASSUME was = held PROVE y = new
  <2>1. y.status = new.status /\ y.ext = new.ext /\ y.offered = new.offered BY <1>2, <1>6
  <2>2. new = [status |-> new.status, ext |-> new.ext, offered |-> new.offered] BY DEF Row
  <2> QED BY <1>3, <2>1, <2>2
<1>7. Merged(y, held, was, new) BY <1>2, <1>6 DEF Merged
<1> QED BY <1>5, <1>7 DEF y

\* The request that writes row i.
Writes(r, i) == i = req[r].at \/ (req[r].at = NoRow /\ i \notin Present)

\* What the token of row i may become: nothing, or the state in hand.
TokenMoves(r, i) ==
  /\ \A j \in Ids \ {i} : token'[j] = token[j]
  /\ \/ token'[i] = token[i] \/ token'[i] = NoState
     \/ Exchanging(req[r]) /\ token'[i] = req[r].state
  /\ token' \in [Ids -> AnyState]

\* What the written row may be when the request was not late.
Proper(y, i) ==
  /\ y.status = "connected" =>
       token'[i] # NoState /\ token'[i] \in States /\ owner[token'[i]] # NoUser
       /\ y.ext \in grant[token'[i]]
  /\ y.status = "disconnected" => token'[i] = NoState

LEMMA RequestCommits ==
  ASSUME IInv, Issued, NEW r \in Requests, Reads(req[r]), NEW i \in Ids, Writes(r, i),
         NEW new \in Row, Store(r, i, new), TokenMoves(r, i),
         live' \subseteq States, grant' \in [States -> Offers], owner' \in [States -> AnyUser],
         cookie' \in [Browsers -> AnyUser],
         new.status # "absent",
         \* A Meta row becomes pending only as a new one, and has no account then.
         i = req[r].at /\ provider = "meta" /\ new.status = "pending" =>
           req[r].was.status = "pending",
         provider = "meta" =>
           \/ new.ext = req[r].was.ext
           \/ new.status = "connected" /\ req[r].was.status = "pending",
         r \notin late => Proper(new, i)
  PROVE  IInv'
<1>1. PICK x \in Request : x = req[r] /\ Carries(x) BY DEF IInv, Typed, Requesting
<1>2. PICK y \in Row :
        /\ y = [f \in DOMAIN row[i] |-> IF new[f] = x.was[f] THEN row[i][f] ELSE new[f]]
        /\ Merged(y, row[i], x.was, new)
  <2>1. row[i] \in Row /\ x.was \in Row BY DEF IInv, Typed, TypedRest, Request
  <2> QED BY <2>1, Merges
<1>3. row' = [row EXCEPT ![i] = y] BY <1>1, <1>2 DEF Store
<1>4. \A j \in Ids : row'[j] = IF j = i THEN y ELSE row[j]
  BY <1>3 DEF IInv, Typed, TypedRest
<1>5. \A q \in Requests : req'[q] = IF q = r THEN Idle ELSE req[q]
  BY DEF Store, IInv, Typed
<1>6. /\ late' \subseteq Requests /\ r \notin late'
      /\ \A q \in Requests \ {r} :
           q \in late' <=> q \in late \/ (Reads(req[q]) /\ req[q].at = x.at)
  BY <1>1 DEF Store, Holds, Reads, IInv, Typed, TypedRest
<1>7. overtaken \subseteq overtaken' /\ overtaken' \subseteq Ids
      /\ (i \notin overtaken' => r \notin late) /\ (overtaken' = {} => overtaken = {})
  BY DEF Store, IInv, Typed, TypedRest
<1>8. Typed'
  <2>1. row' \in [Ids -> Row] BY <1>3 DEF IInv, Typed, TypedRest
  <2>2. req' \in [Requests -> Request] BY Empty DEF Store, IInv, Typed
  <2>3. provider' = provider /\ events' = events BY DEF Store
  <2> QED BY <1>6, <1>7, <2>1, <2>2, <2>3 DEF TokenMoves, IInv, Typed, TypedRest
<1>9. provider' = provider BY DEF Store
\* The row the request read, if nobody wrote it since, is the row it writes.
<1>10. /\ x.at = NoRow => x.was = Absent /\ row[i] = Absent /\ i \notin Present
       /\ x.at # NoRow => i = x.at /\ i \in Present /\ x.was.status # "absent"
  <2>1. Reads(x) BY <1>1
  <2>2. x.at = NoRow => i \notin Present BY <1>1, Members DEF Writes
  <2>3. x.at # NoRow => i = x.at BY <1>1 DEF Writes
  <2> QED BY <1>1, <2>1, <2>2, <2>3 DEF Carries, IInv, RowsClean, Present
<1>11. r \notin late => x.was = row[i] /\ y = new
  <2>1. ASSUME r \notin late PROVE x.was = row[i]
    <3>1. Fresh(x) BY <1>1, <2>1 DEF IInv, Reliable
    <3> QED BY <1>1, <1>10, <3>1 DEF Fresh
  <2> QED BY <1>2, <2>1 DEF Merged
<1>12. y.status # "absent"
  <2>1. i \in Present => row[i].status # "absent" BY DEF Present
  <2> QED BY <1>2, <1>10, <2>1, Empty DEF Merged
<1>13. Present' = Present \cup {i} BY <1>4, <1>12 DEF Present
<1>14. RowsClean'
  <2>1. ASSUME provider = "meta", y.status = "pending" PROVE y.ext = NoAccount
    <3>1. new.ext = x.was.ext
      <4>1. ~(new.status = "connected" /\ x.was.status = "pending")
        BY <1>2, <2>1 DEF Merged
      <4> QED BY <1>1, <2>1, <4>1
    <3>2. y.ext = row[i].ext BY <1>2, <3>1 DEF Merged
    <3>3. CASE x.at = NoRow BY <1>10, <3>2, <3>3, Empty
    <3>4. CASE x.at # NoRow
      <4>1. row[i].status = "pending"
        BY <1>1, <1>2, <1>10, <2>1, <3>4 DEF Merged
      <4> QED BY <2>1, <3>2, <4>1 DEF IInv, RowsClean, IsPending
    <3> QED BY <3>3, <3>4
  <2> QED BY <1>4, <1>9, <1>12, <2>1 DEF IInv, RowsClean, IsPending
<1>15. TokensHold'
  <2>1. ASSUME NEW j \in Ids, token'[j] # NoState
        PROVE  /\ token'[j] \in States \ live' /\ owner'[token'[j]] # NoUser
               /\ \A n \in Ids : token'[n] = token'[j] => n = j
    <3>1. CASE Exchanging(x) /\ token'[i] = x.state
      <4>1. /\ x.state \in States \ live /\ owner[x.state] # NoUser
            /\ \A n \in Ids : token[n] # x.state
        BY <1>1, <3>1 DEF Carries
      <4>2. owner'[x.state] # NoUser /\ x.state \notin live' BY <4>1 DEF Issued
      <4>3. CASE j = i
        <5>1. \A n \in Ids \ {i} : token'[n] # x.state BY <4>1 DEF TokenMoves
        <5> QED BY <3>1, <4>1, <4>2, <4>3, <5>1
      <4>4. CASE j # i
        <5>1. token'[j] = token[j] BY <4>4 DEF TokenMoves
        <5>2. token[j] # x.state BY <4>1
        <5> QED BY <2>1, <3>1, <4>4, <5>1, <5>2 DEF IInv, TokensHold, TokenMoves, Issued
      <4> QED BY <4>3, <4>4
    <3>2. CASE token'[i] = token[i] \/ token'[i] = NoState
      <4>1. \A n \in Ids : token'[n] = token[n] \/ token'[n] = NoState
        BY <3>2 DEF TokenMoves
      <4>2. token'[j] = token[j] BY <2>1, <4>1
      <4> QED BY <2>1, <4>1, <4>2 DEF IInv, TokensHold, Issued
    <3> QED BY <1>1, <3>1, <3>2 DEF TokenMoves
  <2> QED BY <2>1 DEF TokensHold
<1>16. ASSUME NEW q \in Requests PROVE Carries(req[q])'
  <2>1. CASE q = r
    <3>1. req'[q] = Idle BY <1>5, <2>1
    <3> QED BY <3>1, Empty DEF Carries, Reads, Exchanging
  <2>2. CASE q # r
    <3>1. PICK z \in Request : z = req[q] BY DEF IInv, Typed
    <3>2. Carries(z) BY <3>1 DEF IInv, Requesting
    <3>3. Exchanging(z) => \A j \in Ids : token'[j] # z.state
      <4>1. ASSUME Exchanging(z), NEW j \in Ids PROVE token'[j] # z.state
        <5>1. token[j] # z.state /\ z.state \in States BY <3>2, <4>1 DEF Carries
        <5>2. Exchanging(x) => x.state # z.state
          BY <1>1, <2>2, <3>1, <4>1 DEF IInv, Requesting
        <5>3. z.state # NoState BY <5>1
        <5> QED BY <1>1, <5>1, <5>2, <5>3 DEF TokenMoves
      <4> QED BY <4>1
    <3>4. Carries(z)'
      BY <1>9, <1>13, <3>2, <3>3 DEF Carries, Reads, Exchanging, Issued
    <3>5. req'[q] = z BY <1>5, <2>2, <3>1
    <3> QED BY <3>4, <3>5 DEF Carries, Reads, Exchanging
  <2> QED BY <2>1, <2>2
<1>17. Requesting'
  <2>1. \A q \in Requests : Exchanging(req'[q]) => q # r /\ req'[q] = req[q]
    BY <1>5, Empty DEF Exchanging
  <2>2. \A q, p \in Requests :
          Exchanging(req'[q]) /\ Exchanging(req'[p]) /\ req'[q].state = req'[p].state => q = p
    BY <2>1 DEF IInv, Requesting
  <2> QED BY <1>16, <2>2 DEF Requesting, Exchanging
<1>18. ASSUME NEW q \in Requests, q \notin late' PROVE Fresh(req[q])'
  <2>1. CASE q = r
    <3>1. req'[q] = Idle BY <1>5, <2>1
    <3> QED BY <3>1, Empty DEF Fresh, Reads
  <2>2. CASE q # r
    <3>1. PICK z \in Request : z = req[q] BY DEF IInv, Typed
    <3>2. q \notin late /\ (Reads(z) => z.at # x.at) BY <1>6, <1>18, <2>2, <3>1
    <3>3. Fresh(z) /\ Carries(z) BY <3>1, <3>2 DEF IInv, Reliable, Requesting
    <3>4. ASSUME Reads(z), z.at # NoRow PROVE Fresh(z)'
      <4>1. z.at \in Present /\ z.at \in Ids BY <3>3, <3>4 DEF Carries, Present
      <4>2. z.at # i BY <1>10, <3>2, <3>4, <4>1
      <4>3. row'[z.at] = row[z.at] /\ token'[z.at] = token[z.at]
        BY <1>4, <4>1, <4>2 DEF TokenMoves
      <4>4. z.pc = "select" => token[z.at] \in States /\ owner[token[z.at]] # NoUser
        BY <3>3, <3>4, <4>1 DEF Fresh, IInv, TokensHold
      <4>5. z.was = row[z.at] /\ (z.pc = "select" =>
              token[z.at] # NoState /\ z.acct \in grant[token[z.at]])
        BY <3>3, <3>4 DEF Fresh
      <4>6. z.pc = "select" => token'[z.at] # NoState /\ z.acct \in grant'[token'[z.at]]
        BY <4>3, <4>4, <4>5 DEF Issued
      <4>7. z.was = row'[z.at] BY <4>3, <4>5
      <4> QED BY <3>4, <4>6, <4>7 DEF Fresh
    <3>5. ASSUME Reads(z), z.at = NoRow PROVE Fresh(z)'
      <4>1. x.at # NoRow /\ i \in Present BY <1>10, <3>2, <3>5
      <4>2. Present' = Present BY <1>13, <4>1
      <4>3. provider = "meta" => \A j \in Ids : ~IsPending(j)' 
        <5>1. ASSUME provider = "meta" PROVE \A j \in Ids : ~IsPending(j)
          BY <3>3, <3>5, <5>1 DEF Fresh
        <5>2. ASSUME provider = "meta" PROVE y.status # "pending"
          <6>1. row[i].status # "pending" BY <5>1, <5>2 DEF IsPending
          <6> QED BY <1>1, <1>2, <1>10, <4>1, <5>2, <6>1 DEF Merged
        <5> QED BY <1>4, <5>1, <5>2 DEF IsPending
      <4>4. z.pc = "connect" BY <3>3, <3>5 DEF Carries
      <4>5. provider' = "shopify" => Present' = {}
        BY <1>9, <3>3, <3>5, <4>2 DEF Fresh
      <4>6. provider' = "meta" => \A j \in Ids : row'[j].status # "pending"
        BY <1>9, <4>3 DEF IsPending
      <4> QED BY <3>5, <4>4, <4>5, <4>6 DEF Fresh, IsPending
    <3>6. ~Reads(z) => Fresh(z)' BY DEF Fresh, Reads
    <3>8. Fresh(z)' BY <3>4, <3>5, <3>6
    <3>7. req'[q] = z BY <1>5, <2>2, <3>1
    <3> QED BY <3>7, <3>8 DEF Fresh, Reads
  <2> QED BY <2>1, <2>2
<1>19. Reliable' BY <1>18 DEF Reliable
<1>20. TokenServesAccount'
  <2>1. ASSUME NEW j \in Ids \ overtaken'
        PROVE  /\ row'[j].status = "connected" =>
                    token'[j] # NoState /\ row'[j].ext \in grant'[token'[j]]
               /\ row'[j].status = "disconnected" => token'[j] = NoState
    <3>1. CASE j = i
      <4>1. r \notin late BY <1>7, <2>1, <3>1
      <4>2. row'[j] = new /\ Proper(new, i) BY <1>4, <1>11, <3>1, <4>1
      <4> QED BY <3>1, <4>2 DEF Proper, Issued
    <3>2. CASE j # i
      <4>1. row'[j] = row[j] /\ token'[j] = token[j] BY <1>4, <3>2 DEF TokenMoves
      <4>2. j \notin overtaken BY <1>7, <2>1
      <4> QED BY <2>1, <4>1, <4>2
              DEF IInv, TokenServesAccount, TokensHold, Connected, Issued
    <3> QED BY <3>1, <3>2
  <2> QED BY <2>1 DEF TokenServesAccount, Connected
<1>21. OneOpen'
  <2>1. SUFFICES ASSUME overtaken' = {}
                 PROVE  /\ provider = "shopify" => \A j, n \in Present' : j = n
                        /\ provider = "meta" =>
                             \A j, n \in Ids : IsPending(j)' /\ IsPending(n)' => j = n
    BY <1>9 DEF OneOpen
  <2>2. overtaken = {} /\ r \notin late BY <1>7, <2>1
  <2>3. Fresh(x) /\ y = new /\ x.was = row[i] BY <1>1, <1>11, <2>2 DEF IInv, Reliable
  <2>4. CASE x.at = NoRow
    <3>1. /\ provider = "shopify" => Present = {}
          /\ provider = "meta" => \A j \in Ids : ~IsPending(j)
      BY <1>1, <2>3, <2>4 DEF Fresh
    <3>2. provider = "shopify" => Present' = {i} BY <1>13, <3>1
    <3>3. provider = "meta" => \A j \in Ids : IsPending(j)' => j = i
      BY <1>4, <3>1 DEF IsPending
    <3> QED BY <3>2, <3>3
  <2>5. CASE x.at # NoRow
    <3>1. Present' = Present BY <1>10, <1>13, <2>5
    <3>2. provider = "meta" => \A j \in Ids : IsPending(j)' => IsPending(j)
      BY <1>1, <1>4, <1>10, <2>3, <2>5 DEF IsPending
    <3> QED BY <2>2, <3>1, <3>2 DEF IInv, OneOpen
  <2> QED BY <2>4, <2>5
<1> QED BY <1>8, <1>14, <1>15, <1>17, <1>19, <1>20, <1>21 DEF IInv

-----------------------------------------------------------------------------
(* How requests begin, go on and end.                                       *)

LEMMA OneOfReq ==
  ASSUME IInv, NEW r \in Requests
  PROVE  \E e \in Request : e = req[r] /\ Carries(e) /\ (r \notin late => Fresh(e))
BY DEF IInv, Typed, Requesting, Reliable

LEMMA Begins ==
  ASSUME IInv, NEW r \in Requests, NEW x \in Request, Begin(r, x),
         Carries(x), Fresh(x), ~Exchanging(x)
  PROVE  IInv'
<1>1. UNCHANGED <<provider, row, token, overtaken, grant, live, owner, cookie, late>>
      /\ req' = [req EXCEPT ![r] = x]
  BY DEF Begin, oauthVars
<1>2. events' \in 0..MaxEvents BY DEF Begin, IInv, Typed, TypedRest
<1>3. TypedRest' BY <1>1, <1>2 DEF IInv, Typed, TypedRest
<1>4. Issued BY <1>1, IssuedByNobody
<1>5. Carries(x)' BY <1>1 DEF Carries, Present
<1> QED BY <1>1, <1>3, <1>4, <1>5, RequestMoves

LEMMA Ends ==
  ASSUME IInv, NEW r \in Requests, End(r), UNCHANGED <<provider, row, token, overtaken, events>>,
         Issued, live' \subseteq States, grant' \in [States -> Offers],
         owner' \in [States -> AnyUser], cookie' \in [Browsers -> AnyUser]
  PROVE  IInv'
<1>1. req' = [req EXCEPT ![r] = Idle] /\ late' = late \ {r} BY DEF End
<1>2. TypedRest' BY <1>1 DEF IInv, Typed, TypedRest
<1>3. Carries(Idle)' BY Empty DEF Carries, Reads, Exchanging
<1>4. ~Exchanging(Idle) /\ Fresh(Idle) BY Empty DEF Exchanging, Fresh, Reads
<1> QED BY <1>1, <1>2, <1>3, <1>4, Empty, RequestMoves

LEMMA Refuses ==
  ASSUME IInv, NEW r \in Requests, Refuse(r), UNCHANGED oauthVars
  PROVE  IInv'
<1>1. UNCHANGED <<grant, live, owner, cookie>> BY DEF oauthVars
<1>2. Issued BY <1>1, IssuedByNobody
<1> QED BY <1>1, <1>2, Ends DEF Refuse, IInv, Typed, TypedRest

\* A new state: nobody has it, and the states in use stay as they are.
LEMMA Issues ==
  ASSUME IInv, NEW r \in Requests, NEW accounts \in Offers, Issue(r, accounts)
  PROVE  /\ Issued /\ live' \subseteq States /\ grant' \in [States -> Offers]
         /\ owner' \in [States -> AnyUser] /\ cookie' \in [Browsers -> AnyUser]
<1>1. PICK s \in States :
        /\ owner[s] = NoUser
        /\ owner' = [owner EXCEPT ![s] = req[r].user]
        /\ grant' = [grant EXCEPT ![s] = accounts]
        /\ live' = live \cup {s}
        /\ cookie' = [cookie EXCEPT ![req[r].browser] = req[r].user]
  BY DEF Issue
<1>2. PICK e \in Request : e = req[r] BY OneOfReq
<1>3. e.user \in AnyUser BY DEF Request
<1>4. Issued BY <1>1 DEF Issued, IInv, Typed, TypedRest
<1>5. live' \subseteq States /\ grant' \in [States -> Offers]
  BY <1>1 DEF IInv, Typed, TypedRest
<1>6. owner' \in [States -> AnyUser] /\ cookie' \in [Browsers -> AnyUser]
  BY <1>1, <1>2, <1>3 DEF IInv, Typed, TypedRest
<1> QED BY <1>4, <1>5, <1>6

LEMMA NobodyIssues ==
  ASSUME IInv, UNCHANGED oauthVars
  PROVE  /\ Issued /\ live' \subseteq States /\ grant' \in [States -> Offers]
         /\ owner' \in [States -> AnyUser] /\ cookie' \in [Browsers -> AnyUser]
<1>1. UNCHANGED <<grant, live, owner, cookie>> BY DEF oauthVars
<1>2. Issued BY <1>1, IssuedByNobody
<1> QED BY <1>1, <1>2 DEF IInv, Typed, TypedRest

\* The key of a state or of a callback session runs out.
LEMMA Expiries ==
  ASSUME IInv, live' \subseteq live, cookie' \in [Browsers -> AnyUser],
         UNCHANGED <<provider, row, token, grant, owner, req, late, overtaken, events>>
  PROVE  IInv'
<1>1. Issued BY IssuedByNobody
<1>2. Typed' BY DEF IInv, Typed, TypedRest
<1>3. RowsClean' BY DEF IInv, RowsClean, IsPending
<1>4. TokensHold' BY DEF IInv, TokensHold
<1>5. Present' = Present BY DEF Present
<1>6. ASSUME NEW q \in Requests PROVE Carries(req[q])'
  <2>1. PICK y \in Request : y = req[q] BY <1>2 DEF IInv, Typed
  <2>2. Carries(y) BY <2>1 DEF IInv, Requesting
  <2>3. Carries(y)' BY <1>5, <2>2 DEF Carries
  <2> QED BY <2>1, <2>3 DEF Carries, Reads, Exchanging
<1>7. Requesting' BY <1>6 DEF IInv, Requesting, Exchanging
<1>8. Reliable'
  <2>1. ASSUME NEW q \in Requests, q \notin late PROVE Fresh(req[q])'
    <3>1. PICK y \in Request : y = req[q] BY <1>2 DEF IInv, Typed
    <3>2. Fresh(y) BY <2>1, <3>1 DEF IInv, Reliable
    <3>3. Fresh(y)' BY <1>5, <3>2 DEF Fresh, IsPending
    <3> QED BY <3>1, <3>3 DEF Fresh, Reads
  <2> QED BY <2>1 DEF Reliable
<1>9. TokenServesAccount' BY DEF IInv, TokenServesAccount, Connected
<1>10. OneOpen' BY <1>5 DEF IInv, OneOpen, IsPending
<1> QED BY <1>2, <1>3, <1>4, <1>7, <1>8, <1>9, <1>10 DEF IInv

-----------------------------------------------------------------------------
(* Connect.                                                                 *)

LEMMA StartShopifyConnectStep ==
  ASSUME IInv, NEW r \in Requests, NEW u \in Users, NEW b \in Browsers, NEW a \in Accounts,
         StartShopifyConnect(r, u, b, a)
  PROVE  IInv'
<1>1. PICK e \in Request : e = req[r] BY OneOfReq
<1>2. PICK i \in IF Present = {} THEN {NoRow} ELSE Present :
        Begin(r, [Load(r, i, "connect") EXCEPT !.user = u, !.browser = b, !.acct = a])
  BY DEF StartShopifyConnect
<1>3. i \in Places /\ (i = NoRow => Present = {}) /\ (i # NoRow => i \in Present /\ i \in Ids)
  BY <1>2, Members DEF Present
<1>4. PICK w \in Row : w = IF i = NoRow THEN Absent ELSE row[i]
  BY <1>3, Empty DEF IInv, Typed, TypedRest
<1> DEFINE x == [e EXCEPT !.pc = "connect", !.at = i, !.was = w, !.user = u,
                          !.browser = b, !.acct = a]
<1>5. x \in Request BY <1>3, Members DEF Request
<1>6. x.pc = "connect" /\ x.at = i /\ x.was = w /\ x.acct = a BY DEF Request
<1>7. Begin(r, x) BY <1>1, <1>2, <1>4 DEF Load
<1> HIDE DEF x
<1>8. provider = "shopify" BY DEF StartShopifyConnect
<1>9. i # NoRow => w.status # "absent" BY <1>3, <1>4 DEF Present
<1>10. Carries(x) BY <1>3, <1>4, <1>6, <1>8, <1>9 DEF Carries, Exchanging
<1>11. Fresh(x) /\ ~Exchanging(x) BY <1>3, <1>4, <1>6, <1>8 DEF Fresh, Exchanging
<1> QED BY <1>5, <1>7, <1>10, <1>11, Begins

LEMMA StartMetaConnectStep ==
  ASSUME IInv, NEW r \in Requests, NEW u \in Users, NEW b \in Browsers,
         StartMetaConnect(r, u, b)
  PROVE  IInv'
<1>1. PICK e \in Request : e = req[r] BY OneOfReq
<1>2. PICK i \in IF PendingMeta = {} THEN {NoRow} ELSE PendingMeta :
        Begin(r, [Load(r, i, "connect") EXCEPT !.user = u, !.browser = b])
  BY DEF StartMetaConnect
<1>3. i \in Places /\ (i = NoRow => PendingMeta = {})
      /\ (i # NoRow => i \in Ids /\ IsPending(i))
  BY <1>2, Members, NewestIsPending
<1>4. PICK w \in Row : w = IF i = NoRow THEN Absent ELSE row[i]
  BY <1>3, Empty DEF IInv, Typed, TypedRest
<1> DEFINE x == [e EXCEPT !.pc = "connect", !.at = i, !.was = w, !.user = u, !.browser = b]
<1>5. x \in Request BY <1>3, Members DEF Request
<1>6. x.pc = "connect" /\ x.at = i /\ x.was = w BY DEF Request
<1>7. Begin(r, x) BY <1>1, <1>2, <1>4 DEF Load
<1> HIDE DEF x
<1>8. provider = "meta" BY DEF StartMetaConnect
<1>9. i # NoRow => w.status = "pending" /\ i \in Present BY <1>3, <1>4 DEF Present, IsPending
<1>10. Carries(x) BY <1>4, <1>6, <1>8, <1>9 DEF Carries, Exchanging
<1>11. i = NoRow => \A j \in Ids : ~IsPending(j) BY <1>3, <1>8, NoneIsPending DEF IInv
<1>12. Fresh(x) /\ ~Exchanging(x) BY <1>4, <1>6, <1>8, <1>11 DEF Fresh, Exchanging
<1> QED BY <1>5, <1>7, <1>10, <1>12, Begins

LEMMA TokensStay ==
  ASSUME IInv, UNCHANGED token
  PROVE  \A r, i : TokenMoves(r, i)
BY DEF TokenMoves, IInv, Typed, TypedRest

LEMMA FinishShopifyConnectStep ==
  ASSUME IInv, NEW r \in Requests, FinishShopifyConnect(r)
  PROVE  IInv'
<1>1. PICK e \in Request : e = req[r] /\ Carries(e) BY OneOfReq
<1>2. provider = "shopify" /\ e.pc = "connect" /\ Reads(req[r])
  BY <1>1 DEF FinishShopifyConnect, Reads
<1>3. e.acct \in Accounts /\ e.was \in Row /\ e.at \in Places
  BY <1>1, <1>2 DEF Request, Carries
<1>4. {e.acct} \in Offers BY <1>3, Members
<1>5. CASE Refuse(r) /\ UNCHANGED oauthVars BY <1>5, Refuses
<1>6. CASE /\ e.at # NoRow
           /\ Store(r, e.at, [e.was EXCEPT !.status = "pending", !.ext = e.acct])
           /\ Issue(r, {e.acct}) /\ UNCHANGED token
  <2> DEFINE new == [e.was EXCEPT !.status = "pending", !.ext = e.acct]
  <2>1. new \in Row /\ new.status = "pending" BY <1>3, Members DEF Row
  <2> HIDE DEF new
  <2>2. Store(r, e.at, new) BY <1>6 DEF new
  <2>3. e.at \in Ids BY <1>1, <1>2, <1>6 DEF Carries, Reads, Present
  <2>4. Writes(r, e.at) BY <1>1 DEF Writes
  <2>5. Proper(new, e.at) BY <2>1 DEF Proper
  <2>6. /\ Issued /\ live' \subseteq States /\ grant' \in [States -> Offers]
        /\ owner' \in [States -> AnyUser] /\ cookie' \in [Browsers -> AnyUser]
    BY <1>4, <1>6, Issues
  <2>7. TokenMoves(r, e.at) BY <1>6, TokensStay
  <2> QED BY <1>2, <2>1, <2>2, <2>3, <2>4, <2>5, <2>6, <2>7, RequestCommits
<1>7. CASE /\ e.at = NoRow
           /\ Insert(r, [Absent EXCEPT !.status = "pending", !.ext = e.acct])
           /\ Issue(r, {e.acct}) /\ UNCHANGED token
  <2> DEFINE new == [Absent EXCEPT !.status = "pending", !.ext = e.acct]
  <2>1. new \in Row /\ new.status = "pending" BY <1>3, Empty, Members DEF Row
  <2> HIDE DEF new
  <2>2. PICK i \in Ids \ Present : i = Min(Ids \ Present)
    BY <1>7, NextIsFree DEF Insert
  <2>3. Store(r, i, new) BY <1>7, <2>2 DEF new, Insert
  <2>4. Writes(r, i) BY <1>1, <1>7, <2>2 DEF Writes
  <2>5. Proper(new, i) BY <2>1 DEF Proper
  <2>6. /\ Issued /\ live' \subseteq States /\ grant' \in [States -> Offers]
        /\ owner' \in [States -> AnyUser] /\ cookie' \in [Browsers -> AnyUser]
    BY <1>4, <1>7, Issues
  <2>7. TokenMoves(r, i) BY <1>7, TokensStay
  <2> QED BY <1>2, <2>1, <2>2, <2>3, <2>4, <2>5, <2>6, <2>7, RequestCommits
<1>8. CASE End(r) /\ Issue(r, {e.acct}) /\ UNCHANGED <<provider, row, token, overtaken, events>>
  <2>1. /\ Issued /\ live' \subseteq States /\ grant' \in [States -> Offers]
        /\ owner' \in [States -> AnyUser] /\ cookie' \in [Browsers -> AnyUser]
    BY <1>4, <1>8, Issues
  <2> QED BY <1>8, <2>1, Ends
<1> QED BY <1>1, <1>5, <1>6, <1>7, <1>8 DEF FinishShopifyConnect

LEMMA FinishMetaConnectStep ==
  ASSUME IInv, NEW r \in Requests, FinishMetaConnect(r)
  PROVE  IInv'
<1>1. PICK e \in Request : e = req[r] /\ Carries(e) BY OneOfReq
<1>2. provider = "meta" /\ e.pc = "connect" /\ Reads(req[r])
  BY <1>1 DEF FinishMetaConnect, Reads
<1>3. e.was \in Row /\ e.at \in Places BY DEF Request
<1>4. PICK accounts \in Offers : Issue(r, accounts) BY DEF FinishMetaConnect, Offers
<1>5. /\ Issued /\ live' \subseteq States /\ grant' \in [States -> Offers]
      /\ owner' \in [States -> AnyUser] /\ cookie' \in [Browsers -> AnyUser]
  BY <1>4, Issues
<1>6. CASE e.at = NoRow
  <2> DEFINE new == [Absent EXCEPT !.status = "pending"]
  <2>1. new \in Row /\ new.status = "pending" /\ new.ext = Absent.ext
    BY Empty, Members DEF Row
  <2> HIDE DEF new
  <2>2. Insert(r, new) /\ UNCHANGED token BY <1>1, <1>6 DEF FinishMetaConnect, new
  <2>3. PICK i \in Ids \ Present : i = Min(Ids \ Present) BY <2>2, NextIsFree DEF Insert
  <2>4. Store(r, i, new) BY <2>2, <2>3 DEF Insert
  <2>5. Writes(r, i) BY <1>1, <1>6, <2>3 DEF Writes
  <2>6. Proper(new, i) BY <2>1 DEF Proper
  <2>7. TokenMoves(r, i) BY <2>2, TokensStay
  <2>8. e.was = Absent /\ i # req[r].at BY <1>1, <1>2, <1>6, <2>3, Members DEF Carries, Reads
  <2> QED BY <1>1, <1>2, <1>5, <2>1, <2>3, <2>4, <2>5, <2>6, <2>7, <2>8, RequestCommits
<1>7. CASE e.at # NoRow
  <2> DEFINE new == [e.was EXCEPT !.offered = {}]
  <2>1. new \in Row /\ new.status = e.was.status /\ new.ext = e.was.ext
    BY <1>3, Members DEF Row
  <2> HIDE DEF new
  <2>2. Store(r, e.at, new) /\ token' = [token EXCEPT ![e.at] = NoState]
    BY <1>1, <1>7 DEF FinishMetaConnect, new
  <2>3. e.at \in Ids BY <1>1, <1>2, <1>7 DEF Carries, Reads, Present
  <2>4. Writes(r, e.at) BY <1>1 DEF Writes
  <2>5. new.status = "pending" BY <1>1, <1>2, <1>7, <2>1 DEF Carries
  <2>6. Proper(new, e.at) BY <2>5 DEF Proper
  <2>7. TokenMoves(r, e.at)
    BY <2>2, <2>3, Members DEF TokenMoves, IInv, Typed, TypedRest
  <2> QED BY <1>1, <1>2, <1>5, <2>1, <2>2, <2>3, <2>4, <2>5, <2>6, <2>7, RequestCommits
<1> QED BY <1>6, <1>7

-----------------------------------------------------------------------------
(* The callback.                                                            *)

LEMMA StartCallbackStep ==
  ASSUME IInv, NEW r \in Requests, NEW b \in Browsers, NEW s \in States, StartCallback(r, b, s)
  PROVE  IInv'
<1> DEFINE x == [Idle EXCEPT !.pc = "callback", !.browser = b, !.state = s]
<1>1. x \in Request BY Empty, Members DEF Request
<1>2. x.pc = "callback" /\ x.state = s BY Empty DEF Request
<1>3. Begin(r, x) /\ owner[s] # NoUser BY DEF StartCallback
<1> HIDE DEF x
<1>4. Carries(x) BY <1>2, <1>3 DEF Carries, Reads, Exchanging
<1>5. Fresh(x) /\ ~Exchanging(x) BY <1>2 DEF Fresh, Reads, Exchanging
<1> QED BY <1>1, <1>3, <1>4, <1>5, Begins

\* GETDEL: of two callbacks with one state, one gets it.
LEMMA ConsumeStateStep ==
  ASSUME IInv, NEW r \in Requests, ConsumeState(r)
  PROVE  IInv'
<1>1. PICK e \in Request : e = req[r] /\ Carries(e) BY OneOfReq
<1>2. e.pc = "callback" /\ e.state \in States /\ owner[e.state] # NoUser
  BY <1>1 DEF ConsumeState, Carries
<1>3. UNCHANGED <<provider, row, token, grant, owner, overtaken, events>> BY DEF ConsumeState
<1>4. live' \subseteq live BY DEF ConsumeState
<1>5. cookie' \in [Browsers -> AnyUser]
  BY Members DEF ConsumeState, IInv, Typed, TypedRest
<1>6. Issued BY <1>3, <1>4, IssuedByNobody
<1>7. CASE cookie[e.browser] # NoUser /\ e.state \in live /\ owner[e.state] = cookie[e.browser]
  <2> DEFINE x == [e EXCEPT !.pc = "exchange"]
  <2>1. x \in Request BY Members DEF Request
  <2>2. x.pc = "exchange" /\ x.state = e.state BY DEF Request
  <2>3. req' = [req EXCEPT ![r] = x] /\ late' = late BY <1>1, <1>7 DEF ConsumeState
  <2> HIDE DEF x
  <2>4. live' = live \ {e.state} BY <1>1, <1>7 DEF ConsumeState
  <2>5. TypedRest' BY <1>3, <1>4, <1>5, <2>3 DEF IInv, Typed, TypedRest
  <2>6. \A i \in Ids : token[i] # e.state
    <3>1. e.state # NoState BY <1>2
    <3> QED BY <1>7, <3>1 DEF IInv, TokensHold
  <2>7. Carries(x)'
    BY <1>2, <1>3, <2>2, <2>4, <2>6 DEF Carries, Reads, Exchanging
  <2>8. \A q \in Requests \ {r} : Exchanging(req[q]) => req[q].state # x.state
    BY <1>7, <2>2 DEF IInv, Requesting, Carries
  <2>9. Fresh(x) BY <2>2 DEF Fresh, Reads
  <2> QED BY <1>3, <1>6, <2>1, <2>3, <2>5, <2>7, <2>8, <2>9, RequestMoves
<1>8. CASE ~(cookie[e.browser] # NoUser /\ e.state \in live
             /\ owner[e.state] = cookie[e.browser])
  <2>1. End(r) BY <1>1, <1>8 DEF ConsumeState
  <2> QED BY <1>3, <1>4, <1>5, <1>6, <2>1, Ends DEF IInv, Typed, TypedRest
<1> QED BY <1>7, <1>8


LEMMA ExchangeStep ==
  ASSUME IInv, NEW r \in Requests, Exchange(r)
  PROVE  IInv'
<1>1. PICK e \in Request : e = req[r] /\ Carries(e) BY OneOfReq
<1>2. e.pc = "exchange" /\ UNCHANGED oauthVars BY <1>1 DEF Exchange
<1>3. CASE Refuse(r) BY <1>2, <1>3, Refuses
<1>4. ASSUME NEW i \in CallbackRow, row[i].status = "pending",
             provider = "shopify" => row[i].ext \in grant[e.state],
             req' = [req EXCEPT ![r] = Load(r, i, "credential")],
             UNCHANGED <<provider, row, token, late, overtaken, events>>
      PROVE  IInv'
  <2>1. i \in Ids BY <1>4, NewestIsPending DEF CallbackRow, Present
  <2>2. i \in Present /\ i # NoRow BY <1>4, <2>1, Members DEF Present
  <2>3. PICK w \in Row : w = row[i] BY <2>1 DEF IInv, Typed, TypedRest
  <2> DEFINE x == [e EXCEPT !.pc = "credential", !.at = i, !.was = w]
  <2>4. x \in Request BY <2>1, Members DEF Request
  <2>5. x.pc = "credential" /\ x.at = i /\ x.was = w /\ x.state = e.state BY DEF Request
  <2>6. req' = [req EXCEPT ![r] = x] BY <1>1, <1>4, <2>2, <2>3 DEF Load
  <2> HIDE DEF x
  <2>7. UNCHANGED <<grant, live, owner, cookie>> BY <1>2 DEF oauthVars
  <2>8. Issued BY <2>7, IssuedByNobody
  <2>9. TypedRest' BY <1>4, <2>7 DEF IInv, Typed, TypedRest
  <2>10. e.state \in States /\ owner[e.state] # NoUser /\ e.state \notin live
         /\ \A j \in Ids : token[j] # e.state
    BY <1>1, <1>2 DEF Carries, Exchanging
  <2>11. Present' = Present BY <1>4 DEF Present
  <2>12. Carries(x)'
    BY <1>4, <2>2, <2>3, <2>5, <2>7, <2>10, <2>11 DEF Carries, Reads, Exchanging
  <2>13. Fresh(x) BY <2>2, <2>3, <2>5 DEF Fresh
  <2>14. \A q \in Requests \ {r} : Exchanging(req[q]) => req[q].state # x.state
    BY <1>1, <1>2, <2>5 DEF IInv, Requesting, Exchanging
  <2> QED BY <1>4, <2>4, <2>6, <2>8, <2>9, <2>12, <2>13, <2>14, RequestMoves
<1> QED BY <1>1, <1>3, <1>4 DEF Exchange

LEMMA LookUpCredentialStep ==
  ASSUME IInv, NEW r \in Requests, LookUpCredential(r)
  PROVE  IInv'
<1>1. PICK e \in Request : e = req[r] /\ Carries(e) /\ (r \notin late => Fresh(e))
  BY OneOfReq
<1>2. e.pc = "credential" BY <1>1 DEF LookUpCredential
<1>3. e.at \in Ids BY <1>1, <1>2 DEF Carries, Reads, Present
<1>4. PICK had \in AnyState : had = token[e.at] BY <1>3 DEF IInv, Typed, TypedRest
<1> DEFINE x == [e EXCEPT !.pc = "store", !.had = had]
<1>5. x \in Request BY Members DEF Request
<1>6. x.pc = "store" /\ x.at = e.at /\ x.was = e.was /\ x.state = e.state BY DEF Request
<1>7. req' = [req EXCEPT ![r] = x] BY <1>1, <1>4 DEF LookUpCredential
<1> HIDE DEF x
<1>8. UNCHANGED <<provider, row, token, late, overtaken, events, grant, live, owner, cookie>>
  BY DEF LookUpCredential, oauthVars
<1>9. Issued BY <1>8, IssuedByNobody
<1>10. TypedRest' BY <1>8 DEF IInv, Typed, TypedRest
<1>11. Present' = Present BY <1>8 DEF Present
<1>12. Carries(x)' BY <1>1, <1>2, <1>6, <1>8, <1>11 DEF Carries, Reads, Exchanging
<1>13. r \notin late' => Fresh(x) BY <1>1, <1>2, <1>6, <1>8 DEF Fresh, Reads
<1>14. \A q \in Requests \ {r} : Exchanging(req[q]) => req[q].state # x.state
  BY <1>1, <1>2, <1>6 DEF IInv, Requesting, Exchanging
<1> QED BY <1>5, <1>7, <1>8, <1>9, <1>10, <1>12, <1>13, <1>14, RequestMoves

LEMMA FinishCallbackStep ==
  ASSUME IInv, NEW r \in Requests, FinishCallback(r)
  PROVE  IInv'
<1>1. PICK e \in Request : e = req[r] /\ Carries(e) BY OneOfReq
<1>2. e.pc = "store" /\ Reads(req[r]) /\ Exchanging(req[r]) /\ UNCHANGED oauthVars
  BY <1>1 DEF FinishCallback, Reads, Exchanging
<1>3. e.at \in Ids BY <1>1, <1>2 DEF Carries, Reads, Present
<1>4. e.state \in States /\ owner[e.state] # NoUser /\ e.was.status = "pending"
      /\ (provider = "shopify" => e.was.ext \in grant[e.state])
  BY <1>1, <1>2 DEF Carries, Exchanging
<1>5. PICK accounts \in Offers : accounts = grant[e.state]
  BY <1>4 DEF IInv, Typed, TypedRest
<1>6. CASE Refuse(r) BY <1>2, <1>6, Refuses
<1>7. CASE /\ token' = [token EXCEPT ![e.at] = e.state]
           /\ Store(r, e.at, IF provider = "meta" THEN [e.was EXCEPT !.offered = accounts]
                             ELSE [e.was EXCEPT !.status = "connected"])
  <2>1. e.was \in Row BY DEF Request
  <2>2. PICK new \in Row :
          /\ Store(r, e.at, new) /\ new.ext = e.was.ext
          /\ provider = "meta" => new.status = "pending"
          /\ provider # "meta" => new.status = "connected"
    <3> DEFINE found == [e.was EXCEPT !.offered = accounts]
               linked == [e.was EXCEPT !.status = "connected"]
    <3>1. found \in Row /\ found.ext = e.was.ext /\ found.status = "pending"
      BY <1>4, <2>1 DEF Row
    <3>2. linked \in Row /\ linked.ext = e.was.ext /\ linked.status = "connected"
      BY <2>1, Members DEF Row
    <3>3. Store(r, e.at, IF provider = "meta" THEN found ELSE linked) BY <1>7
    <3> HIDE DEF found, linked
    <3> QED BY <3>1, <3>2, <3>3
  <2>3. Writes(r, e.at) BY <1>1 DEF Writes
  <2>4. TokenMoves(r, e.at)
    BY <1>1, <1>2, <1>3, <1>4, <1>7, Members DEF TokenMoves, IInv, Typed, TypedRest
  <2>5. token'[e.at] = e.state /\ e.state # NoState
    BY <1>3, <1>4, <1>7 DEF IInv, Typed, TypedRest
  <2>6. provider \in {"shopify", "meta"} BY DEF IInv, Typed, TypedRest
  <2>7. Proper(new, e.at) BY <1>4, <2>2, <2>5, <2>6 DEF Proper
  <2>8. new.status # "absent" BY <2>2
  <2> QED BY <1>1, <1>2, <1>3, <1>4, <2>2, <2>3, <2>4, <2>7, <2>8, NobodyIssues, RequestCommits
<1> QED BY <1>1, <1>5, <1>6, <1>7 DEF FinishCallback

-----------------------------------------------------------------------------
(* Selection, disconnect, rejection.                                        *)

LEMMA StartSelectStep ==
  ASSUME IInv, NEW r \in Requests, NEW a \in Accounts, StartSelect(r, a)
  PROVE  IInv'
<1>1. PICK e \in Request : e = req[r] BY OneOfReq
<1>2. PICK i \in PendingMeta :
        /\ token[i] # NoState /\ a \in grant[token[i]]
        /\ Begin(r, [Load(r, i, "select") EXCEPT !.acct = a])
  BY DEF StartSelect
<1>3. i \in Ids /\ IsPending(i) BY NewestIsPending
<1>4. i \in Present /\ i # NoRow BY <1>3, Members DEF Present, IsPending
<1>5. PICK w \in Row : w = row[i] BY <1>3 DEF IInv, Typed, TypedRest
<1> DEFINE x == [e EXCEPT !.pc = "select", !.at = i, !.was = w, !.acct = a]
<1>6. x \in Request BY <1>3, Members DEF Request
<1>7. x.pc = "select" /\ x.at = i /\ x.was = w /\ x.acct = a BY DEF Request
<1>8. Begin(r, x) BY <1>1, <1>2, <1>4, <1>5 DEF Load
<1> HIDE DEF x
<1>9. provider = "meta" BY DEF StartSelect
<1>10. w.status = "pending" BY <1>3, <1>5 DEF IsPending
<1>11. Carries(x) BY <1>4, <1>7, <1>9, <1>10 DEF Carries, Exchanging
<1>12. Fresh(x) /\ ~Exchanging(x) BY <1>2, <1>4, <1>5, <1>7 DEF Fresh, Exchanging
<1> QED BY <1>6, <1>8, <1>11, <1>12, Begins

LEMMA FinishSelectStep ==
  ASSUME IInv, NEW r \in Requests, FinishSelect(r)
  PROVE  IInv'
<1>1. PICK e \in Request : e = req[r] /\ Carries(e) /\ (r \notin late => Fresh(e))
  BY OneOfReq
<1>2. e.pc = "select" /\ Reads(req[r]) /\ Reads(e) /\ UNCHANGED oauthVars
  BY <1>1 DEF FinishSelect, Reads
<1>3. CASE Refuse(r) BY <1>2, <1>3, Refuses
<1>4. CASE /\ Store(r, e.at, [e.was EXCEPT !.status = "connected", !.ext = e.acct])
           /\ UNCHANGED token
  <2> DEFINE new == [e.was EXCEPT !.status = "connected", !.ext = e.acct]
  <2>1. new \in Row /\ new.status = "connected" /\ new.ext = e.acct
    <3>1. e.was \in Row /\ e.acct \in Exts BY DEF Request
    <3> QED BY <3>1, Members DEF Row
  <2> HIDE DEF new
  <2>2. Store(r, e.at, new) BY <1>4 DEF new
  <2>3. e.at \in Ids /\ e.at # NoRow BY <1>1, <1>2, Members DEF Carries, Present
  <2>4. Writes(r, e.at) BY <1>1 DEF Writes
  <2>5. TokenMoves(r, e.at) BY <1>4, TokensStay
  <2>6. e.was.status = "pending" BY <1>1, <1>2 DEF Carries
  <2>7. r \notin late => Proper(new, e.at)
    <3>1. r \notin late => token[e.at] # NoState /\ e.acct \in grant[token[e.at]]
      BY <1>1, <1>2 DEF Fresh
    <3> QED BY <1>4, <2>1, <2>3, <3>1 DEF Proper, IInv, TokensHold
  <2> QED BY <1>1, <1>2, <2>1, <2>2, <2>3, <2>4, <2>5, <2>6, <2>7, NobodyIssues, RequestCommits
<1> QED BY <1>1, <1>3, <1>4 DEF FinishSelect

LEMMA Looks ==
  ASSUME IInv, NEW r \in Requests, NEW i \in Present, NEW pc \in {"disconnect", "reject"},
         Begin(r, Load(r, i, pc))
  PROVE  IInv'
<1>1. PICK e \in Request : e = req[r] BY OneOfReq
<1>2. i \in Ids /\ i # NoRow BY Members DEF Present
<1>3. PICK w \in Row : w = row[i] BY <1>2 DEF IInv, Typed, TypedRest
<1> DEFINE x == [e EXCEPT !.pc = pc, !.at = i, !.was = w]
<1>4. x \in Request
  <2>1. pc \in Pcs BY Members
  <2> QED BY <1>2, <2>1, Members DEF Request
<1>5. x.pc = pc /\ x.at = i /\ x.was = w BY DEF Request
<1>6. Begin(r, x) BY <1>1, <1>2, <1>3 DEF Load
<1> HIDE DEF x
<1>7. w.status # "absent" BY <1>3 DEF Present
<1>8. Carries(x) BY <1>2, <1>5, <1>7 DEF Carries, Exchanging
<1>9. Fresh(x) /\ ~Exchanging(x) BY <1>2, <1>3, <1>5 DEF Fresh, Exchanging
<1> QED BY <1>4, <1>6, <1>8, <1>9, Begins

LEMMA FinishDisconnectStep ==
  ASSUME IInv, NEW r \in Requests, FinishDisconnect(r)
  PROVE  IInv'
<1>1. PICK e \in Request : e = req[r] /\ Carries(e) BY OneOfReq
<1>2. e.pc = "disconnect" /\ Reads(req[r]) /\ Reads(e) /\ UNCHANGED oauthVars
  BY <1>1 DEF FinishDisconnect, Reads
<1> DEFINE new == [e.was EXCEPT !.status = "disconnected"]
<1>3. new \in Row /\ new.status = "disconnected" /\ new.ext = e.was.ext
  <2>1. e.was \in Row BY DEF Request
  <2> QED BY <2>1, Members DEF Row
<1> HIDE DEF new
<1>4. Store(r, e.at, new) /\ token' = [token EXCEPT ![e.at] = NoState]
  BY <1>1 DEF FinishDisconnect, new
<1>5. e.at \in Ids /\ e.at # NoRow BY <1>1, <1>2, Members DEF Carries, Present
<1>6. Writes(r, e.at) BY <1>1 DEF Writes
<1>7. TokenMoves(r, e.at) /\ token'[e.at] = NoState
  BY <1>4, <1>5, Members DEF TokenMoves, IInv, Typed, TypedRest
<1>8. Proper(new, e.at) BY <1>3, <1>7 DEF Proper
<1> QED BY <1>1, <1>2, <1>3, <1>4, <1>5, <1>6, <1>7, <1>8, NobodyIssues, RequestCommits

LEMMA FinishRejectStep ==
  ASSUME IInv, NEW r \in Requests, FinishReject(r)
  PROVE  IInv'
<1>1. PICK e \in Request : e = req[r] /\ Carries(e) BY OneOfReq
<1>2. e.pc = "reject" /\ Reads(req[r]) /\ Reads(e) /\ UNCHANGED oauthVars /\ UNCHANGED token
  BY <1>1 DEF FinishReject, Reads
<1> DEFINE new == [e.was EXCEPT !.status = "error"]
<1>3. new \in Row /\ new.status = "error" /\ new.ext = e.was.ext
  <2>1. e.was \in Row BY DEF Request
  <2> QED BY <2>1, Members DEF Row
<1> HIDE DEF new
<1>4. Store(r, e.at, new) BY <1>1 DEF FinishReject, new
<1>5. e.at \in Ids /\ e.at # NoRow BY <1>1, <1>2, Members DEF Carries, Present
<1>6. Writes(r, e.at) BY <1>1 DEF Writes
<1>7. TokenMoves(r, e.at) BY <1>2, TokensStay
<1>8. Proper(new, e.at) BY <1>3 DEF Proper
<1> QED BY <1>1, <1>2, <1>3, <1>4, <1>5, <1>6, <1>7, <1>8, NobodyIssues, RequestCommits

LEMMA RequestFailsStep ==
  ASSUME IInv, NEW r \in Requests, RequestFails(r)
  PROVE  IInv'
BY Refuses DEF RequestFails

LEMMA StateExpiresStep ==
  ASSUME IInv, NEW s \in States, StateExpires(s)
  PROVE  IInv'
<1>1. cookie' \in [Browsers -> AnyUser] /\ live' \subseteq live
  BY DEF StateExpires, IInv, Typed, TypedRest
<1> QED BY <1>1, Expiries DEF StateExpires

LEMMA SessionExpiresStep ==
  ASSUME IInv, NEW b \in Browsers, SessionExpires(b)
  PROVE  IInv'
<1>1. cookie' \in [Browsers -> AnyUser] /\ live' \subseteq live
  BY Members DEF SessionExpires, IInv, Typed, TypedRest
<1> QED BY <1>1, Expiries DEF SessionExpires

-----------------------------------------------------------------------------
LEMMA Initially == ASSUME Init PROVE IInv
<1>1. /\ \A i \in Ids : row[i] = Absent /\ token[i] = NoState
      /\ \A r \in Requests : req[r] = Idle
      /\ live = {} /\ late = {} /\ overtaken = {} /\ events = 0
  BY DEF Init
<1>2. Typed BY Empty, Members DEF Init, Typed, TypedRest
<1>3. RowsClean /\ TokensHold /\ TokenServesAccount
  BY <1>1, Empty DEF RowsClean, TokensHold, TokenServesAccount, Connected, IsPending
<1>4. Carries(Idle) /\ Fresh(Idle) /\ ~Exchanging(Idle)
  BY Empty DEF Carries, Fresh, Reads, Exchanging
<1>5. Requesting /\ Reliable BY <1>1, <1>4 DEF Requesting, Reliable
<1>6. OneOpen BY <1>1, Empty DEF OneOpen, Present, IsPending
<1> QED BY <1>2, <1>3, <1>5, <1>6 DEF IInv

LEMMA Stuttering == ASSUME IInv, UNCHANGED vars PROVE IInv'
<1>1. cookie' \in [Browsers -> AnyUser] BY DEF vars, IInv, Typed, TypedRest
<1> QED BY <1>1, Expiries DEF vars, oauthVars

LEMMA NextKeepsIInv == ASSUME IInv, Next PROVE IInv'
<1>1. ASSUME NEW r \in Requests, NEW u \in Users, NEW b \in Browsers,
             StartMetaConnect(r, u, b)
             \/ \E a \in Accounts : StartShopifyConnect(r, u, b, a)
      PROVE  IInv'
  BY <1>1, StartMetaConnectStep, StartShopifyConnectStep
<1>2. ASSUME NEW r \in Requests,
             \/ \E b \in Browsers, s \in States : StartCallback(r, b, s)
             \/ \E a \in Accounts : StartSelect(r, a)
      PROVE  IInv'
  BY <1>2, StartCallbackStep, StartSelectStep
<1>3. ASSUME NEW r \in Requests, NEW i \in Ids, StartDisconnect(r, i) \/ StartReject(r, i)
      PROVE  IInv'
  <2>1. CASE StartDisconnect(r, i) BY <2>1, Looks DEF StartDisconnect
  <2>2. CASE StartReject(r, i) BY <2>2, Looks DEF StartReject
  <2> QED BY <1>3, <2>1, <2>2
<1>4. ASSUME NEW r \in Requests,
             \/ FinishShopifyConnect(r) \/ FinishMetaConnect(r) \/ ConsumeState(r)
             \/ Exchange(r) \/ LookUpCredential(r) \/ FinishCallback(r) \/ FinishSelect(r)
             \/ FinishDisconnect(r) \/ FinishReject(r) \/ RequestFails(r)
      PROVE  IInv'
  BY <1>4, FinishShopifyConnectStep, FinishMetaConnectStep, ConsumeStateStep, ExchangeStep,
     LookUpCredentialStep, FinishCallbackStep, FinishSelectStep, FinishDisconnectStep,
     FinishRejectStep, RequestFailsStep
<1> QED BY <1>1, <1>2, <1>3, <1>4, StateExpiresStep, SessionExpiresStep DEF Next

THEOREM Invariance == Spec => []IInv
<1>1. Init => IInv BY Initially
<1>2. IInv /\ [Next]_vars => IInv' BY NextKeepsIInv, Stuttering
<1> QED BY <1>1, <1>2, PTL DEF Spec

\* complete_*_callback, select_meta_account and disconnect_connection: a connected
\* row has the token of a grant that reaches the account it names, and a
\* disconnected one has none, unless a request wrote it that was overtaken.
THEOREM TokensServe == Spec => []TokenServesAccount
<1>1. IInv => TokenServesAccount BY DEF IInv
<1> QED BY <1>1, Invariance, PTL

LEMMA AtMostOne ==
  ASSUME NEW S, \A i, j \in S : i = j
  PROVE  Cardinality(S) <= 1
<1>1. CASE S = {} BY <1>1, FS_EmptySet
<1>2. CASE S # {}
  <2>1. PICK i \in S : TRUE BY <1>2
  <2>2. S = {i} BY <2>1
  <2>3. Cardinality({i}) = 1 BY FS_Singleton
  <2> QED BY <2>2, <2>3
<1> QED BY <1>1, <1>2

\* OAuthStateService.consume gives a state to one callback, so one authorization
\* serves one row; the connect handlers look the open row up before they insert
\* one, so two need overlapping requests, one of which is then late.
THEOREM RowsFitTogether == Spec => []RowsFit
<1>1. IInv => TypeOK BY TypedIsTypeOK DEF IInv
<1>2. IInv => OneRowPerGrant BY DEF IInv, TokensHold, OneRowPerGrant
<1>3. ASSUME IInv PROVE OneOpenConnection
  <2> DEFINE pending == {i \in Ids : row[i].status = "pending"}
  <2>1. SUFFICES ASSUME overtaken = {}
                 PROVE  /\ provider = "shopify" => Cardinality(Present) <= 1
                        /\ Cardinality(pending) <= 1
    BY DEF OneOpenConnection
  <2>2. provider = "shopify" => \A i, j \in Present : i = j
    BY <1>3, <2>1 DEF IInv, OneOpen
  <2>3. pending \subseteq Present BY DEF Present
  <2>4. \A i, j \in pending : i = j
    BY <1>3, <2>1, <2>2, <2>3 DEF IInv, OneOpen, IsPending, Typed, TypedRest
  <2> HIDE DEF pending
  <2> QED BY <2>2, <2>4, AtMostOne
<1> QED BY <1>1, <1>2, <1>3, Invariance, PTL DEF RowsFit

\* What a step may do to rows that are down.
RowsStayDown == \A i \in Ids \ overtaken' :
  row[i].status \in {"disconnected", "error"} => ~(row'[i].status = "connected")

LEMMA CommitsStayDown ==
  ASSUME IInv, NEW r \in Requests, Reads(req[r]), NEW i \in Ids, Writes(r, i),
         NEW new, Store(r, i, new),
         new.status = "connected" => req[r].was.status = "pending"
  PROVE  RowsStayDown
<1> SUFFICES ASSUME NEW j \in Ids \ overtaken', row[j].status \in {"disconnected", "error"},
                    row'[j].status = "connected"
             PROVE  FALSE
  BY DEF RowsStayDown
<1>1. PICK e \in Request : e = req[r] /\ Carries(e) /\ (r \notin late => Fresh(e))
  BY OneOfReq
<1>2. PICK held \in Row : held = row[i] BY DEF IInv, Typed, TypedRest
<1>3. row' = [row EXCEPT ![i] =
        [f \in DOMAIN held |-> IF new[f] = e.was[f] THEN held[f] ELSE new[f]]]
  BY <1>1, <1>2 DEF Store
<1>4. j = i BY <1>3 DEF IInv, Typed, TypedRest
<1>5. "status" \in DOMAIN held BY DEF Row
<1>6. row'[i].status = IF new.status = e.was.status THEN held.status ELSE new.status
  BY <1>3, <1>5 DEF IInv, Typed, TypedRest
<1>7. r \notin late BY <1>4 DEF Store
<1>8. i \in Present BY <1>4 DEF Present
<1>9. e.at = i BY <1>1, <1>8 DEF Writes
<1>10. e.was = row[i] BY <1>1, <1>7, <1>9, Members DEF Fresh
<1> QED BY <1>1, <1>2, <1>4, <1>6, <1>10

LEMMA NextStaysDown == ASSUME IInv, Next PROVE RowsStayDown
<1>1. CASE row' = row BY <1>1 DEF RowsStayDown
<1>2. ASSUME NEW r \in Requests,
             FinishShopifyConnect(r) \/ FinishMetaConnect(r) \/ FinishCallback(r)
             \/ FinishSelect(r) \/ FinishDisconnect(r) \/ FinishReject(r)
      PROVE  RowsStayDown
  <2>1. PICK e \in Request : e = req[r] /\ Carries(e) BY OneOfReq
  <2>2. e.was \in Row /\ e.acct \in Exts BY DEF Request
  <2>3. Reads(req[r]) /\ Reads(e)
    BY <1>2, <2>1 DEF FinishShopifyConnect, FinishMetaConnect, FinishCallback, FinishSelect,
                      FinishDisconnect, FinishReject, Reads
  <2>4. e.at # NoRow => e.at \in Ids BY <2>1, <2>3 DEF Carries, Present
  <2>5. Writes(r, e.at) BY <2>1 DEF Writes
  <2>6. ASSUME e.at # NoRow, NEW new, Store(r, e.at, new),
               new.status = "connected" => e.was.status = "pending"
        PROVE  RowsStayDown
    BY <2>1, <2>3, <2>4, <2>5, <2>6, CommitsStayDown
  <2>7. ASSUME e.at = NoRow, NEW new, Insert(r, new), new.status = "pending"
        PROVE  RowsStayDown
    <3>1. PICK i \in Ids \ Present : i = Min(Ids \ Present)
      BY <2>7, NextIsFree DEF Insert
    <3>2. Store(r, i, new) BY <2>7, <3>1 DEF Insert
    <3>3. Writes(r, i) BY <2>1, <2>7, <3>1 DEF Writes
    <3> QED BY <2>3, <2>7, <3>1, <3>2, <3>3, CommitsStayDown
  <2>8. CASE FinishShopifyConnect(r)
    <3>1. [e.was EXCEPT !.status = "pending", !.ext = e.acct].status = "pending"
      BY <2>2 DEF Row
    <3>2. [Absent EXCEPT !.status = "pending", !.ext = e.acct].status = "pending"
      BY DEF Absent
    <3> QED BY <1>1, <2>1, <2>6, <2>7, <2>8, <3>1, <3>2 DEF FinishShopifyConnect, Refuse
  <2>9. CASE FinishMetaConnect(r)
    <3>1. e.at # NoRow => [e.was EXCEPT !.offered = {}].status = "pending"
      BY <2>1, <2>2, <2>9 DEF FinishMetaConnect, Carries, Row
    <3>2. [Absent EXCEPT !.status = "pending"].status = "pending" BY DEF Absent
    <3> QED BY <2>1, <2>6, <2>7, <2>9, <3>1, <3>2 DEF FinishMetaConnect
  <2>10. CASE FinishCallback(r) \/ FinishSelect(r)
    <3>1. e.was.status = "pending" /\ e.at # NoRow
      BY <2>1, <2>3, <2>10 DEF FinishCallback, FinishSelect, Carries
    <3> QED BY <1>1, <2>1, <2>6, <2>10, <3>1 DEF FinishCallback, FinishSelect, Refuse
  <2>11. CASE FinishDisconnect(r) \/ FinishReject(r)
    <3>1. e.at # NoRow BY <2>1, <2>3, <2>11 DEF FinishDisconnect, FinishReject, Carries
    <3>2. /\ [e.was EXCEPT !.status = "disconnected"].status = "disconnected"
          /\ [e.was EXCEPT !.status = "error"].status = "error"
      BY <2>2 DEF Row
    <3> QED BY <2>1, <2>6, <2>11, <3>1, <3>2 DEF FinishDisconnect, FinishReject
  <2> QED BY <1>2, <2>8, <2>9, <2>10, <2>11
\* A request that begins, moves on or fails writes no row, and neither does an expiry.
<1>3. ASSUME NEW r \in Requests, NEW x, Begin(r, x) PROVE row' = row
  BY <1>3 DEF Begin
<1>4. ASSUME NEW r \in Requests,
             \/ \E u \in Users, b \in Browsers :
                  StartMetaConnect(r, u, b) \/ \E a \in Accounts : StartShopifyConnect(r, u, b, a)
             \/ \E b \in Browsers, s \in States : StartCallback(r, b, s)
             \/ \E a \in Accounts : StartSelect(r, a)
             \/ \E i \in Ids : StartDisconnect(r, i) \/ StartReject(r, i)
      PROVE  row' = row
  <2>1. ASSUME NEW u \in Users, NEW b \in Browsers, StartMetaConnect(r, u, b)
        PROVE  row' = row
    BY <1>3, <2>1 DEF StartMetaConnect
  <2>2. ASSUME NEW u \in Users, NEW b \in Browsers, NEW a \in Accounts,
               StartShopifyConnect(r, u, b, a)
        PROVE  row' = row
    BY <1>3, <2>2 DEF StartShopifyConnect
  <2>3. ASSUME NEW b \in Browsers, NEW s \in States, StartCallback(r, b, s)
        PROVE  row' = row
    BY <1>3, <2>3 DEF StartCallback
  <2>4. ASSUME NEW a \in Accounts, StartSelect(r, a) PROVE row' = row
    BY <1>3, <2>4 DEF StartSelect
  <2>5. ASSUME NEW i \in Ids, StartDisconnect(r, i) \/ StartReject(r, i) PROVE row' = row
    BY <1>3, <2>5 DEF StartDisconnect, StartReject
  <2> QED BY <1>4, <2>1, <2>2, <2>3, <2>4, <2>5
<1>5. ASSUME NEW r \in Requests,
             ConsumeState(r) \/ Exchange(r) \/ LookUpCredential(r) \/ RequestFails(r)
      PROVE  row' = row
  BY <1>5 DEF ConsumeState, Exchange, LookUpCredential, RequestFails, Refuse
<1>6. ASSUME NEW s \in States, StateExpires(s) PROVE row' = row
  BY <1>6 DEF StateExpires
<1>7. ASSUME NEW b \in Browsers, SessionExpires(b) PROVE row' = row
  BY <1>7 DEF SessionExpires
<1> QED BY <1>1, <1>2, <1>4, <1>5, <1>6, <1>7 DEF Next

\* disconnect_connection and mark_meta_reconnect_required: what they took down, no
\* callback or selection that read the row before connects again.
THEOREM DownStaysDown == Spec => StaysDown
<1>1. IInv /\ [Next]_vars =>
        [\A i \in Ids \ overtaken' :
           row[i].status \in {"disconnected", "error"} => ~(row'[i].status = "connected")]_vars
  BY NextStaysDown DEF RowsStayDown
<1> QED BY <1>1, Invariance, PTL DEF Spec, StaysDown

===============================================================================
