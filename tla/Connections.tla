------------------------------ MODULE Connections ------------------------------
(***************************************************************************)
(* How a business gets, changes and loses its connection to a provider.    *)
(*                                                                         *)
(* Every operation reads an integration_connections row, awaits something  *)
(* (the provider, Redis, a query) and then writes back; the session runs   *)
(* at READ COMMITTED without row locks, so two of them on one row overlap. *)
(* SQLAlchemy writes only the attributes that differ from the loaded       *)
(* object, so an overtaken request merges its changes with the other's:    *)
(* Store below does exactly that.                                          *)
(*                                                                         *)
(* One behaviour is about one provider.  The rows are those of one         *)
(* business: no operation reads or writes the rows of another.             *)
(***************************************************************************)
EXTENDS Naturals, FiniteSets, FiniteSetsExt

CONSTANTS
  Accounts,   \* shops, or Meta ad accounts
  States,     \* OAuth states
  Users, Browsers, Requests,
  NoAccount, NoState, NoUser,
  MaxRows,    \* bound: rows of the business
  MaxEvents   \* bound: requests started

ASSUME ConnectionAssumption ==
  /\ NoAccount \notin Accounts /\ NoState \notin States /\ NoUser \notin Users
  /\ MaxRows \in Nat /\ MaxEvents \in Nat

VARIABLES
  provider,   \* "shopify" or "meta"
  row,        \* integration_connections, in the order of created_at
  token,      \* integration_credentials: the OAuth state whose grant the token is
  grant,      \* the accounts the grant of a state gives access to
  live,       \* the states alive in Redis
  owner,      \* the user a state was issued to
  cookie,     \* the user of a browser's live callback session
  req,        \* the requests in flight
  late,       \* requests whose row was written by another since they read it
  overtaken,  \* rows written by a late request
  events      \* requests started

vars == <<provider, row, token, grant, live, owner, cookie, req, late, overtaken,
          events>>

oauthVars == <<grant, live, owner, cookie>>

Ids == 1..MaxRows
NoRow == 0

Absent == [status |-> "absent", ext |-> NoAccount, offered |-> {}]

Idle == [pc |-> "idle", at |-> NoRow, was |-> Absent, acct |-> NoAccount,
         user |-> NoUser, browser |-> "none", state |-> NoState, had |-> NoState]

Connected(i) == row[i].status = "connected"
Present == {i \in Ids : row[i].status # "absent"}

\* get_pending_meta_connection: the newest pending row without an account.
PendingMeta ==
  LET open == {i \in Ids : row[i].status = "pending" /\ row[i].ext = NoAccount}
  IN  IF open = {} THEN {} ELSE {Max(open)}

\* The unique index on (business, provider, external_account_id).
Taken(i, a) == a # NoAccount /\ \E j \in Present \ {i} : row[j].ext = a

TypeOK ==
  LET rowType == [status : {"absent", "pending", "connected", "disconnected", "error"},
                  ext : Accounts \cup {NoAccount}, offered : SUBSET Accounts]
  IN
  /\ provider \in {"shopify", "meta"}
  /\ row \in [Ids -> rowType]
  /\ token \in [Ids -> States \cup {NoState}]
  /\ grant \in [States -> SUBSET Accounts]
  /\ live \subseteq States
  /\ owner \in [States -> Users \cup {NoUser}]
  /\ cookie \in [Browsers -> Users \cup {NoUser}]
  /\ req \in [Requests ->
       [pc : {"idle", "connect", "callback", "exchange", "credential", "store", "select",
              "disconnect", "reject"},
        at : Ids \cup {NoRow}, was : rowType, acct : Accounts \cup {NoAccount},
        user : Users \cup {NoUser}, browser : Browsers \cup {"none"},
        state : States \cup {NoState}, had : States \cup {NoState}]]
  /\ late \subseteq Requests /\ overtaken \subseteq Ids
  /\ events \in 0..MaxEvents

Init ==
  /\ provider \in {"shopify", "meta"}
  /\ row = [i \in Ids |-> Absent]
  /\ token = [i \in Ids |-> NoState]
  /\ grant = [s \in States |-> {}]
  /\ live = {}
  /\ owner = [s \in States |-> NoUser]
  /\ cookie = [b \in Browsers |-> NoUser]
  /\ req = [r \in Requests |-> Idle]
  /\ late = {} /\ overtaken = {}
  /\ events = 0

-----------------------------------------------------------------------------
(* A request and the row it works on.                                      *)

Begin(r, rec) ==
  /\ req[r].pc = "idle"
  /\ events < MaxEvents
  /\ events' = events + 1
  /\ req' = [req EXCEPT ![r] = rec]
  /\ UNCHANGED <<provider, row, token, oauthVars, late, overtaken>>

\* The request read row i (or found none) and goes on to pc.
Load(r, i, pc) ==
  [req[r] EXCEPT !.pc = pc, !.at = i, !.was = IF i = NoRow THEN Absent ELSE row[i]]

\* The request has looked its row up and may still write it.
Holds(q) == req[q].pc \notin {"idle", "callback", "exchange"}

\* The request ends: response sent, session closed.
End(r) == req' = [req EXCEPT ![r] = Idle] /\ late' = late \ {r}

\* The request ends without writing: refused, failed or rolled back.
Refuse(r) == End(r) /\ UNCHANGED <<provider, row, token, overtaken, events>>

\* Commit of row i by request r.  The attributes of new that differ from the
\* loaded object are written, the others keep what the row holds by now.
Store(r, i, new) ==
  LET was == req[r].was IN
  /\ row' = [row EXCEPT ![i] =
       [f \in DOMAIN @ |-> IF new[f] = was[f] THEN @[f] ELSE new[f]]]
  /\ overtaken' = IF r \in late THEN overtaken \cup {i} ELSE overtaken
  /\ late' = (late \cup {q \in Requests : Holds(q) /\ req[q].at = req[r].at}) \ {r}
  /\ req' = [req EXCEPT ![r] = Idle]
  /\ UNCHANGED <<provider, events>>

\* A new row, the newest of the business.
Insert(r, new) ==
  /\ Present # Ids
  /\ Store(r, Min(Ids \ Present), new)

-----------------------------------------------------------------------------
(* Connect: reserve the pending row, issue the state and the cookie.       *)

\* OAuthStateService.create and CallbackSessionService.create.  The cookie
\* replaces the one the browser had.
Issue(r, accounts) ==
  \E s \in States :
    /\ owner[s] = NoUser
    /\ owner' = [owner EXCEPT ![s] = req[r].user]
    /\ grant' = [grant EXCEPT ![s] = accounts]
    /\ live' = live \cup {s}
    /\ cookie' = [cookie EXCEPT ![req[r].browser] = req[r].user]

\* Mutant: the lookup only finds connected rows.
StartShopifyConnectAfresh(r, u, b, a) ==
  /\ provider = "shopify"
  /\ \E i \in IF \E j \in Ids : Connected(j) THEN Present ELSE {NoRow} :
       Begin(r, [Load(r, i, "connect") EXCEPT !.user = u, !.browser = b, !.acct = a])

\* start_shopify_connect up to the lookup: of several rows any may be found.
StartShopifyConnect(r, u, b, a) ==
  /\ provider = "shopify"
  /\ \E i \in IF Present = {} THEN {NoRow} ELSE Present :
       Begin(r, [Load(r, i, "connect") EXCEPT !.user = u, !.browser = b, !.acct = a])

\* start_shopify_connect from the check to the response.  A second insert for
\* the same shop meets the unique index and goes on with the winner's row; an
\* update that meets it is not caught and ends in a rollback.
FinishShopifyConnect(r) ==
  LET i == req[r].at  a == req[r].acct  was == req[r].was
      fresh == [Absent EXCEPT !.status = "pending", !.ext = a]
  IN
  /\ provider = "shopify" /\ req[r].pc = "connect"
  /\ \/ was.status = "connected" /\ Refuse(r) /\ UNCHANGED oauthVars
     \/ /\ i # NoRow /\ was.status # "connected" /\ ~Taken(i, a)
        /\ Store(r, i, [was EXCEPT !.status = "pending", !.ext = a])
        /\ Issue(r, {a}) /\ UNCHANGED token
     \/ /\ i # NoRow /\ was.status # "connected" /\ Taken(i, a)
        /\ Refuse(r) /\ UNCHANGED oauthVars
     \/ /\ i = NoRow /\ ~Taken(NoRow, a)
        /\ Insert(r, fresh) /\ Issue(r, {a}) /\ UNCHANGED token
     \/ /\ i = NoRow /\ Taken(NoRow, a)
        /\ \E j \in Present :
             IF Connected(j) THEN Refuse(r) /\ UNCHANGED oauthVars
             ELSE /\ End(r) /\ Issue(r, {a})
                  /\ UNCHANGED <<provider, row, token, overtaken, events>>

\* start_meta_connect up to the lookup.
StartMetaConnect(r, u, b) ==
  /\ provider = "meta"
  /\ \E i \in IF PendingMeta = {} THEN {NoRow} ELSE PendingMeta :
       Begin(r, [Load(r, i, "connect") EXCEPT !.user = u, !.browser = b])

\* start_meta_connect: insert a pending row, or reset the one found (its
\* token and the accounts discovered before are dropped).  The user decides
\* at Meta which accounts the grant covers.
FinishMetaConnect(r) ==
  LET i == req[r].at IN
  /\ provider = "meta" /\ req[r].pc = "connect"
  /\ \E accounts \in SUBSET Accounts : Issue(r, accounts)
  /\ IF i = NoRow
     THEN Insert(r, [Absent EXCEPT !.status = "pending"]) /\ UNCHANGED token
     ELSE /\ Store(r, i, [req[r].was EXCEPT !.offered = {}])
          /\ token' = [token EXCEPT ![i] = NoState]

-----------------------------------------------------------------------------
(* The OAuth callback.                                                     *)

\* The browser comes back from the provider with a state.
StartCallback(r, b, s) ==
  /\ owner[s] # NoUser
  /\ Begin(r, [Idle EXCEPT !.pc = "callback", !.browser = b, !.state = s])

\* Mutant: the state is read and never removed.
ConsumeStateByGet(r) ==
  LET b == req[r].browser  s == req[r].state IN
  /\ req[r].pc = "callback"
  /\ cookie' = [cookie EXCEPT ![b] = NoUser]
  /\ UNCHANGED <<provider, row, token, grant, live, owner, overtaken, events>>
  /\ IF cookie[b] # NoUser /\ s \in live /\ owner[s] = cookie[b]
     THEN req' = [req EXCEPT ![r].pc = "exchange"] /\ UNCHANGED late
     ELSE End(r)

\* CallbackSessionService.resolve, then OAuthStateService.consume: both are
\* GETDEL.  Without a session the state is not touched; a state of another
\* user is consumed and refused.
ConsumeState(r) ==
  LET b == req[r].browser  s == req[r].state IN
  /\ req[r].pc = "callback"
  /\ cookie' = [cookie EXCEPT ![b] = NoUser]
  /\ live' = IF cookie[b] = NoUser THEN live ELSE live \ {s}
  /\ UNCHANGED <<provider, row, token, grant, owner, overtaken, events>>
  /\ IF cookie[b] # NoUser /\ s \in live /\ owner[s] = cookie[b]
     THEN req' = [req EXCEPT ![r].pc = "exchange"] /\ UNCHANGED late
     ELSE End(r)

\* The row the callback is for: pending, whichever the lookup returns.
CallbackRow == IF provider = "meta" THEN PendingMeta ELSE Present

\* Mutant: the exchange trusts the shop of the state instead of the row's.
ExchangeForState(r) ==
  /\ req[r].pc = "exchange"
  /\ UNCHANGED oauthVars
  /\ \/ Refuse(r)
     \/ \E i \in CallbackRow :
          /\ row[i].status = "pending"
          /\ req' = [req EXCEPT ![r] = Load(r, i, "credential")]
          /\ UNCHANGED <<provider, row, token, late, overtaken, events>>

\* Mutant: the callback does not ask for a pending row.
ExchangeAnyRow(r) ==
  /\ req[r].pc = "exchange"
  /\ UNCHANGED oauthVars
  /\ \/ Refuse(r)
     \/ \E i \in IF provider = "meta" THEN PendingMeta ELSE Present :
          /\ provider = "shopify" => row[i].ext \in grant[req[r].state]
          /\ req' = [req EXCEPT ![r] = Load(r, i, "credential")]
          /\ UNCHANGED <<provider, row, token, late, overtaken, events>>

\* Lookup of the pending row, then exchange_code and validate_connection.
\* Shopify redeems a code only at the shop that issued it; the provider may
\* also refuse or fail.
Exchange(r) ==
  LET s == req[r].state IN
  /\ req[r].pc = "exchange"
  /\ UNCHANGED oauthVars
  /\ \/ Refuse(r)
     \/ \E i \in CallbackRow :
          /\ row[i].status = "pending"
          /\ provider = "shopify" => row[i].ext \in grant[s]
          /\ req' = [req EXCEPT ![r] = Load(r, i, "credential")]
          /\ UNCHANGED <<provider, row, token, late, overtaken, events>>

\* _upsert_credential looks the credential up before the commit.
LookUpCredential(r) ==
  /\ req[r].pc = "credential"
  /\ req' = [req EXCEPT ![r].pc = "store", ![r].had = token[req[r].at]]
  /\ UNCHANGED <<provider, row, token, oauthVars, late, overtaken, events>>

\* Commit of the callback.  The insert of a credential that exists by now and
\* the update of one that is gone both fail and roll everything back.  Meta
\* keeps the row pending and records the accounts found; Shopify connects it.
FinishCallback(r) ==
  LET i == req[r].at  s == req[r].state  was == req[r].was IN
  /\ req[r].pc = "store"
  /\ UNCHANGED oauthVars
  /\ IF (req[r].had = NoState) # (token[i] = NoState)
     THEN Refuse(r)
     ELSE /\ token' = [token EXCEPT ![i] = s]
          /\ Store(r, i, IF provider = "meta" THEN [was EXCEPT !.offered = grant[s]]
                         ELSE [was EXCEPT !.status = "connected"])

-----------------------------------------------------------------------------
(* Meta: selection of one account.                                         *)

\* select_meta_account up to the provider call: the account was offered, the
\* token is there and Meta confirms that it reaches the account.
StartSelect(r, a) ==
  /\ provider = "meta"
  /\ \E i \in PendingMeta :
       /\ a \in row[i].offered
       /\ token[i] # NoState /\ a \in grant[token[i]]
       /\ Begin(r, [Load(r, i, "select") EXCEPT !.acct = a])

\* The rest: an account that any row of the business names is refused.
FinishSelect(r) ==
  LET i == req[r].at  a == req[r].acct IN
  /\ req[r].pc = "select"
  /\ UNCHANGED oauthVars
  /\ IF Taken(i, a)
     THEN Refuse(r)
     ELSE Store(r, i, [req[r].was EXCEPT !.status = "connected", !.ext = a])
          /\ UNCHANGED token

-----------------------------------------------------------------------------
(* The end of a connection.                                                *)

\* disconnect_connection, up to the provider's answer.
StartDisconnect(r, i) ==
  /\ i \in Present
  /\ Begin(r, Load(r, i, "disconnect"))

\* The local part: it happens whatever the provider answered.
FinishDisconnect(r) ==
  LET i == req[r].at IN
  /\ req[r].pc = "disconnect"
  /\ Store(r, i, [req[r].was EXCEPT !.status = "disconnected"])
  /\ token' = [token EXCEPT ![i] = NoState]
  /\ UNCHANGED oauthVars

\* mark_meta_reconnect_required, for a sync whose token Meta rejected.
StartReject(r, i) ==
  /\ provider = "meta" /\ i \in Present /\ row[i].ext # NoAccount
  /\ Begin(r, Load(r, i, "reject"))

FinishReject(r) ==
  /\ req[r].pc = "reject"
  /\ Store(r, req[r].at, [req[r].was EXCEPT !.status = "error"])
  /\ UNCHANGED <<token, oauthVars>>

-----------------------------------------------------------------------------
(* The environment.                                                        *)

\* TTL of the state, TTL of the callback session.
StateExpires(s) ==
  /\ s \in live
  /\ live' = live \ {s}
  /\ UNCHANGED <<provider, row, token, grant, owner, cookie, req, late, overtaken, events>>

SessionExpires(b) ==
  /\ cookie[b] # NoUser
  /\ cookie' = [cookie EXCEPT ![b] = NoUser]
  /\ UNCHANGED <<provider, row, token, grant, live, owner, req, late, overtaken, events>>

RequestFails(r) ==
  /\ req[r].pc # "idle"
  /\ Refuse(r)
  /\ UNCHANGED oauthVars

Next ==
  \/ \E r \in Requests :
       \/ \E u \in Users, b \in Browsers :
            StartMetaConnect(r, u, b) \/ \E a \in Accounts : StartShopifyConnect(r, u, b, a)
       \/ \E b \in Browsers, s \in States : StartCallback(r, b, s)
       \/ \E a \in Accounts : StartSelect(r, a)
       \/ \E i \in Ids : StartDisconnect(r, i) \/ StartReject(r, i)
       \/ FinishShopifyConnect(r) \/ FinishMetaConnect(r)
       \/ ConsumeState(r) \/ Exchange(r) \/ LookUpCredential(r) \/ FinishCallback(r)
       \/ FinishSelect(r) \/ FinishDisconnect(r) \/ FinishReject(r)
       \/ RequestFails(r)
  \/ \E s \in States : StateExpires(s)
  \/ \E b \in Browsers : SessionExpires(b)

Spec == Init /\ [][Next]_vars

-----------------------------------------------------------------------------
(* Properties.                                                             *)

\* A connected row has a token, and that token gives access to the very
\* account the row names; a disconnected row has none.  Rows that a
\* late request wrote are excepted: it merged its changes with another's.
TokenServesAccount ==
  \A i \in Ids \ overtaken :
    /\ Connected(i) => token[i] # NoState /\ row[i].ext \in grant[token[i]]
    /\ row[i].status = "disconnected" => token[i] = NoState

\* One authorization at the provider serves one row: no two rows hold the
\* token of the same OAuth state, even under concurrent callbacks.
OneRowPerGrant ==
  \A i, j \in Ids : i # j /\ token[i] = token[j] => token[i] = NoState

\* A business has one Shopify connection, and at most one Meta connection that
\* waits for its account, unless two first connects overlapped.
OneOpenConnection ==
  overtaken = {} =>
    /\ provider = "shopify" => Cardinality(Present) <= 1
    /\ Cardinality({i \in Ids : row[i].status = "pending"}) <= 1

\* What was disconnected, or rejected by Meta, is not connected again by a
\* request that read the row before: only a new connect makes it pending.
StaysDown ==
  [][\A i \in Ids \ overtaken' :
       row[i].status \in {"disconnected", "error"} => ~(row'[i].status = "connected")]_vars

\* The rows of a business fit together: one row per authorization, and one
\* open connection of a provider.
RowsFit == TypeOK /\ OneRowPerGrant /\ OneOpenConnection
===============================================================================
