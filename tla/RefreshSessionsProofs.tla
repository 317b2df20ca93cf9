------------------------ MODULE RefreshSessionsProofs ------------------------
(***************************************************************************)
(* Proofs about RefreshSessions, for any number of tabs, callers, sign-ins *)
(* and faults.                                                             *)
(*                                                                         *)
(* None of the three properties is inductive.  That a login has one        *)
(* session depends on the token a refresh presents (Shaped); that a logout *)
(* is final depends on the refreshes that have consumed the session it did *)
(* not find (EndedStay); and that the cookie is alive depends on the       *)
(* replies on their way: a token that nobody has received yet is live and  *)
(* nobody else presents it (Undelivered).                                  *)
(***************************************************************************)
EXTENDS RefreshSessions, FiniteSetTheorems, TLAPS

AtServer == {"incr", "expire", "consume", "load", "store", "ok", "failed"}

\* What a caller carries at each point of its call.
Carries(x) ==
  /\ x.pc # "idle" => x.tab \in Tabs
  /\ x.pc \in AtServer => x.path \in Paths
  /\ x.pc \in {"expire", "consume"} => x.path = "refresh"
  /\ x.pc \in {"load", "store"} /\ x.path = "refresh" => x.jti # NoJti
  /\ x.pc = "ok" => x.jti # NoJti
  /\ x.path = "refresh" => x.pc \in AtServer

Shaped == \A c \in Calls : Carries(call[c])

\* refreshPromise of a tab is the one refresh of that tab.
Led ==
  /\ \A t \in Tabs : refreshing[t] # NoCall =>
       call[refreshing[t]].tab = t /\ call[refreshing[t]].path = "refresh"
  /\ \A c \in Calls : call[c].path = "refresh" => refreshing[call[c].tab] = c

\* The right to the next session of login k is held once.
HeldOnce(k) ==
  /\ \A i, j \in live : family[i] = k /\ family[j] = k => i = j
  /\ \A c, d \in Rotating :
       family[call[c].jti] = k /\ family[call[d].jti] = k => c = d
  /\ \A j \in live, c \in Rotating : ~(family[j] = k /\ family[call[c].jti] = k)

OneHolder == \A k \in DOMAIN family : HeldOnce(k)

\* No refresh under way revives a login that a logout ended.
EndedStay == \A c \in Rotating : family[call[c].jti] \notin ended

\* A token on its way is live, and only its own reply carries it.
Undelivered == \A c \in Calls : call[c].pc = "ok" =>
  /\ call[c].jti \in live /\ call[c].jti # jar
  /\ \A d \in Calls \ {c} : call[d].jti # call[c].jti

\* Without faults the account is active, and the cookie lives, is replaced or logged out.
Undisturbed == ~fault => active /\ Undelivered /\ CookieIsAlive

USE SessionAssumption

Pcs == {"idle", "call", "wait", "incr", "expire", "consume", "load", "store", "ok",
        "failed", "retry", "revoke", "revoked"}
AnyTab  == Tabs \cup {NoTab}
AnyPath == Paths \cup {"none"}
AnyJti  == {NoJti} \cup DOMAIN family
Kinds   == {"none", "data", "login", "logout"}
Leaders == [Tabs -> Calls \cup {NoCall}]

Caller == [pc : Pcs, tab : AnyTab, kind : Kinds, path : AnyPath, jti : AnyJti,
           retried : BOOLEAN]

Callers == [Calls -> Caller]

\* The members of those sets that the actions assign.
LEMMA Members ==
  /\ {"idle", "call", "wait", "incr", "expire", "consume", "load", "store", "ok",
      "failed", "retry", "revoke", "revoked"} \subseteq Pcs
  /\ {"none", "login", "refresh"} \subseteq AnyPath /\ Kinds = {"none", "data", "login", "logout"}
  /\ NoTab \in AnyTab /\ Tabs \subseteq AnyTab /\ NoJti \in AnyJti
  BY DEF Pcs, AnyPath, Paths, AnyTab, AnyJti, Kinds

Typed ==
  /\ family \in Seq(Nat) /\ \A j \in DOMAIN family : family[j] \in 1..j
  /\ live \subseteq DOMAIN family /\ active \in BOOLEAN
  /\ jar \in AnyJti /\ access \in BOOLEAN
  /\ call \in Callers /\ refreshing \in Leaders
  /\ hits \in Nat /\ ttl \in BOOLEAN /\ stuck \in BOOLEAN
  /\ ended \subseteq DOMAIN family
  /\ fault \in BOOLEAN /\ events \in 0..MaxEvents

\* Typed is TypeOK in those words.
LEMMA TypedIsTypeOK == Typed <=> TypeOK
  BY DEF Typed, TypeOK, Callers, Caller, Leaders, AnyJti, AnyPath, AnyTab, Kinds, Pcs

LEMMA SameFamily == family' = family => AnyJti' = AnyJti /\ Callers' = Callers
  BY DEF AnyJti, Callers, Caller

LEMMA IdleTyped == Idle \in Caller
  BY Members DEF Idle, Caller

\* The ways an action changes its caller keep the type.
LEMMA GotoTyped ==
  ASSUME call \in Callers, NEW c \in Calls, NEW pc \in Pcs, Goto(c, pc)
  PROVE  call' \in Callers
  BY DEF Callers, Caller, Goto

LEMMA EndTyped ==
  ASSUME call \in Callers, NEW c \in Calls, End(c)
  PROVE  call' \in Callers
  BY IdleTyped DEF Callers, End

LEMMA SendTyped ==
  ASSUME call \in Callers, NEW c \in Calls, NEW path \in AnyPath, NEW jti \in AnyJti
  PROVE  Send(c, path, jti) \in Caller
  BY Members DEF Callers, Caller, Send

LEMMA ReleaseTyped ==
  ASSUME call \in Callers, refreshing \in Leaders, NEW c \in Calls, Release(c)
  PROVE  call' \in Callers /\ refreshing' \in Leaders
  <1>1. call' \in Callers
    BY Members DEF Callers, Caller, Release
  <1>2. refreshing' \in Leaders
    BY DEF Leaders, Release
  <1> QED BY <1>1, <1>2

LEMMA UnauthorizedTyped ==
  ASSUME call \in Callers, refreshing \in Leaders, jar \in AnyJti,
         NEW c \in Calls, Unauthorized(c)
  PROVE  call' \in Callers /\ refreshing' \in Leaders
  <1>1. CASE refreshing[call[c].tab] = NoCall
    BY <1>1, SendTyped, Members DEF Unauthorized, Callers, Leaders
  <1>2. CASE refreshing[call[c].tab] # NoCall
    BY <1>2, GotoTyped, Members DEF Unauthorized
  <1> QED BY <1>1, <1>2

LEMMA EventTyped ==
  ASSUME events \in 0..MaxEvents, Event
  PROVE  events' \in 0..MaxEvents
  BY SessionAssumption DEF Event

\* Every action keeps the types.
LEMMA TypeStep == Typed /\ Shaped /\ [Next]_vars => Typed'
  <1> SUFFICES ASSUME Typed, Shaped, [Next]_vars PROVE Typed'
    OBVIOUS
  <1> USE DEF Typed, server, browser, limiter, history
  <1>0. ASSUME family' = family, call' \in Callers, refreshing' \in Leaders,
               live' \subseteq live, jar' \in AnyJti, active' \in BOOLEAN, access' \in BOOLEAN,
               hits' \in Nat, ttl' \in BOOLEAN, stuck' \in BOOLEAN, ended' \subseteq DOMAIN family,
               fault' \in BOOLEAN, events' \in 0..MaxEvents
        PROVE  Typed'
    BY <1>0, SameFamily
  <1>1. ASSUME NEW c \in Calls, NEW t \in Tabs,
               StartCall(c, t) \/ StartLogin(c, t) \/ StartLogout(c, t)
        PROVE  Typed'
    <2>1. [Idle EXCEPT !.pc = "call", !.tab = t, !.kind = "data"] \in Caller
      BY IdleTyped, Members DEF Caller
    <2>2. [Send(c, "login", NoJti) EXCEPT !.tab = t, !.kind = "login"] \in Caller
      <3>1. Send(c, "login", NoJti) \in Caller
        BY SendTyped, Members
      <3> QED BY <3>1, Members DEF Caller
    <2>3. [Idle EXCEPT !.pc = "revoke", !.tab = t, !.kind = "logout", !.jti = jar] \in Caller
      BY IdleTyped, Members DEF Caller
    <2>4. call' \in Callers
      BY <1>1, <2>1, <2>2, <2>3 DEF StartCall, StartLogin, StartLogout, Callers
    <2> QED BY <1>0, <1>1, <2>4, EventTyped DEF StartCall, StartLogin, StartLogout
  <1>2. ASSUME NEW c \in Calls, Proceed(c) PROVE Typed'
    <2>1. CASE AnswerCall(c)
      BY <1>0, <2>1, EndTyped, UnauthorizedTyped DEF AnswerCall
    <2>2. CASE ReceiveTokens(c)
      <3>1. call' \in Callers /\ refreshing' \in Leaders
        BY <2>2, EndTyped, ReleaseTyped DEF ReceiveTokens
      <3>2. call[c].jti \in AnyJti
        BY DEF Callers, Caller
      <3> QED BY <1>0, <2>2, <3>1, <3>2 DEF ReceiveTokens
    <2>3. CASE ReceiveFailure(c)
      BY <1>0, <2>3, EndTyped, ReleaseTyped DEF ReceiveFailure
    <2>4. CASE Retry(c)
      <3>1. call' \in Callers
        BY <2>4, EndTyped, SendTyped, Members DEF Retry, Callers
      <3> QED BY <1>0, <2>4, <3>1 DEF Retry
    <2>5. CASE ReceiveLogout(c)
      BY <1>0, <2>5, EndTyped, Members DEF ReceiveLogout
    <2>6. CASE Incr(c)
      <3>1. call' \in Callers
        BY <2>6, GotoTyped, Members DEF Incr
      <3> QED BY <1>0, <2>6, <3>1 DEF Incr
    <2>7. CASE SetExpiry(c)
      BY <1>0, <2>7, GotoTyped, Members DEF SetExpiry
    <2>8. CASE Consume(c)
      <3>1. call' \in Callers
        BY <2>8, GotoTyped, Members DEF Consume
      <3> QED BY <1>0, <2>8, <3>1 DEF Consume
    <2>9. CASE LoadUser(c)
      <3>1. call' \in Callers /\ refreshing' \in Leaders
        BY <2>9, GotoTyped, EndTyped, UnauthorizedTyped, Members DEF LoadUser
      <3> QED BY <1>0, <2>9, <3>1 DEF LoadUser
    <2>10. CASE StoreToken(c)
      <3> DEFINE new == Len(family) + 1
                 k == IF call[c].path = "login" THEN new ELSE family[call[c].jti]
      <3>1. k \in 1..new
        BY <2>10 DEF StoreToken, Shaped, Carries, Callers, Caller, AnyJti, AnyPath, Paths, AtServer
      <3>2. family' = Append(family, k) /\ family' \in Seq(Nat)
        BY <2>10, <3>1 DEF StoreToken
      <3>3. DOMAIN family = 1..Len(family) /\ DOMAIN family' = 1..new
        BY <3>2
      <3>4. \A j \in DOMAIN family' : family'[j] \in 1..j
        BY <3>1, <3>2, <3>3
      <3>5. AnyJti \subseteq AnyJti' /\ new \in AnyJti'
        BY <3>3 DEF AnyJti
      <3>6. Caller \subseteq Caller'
        BY <3>5 DEF Caller
      <3>7. [call[c] EXCEPT !.pc = "ok", !.jti = new] \in Caller'
        BY <3>5, <3>6, Members DEF Callers, Caller
      <3>8. call' \in Callers'
        BY <2>10, <3>6, <3>7 DEF Callers, StoreToken
      <3>9. live' \subseteq DOMAIN family' /\ ended' \subseteq DOMAIN family'
        BY <2>10, <3>3 DEF StoreToken
      <3> HIDE DEF k, new
      <3> QED
        BY <2>10, <3>2, <3>4, <3>5, <3>8, <3>9 DEF StoreToken, Leaders
    <2>11. CASE Revoke(c)
      <3>1. call' \in Callers
        BY <2>11, GotoTyped, Members DEF Revoke
      <3>2. \A j \in live : family[j] \in DOMAIN family
        OBVIOUS
      <3> QED BY <1>0, <2>11, <3>1, <3>2 DEF Revoke
    <2> QED
      BY <1>2, <2>1, <2>2, <2>3, <2>4, <2>5, <2>6, <2>7, <2>8, <2>9, <2>10, <2>11 DEF Proceed
  <1>3. ASSUME NEW c \in Calls, LogoutFails(c) PROVE Typed'
    BY <1>0, <1>3, EndTyped, EventTyped DEF LogoutFails
  <1>4. ASSUME NEW c \in Calls, RequestFails(c) PROVE Typed'
    <2>1. call' \in Callers
      BY <1>4, GotoTyped, Members DEF RequestFails
    <2>2. stuck' \in BOOLEAN
      BY <1>4 DEF RequestFails
    <2> QED BY <1>0, <1>4, <2>1, <2>2, EventTyped DEF RequestFails
  <1>5. CASE WindowEnds
    BY <1>0, <1>5 DEF WindowEnds
  <1>6. ASSUME NEW j \in live, SessionExpires(j) PROVE Typed'
    BY <1>0, <1>6, EventTyped DEF SessionExpires
  <1>7. CASE Disable
    BY <1>0, <1>7, EventTyped DEF Disable
  <1>8. CASE UNCHANGED vars
    BY <1>0, <1>8 DEF vars
  <1> QED BY <1>1, <1>2, <1>3, <1>4, <1>5, <1>6, <1>7, <1>8 DEF Next

\* A caller changes and stays the refresh of its tab, if it is.
LEMMA KeepLead ==
  ASSUME Typed, Shaped, Led, NEW c \in Calls, NEW x \in Caller,
         call' = [call EXCEPT ![c] = x], refreshing' = refreshing, Carries(x),
         x.path = "refresh" <=> call[c].path = "refresh",
         call[c].path = "refresh" => x.tab = call[c].tab
  PROVE  Shaped' /\ Led'
  <1> USE SessionAssumption DEF Typed, Callers, Leaders
  <1>1. \A d \in Calls : call'[d] = IF d = c THEN x ELSE call[d]
    OBVIOUS
  <1>2. Shaped'
    BY <1>1 DEF Shaped
  <1>3. Led'
    BY <1>1 DEF Led
  <1> QED BY <1>2, <1>3

LEMMA GotoKeepsLead ==
  ASSUME Typed, Shaped, Led, NEW c \in Calls, NEW pc \in Pcs,
         Goto(c, pc), refreshing' = refreshing,
         \/ pc \in AtServer \ {"ok"} /\ call[c].pc \in AtServer
         \/ call[c].path # "refresh" /\ pc \notin AtServer,
         pc \in {"expire", "consume"} => call[c].path = "refresh",
         pc \in {"load", "store"} /\ call[c].path = "refresh" => call[c].jti # NoJti,
         call[c].pc # "idle"
  PROVE  Shaped' /\ Led'
  <1> DEFINE x == [call[c] EXCEPT !.pc = pc]
  <1>1. call[c] \in Caller /\ call' = [call EXCEPT ![c] = x]
    BY DEF Goto, Typed, Callers
  <1>2. /\ x \in Caller /\ x.pc = pc /\ x.tab = call[c].tab /\ x.path = call[c].path
        /\ x.jti = call[c].jti
    BY <1>1 DEF Caller
  <1>3. Carries(x)
    BY <1>2 DEF Carries, Shaped, AtServer
  <1> HIDE DEF x
  <1> QED BY <1>1, <1>2, <1>3, KeepLead

\* A request moves on at the server.
LEMMA MoveKeepsLead ==
  ASSUME Typed, Shaped, Led, NEW c \in Calls,
         NEW pc \in {"expire", "consume", "load", "store", "failed"},
         Goto(c, pc), refreshing' = refreshing, call[c].pc \in AtServer,
         pc \in {"expire", "consume"} => call[c].path = "refresh",
         pc \in {"load", "store"} /\ call[c].path = "refresh" => call[c].jti # NoJti
  PROVE  Shaped' /\ Led'
  <1>1. pc \in Pcs /\ pc \in AtServer \ {"ok"} /\ call[c].pc # "idle"
    BY Members DEF AtServer
  <1> QED BY <1>1, GotoKeepsLead

LEMMA EndKeepsLead ==
  ASSUME Typed, Shaped, Led, NEW c \in Calls, End(c), refreshing' = refreshing,
         call[c].path # "refresh"
  PROVE  Shaped' /\ Led'
  <1>1. Carries(Idle) /\ Idle.path # "refresh"
    BY DEF Carries, Idle, AtServer
  <1> QED BY <1>1, KeepLead, IdleTyped DEF End

LEMMA SendShaped ==
  ASSUME Typed, NEW c \in Calls, NEW path \in Paths, NEW jti \in AnyJti,
         call[c].tab \in Tabs
  PROVE  /\ Carries(Send(c, path, jti)) /\ Send(c, path, jti).path = path
         /\ Send(c, path, jti).tab = call[c].tab
  <1>1. call[c] \in Caller
    BY DEF Typed, Callers
  <1> QED BY <1>1 DEF Carries, Send, AtServer, Caller

\* A refresh begins, or its result is awaited.
LEMMA UnauthorizedLeads ==
  ASSUME Typed, Shaped, Led, NEW c \in Calls, Unauthorized(c),
         call[c].path # "refresh", call[c].pc # "idle"
  PROVE  Shaped' /\ Led'
  <1>0. call \in Callers /\ refreshing \in Leaders /\ call[c].tab \in Tabs
    BY DEF Typed, Shaped, Carries
  <1>1. CASE refreshing[call[c].tab] = NoCall
    <2> DEFINE x == Send(c, "refresh", jar)
    <2>1. Carries(x) /\ x.path = "refresh" /\ x.tab = call[c].tab
      BY <1>0, SendShaped DEF Typed, Paths
    <2>2. /\ \A d \in Calls : call'[d] = IF d = c THEN x ELSE call[d]
          /\ \A t \in Tabs : refreshing'[t] = IF t = call[c].tab THEN c ELSE refreshing[t]
      BY <1>0, <1>1 DEF Unauthorized, Callers, Leaders
    <2>3. \A t \in Tabs : refreshing[t] \in Calls \cup {NoCall}
      BY <1>0 DEF Leaders
    <2> HIDE DEF x
    <2>4. Shaped'
      BY <2>1, <2>2 DEF Shaped
    <2>5. ASSUME NEW t \in Tabs, refreshing'[t] # NoCall
          PROVE  call'[refreshing'[t]].tab = t /\ call'[refreshing'[t]].path = "refresh"
      BY <2>1, <2>2, <2>3, <2>5 DEF Led
    <2>6. ASSUME NEW d \in Calls, call'[d].path = "refresh"
          PROVE  refreshing'[call'[d].tab] = d
      <3>1. CASE d = c
        BY <1>0, <2>1, <2>2, <3>1
      <3>2. CASE d # c
        <4>1. call[d].path = "refresh" /\ call'[d] = call[d] /\ refreshing[call[d].tab] = d
          BY <2>2, <2>6, <3>2 DEF Led
        <4>2. call[d].tab \in Tabs
          BY <4>1 DEF Shaped, Carries, AtServer
        <4> QED BY <1>1, <2>2, <4>1, <4>2, SessionAssumption
      <3> QED BY <3>1, <3>2
    <2> QED BY <2>4, <2>5, <2>6 DEF Led
  <1>2. CASE refreshing[call[c].tab] # NoCall
    BY <1>2, GotoKeepsLead, Members DEF Unauthorized, AtServer
  <1> QED BY <1>1, <1>2

\* The refresh of a tab settles.
LEMMA ReleaseLeads ==
  ASSUME Typed, Shaped, Led, NEW c \in Calls, Release(c), call[c].path = "refresh"
  PROVE  Shaped' /\ Led'
  <1>0. call \in Callers /\ refreshing \in Leaders /\ call[c].tab \in Tabs
    BY DEF Typed, Shaped, Carries, AtServer
  <1> DEFINE W == Waiting(call[c].tab)
  <1>1. c \in W /\ \A d \in W : call[d].pc # "idle" /\ call[d].tab = call[c].tab
    BY <1>0, SessionAssumption DEF Waiting, Led, Shaped, Carries, AtServer
  <1>2. /\ \A d \in Calls \ W : call'[d] = call[d]
        /\ \A d \in Calls \cap W : /\ call'[d].pc = "retry" /\ call'[d].path = "none"
                                   /\ call'[d].tab = call[d].tab
    BY <1>0 DEF Release, Callers, Caller
  <1>3. \A t \in Tabs : refreshing'[t] = IF t = call[c].tab THEN NoCall ELSE refreshing[t]
    BY <1>0 DEF Release, Leaders
  <1>4. \A d \in Calls : call[d].path = "refresh" /\ d # c => call[d].tab # call[c].tab
    BY DEF Led
  <1> HIDE DEF W
  <1>5. Shaped'
    BY <1>1, <1>2 DEF Shaped, Carries, AtServer
  <1>6. ASSUME NEW t \in Tabs, refreshing'[t] # NoCall
        PROVE  call'[refreshing'[t]].tab = t /\ call'[refreshing'[t]].path = "refresh"
    <2>1. t # call[c].tab /\ refreshing'[t] = refreshing[t] /\ refreshing[t] \in Calls
      BY <1>0, <1>3, <1>6 DEF Leaders
    <2>2. refreshing[t] \notin W
      BY <1>1, <2>1 DEF Led
    <2> QED BY <1>2, <2>1, <2>2 DEF Led
  <1>7. ASSUME NEW d \in Calls, call'[d].path = "refresh"
        PROVE  refreshing'[call'[d].tab] = d
    <2>1. d \notin W /\ call'[d] = call[d] /\ d # c
      BY <1>1, <1>2, <1>7
    <2>2. call[d].tab \in Tabs /\ call[d].tab # call[c].tab
      BY <1>4, <1>7, <2>1 DEF Shaped, Carries, AtServer
    <2> QED BY <1>3, <1>7, <2>1, <2>2 DEF Led
  <1> QED BY <1>5, <1>6, <1>7 DEF Led

\* Every action keeps what a caller carries and the leaders of the tabs.
LEMMA ShapeStep == Typed /\ Shaped /\ Led /\ [Next]_vars => Shaped' /\ Led'
  <1> SUFFICES ASSUME Typed, Shaped, Led, [Next]_vars PROVE Shaped' /\ Led'
    OBVIOUS
  <1> USE DEF server, browser, limiter, history
  <1>0. \A c \in Calls : call[c] \in Caller /\ Carries(call[c])
    BY DEF Typed, Callers, Shaped
  <1>1. ASSUME NEW c \in Calls, NEW t \in Tabs,
               StartCall(c, t) \/ StartLogin(c, t) \/ StartLogout(c, t)
        PROVE  Shaped' /\ Led'
    <2> DEFINE data == [Idle EXCEPT !.pc = "call", !.tab = t, !.kind = "data"]
               login == [Send(c, "login", NoJti) EXCEPT !.tab = t, !.kind = "login"]
               logout == [Idle EXCEPT !.pc = "revoke", !.tab = t, !.kind = "logout", !.jti = jar]
    <2>1. data \in Caller /\ Carries(data) /\ data.path # "refresh"
      BY IdleTyped, Members DEF Caller, Carries, Idle, AtServer
    <2>2. login \in Caller /\ Carries(login) /\ login.path # "refresh"
      <3>1. Send(c, "login", NoJti) \in Caller
        BY SendTyped, Members DEF Typed
      <3>2. Send(c, "login", NoJti).pc = "incr" /\ Send(c, "login", NoJti).path = "login"
        BY <1>0 DEF Send, Caller
      <3> QED BY <3>1, <3>2, Members DEF Caller, Carries, AtServer, Paths
    <2>3. logout \in Caller /\ Carries(logout) /\ logout.path # "refresh"
      BY IdleTyped, Members DEF Caller, Carries, Idle, AtServer, Typed
    <2>4. call[c].path # "refresh"
      BY <1>0, <1>1 DEF StartCall, StartLogin, StartLogout, Carries, AtServer
    <2>5. refreshing' = refreshing /\ \E x \in {data, login, logout} : call' = [call EXCEPT ![c] = x]
      BY <1>1 DEF StartCall, StartLogin, StartLogout
    <2> HIDE DEF data, login, logout
    <2> QED BY <2>1, <2>2, <2>3, <2>4, <2>5, KeepLead
  <1>2. ASSUME NEW c \in Calls, Proceed(c) PROVE Shaped' /\ Led'
    <2>0. Carries(call[c]) /\ call[c].path \in AnyPath
      BY <1>0 DEF Caller
    <2>1. CASE AnswerCall(c)
      BY <2>0, <2>1, EndKeepsLead, UnauthorizedLeads DEF AnswerCall, Carries, AtServer
    <2>2. CASE ReceiveTokens(c)
      BY <2>2, EndKeepsLead, ReleaseLeads DEF ReceiveTokens
    <2>3. CASE ReceiveFailure(c)
      BY <2>3, EndKeepsLead, ReleaseLeads DEF ReceiveFailure
    <2>4. CASE Retry(c)
      <3>1. call[c].path # "refresh" /\ call[c].tab \in Tabs
        BY <2>0, <2>4 DEF Retry, Carries, AtServer
      <3>2. Carries(Send(c, "login", NoJti)) /\ Send(c, "login", NoJti).path = "login"
        BY <3>1, SendShaped, Members DEF Paths
      <3>3. Send(c, "login", NoJti) \in Caller
        BY SendTyped, Members DEF Typed
      <3> QED BY <2>4, <3>1, <3>2, <3>3, KeepLead, EndKeepsLead DEF Retry
    <2>5. CASE ReceiveLogout(c)
      BY <2>0, <2>5, EndKeepsLead DEF ReceiveLogout, Carries, AtServer
    <2>6. CASE Incr(c)
      <3>1. \/ \E pc \in {"load", "failed"} : call[c].path = "login" /\ Goto(c, pc)
            \/ \E pc \in {"expire", "consume", "failed"} : call[c].path # "login" /\ Goto(c, pc)
        BY <2>6 DEF Incr
      <3>2. call[c].pc = "incr" /\ call[c].path \in Paths
        BY <2>0, <2>6 DEF Incr, Carries, AtServer
      <3>3. refreshing' = refreshing
        BY <2>6 DEF Incr
      <3>4. call[c].pc \in AtServer
        BY <3>2 DEF AtServer
      <3>5. ASSUME NEW pc \in {"expire", "consume", "load", "failed"}, Goto(c, pc),
                   pc \in {"expire", "consume"} => call[c].path = "refresh",
                   pc = "load" => call[c].path = "login"
            PROVE  Shaped' /\ Led'
        BY <3>3, <3>4, <3>5, MoveKeepsLead
      <3> QED BY <3>1, <3>2, <3>5 DEF Paths
    <2>7. CASE SetExpiry(c)
      BY <2>0, <2>7, MoveKeepsLead DEF SetExpiry, Carries, AtServer
    <2>8. CASE Consume(c)
      <3>1. call[c].jti \in live => call[c].jti # NoJti
        BY DEF Typed, NoJti
      <3>2. \E pc \in {"load", "failed"} : Goto(c, pc) /\ (pc = "load" => call[c].jti # NoJti)
        BY <2>8, <3>1 DEF Consume
      <3>3. call[c].pc = "consume" /\ call[c].path = "refresh" /\ refreshing' = refreshing
        BY <2>0, <2>8 DEF Consume, Carries
      <3> QED BY <3>2, <3>3, MoveKeepsLead DEF AtServer
    <2>9. CASE LoadUser(c)
      <3>1. CASE \E pc \in {"store", "failed"} : Goto(c, pc) /\ refreshing' = refreshing
        BY <2>0, <2>9, <3>1, MoveKeepsLead DEF LoadUser, Carries, AtServer
      <3>2. CASE call[c].path = "login" /\ End(c) /\ refreshing' = refreshing
        BY <3>2, EndKeepsLead
      <3>3. CASE call[c].path = "login" /\ Unauthorized(c)
        BY <2>9, <3>3, UnauthorizedLeads DEF LoadUser
      <3> QED BY <2>9, <3>1, <3>2, <3>3 DEF LoadUser
    <2>10. CASE StoreToken(c)
      <3>1. /\ \A d \in Calls \ {c} : call'[d] = call[d]
            /\ call'[c].pc = "ok" /\ call'[c].jti = Len(family) + 1
            /\ call'[c].tab = call[c].tab /\ call'[c].path = call[c].path
        BY <1>0, <2>10 DEF StoreToken, Typed, Callers, Caller
      <3>2. call[c].pc = "store" /\ refreshing' = refreshing
        BY <2>10 DEF StoreToken
      <3>3. Len(family) + 1 # NoJti
        BY DEF Typed, NoJti
      <3>4. Shaped'
        BY <1>0, <3>1, <3>2, <3>3 DEF Shaped, Carries, AtServer
      <3>5. \A t \in Tabs : refreshing[t] \in Calls \cup {NoCall}
        BY DEF Typed, Leaders
      <3>6. Led'
        BY <3>1, <3>2, <3>5 DEF Led
      <3> QED BY <3>4, <3>6
    <2>11. CASE Revoke(c)
      BY <2>0, <2>11, GotoKeepsLead, Members DEF Revoke, Carries, AtServer
    <2> QED
      BY <1>2, <2>1, <2>2, <2>3, <2>4, <2>5, <2>6, <2>7, <2>8, <2>9, <2>10, <2>11 DEF Proceed
  <1>3. ASSUME NEW c \in Calls, LogoutFails(c) PROVE Shaped' /\ Led'
    BY <1>0, <1>3, EndKeepsLead DEF LogoutFails, Carries, AtServer
  <1>4. ASSUME NEW c \in Calls, RequestFails(c) PROVE Shaped' /\ Led'
    BY <1>0, <1>4, MoveKeepsLead DEF RequestFails, AtServer
  <1>5. CASE WindowEnds \/ (\E j \in live : SessionExpires(j)) \/ Disable
    BY <1>5 DEF WindowEnds, SessionExpires, Disable, Shaped, Led
  <1>6. CASE UNCHANGED vars
    BY <1>6 DEF vars, Shaped, Led
  <1> QED BY <1>1, <1>2, <1>3, <1>4, <1>5, <1>6 DEF Next

\* Sessions and refreshes end, none begins.
LEMMA FewerHolders ==
  ASSUME Typed, OneHolder, LogoutEnds, EndedStay,
         family' = family, ended' = ended, live' \subseteq live, Rotating' \subseteq Rotating,
         \A c \in Rotating' : call'[c].jti = call[c].jti
  PROVE  OneHolder' /\ LogoutEnds' /\ EndedStay'
  BY DEF OneHolder, HeldOnce, LogoutEnds, EndedStay

\* A caller ends its refresh, goes on with it, or has none.
LEMMA NoNewRotation ==
  ASSUME Typed, NEW c \in Calls, NEW x, call' = [call EXCEPT ![c] = x],
         x.pc \in {"load", "store"} /\ x.path = "refresh" => c \in Rotating /\ x.jti = call[c].jti
  PROVE  Rotating' \subseteq Rotating /\ \A d \in Rotating' : call'[d].jti = call[d].jti
  <1>1. \A d \in Calls : call'[d] = IF d = c THEN x ELSE call[d]
    BY DEF Typed, Callers
  <1> QED BY <1>1 DEF Rotating

LEMMA GotoRotates ==
  ASSUME Typed, NEW c \in Calls, NEW pc, Goto(c, pc),
         pc \in {"load", "store"} /\ call[c].path = "refresh" => c \in Rotating
  PROVE  Rotating' \subseteq Rotating /\ \A d \in Rotating' : call'[d].jti = call[d].jti
  <1>1. call[c] \in Caller
    BY DEF Typed, Callers
  <1>2. /\ call' = [call EXCEPT ![c] = [call[c] EXCEPT !.pc = pc]]
        /\ [call[c] EXCEPT !.pc = pc].pc = pc
        /\ [call[c] EXCEPT !.pc = pc].path = call[c].path
        /\ [call[c] EXCEPT !.pc = pc].jti = call[c].jti
    BY <1>1 DEF Goto, Caller, Typed, Callers
  <1> QED BY <1>2, NoNewRotation

LEMMA EndRotates ==
  ASSUME Typed, NEW c \in Calls, End(c)
  PROVE  Rotating' \subseteq Rotating /\ \A d \in Rotating' : call'[d].jti = call[d].jti
  BY NoNewRotation DEF End, Idle

LEMMA SendRotates ==
  ASSUME Typed, NEW c \in Calls, NEW path, NEW jti, call' = [call EXCEPT ![c] = Send(c, path, jti)]
  PROVE  Rotating' \subseteq Rotating /\ \A d \in Rotating' : call'[d].jti = call[d].jti
  <1>1. Send(c, path, jti).pc = "incr"
    BY DEF Send, Typed, Callers, Caller
  <1> QED BY <1>1, NoNewRotation

LEMMA ReleaseRotates ==
  ASSUME Typed, NEW c \in Calls, Release(c)
  PROVE  Rotating' \subseteq Rotating /\ \A d \in Rotating' : call'[d].jti = call[d].jti
  <1> DEFINE W == Waiting(call[c].tab)
  <1>1. /\ \A d \in Calls \ W : call'[d] = call[d]
        /\ \A d \in Calls \cap W : call'[d].pc = "retry"
    BY DEF Release, Typed, Callers, Caller
  <1> QED BY <1>1 DEF Rotating

LEMMA UnauthorizedRotates ==
  ASSUME Typed, NEW c \in Calls, Unauthorized(c)
  PROVE  Rotating' \subseteq Rotating /\ \A d \in Rotating' : call'[d].jti = call[d].jti
  BY SendRotates, GotoRotates DEF Unauthorized

\* A refresh consumes the session of its login: the right moves.
LEMMA ConsumeMoves ==
  ASSUME Typed, Shaped, OneHolder, LogoutEnds, EndedStay, NEW c \in Calls, Consume(c)
  PROVE  OneHolder' /\ LogoutEnds' /\ EndedStay'
  <1>1. call[c].pc = "consume" /\ family' = family /\ ended' = ended
    BY DEF Consume, server, history
  <1>2. CASE call[c].jti \notin live
    <2>1. Goto(c, "failed") /\ live' = live \ {call[c].jti}
      BY <1>2 DEF Consume
    <2> QED BY <1>1, <2>1, GotoRotates, FewerHolders
  <1>3. CASE call[c].jti \in live
    <2> DEFINE j == call[c].jti
    <2>1. /\ live' = live \ {j}
          /\ \A d \in Calls : call'[d].pc = IF d = c THEN "load" ELSE call[d].pc
          /\ \A d \in Calls : call'[d].path = call[d].path /\ call'[d].jti = call[d].jti
      BY <1>3 DEF Consume, Goto, Typed, Callers, Caller
    <2>2. Rotating' \subseteq Rotating \cup {c} /\ \A d \in Rotating' : call'[d].jti = call[d].jti
      BY <2>1 DEF Rotating
    <2>3. c \notin Rotating
      BY <1>1 DEF Rotating
    <2>4. ASSUME NEW k \in DOMAIN family PROVE HeldOnce(k)'
      BY <1>1, <1>3, <2>1, <2>2, <2>4 DEF OneHolder, HeldOnce
    <2>5. OneHolder'
      BY <1>1, <2>4 DEF OneHolder
    <2>6. LogoutEnds' /\ EndedStay'
      BY <1>1, <1>3, <2>1, <2>2 DEF LogoutEnds, EndedStay
    <2> QED BY <2>5, <2>6
  <1> QED BY <1>2, <1>3

\* A new session: of a new login, or in place of the one a refresh consumed.
LEMMA StoreMoves ==
  ASSUME Typed, Shaped, OneHolder, LogoutEnds, EndedStay, NEW c \in Calls, StoreToken(c)
  PROVE  OneHolder' /\ LogoutEnds' /\ EndedStay'
  <1> DEFINE new == Len(family) + 1
             k0 == IF call[c].path = "login" THEN new ELSE family[call[c].jti]
  <1>1. /\ call[c].pc = "store" /\ live' = live \cup {new} /\ family' = Append(family, k0)
        /\ ended' = ended /\ call[c] \in Caller
    BY DEF StoreToken, history, Typed, Callers
  <1>2. call[c].path # "login" => c \in Rotating /\ call[c].jti \in DOMAIN family
    BY <1>1 DEF Shaped, Carries, AtServer, Paths, Rotating, Caller, AnyJti
  <1>3. /\ DOMAIN family = 1..Len(family) /\ DOMAIN family' = 1..new
        /\ family'[new] = k0 /\ k0 \in 1..new
        /\ \A j \in DOMAIN family : family'[j] = family[j] /\ family[j] \in 1..j
    BY <1>1, <1>2 DEF Typed
  <1>4. /\ Rotating' = Rotating \ {c}
        /\ \A d \in Rotating' : call'[d].jti = call[d].jti /\ call[d].jti \in DOMAIN family
    <2>1. /\ \A d \in Calls \ {c} : call'[d] = call[d]
          /\ call'[c].pc = "ok"
      BY DEF StoreToken, Typed, Callers, Caller
    <2>2. \A d \in Rotating : call[d].jti \in DOMAIN family
      BY DEF Rotating, Shaped, Carries, Typed, Callers, Caller, AnyJti
    <2> QED BY <2>1, <2>2 DEF Rotating
  <1>5. new \notin DOMAIN family /\ live \subseteq DOMAIN family /\ ended \subseteq DOMAIN family
    BY <1>3 DEF Typed
  <1>6. \A i \in live \cup DOMAIN family : family'[i] = family[i] /\ family[i] \in DOMAIN family
    BY <1>3, <1>5
  <1> HIDE DEF new, k0
  <1>7. /\ \A i \in live : family'[i] = family[i] /\ family[i] # new
        /\ \A d \in Rotating' : /\ d \in Rotating /\ d # c
                                /\ family'[call'[d].jti] = family[call[d].jti]
                                /\ family[call[d].jti] # new
    BY <1>4, <1>5, <1>6
  <1>8. \A i \in live' : \/ i = new /\ family'[i] = k0
                         \/ i \in live /\ family'[i] = family[i]
    BY <1>1, <1>3, <1>7
  <1>9. ASSUME NEW k, k = k0 => /\ \A i \in live : family[i] # k
                                /\ \A d \in Rotating' : family[call[d].jti] # k,
               k # new => HeldOnce(k)
        PROVE  HeldOnce(k)'
    <2>1. CASE k = k0
      BY <1>7, <1>8, <1>9, <2>1 DEF HeldOnce
    <2>2. CASE k # k0 /\ k # new
      BY <1>7, <1>8, <1>9, <2>2 DEF HeldOnce
    <2>3. CASE k # k0 /\ k = new
      BY <1>7, <1>8, <2>3 DEF HeldOnce
    <2> QED BY <2>1, <2>2, <2>3
  <1>10. \A k \in DOMAIN family' : k # new => HeldOnce(k)
    BY <1>3 DEF OneHolder, new
  <1>11. CASE call[c].path = "login"
    <2>1. k0 = new
      BY <1>11 DEF k0
    <2>2. LogoutEnds' /\ EndedStay'
      BY <1>1, <1>3, <1>5, <1>7, <2>1 DEF LogoutEnds, EndedStay
    <2>3. \A k \in DOMAIN family' : HeldOnce(k)'
      BY <1>7, <1>9, <1>10, <2>1
    <2> QED BY <2>2, <2>3 DEF OneHolder
  <1>12. CASE call[c].path # "login"
    <2>1. k0 = family[call[c].jti] /\ c \in Rotating
      BY <1>2, <1>12 DEF k0
    <2>2. k0 \in DOMAIN family /\ HeldOnce(k0)
      BY <1>2, <1>6, <1>12, <2>1 DEF OneHolder
    <2>3. LogoutEnds' /\ EndedStay'
      BY <1>1, <1>3, <1>7, <2>1 DEF LogoutEnds, EndedStay
    <2>4. /\ \A i \in live : family[i] # k0
          /\ \A d \in Rotating' : family[call[d].jti] # k0
      BY <1>7, <2>1, <2>2 DEF HeldOnce
    <2>5. \A k \in DOMAIN family' : HeldOnce(k)'
      BY <1>9, <1>10, <2>4
    <2> QED BY <2>3, <2>5 DEF OneHolder
  <1> QED BY <1>11, <1>12

\* A logout finds the session of a login, which nobody else holds then.
LEMMA RevokeEnds ==
  ASSUME Typed, OneHolder, LogoutEnds, EndedStay, NEW c \in Calls, Revoke(c)
  PROVE  OneHolder' /\ LogoutEnds' /\ EndedStay'
  <1> DEFINE j == call[c].jti
  <1>1. family' = family /\ live' = live \ {j} /\ Goto(c, "revoked")
    BY DEF Revoke
  <1>2. Rotating' \subseteq Rotating /\ \A d \in Rotating' : call'[d].jti = call[d].jti
    BY <1>1, GotoRotates
  <1>3. CASE j \notin live
    BY <1>1, <1>2, <1>3, FewerHolders DEF Revoke
  <1>4. CASE j \in live
    <2>1. ended' = ended \cup {family[j]}
      BY <1>4 DEF Revoke
    <2>2. family[j] \in DOMAIN family /\ HeldOnce(family[j])
      <3>1. DOMAIN family = 1..Len(family) /\ j \in DOMAIN family /\ family[j] \in 1..j
        BY <1>4 DEF Typed
      <3>2. family[j] \in DOMAIN family
        BY <3>1
      <3> QED BY <3>2 DEF OneHolder
    <2>3. OneHolder'
      BY <1>1, <1>2 DEF OneHolder, HeldOnce
    <2>4. LogoutEnds' /\ EndedStay'
      BY <1>1, <1>2, <1>4, <2>1, <2>2 DEF LogoutEnds, EndedStay, HeldOnce
    <2> QED BY <2>3, <2>4
  <1> QED BY <1>3, <1>4

\* Every action keeps one holder per login, and ended logins ended.
LEMMA HolderStep ==
  Typed /\ Shaped /\ OneHolder /\ LogoutEnds /\ EndedStay /\ [Next]_vars
    => OneHolder' /\ LogoutEnds' /\ EndedStay'
  <1> SUFFICES ASSUME Typed, Shaped, OneHolder, LogoutEnds, EndedStay, [Next]_vars
               PROVE  OneHolder' /\ LogoutEnds' /\ EndedStay'
    OBVIOUS
  <1> DEFINE Kept == Rotating' \subseteq Rotating /\ \A d \in Rotating' : call'[d].jti = call[d].jti
  <1>0. family' = family /\ ended' = ended /\ live' \subseteq live /\ Kept
          => OneHolder' /\ LogoutEnds' /\ EndedStay'
    BY FewerHolders
  <1> USE DEF server, browser, limiter, history
  <1>1. ASSUME NEW c \in Calls, NEW t \in Tabs,
               StartCall(c, t) \/ StartLogin(c, t) \/ StartLogout(c, t)
        PROVE  OneHolder' /\ LogoutEnds' /\ EndedStay'
    <2>1. [Idle EXCEPT !.pc = "call", !.tab = t, !.kind = "data"].pc = "call"
      BY DEF Idle
    <2>2. [Send(c, "login", NoJti) EXCEPT !.tab = t, !.kind = "login"].pc = "incr"
      BY DEF Send, Typed, Callers, Caller
    <2>3. [Idle EXCEPT !.pc = "revoke", !.tab = t, !.kind = "logout", !.jti = jar].pc = "revoke"
      BY DEF Idle
    <2>4. Kept
      BY <1>1, <2>1, <2>2, <2>3, NoNewRotation DEF StartCall, StartLogin, StartLogout
    <2> HIDE DEF Kept
    <2> QED BY <1>0, <1>1, <2>4 DEF StartCall, StartLogin, StartLogout
  <1>2. ASSUME NEW c \in Calls, Proceed(c) PROVE OneHolder' /\ LogoutEnds' /\ EndedStay'
    <2>1. CASE \/ AnswerCall(c) \/ ReceiveTokens(c) \/ ReceiveFailure(c) \/ Retry(c)
               \/ ReceiveLogout(c) \/ SetExpiry(c)
      <3>1. Kept
        BY <2>1, EndRotates, UnauthorizedRotates, ReleaseRotates, SendRotates, GotoRotates
        DEF AnswerCall, ReceiveTokens, ReceiveFailure, Retry, ReceiveLogout, SetExpiry
      <3> HIDE DEF Kept
      <3> QED BY <1>0, <2>1, <3>1
              DEF AnswerCall, ReceiveTokens, ReceiveFailure, Retry, ReceiveLogout, SetExpiry
    <2>2. CASE Incr(c)
      <3>1. Kept
        BY <2>2, GotoRotates DEF Incr
      <3> HIDE DEF Kept
      <3> QED BY <1>0, <2>2, <3>1 DEF Incr
    <2>3. CASE Consume(c) BY <2>3, ConsumeMoves
    <2>4. CASE LoadUser(c)
      <3>1. call[c].path = "refresh" => c \in Rotating
        BY <2>4 DEF LoadUser, Rotating
      <3>2. Kept
        BY <2>4, <3>1, GotoRotates, EndRotates, UnauthorizedRotates DEF LoadUser
      <3> HIDE DEF Kept
      <3> QED BY <1>0, <2>4, <3>2 DEF LoadUser
    <2>5. CASE StoreToken(c) BY <2>5, StoreMoves
    <2>6. CASE Revoke(c) BY <2>6, RevokeEnds
    <2> QED BY <1>2, <2>1, <2>2, <2>3, <2>4, <2>5, <2>6 DEF Proceed
  <1>3. ASSUME NEW c \in Calls, LogoutFails(c) \/ RequestFails(c)
        PROVE  OneHolder' /\ LogoutEnds' /\ EndedStay'
    <2>1. Kept
      BY <1>3, EndRotates, GotoRotates DEF LogoutFails, RequestFails
    <2> HIDE DEF Kept
    <2> QED BY <1>0, <1>3, <2>1 DEF LogoutFails, RequestFails
  <1>4. CASE WindowEnds \/ (\E j \in live : SessionExpires(j)) \/ Disable \/ UNCHANGED vars
    <2>1. Kept
      BY <1>4 DEF WindowEnds, SessionExpires, Disable, vars, Rotating
    <2> HIDE DEF Kept
    <2> QED BY <1>0, <1>4, <2>1 DEF WindowEnds, SessionExpires, Disable, vars
  <1> QED BY <1>1, <1>2, <1>3, <1>4 DEF Next

\* The reply of caller c will replace the cookie.
Replaces(c) ==
  /\ call[c].path = "refresh" /\ call[c].pc \in {"load", "store", "ok"}
  /\ family[call[c].jti] = family[jar]

\* The cookie is that of a login which a logout ended.
LoggedOut == family[jar] \in ended

\* A caller that neither delivers nor replaces a cookie goes on with what it
\* carries, with the cookie of the moment or with nothing.
LEMMA QuietStep ==
  ASSUME Typed, Shaped, Undelivered, CookieIsAlive, ~fault,
         NEW c \in Calls, NEW x, call' = [call EXCEPT ![c] = x],
         x.pc # "ok", x.jti \in {NoJti, jar, call[c].jti}, ~Replaces(c),
         jar' = jar, live' = live, family' = family, ended' = ended
  PROVE  Undelivered' /\ CookieIsAlive'
  <1>1. \A d \in Calls : call'[d] = IF d = c THEN x ELSE call[d]
    BY DEF Typed, Callers
  <1>2. \A d \in Calls : call[d].pc = "ok" => call[d].jti # NoJti
    BY DEF Shaped, Carries
  <1>3. Undelivered'
    BY <1>1, <1>2 DEF Undelivered
  <1>4. \A d \in Calls : Replaces(d) => Replaces(d)'
    BY <1>1 DEF Replaces
  <1>5. jar = NoJti \/ LoggedOut \/ jar \in live \/ \E d \in Calls : Replaces(d)
    BY DEF CookieIsAlive, Replaces, LoggedOut
  <1>6. jar' = NoJti \/ LoggedOut' \/ jar' \in live' \/ \E d \in Calls : Replaces(d)'
    BY <1>4, <1>5 DEF LoggedOut
  <1>7. CookieIsAlive'
    BY <1>6 DEF CookieIsAlive, Replaces, LoggedOut
  <1> QED BY <1>3, <1>7

LEMMA QuietGoto ==
  ASSUME Typed, Shaped, Undelivered, CookieIsAlive, ~fault,
         NEW c \in Calls, NEW pc, Goto(c, pc), pc # "ok", ~Replaces(c),
         jar' = jar, live' = live, family' = family, ended' = ended
  PROVE  Undelivered' /\ CookieIsAlive'
  <1>1. call' = [call EXCEPT ![c] = [call[c] EXCEPT !.pc = pc]]
    BY DEF Goto, Typed, Callers
  <1>2. [call[c] EXCEPT !.pc = pc].pc = pc /\ [call[c] EXCEPT !.pc = pc].jti = call[c].jti
    BY DEF Typed, Callers, Caller
  <1> QED BY <1>1, <1>2, QuietStep

LEMMA QuietEnd ==
  ASSUME Typed, Shaped, Undelivered, CookieIsAlive, ~fault,
         NEW c \in Calls, End(c), ~Replaces(c),
         jar' = jar, live' = live, family' = family, ended' = ended
  PROVE  Undelivered' /\ CookieIsAlive'
  <1>1. Idle.pc # "ok" /\ Idle.jti = NoJti
    BY DEF Idle
  <1> QED BY <1>1, QuietStep DEF End

LEMMA SendParts ==
  ASSUME Typed, NEW c \in Calls, NEW path, NEW jti
  PROVE  Send(c, path, jti).pc = "incr" /\ Send(c, path, jti).jti = jti
  BY DEF Send, Typed, Callers, Caller

LEMMA QuietUnauthorized ==
  ASSUME Typed, Shaped, Undelivered, CookieIsAlive, ~fault,
         NEW c \in Calls, Unauthorized(c), ~Replaces(c),
         jar' = jar, live' = live, family' = family, ended' = ended
  PROVE  Undelivered' /\ CookieIsAlive'
  <1>1. CASE refreshing[call[c].tab] = NoCall
    <2>1. call' = [call EXCEPT ![c] = Send(c, "refresh", jar)]
      BY <1>1 DEF Unauthorized
    <2> QED BY <2>1, SendParts, QuietStep
  <1>2. CASE refreshing[call[c].tab] # NoCall
    BY <1>2, QuietGoto DEF Unauthorized
  <1> QED BY <1>1, <1>2

\* Who waits for the refresh of a tab: those who share it, and its leader.
LEMMA ReleaseParts ==
  ASSUME Typed, Shaped, Led, NEW c \in Calls, Release(c), call[c].path = "refresh"
  PROVE  \A d \in Calls : \/ call'[d] = call[d] /\ d # c
                          \/ /\ call'[d].pc = "retry" /\ call'[d].jti = NoJti
                             /\ d = c \/ call[d].pc = "wait"
  <1> DEFINE W == Waiting(call[c].tab)
  <1>1. call[c].tab \in Tabs /\ refreshing[call[c].tab] = c
    BY DEF Shaped, Carries, Led, AtServer
  <1>2. c \in W /\ \A d \in W : d = c \/ call[d].pc = "wait"
    BY <1>1 DEF Waiting
  <1>3. /\ \A d \in Calls \ W : call'[d] = call[d]
        /\ \A d \in Calls \cap W : call'[d].pc = "retry" /\ call'[d].jti = NoJti
    BY DEF Release, Typed, Callers, Caller
  <1> HIDE DEF W
  <1> QED BY <1>2, <1>3

\* The browser takes a new cookie, which is live.
LEMMA ReceiveIsAlive ==
  ASSUME Typed, Shaped, Led, Undelivered, NEW c \in Calls, ReceiveTokens(c)
  PROVE  Undelivered' /\ CookieIsAlive'
  <1>1. /\ call[c].pc = "ok" /\ jar' = call[c].jti /\ live' = live
        /\ call[c].path = "refresh" => Release(c)
        /\ call[c].path # "refresh" => End(c)
    BY DEF ReceiveTokens, server
  <1>2. jar' \in live' /\ \A d \in Calls \ {c} : call[d].pc = "ok" => call[d].jti # jar'
    BY <1>1 DEF Undelivered
  <1>3. \A d \in Calls : \/ call'[d] = call[d] /\ d # c
                         \/ call'[d].pc # "ok" /\ call'[d].jti = NoJti
    <2>1. CASE call[c].path = "refresh"
      BY <1>1, <2>1, ReleaseParts
    <2>2. CASE call[c].path # "refresh"
      <3>1. \A d \in Calls : call'[d] = IF d = c THEN Idle ELSE call[d]
        BY <1>1, <2>2 DEF End, Typed, Callers
      <3> QED BY <3>1 DEF Idle
    <2> QED BY <2>1, <2>2
  <1>4. \A d \in Calls : call[d].pc = "ok" => call[d].jti # NoJti
    BY DEF Shaped, Carries
  <1>5. Undelivered'
    BY <1>1, <1>2, <1>3, <1>4 DEF Undelivered
  <1> QED BY <1>2, <1>5 DEF CookieIsAlive

\* The refresh of a tab fails while the others of its callers wait.
LEMMA FailureIsQuiet ==
  ASSUME Typed, Shaped, Led, Undelivered, CookieIsAlive, ~fault,
         NEW c \in Calls, ReceiveFailure(c)
  PROVE  Undelivered' /\ CookieIsAlive'
  <1>0. call[c].pc = "failed" /\ jar' = jar /\ live' = live /\ family' = family /\ ended' = ended
    BY DEF ReceiveFailure, server, history
  <1>1. ~Replaces(c)
    BY <1>0 DEF Replaces
  <1>2. CASE call[c].path # "refresh"
    BY <1>0, <1>1, <1>2, QuietEnd DEF ReceiveFailure
  <1>3. CASE call[c].path = "refresh"
    <2>1. \A d \in Calls : \/ call'[d] = call[d]
                           \/ /\ call'[d].pc = "retry" /\ call'[d].jti = NoJti
                              /\ call[d].pc \in {"failed", "wait"}
      BY <1>0, <1>3, ReleaseParts DEF ReceiveFailure
    <2>2. \A d \in Calls : call[d].pc = "ok" => call[d].jti # NoJti
      BY DEF Shaped, Carries
    <2>3. Undelivered'
      BY <1>0, <2>1, <2>2 DEF Undelivered
    <2>4. \A d \in Calls : Replaces(d) => Replaces(d)'
      BY <1>0, <2>1 DEF Replaces
    <2>5. jar' = NoJti \/ LoggedOut' \/ jar' \in live' \/ \E d \in Calls : Replaces(d)'
      BY <1>0, <2>4 DEF CookieIsAlive, Replaces, LoggedOut
    <2> QED BY <2>3, <2>5 DEF CookieIsAlive, Replaces, LoggedOut
  <1> QED BY <1>2, <1>3

\* The session that is consumed was the cookie's, and its successor comes.
LEMMA ConsumeReplaces ==
  ASSUME Typed, Shaped, Undelivered, CookieIsAlive, ~fault, NEW c \in Calls, Consume(c)
  PROVE  Undelivered' /\ CookieIsAlive'
  <1>0. /\ call[c].pc = "consume" /\ call[c].path = "refresh"
        /\ jar' = jar /\ family' = family /\ ended' = ended
    BY DEF Consume, browser, history, Shaped, Carries
  <1>1. CASE call[c].jti \notin live
    <2>1. live' = live /\ Goto(c, "failed") /\ ~Replaces(c)
      BY <1>0, <1>1 DEF Consume, Replaces
    <2> QED BY <1>0, <2>1, QuietGoto
  <1>2. CASE call[c].jti \in live
    <2>1. /\ live' = live \ {call[c].jti}
          /\ \A d \in Calls : /\ call'[d].pc = (IF d = c THEN "load" ELSE call[d].pc)
                              /\ call'[d].path = call[d].path /\ call'[d].jti = call[d].jti
      BY <1>2 DEF Consume, Goto, Typed, Callers, Caller
    <2>2. Undelivered'
      BY <1>0, <2>1 DEF Undelivered
    <2>3. \A d \in Calls : Replaces(d) => Replaces(d)'
      BY <1>0, <2>1 DEF Replaces
    <2>4. jar = call[c].jti => Replaces(c)'
      BY <1>0, <2>1 DEF Replaces
    <2>5. jar = NoJti \/ LoggedOut' \/ jar \in live' \/ \E d \in Calls : Replaces(d)'
      BY <1>0, <2>1, <2>3, <2>4 DEF CookieIsAlive, Replaces, LoggedOut
    <2> QED BY <1>0, <2>2, <2>5 DEF CookieIsAlive, Replaces, LoggedOut
  <1> QED BY <1>1, <1>2

\* The session that a logout deletes may be the cookie's: its login has ended.
LEMMA RevokeReplaces ==
  ASSUME Typed, Shaped, Undelivered, CookieIsAlive, ~fault, NEW c \in Calls, Revoke(c)
  PROVE  Undelivered' /\ CookieIsAlive'
  <1> DEFINE j == call[c].jti
  <1>0. /\ call[c].pc = "revoke" /\ jar' = jar /\ family' = family /\ live' = live \ {j}
        /\ ended' = IF j \in live THEN ended \cup {family[j]} ELSE ended
    BY DEF Revoke, browser
  <1>1. \A d \in Calls : /\ call'[d].pc = (IF d = c THEN "revoked" ELSE call[d].pc)
                         /\ call'[d].path = call[d].path /\ call'[d].jti = call[d].jti
    BY DEF Revoke, Goto, Typed, Callers, Caller
  <1>2. Undelivered'
    BY <1>0, <1>1 DEF Undelivered
  <1>3. \A d \in Calls : Replaces(d) => Replaces(d)'
    BY <1>0, <1>1 DEF Replaces
  <1>4. LoggedOut \/ (jar \in live /\ jar = j) => LoggedOut'
    BY <1>0 DEF LoggedOut
  <1>5. jar = NoJti \/ LoggedOut' \/ jar \in live' \/ \E d \in Calls : Replaces(d)'
    BY <1>0, <1>3, <1>4 DEF CookieIsAlive, Replaces, LoggedOut
  <1> QED BY <1>0, <1>2, <1>5 DEF CookieIsAlive, Replaces, LoggedOut

\* The successor is stored, and its reply is on the way.
LEMMA StoreReplaces ==
  ASSUME Typed, Shaped, Undelivered, CookieIsAlive, ~fault, NEW c \in Calls, StoreToken(c)
  PROVE  Undelivered' /\ CookieIsAlive'
  <1> DEFINE new == Len(family) + 1
  <1>0. /\ call[c].pc = "store" /\ live' = live \cup {new} /\ jar' = jar /\ ended' = ended
        /\ \A d \in Calls \ {c} : call'[d] = call[d]
        /\ call'[c].pc = "ok" /\ call'[c].jti = new /\ call'[c].path = call[c].path
    BY DEF StoreToken, browser, history, Typed, Callers, Caller
  <1>1. DOMAIN family = 1..Len(family) /\ new \notin AnyJti
    BY DEF Typed, AnyJti, NoJti
  <1>2. /\ \A j \in DOMAIN family : family'[j] = family[j]
        /\ call[c].path = "refresh" => family'[new] = family[call[c].jti]
    BY DEF StoreToken, Typed
  <1>3. \A d \in Calls : call[d].jti \in AnyJti
    BY DEF Typed, Callers, Caller
  <1>4. jar \in AnyJti
    BY DEF Typed
  <1> HIDE DEF new
  <1>5. Undelivered'
    BY <1>0, <1>1, <1>3, <1>4 DEF Undelivered
  <1>6. ASSUME jar # NoJti, NEW d \in Calls, Replaces(d) PROVE Replaces(d)'
    <2>1. jar \in DOMAIN family /\ family'[jar] = family[jar]
      BY <1>2, <1>4, <1>6 DEF AnyJti
    <2>2. call[d].path = "refresh" /\ family[call[d].jti] = family[jar]
      BY <1>6 DEF Replaces
    <2>3. call[d].jti \in DOMAIN family
      BY <1>3, <1>6 DEF Replaces, Shaped, Carries, AnyJti
    <2> QED BY <1>0, <1>2, <1>6, <2>1, <2>2, <2>3 DEF Replaces
  <1>7. jar = NoJti \/ LoggedOut' \/ jar \in live' \/ \E d \in Calls : Replaces(d)'
    <2>1. jar # NoJti => family'[jar] = family[jar]
      BY <1>2, <1>4 DEF AnyJti
    <2> QED BY <1>0, <1>6, <2>1 DEF CookieIsAlive, Replaces, LoggedOut
  <1> QED BY <1>0, <1>5, <1>7 DEF CookieIsAlive, Replaces, LoggedOut

\* What goes on by itself disturbs nothing.
LEMMA ProceedUndisturbed ==
  ASSUME Typed, Shaped, Led, Undelivered, CookieIsAlive, active, ~fault,
         NEW c \in Calls, Proceed(c)
  PROVE  Undelivered' /\ CookieIsAlive'
  <1> USE DEF server, browser, history
  <1>1. CASE AnswerCall(c)
    <2>1. ~Replaces(c)
      BY <1>1 DEF AnswerCall, Replaces
    <2> QED BY <1>1, <2>1, QuietEnd, QuietUnauthorized DEF AnswerCall
  <1>2. CASE ReceiveTokens(c) BY <1>2, ReceiveIsAlive
  <1>3. CASE ReceiveFailure(c) BY <1>3, FailureIsQuiet
  <1>4. CASE Retry(c)
    <2>1. ~Replaces(c)
      BY <1>4 DEF Retry, Replaces
    <2>2. CASE call[c].kind = "login"
      BY <1>4, <2>1, <2>2, SendParts, QuietStep DEF Retry
    <2>3. CASE call[c].kind # "login"
      BY <1>4, <2>1, <2>3, QuietEnd DEF Retry
    <2> QED BY <2>2, <2>3
  <1>5. CASE ReceiveLogout(c)
    <2>1. ~Replaces(c)
      BY <1>5 DEF ReceiveLogout, Replaces
    <2> QED BY <1>5, <2>1, QuietEnd DEF ReceiveLogout
  <1>6. CASE Incr(c)
    <2>1. ~Replaces(c)
      BY <1>6 DEF Incr, Replaces
    <2> QED BY <1>6, <2>1, QuietGoto DEF Incr
  <1>7. CASE SetExpiry(c)
    <2>1. ~Replaces(c)
      BY <1>7 DEF SetExpiry, Replaces
    <2> QED BY <1>7, <2>1, QuietGoto DEF SetExpiry
  <1>8. CASE Consume(c) BY <1>8, ConsumeReplaces
  <1>9. CASE LoadUser(c)
    <2>1. CASE /\ Goto(c, "store") /\ live' = live /\ jar' = jar
               /\ family' = family /\ ended' = ended
      <3>1. \A d \in Calls : /\ call'[d].pc = (IF d = c THEN "store" ELSE call[d].pc)
                             /\ call'[d].path = call[d].path /\ call'[d].jti = call[d].jti
        BY <2>1 DEF Goto, Typed, Callers, Caller
      <3>2. call[c].pc = "load"
        BY <1>9 DEF LoadUser
      <3>3. Undelivered'
        BY <2>1, <3>1 DEF Undelivered
      <3>4. \A d \in Calls : Replaces(d) => Replaces(d)'
        BY <2>1, <3>1, <3>2 DEF Replaces
      <3>5. jar' = NoJti \/ LoggedOut' \/ jar' \in live' \/ \E d \in Calls : Replaces(d)'
        BY <2>1, <3>4 DEF CookieIsAlive, Replaces, LoggedOut
      <3> QED BY <3>3, <3>5 DEF CookieIsAlive, Replaces, LoggedOut
    <2>2. CASE call[c].path = "login" /\ (End(c) \/ Unauthorized(c))
      <3>1. ~Replaces(c)
        BY <1>9, <2>2 DEF LoadUser, Replaces
      <3> QED BY <1>9, <2>2, <3>1, QuietEnd, QuietUnauthorized DEF LoadUser
    <2> QED BY <1>9, <2>1, <2>2 DEF LoadUser
  <1>10. CASE StoreToken(c) BY <1>10, StoreReplaces
  <1>11. CASE Revoke(c) BY <1>11, RevokeReplaces
  <1> QED
    BY <1>1, <1>2, <1>3, <1>4, <1>5, <1>6, <1>7, <1>8, <1>9, <1>10, <1>11 DEF Proceed

LEMMA UndisturbedStep ==
  Typed /\ Shaped /\ Led /\ Undisturbed /\ [Next]_vars => Undisturbed'
  <1> SUFFICES ASSUME Typed, Shaped, Led, Undisturbed, [Next]_vars, ~fault'
               PROVE  active' /\ Undelivered' /\ CookieIsAlive'
    BY DEF Undisturbed
  <1> USE DEF server, browser, limiter, history
  <1>1. CASE fault' = TRUE
    BY <1>1
  <1>2. CASE fault' = fault
    <2>0. ~fault /\ active /\ Undelivered /\ CookieIsAlive
      BY <1>2 DEF Undisturbed
    <2>1. ASSUME NEW c \in Calls, NEW t \in Tabs,
                 StartCall(c, t) \/ StartLogin(c, t) \/ StartLogout(c, t)
          PROVE  active' /\ Undelivered' /\ CookieIsAlive'
      <3> DEFINE data == [Idle EXCEPT !.pc = "call", !.tab = t, !.kind = "data"]
                 login == [Send(c, "login", NoJti) EXCEPT !.tab = t, !.kind = "login"]
                 logout == [Idle EXCEPT !.pc = "revoke", !.tab = t, !.kind = "logout", !.jti = jar]
      <3>1. data.pc # "ok" /\ data.jti = NoJti /\ logout.pc # "ok" /\ logout.jti = jar
        BY DEF Idle
      <3>2. login.pc # "ok" /\ login.jti = NoJti
        <4>1. Send(c, "login", NoJti).pc = "incr" /\ Send(c, "login", NoJti).jti = NoJti
          BY SendParts
        <4>2. login.pc = Send(c, "login", NoJti).pc /\ login.jti = Send(c, "login", NoJti).jti
          BY DEF Send, Typed, Callers, Caller
        <4> QED BY <4>1, <4>2
      <3>3. /\ \E x \in {data, login, logout} : call' = [call EXCEPT ![c] = x]
            /\ jar' = jar /\ live' = live /\ family' = family /\ ended' = ended /\ active' = active
            /\ call[c].pc = "idle"
        BY <2>1 DEF StartCall, StartLogin, StartLogout
      <3>4. ~Replaces(c)
        BY <3>3 DEF Replaces
      <3> HIDE DEF data, login, logout
      <3> QED BY <2>0, <3>1, <3>2, <3>3, <3>4, QuietStep
    <2>2. ASSUME NEW c \in Calls, Proceed(c) PROVE active' /\ Undelivered' /\ CookieIsAlive'
      <3>1. active' = active
        BY <2>2 DEF Proceed, AnswerCall, ReceiveTokens, ReceiveFailure, Retry, ReceiveLogout,
           Incr, SetExpiry, Consume, LoadUser, StoreToken, Revoke
      <3> QED BY <2>0, <2>2, <3>1, ProceedUndisturbed
    <2>3. CASE WindowEnds
      BY <2>0, <2>3 DEF WindowEnds, Undelivered, CookieIsAlive
    <2>4. CASE UNCHANGED vars
      BY <2>0, <2>4 DEF vars, Undelivered, CookieIsAlive
    <2>5. ~(\E c \in Calls : LogoutFails(c) \/ RequestFails(c))
          /\ ~(\E j \in live : SessionExpires(j)) /\ ~Disable
      BY <1>2, <2>0 DEF LogoutFails, RequestFails, SessionExpires, Disable
    <2> QED BY <2>1, <2>2, <2>3, <2>4, <2>5 DEF Next
  <1>3. fault' = TRUE \/ fault' = fault
    BY DEF Next, vars, StartCall, StartLogin, StartLogout, Proceed, AnswerCall, ReceiveTokens,
       ReceiveFailure, Retry, ReceiveLogout, Incr, SetExpiry, Consume, LoadUser, StoreToken,
       Revoke, LogoutFails, RequestFails, WindowEnds, SessionExpires, Disable
  <1> QED BY <1>1, <1>2, <1>3

-----------------------------------------------------------------------------
(* The theorems.                                                           *)

IInv ==
  /\ Typed /\ Shaped /\ Led
  /\ OneHolder /\ LogoutEnds /\ EndedStay
  /\ Undisturbed

LEMMA InitIInv == Init => IInv
  <1> SUFFICES ASSUME Init PROVE IInv
    OBVIOUS
  <1>1. call = [c \in Calls |-> Idle] /\ refreshing = [t \in Tabs |-> NoCall]
    BY DEF Init
  <1>2. Typed
    <2>1. call \in Callers /\ refreshing \in Leaders
      BY <1>1, IdleTyped DEF Callers, Leaders
    <2>2. \/ live = {} /\ family = <<>> /\ jar = NoJti
          \/ live = {1} /\ family = <<1>> /\ jar = 1
      BY DEF Init
    <2>3. family \in Seq(Nat) /\ live \subseteq DOMAIN family /\ jar \in AnyJti
      <3>1. CASE family = <<>> /\ live = {} /\ jar = NoJti
        BY <3>1 DEF AnyJti
      <3>2. CASE family = <<1>> /\ live = {1} /\ jar = 1
        <4>1. family \in Seq(Nat) /\ DOMAIN family = {1}
          BY <3>2
        <4> QED BY <3>2, <4>1 DEF AnyJti
      <3> QED BY <2>2, <3>1, <3>2
    <2>4. \A j \in DOMAIN family : family[j] \in 1..j
      BY <2>2
    <2>5. /\ active \in BOOLEAN /\ access \in BOOLEAN /\ ttl \in BOOLEAN /\ stuck \in BOOLEAN
          /\ fault \in BOOLEAN /\ ended \subseteq DOMAIN family
      BY DEF Init
    <2>6. hits \in Nat /\ events \in 0..MaxEvents
      BY SessionAssumption DEF Init
    <2> QED BY <2>1, <2>3, <2>4, <2>5, <2>6 DEF Typed
  <1>3. Shaped
    BY <1>1 DEF Shaped, Carries, Idle, AtServer
  <1>4. Led
    BY <1>1 DEF Led, Idle
  <1>5. Rotating = {} /\ ended = {}
    BY <1>1 DEF Init, Rotating, Idle
  <1>6. \A i, j \in live : i = j
    BY DEF Init
  <1>7. OneHolder /\ LogoutEnds /\ EndedStay
    BY <1>5, <1>6 DEF OneHolder, HeldOnce, LogoutEnds, EndedStay
  <1>8. Undisturbed
    <2>1. Undelivered
      BY <1>1 DEF Undelivered, Idle
    <2> QED BY <2>1 DEF Undisturbed, CookieIsAlive, Init, NoJti
  <1> QED BY <1>2, <1>3, <1>4, <1>7, <1>8 DEF IInv

LEMMA NextIInv == IInv /\ [Next]_vars => IInv'
  BY TypeStep, ShapeStep, HolderStep, UndisturbedStep DEF IInv

LEMMA Invariance == Spec => []IInv
  BY InitIInv, NextIInv, PTL DEF Spec

LEMMA AtMostOne ==
  ASSUME NEW S, \A x, y \in S : x = y
  PROVE  (Cardinality(S) = 0 /\ S = {}) \/ Cardinality(S) = 1
  <1>1. S = {} \/ \E x \in S : S = {x}
    OBVIOUS
  <1> QED BY <1>1, FS_EmptySet, FS_Singleton

LEMMA HolderCounts == OneHolder => OneSessionPerLogin
  <1> SUFFICES ASSUME OneHolder, NEW k \in DOMAIN family
               PROVE  Cardinality({j \in live : family[j] = k})
                        + Cardinality({c \in Rotating : family[call[c].jti] = k}) <= 1
    BY DEF OneSessionPerLogin
  <1> DEFINE S == {j \in live : family[j] = k}
             R == {c \in Rotating : family[call[c].jti] = k}
  <1>1. /\ \A x, y \in S : x = y
        /\ \A x, y \in R : x = y
        /\ S = {} \/ R = {}
    BY DEF OneHolder, HeldOnce
  <1>2. (Cardinality(S) = 0 /\ S = {}) \/ Cardinality(S) = 1
    BY <1>1, AtMostOne
  <1>3. (Cardinality(R) = 0 /\ R = {}) \/ Cardinality(R) = 1
    BY <1>1, AtMostOne
  <1>4. Cardinality({}) = 0
    BY FS_EmptySet
  <1> QED BY <1>1, <1>2, <1>3, <1>4

\* Tabs, callers and sign-ins in any number: the types hold, and a login has
\* one session or one refresh that holds the right to the next.
THEOREM OneSession == Spec => []SessionsFit
  <1>1. IInv => SessionsFit
    BY TypedIsTypeOK, HolderCounts DEF IInv, SessionsFit
  <1> QED BY <1>1, Invariance, PTL

\* A login that a logout ended never has a session again, through no refresh
\* that was under way.
THEOREM LogoutIsFinal == Spec => []LogoutEnds
  <1>1. IInv => LogoutEnds
    BY DEF IInv
  <1> QED BY <1>1, Invariance, PTL

\* Without faults the cookie of the browser is the key of a live session, or
\* the reply is on its way that replaces it, unless a logout ended its login.
THEOREM CookieLives == Spec => []CookieIsAlive
  <1>1. IInv => CookieIsAlive
    BY DEF IInv, Undisturbed, CookieIsAlive
  <1> QED BY <1>1, Invariance, PTL
==============================================================================
