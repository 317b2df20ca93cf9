---------------------------- MODULE RefreshSessions ----------------------------
(***************************************************************************)
(* Sign-in sessions of one account in one browser: the web client's calls, *)
(* the authentication endpoints, the refresh sessions in Redis and the     *)
(* rate limiter in front of them.                                          *)
(*                                                                         *)
(* The tabs of a browser share the refresh cookie and the access token in  *)
(* localStorage; within a tab concurrent 401s share one refresh.           *)
(***************************************************************************)
EXTENDS Naturals, Sequences, FiniteSets

CONSTANTS
  Tabs,
  Calls,     \* concurrent callers of apiRequest
  NoCall, NoTab,
  Limit,     \* requests the limiter admits in a window
  MaxEvents  \* bound: calls, sign-ins, sign-outs and faults

ASSUME SessionAssumption ==
  /\ NoCall \notin Calls /\ NoTab \notin Tabs
  /\ Limit \in Nat \ {0} /\ MaxEvents \in Nat

VARIABLES
  live,       \* Redis refresh_token:{jti}
  family,     \* for each jti ever issued, the jti of the login it descends from
  active,     \* users.is_active
  jar,        \* the refresh cookie of the browser, 0 for none
  access,     \* localStorage holds an access token
  call,       \* the callers, each with its request at the server
  refreshing, \* refreshPromise of a tab: the caller whose refresh it is
  hits, ttl,  \* the limiter's counter of the refresh path, and whether it expires
  ended,      \* logins whose session a logout deleted
  stuck,      \* a request died between INCR and EXPIRE
  fault,      \* a reply was lost, a session expired or the account was disabled
  events

vars == <<live, family, active, jar, access, call, refreshing, hits, ttl, ended,
          stuck, fault, events>>

server  == <<live, family, active>>
browser == <<jar, access, refreshing>>
limiter == <<hits, ttl, stuck>>
history == <<ended, fault, events>>

Paths == {"login", "refresh"}
NoJti == 0

Idle == [pc |-> "idle", tab |-> NoTab, kind |-> "none", path |-> "none", jti |-> NoJti,
         retried |-> FALSE]

TypeOK ==
  /\ family \in Seq(Nat) /\ \A j \in DOMAIN family : family[j] \in 1..j
  /\ live \subseteq DOMAIN family /\ active \in BOOLEAN
  /\ jar \in {NoJti} \cup DOMAIN family /\ access \in BOOLEAN
  /\ call \in [Calls ->
       [pc : {"idle", "call", "wait", "incr", "expire", "consume", "load", "store", "ok",
              "failed", "retry", "revoke", "revoked"},
        tab : Tabs \cup {NoTab}, kind : {"none", "data", "login", "logout"},
        path : Paths \cup {"none"}, jti : {NoJti} \cup DOMAIN family, retried : BOOLEAN]]
  /\ refreshing \in [Tabs -> Calls \cup {NoCall}]
  /\ hits \in Nat /\ ttl \in BOOLEAN /\ stuck \in BOOLEAN
  /\ ended \subseteq DOMAIN family
  /\ fault \in BOOLEAN /\ events \in 0..MaxEvents

\* The browser is signed out, or signed in with its first session.
Init ==
  /\ active = TRUE
  /\ \/ live = {} /\ family = <<>> /\ jar = NoJti /\ access = FALSE
     \/ live = {1} /\ family = <<1>> /\ jar = 1 /\ access = TRUE
  /\ call = [c \in Calls |-> Idle] /\ refreshing = [t \in Tabs |-> NoCall]
  /\ hits = 0 /\ ttl = FALSE /\ stuck = FALSE
  /\ ended = {} /\ fault = FALSE /\ events = 0

Event == events < MaxEvents /\ events' = events + 1

Goto(c, pc) == call' = [call EXCEPT ![c].pc = pc]
End(c) == call' = [call EXCEPT ![c] = Idle]

\* The caller's request reaches an endpoint behind the limiter.
Send(c, path, jti) == [call[c] EXCEPT !.pc = "incr", !.path = path, !.jti = jti]

-----------------------------------------------------------------------------
(* The web client.                                                         *)

StartCall(c, t) ==
  /\ call[c].pc = "idle" /\ Event
  /\ call' = [call EXCEPT ![c] = [Idle EXCEPT !.pc = "call", !.tab = t, !.kind = "data"]]
  /\ UNCHANGED <<server, browser, limiter, ended, fault>>

StartLogin(c, t) ==
  /\ call[c].pc = "idle" /\ Event
  /\ call' = [call EXCEPT ![c] = [Send(c, "login", NoJti) EXCEPT !.tab = t, !.kind = "login"]]
  /\ UNCHANGED <<server, browser, limiter, ended, fault>>

\* The logout request carries the cookie of the moment.
StartLogout(c, t) ==
  /\ call[c].pc = "idle" /\ Event
  /\ call' = [call EXCEPT ![c] = [Idle EXCEPT !.pc = "revoke", !.tab = t, !.kind = "logout",
                                             !.jti = jar]]
  /\ UNCHANGED <<server, browser, limiter, ended, fault>>

\* refreshSession after a 401: the first caller of a tab sends the refresh with
\* the cookie of the moment, the others wait for it.
Unauthorized(c) ==
  IF refreshing[call[c].tab] = NoCall
  THEN /\ refreshing' = [refreshing EXCEPT ![call[c].tab] = c]
       /\ call' = [call EXCEPT ![c] = Send(c, "refresh", jar)]
  ELSE Goto(c, "wait") /\ UNCHANGED refreshing

\* A data call: without a token it is a 401, and with one it may be (the token
\* lives for minutes, and a disabled account is refused).
AnswerCall(c) ==
  /\ call[c].pc = "call"
  /\ \/ access /\ active /\ End(c) /\ UNCHANGED refreshing
     \/ Unauthorized(c)
  /\ UNCHANGED <<server, jar, access, limiter, history>>

\* The callers that wait for the refresh of a tab, its leader among them.
Waiting(t) == {c \in Calls : call[c].tab = t /\ (call[c].pc = "wait" \/ refreshing[t] = c)}

\* Mutant: only the leader goes on.
ReleaseLeader(c) ==
  /\ refreshing' = [refreshing EXCEPT ![call[c].tab] = NoCall]
  /\ Goto(c, "retry")

\* The refresh promise settles: every waiting caller retries.
Release(c) ==
  /\ refreshing' = [refreshing EXCEPT ![call[c].tab] = NoCall]
  /\ call' = [x \in Calls |-> IF x \in Waiting(call[c].tab)
                              THEN [call[x] EXCEPT !.pc = "retry", !.path = "none",
                                                   !.jti = NoJti, !.retried = TRUE]
                              ELSE call[x]]

\* Mutant: the reply to a refresh sets no cookie.
ReceiveAccessOnly(c) ==
  /\ call[c].pc = "ok"
  /\ jar' = (IF call[c].path = "refresh" THEN jar ELSE call[c].jti) /\ access' = TRUE
  /\ IF call[c].path = "refresh" THEN Release(c) ELSE End(c) /\ UNCHANGED refreshing
  /\ UNCHANGED <<server, limiter, history>>

\* The reply with a new cookie and access token.
ReceiveTokens(c) ==
  /\ call[c].pc = "ok"
  /\ jar' = call[c].jti /\ access' = TRUE
  /\ IF call[c].path = "refresh" THEN Release(c) ELSE End(c) /\ UNCHANGED refreshing
  /\ UNCHANGED <<server, limiter, history>>

\* Any other reply to a refresh, or none, clears the token for all tabs; the
\* cookie stays.
ReceiveFailure(c) ==
  /\ call[c].pc = "failed"
  /\ IF call[c].path = "refresh"
     THEN access' = FALSE /\ Release(c)
     ELSE End(c) /\ UNCHANGED <<access, refreshing>>
  /\ UNCHANGED <<server, jar, limiter, history>>

\* One retry, whatever the refresh gave: a second login, or the data call,
\* whose answer is final.
Retry(c) ==
  /\ call[c].pc = "retry"
  /\ IF call[c].kind = "login"
     THEN call' = [call EXCEPT ![c] = Send(c, "login", NoJti)]
     ELSE End(c)
  /\ UNCHANGED <<server, browser, limiter, history>>

\* logout drops the access token even when its request failed.  The cookie stays
\* in the browser: logout_endpoint deletes it on the injected response, and
\* returns a Response of its own, without that header.
ReceiveLogout(c) ==
  /\ call[c].pc = "revoked"
  /\ access' = FALSE /\ End(c)
  /\ UNCHANGED <<server, jar, refreshing, limiter, history>>

LogoutFails(c) ==
  /\ call[c].pc \in {"revoke", "revoked"} /\ Event
  /\ access' = FALSE /\ fault' = TRUE /\ End(c)
  /\ UNCHANGED <<server, jar, refreshing, limiter, ended>>

-----------------------------------------------------------------------------
(* The API.                                                                *)

\* rate_limit: the first request of a window has to set its expiry.  Sign-ins
\* have a counter of their own, with a limit that is not part of the model.
Incr(c) ==
  /\ call[c].pc = "incr"
  /\ IF call[c].path = "login"
     THEN UNCHANGED hits /\ (Goto(c, "load") \/ Goto(c, "failed"))
     ELSE /\ hits' = hits + 1
          /\ Goto(c, IF hits = 0 THEN "expire" ELSE IF hits >= Limit THEN "failed" ELSE "consume")
  /\ UNCHANGED <<server, browser, ttl, stuck, history>>

\* Mutant: the expiry is forgotten.
ExpireNever(c) ==
  /\ call[c].pc = "expire"
  /\ Goto(c, "consume")
  /\ UNCHANGED <<server, browser, limiter, history>>

SetExpiry(c) ==
  /\ call[c].pc = "expire"
  /\ ttl' = TRUE
  /\ Goto(c, "consume")
  /\ UNCHANGED <<server, browser, hits, stuck, history>>

\* Mutant: the session is validated and left in place.
ConsumeByGet(c) ==
  /\ call[c].pc = "consume"
  /\ Goto(c, IF call[c].jti \in live THEN "load" ELSE "failed")
  /\ UNCHANGED <<server, browser, limiter, history>>

\* consume_refresh_token: GETDEL.
Consume(c) ==
  /\ call[c].pc = "consume"
  /\ live' = live \ {call[c].jti}
  /\ Goto(c, IF call[c].jti \in live THEN "load" ELSE "failed")
  /\ UNCHANGED <<family, active, browser, limiter, history>>

\* The account, after the session is consumed; for a login also the password.
\* Wrong credentials are a 401 like any other to the web client.
LoadUser(c) ==
  /\ call[c].pc = "load"
  /\ \/ active /\ Goto(c, "store") /\ UNCHANGED refreshing
     \/ call[c].path = "refresh" /\ ~active /\ Goto(c, "failed") /\ UNCHANGED refreshing
     \/ call[c].path = "login" /\ call[c].retried /\ End(c) /\ UNCHANGED refreshing
     \/ call[c].path = "login" /\ ~call[c].retried /\ Unauthorized(c)
  /\ UNCHANGED <<server, jar, access, limiter, history>>

\* issue_tokens and store_refresh_token.
StoreToken(c) ==
  LET new == Len(family) + 1 IN
  /\ call[c].pc = "store"
  /\ live' = live \cup {new}
  /\ family' = Append(family, IF call[c].path = "login" THEN new ELSE family[call[c].jti])
  /\ call' = [call EXCEPT ![c].pc = "ok", ![c].jti = new]
  /\ UNCHANGED <<active, browser, limiter, history>>

\* Mutant: a logout leaves the session in Redis.
RevokeNothing(c) ==
  LET j == call[c].jti IN
  /\ call[c].pc = "revoke"
  /\ ended' = IF j \in live THEN ended \cup {family[j]} ELSE ended
  /\ Goto(c, "revoked")
  /\ UNCHANGED <<server, browser, limiter, fault, events>>

\* revoke_refresh_token: deletes the session if it is still there.
Revoke(c) ==
  LET j == call[c].jti IN
  /\ call[c].pc = "revoke"
  /\ live' = live \ {j}
  /\ ended' = IF j \in live THEN ended \cup {family[j]} ELSE ended
  /\ Goto(c, "revoked")
  /\ UNCHANGED <<family, active, browser, limiter, fault, events>>

-----------------------------------------------------------------------------
(* The environment.                                                        *)

\* The request or its reply is lost, or the process dies.
RequestFails(c) ==
  /\ call[c].pc \in {"incr", "expire", "consume", "load", "store", "ok"} /\ Event
  /\ Goto(c, "failed")
  /\ stuck' = (stuck \/ call[c].pc = "expire")
  /\ fault' = TRUE
  /\ UNCHANGED <<server, browser, hits, ttl, ended>>

WindowEnds ==
  /\ ttl
  /\ hits' = 0 /\ ttl' = FALSE
  /\ UNCHANGED <<server, browser, call, stuck, history>>

SessionExpires(j) ==
  /\ Event
  /\ live' = live \ {j} /\ fault' = TRUE
  /\ UNCHANGED <<family, active, browser, call, limiter, ended>>

\* Nothing in the code disables an account; every sign-in path checks it.
Disable ==
  /\ active /\ Event
  /\ active' = FALSE /\ fault' = TRUE
  /\ UNCHANGED <<live, family, browser, call, limiter, ended>>

\* What goes on by itself once a caller has started.
Proceed(c) ==
  \/ AnswerCall(c) \/ ReceiveTokens(c) \/ ReceiveFailure(c) \/ Retry(c) \/ ReceiveLogout(c)
  \/ Incr(c) \/ SetExpiry(c) \/ Consume(c) \/ LoadUser(c) \/ StoreToken(c) \/ Revoke(c)

Next ==
  \/ \E c \in Calls :
       \/ \E t \in Tabs : StartCall(c, t) \/ StartLogin(c, t) \/ StartLogout(c, t)
       \/ Proceed(c)
       \/ LogoutFails(c) \/ RequestFails(c)
  \/ WindowEnds
  \/ \E j \in live : SessionExpires(j)
  \/ Disable

Spec == Init /\ [][Next]_vars

\* Awaits return, and Redis expires the keys that have a TTL.
FairSpec ==
  /\ Spec
  /\ \A c \in Calls : WF_vars(Proceed(c))
  /\ WF_vars(WindowEnds)

-----------------------------------------------------------------------------
(* Properties.                                                             *)

\* Refreshes that hold the right to the next session of a login.
Rotating == {c \in Calls : call[c].path = "refresh" /\ call[c].pc \in {"load", "store"}}

\* A login has one session, however its token is presented: either one jti
\* lives, or one refresh has consumed the last and not yet stored the next.
OneSessionPerLogin ==
  \A k \in DOMAIN family :
    Cardinality({j \in live : family[j] = k})
      + Cardinality({c \in Rotating : family[call[c].jti] = k}) <= 1

\* A login whose session a logout found and deleted never has one again, not
\* even through a refresh that was under way.
LogoutEnds == \A j \in live : family[j] \notin ended

\* While no reply is lost and nothing expires, the cookie of the browser is the
\* key of a live session, or the reply is on its way that replaces it with its
\* successor, unless a logout ended its login: tabs never rotate one another out
\* of the session.
CookieIsAlive ==
  \/ jar = NoJti \/ fault \/ jar \in live \/ family[jar] \in ended
  \/ \E c \in Calls :
       /\ call[c].path = "refresh" /\ call[c].pc \in {"load", "store", "ok"}
       /\ family[call[c].jti] = family[jar]

\* A window of the limiter ends, unless a request died before it set the expiry.
WindowsEnd == hits > 0 ~> hits = 0 \/ stuck

\* Every caller gets an answer: nobody waits for a refresh that has settled.
CallsAnswer == \A c \in Calls : call[c].pc # "idle" ~> call[c].pc = "idle"

\* Sessions and the refreshes under way fit together.
SessionsFit == TypeOK /\ OneSessionPerLogin

\* Whatever starts settles: windows of the limiter and calls of the client.
AllSettle == WindowsEnd /\ CallsAnswer
===============================================================================
