---------------------------- MODULE WebhookInbox ----------------------------
(***************************************************************************)
(* Intake and processing of Shopify webhooks.                              *)
(*                                                                         *)
(* A delivery is handled by an API request (verify, insert the row, write  *)
(* the payload and the metadata to Redis, enqueue a job, acknowledge).  A  *)
(* worker runs the job: it claims the row, takes the two Redis values,     *)
(* looks the connection up, resolves the payload into one canonical        *)
(* record, stores it and writes the final status.  Every await of those    *)
(* two handlers is a step of its own, so that deliveries, executions,      *)
(* disconnects, key expiry and crashes interleave between them.            *)
(*                                                                         *)
(* Shopify (delivery is at least once) and arq (a job runs at least once,  *)
(* at most MaxTries times) are the environment.                            *)
(***************************************************************************)
EXTENDS Naturals, FiniteSets

CONSTANTS
  Webhooks,      \* provider event ids (x-shopify-webhook-id)
  Requests,      \* API requests in flight at the same time
  Workers,       \* job executions in flight at the same time
  Businesses,    \* businesses the shop may be connected to
  NoEvent,       \* an idle request or worker
  MaxTries,      \* arq max_tries of the job
  MaxDeliveries, \* bound: deliveries of one webhook
  MaxFaults,     \* bound: crashes and unexpected exceptions
  MaxRotations   \* bound: rotations of the client secret

ASSUME WebhookAssumption ==
  /\ NoEvent \notin Webhooks
  /\ MaxTries \in Nat \ {0}
  /\ MaxDeliveries \in Nat /\ MaxFaults \in Nat /\ MaxRotations \in Nat

VARIABLES
  row,        \* webhook_events.status, or "absent"
  errorNoted, \* webhooks whose webhook_events.error_summary is not NULL
  payloadKey, \* webhooks whose webhook:payload:{id} key is alive in Redis
  metaKey,    \* webhooks whose webhook:meta:{id} key is alive in Redis
  signedWith, \* the secret in force when the webhook was signed
  secret,     \* the client secret in force
  req,        \* the API requests
  job,        \* the arq job of the webhook
  tries,      \* times arq started that job
  exec,       \* the job executions
  connected,  \* businesses whose connection to the shop is `connected`
  applied,    \* times the webhook's record was stored
  deliveries, \* deliveries so far
  acked,      \* webhooks Shopify received a 2xx for
  faults      \* crashes and unexpected exceptions so far

vars == <<row, errorNoted, payloadKey, metaKey, signedWith, secret, req, job,
          tries, exec, connected, applied, deliveries, acked, faults>>

redisVars  == <<payloadKey, metaKey>>
intakeVars == <<req, deliveries, acked, signedWith>>
workVars   == <<job, tries, exec>>

Terminal == {"processed", "failed", "ignored"}
Statuses == {"received", "processing"} \cup Terminal

\* What an execution has to write when it is done.  `unstored` is an event
\* whose record could not be stored, `unconnected` one of a shop no business
\* is connected to, `retry` one whose body the provider's adapter rejected.
Verdicts == {"processed", "unstored", "ignored", "unconnected", "failed", "retry"}

IdleRequest == [pc |-> "idle", ev |-> NoEvent]
IdleWorker  == [pc |-> "idle", ev |-> NoEvent, out |-> "none"]

\* Program points of a worker that holds the claim on its event.
Claimed == {"claimed", "meta", "nometa", "lookup", "resolve", "persist", "finish"}

TypeOK ==
  /\ row \in [Webhooks -> Statuses \cup {"absent"}]
  /\ errorNoted \subseteq Webhooks
  /\ payloadKey \subseteq Webhooks /\ metaKey \subseteq Webhooks
  /\ signedWith \in [Webhooks -> 0..MaxRotations]
  /\ secret \in 0..MaxRotations
  /\ req \in [Requests -> [pc : {"idle", "verified", "recorded", "payload", "meta"},
                           ev : Webhooks \cup {NoEvent}]]
  /\ job \in [Webhooks -> {"none", "queued", "running", "finished"}]
  /\ tries \in [Webhooks -> 0..MaxTries]
  /\ exec \in [Workers -> [pc : {"idle", "start"} \cup Claimed,
                           ev : Webhooks \cup {NoEvent},
                           out : Verdicts \cup {"none"}]]
  /\ connected \subseteq Businesses
  /\ applied \in [Webhooks -> Nat]
  /\ deliveries \in [Webhooks -> 0..MaxDeliveries]
  /\ acked \subseteq Webhooks
  /\ faults \in 0..MaxFaults

Init ==
  /\ row = [w \in Webhooks |-> "absent"]
  /\ errorNoted = {}
  /\ payloadKey = {} /\ metaKey = {}
  /\ signedWith = [w \in Webhooks |-> 0]
  /\ secret = 0
  /\ req = [q \in Requests |-> IdleRequest]
  /\ job = [w \in Webhooks |-> "none"]
  /\ tries = [w \in Webhooks |-> 0]
  /\ exec = [k \in Workers |-> IdleWorker]
  /\ connected \in SUBSET Businesses
  /\ applied = [w \in Webhooks |-> 0]
  /\ deliveries = [w \in Webhooks |-> 0]
  /\ acked = {}
  /\ faults = 0

-----------------------------------------------------------------------------
(* The intake endpoint.                                                    *)

\* Shopify signs and delivers the event; the HMAC is checked on the raw body.
Deliver(q, w) ==
  /\ req[q].pc = "idle"
  /\ deliveries[w] < MaxDeliveries
  /\ deliveries' = [deliveries EXCEPT ![w] = @ + 1]
  /\ signedWith' = [signedWith EXCEPT ![w] = secret]
  /\ req' = [req EXCEPT ![q] = [pc |-> "verified", ev |-> w]]
  /\ UNCHANGED <<row, errorNoted, redisVars, secret, workVars, connected,
                 applied, acked, faults>>

\* Mutant: no unique index on the provider event id, so a second delivery
\* records the event again.
RecordEventTwice(q) ==
  LET w == req[q].ev IN
  /\ req[q].pc = "verified"
  /\ row' = [row EXCEPT ![w] = "received"]
  /\ req' = [req EXCEPT ![q].pc = "recorded"]
  /\ UNCHANGED <<errorNoted, redisVars, signedWith, secret, workVars, connected,
                 applied, deliveries, acked, faults>>

\* record_webhook_event: insert and commit.  A row with the same provider
\* event id exists: nothing is written and the delivery is acknowledged.
RecordEvent(q) ==
  LET w == req[q].ev IN
  /\ req[q].pc = "verified"
  /\ IF row[w] = "absent"
       THEN /\ row' = [row EXCEPT ![w] = "received"]
            /\ req' = [req EXCEPT ![q].pc = "recorded"]
            /\ UNCHANGED acked
       ELSE /\ req' = [req EXCEPT ![q] = IdleRequest]
            /\ acked' = acked \cup {w}
            /\ UNCHANGED row
  /\ UNCHANGED <<errorNoted, redisVars, signedWith, secret, workVars, connected,
                 applied, deliveries, faults>>

StorePayload(q) ==
  /\ req[q].pc = "recorded"
  /\ payloadKey' = payloadKey \cup {req[q].ev}
  /\ req' = [req EXCEPT ![q].pc = "payload"]
  /\ UNCHANGED <<row, errorNoted, metaKey, signedWith, secret, workVars,
                 connected, applied, deliveries, acked, faults>>

StoreMeta(q) ==
  /\ req[q].pc = "payload"
  /\ metaKey' = metaKey \cup {req[q].ev}
  /\ req' = [req EXCEPT ![q].pc = "meta"]
  /\ UNCHANGED <<row, errorNoted, payloadKey, signedWith, secret, workVars,
                 connected, applied, deliveries, acked, faults>>

EnqueueAndAck(q) ==
  LET w == req[q].ev IN
  /\ req[q].pc = "meta"
  /\ job' = [job EXCEPT ![w] = "queued"]
  /\ acked' = acked \cup {w}
  /\ req' = [req EXCEPT ![q] = IdleRequest]
  /\ UNCHANGED <<row, errorNoted, redisVars, signedWith, secret, tries, exec,
                 connected, applied, deliveries, faults>>

-----------------------------------------------------------------------------
(* The job.  arq starts a queued job; when its in-progress lease runs out  *)
(* it queues the job again although the first execution may still be       *)
(* running; it gives a job up after MaxTries starts.                       *)

StartJob(k, w) ==
  /\ exec[k].pc = "idle"
  /\ job[w] = "queued" /\ tries[w] < MaxTries
  /\ job' = [job EXCEPT ![w] = "running"]
  /\ tries' = [tries EXCEPT ![w] = @ + 1]
  /\ exec' = [exec EXCEPT ![k] = [pc |-> "start", ev |-> w, out |-> "none"]]
  /\ UNCHANGED <<row, errorNoted, redisVars, intakeVars, secret, connected,
                 applied, faults>>

JobExhausted(w) ==
  /\ job[w] = "queued" /\ tries[w] = MaxTries
  /\ job' = [job EXCEPT ![w] = "finished"]
  /\ UNCHANGED <<row, errorNoted, redisVars, intakeVars, secret, tries, exec,
                 connected, applied, faults>>

LeaseExpires(w) ==
  /\ job[w] = "running"
  /\ job' = [job EXCEPT ![w] = "queued"]
  /\ UNCHANGED <<row, errorNoted, redisVars, intakeVars, secret, tries, exec,
                 connected, applied, faults>>

\* Mutants: the claim does not look at the status; the claim of a retry takes
\* a `failed` row too.
ClaimIf(k, open) ==
  LET w == exec[k].ev IN
  /\ exec[k].pc = "start"
  /\ IF row[w] \in open
       THEN /\ row' = [row EXCEPT ![w] = "processing"]
            /\ exec' = [exec EXCEPT ![k].pc = "claimed"]
            /\ UNCHANGED job
       ELSE /\ exec' = [exec EXCEPT ![k] = IdleWorker]
            /\ job' = [job EXCEPT ![w] = "finished"]
            /\ UNCHANGED row
  /\ UNCHANGED <<errorNoted, redisVars, intakeVars, secret, tries, connected,
                 applied, faults>>
ClaimUnguarded(k) == ClaimIf(k, {"received", "processing"})
ClaimFailedAgain(k) == ClaimIf(k, {"received", "failed"})

\* UPDATE ... WHERE status = 'received': exactly the row's first execution
\* goes on, every other one returns.
ClaimEvent(k) ==
  LET w == exec[k].ev IN
  /\ exec[k].pc = "start"
  /\ IF row[w] = "received"
       THEN /\ row' = [row EXCEPT ![w] = "processing"]
            /\ exec' = [exec EXCEPT ![k].pc = "claimed"]
            /\ UNCHANGED job
       ELSE /\ exec' = [exec EXCEPT ![k] = IdleWorker]
            /\ job' = [job EXCEPT ![w] = "finished"]
            /\ UNCHANGED row
  /\ UNCHANGED <<errorNoted, redisVars, intakeVars, secret, tries, connected,
                 applied, faults>>

\* The execution has its verdict; what is left is to write it.
Decide(k, verdict) ==
  exec' = [exec EXCEPT ![k] = [pc |-> "finish", ev |-> exec[k].ev, out |-> verdict]]

\* GETDEL webhook:meta:{id}
TakeMeta(k) ==
  LET w == exec[k].ev IN
  /\ exec[k].pc = "claimed"
  /\ metaKey' = metaKey \ {w}
  /\ exec' = [exec EXCEPT ![k].pc = IF w \in metaKey THEN "meta" ELSE "nometa"]
  /\ UNCHANGED <<row, errorNoted, payloadKey, intakeVars, secret, job, tries,
                 connected, applied, faults>>

\* Mutant: an expired payload ends the job without a status.
TakePayloadSilently(k) ==
  LET w == exec[k].ev IN
  /\ exec[k].pc \in {"meta", "nometa"}
  /\ payloadKey' = payloadKey \ {w}
  /\ exec' = [exec EXCEPT ![k] = IF w \in payloadKey /\ exec[k].pc = "meta"
                                   THEN [exec[k] EXCEPT !.pc = "lookup"] ELSE IdleWorker]
  /\ UNCHANGED <<row, errorNoted, metaKey, intakeVars, secret, job, tries,
                 connected, applied, faults>>

\* GETDEL webhook:payload:{id}; either value gone means the event failed.
TakePayload(k) ==
  LET w == exec[k].ev IN
  /\ exec[k].pc \in {"meta", "nometa"}
  /\ payloadKey' = payloadKey \ {w}
  /\ IF w \in payloadKey /\ exec[k].pc = "meta"
       THEN exec' = [exec EXCEPT ![k].pc = "lookup"]
       ELSE Decide(k, "failed")
  /\ UNCHANGED <<row, errorNoted, metaKey, intakeVars, secret, job, tries,
                 connected, applied, faults>>

\* The connection of the shop, in any business, with status `connected`.
LookupConnection(k) ==
  /\ exec[k].pc = "lookup"
  /\ IF connected # {}
       THEN exec' = [exec EXCEPT ![k].pc = "resolve"]
       ELSE Decide(k, "unconnected")
  /\ UNCHANGED <<row, errorNoted, redisVars, intakeVars, secret, job, tries,
                 connected, applied, faults>>

\* resolve_webhook with a signature of the secret in force: a topic outside
\* SUPPORTED_WEBHOOK_TOPICS is dropped, a body that does not map raises
\* ProviderDataError, any other body gives one record.
ResolveEvent(k) ==
  /\ exec[k].pc = "resolve"
  /\ signedWith[exec[k].ev] = secret
  /\ \/ Decide(k, "ignored")
     \/ Decide(k, "retry")
     \/ exec' = [exec EXCEPT ![k].pc = "persist"]
  /\ UNCHANGED <<row, errorNoted, redisVars, intakeVars, secret, job, tries,
                 connected, applied, faults>>

\* The signature no longer verifies: WebhookVerificationError is not a
\* ProviderError, so no status is written and the job ends.
ResolveRejected(k) ==
  /\ exec[k].pc = "resolve"
  /\ signedWith[exec[k].ev] # secret
  /\ job' = [job EXCEPT ![exec[k].ev] = "finished"]
  /\ exec' = [exec EXCEPT ![k] = IdleWorker]
  /\ UNCHANGED <<row, errorNoted, redisVars, intakeVars, secret, tries,
                 connected, applied, faults>>

\* Mutant: a record that cannot be stored is not counted.
PersistSilently(k) ==
  LET w == exec[k].ev IN
  /\ exec[k].pc = "persist"
  /\ Decide(k, "processed")
  /\ applied' = [applied EXCEPT ![w] = @ + 1] \/ UNCHANGED applied
  /\ UNCHANGED <<row, errorNoted, redisVars, intakeVars, secret, job, tries,
                 connected, faults>>

\* One commit per record.  A record that cannot be stored is rolled back and
\* counted, and the event still ends `processed`.
PersistRecord(k) ==
  LET w == exec[k].ev IN
  /\ exec[k].pc = "persist"
  /\ \/ applied' = [applied EXCEPT ![w] = @ + 1] /\ Decide(k, "processed")
     \/ Decide(k, "unstored") /\ UNCHANGED applied
  /\ UNCHANGED <<row, errorNoted, redisVars, intakeVars, secret, job, tries,
                 connected, faults>>

\* The status and the error summary a verdict stands for.  An unsupported
\* topic is ignored without a summary, a shop without a connection with one.
StatusOf(verdict) ==
  CASE verdict \in {"failed", "retry"} -> "failed"
    [] verdict \in {"processed", "unstored"} -> "processed"
    [] OTHER -> "ignored"

Explained == {"failed", "retry", "unstored", "unconnected"}

\* Mutant: the outcome is written as it is, `retry` too.
FinishUnmapped(k) ==
  LET w == exec[k].ev IN
  /\ exec[k].pc = "finish"
  /\ row' = [row EXCEPT ![w] = exec[k].out]
  /\ job' = [job EXCEPT ![w] = "finished"]
  /\ exec' = [exec EXCEPT ![k] = IdleWorker]
  /\ UNCHANGED <<errorNoted, redisVars, intakeVars, secret, tries, connected,
                 applied, faults>>

\* Mutant: the summary is written with `failed` only.
FinishUnnoted(k) ==
  LET w == exec[k].ev
      out == exec[k].out IN
  /\ exec[k].pc = "finish"
  /\ row' = [row EXCEPT ![w] = StatusOf(out)]
  /\ errorNoted' = IF out \in {"failed", "retry"} THEN errorNoted \cup {w} ELSE errorNoted
  /\ job' = [job EXCEPT ![w] = IF out = "retry" THEN "queued" ELSE "finished"]
  /\ exec' = [exec EXCEPT ![k] = IdleWorker]
  /\ UNCHANGED <<redisVars, intakeVars, secret, tries, connected, applied, faults>>

\* _finish_webhook: the status and the error summary in one commit, the only
\* place that writes the summary.  After a ProviderError the worker asks arq
\* for a retry although the row is already `failed`.
FinishEvent(k) ==
  LET w == exec[k].ev
      out == exec[k].out IN
  /\ exec[k].pc = "finish"
  /\ row' = [row EXCEPT ![w] = StatusOf(out)]
  /\ errorNoted' = IF out \in Explained THEN errorNoted \cup {w} ELSE errorNoted \ {w}
  /\ job' = [job EXCEPT ![w] = IF out = "retry" THEN "queued" ELSE "finished"]
  /\ exec' = [exec EXCEPT ![k] = IdleWorker]
  /\ UNCHANGED <<redisVars, intakeVars, secret, tries, connected, applied, faults>>

-----------------------------------------------------------------------------
(* The environment.                                                        *)

Connect(b) ==
  /\ b \notin connected
  /\ connected' = connected \cup {b}
  /\ UNCHANGED <<row, errorNoted, redisVars, intakeVars, secret, workVars,
                 applied, faults>>

Disconnect(b) ==
  /\ b \in connected
  /\ connected' = connected \ {b}
  /\ UNCHANGED <<row, errorNoted, redisVars, intakeVars, secret, workVars,
                 applied, faults>>

KeyExpires(w) ==
  /\ \/ w \in payloadKey /\ payloadKey' = payloadKey \ {w} /\ UNCHANGED metaKey
     \/ w \in metaKey /\ metaKey' = metaKey \ {w} /\ UNCHANGED payloadKey
  /\ UNCHANGED <<row, errorNoted, intakeVars, secret, workVars, connected,
                 applied, faults>>

RotateSecret ==
  /\ secret < MaxRotations
  /\ secret' = secret + 1
  /\ UNCHANGED <<row, errorNoted, redisVars, intakeVars, workVars, connected,
                 applied, faults>>

\* The API process dies: the request answers nothing, what it wrote stays.
RequestCrash(q) ==
  /\ req[q].pc # "idle" /\ faults < MaxFaults
  /\ faults' = faults + 1
  /\ req' = [req EXCEPT ![q] = IdleRequest]
  /\ UNCHANGED <<row, errorNoted, redisVars, signedWith, secret, workVars,
                 connected, applied, deliveries, acked>>

\* The worker process dies (arq runs the job again) or the execution ends
\* with an exception nothing handles (the job is over).
WorkerCrash(k) ==
  /\ exec[k].pc # "idle" /\ faults < MaxFaults
  /\ faults' = faults + 1
  /\ \E next \in {"queued", "finished"} : job' = [job EXCEPT ![exec[k].ev] = next]
  /\ exec' = [exec EXCEPT ![k] = IdleWorker]
  /\ UNCHANGED <<row, errorNoted, redisVars, intakeVars, secret, tries,
                 connected, applied>>

RequestStep(q) ==
  RecordEvent(q) \/ StorePayload(q) \/ StoreMeta(q) \/ EnqueueAndAck(q)

WorkerStep(k) ==
  \/ ClaimEvent(k) \/ TakeMeta(k) \/ TakePayload(k) \/ LookupConnection(k)
  \/ ResolveEvent(k) \/ ResolveRejected(k) \/ PersistRecord(k) \/ FinishEvent(k)

Next ==
  \/ \E q \in Requests : RequestStep(q) \/ RequestCrash(q)
  \/ \E q \in Requests, w \in Webhooks : Deliver(q, w)
  \/ \E k \in Workers : WorkerStep(k) \/ WorkerCrash(k)
  \/ \E k \in Workers, w \in Webhooks : StartJob(k, w)
  \/ \E w \in Webhooks : JobExhausted(w) \/ LeaseExpires(w) \/ KeyExpires(w)
  \/ \E b \in Businesses : Connect(b) \/ Disconnect(b)
  \/ RotateSecret

Spec == Init /\ [][Next]_vars

\* The API's event loop and the worker's keep running what they started, and
\* arq starts a job that stays queued while a worker is free.
Fairness ==
  /\ \A q \in Requests : WF_vars(RequestStep(q))
  /\ \A k \in Workers : WF_vars(WorkerStep(k))
  /\ \A w \in Webhooks : WF_vars(JobExhausted(w))
                         /\ SF_vars(\E k \in Workers : StartJob(k, w))

FairSpec == Spec /\ Fairness

-----------------------------------------------------------------------------
(* Properties.                                                             *)

Holds(k, w) == exec[k].pc \in Claimed /\ exec[k].ev = w

\* The claim is exclusive: two executions never work on one event, and an
\* event somebody works on is `processing`, whatever arq starts twice.
SingleClaimant ==
  \A k \in Workers, w \in Webhooks :
    Holds(k, w) => /\ row[w] = "processing"
                   /\ \A j \in Workers : Holds(j, w) => j = k

\* Duplicate deliveries, repeated jobs and crashes never store the record of
\* one webhook twice.
AppliedAtMostOnce == \A w \in Webhooks : applied[w] <= 1

\* The final status tells the truth: the record of a `processed` event is
\* stored if and only if the row carries no error summary, and that of a
\* `failed` or `ignored` one is not.
StatusIsHonest ==
  \A w \in Webhooks :
    /\ row[w] = "processed" => (applied[w] = 1 <=> w \notin errorNoted)
    /\ row[w] \in {"failed", "ignored"} => applied[w] = 0

\* A finished event is never reopened or given another verdict, by a retry
\* after a ProviderError, a duplicate delivery or a second execution.
TerminalIsFinal ==
  [][\A w \in Webhooks : row[w] \in Terminal => row'[w] = row[w]]_vars

\* No recorded event stays `received` or `processing` for ever: every path of
\* the job ends in a final status, unless a process died on the way or the
\* client secret was rotated between intake and processing.
EveryEventResolves ==
  \A w \in Webhooks :
    row[w] = "received" ~> (row[w] \in Terminal \/ faults > 0 \/ secret > 0)

\* Deliveries, jobs, retries, key expiry and crashes behave, seen from the
\* table of events, like the plain log of EventLog: recorded, taken up and
\* resolved once, the record stored only while the event is taken up, and the
\* verdict written together with an error summary that fits what was stored.
Log == INSTANCE EventLog WITH event <- row, stored <- applied, noted <- errorNoted
ImplementsEventLog == Log!Spec
=============================================================================
