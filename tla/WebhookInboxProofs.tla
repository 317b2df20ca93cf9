------------------------- MODULE WebhookInboxProofs -------------------------
(***************************************************************************)
(* Proofs about WebhookInbox, for any number of webhooks, requests,        *)
(* workers, retries, deliveries and faults.                                *)
(*                                                                         *)
(* SingleClaimant and StatusIsHonest are not inductive: the honesty of a   *)
(* final status depends on what the claiming execution is about to write,  *)
(* and at-most-once storage on nothing having been stored before a claim.  *)
(* IInv adds those facts.                                                  *)
(***************************************************************************)
EXTENDS WebhookInbox, TLAPS

\* A busy request and a busy worker have a webhook in hand, and a worker
\* about to write a status has a verdict.
BusyHasEvent ==
  /\ \A q \in Requests : req[q].pc # "idle" => req[q].ev \in Webhooks
  /\ \A k \in Workers : exec[k].pc # "idle" => exec[k].ev \in Webhooks
  /\ \A k \in Workers : exec[k].pc = "finish" => exec[k].out # "none"

\* Nothing is stored for an event that was never claimed.
UnclaimedUnapplied ==
  \A w \in Webhooks : row[w] \in {"absent", "received"} => applied[w] = 0

\* An error summary comes only with a final status.
UnfinishedUnnoted ==
  \A w \in Webhooks : row[w] \notin Terminal => w \notin errorNoted

\* What the execution that holds the claim has stored so far, and the verdict
\* it is about to write.
HonestHolder(k, w) ==
  /\ exec[k].pc # "finish" => applied[w] = 0
  /\ exec[k].pc = "finish" /\ exec[k].out = "processed" => applied[w] = 1
  /\ exec[k].pc = "finish" /\ exec[k].out # "processed" => applied[w] = 0

HolderIsHonest ==
  \A k \in Workers, w \in Webhooks : Holds(k, w) => HonestHolder(k, w)

IInv ==
  /\ TypeOK
  /\ BusyHasEvent
  /\ SingleClaimant
  /\ UnclaimedUnapplied
  /\ UnfinishedUnnoted
  /\ HolderIsHonest
  /\ AppliedAtMostOnce
  /\ StatusIsHonest

\* Counters stay in range.
LEMMA CountUp ==
  ASSUME NEW S, NEW f \in [S -> Nat], NEW x \in S
  PROVE  [f EXCEPT ![x] = @ + 1] \in [S -> Nat]
  OBVIOUS

LEMMA CountUpTo ==
  ASSUME NEW S, NEW m \in Nat, NEW f \in [S -> 0..m], NEW x \in S, f[x] < m
  PROVE  [f EXCEPT ![x] = @ + 1] \in [S -> 0..m]
  OBVIOUS

USE WebhookAssumption

LEMMA InitIInv == Init => IInv
  BY DEF Init, IInv, TypeOK, BusyHasEvent, SingleClaimant, UnclaimedUnapplied,
     UnfinishedUnnoted, HolderIsHonest, HonestHolder, AppliedAtMostOnce,
     StatusIsHonest, Holds,
     IdleRequest, IdleWorker, Claimed, Statuses, Terminal

\* The two ways an execution changes within its claim keep its type.
ExecType == [Workers -> [pc : {"idle", "start"} \cup Claimed,
                         ev : Webhooks \cup {NoEvent},
                         out : Verdicts \cup {"none"}]]

LEMMA MoveTyped ==
  ASSUME exec \in ExecType, NEW k \in Workers, NEW pc \in Claimed,
         exec' = [exec EXCEPT ![k].pc = pc]
  PROVE  exec' \in ExecType
  BY DEF ExecType

LEMMA DecideTyped ==
  ASSUME exec \in ExecType, NEW k \in Workers,
         NEW verdict \in Verdicts, Decide(k, verdict)
  PROVE  exec' \in ExecType
  BY DEF ExecType, Decide, Claimed

\* Every action keeps the types.
LEMMA TypeStep == TypeOK /\ BusyHasEvent /\ [Next]_vars => TypeOK'
  <1> SUFFICES ASSUME TypeOK, BusyHasEvent, [Next]_vars PROVE TypeOK'
    OBVIOUS
  <1> USE DEF TypeOK, IdleRequest, IdleWorker, Claimed, Statuses, Terminal,
              redisVars, intakeVars, workVars
  <1>1. ASSUME NEW q \in Requests, RequestStep(q) PROVE TypeOK'
    <2>1. CASE RecordEvent(q)
      <3>1. req[q].ev \in Webhooks
        BY <2>1 DEF RecordEvent, BusyHasEvent
      <3>2. req' = [req EXCEPT ![q].pc = "recorded"] \/ req' = [req EXCEPT ![q] = IdleRequest]
        BY <2>1 DEF RecordEvent
      <3>3. req' \in [Requests -> [pc : {"idle", "verified", "recorded", "payload", "meta"},
                                   ev : Webhooks \cup {NoEvent}]]
        BY <3>2
      <3>4. row' \in [Webhooks -> Statuses \cup {"absent"}] /\ acked' \subseteq Webhooks
        BY <2>1, <3>1 DEF RecordEvent
      <3> QED BY <2>1, <3>3, <3>4 DEF RecordEvent
    <2>2. CASE StorePayload(q) BY <2>2 DEF StorePayload, BusyHasEvent
    <2>3. CASE StoreMeta(q) BY <2>3 DEF StoreMeta, BusyHasEvent
    <2>4. CASE EnqueueAndAck(q) BY <2>4 DEF EnqueueAndAck, BusyHasEvent
    <2> QED
      BY <1>1, <2>1, <2>2, <2>3, <2>4 DEF RequestStep
  <1>2. ASSUME NEW q \in Requests, RequestCrash(q) PROVE TypeOK'
    BY <1>2 DEF RequestCrash
  <1>3. ASSUME NEW q \in Requests, NEW w \in Webhooks, Deliver(q, w) PROVE TypeOK'
    BY <1>3 DEF Deliver
  <1>4. ASSUME NEW k \in Workers, WorkerStep(k) PROVE TypeOK'
    <2>0. exec \in ExecType
      BY DEF ExecType
    <2>1. CASE ClaimEvent(k)
      <3>1. exec' = [exec EXCEPT ![k].pc = "claimed"] \/ exec' = [exec EXCEPT ![k] = IdleWorker]
        BY <2>1 DEF ClaimEvent
      <3>2. exec' \in ExecType
        BY <2>0, <3>1, MoveTyped DEF ExecType
      <3> QED BY <2>1, <3>2 DEF ClaimEvent, BusyHasEvent, ExecType
    <2>2. CASE TakeMeta(k) BY <2>2 DEF TakeMeta
    <2>3. CASE TakePayload(k)
      <3>1. exec' = [exec EXCEPT ![k].pc = "lookup"] \/ Decide(k, "failed")
        BY <2>3 DEF TakePayload
      <3>2. exec' \in ExecType
        BY <2>0, <3>1, MoveTyped, DecideTyped DEF Verdicts
      <3> QED BY <2>3, <3>2 DEF TakePayload, ExecType
    <2>4. CASE LookupConnection(k)
      <3>1. exec' = [exec EXCEPT ![k].pc = "resolve"] \/ Decide(k, "unconnected")
        BY <2>4 DEF LookupConnection
      <3>2. exec' \in ExecType
        BY <2>0, <3>1, MoveTyped, DecideTyped DEF Verdicts
      <3> QED BY <2>4, <3>2 DEF LookupConnection, ExecType
    <2>5. CASE ResolveEvent(k)
      <3>1. \/ exec' = [exec EXCEPT ![k].pc = "persist"]
            \/ Decide(k, "ignored") \/ Decide(k, "retry")
        BY <2>5 DEF ResolveEvent
      <3>2. exec' \in ExecType
        BY <2>0, <3>1, MoveTyped, DecideTyped DEF Verdicts
      <3> QED BY <2>5, <3>2 DEF ResolveEvent, ExecType
    <2>6. CASE ResolveRejected(k) BY <2>6 DEF ResolveRejected
    <2>7. CASE PersistRecord(k)
      <3>1. PICK w \in Webhooks : w = exec[k].ev
        BY <2>7 DEF PersistRecord, BusyHasEvent
      <3>2. [applied EXCEPT ![w] = @ + 1] \in [Webhooks -> Nat]
        BY CountUp
      <3>3. applied' \in [Webhooks -> Nat]
        BY <2>7, <3>1, <3>2 DEF PersistRecord
      <3>4. exec' \in ExecType
        BY <2>0, <2>7, DecideTyped DEF PersistRecord, Verdicts
      <3> QED BY <2>7, <3>3, <3>4 DEF PersistRecord, ExecType
    <2>8. CASE FinishEvent(k)
      <3>1. /\ exec[k].ev \in Webhooks
            /\ StatusOf(exec[k].out) \in Terminal
        BY <2>8 DEF FinishEvent, BusyHasEvent, StatusOf
      <3> QED BY <2>8, <3>1 DEF FinishEvent
    <2> QED
      BY <1>4, <2>1, <2>2, <2>3, <2>4, <2>5, <2>6, <2>7, <2>8 DEF WorkerStep
  <1>5. ASSUME NEW k \in Workers, WorkerCrash(k) PROVE TypeOK'
    <2>1. exec[k].ev \in Webhooks
      BY <1>5 DEF WorkerCrash, BusyHasEvent
    <2>2. faults' \in 0..MaxFaults
      BY <1>5 DEF WorkerCrash
    <2>3. job' \in [Webhooks -> {"none", "queued", "running", "finished"}]
      BY <1>5, <2>1 DEF WorkerCrash
    <2> QED BY <1>5, <2>2, <2>3 DEF WorkerCrash
  <1>6. ASSUME NEW k \in Workers, NEW w \in Webhooks, StartJob(k, w) PROVE TypeOK'
    <2>1. tries' \in [Webhooks -> 0..MaxTries]
      <3>1. tries[w] < MaxTries /\ tries' = [tries EXCEPT ![w] = @ + 1]
        BY <1>6 DEF StartJob
      <3>2. MaxTries \in Nat /\ tries \in [Webhooks -> 0..MaxTries]
        BY DEF WebhookAssumption
      <3> QED BY ONLY <3>1, <3>2, CountUpTo, w \in Webhooks
    <2> QED BY <1>6, <2>1 DEF StartJob
  <1>7. ASSUME NEW w \in Webhooks, JobExhausted(w) \/ LeaseExpires(w) \/ KeyExpires(w)
        PROVE TypeOK'
    BY <1>7 DEF JobExhausted, LeaseExpires, KeyExpires
  <1>8. ASSUME NEW b \in Businesses, Connect(b) \/ Disconnect(b) PROVE TypeOK'
    BY <1>8 DEF Connect, Disconnect
  <1>9. CASE RotateSecret
    BY <1>9 DEF RotateSecret
  <1>10. CASE UNCHANGED vars
    BY <1>10 DEF vars
  <1> QED
    BY <1>1, <1>2, <1>3, <1>4, <1>5, <1>6, <1>7, <1>8, <1>9, <1>10 DEF Next

\* The same two ways leave the executions busy with a webhook.
LEMMA DecideBusy ==
  ASSUME TypeOK, BusyHasEvent, NEW k \in Workers, exec[k].ev \in Webhooks,
         NEW verdict, verdict # "none", Decide(k, verdict)
  PROVE  \A j \in Workers : /\ exec'[j].pc # "idle" => exec'[j].ev \in Webhooks
                            /\ exec'[j].pc = "finish" => exec'[j].out # "none"
  <1>1. exec' = [exec EXCEPT ![k] = [pc |-> "finish", ev |-> exec[k].ev, out |-> verdict]]
    BY DEF Decide
  <1>2. /\ exec'[k] = [pc |-> "finish", ev |-> exec[k].ev, out |-> verdict]
        /\ \A j \in Workers : j # k => exec'[j] = exec[j]
    BY <1>1 DEF TypeOK
  <1> QED BY <1>2 DEF BusyHasEvent

LEMMA MoveBusy ==
  ASSUME TypeOK, BusyHasEvent, NEW k \in Workers, exec[k].ev \in Webhooks,
         NEW pc, pc # "finish", exec' = [exec EXCEPT ![k].pc = pc]
  PROVE  \A j \in Workers : /\ exec'[j].pc # "idle" => exec'[j].ev \in Webhooks
                            /\ exec'[j].pc = "finish" => exec'[j].out # "none"
  <1>1. /\ exec'[k] = [exec[k] EXCEPT !.pc = pc]
        /\ \A j \in Workers : j # k => exec'[j] = exec[j]
    BY DEF TypeOK
  <1>2. exec'[k].ev = exec[k].ev /\ exec'[k].pc = pc
    BY <1>1 DEF TypeOK
  <1> QED BY <1>1, <1>2 DEF BusyHasEvent

\* Every action leaves busy actors with a webhook in hand.
LEMMA BusyStep == TypeOK /\ BusyHasEvent /\ [Next]_vars => BusyHasEvent'
  <1> SUFFICES ASSUME TypeOK, BusyHasEvent, [Next]_vars PROVE BusyHasEvent'
    OBVIOUS
  <1> USE DEF TypeOK, BusyHasEvent, IdleRequest, IdleWorker, redisVars,
              intakeVars, workVars
  <1>1. ASSUME NEW q \in Requests, RequestStep(q) PROVE BusyHasEvent'
    BY <1>1 DEF RequestStep, RecordEvent, StorePayload, StoreMeta, EnqueueAndAck
  <1>2. ASSUME NEW q \in Requests, RequestCrash(q) PROVE BusyHasEvent'
    BY <1>2 DEF RequestCrash
  <1>3. ASSUME NEW q \in Requests, NEW w \in Webhooks, Deliver(q, w)
        PROVE BusyHasEvent'
    BY <1>3 DEF Deliver
  <1>4. ASSUME NEW k \in Workers, WorkerStep(k) PROVE BusyHasEvent'
    <2>1. CASE ClaimEvent(k)
      <3>1. exec' = [exec EXCEPT ![k].pc = "claimed"] \/ exec' = [exec EXCEPT ![k] = IdleWorker]
        BY <2>1 DEF ClaimEvent
      <3>2. exec[k].ev \in Webhooks
        BY <2>1 DEF ClaimEvent
      <3>3. \A j \in Workers : /\ exec'[j].pc # "idle" => exec'[j].ev \in Webhooks
                               /\ exec'[j].pc = "finish" => exec'[j].out # "none"
        <4>1. CASE exec' = [exec EXCEPT ![k].pc = "claimed"]
          BY <3>2, <4>1
        <4>2. CASE exec' = [exec EXCEPT ![k] = IdleWorker]
          BY <4>2
        <4> QED BY <3>1, <4>1, <4>2
      <3> QED BY <2>1, <3>3 DEF ClaimEvent
    <2>2. CASE TakeMeta(k) BY <2>2 DEF TakeMeta
    <2>3. CASE TakePayload(k)
      <3>1. exec' = [exec EXCEPT ![k].pc = "lookup"] \/ Decide(k, "failed")
        BY <2>3 DEF TakePayload
      <3>2. exec[k].ev \in Webhooks /\ exec[k].pc # "idle" /\ exec[k].pc # "finish"
        BY <2>3 DEF TakePayload
      <3>3. \A j \in Workers : /\ exec'[j].pc # "idle" => exec'[j].ev \in Webhooks
                               /\ exec'[j].pc = "finish" => exec'[j].out # "none"
        BY <3>1, <3>2, DecideBusy, MoveBusy
      <3> QED BY <2>3, <3>3 DEF TakePayload
    <2>4. CASE LookupConnection(k)
      <3>1. exec' = [exec EXCEPT ![k].pc = "resolve"] \/ Decide(k, "unconnected")
        BY <2>4 DEF LookupConnection
      <3>2. exec[k].ev \in Webhooks
        BY <2>4 DEF LookupConnection
      <3>3. \A j \in Workers : /\ exec'[j].pc # "idle" => exec'[j].ev \in Webhooks
                               /\ exec'[j].pc = "finish" => exec'[j].out # "none"
        BY <3>1, <3>2, DecideBusy, MoveBusy
      <3> QED BY <2>4, <3>3 DEF LookupConnection
    <2>5. CASE ResolveEvent(k)
      <3>1. \/ exec' = [exec EXCEPT ![k].pc = "persist"]
            \/ Decide(k, "ignored") \/ Decide(k, "retry")
        BY <2>5 DEF ResolveEvent
      <3>2. exec[k].ev \in Webhooks
        BY <2>5 DEF ResolveEvent
      <3>3. \A j \in Workers : /\ exec'[j].pc # "idle" => exec'[j].ev \in Webhooks
                               /\ exec'[j].pc = "finish" => exec'[j].out # "none"
        BY <3>1, <3>2, DecideBusy, MoveBusy
      <3> QED BY <2>5, <3>3 DEF ResolveEvent
    <2>6. CASE ResolveRejected(k) BY <2>6 DEF ResolveRejected
    <2>7. CASE PersistRecord(k)
      <3>1. Decide(k, "processed") \/ Decide(k, "unstored")
        BY <2>7 DEF PersistRecord
      <3>2. exec[k].ev \in Webhooks
        BY <2>7 DEF PersistRecord
      <3>3. \A j \in Workers : /\ exec'[j].pc # "idle" => exec'[j].ev \in Webhooks
                               /\ exec'[j].pc = "finish" => exec'[j].out # "none"
        BY <3>1, <3>2, DecideBusy
      <3> QED BY <2>7, <3>3 DEF PersistRecord
    <2>8. CASE FinishEvent(k) BY <2>8 DEF FinishEvent
    <2> QED
      BY <1>4, <2>1, <2>2, <2>3, <2>4, <2>5, <2>6, <2>7, <2>8 DEF WorkerStep
  <1>5. ASSUME NEW k \in Workers, WorkerCrash(k) PROVE BusyHasEvent'
    BY <1>5 DEF WorkerCrash
  <1>6. ASSUME NEW k \in Workers, NEW w \in Webhooks, StartJob(k, w)
        PROVE BusyHasEvent'
    BY <1>6 DEF StartJob
  <1>7. ASSUME NEW w \in Webhooks, JobExhausted(w) \/ LeaseExpires(w) \/ KeyExpires(w)
        PROVE BusyHasEvent'
    BY <1>7 DEF JobExhausted, LeaseExpires, KeyExpires
  <1>8. ASSUME NEW b \in Businesses, Connect(b) \/ Disconnect(b) PROVE BusyHasEvent'
    BY <1>8 DEF Connect, Disconnect
  <1>9. CASE RotateSecret
    BY <1>9 DEF RotateSecret
  <1>10. CASE UNCHANGED vars
    BY <1>10 DEF vars
  <1> QED
    BY <1>1, <1>2, <1>3, <1>4, <1>5, <1>6, <1>7, <1>8, <1>9, <1>10 DEF Next

\* What the claim protects: the rows, the executions and what they stored.
ClaimInv ==
  /\ SingleClaimant
  /\ UnclaimedUnapplied
  /\ UnfinishedUnnoted
  /\ HolderIsHonest
  /\ AppliedAtMostOnce
  /\ StatusIsHonest

claimVars == <<row, exec, applied, errorNoted>>

LEMMA QuietStep == ClaimInv /\ UNCHANGED claimVars => ClaimInv'
  BY DEF ClaimInv, claimVars, SingleClaimant, UnclaimedUnapplied,
     UnfinishedUnnoted, HolderIsHonest, HonestHolder, AppliedAtMostOnce, StatusIsHonest, Holds

\* An execution that only moves on, or stops, within its claim.
LEMMA MoveStep ==
  ASSUME TypeOK, ClaimInv, UNCHANGED <<row, applied, errorNoted>>,
         NEW k \in Workers,
         \A j \in Workers : j # k => exec'[j] = exec[j],
         \/ exec'[k].pc \notin Claimed
         \/ /\ exec[k].pc \in Claimed \ {"finish"}
            /\ exec'[k].ev = exec[k].ev
            /\ exec'[k].pc \in Claimed
            /\ exec'[k].pc = "finish" => exec'[k].out # "processed"
  PROVE  ClaimInv'
  <1>1. SingleClaimant' /\ UnclaimedUnapplied' /\ HolderIsHonest'
    BY DEF TypeOK, ClaimInv, SingleClaimant, UnclaimedUnapplied, HolderIsHonest,
       HonestHolder, Holds
  <1>2. UnfinishedUnnoted' /\ AppliedAtMostOnce' /\ StatusIsHonest'
    BY DEF ClaimInv, UnfinishedUnnoted, AppliedAtMostOnce, StatusIsHonest
  <1> QED BY <1>1, <1>2 DEF ClaimInv

\* The steps that write the row or store the record.
LEMMA RecordStep ==
  ASSUME TypeOK, ClaimInv, BusyHasEvent, NEW q \in Requests, RecordEvent(q)
  PROVE  ClaimInv'
  <1>1. PICK w \in Webhooks : w = req[q].ev
    BY DEF RecordEvent, BusyHasEvent
  <1>2. CASE row[w] # "absent"
    <2> QED BY <1>1, <1>2, QuietStep DEF RecordEvent, claimVars, workVars
  <1>3. CASE row[w] = "absent"
    <2>1. row' = [row EXCEPT ![w] = "received"] /\ UNCHANGED <<exec, applied, errorNoted>>
      BY <1>1, <1>3 DEF RecordEvent, workVars
    <2>2. UnfinishedUnnoted'
      BY <1>3, <2>1 DEF TypeOK, ClaimInv, UnfinishedUnnoted, Terminal
    <2>3. SingleClaimant' /\ UnclaimedUnapplied' /\ HolderIsHonest'
      BY <1>3, <2>1 DEF TypeOK, ClaimInv, SingleClaimant, UnclaimedUnapplied,
         HolderIsHonest, HonestHolder, Holds
    <2>4. AppliedAtMostOnce' /\ StatusIsHonest'
      BY <1>3, <2>1 DEF TypeOK, ClaimInv, AppliedAtMostOnce, StatusIsHonest
    <2> QED BY <2>2, <2>3, <2>4 DEF ClaimInv
  <1> QED BY <1>2, <1>3

LEMMA ClaimStep ==
  ASSUME TypeOK, ClaimInv, BusyHasEvent, NEW k \in Workers, ClaimEvent(k)
  PROVE  ClaimInv'
  <1>1. PICK w \in Webhooks : w = exec[k].ev
    BY DEF ClaimEvent, BusyHasEvent
  <1>2. CASE row[w] # "received"
    <2>1. exec' = [exec EXCEPT ![k] = IdleWorker] /\ UNCHANGED <<row, applied, errorNoted>>
      BY <1>1, <1>2 DEF ClaimEvent
    <2>2. exec'[k].pc = "idle" /\ \A j \in Workers : j # k => exec'[j] = exec[j]
      BY <2>1 DEF TypeOK, IdleWorker
    <2> QED BY <2>1, <2>2, MoveStep DEF Claimed
  <1>3. CASE row[w] = "received"
    <2>1. /\ row' = [row EXCEPT ![w] = "processing"]
          /\ UNCHANGED <<applied, errorNoted>>
          /\ exec' = [exec EXCEPT ![k].pc = "claimed"]
      BY <1>1, <1>3 DEF ClaimEvent
    <2>2. /\ \A j \in Workers : ~Holds(j, w)
          /\ applied[w] = 0
      BY <1>3 DEF ClaimInv, SingleClaimant, UnclaimedUnapplied
    <2>3. \A j \in Workers, v \in Webhooks :
            Holds(j, v)' <=> Holds(j, v) \/ (j = k /\ v = w)
      <3>1. exec[k].pc = "start"
        BY DEF ClaimEvent
      <3> QED BY <1>1, <2>1, <3>1 DEF Holds, TypeOK, Claimed
    <2>4. \A j \in Workers : j # k => exec'[j] = exec[j]
      BY <2>1 DEF TypeOK
    <2>5. exec'[k].pc = "claimed" /\ exec'[k].ev = w
      BY <1>1, <2>1 DEF TypeOK
    <2>6. SingleClaimant'
      BY <1>3, <2>1, <2>2, <2>3 DEF ClaimInv, SingleClaimant, TypeOK
    <2>7. HolderIsHonest'
      <3> SUFFICES ASSUME NEW j \in Workers, NEW v \in Webhooks, Holds(j, v)'
                   PROVE  HonestHolder(j, v)'
        BY DEF HolderIsHonest
      <3>1. CASE j = k
        BY <2>1, <2>2, <2>5, <3>1 DEF Holds, HonestHolder
      <3>2. CASE j # k
        BY <2>1, <2>3, <2>4, <3>2 DEF ClaimInv, HolderIsHonest, HonestHolder
      <3> QED BY <3>1, <3>2
    <2>8. UnclaimedUnapplied' /\ AppliedAtMostOnce' /\ StatusIsHonest'
      BY <1>3, <2>1 DEF ClaimInv, UnclaimedUnapplied, AppliedAtMostOnce,
         StatusIsHonest, TypeOK
    <2>9. UnfinishedUnnoted'
      BY <1>3, <2>1 DEF ClaimInv, UnfinishedUnnoted, TypeOK, Terminal
    <2> QED BY <2>6, <2>7, <2>8, <2>9 DEF ClaimInv
  <1> QED BY <1>2, <1>3
LEMMA PersistStep ==
  ASSUME TypeOK, ClaimInv, BusyHasEvent, NEW k \in Workers, PersistRecord(k)
  PROVE  ClaimInv'
  <1>1. PICK w \in Webhooks : w = exec[k].ev
    BY DEF PersistRecord, BusyHasEvent
  <1>2. Holds(k, w) /\ exec[k].pc = "persist"
    BY <1>1 DEF PersistRecord, Holds, Claimed
  <1>3. /\ UNCHANGED <<row, errorNoted>>
        /\ \/ applied' = [applied EXCEPT ![w] = @ + 1] /\ Decide(k, "processed")
           \/ UNCHANGED applied /\ Decide(k, "unstored")
    BY <1>1 DEF PersistRecord
  <1>4. /\ row[w] = "processing" /\ applied[w] = 0
        /\ \A j \in Workers : Holds(j, w) => j = k
    BY <1>2 DEF ClaimInv, SingleClaimant, HolderIsHonest, HonestHolder
  <1>5. /\ exec'[k].pc = "finish" /\ exec'[k].ev = w
        /\ exec'[k].out = IF applied'[w] = 1 THEN "processed" ELSE "unstored"
        /\ applied'[w] \in {0, 1}
        /\ \A j \in Workers : j # k => exec'[j] = exec[j]
    BY <1>1, <1>3, <1>4 DEF TypeOK, Decide
  <1>6. \A j \in Workers, v \in Webhooks : Holds(j, v)' <=> Holds(j, v)
    BY <1>1, <1>2, <1>5 DEF Holds, Claimed
  <1>7. \A v \in Webhooks : v # w => applied'[v] = applied[v]
    BY <1>3 DEF TypeOK
  <1>8. SingleClaimant' /\ UnclaimedUnapplied' /\ UnfinishedUnnoted'
    BY <1>3, <1>4, <1>6, <1>7 DEF ClaimInv, SingleClaimant, UnclaimedUnapplied,
       UnfinishedUnnoted, Terminal
  <1>9. HolderIsHonest'
    <2> SUFFICES ASSUME NEW j \in Workers, NEW v \in Webhooks, Holds(j, v)'
                 PROVE  HonestHolder(j, v)'
      BY DEF HolderIsHonest
    <2>1. CASE j = k
      BY <1>5, <1>7, <2>1 DEF Holds, HonestHolder
    <2>2. CASE j # k
      <3>1. Holds(j, v) /\ v # w
        BY <1>4, <1>6, <2>2
      <3> QED
        BY <1>5, <1>7, <2>2, <3>1 DEF ClaimInv, HolderIsHonest, HonestHolder
    <2> QED BY <2>1, <2>2
  <1>10. AppliedAtMostOnce' /\ StatusIsHonest'
    BY <1>3, <1>4, <1>5, <1>7 DEF ClaimInv, AppliedAtMostOnce, StatusIsHonest
  <1> QED BY <1>8, <1>9, <1>10 DEF ClaimInv

LEMMA FinishStep ==
  ASSUME TypeOK, ClaimInv, BusyHasEvent, NEW k \in Workers, FinishEvent(k)
  PROVE  ClaimInv'
  <1>1. PICK w \in Webhooks : w = exec[k].ev
    BY DEF FinishEvent, BusyHasEvent
  <1>2. /\ Holds(k, w) /\ exec[k].pc = "finish"
        /\ exec[k].out \in Verdicts
    BY <1>1 DEF FinishEvent, Holds, Claimed, BusyHasEvent, TypeOK
  <1>3. /\ row[w] = "processing" /\ HonestHolder(k, w)
        /\ \A j \in Workers : Holds(j, w) => j = k
    BY <1>2 DEF ClaimInv, SingleClaimant, HolderIsHonest
  <1>4. /\ UNCHANGED applied
        /\ exec' = [exec EXCEPT ![k] = IdleWorker]
        /\ row' = [row EXCEPT ![w] = StatusOf(exec[k].out)]
        /\ errorNoted' = IF exec[k].out \in Explained THEN errorNoted \cup {w}
                                                      ELSE errorNoted \ {w}
    BY <1>1 DEF FinishEvent
  <1>5. /\ exec'[k].pc = "idle"
        /\ \A j \in Workers : j # k => exec'[j] = exec[j]
    BY <1>4 DEF TypeOK, IdleWorker
  <1>6. \A j \in Workers, v \in Webhooks : Holds(j, v)' => Holds(j, v) /\ j # k /\ v # w
    BY <1>3, <1>5 DEF Holds, Claimed
  <1>7. /\ \A v \in Webhooks : v # w => row'[v] = row[v]
                                     /\ (v \in errorNoted' <=> v \in errorNoted)
        /\ row'[w] \in Terminal
        /\ row'[w] \in {"failed", "ignored"} => applied[w] = 0
        /\ row'[w] = "processed" => (applied[w] = 1 <=> w \notin errorNoted')
    BY <1>2, <1>3, <1>4
    DEF TypeOK, HonestHolder, Terminal, StatusOf, Explained, Verdicts
  <1>8. SingleClaimant' /\ UnclaimedUnapplied' /\ UnfinishedUnnoted'
    BY <1>4, <1>6, <1>7 DEF ClaimInv, SingleClaimant, UnclaimedUnapplied,
       UnfinishedUnnoted, Terminal
  <1>9. HolderIsHonest'
    BY <1>4, <1>5, <1>6, <1>7 DEF ClaimInv, HolderIsHonest, HonestHolder
  <1>10. AppliedAtMostOnce' /\ StatusIsHonest'
    BY <1>4, <1>7 DEF ClaimInv, AppliedAtMostOnce, StatusIsHonest
  <1> QED BY <1>8, <1>9, <1>10 DEF ClaimInv
\* Moving on within the claim, dropping it, and starting an execution.
LEMMA ExecutionStep ==
  ASSUME TypeOK, ClaimInv, NEW k \in Workers,
         \/ TakeMeta(k) \/ TakePayload(k) \/ LookupConnection(k)
         \/ ResolveEvent(k) \/ ResolveRejected(k) \/ WorkerCrash(k)
         \/ \E w \in Webhooks : StartJob(k, w)
  PROVE  ClaimInv'
  <1> USE DEF Decide, IdleWorker, Claimed
  <1>1. UNCHANGED <<row, applied, errorNoted>>
    BY DEF TakeMeta, TakePayload, LookupConnection, ResolveEvent, ResolveRejected,
       WorkerCrash, StartJob
  <1>2. \A j \in Workers : j # k => exec'[j] = exec[j]
    BY DEF TakeMeta, TakePayload, LookupConnection, ResolveEvent, ResolveRejected,
       WorkerCrash, StartJob, TypeOK
  <1>3. \/ exec'[k].pc \notin Claimed
        \/ /\ exec[k].pc \in Claimed \ {"finish"}
           /\ exec'[k].ev = exec[k].ev
           /\ exec'[k].pc \in Claimed
           /\ exec'[k].pc = "finish" => exec'[k].out # "processed"
    <2>1. CASE TakeMeta(k) BY <2>1 DEF TakeMeta, TypeOK
    <2>2. CASE TakePayload(k)
      <3>1. exec' = [exec EXCEPT ![k].pc = "lookup"] \/ Decide(k, "failed")
        BY <2>2 DEF TakePayload
      <3> QED BY <2>2, <3>1 DEF TakePayload, TypeOK
    <2>3. CASE LookupConnection(k)
      <3>1. exec' = [exec EXCEPT ![k].pc = "resolve"] \/ Decide(k, "unconnected")
        BY <2>3 DEF LookupConnection
      <3> QED BY <2>3, <3>1 DEF LookupConnection, TypeOK
    <2>4. CASE ResolveEvent(k) BY <2>4 DEF ResolveEvent, TypeOK
    <2>5. CASE ResolveRejected(k) BY <2>5 DEF ResolveRejected, TypeOK
    <2>6. CASE WorkerCrash(k) BY <2>6 DEF WorkerCrash, TypeOK
    <2>7. CASE \E w \in Webhooks : StartJob(k, w) BY <2>7 DEF StartJob, TypeOK
    <2> QED BY <2>1, <2>2, <2>3, <2>4, <2>5, <2>6, <2>7
  <1> HIDE DEF Decide, IdleWorker, Claimed
  <1> QED BY <1>1, <1>2, <1>3, MoveStep

LEMMA ClaimInvStep == TypeOK /\ BusyHasEvent /\ ClaimInv /\ [Next]_vars => ClaimInv'
  <1> SUFFICES ASSUME TypeOK, BusyHasEvent, ClaimInv, [Next]_vars PROVE ClaimInv'
    OBVIOUS
  <1>1. ASSUME NEW q \in Requests, RequestStep(q) PROVE ClaimInv'
    <2>1. CASE RecordEvent(q) BY <2>1, RecordStep
    <2>2. CASE StorePayload(q) \/ StoreMeta(q) \/ EnqueueAndAck(q)
      BY <2>2, QuietStep DEF StorePayload, StoreMeta, EnqueueAndAck, claimVars, workVars
    <2> QED BY <1>1, <2>1, <2>2 DEF RequestStep
  <1>2. ASSUME NEW k \in Workers, WorkerStep(k) PROVE ClaimInv'
    BY <1>2, ClaimStep, ExecutionStep, PersistStep, FinishStep DEF WorkerStep
  <1>3. ASSUME NEW k \in Workers, WorkerCrash(k) PROVE ClaimInv'
    BY <1>3, ExecutionStep
  <1>4. ASSUME NEW k \in Workers, NEW w \in Webhooks, StartJob(k, w) PROVE ClaimInv'
    BY <1>4, ExecutionStep
  <1>5. ASSUME NEW q \in Requests, NEW w \in Webhooks, Deliver(q, w) PROVE ClaimInv'
    BY <1>5, QuietStep DEF Deliver, claimVars, workVars
  <1>6. ASSUME NEW q \in Requests, RequestCrash(q) PROVE ClaimInv'
    BY <1>6, QuietStep DEF RequestCrash, claimVars, workVars
  <1>7. ASSUME NEW w \in Webhooks, JobExhausted(w) \/ LeaseExpires(w) \/ KeyExpires(w)
        PROVE  ClaimInv'
    BY <1>7, QuietStep DEF JobExhausted, LeaseExpires, KeyExpires, claimVars, workVars
  <1>8. ASSUME NEW b \in Businesses, Connect(b) \/ Disconnect(b) PROVE ClaimInv'
    BY <1>8, QuietStep DEF Connect, Disconnect, claimVars, workVars
  <1>9. CASE RotateSecret \/ UNCHANGED vars
    BY <1>9, QuietStep DEF RotateSecret, vars, claimVars, workVars
  <1> QED
    BY <1>1, <1>2, <1>3, <1>4, <1>5, <1>6, <1>7, <1>8, <1>9 DEF Next

-----------------------------------------------------------------------------
(* The theorems.                                                           *)

\* The inductive invariant holds in every reachable state.
THEOREM Invariance == Spec => []IInv
  <1>1. IInv /\ [Next]_vars => IInv'
    BY TypeStep, BusyStep, ClaimInvStep DEF IInv, ClaimInv
  <1> QED BY <1>1, InitIInv, PTL DEF Spec

\* Every variable keeps its type, whatever the handlers and the environment do.
THEOREM TypeCorrect == Spec => []TypeOK
  <1>1. IInv => TypeOK BY DEF IInv
  <1> QED BY <1>1, Invariance, PTL

\* The UPDATE that claims a row is exclusive however often arq starts the job.
THEOREM ClaimIsExclusive == Spec => []SingleClaimant
  <1>1. IInv => SingleClaimant BY DEF IInv
  <1> QED BY <1>1, Invariance, PTL

\* No delivery, retry or crash stores the record of one webhook twice.
THEOREM StoredAtMostOnce == Spec => []AppliedAtMostOnce
  <1>1. IInv => AppliedAtMostOnce BY DEF IInv
  <1> QED BY <1>1, Invariance, PTL

\* The final status of an event tells whether its record was stored.
THEOREM StatusIsTrue == Spec => []StatusIsHonest
  <1>1. IInv => StatusIsHonest BY DEF IInv
  <1> QED BY <1>1, Invariance, PTL

\* A row changes only by an insert, by a claim, or by the execution that holds
\* the claim, and none of these finds it in a final status.
LEMMA FinalStep ==
  ASSUME IInv, [Next]_vars, NEW w \in Webhooks, row[w] \in Terminal
  PROVE  row'[w] = row[w]
  <1> USE DEF IInv, Terminal
  <1>1. ASSUME NEW q \in Requests, RequestStep(q) PROVE row'[w] = row[w]
    <2>1. CASE RecordEvent(q)
      BY <2>1 DEF RecordEvent, TypeOK
    <2>2. CASE StorePayload(q) \/ StoreMeta(q) \/ EnqueueAndAck(q)
      BY <2>2 DEF StorePayload, StoreMeta, EnqueueAndAck
    <2> QED BY <1>1, <2>1, <2>2 DEF RequestStep
  <1>2. ASSUME NEW k \in Workers, WorkerStep(k) PROVE row'[w] = row[w]
    <2>1. CASE ClaimEvent(k)
      BY <2>1 DEF ClaimEvent, TypeOK
    <2>2. CASE FinishEvent(k)
      <3>1. PICK v \in Webhooks : v = exec[k].ev
        BY <2>2 DEF FinishEvent, BusyHasEvent
      <3>2. Holds(k, v)
        BY <2>2, <3>1 DEF FinishEvent, Holds, Claimed
      <3>3. row[v] = "processing"
        BY <3>2 DEF SingleClaimant
      <3> QED BY <2>2, <3>1, <3>3 DEF FinishEvent, TypeOK
    <2>3. CASE TakeMeta(k) \/ TakePayload(k) \/ LookupConnection(k) \/ ResolveEvent(k)
               \/ ResolveRejected(k) \/ PersistRecord(k)
      BY <2>3 DEF TakeMeta, TakePayload, LookupConnection, ResolveEvent,
         ResolveRejected, PersistRecord
    <2> QED BY <1>2, <2>1, <2>2, <2>3 DEF WorkerStep
  <1>3. CASE \/ \E q \in Requests : RequestCrash(q)
             \/ \E q \in Requests, v \in Webhooks : Deliver(q, v)
             \/ \E k \in Workers : WorkerCrash(k)
             \/ \E k \in Workers, v \in Webhooks : StartJob(k, v)
             \/ \E v \in Webhooks : JobExhausted(v) \/ LeaseExpires(v) \/ KeyExpires(v)
             \/ \E b \in Businesses : Connect(b) \/ Disconnect(b)
             \/ RotateSecret \/ UNCHANGED vars
    BY <1>3 DEF RequestCrash, Deliver, WorkerCrash, StartJob, JobExhausted,
       LeaseExpires, KeyExpires, Connect, Disconnect, RotateSecret, vars
  <1> QED BY <1>1, <1>2, <1>3 DEF Next

\* No retry, duplicate or second execution reopens or rewrites a final status.
THEOREM FinalStatusIsFinal == Spec => TerminalIsFinal
  <1>1. IInv /\ [Next]_vars
          => [\A w \in Webhooks : row[w] \in Terminal => row'[w] = row[w]]_vars
    BY FinalStep
  <1> QED BY <1>1, Invariance, PTL DEF Spec, TerminalIsFinal

\* What the executions that hold a claim may write fits the abstract log.
LEMMA ExecutionRefines ==
  ASSUME IInv, NEW k \in Workers, WorkerStep(k)
  PROVE  [Log!Next]_(Log!vars)
  <1> USE DEF Log!Next, Log!vars
  <1>1. CASE ClaimEvent(k)
    <2>1. exec[k].ev \in Webhooks
      BY <1>1 DEF ClaimEvent, IInv, BusyHasEvent
    <2>2. CASE row[exec[k].ev] = "received"
      <3>1. Log!TakeUp(exec[k].ev)
        BY <1>1, <2>2 DEF ClaimEvent, Log!TakeUp, Log!Becomes
      <3> QED BY <2>1, <3>1
    <2>3. CASE row[exec[k].ev] # "received"
      BY <1>1, <2>3 DEF ClaimEvent
    <2> QED BY <2>2, <2>3
  <1>2. CASE PersistRecord(k)
    <2>1. exec[k].ev \in Webhooks
      BY <1>2 DEF PersistRecord, IInv, BusyHasEvent
    <2>2. Holds(k, exec[k].ev)
      BY <1>2 DEF PersistRecord, Holds, Claimed
    <2>3. row[exec[k].ev] = "processing" /\ applied[exec[k].ev] = 0
      BY <1>2, <2>1, <2>2
      DEF PersistRecord, IInv, SingleClaimant, HolderIsHonest, HonestHolder
    <2>4. applied \in [Webhooks -> Nat]
      BY DEF IInv, TypeOK
    <2>5. CASE UNCHANGED applied
      BY <1>2, <2>5 DEF PersistRecord
    <2>6. CASE applied' = [applied EXCEPT ![exec[k].ev] = @ + 1]
      <3>1. Log!Store(exec[k].ev)
        BY <1>2, <2>1, <2>3, <2>4, <2>6 DEF PersistRecord, Log!Store
      <3> QED BY <2>1, <3>1
    <2> QED BY <1>2, <2>5, <2>6 DEF PersistRecord
  <1>3. CASE FinishEvent(k)
    <2> DEFINE w == exec[k].ev
               out == exec[k].out
    <2>1. w \in Webhooks /\ out \in Verdicts
      BY <1>3 DEF FinishEvent, IInv, BusyHasEvent, TypeOK
    <2>2. Holds(k, w) /\ exec[k].pc = "finish"
      BY <1>3 DEF FinishEvent, Holds, Claimed
    <2>3. /\ row[w] = "processing" /\ w \notin errorNoted
          /\ applied[w] = IF out = "processed" THEN 1 ELSE 0
      BY <2>1, <2>2 DEF IInv, SingleClaimant, HolderIsHonest, HonestHolder,
         UnfinishedUnnoted, Terminal
    <2>4. /\ row' = [row EXCEPT ![w] = StatusOf(out)]
          /\ errorNoted' = IF out \in Explained THEN errorNoted \cup {w} ELSE errorNoted
          /\ UNCHANGED applied
      BY <1>3, <2>3 DEF FinishEvent
    <2> HIDE DEF w, out
    <2>5. CASE out \in {"failed", "retry"}
      <3>1. Log!Fail(w)
        BY <2>3, <2>4, <2>5 DEF StatusOf, Explained, Log!Fail, Log!Becomes, Log!Explain
      <3> QED BY <2>1, <3>1
    <2>6. CASE out \in {"ignored", "unconnected"}
      <3>1. Log!Ignore(w)
        BY <2>3, <2>4, <2>6 DEF StatusOf, Explained, Log!Ignore, Log!Becomes, Log!Explain
      <3> QED BY <2>1, <3>1
    <2>7. CASE out \in {"processed", "unstored"}
      <3>1. Log!Process(w)
        BY <2>3, <2>4, <2>7 DEF StatusOf, Explained, Log!Process, Log!Becomes, Log!Explain
      <3> QED BY <2>1, <3>1
    <2> QED BY <2>1, <2>5, <2>6, <2>7 DEF Verdicts
  <1>4. CASE TakeMeta(k) \/ TakePayload(k) \/ LookupConnection(k) \/ ResolveEvent(k)
             \/ ResolveRejected(k)
    BY <1>4 DEF TakeMeta, TakePayload, LookupConnection, ResolveEvent, ResolveRejected
  <1> QED BY <1>1, <1>2, <1>3, <1>4 DEF WorkerStep

\* Every other step records an event or leaves the log alone.
LEMMA RefineStep == IInv /\ [Next]_vars => [Log!Next]_(Log!vars)
  <1> SUFFICES ASSUME IInv, [Next]_vars PROVE [Log!Next]_(Log!vars)
    OBVIOUS
  <1>1. ASSUME NEW q \in Requests, RequestStep(q) PROVE [Log!Next]_(Log!vars)
    <2>1. CASE RecordEvent(q)
      <3>1. req[q].ev \in Webhooks
        BY <2>1 DEF RecordEvent, IInv, BusyHasEvent
      <3>2. CASE row[req[q].ev] = "absent"
        <4>1. Log!Record(req[q].ev)
          BY <2>1, <3>2 DEF RecordEvent, Log!Record, Log!Becomes
        <4> QED BY <3>1, <4>1 DEF Log!Next
      <3>3. CASE row[req[q].ev] # "absent"
        BY <2>1, <3>3 DEF RecordEvent, Log!vars
      <3> QED BY <3>2, <3>3
    <2>2. CASE StorePayload(q) \/ StoreMeta(q) \/ EnqueueAndAck(q)
      BY <2>2 DEF StorePayload, StoreMeta, EnqueueAndAck, Log!vars
    <2> QED BY <1>1, <2>1, <2>2 DEF RequestStep
  <1>2. ASSUME NEW k \in Workers, WorkerStep(k) PROVE [Log!Next]_(Log!vars)
    BY <1>2, ExecutionRefines
  <1>3. CASE \/ \E q \in Requests : RequestCrash(q)
             \/ \E q \in Requests, v \in Webhooks : Deliver(q, v)
             \/ \E k \in Workers : WorkerCrash(k)
             \/ \E k \in Workers, v \in Webhooks : StartJob(k, v)
             \/ \E v \in Webhooks : JobExhausted(v) \/ LeaseExpires(v) \/ KeyExpires(v)
             \/ \E b \in Businesses : Connect(b) \/ Disconnect(b)
             \/ RotateSecret \/ UNCHANGED vars
    BY <1>3 DEF RequestCrash, Deliver, WorkerCrash, StartJob, JobExhausted,
       LeaseExpires, KeyExpires, Connect, Disconnect, RotateSecret, vars, Log!vars
  <1> QED BY <1>1, <1>2, <1>3 DEF Next

\* The intake and the jobs implement the abstract log of events.
THEOREM InboxImplementsLog == Spec => ImplementsEventLog
  <1>1. Init => Log!Init
    BY DEF Init, Log!Init
  <1> QED BY <1>1, RefineStep, Invariance, PTL DEF Spec, ImplementsEventLog, Log!Spec

=============================================================================
