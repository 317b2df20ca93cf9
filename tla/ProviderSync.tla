---------------------------- MODULE ProviderSync ----------------------------
(***************************************************************************)
(* Synchronisation of one provider connection.                             *)
(*                                                                         *)
(* A job asks for a list of resources.  For each of them in turn, run_sync *)
(* inserts a sync_runs row, reads the cursor of the latest completed run,  *)
(* walks the provider's pages, stores record after record (one commit      *)
(* each) and completes the row with the newest update time it saw, which   *)
(* is where the next run starts.  Every await is a step, so that jobs,     *)
(* provider updates, a disconnect, crashes and timeouts interleave.        *)
(*                                                                         *)
(* Meta jobs go through a Redis lock; a sync requested by a user is always *)
(* the Shopify job, which takes no lock.                                   *)
(*                                                                         *)
(* Most records have an update time.  The daily insights of Meta have a    *)
(* day instead: they are asked for by a window of days that ends today,    *)
(* and the cursor is the last day seen.                                    *)
(***************************************************************************)
EXTENDS Naturals, Sequences, FiniteSets

CONSTANTS
  Records,     \* provider records
  Resources,   \* resource types, in the order the job visits them
  Offered,     \* positions of the resource types each provider has
  Incremental, \* and of those of its incremental sync
  Choices,     \* sets of positions a user asks for explicitly
  ResourceOf,  \* the resource type of each record
  Daily,       \* the resource types whose records are those of a day
  DayOf,       \* the day of each record of theirs
  Lookback,    \* meta_incremental_lookback_days
  InitialDays, \* meta_initial_sync_days, within the API's range
  Workers,     \* job executions in flight at the same time
  Jobs,        \* arq jobs
  Nobody,      \* no worker, no job, no record
  MaxTries,    \* arq max_tries
  LastDay,     \* bound: the last day
  MaxEvents    \* bound: sync requests, disconnects, reconnects, provider updates
               \* and errors, rollbacks, process deaths and timeouts together

ASSUME SyncAssumption ==
  /\ IsFiniteSet(Records) /\ IsFiniteSet(Workers)
  /\ Resources \in Seq(STRING) /\ Resources # << >>
  /\ {Offered, Incremental} \subseteq
       [{"shopify", "meta"} -> (SUBSET (1..Len(Resources))) \ {{}}]
  /\ Choices \subseteq (SUBSET (1..Len(Resources))) \ {{}}
  /\ ResourceOf \in [Records -> {Resources[i] : i \in 1..Len(Resources)}]
  /\ DayOf \in [Records -> Nat] /\ {Lookback, InitialDays, LastDay} \subseteq Nat
  /\ LastDay >= 1
  /\ Nobody \notin Workers \cup Jobs \cup Records /\ "orphan" \notin Workers
  /\ MaxTries \in Nat \ {0} /\ MaxEvents \in Nat

VARIABLES
  provider,   \* "shopify" or "meta"
  status,     \* integration_connections.status
  credential, \* is there an integration_credentials row?
  lastSync,   \* is integration_connections.last_sync_at set?
  clock,      \* the provider's clock
  today,      \* the worker's date
  version,    \* provider update time of each record; 0: it does not exist
  stored,     \* update time of the stored copy; 0: there is none
  rejected,   \* record versions a run skipped as malformed
  runs,       \* sync_runs in the order they started
  job,        \* the arq jobs
  lock,       \* value of meta:sync:lock:{connection}
  exec,       \* the job executions
  races,      \* what has happened that a cursor does not survive
  events      \* what has come from outside so far

vars == <<provider, status, credential, lastSync, clock, today, version,
          stored, rejected, runs, job, lock, exec, races, events>>

connVars == <<provider, status, credential, lastSync>>
feedVars == <<clock, today, version>>
dataVars == <<stored, rejected>>

NoPage == <<Nobody, 0>>
NoJob  == [state |-> "none", kind |-> "manual", tries |-> 0, want |-> {}]
Idle   == [pc |-> "idle", job |-> Nobody, run |-> 0, cursor |-> 0,
           pending |-> {}, paging |-> "first", page |-> NoPage, mark |-> 0,
           asof |-> 0,
           skipped |-> "no", session |-> "fresh", why |-> "none", left |-> {}]

\* Jobs that go through _run_meta_sync, and jobs that ignore the saved cursor.
Locked(j)  == job[j].kind = "metaInitial"
Initial(j) == job[j].kind \in {"initial", "metaInitial"}

Working(k) == exec[k].pc \notin {"idle", "lock", "begin"}
\* The resource in hand: the first of those left.
First(S) == CHOOSE i \in S : \A n \in S : i <= n
Resource(k) == Resources[First(exec[k].left)]
Listing(k) == exec[k].pc \in {"fetch", "persist", "finish"} /\ exec[k].paging # "first"

RunStates == {"running", "success", "partial", "failed"}

\* What a cursor, or a deletion, does not survive: two executions at once, a
\* record that changes behind the page being read, an HTTP error taken for an
\* empty page, another shop on the same row, a disconnect during a run; for the
\* daily ones, a window that the lookback starts after the cursor, and a day
\* that is revised once the cursor has left it.
Races == {"overlap", "changed", "errorPage", "newShop", "disconnect", "gap", "late"}

All == 1..Len(Resources)

Dated(r) == ResourceOf[r] \in Daily
Stamp(r) == IF Dated(r) THEN DayOf[r] ELSE version[r]

\* What the provider has of its resource types when it is first looked at.
Has(r) == \E i \in Offered[provider] : Resources[i] = ResourceOf[r]
Born(r) == Has(r) /\ (Dated(r) => DayOf[r] <= today)

\* The cursor c says that the record has been read, and no run will again: it
\* is no newer, or its day is before the one that the windows overlap in.
Covered(r, c) == IF Dated(r) THEN DayOf[r] + 1 < c ELSE version[r] <= c

TypeOK ==
  /\ provider \in {"shopify", "meta"}
  /\ status \in {"connected", "error", "disconnected"}
  /\ credential \in {"stored", "absent"} /\ lastSync \in {"set", "null"}
  /\ clock \in 0..(MaxEvents + 1) /\ version \in [Records -> 0..(MaxEvents + 1)]
  /\ stored \in [Records -> 0..(MaxEvents + 1)] /\ today \in 1..LastDay
  /\ rejected \subseteq Records \X (0..(MaxEvents + 1))
  /\ runs \in Seq([res : {Resources[i] : i \in 1..Len(Resources)},
                   status : RunStates, cursor : Nat])
  /\ job \in [Jobs -> [state : {"none", "queued", "running", "done"},
                       kind : {"initial", "metaInitial", "manual"},
                       tries : 0..MaxTries, want : SUBSET All]]
  /\ lock \in Workers \cup {Nobody, "orphan"}
  /\ exec \in [Workers -> [pc : {"idle", "lock", "begin", "open", "fetch",
                                 "persist", "finish", "fail", "mark", "complete"},
                 job : Jobs \cup {Nobody}, left : SUBSET All, run : Nat,
                 cursor : Nat, pending : SUBSET Records,
                 paging : {"first", "next", "last"},
                 page : (Records \cup {Nobody}) \X (0..(MaxEvents + 1)),
                 mark : Nat, asof : 0..LastDay, skipped : {"no", "yes"},
                 session : {"fresh", "expired"}, why : {"none", "auth", "retry"}]]
  /\ races \subseteq Races
  /\ events \in 0..MaxEvents

\* A connection has just been established and its initial sync is queued.
Init ==
  /\ provider \in {"shopify", "meta"}
  /\ status = "connected" /\ credential = "stored" /\ lastSync = "null"
  /\ clock = 1 /\ today = 1
  /\ version = [r \in Records |-> IF Born(r) THEN 1 ELSE 0]
  /\ stored = [r \in Records |-> 0]
  /\ rejected = {} /\ runs = << >>
  /\ LET first == CHOOSE j \in Jobs : TRUE IN
       job = [j \in Jobs |->
                IF j = first THEN [state |-> "queued", tries |-> 0,
                               want |-> Offered[provider],
                               kind |-> IF provider = "meta" THEN "metaInitial" ELSE "initial"]
                ELSE NoJob]
  /\ lock = Nobody
  /\ exec = [k \in Workers |-> Idle]
  /\ races = {} /\ events = 0

-----------------------------------------------------------------------------
(* The API and the provider.                                               *)

Enqueue(j, kind, want) ==
  /\ job[j].state = "none"
  /\ job' = [job EXCEPT ![j] =
       [state |-> "queued", kind |-> kind, tries |-> 0, want |-> want]]

Event == events < MaxEvents /\ events' = events + 1

\* request_sync: the resources named by the user, or the provider's default;
\* always the Shopify incremental job, for a Meta connection too.
RequestSync(j) ==
  /\ status = "connected" /\ Event
  /\ \E want \in {IF lastSync = "null" THEN Offered[provider] ELSE Incremental[provider]}
                    \cup {S \in Choices : S \subseteq Offered[provider]} :
       Enqueue(j, "manual", want)
  /\ UNCHANGED <<connVars, feedVars, dataVars, runs, lock, exec, races>>

\* disconnect_connection deletes the credential and, for Meta, the account's
\* hierarchy.  It does not look at running jobs.
Disconnect ==
  /\ status # "disconnected" /\ Event
  /\ status' = "disconnected" /\ credential' = "absent" /\ lastSync' = "null"
  /\ stored' = IF provider = "meta" THEN [r \in Records |-> 0] ELSE stored
  /\ races' = IF \E k \in Workers : Working(k) THEN races \cup {"disconnect"} ELSE races
  /\ UNCHANGED <<provider, feedVars, rejected, runs, job, lock, exec>>

\* A Shopify connection is established again on the same row, whose sync_runs
\* stay, for the same shop or another one; the callback queues an initial sync.
Reconnect(j) ==
  /\ provider = "shopify" /\ status # "connected" /\ Event
  /\ status' = "connected" /\ credential' = "stored"
  /\ Enqueue(j, "initial", Offered[provider])
  /\ \/ UNCHANGED <<version, stored, races>>
     \/ /\ version' = [r \in Records |-> IF Born(r) THEN 1 ELSE 0]
        /\ stored' = [r \in Records |-> 0]
        /\ races' = races \cup {"newShop"}
  /\ UNCHANGED <<provider, lastSync, clock, today, rejected, runs, lock, exec>>

Completed(res) == {i \in 1..Len(runs) : runs[i].res = res
                                        /\ runs[i].status \in {"success", "partial"}}

\* _previous_cursor: the completed run that started last.
SavedCursor(res) ==
  LET done == Completed(res) IN
  IF done = {} THEN 0 ELSE runs[CHOOSE i \in done : \A n \in done : n <= i].cursor

\* A day passes. (Bound: no record of Shopify has a day.)
NewDay ==
  /\ provider = "meta" /\ today < LastDay /\ today' = today + 1
  /\ UNCHANGED <<connVars, clock, version, dataVars, runs, job, lock, exec, races, events>>

\* The days that are asked for: the initial window, or one day before the
\* cursor, but no more days back than the lookback.
Window(cursor, day) ==
  {d \in Nat : /\ d <= day
               /\ IF cursor = 0 THEN day <= d + InitialDays
                  ELSE day <= d + Lookback /\ cursor <= d + 1}

\* The provider updates a record, or reports a day for the first time (the
\* account's date may be ahead of the worker's).  Requests name no order, so a
\* record that changes while it is listed shows up in a later page or not.
\* A day from which the cursor of this run will not move away is no loss.
ProviderUpdate(r) ==
  /\ \/ version[r] > 0 /\ Event /\ clock' = clock + 1
     \/ /\ version[r] = 0 /\ Has(r) /\ Dated(r) /\ DayOf[r] <= today + 1
        /\ UNCHANGED <<clock, events>>
  /\ version' = [version EXCEPT ![r] = clock']
  /\ LET listing == {k \in Workers : Listing(k) /\ Resource(k) = ResourceOf[r]
                                      /\ r \notin exec[k].pending}
         asks(x) == Dated(r) => DayOf[r] \in Window(x.cursor, x.asof)
         may == {k \in listing : exec[k].paging = "next" /\ asks(exec[k])}
         behind == {k \in listing : Dated(r) => DayOf[r] + 1 < exec[k].asof}
         late == Dated(r) /\ Covered(r, SavedCursor(ResourceOf[r])) IN
       \E seen \in SUBSET may :
         /\ exec' = [k \in Workers |->
                       IF k \in seen THEN [exec[k] EXCEPT !.pending = @ \cup {r}]
                                     ELSE exec[k]]
         /\ races' = races \cup (IF behind \subseteq seen THEN {} ELSE {"changed"})
                            \cup (IF late THEN {"late"} ELSE {})
  /\ UNCHANGED <<connVars, today, dataVars, runs, job, lock>>

-----------------------------------------------------------------------------
(* The worker.                                                             *)

StartJob(k, j) ==
  /\ exec[k].pc = "idle"
  /\ job[j].state = "queued" /\ job[j].tries < MaxTries
  /\ job' = [job EXCEPT ![j].state = "running", ![j].tries = @ + 1]
  /\ exec' = [exec EXCEPT ![k] = [Idle EXCEPT !.pc = IF Locked(j) THEN "lock" ELSE "begin",
                                              !.job = j, !.left = job[j].want]]
  /\ UNCHANGED <<connVars, feedVars, dataVars, runs, lock, races, events>>

JobExhausted(j) ==
  /\ job[j].state = "queued" /\ job[j].tries = MaxTries
  /\ job' = [job EXCEPT ![j].state = "done"]
  /\ UNCHANGED <<connVars, feedVars, dataVars, runs, lock, exec, races, events>>

\* Mutant: whoever ends deletes the lock.
EndJobDelete(k, state) ==
  /\ exec' = [exec EXCEPT ![k] = Idle]
  /\ job' = [job EXCEPT ![exec[k].job].state = state]
  /\ lock' = Nobody

\* The execution ends; the lock goes only if it still holds this token.
EndJob(k, state) ==
  /\ exec' = [exec EXCEPT ![k] = Idle]
  /\ job' = [job EXCEPT ![exec[k].job].state = state]
  /\ lock' = IF lock = k THEN Nobody ELSE lock

\* SET NX PX: a held lock means the job is skipped, not queued again.
AcquireLock(k) ==
  /\ exec[k].pc = "lock"
  /\ IF lock = Nobody
       THEN /\ lock' = k
            /\ exec' = [exec EXCEPT ![k].pc = "begin"]
            /\ UNCHANGED job
       ELSE EndJob(k, "done")
  /\ UNCHANGED <<connVars, feedVars, dataVars, runs, races, events>>

\* Mutant: the state of the connection is not looked at.
BeginSyncBlindly(k) ==
  /\ exec[k].pc = "begin"
  /\ exec' = [exec EXCEPT ![k].pc = "open"]
  /\ races' = IF \E i \in Workers \ {k} : Working(i) THEN races \cup {"overlap"} ELSE races
  /\ UNCHANGED <<connVars, feedVars, dataVars, runs, job, lock, events>>

\* The only look at the connection: later steps use what was read here.
BeginSync(k) ==
  /\ exec[k].pc = "begin"
  /\ IF status = "connected" /\ credential = "stored"
       THEN /\ exec' = [exec EXCEPT ![k].pc = "open"]
            /\ races' = IF \E i \in Workers \ {k} : Working(i)
                          THEN races \cup {"overlap"} ELSE races
            /\ UNCHANGED <<job, lock>>
       ELSE EndJob(k, "done") /\ UNCHANGED races
  /\ UNCHANGED <<connVars, feedVars, dataVars, runs, events>>

\* Insert the sync_runs row of the next resource and read the cursor.  After a
\* rollback the connection object is expired: reading its id raises, outside
\* every handler, and the job is over.
OpenRun(k) ==
  /\ exec[k].pc = "open"
  /\ \/ /\ exec[k].session = "fresh"
        /\ runs' = Append(runs, [res |-> Resource(k), status |-> "running", cursor |-> 0])
        /\ exec' = [exec EXCEPT ![k] =
             [@ EXCEPT !.pc = "fetch", !.run = Len(runs) + 1, !.paging = "first",
                       !.mark = 0, !.skipped = "no",
                       !.cursor = IF Initial(exec[k].job) THEN 0
                                  ELSE SavedCursor(Resource(k))]]
        /\ UNCHANGED <<job, lock>>
     \/ exec[k].session = "expired" /\ EndJob(k, "done") /\ UNCHANGED runs
  /\ UNCHANGED <<connVars, feedVars, dataVars, races, events>>

\* What the first request selects: Shopify filters by updated_at_min, which is
\* inclusive; Meta lists the whole account, and the days of a window.
Selected(k) ==
  {r \in Records :
     /\ ResourceOf[r] = Resource(k) /\ version[r] > 0
     /\ IF Dated(r) THEN DayOf[r] \in Window(exec[k].cursor, today)
        ELSE provider = "shopify" => version[r] >= exec[k].cursor}

Greater(a, b) == IF a >= b THEN a ELSE b

\* Mutant: the loop never moves to the next cursor.
FetchSamePage(k) ==
  /\ exec[k].pc = "fetch" /\ exec[k].paging # "last"
  /\ IF Selected(k) = {}
       THEN exec' = [exec EXCEPT ![k].pc = "finish", ![k].paging = "last"]
       ELSE \E r \in Selected(k) :
              exec' = [exec EXCEPT ![k] =
                [@ EXCEPT !.pc = "persist", !.page = <<r, version[r]>>,
                          !.mark = Greater(exec[k].mark, Stamp(r))]]
  /\ UNCHANGED <<connVars, feedVars, dataVars, runs, job, lock, races, events>>

\* A page of at most one record, as the record is now.  The first answer for a
\* window names a next cursor even where there is no other page: one page is
\* fetched twice.
FetchPage(k) ==
  LET e == exec[k]
      first == e.paging = "first"
      daily == Resource(k) \in Daily
      due == IF first THEN Selected(k) ELSE e.pending
      again == first /\ daily /\ Cardinality(due) <= 1
      from == IF first /\ daily THEN [e EXCEPT !.asof = today] ELSE e IN
  /\ e.pc = "fetch" /\ e.paging # "last"
  /\ IF due = {}
       THEN exec' = [exec EXCEPT ![k] =
              IF again THEN [from EXCEPT !.paging = "next"]
                       ELSE [from EXCEPT !.pc = "finish", !.paging = "last"]]
       ELSE \E r \in due :
              LET left == IF again THEN due ELSE due \ {r} IN
              exec' = [exec EXCEPT ![k] =
                [from EXCEPT !.pc = "persist", !.page = <<r, version[r]>>,
                             !.pending = left,
                             !.paging = IF left = {} THEN "last" ELSE "next",
                             !.mark = Greater(e.mark, Stamp(r))]]
  /\ races' = IF first /\ daily /\ e.cursor # 0 /\ e.cursor + Lookback < today + 1
                THEN races \cup {"gap"} ELSE races
  /\ UNCHANGED <<connVars, feedVars, dataVars, runs, job, lock, events>>

\* A page URL is fetched without looking at the HTTP status: an error answer
\* is an empty last page.
FetchErrorPage(k) ==
  /\ exec[k].pc = "fetch" /\ exec[k].paging = "next"
  /\ provider = "shopify"
  /\ Event
  /\ races' = races \cup {"errorPage"}
  /\ exec' = [exec EXCEPT ![k].pc = "finish", ![k].paging = "last", ![k].pending = {}]
  /\ UNCHANGED <<connVars, feedVars, dataVars, runs, job, lock>>

\* The client gives up: the token is rejected, or the retries are used up.
FetchFails(k) ==
  /\ exec[k].pc = "fetch" /\ exec[k].paging # "last"
  /\ Event
  /\ \E why \in {"auth", "retry"} :
       exec' = [exec EXCEPT ![k].pc = "fail", ![k].why = why]
  /\ UNCHANGED <<connVars, feedVars, dataVars, runs, job, lock, races>>

\* One record, one commit, last writer wins.
AfterRecord(k, skipped, session) ==
  exec' = [exec EXCEPT ![k] =
    [@ EXCEPT !.pc = IF exec[k].paging = "last" THEN "finish" ELSE "fetch",
              !.page = NoPage, !.skipped = skipped, !.session = session]]

PersistRecord(k) ==
  /\ exec[k].pc = "persist"
  /\ stored' = [stored EXCEPT ![exec[k].page[1]] = exec[k].page[2]]
  /\ AfterRecord(k, exec[k].skipped, exec[k].session)
  /\ UNCHANGED <<connVars, feedVars, rejected, runs, job, lock, races, events>>

\* A constraint race is rolled back and stored at the second try; a record that
\* cannot be stored is rolled back and counted.
PersistRollsBack(k) ==
  /\ exec[k].pc = "persist" /\ Event
  /\ \/ /\ stored' = [stored EXCEPT ![exec[k].page[1]] = exec[k].page[2]]
        /\ AfterRecord(k, exec[k].skipped, "expired")
        /\ UNCHANGED rejected
     \/ /\ rejected' = rejected \cup {exec[k].page}
        /\ AfterRecord(k, "yes", "expired")
        /\ UNCHANGED stored
  /\ UNCHANGED <<connVars, feedVars, runs, job, lock, races>>

\* run.cursor = watermark or previous_cursor
FinishRun(k) ==
  LET e == exec[k]
      left == e.left \ {First(e.left)} IN
  /\ e.pc = "finish"
  /\ runs' = [runs EXCEPT ![e.run] =
       [@ EXCEPT !.status = IF e.skipped = "yes" THEN "partial" ELSE "success",
                 !.cursor = IF e.mark # 0 THEN e.mark ELSE e.cursor]]
  /\ exec' = [exec EXCEPT ![k] =
       [@ EXCEPT !.pc = IF left = {} THEN "complete" ELSE "open", !.left = left]]
  /\ UNCHANGED <<connVars, feedVars, dataVars, job, lock, races, events>>

CompleteJob(k) ==
  /\ exec[k].pc = "complete"
  /\ lastSync' = "set"
  /\ EndJob(k, "done")
  /\ UNCHANGED <<provider, status, credential, feedVars, dataVars, runs,
                 races, events>>

\* Mutant: a failed run is kept as a partial one, with what it saw as cursor.
FailRunAdvances(k) ==
  /\ exec[k].pc = "fail"
  /\ runs' = [runs EXCEPT ![exec[k].run] = [@ EXCEPT !.status = "partial",
                                                    !.cursor = exec[k].mark]]
  /\ EndJob(k, "queued")
  /\ UNCHANGED <<connVars, feedVars, dataVars, races, events>>

\* The row becomes `failed`; only the Meta job marks the connection.
FailRun(k) ==
  /\ exec[k].pc = "fail"
  /\ runs' = [runs EXCEPT ![exec[k].run].status = "failed"]
  /\ IF exec[k].why = "retry" THEN EndJob(k, "queued")
     ELSE IF Locked(exec[k].job)
       THEN exec' = [exec EXCEPT ![k].pc = "mark"] /\ UNCHANGED <<job, lock>>
       ELSE EndJob(k, "done")
  /\ UNCHANGED <<connVars, feedVars, dataVars, races, events>>

MarkReconnectRequired(k) ==
  /\ exec[k].pc = "mark"
  /\ status' = "error"
  /\ EndJob(k, "done")
  /\ UNCHANGED <<provider, credential, lastSync, feedVars, dataVars, runs,
                 races, events>>

\* The process dies: the lock and the row stay.
WorkerDies(k) ==
  /\ exec[k].pc # "idle"
  /\ Event
  /\ lock' = IF lock = k THEN "orphan" ELSE lock
  /\ exec' = [exec EXCEPT ![k] = Idle]
  /\ UNCHANGED <<connVars, feedVars, dataVars, runs, job, races>>

\* arq queues the job of a dead execution again when its in-progress key runs
\* out, which is 10 s longer than job_timeout and so outlives the lock.
LeaseExpires(j) ==
  /\ job[j].state = "running" /\ \A k \in Workers : exec[k].job # j
  /\ Locked(j) => lock # "orphan"
  /\ job' = [job EXCEPT ![j].state = "queued"]
  /\ UNCHANGED <<connVars, feedVars, dataVars, runs, lock, exec, races, events>>

\* job_timeout cancels the execution: the lock is released, the row stays.
JobTimeout(k) ==
  /\ exec[k].pc # "idle"
  /\ Event
  /\ EndJob(k, "done")
  /\ UNCHANGED <<connVars, feedVars, dataVars, runs, races>>

\* The lock outlives job_timeout, so it expires only after its holder died.
LockExpires ==
  /\ lock = "orphan"
  /\ lock' = Nobody
  /\ UNCHANGED <<connVars, feedVars, dataVars, runs, job, exec, races, events>>

WorkerStep(k) ==
  \/ AcquireLock(k) \/ BeginSync(k) \/ OpenRun(k) \/ FetchPage(k)
  \/ PersistRecord(k) \/ FinishRun(k) \/ CompleteJob(k) \/ FailRun(k)
  \/ MarkReconnectRequired(k)

Next ==
  \/ \E j \in Jobs : RequestSync(j) \/ Reconnect(j) \/ JobExhausted(j) \/ LeaseExpires(j)
  \/ \E k \in Workers, j \in Jobs : StartJob(k, j)
  \/ \E k \in Workers : \/ WorkerStep(k) \/ FetchErrorPage(k) \/ FetchFails(k) \/ PersistRollsBack(k)
                        \/ WorkerDies(k) \/ JobTimeout(k)
  \/ \E r \in Records : ProviderUpdate(r)
  \/ Disconnect \/ LockExpires \/ NewDay

Spec == Init /\ [][Next]_vars

\* The worker goes on with what it started and takes up what stays queued;
\* Redis keys expire.
Fairness ==
  /\ \A k \in Workers : WF_vars(WorkerStep(k))
  /\ \A j \in Jobs : /\ WF_vars(JobExhausted(j)) /\ WF_vars(LeaseExpires(j))
                     /\ SF_vars(\E k \in Workers : StartJob(k, j))
  /\ WF_vars(LockExpires)

FairSpec == Spec /\ Fairness

-----------------------------------------------------------------------------
(* Properties.                                                             *)

Settled(r) == stored[r] = version[r] \/ <<r, version[r]>> \in rejected

\* Older days than those of an initial window are not asked for.
Due(r) == version[r] > 0 /\ (Dated(r) => today <= DayOf[r] + InitialDays)

Lost(r) == Due(r) /\ Covered(r, SavedCursor(ResourceOf[r])) /\ ~Settled(r)

\* The cursor the next run starts from never passes a record version that is
\* neither stored nor rejected, through failures, retries, deaths, skipped
\* records and disconnects, as long as none of the named races has happened.
\* For a daily record: the windows that start one day before the cursor come
\* to it before the cursor is two days away.
CursorSound == status = "connected" /\ races \subseteq {"disconnect"}
                 => \A r \in Records : ~Lost(r)

\* A Meta job that works holds the lock, whatever other jobs end meanwhile.
LockHeld == \A k \in Workers :
  Working(k) /\ Locked(exec[k].job) => lock = k

\* Disconnecting Meta removes the account's data for good: no queued job and no
\* retry brings it back, unless a run was under way at that moment.
DisconnectErases ==
  provider = "meta" /\ status = "disconnected" /\ "disconnect" \notin races
    => \A r \in Records : stored[r] = 0

\* Every queued job ends: locks left by the dead, retries and skipped records
\* never block it for ever.
JobsEnd == \A j \in Jobs : job[j].state = "queued" ~> job[j].state = "done"

\* What integrations.md says of cursors and shopify.md of retries: a page that
\* could not be fetched does not let the cursor pass its records.
CursorSurvivesErrors == status = "connected" /\ races \subseteq {"errorPage"}
                          => \A r \in Records : ~Lost(r)

\* The jobs, their executions and the lock fit together: the right types, and
\* a working Meta job behind every lock it needs.
LocksFit == TypeOK /\ LockHeld
=============================================================================
