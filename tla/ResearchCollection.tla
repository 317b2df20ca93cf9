-------------------------- MODULE ResearchCollection --------------------------
(***************************************************************************)
(* Collection jobs of one research source: the API creates, enqueues and   *)
(* cancels them, a worker fetches the pages and stores them.               *)
(*                                                                         *)
(* A collection_job row is written by its worker and by cancel requests,   *)
(* each from the status it read before; the source row and its snapshots   *)
(* are shared by all jobs of the source.                                   *)
(***************************************************************************)
EXTENDS Naturals, FiniteSets

CONSTANTS
  Jobs, Workers,
  Hashes,    \* contents a page may have
  NoHash, NoJob,
  MaxPages,  \* pages of the site, in crawl order
  MaxTries,  \* arq max_tries, and the attempt that turns a retry into `failed`
  MaxEvents  \* bound: cancels, page changes, failures, deaths and timeouts

ASSUME CollectionAssumption ==
  /\ NoHash \notin Hashes /\ NoJob \notin Jobs
  /\ MaxPages \in Nat \ {0} /\ MaxTries \in Nat \ {0} /\ MaxEvents \in Nat

VARIABLES
  status,     \* research_collection_jobs.status, or "absent"
  change,     \* research_collection_jobs.change_status
  limit,      \* pages the job may crawl (mode and max_pages); none in mode
              \* specific_urls, which cannot build its queue of URLs
  pages,      \* research_collection_pages of the job
  snapshots,  \* research_source_snapshots of the source (their hashes)
  sourceHash, \* research_sources.content_hash
  site,       \* the content of each page on the web
  posting,    \* jobs committed by a create request that still has to enqueue
  cancelling, \* jobs a cancel request found queued or running
  job,        \* the arq job
  tries,      \* arq's counter of starts
  exec,       \* the executions
  died,       \* jobs whose worker died
  lost,       \* jobs arq never got, or ended while their row was `running`
  events

vars == <<status, change, limit, pages, snapshots, sourceHash, site, posting,
          cancelling, job, tries, exec, died, lost, events>>

store   == <<change, pages, snapshots, sourceHash>>
request == <<limit, posting, cancelling>>
arq     == <<job, tries>>
history == <<died, lost>>

Urls  == 1..MaxPages
Final == {"completed", "failed", "cancelled"}

Idle == [pc |-> "idle", id |-> NoJob, was |-> "absent", prev |-> NoHash,
         crawl |-> <<>>, known |-> {}]

TypeOK ==
  /\ status \in [Jobs -> {"absent", "queued", "running"} \cup Final]
  /\ change \in [Jobs -> {"none", "first_seen", "unchanged", "changed"}]
  /\ limit \in [Jobs -> 0..MaxPages]
  /\ pages \in [Jobs -> SUBSET Urls]
  /\ snapshots \subseteq Hashes /\ sourceHash \in Hashes \cup {NoHash}
  /\ site \in [Urls -> Hashes]
  /\ posting \subseteq Jobs /\ cancelling \subseteq Jobs
  /\ job \in [Jobs -> {"none", "queued", "running", "finished"}]
  /\ tries \in [Jobs -> 0..MaxTries]
  /\ \A w \in Workers :
       /\ exec[w].pc \in {"idle", "begin", "claim", "collect", "examine", "store",
                          "requeue", "decide", "fail"}
       /\ exec[w].id \in Jobs \cup {NoJob}
       /\ exec[w].prev \in Hashes \cup {NoHash} /\ exec[w].known \subseteq Hashes
       /\ \A n \in DOMAIN exec[w].crawl : n \in Urls /\ exec[w].crawl[n] \in Hashes
  /\ died \subseteq Jobs /\ lost \subseteq Jobs
  /\ events \in 0..MaxEvents

Init ==
  /\ status = [j \in Jobs |-> "absent"] /\ change = [j \in Jobs |-> "none"]
  /\ limit \in [Jobs -> 0..MaxPages]
  /\ pages = [j \in Jobs |-> {}] /\ snapshots = {} /\ sourceHash = NoHash
  /\ site \in [Urls -> Hashes]
  /\ posting = {} /\ cancelling = {}
  /\ job = [j \in Jobs |-> "none"] /\ tries = [j \in Jobs |-> 0]
  /\ exec = [w \in Workers |-> Idle]
  /\ died = {} /\ lost = {} /\ events = 0

Event == events < MaxEvents /\ events' = events + 1

-----------------------------------------------------------------------------
(* The API.                                                                *)

\* create_job.  A request that repeats an idempotency key meets the unique
\* constraint and fails: the rollback has expired the business it looks the
\* first job up with.  It leaves no trace.
CreateJob(j) ==
  /\ status[j] = "absent"
  /\ status' = [status EXCEPT ![j] = "queued"]
  /\ posting' = posting \cup {j}
  /\ UNCHANGED <<store, limit, cancelling, site, arq, exec, history, events>>

\* enqueue_collection_job, after the commit.
EnqueueJob(j) ==
  /\ j \in posting
  /\ posting' = posting \ {j}
  /\ job' = [job EXCEPT ![j] = "queued"]
  /\ UNCHANGED <<status, store, limit, cancelling, site, tries, exec, history, events>>

RequestDies(j) ==
  /\ j \in posting /\ Event
  /\ posting' = posting \ {j}
  /\ lost' = lost \cup {j}
  /\ UNCHANGED <<status, store, limit, cancelling, site, arq, exec, died>>

\* cancel_job: the job is read with its status ...
StartCancel(j) ==
  /\ status[j] \in {"queued", "running"} /\ j \notin cancelling /\ Event
  /\ cancelling' = cancelling \cup {j}
  /\ UNCHANGED <<status, store, limit, posting, site, arq, exec, history>>

\* ... and cancelled whatever happened to it since.
FinishCancel(j) ==
  /\ j \in cancelling
  /\ status' = [status EXCEPT ![j] = "cancelled"]
  /\ cancelling' = cancelling \ {j}
  /\ UNCHANGED <<store, limit, posting, site, arq, exec, history, events>>

-----------------------------------------------------------------------------
(* The worker.                                                             *)

StartJob(w, j) ==
  /\ exec[w].pc = "idle" /\ job[j] = "queued" /\ tries[j] < MaxTries
  /\ exec' = [exec EXCEPT ![w] = [Idle EXCEPT !.pc = "begin", !.id = j]]
  /\ job' = [job EXCEPT ![j] = "running"]
  /\ tries' = [tries EXCEPT ![j] = @ + 1]
  /\ UNCHANGED <<status, store, request, site, history, events>>

\* arq drops a job that was started MaxTries times.
JobExhausted(j) ==
  /\ job[j] = "queued" /\ tries[j] = MaxTries
  /\ job' = [job EXCEPT ![j] = "finished"]
  /\ lost' = IF j \in died THEN lost \cup {j} ELSE lost
  /\ UNCHANGED <<status, store, request, site, tries, exec, died, events>>

\* The execution of worker w goes on at pc, or ends with its arq job.
Goto(w, pc) == exec' = [exec EXCEPT ![w].pc = pc] /\ UNCHANGED job
Done(w) ==
  /\ exec' = [exec EXCEPT ![w] = Idle]
  /\ job' = [job EXCEPT ![exec[w].id] = "finished"]
SetStatus(w, s) == status' = [status EXCEPT ![exec[w].id] = s]

\* Mutant: a cancelled job is not recognised.
BeginAnyway(w) ==
  LET j == exec[w].id IN
  /\ exec[w].pc = "begin"
  /\ exec' = [exec EXCEPT ![w].pc = "claim", ![w].was = status[j], ![w].prev = sourceHash]
  /\ UNCHANGED <<status, job, tries, store, request, site, history, events>>

\* run_job reads the job and the source; a cancelled job is left alone.  Its
\* other early return, for a job whose source is gone, is never taken: a job is
\* created with a source and nothing deletes one.
Begin(w) ==
  LET j == exec[w].id IN
  /\ exec[w].pc = "begin"
  /\ IF status[j] = "cancelled"
     THEN Done(w)
     ELSE /\ exec' = [exec EXCEPT ![w].pc = "claim", ![w].was = status[j],
                                  ![w].prev = sourceHash]
          /\ UNCHANGED job
  /\ UNCHANGED <<status, tries, store, request, site, history, events>>

\* The commit of `running`: a job read as running (its first worker died) has
\* no new status to write.
Claim(w) ==
  /\ exec[w].pc = "claim"
  /\ IF exec[w].was = "running" THEN UNCHANGED status ELSE SetStatus(w, "running")
  /\ Goto(w, "collect")
  /\ UNCHANGED <<tries, store, request, site, history, events>>

\* WebsiteCollectionProvider.collect, before anything is stored.
Collect(w) ==
  /\ exec[w].pc = "collect" /\ limit[exec[w].id] > 0
  /\ exec' = [exec EXCEPT ![w].pc = "examine",
                          ![w].crawl = [u \in 1..limit[exec[w].id] |-> site[u]]]
  /\ UNCHANGED <<status, job, tries, store, request, site, history, events>>

\* A page times out or answers 429 or 5xx; or it cannot be collected at all.
CollectFails(w) ==
  /\ exec[w].pc = "collect" /\ Event
  /\ \/ limit[exec[w].id] > 0 /\ Goto(w, "requeue")
     \/ Goto(w, "fail")
  /\ UNCHANGED <<status, tries, store, request, site, history>>

\* Any other exception: run_job has handlers for three types and the worker for
\* one.  The queue of a specific_urls job is a deque of an asynchronous
\* generator, a TypeError every time; a fetch may meet a protocol error and the
\* commit a row of another source.  What was not committed is rolled back, arq
\* ends the job, and the row stays `running`.
RunRaises(w) ==
  /\ exec[w].pc \in {"collect", "store"}
  /\ IF limit[exec[w].id] = 0 THEN UNCHANGED events ELSE Event
  /\ Done(w)
  /\ lost' = lost \cup {exec[w].id}
  /\ UNCHANGED <<status, tries, store, request, site, died>>

\* The lookups of pages and snapshots in the transaction that stores them.
Examine(w) ==
  /\ exec[w].pc = "examine"
  /\ exec' = [exec EXCEPT ![w].pc = "store", ![w].known = snapshots]
  /\ UNCHANGED <<status, job, tries, store, request, site, history, events>>

\* Pages of the crawl that the job has not stored yet.
NewPages(w) == DOMAIN exec[w].crawl \ pages[exec[w].id]

\* Mutant: only the snapshots decide; the previous content is not compared.
ChangeBySnapshot(w) ==
  LET new == {exec[w].crawl[u] : u \in NewPages(w)} IN
  IF exec[w].prev # NoHash \/ new \subseteq exec[w].known THEN "unchanged" ELSE "first_seen"

Last(S) == CHOOSE n \in S : \A u \in S : u <= n

\* Content of page n that the source had, or that an earlier page of the crawl added.
Known(w, n) ==
  LET x == exec[w] IN
  x.crawl[n] \in x.known \cup {x.crawl[u] : u \in {v \in NewPages(w) : v < n}}

\* A page that differs from the content the source had when the job began.
Differs(w, n) == exec[w].prev # NoHash /\ exec[w].prev # exec[w].crawl[n]

\* change_status: a page that differs sets it, another one whose content is
\* known resets it, and the last assignment of the loop stands.
ChangeStatus(w) ==
  LET decisive == {n \in NewPages(w) : Differs(w, n) \/ Known(w, n)} IN
  IF decisive = {}
  THEN IF exec[w].prev = NoHash THEN "first_seen" ELSE "unchanged"
  ELSE IF Differs(w, Last(decisive)) THEN "changed" ELSE "unchanged"

\* The hash the source is left with: that of the last new page.
LastHash(w) ==
  IF NewPages(w) = {} THEN exec[w].prev ELSE exec[w].crawl[Last(NewPages(w))]

\* Mutant: the row says completed before its pages are committed.
StoreStatusFirst(w) ==
  /\ exec[w].pc = "store"
  /\ SetStatus(w, "completed")
  /\ Goto(w, "examine")
  /\ UNCHANGED <<tries, store, request, site, history, events>>

\* One commit: pages, snapshots, source and `completed`.  A snapshot that
\* another job stored since the lookup breaks the unique constraint; nothing
\* catches it, and arq drops the job.
StoreResult(w) ==
  LET j == exec[w].id
      fresh == {exec[w].crawl[u] : u \in NewPages(w)} \ exec[w].known
  IN
  /\ exec[w].pc = "store"
  /\ Done(w)
  /\ IF fresh \cap snapshots # {}
     THEN lost' = lost \cup {j} /\ UNCHANGED <<status, store>>
     ELSE /\ SetStatus(w, "completed")
          /\ change' = [change EXCEPT ![j] = ChangeStatus(w)]
          /\ pages' = [pages EXCEPT ![j] = @ \cup NewPages(w)]
          /\ snapshots' = snapshots \cup fresh
          /\ sourceHash' = IF LastHash(w) = exec[w].prev THEN sourceHash ELSE LastHash(w)
          /\ UNCHANGED lost
  /\ UNCHANGED <<tries, request, site, died, events>>

\* A transient failure: the row goes back to queued ...
Requeue(w) ==
  /\ exec[w].pc = "requeue"
  /\ SetStatus(w, "queued")
  /\ Goto(w, "decide")
  /\ UNCHANGED <<tries, store, request, site, history, events>>

\* Mutant: the last attempt asks arq for one more.
RetryAlways(w) ==
  /\ exec[w].pc = "decide"
  /\ job' = [job EXCEPT ![exec[w].id] = "queued"]
  /\ exec' = [exec EXCEPT ![w] = Idle]
  /\ UNCHANGED <<status, tries, store, request, site, history, events>>

\* ... and the worker retries, or gives up on the last attempt.
RetryOrFail(w) ==
  /\ exec[w].pc = "decide"
  /\ IF tries[exec[w].id] >= MaxTries
     THEN SetStatus(w, "failed") /\ Done(w)
     ELSE /\ job' = [job EXCEPT ![exec[w].id] = "queued"]
          /\ exec' = [exec EXCEPT ![w] = Idle]
          /\ UNCHANGED status
  /\ UNCHANGED <<tries, store, request, site, history, events>>

\* A collection or URL policy error.
Fail(w) ==
  /\ exec[w].pc = "fail"
  /\ SetStatus(w, "failed") /\ Done(w)
  /\ UNCHANGED <<tries, store, request, site, history, events>>

\* The worker process dies; between the last commit and arq's own bookkeeping
\* it dies after the job is done, and the job is run again all the same.
WorkerDies(w) ==
  /\ exec[w].pc # "idle" /\ Event
  /\ exec' = [exec EXCEPT ![w] = Idle]
  /\ died' = died \cup {exec[w].id}
  /\ UNCHANGED <<status, store, request, site, arq, lost>>

DiesAfterCommit(j) ==
  /\ job[j] = "finished" /\ status[j] \in Final /\ Event
  /\ job' = [job EXCEPT ![j] = "running"]
  /\ died' = died \cup {j}
  /\ UNCHANGED <<status, store, request, site, tries, exec, lost>>

\* arq's in-progress key of a dead worker expires.
LeaseExpires(j) ==
  /\ job[j] = "running" /\ \A w \in Workers : exec[w].id # j
  /\ job' = [job EXCEPT ![j] = "queued"]
  /\ UNCHANGED <<status, store, request, site, tries, exec, history, events>>

\* arq cancels a job at its timeout and does not run it again.
JobTimeout(w) ==
  /\ exec[w].pc # "idle" /\ Event
  /\ Done(w)
  /\ lost' = lost \cup {exec[w].id}
  /\ UNCHANGED <<status, store, request, site, tries, died>>

PageChanges(u, h) ==
  /\ site[u] # h /\ Event
  /\ site' = [site EXCEPT ![u] = h]
  /\ UNCHANGED <<status, store, request, arq, exec, history>>

WorkerStep(w) ==
  \/ Begin(w) \/ Claim(w) \/ Collect(w) \/ CollectFails(w) \/ RunRaises(w)
  \/ Examine(w) \/ StoreResult(w) \/ Requeue(w) \/ RetryOrFail(w) \/ Fail(w)

Next ==
  \/ \E j \in Jobs :
       \/ CreateJob(j) \/ EnqueueJob(j) \/ RequestDies(j)
       \/ StartCancel(j) \/ FinishCancel(j)
       \/ JobExhausted(j) \/ DiesAfterCommit(j) \/ LeaseExpires(j)
       \/ \E w \in Workers : StartJob(w, j)
  \/ \E w \in Workers : WorkerStep(w) \/ WorkerDies(w) \/ JobTimeout(w)
  \/ \E u \in Urls, h \in Hashes : PageChanges(u, h)

Spec == Init /\ [][Next]_vars

\* Requests go on, arq schedules every job and expires every lease, and a
\* worker's awaits return.
Fairness ==
  /\ \A j \in Jobs :
       /\ WF_vars(EnqueueJob(j)) /\ WF_vars(JobExhausted(j)) /\ WF_vars(LeaseExpires(j))
       /\ WF_vars(\E w \in Workers : StartJob(w, j))
  /\ \A w \in Workers : WF_vars(WorkerStep(w))

FairSpec == Spec /\ Fairness

-----------------------------------------------------------------------------
(* Properties.                                                             *)

\* A cancel that an execution could see is kept: only an execution that had
\* read the job before the cancel, and wrote its own status after it, may undo it.
CancelHolds ==
  [][\A j \in Jobs : status[j] = "cancelled" /\ status'[j] # "cancelled" =>
       \E w \in Workers : exec[w].id = j /\ exec[w].was \notin {"absent", "cancelled"}]_vars

\* `completed` and the pages of the job are one commit: a completed job has
\* pages and their contents are snapshots; a job that was never completed and
\* lost no worker has none.
PagesWithStatus ==
  \A j \in Jobs :
    /\ status[j] = "completed" => pages[j] # {} /\ sourceHash \in snapshots
    /\ status[j] \in {"queued", "running", "failed"} /\ j \notin died => pages[j] = {}

\* A one-page job that reports `unchanged` collected a content that the source
\* was known to have: new content is never passed over.  Excepted is a job
\* whose worker died, which skips the page it stored the first time.
NewContentIsReported ==
  [][\A w \in Workers :
       LET j == exec[w].id IN
       exec[w].pc = "store" /\ status'[j] = "completed" /\ change'[j] = "unchanged"
         /\ limit[j] = 1 /\ j \notin died
       => exec[w].crawl[1] \in snapshots]_vars

\* Every job that was created ends as completed, failed or cancelled, except
\* those `lost` names: the request died before it queued the job; the worker
\* died on the last attempt; arq's timeout ended it; another job of the source
\* stored the same new content first; or an exception that run_job does not
\* catch ended it, which happens to every job of mode specific_urls.  Nothing
\* but these five leaves a row `queued` or `running` for ever.
EveryJobEnds ==
  \A j \in Jobs : status[j] = "queued" ~> (status[j] \in Final \/ j \in lost)

\* Jobs, pages and snapshots fit together.
PagesFit == TypeOK /\ PagesWithStatus
===============================================================================
