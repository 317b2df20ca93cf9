----------------------- MODULE ResearchCollectionProofs -----------------------
(***************************************************************************)
(* Proofs about ResearchCollection, for any number of jobs, workers, pages *)
(* and faults.                                                             *)
(*                                                                         *)
(* The properties are about rows, and a row is right because of the one    *)
(* execution that may write it: an arq job is never executed twice at a    *)
(* time (Executions), and a job that lost no worker is finished once it    *)
(* has pages (Row).  What an execution read stays true of the snapshots,   *)
(* which are never deleted (Carries).                                      *)
(***************************************************************************)
EXTENDS ResearchCollection, Integers, WellFoundedInduction, TLAPS

USE CollectionAssumption

Pcs       == {"idle", "begin", "claim", "collect", "examine", "store", "requeue",
              "decide", "fail"}
Statuses  == {"absent", "queued", "running"} \cup Final
Changes   == {"none", "first_seen", "unchanged", "changed"}
ArqStates == {"none", "queued", "running", "finished"}
Times     == 0..MaxEvents
Starts    == 0..MaxTries
AnyHash   == Hashes \cup {NoHash}
AnyJob    == Jobs \cup {NoJob}
Crawls    == UNION {[1..n -> Hashes] : n \in 0..MaxPages}

Execution == [pc : Pcs, id : AnyJob, was : Statuses, prev : AnyHash, crawl : Crawls,
              known : SUBSET Hashes]

Typed ==
  /\ status \in [Jobs -> Statuses] /\ change \in [Jobs -> Changes]
  /\ limit \in [Jobs -> 0..MaxPages] /\ pages \in [Jobs -> SUBSET Urls]
  /\ snapshots \subseteq Hashes /\ sourceHash \in AnyHash
  /\ site \in [Urls -> Hashes] /\ posting \subseteq Jobs /\ cancelling \subseteq Jobs
  /\ job \in [Jobs -> ArqStates] /\ tries \in [Jobs -> Starts]
  /\ exec \in [Workers -> Execution]
  /\ died \subseteq Jobs /\ lost \subseteq Jobs /\ events \in Times

\* What an execution carries.
Carries(x) ==
  /\ x.pc = "idle" <=> x.id = NoJob
  /\ x.pc \notin {"idle", "begin"} => x.was \notin {"absent", "cancelled"}
  /\ x.pc \in {"examine", "store"} => /\ limit[x.id] \in Urls
                                      /\ x.crawl \in [1..limit[x.id] -> Hashes]
  /\ x.known \subseteq snapshots
  /\ x.prev # NoHash => x.prev \in snapshots /\ sourceHash # NoHash

\* One execution of a job at a time.
Executions ==
  /\ \A w \in Workers : Carries(exec[w])
  /\ \A w \in Workers : exec[w].pc # "idle" => job[exec[w].id] = "running"
  /\ \A w, v \in Workers : exec[w].pc # "idle" /\ exec[w].id = exec[v].id => w = v

Row(j) ==
  /\ status[j] = "absent" => job[j] = "none" /\ j \notin posting
  /\ j \in posting => job[j] = "none"
  /\ job[j] = "none" => pages[j] = {}
  /\ status[j] = "completed" => pages[j] # {}
  /\ pages[j] # {} => sourceHash # NoHash
  /\ j \notin died =>
       /\ job[j] = "running" => \E w \in Workers : exec[w].id = j
       /\ pages[j] # {} => job[j] = "finished" /\ status[j] \in {"completed", "cancelled"}

Rows == \A j \in Jobs : Row(j)

IInv == Typed /\ Executions /\ Rows /\ sourceHash \in snapshots \cup {NoHash}

-----------------------------------------------------------------------------
LEMMA Members ==
  /\ {"idle", "begin", "claim", "collect", "examine", "store", "requeue", "decide",
      "fail"} \subseteq Pcs
  /\ {"absent", "queued", "running", "completed", "failed", "cancelled"} \subseteq Statuses
  /\ {"none", "queued", "running", "finished"} \subseteq ArqStates
  /\ Hashes \subseteq AnyHash /\ NoHash \in AnyHash
  /\ Jobs \subseteq AnyJob /\ NoJob \in AnyJob
  /\ 0 \in Times /\ \A n \in Times : n < MaxEvents => n + 1 \in Times
  /\ 0 \in Starts /\ \A n \in Starts : n < MaxTries => n + 1 \in Starts
BY DEF Pcs, Statuses, Final, ArqStates, AnyHash, AnyJob, Times, Starts

LEMMA CrawlsOfAJob ==
  ASSUME NEW n \in Urls
  PROVE  [1..n -> Hashes] \subseteq Crawls
<1>1. n \in 0..MaxPages BY DEF Urls
<1> QED BY <1>1 DEF Crawls

LEMMA IdleIsAnExecution == Idle \in Execution
<1>1. << >> \in [1..0 -> Hashes] OBVIOUS
<1>2. << >> \in Crawls BY <1>1 DEF Crawls
<1> QED BY <1>2, Members DEF Idle, Execution

LEMMA TypedIsTypeOK == Typed => TypeOK
<1> SUFFICES ASSUME Typed PROVE TypeOK OBVIOUS
<1>1. ASSUME NEW w \in Workers
      PROVE  /\ exec[w].pc \in Pcs /\ exec[w].id \in Jobs \cup {NoJob}
             /\ exec[w].prev \in Hashes \cup {NoHash} /\ exec[w].known \subseteq Hashes
             /\ \A n \in DOMAIN exec[w].crawl : n \in Urls /\ exec[w].crawl[n] \in Hashes
  <2>1. exec[w] \in Execution BY DEF Typed
  <2>2. PICK n \in 0..MaxPages : exec[w].crawl \in [1..n -> Hashes]
    BY <2>1 DEF Execution, Crawls
  <2>3. \A i \in 1..n : i \in Urls BY DEF Urls
  <2> QED BY <2>1, <2>2, <2>3 DEF Execution, AnyJob, AnyHash
<1> QED BY <1>1
     DEF Typed, TypeOK, Pcs, Statuses, Changes, ArqStates, Times, Starts, AnyHash

-----------------------------------------------------------------------------
(* What the other jobs and executions keep while one of them moves.        *)

\* Snapshots are never deleted, and a source keeps a hash.
Grow ==
  /\ snapshots \subseteq snapshots' /\ limit' = limit
  /\ sourceHash # NoHash => sourceHash' # NoHash

OnlyJob(j) ==
  /\ \A i \in Jobs \ {j} : UNCHANGED <<status[i], job[i], pages[i]>>
  /\ posting' \ {j} \subseteq posting /\ died \subseteq died'
  /\ \A i \in Jobs \ {j}, w \in Workers : exec[w].id = i => exec'[w].id = i

LEMMA RowsKept ==
  ASSUME Rows, NEW j \in Jobs, OnlyJob(j), Grow, Row(j)'
  PROVE  Rows'
<1>1. ASSUME NEW i \in Jobs, i # j PROVE Row(i)'
  <2>1. Row(i) BY DEF Rows
  <2> QED BY <1>1, <2>1 DEF Row, OnlyJob, Grow
<1> QED BY <1>1 DEF Rows

LEMMA CarriesKept ==
  ASSUME NEW x, Carries(x), Grow
  PROVE  Carries(x)'
BY DEF Carries, Grow

LEMMA ExecutionsKept ==
  ASSUME Executions, UNCHANGED exec, Grow,
         \A w \in Workers : exec[w].pc # "idle" => job'[exec[w].id] = "running"
  PROVE  Executions'
<1>1. \A w \in Workers : Carries(exec[w])' BY CarriesKept DEF Executions, Carries, Grow
<1> QED BY <1>1 DEF Executions

\* Worker w goes on with x, or starts it, or ends.
LEMMA ExecutionMoves ==
  ASSUME Typed, Executions, NEW w \in Workers, NEW x \in Execution,
         exec' = [exec EXCEPT ![w] = x], Grow, Carries(x)',
         x.pc # "idle" => /\ job'[x.id] = "running"
                          /\ \A v \in Workers \ {w} : exec[v].id # x.id,
         \A v \in Workers \ {w} : exec[v].pc # "idle" => job'[exec[v].id] = "running"
  PROVE  Executions' /\ exec' \in [Workers -> Execution]
<1>1. \A v \in Workers : exec'[v] = IF v = w THEN x ELSE exec[v] BY DEF Typed
<1>2. \A v \in Workers : Carries(exec[v])'
  <2>1. Carries(exec[w])' BY <1>1 DEF Carries
  <2>2. \A v \in Workers \ {w} : Carries(exec[v])'
    BY <1>1 DEF Executions, Carries, Grow
  <2> QED BY <2>1, <2>2
<1>3. exec' \in [Workers -> Execution] BY DEF Typed
<1>4. \A v, u \in Workers : exec'[v].pc # "idle" /\ exec'[v].id = exec'[u].id => v = u
  <2>1. x.pc = "idle" => x.id = NoJob BY DEF Carries
  <2>2. \A v \in Workers : exec[v].pc # "idle" => exec[v].id # NoJob
    BY DEF Executions, Carries
  <2> QED BY <1>1, <2>1, <2>2 DEF Executions
<1> QED BY <1>1, <1>2, <1>3, <1>4 DEF Executions

\* What holds of the job of an execution.
LEMMA AtWork ==
  ASSUME IInv, NEW w \in Workers, exec[w].pc # "idle"
  PROVE  /\ exec[w] \in Execution /\ Carries(exec[w]) /\ exec[w].id \in Jobs
         /\ exec[w].id # NoJob
         /\ \A v \in Workers \ {w} : exec[v].id # exec[w].id
         /\ job[exec[w].id] = "running" /\ exec[w].id \notin posting
         /\ status[exec[w].id] # "absent"
         /\ exec[w].id \notin died =>
              pages[exec[w].id] = {} /\ status[exec[w].id] # "completed"
<1>1. exec[w] \in Execution /\ Carries(exec[w]) BY DEF IInv, Typed, Executions
<1>2. exec[w].id \in Jobs /\ exec[w].id # NoJob
  BY <1>1 DEF Execution, AnyJob, Carries
<1>3. /\ \A v \in Workers \ {w} : exec[v].id # exec[w].id
      /\ job[exec[w].id] = "running"
  BY DEF IInv, Executions
<1>4. Row(exec[w].id) BY <1>2 DEF IInv, Rows
<1> QED BY <1>1, <1>2, <1>3, <1>4 DEF Row

LEMMA GoesOn ==
  ASSUME IInv, NEW w \in Workers, NEW x \in Execution, exec[w].pc # "idle",
         exec' = [exec EXCEPT ![w] = x], x.pc # "idle", x.id = exec[w].id, Carries(x),
         UNCHANGED <<job, store, limit>>
  PROVE  /\ Executions' /\ exec' \in [Workers -> Execution] /\ Grow
         /\ \A v \in Workers : exec'[v].id = exec[v].id
<1>1. Grow BY DEF Grow, store
<1>2. Carries(x)' BY <1>1, CarriesKept
<1>3. /\ job'[x.id] = "running" /\ \A v \in Workers \ {w} : exec[v].id # x.id
  BY AtWork
<1>4. \A v \in Workers \ {w} : exec[v].pc # "idle" => job'[exec[v].id] = "running"
  BY DEF IInv, Executions
<1>5. Executions' /\ exec' \in [Workers -> Execution]
  BY <1>1, <1>2, <1>3, <1>4, ExecutionMoves DEF IInv
<1> QED BY <1>1, <1>5 DEF IInv, Typed

LEMMA Ends ==
  ASSUME IInv, NEW w \in Workers, exec[w].pc # "idle",
         exec' = [exec EXCEPT ![w] = Idle], Grow,
         \A i \in Jobs : i # exec[w].id => job'[i] = job[i]
  PROVE  /\ Executions' /\ exec' \in [Workers -> Execution]
         /\ \A v \in Workers \ {w} : exec'[v].id = exec[v].id
<1>1. Idle \in Execution /\ Idle.pc = "idle" BY IdleIsAnExecution DEF Idle
<1>2. Carries(Idle)' BY DEF Carries, Idle
<1>3. ASSUME NEW v \in Workers \ {w}, exec[v].pc # "idle"
      PROVE  job'[exec[v].id] = "running"
  <2>1. exec[v].id \in Jobs /\ exec[v].id # exec[w].id /\ job[exec[v].id] = "running"
    BY <1>3, AtWork
  <2> QED BY <2>1
<1>4. Executions' /\ exec' \in [Workers -> Execution]
  BY <1>1, <1>2, <1>3, ExecutionMoves DEF IInv
<1> QED BY <1>4 DEF IInv, Typed

\* A step that only the rows of job j take part in.
LEMMA JobStep ==
  ASSUME IInv, NEW j \in Jobs, OnlyJob(j), Grow, Row(j)', Typed', Executions',
         sourceHash' \in snapshots' \cup {NoHash}
  PROVE  IInv'
BY RowsKept DEF IInv

-----------------------------------------------------------------------------
(* The API and arq.                                                        *)

\* Steps that leave the executions, the pages and the source alone.
LEMMA Outside ==
  ASSUME IInv, NEW j \in Jobs, UNCHANGED <<store, limit, site, exec>>,
         \A i \in Jobs \ {j} : UNCHANGED <<status[i], job[i]>>,
         posting' \ {j} \subseteq posting, died \subseteq died',
         Row(j)', Typed',
         job[j] = "running" => job'[j] = "running" \/ \A w \in Workers : exec[w].id # j
  PROVE  IInv'
<1>1. Grow BY DEF Grow, store
<1>2. OnlyJob(j) BY DEF OnlyJob, store
<1>3. ASSUME NEW w \in Workers, exec[w].pc # "idle" PROVE job'[exec[w].id] = "running"
  <2>1. exec[w].id \in Jobs /\ job[exec[w].id] = "running" BY <1>3, AtWork
  <2> QED BY <2>1
<1>4. Executions' BY <1>1, <1>3, ExecutionsKept DEF IInv
<1>5. sourceHash' \in snapshots' \cup {NoHash} BY DEF IInv, store
<1> QED BY <1>1, <1>2, <1>4, <1>5, JobStep

LEMMA CreateJobStep == ASSUME IInv, NEW j \in Jobs, CreateJob(j) PROVE IInv'
<1>1. Typed' BY Members DEF CreateJob, IInv, Typed, store, arq, history
<1>2. Row(j) BY DEF IInv, Rows
<1>3. status'[j] = "queued" BY DEF CreateJob, IInv, Typed
<1>4. Row(j)' BY <1>2, <1>3 DEF CreateJob, Row, store, arq, history
<1>5. \A i \in Jobs \ {j} : UNCHANGED <<status[i], job[i]>>
  BY DEF CreateJob, IInv, Typed, arq
<1> QED BY <1>1, <1>4, <1>5, Outside DEF CreateJob, arq, history

LEMMA EnqueueJobStep == ASSUME IInv, NEW j \in Jobs, EnqueueJob(j) PROVE IInv'
<1>1. Typed' BY Members DEF EnqueueJob, IInv, Typed, store, history
<1>2. Row(j) BY DEF IInv, Rows
<1>3. job'[j] = "queued" BY DEF EnqueueJob, IInv, Typed
<1>4. Row(j)' BY <1>2, <1>3 DEF EnqueueJob, Row, store, history
<1>5. \A i \in Jobs \ {j} : UNCHANGED <<status[i], job[i]>>
  BY DEF EnqueueJob, IInv, Typed
<1>6. job[j] # "running" BY <1>2 DEF EnqueueJob, Row
<1> QED BY <1>1, <1>4, <1>5, <1>6, Outside DEF EnqueueJob, history

LEMMA RequestDiesStep == ASSUME IInv, NEW j \in Jobs, RequestDies(j) PROVE IInv'
<1>1. Typed' BY Members DEF RequestDies, Event, IInv, Typed, store, arq
<1>2. Row(j) BY DEF IInv, Rows
<1>3. Row(j)' BY <1>2 DEF RequestDies, Row, store, arq
<1> QED BY <1>1, <1>3, Outside DEF RequestDies, arq

LEMMA StartCancelStep == ASSUME IInv, NEW j \in Jobs, StartCancel(j) PROVE IInv'
<1>1. Typed' BY Members DEF StartCancel, Event, IInv, Typed, store, arq, history
<1>2. Row(j) BY DEF IInv, Rows
<1>3. Row(j)' BY <1>2 DEF StartCancel, Row, store, arq, history
<1> QED BY <1>1, <1>3, Outside DEF StartCancel, arq, history

LEMMA FinishCancelStep == ASSUME IInv, NEW j \in Jobs, FinishCancel(j) PROVE IInv'
<1>1. Typed' BY Members DEF FinishCancel, IInv, Typed, store, arq, history
<1>2. Row(j) BY DEF IInv, Rows
<1>3. status'[j] = "cancelled" BY DEF FinishCancel, IInv, Typed
<1>4. Row(j)' BY <1>2, <1>3 DEF FinishCancel, Row, store, arq, history
<1>5. \A i \in Jobs \ {j} : UNCHANGED <<status[i], job[i]>>
  BY DEF FinishCancel, IInv, Typed, arq
<1> QED BY <1>1, <1>4, <1>5, Outside DEF FinishCancel, arq, history

LEMMA JobExhaustedStep == ASSUME IInv, NEW j \in Jobs, JobExhausted(j) PROVE IInv'
<1>1. Typed' BY Members DEF JobExhausted, IInv, Typed, store, request
<1>2. Row(j) BY DEF IInv, Rows
<1>3. job'[j] = "finished" BY DEF JobExhausted, IInv, Typed
<1>4. Row(j)' BY <1>2, <1>3 DEF JobExhausted, Row, store, request
<1>5. \A i \in Jobs \ {j} : UNCHANGED <<status[i], job[i]>>
  BY DEF JobExhausted, IInv, Typed
<1> QED BY <1>1, <1>4, <1>5, Outside DEF JobExhausted, request

LEMMA DiesAfterCommitStep == ASSUME IInv, NEW j \in Jobs, DiesAfterCommit(j) PROVE IInv'
<1>1. Typed' BY Members DEF DiesAfterCommit, Event, IInv, Typed, store, request
<1>2. Row(j) BY DEF IInv, Rows
<1>3. job'[j] = "running" /\ j \in died' BY DEF DiesAfterCommit, IInv, Typed
<1>4. Row(j)' BY <1>2, <1>3 DEF DiesAfterCommit, Row, store, request, Final
<1>5. \A i \in Jobs \ {j} : UNCHANGED <<status[i], job[i]>>
  BY DEF DiesAfterCommit, IInv, Typed
<1> QED BY <1>1, <1>3, <1>4, <1>5, Outside DEF DiesAfterCommit, request

LEMMA LeaseExpiresStep == ASSUME IInv, NEW j \in Jobs, LeaseExpires(j) PROVE IInv'
<1>1. Typed' BY Members DEF LeaseExpires, IInv, Typed, store, request, history
<1>2. Row(j) BY DEF IInv, Rows
<1>3. job'[j] = "queued" /\ \A w \in Workers : exec[w].id # j
  BY DEF LeaseExpires, IInv, Typed
<1>4. Row(j)' BY <1>2, <1>3 DEF LeaseExpires, Row, store, request, history
<1>5. \A i \in Jobs \ {j} : UNCHANGED <<status[i], job[i]>>
  BY DEF LeaseExpires, IInv, Typed
<1> QED BY <1>1, <1>3, <1>4, <1>5, Outside DEF LeaseExpires, request, history

LEMMA PageChangesStep ==
  ASSUME IInv, NEW u \in Urls, NEW h \in Hashes, PageChanges(u, h)
  PROVE  IInv'
<1>1. Typed'
  BY Members DEF PageChanges, Event, IInv, Typed, store, request, arq, history
<1>2. Executions' BY DEF PageChanges, IInv, Executions, Carries, store, request, arq
<1>3. Rows' BY DEF PageChanges, IInv, Rows, Row, store, request, arq, history
<1> QED BY <1>1, <1>2, <1>3 DEF IInv, PageChanges, store

-----------------------------------------------------------------------------
(* The worker.                                                             *)

LEMMA StartJobStep ==
  ASSUME IInv, NEW w \in Workers, NEW j \in Jobs, StartJob(w, j)
  PROVE  IInv'
<1> DEFINE x == [Idle EXCEPT !.pc = "begin", !.id = j]
<1>1. x \in Execution /\ x.pc = "begin" /\ x.id = j /\ x.known = {} /\ x.prev = NoHash
  BY IdleIsAnExecution, Members DEF Idle, Execution
<1>2. Grow BY DEF StartJob, Grow, store, request
<1>3. Carries(x)' BY <1>1 DEF Carries
<1>4. /\ exec' = [exec EXCEPT ![w] = x] /\ job[j] = "queued"
      /\ job' = [job EXCEPT ![j] = "running"]
  BY DEF StartJob
<1> HIDE DEF x
<1>5. \A i \in Jobs : job'[i] = IF i = j THEN "running" ELSE job[i]
  BY <1>4 DEF IInv, Typed
<1>6. ASSUME NEW v \in Workers PROVE exec[v].id # j
  <2>1. CASE exec[v].pc = "idle" BY <2>1 DEF IInv, Executions, Carries
  <2>2. CASE exec[v].pc # "idle" BY <1>4, <2>2, AtWork
  <2> QED BY <2>1, <2>2
<1>7. ASSUME NEW v \in Workers, exec[v].pc # "idle" PROVE job'[exec[v].id] = "running"
  BY <1>5, <1>7, AtWork
<1>8. Executions' /\ exec' \in [Workers -> Execution]
  BY <1>1, <1>2, <1>3, <1>4, <1>5, <1>6, <1>7, ExecutionMoves DEF IInv
<1>9. tries' \in [Jobs -> Starts] BY Members DEF StartJob, IInv, Typed
<1>10. Typed' BY <1>8, <1>9, Members DEF StartJob, IInv, Typed, store, request, history
<1>11. exec'[w].id = j BY <1>1, <1>4 DEF IInv, Typed
<1>12. Row(j)
  BY DEF IInv, Rows
<1>13. Row(j)' BY <1>4, <1>5, <1>11, <1>12 DEF StartJob, Row, store, request, history
<1>14. exec[w].id = NoJob BY DEF StartJob, IInv, Executions, Carries
<1>15. OnlyJob(j)
  BY <1>4, <1>5, <1>14 DEF OnlyJob, StartJob, IInv, Typed, store, request, history
<1>16. sourceHash' \in snapshots' \cup {NoHash} BY DEF StartJob, IInv, store
<1> QED BY <1>2, <1>8, <1>10, <1>13, <1>15, <1>16, JobStep

\* An execution that goes on, and at most sets the status of its job.
LEMMA Continues ==
  ASSUME IInv, NEW w \in Workers, NEW x \in Execution, exec[w].pc # "idle",
         exec' = [exec EXCEPT ![w] = x], x.pc # "idle", x.id = exec[w].id, Carries(x),
         UNCHANGED <<job, tries, store, request, site, history>>, events' \in Times,
         NEW s \in {"queued", "running"},
         status' = status \/ status' = [status EXCEPT ![exec[w].id] = s]
  PROVE  IInv'
<1>0. PICK j \in Jobs : j = exec[w].id BY AtWork
<1>1. /\ Executions' /\ exec' \in [Workers -> Execution] /\ Grow
      /\ \A v \in Workers : exec'[v].id = exec[v].id
  BY GoesOn DEF request
<1>2. status' \in [Jobs -> Statuses] BY <1>0, Members DEF IInv, Typed
<1>3. Typed' BY <1>1, <1>2 DEF IInv, Typed, store, request, history
<1>4. Row(j) /\ (j \notin died => pages[j] = {}) BY <1>0, AtWork DEF IInv, Rows
<1>5. status'[j] = status[j] \/ status'[j] \in {"queued", "running"}
  BY <1>0 DEF IInv, Typed
<1>6. job[j] = "running" /\ j \notin posting BY <1>0, AtWork
<1>7. Row(j)' BY <1>0, <1>1, <1>4, <1>5, <1>6 DEF Row, store, request, history
<1>8. \A i \in Jobs \ {j} : status'[i] = status[i] BY <1>0 DEF IInv, Typed
<1>9. OnlyJob(j) BY <1>1, <1>8 DEF OnlyJob, store, request, history
<1>10. sourceHash' \in snapshots' \cup {NoHash} BY DEF IInv, store
<1> QED BY <1>1, <1>3, <1>7, <1>9, <1>10, JobStep

\* An execution that ends with its arq job, and at most fails the row.
LEMMA Finishes ==
  ASSUME IInv, NEW w \in Workers, exec[w].pc # "idle", Done(w),
         UNCHANGED <<tries, store, request, site, died>>, events' \in Times,
         lost' \subseteq Jobs,
         status' = status \/ status' = [status EXCEPT ![exec[w].id] = "failed"]
  PROVE  IInv'
<1>0. PICK j \in Jobs : j = exec[w].id BY AtWork
<1>1. \A i \in Jobs : job'[i] = IF i = j THEN "finished" ELSE job[i]
  BY <1>0 DEF Done, IInv, Typed
<1>2. Grow BY DEF Grow, store, request
<1>3. /\ Executions' /\ exec' \in [Workers -> Execution]
      /\ \A v \in Workers \ {w} : exec'[v].id = exec[v].id
  BY <1>0, <1>1, <1>2, Ends DEF Done
<1>4. status' \in [Jobs -> Statuses] /\ job' \in [Jobs -> ArqStates]
  BY <1>0, Members DEF IInv, Typed, Done
<1>5. Typed' BY <1>3, <1>4 DEF IInv, Typed, store, request
<1>6. Row(j) /\ (j \notin died => pages[j] = {}) BY <1>0, AtWork DEF IInv, Rows
<1>7. status'[j] = status[j] \/ status'[j] = "failed" BY <1>0 DEF IInv, Typed
<1>8. j \notin posting /\ status[j] # "absent" BY <1>0, AtWork
<1>9. Row(j)' BY <1>1, <1>6, <1>7, <1>8 DEF Row, store, request
<1>10. \A i \in Jobs \ {j} : status'[i] = status[i] BY <1>0 DEF IInv, Typed
<1>11. OnlyJob(j) BY <1>0, <1>1, <1>3, <1>10 DEF OnlyJob, store, request
<1>12. sourceHash' \in snapshots' \cup {NoHash} BY DEF IInv, store
<1> QED BY <1>2, <1>3, <1>5, <1>9, <1>11, <1>12, JobStep

LEMMA BeginStep == ASSUME IInv, NEW w \in Workers, Begin(w) PROVE IInv'
<1>0. PICK e \in Execution : e = exec[w] BY DEF IInv, Typed
<1>1. e.pc = "begin" BY <1>0 DEF Begin
<1>2. CASE status[e.id] = "cancelled"
  <2>1. Done(w) /\ UNCHANGED <<status, tries, store, request, site, history, events>>
    BY <1>0, <1>2 DEF Begin
  <2>2. events' \in Times /\ lost' \subseteq Jobs BY <2>1 DEF IInv, Typed, history
  <2> QED BY <1>0, <1>1, <2>1, <2>2, Finishes DEF history
<1>3. CASE status[e.id] # "cancelled"
  <2> DEFINE x == [e EXCEPT !.pc = "claim", !.was = status[e.id], !.prev = sourceHash]
  <2>1. e.id \in Jobs /\ status[e.id] # "absent" /\ Carries(e) BY <1>0, <1>1, AtWork
  <2>2. x \in Execution BY <2>1, Members DEF Execution, IInv, Typed
  <2>3. x.pc = "claim" /\ x.id = e.id /\ x.was = status[e.id] /\ x.prev = sourceHash
        /\ x.known = e.known
    BY DEF Execution
  <2>4. exec' = [exec EXCEPT ![w] = x] /\ job' = job BY <1>0, <1>3 DEF Begin
  <2> HIDE DEF x
  <2>5. Carries(x) BY <1>3, <2>1, <2>3 DEF Carries, IInv
  <2>6. events' \in Times BY DEF Begin, IInv, Typed
  <2> QED BY <1>0, <1>1, <2>2, <2>3, <2>4, <2>5, <2>6, Continues DEF Begin
<1> QED BY <1>2, <1>3

\* The steps that only move an execution to another point.
LEMMA Moves ==
  ASSUME IInv, NEW w \in Workers, exec[w].pc # "idle",
         NEW pc \in Pcs \ {"idle", "begin", "examine", "store"}, Goto(w, pc),
         exec[w].pc # "begin",
         UNCHANGED <<tries, store, request, site, history>>, events' \in Times,
         NEW s \in {"queued", "running"},
         status' = status \/ status' = [status EXCEPT ![exec[w].id] = s]
  PROVE  IInv'
<1>0. PICK e \in Execution : e = exec[w] BY DEF IInv, Typed
<1> DEFINE x == [e EXCEPT !.pc = pc]
<1>1. x \in Execution /\ x.pc = pc /\ x.id = e.id /\ x.was = e.was /\ x.prev = e.prev
      /\ x.known = e.known
  BY DEF Execution
<1>2. exec' = [exec EXCEPT ![w] = x] /\ job' = job BY <1>0 DEF Goto
<1> HIDE DEF x
<1>3. Carries(e) BY <1>0, AtWork
<1>4. Carries(x) BY <1>0, <1>1, <1>3 DEF Carries
<1> QED BY <1>0, <1>1, <1>2, <1>4, Continues

LEMMA ClaimStep == ASSUME IInv, NEW w \in Workers, Claim(w) PROVE IInv'
<1>1. status' = status \/ status' = [status EXCEPT ![exec[w].id] = "running"]
  BY DEF Claim, SetStatus
<1>2. events' \in Times BY DEF Claim, IInv, Typed
<1> QED BY <1>1, <1>2, Members, Moves DEF Claim

LEMMA RequeueStep == ASSUME IInv, NEW w \in Workers, Requeue(w) PROVE IInv'
<1>1. status' = [status EXCEPT ![exec[w].id] = "queued"] BY DEF Requeue, SetStatus
<1>2. events' \in Times BY DEF Requeue, IInv, Typed
<1> QED BY <1>1, <1>2, Members, Moves DEF Requeue

LEMMA CollectFailsStep == ASSUME IInv, NEW w \in Workers, CollectFails(w) PROVE IInv'
<1>1. events' \in Times BY Members DEF CollectFails, Event, IInv, Typed
<1> QED BY <1>1, Members, Moves DEF CollectFails

LEMMA CollectStep == ASSUME IInv, NEW w \in Workers, Collect(w) PROVE IInv'
<1>0. PICK e \in Execution : e = exec[w] BY DEF IInv, Typed
<1>1. e.pc = "collect" /\ e.id \in Jobs /\ Carries(e) BY <1>0, AtWork DEF Collect
<1> DEFINE crawl == [u \in 1..limit[e.id] |-> site[u]]
           x == [e EXCEPT !.pc = "examine", !.crawl = crawl]
<1>2. limit[e.id] \in Urls BY <1>0, <1>1 DEF Collect, IInv, Typed, Urls
<1>3. \A u \in 1..limit[e.id] : u \in Urls BY <1>2 DEF Urls
<1>4. crawl \in [1..limit[e.id] -> Hashes] BY <1>3 DEF IInv, Typed
<1>5. crawl \in Crawls BY <1>2, <1>4, CrawlsOfAJob
<1> HIDE DEF crawl
<1>6. x \in Execution /\ x.pc = "examine" /\ x.id = e.id /\ x.was = e.was
      /\ x.prev = e.prev /\ x.known = e.known /\ x.crawl = crawl
  BY <1>5, Members DEF Execution
<1>7. exec' = [exec EXCEPT ![w] = x] /\ job' = job BY <1>0 DEF Collect, crawl
<1> HIDE DEF x
<1>8. Carries(x) BY <1>1, <1>2, <1>4, <1>6 DEF Carries
<1>9. events' \in Times BY DEF Collect, IInv, Typed
<1> QED BY <1>0, <1>1, <1>6, <1>7, <1>8, <1>9, Continues DEF Collect

LEMMA ExamineStep == ASSUME IInv, NEW w \in Workers, Examine(w) PROVE IInv'
<1>0. PICK e \in Execution : e = exec[w] BY DEF IInv, Typed
<1>1. e.pc = "examine" /\ Carries(e) BY <1>0, AtWork DEF Examine
<1> DEFINE x == [e EXCEPT !.pc = "store", !.known = snapshots]
<1>2. snapshots \subseteq Hashes BY DEF IInv, Typed
<1>3. x \in Execution /\ x.pc = "store" /\ x.id = e.id /\ x.was = e.was
      /\ x.prev = e.prev /\ x.known = snapshots /\ x.crawl = e.crawl
  BY <1>2, Members DEF Execution
<1>4. exec' = [exec EXCEPT ![w] = x] /\ job' = job BY <1>0 DEF Examine
<1> HIDE DEF x
<1>5. Carries(x) BY <1>1, <1>3 DEF Carries
<1>6. events' \in Times BY DEF Examine, IInv, Typed
<1> QED BY <1>0, <1>1, <1>3, <1>4, <1>5, <1>6, Continues DEF Examine

LEMMA FailStep == ASSUME IInv, NEW w \in Workers, Fail(w) PROVE IInv'
<1>1. status' = [status EXCEPT ![exec[w].id] = "failed"] BY DEF Fail, SetStatus
<1>2. events' \in Times /\ lost' \subseteq Jobs BY DEF Fail, IInv, Typed, history
<1> QED BY <1>1, <1>2, Finishes DEF Fail, history

LEMMA JobTimeoutStep == ASSUME IInv, NEW w \in Workers, JobTimeout(w) PROVE IInv'
<1>1. events' \in Times BY Members DEF JobTimeout, Event, IInv, Typed
<1>2. lost' \subseteq Jobs BY AtWork DEF JobTimeout, IInv, Typed
<1> QED BY <1>1, <1>2, Finishes DEF JobTimeout

LEMMA RunRaisesStep == ASSUME IInv, NEW w \in Workers, RunRaises(w) PROVE IInv'
<1>1. events' \in Times BY Members DEF RunRaises, Event, IInv, Typed
<1>2. lost' \subseteq Jobs BY AtWork DEF RunRaises, IInv, Typed
<1> QED BY <1>1, <1>2, Finishes DEF RunRaises

\* The execution is gone and its row is left: a retry, or a death.
LEMMA Leaves ==
  ASSUME IInv, NEW w \in Workers, exec[w].pc # "idle",
         exec' = [exec EXCEPT ![w] = Idle],
         UNCHANGED <<status, tries, store, request, site, lost>>, events' \in Times,
         \/ job' = [job EXCEPT ![exec[w].id] = "queued"] /\ died' = died
         \/ job' = job /\ died' = died \cup {exec[w].id}
  PROVE  IInv'
<1>0. PICK j \in Jobs : j = exec[w].id BY AtWork
<1>1. /\ \A i \in Jobs \ {j} : job'[i] = job[i]
      /\ \/ job'[j] = "queued" /\ died' = died
         \/ job'[j] = "running" /\ j \in died'
  BY <1>0, AtWork DEF IInv, Typed
<1>2. Grow BY DEF Grow, store, request
<1>3. /\ Executions' /\ exec' \in [Workers -> Execution]
      /\ \A v \in Workers \ {w} : exec'[v].id = exec[v].id
  BY <1>0, <1>1, <1>2, Ends
<1>4. job' \in [Jobs -> ArqStates] /\ died' \subseteq Jobs
  BY <1>0, Members DEF IInv, Typed
<1>5. Typed' BY <1>3, <1>4 DEF IInv, Typed, store, request
<1>6. Row(j) /\ (j \notin died => pages[j] = {}) BY <1>0, AtWork DEF IInv, Rows
<1>7. j \notin posting /\ status[j] # "absent" BY <1>0, AtWork
<1>8. Row(j)' BY <1>1, <1>6, <1>7 DEF Row, store, request
<1>9. died \subseteq died' OBVIOUS
<1>10. OnlyJob(j) BY <1>0, <1>1, <1>3, <1>9 DEF OnlyJob, store, request
<1>11. sourceHash' \in snapshots' \cup {NoHash} BY DEF IInv, store
<1> QED BY <1>2, <1>3, <1>5, <1>8, <1>10, <1>11, JobStep

LEMMA WorkerDiesStep == ASSUME IInv, NEW w \in Workers, WorkerDies(w) PROVE IInv'
<1>1. events' \in Times BY Members DEF WorkerDies, Event, IInv, Typed
<1> QED BY <1>1, Leaves DEF WorkerDies, arq

LEMMA RetryOrFailStep == ASSUME IInv, NEW w \in Workers, RetryOrFail(w) PROVE IInv'
<1>1. events' \in Times /\ lost' \subseteq Jobs
  BY DEF RetryOrFail, IInv, Typed, history
<1>2. CASE tries[exec[w].id] >= MaxTries
  <2>1. status' = [status EXCEPT ![exec[w].id] = "failed"] /\ Done(w)
    BY <1>2 DEF RetryOrFail, SetStatus
  <2> QED BY <1>1, <2>1, Finishes DEF RetryOrFail, history
<1>3. CASE ~(tries[exec[w].id] >= MaxTries)
  BY <1>1, <1>3, Leaves DEF RetryOrFail, history
<1> QED BY <1>2, <1>3

-----------------------------------------------------------------------------
(* The commit of the pages.                                                *)

\* A nonempty set of positions has a last one: the first of its mirror image.
LEMMA Largest ==
  ASSUME NEW n \in Nat, NEW S, S \subseteq 1..n, S # {}
  PROVE  \E i \in S : \A j \in S : j <= i
<1> DEFINE flip(i) == n - i  mirror == {flip(i) : i \in S}
<1>1. \A i \in S : i \in Nat /\ flip(i) \in Nat /\ flip(i) \in mirror OBVIOUS
<1>2. mirror \subseteq Nat /\ mirror # {} BY <1>1
<1>3. \A x, y \in Nat : <<y, x>> \notin OpToRel(<, Nat) => x <= y BY DEF OpToRel
<1> HIDE DEF mirror
<1>4. PICK m \in mirror : \A y \in mirror : m <= y
  BY <1>2, <1>3, NatLessThanWellFounded, WFMin
<1>5. PICK i \in S : m = flip(i) BY DEF mirror
<1>6. \A j \in S : flip(i) <= flip(j) BY <1>1, <1>4, <1>5
<1> QED BY <1>1, <1>6

LEMMA LastIsAMember ==
  ASSUME NEW S, S \subseteq Urls, S # {}
  PROVE  Last(S) \in S
<1>1. \E n \in S : \A u \in S : u <= n BY Largest DEF Urls
<1> QED BY <1>1 DEF Last

\* What an execution that stores brings: contents the source then has.
LEMMA Brought ==
  ASSUME IInv, NEW w \in Workers, exec[w].pc = "store"
  PROVE  /\ exec[w].crawl \in [1..limit[exec[w].id] -> Hashes]
         /\ NewPages(w) = 1..limit[exec[w].id] \ pages[exec[w].id]
         /\ NewPages(w) \subseteq Urls /\ 1 \in 1..limit[exec[w].id]
         /\ NewPages(w) # {} => \E u \in NewPages(w) : LastHash(w) = exec[w].crawl[u]
         /\ ChangeStatus(w) \in Changes
<1>0. PICK e \in Execution : e = exec[w] BY DEF IInv, Typed
<1>1. Carries(e) /\ e.id \in Jobs BY <1>0, AtWork
<1>2. e.crawl \in [1..limit[e.id] -> Hashes] BY <1>0, <1>1 DEF Carries
<1>3. limit[e.id] \in Urls BY <1>0, <1>1 DEF Carries
<1>4. 1..limit[e.id] \subseteq Urls /\ 1 \in 1..limit[e.id] BY <1>3 DEF Urls
<1>5. NewPages(w) = 1..limit[e.id] \ pages[e.id] BY <1>0, <1>2 DEF NewPages
<1>6. NewPages(w) \subseteq Urls BY <1>4, <1>5
<1>7. NewPages(w) # {} => \E u \in NewPages(w) : LastHash(w) = exec[w].crawl[u]
  BY <1>6, LastIsAMember DEF LastHash
<1>8. ChangeStatus(w) \in Changes BY DEF ChangeStatus, Changes
<1> QED BY <1>0, <1>2, <1>4, <1>5, <1>6, <1>7, <1>8

LEMMA StoreResultStep == ASSUME IInv, NEW w \in Workers, StoreResult(w) PROVE IInv'
<1>0. PICK e \in Execution : e = exec[w] BY DEF IInv, Typed
<1>1. e.pc = "store" /\ Done(w) /\ UNCHANGED <<tries, request, site, died, events>>
  BY <1>0 DEF StoreResult
<1>2. PICK j \in Jobs : j = e.id BY <1>0, <1>1, AtWork
<1>3. PICK fresh : fresh = {e.crawl[u] : u \in NewPages(w)} \ e.known OBVIOUS
<1>4. CASE fresh \cap snapshots # {}
  <2>1. lost' = lost \cup {j} /\ UNCHANGED <<status, store>>
    BY <1>0, <1>2, <1>3, <1>4 DEF StoreResult
  <2>2. lost' \subseteq Jobs /\ events' \in Times BY <1>1, <2>1 DEF IInv, Typed
  <2> QED BY <1>0, <1>1, <2>1, <2>2, Finishes
<1>5. CASE fresh \cap snapshots = {}
  <2>1. /\ status' = [status EXCEPT ![j] = "completed"]
        /\ change' = [change EXCEPT ![j] = ChangeStatus(w)]
        /\ pages' = [pages EXCEPT ![j] = @ \cup NewPages(w)]
        /\ snapshots' = snapshots \cup fresh
        /\ sourceHash' = IF LastHash(w) = e.prev THEN sourceHash ELSE LastHash(w)
        /\ lost' = lost
    BY <1>0, <1>2, <1>3, <1>5 DEF StoreResult, SetStatus
  <2>2. /\ e.crawl \in [1..limit[j] -> Hashes]
        /\ NewPages(w) = 1..limit[j] \ pages[j]
        /\ NewPages(w) \subseteq Urls /\ 1 \in 1..limit[j]
        /\ NewPages(w) # {} => \E u \in NewPages(w) : LastHash(w) = e.crawl[u]
        /\ ChangeStatus(w) \in Changes
    BY <1>0, <1>1, <1>2, Brought
  <2>3. Carries(e) /\ Row(j) BY <1>0, <1>1, <1>2, AtWork DEF IInv, Rows
  <2>4. snapshots' \subseteq Hashes /\ e.known \subseteq snapshots
    <3>1. \A u \in NewPages(w) : e.crawl[u] \in Hashes BY <2>2
    <3>2. fresh \subseteq Hashes BY <1>3, <3>1
    <3> QED BY <2>1, <2>3, <3>2 DEF IInv, Typed, Carries
  <2>5. NewPages(w) # {} => LastHash(w) \in snapshots' \cap Hashes
    <3>1. \A u \in NewPages(w) : e.crawl[u] \in fresh \cup e.known BY <1>3
    <3> QED BY <2>1, <2>2, <2>4, <3>1
  <2>6. NewPages(w) = {} => LastHash(w) = e.prev BY <1>0 DEF LastHash
  <2>7. sourceHash' \in snapshots' \cup {NoHash} BY <2>1, <2>5, <2>6 DEF IInv
  <2>8. pages'[j] # {} /\ pages' \in [Jobs -> SUBSET Urls]
    BY <2>1, <2>2 DEF IInv, Typed
  <2>9. sourceHash' # NoHash
    <3>1. CASE NewPages(w) = {}
      <4>1. pages[j] # {} BY <2>2, <3>1
      <4> QED BY <2>1, <2>3, <2>6, <3>1, <4>1 DEF Row
    <3>2. CASE NewPages(w) # {}
      <4>1. LastHash(w) \in Hashes /\ NoHash \notin Hashes BY <2>5, <3>2
      <4> QED BY <2>1, <2>3, <4>1 DEF Carries
    <3> QED BY <3>1, <3>2
  <2>10. Grow BY <1>1, <2>1, <2>9 DEF Grow, request
  <2>11. \A i \in Jobs : job'[i] = IF i = j THEN "finished" ELSE job[i]
    BY <1>0, <1>1, <1>2 DEF Done, IInv, Typed
  <2>12. /\ Executions' /\ exec' \in [Workers -> Execution]
         /\ \A v \in Workers \ {w} : exec'[v].id = exec[v].id
    BY <1>0, <1>1, <1>2, <2>10, <2>11, Ends DEF Done
  <2>13. /\ status' \in [Jobs -> Statuses] /\ job' \in [Jobs -> ArqStates]
         /\ change' \in [Jobs -> Changes] /\ sourceHash' \in AnyHash
    BY <1>0, <1>1, <1>2, <2>1, <2>2, <2>4, <2>7, Members DEF IInv, Typed, Done
  <2>14. Typed' BY <1>1, <2>1, <2>4, <2>8, <2>12, <2>13 DEF IInv, Typed, request
  <2>15. status'[j] = "completed" /\ job'[j] = "finished" /\ j \notin posting'
    BY <1>0, <1>1, <1>2, <2>1, <2>11, AtWork DEF IInv, Typed, request
  <2>16. Row(j)' BY <2>8, <2>9, <2>15 DEF Row
  <2>17. \A i \in Jobs \ {j} : status'[i] = status[i] /\ pages'[i] = pages[i]
    BY <2>1 DEF IInv, Typed
  <2>18. OnlyJob(j)
    BY <1>0, <1>1, <1>2, <2>11, <2>12, <2>17 DEF OnlyJob, request
  <2> QED BY <2>7, <2>10, <2>12, <2>14, <2>16, <2>18, JobStep
<1> QED BY <1>4, <1>5

-----------------------------------------------------------------------------
LEMMA Start == Init => IInv
<1> SUFFICES ASSUME Init PROVE IInv OBVIOUS
<1>1. Typed
  BY IdleIsAnExecution, Members DEF Init, Typed, Changes
<1>2. \A w \in Workers : exec[w] = Idle BY DEF Init
<1>3. Executions BY <1>2 DEF Executions, Carries, Idle
<1>4. Rows BY DEF Init, Rows, Row
<1> QED BY <1>1, <1>3, <1>4 DEF Init, IInv

LEMMA Step == IInv /\ [Next]_vars => IInv'
<1> SUFFICES ASSUME IInv, [Next]_vars PROVE IInv' OBVIOUS
<1>1. CASE UNCHANGED vars
  <2>1. Typed' BY <1>1 DEF IInv, Typed, vars
  <2>2. Executions' BY <1>1 DEF IInv, Executions, Carries, vars
  <2>3. Rows' BY <1>1 DEF IInv, Rows, Row, vars
  <2> QED BY <1>1, <2>1, <2>2, <2>3 DEF IInv, vars
<1>2. ASSUME NEW j \in Jobs,
             \/ CreateJob(j) \/ EnqueueJob(j) \/ RequestDies(j)
             \/ StartCancel(j) \/ FinishCancel(j)
             \/ JobExhausted(j) \/ DiesAfterCommit(j) \/ LeaseExpires(j)
             \/ \E w \in Workers : StartJob(w, j)
      PROVE  IInv'
  BY <1>2, CreateJobStep, EnqueueJobStep, RequestDiesStep, StartCancelStep,
     FinishCancelStep, JobExhaustedStep, DiesAfterCommitStep, LeaseExpiresStep,
     StartJobStep
<1>3. ASSUME NEW w \in Workers, WorkerStep(w) PROVE IInv'
  BY <1>3, BeginStep, ClaimStep, CollectStep, CollectFailsStep, RunRaisesStep, ExamineStep,
     StoreResultStep, RequeueStep, RetryOrFailStep, FailStep DEF WorkerStep
<1>4. ASSUME NEW w \in Workers, WorkerDies(w) \/ JobTimeout(w) PROVE IInv'
  BY <1>4, WorkerDiesStep, JobTimeoutStep
<1>5. ASSUME NEW u \in Urls, NEW h \in Hashes, PageChanges(u, h) PROVE IInv'
  BY <1>5, PageChangesStep
<1> QED BY <1>1, <1>2, <1>3, <1>4, <1>5 DEF Next

\* One execution of a job at a time, whatever dies, is retried or is cancelled,
\* and what it read is still in the snapshots when it stores.
THEOREM Invariance == Spec => []IInv
BY Start, Step, PTL DEF Spec

\* run_job commits the pages, their snapshots, the source's hash and `completed`
\* at once: a completed job has pages and the source a snapshot of its content,
\* and a job that neither completed nor lost a worker has none.
THEOREM PagesFollowStatus == Spec => []PagesFit
<1>1. IInv => PagesWithStatus
  BY DEF IInv, Typed, AnyHash, Rows, Row, PagesWithStatus
<1>2. IInv => PagesFit BY <1>1, TypedIsTypeOK DEF IInv, PagesFit
<1> QED BY <1>2, Invariance, PTL

-----------------------------------------------------------------------------
(* Who writes the status of a job.                                         *)

\* Only an execution that has read the job, a cancel and its creation do.
LEMMA WritersOfStatus ==
  ASSUME IInv, [Next]_vars, NEW j \in Jobs, status'[j] # status[j]
  PROVE  \/ status[j] = "absent" \/ status'[j] = "cancelled"
         \/ \E w \in Workers : /\ exec[w].id = j /\ exec[w].pc \notin {"idle", "begin"}
                               /\ status'[j] = "completed" => StoreResult(w)
<1> USE DEF store, request, arq, history
<1>0. status \in [Jobs -> Statuses] BY DEF IInv, Typed
<1>1. CASE UNCHANGED vars BY <1>1 DEF vars
<1>2. ASSUME NEW i \in Jobs,
             \/ CreateJob(i) \/ EnqueueJob(i) \/ RequestDies(i)
             \/ StartCancel(i) \/ FinishCancel(i)
             \/ JobExhausted(i) \/ DiesAfterCommit(i) \/ LeaseExpires(i)
             \/ \E w \in Workers : StartJob(w, i)
      PROVE  status[j] = "absent" \/ status'[j] = "cancelled"
  <2>1. \/ status' = status
        \/ status[i] = "absent" /\ status' = [status EXCEPT ![i] = "queued"]
        \/ status' = [status EXCEPT ![i] = "cancelled"]
    BY <1>2 DEF CreateJob, EnqueueJob, RequestDies, StartCancel, FinishCancel,
                JobExhausted, DiesAfterCommit, LeaseExpires, StartJob
  <2> QED BY <1>0, <2>1
<1>3. ASSUME NEW w \in Workers, WorkerStep(w) \/ WorkerDies(w) \/ JobTimeout(w)
      PROVE  /\ exec[w].id = j /\ exec[w].pc \notin {"idle", "begin"}
             /\ status'[j] = "completed" => StoreResult(w)
  <2>1. PICK k : k = exec[w].id OBVIOUS
  <2>2. CASE StoreResult(w)
    <3>1. status' = status \/ status' = [status EXCEPT ![k] = "completed"]
      BY <2>1, <2>2 DEF StoreResult, SetStatus
    <3> QED BY <1>0, <2>1, <2>2, <3>1 DEF StoreResult
  <2>3. CASE ~StoreResult(w)
    <3>1. /\ \/ status' = status
             \/ \E s \in {"running", "queued", "failed"} : status' = [status EXCEPT ![k] = s]
          /\ status' # status => exec[w].pc \notin {"idle", "begin"}
      BY <1>3, <2>1, <2>3
         DEF WorkerStep, Begin, Claim, Collect, CollectFails, RunRaises, Examine, Requeue,
             RetryOrFail, Fail, WorkerDies, JobTimeout, SetStatus
    <3> QED BY <1>0, <2>1, <3>1
  <2> QED BY <2>2, <2>3
<1>4. ASSUME NEW u \in Urls, NEW h \in Hashes, PageChanges(u, h) PROVE FALSE
  BY <1>4 DEF PageChanges
<1> QED BY <1>1, <1>2, <1>3, <1>4 DEF Next

\* run_job leaves a job alone that it reads as cancelled: an execution that
\* changes a cancelled job had read it before the cancel.
THEOREM CancelIsKept == Spec => CancelHolds
<1>1. ASSUME IInv, [Next]_vars, NEW j \in Jobs, status[j] = "cancelled",
             status'[j] # "cancelled"
      PROVE  \E w \in Workers :
               exec[w].id = j /\ exec[w].was \notin {"absent", "cancelled"}
  <2>1. PICK w \in Workers : exec[w].id = j /\ exec[w].pc \notin {"idle", "begin"}
    BY <1>1, WritersOfStatus
  <2> QED BY <1>1, <2>1 DEF IInv, Executions, Carries
<1>2. IInv /\ [Next]_vars =>
        [\A j \in Jobs : status[j] = "cancelled" /\ status'[j] # "cancelled" =>
           \E w \in Workers :
             exec[w].id = j /\ exec[w].was \notin {"absent", "cancelled"}]_vars
  BY <1>1
<1> QED BY <1>2, Invariance, PTL DEF Spec, CancelHolds

\* change_status: a job of one page that says `unchanged` and lost no worker
\* brought a content that the source had a snapshot of.
THEOREM NothingNewIsPassedOver == Spec => NewContentIsReported
<1>1. ASSUME IInv, [Next]_vars, NEW w \in Workers, exec[w].pc = "store",
             NEW j, j = exec[w].id, status'[j] = "completed", change'[j] = "unchanged",
             limit[j] = 1, j \notin died
      PROVE  exec[w].crawl[1] \in snapshots
  <2>1. /\ Carries(exec[w]) /\ j \in Jobs /\ status[j] # "absent"
        /\ pages[j] = {} /\ status[j] # "completed"
        /\ \A v \in Workers \ {w} : exec[v].id # j
    BY <1>1, AtWork
  <2>2. StoreResult(w) BY <1>1, <2>1, WritersOfStatus
  <2>3. change' = [change EXCEPT ![j] = ChangeStatus(w)]
    BY <1>1, <2>1, <2>2 DEF StoreResult
  <2>4. ChangeStatus(w) = "unchanged" BY <1>1, <2>1, <2>3 DEF IInv, Typed
  <2>5. NewPages(w) = {1} BY <1>1, <2>1, Brought
  <2>6. CASE Differs(w, 1)
    <3>1. {n \in NewPages(w) : Differs(w, n) \/ Known(w, n)} = {1} BY <2>5, <2>6
    <3>2. Last({1}) = 1 BY LastIsAMember DEF Urls
    <3> QED BY <2>4, <2>6, <3>1, <3>2 DEF ChangeStatus
  <2>7. CASE ~Differs(w, 1) /\ Known(w, 1)
    <3>1. {v \in NewPages(w) : v < 1} = {} BY <2>5
    <3>2. exec[w].crawl[1] \in exec[w].known BY <2>7, <3>1 DEF Known
    <3> QED BY <2>1, <3>2 DEF Carries
  <2>8. CASE ~Differs(w, 1) /\ ~Known(w, 1)
    <3>1. {n \in NewPages(w) : Differs(w, n) \/ Known(w, n)} = {} BY <2>5, <2>8
    <3>2. exec[w].prev # NoHash BY <2>4, <3>1 DEF ChangeStatus
    <3>3. exec[w].prev = exec[w].crawl[1] BY <2>8, <3>2 DEF Differs
    <3> QED BY <2>1, <3>2, <3>3 DEF Carries
  <2> QED BY <2>6, <2>7, <2>8
<1>2. IInv /\ [Next]_vars =>
        [\A w \in Workers :
           LET j == exec[w].id IN
           exec[w].pc = "store" /\ status'[j] = "completed" /\ change'[j] = "unchanged"
             /\ limit[j] = 1 /\ j \notin died
           => exec[w].crawl[1] \in snapshots]_vars
  BY <1>1
<1> QED BY <1>2, Invariance, PTL DEF Spec, NewContentIsReported

===============================================================================
