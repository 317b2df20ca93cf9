-------------------------- MODULE ProviderSyncProofs --------------------------
(***************************************************************************)
(* Proofs about ProviderSync, for any number of records, resources, jobs,  *)
(* executions and faults.                                                  *)
(*                                                                         *)
(* That a lock is held needs more than the jobs that work: an execution    *)
(* has it from the moment it leaves `lock` (LockKept).  That a disconnect  *)
(* erases needs that nobody works after it (Erased).  That the cursor is   *)
(* sound is the work of a whole run: while it lists, every record of its   *)
(* resource is stored, rejected, in the page at hand or still to come, and *)
(* it has read the cursor that still holds (RunSound).  Of daily records,  *)
(* it accounts for those before the last day but one that it asks for: the *)
(* next window overlaps with the others.                                   *)
(***************************************************************************)
EXTENDS ProviderSync, Integers, WellFoundedInduction, TLAPS

USE SyncAssumption

Pcs       == {"idle", "lock", "begin", "open", "fetch", "persist", "finish", "fail",
              "mark", "complete"}
InRun     == {"fetch", "persist", "finish", "fail"}
Times     == 0..(MaxEvents + 1)
AllNames  == {Resources[i] : i \in 1..Len(Resources)}
AnyPage   == (Records \cup {Nobody}) \X Times
AnyJob    == Jobs \cup {Nobody}
AnyLock   == Workers \cup {Nobody, "orphan"}
Places    == SUBSET All
RecordSets == SUBSET Records
Kinds     == {"initial", "metaInitial", "manual"}
JobStates == {"none", "queued", "running", "done"}
Statuses  == {"connected", "error", "disconnected"}
Pagings   == {"first", "next", "last"}
Marks     == {"no", "yes"}
Sessions  == {"fresh", "expired"}
Whys      == {"none", "auth", "retry"}
Tries     == 0..MaxTries

Days      == 0..LastDay

Run == [res : AllNames, status : RunStates, cursor : Nat]
Job == [state : JobStates, kind : Kinds, tries : Tries, want : Places]
Execution == [pc : Pcs, job : AnyJob, left : Places, run : Nat, cursor : Nat,
              pending : RecordSets, paging : Pagings, page : AnyPage, mark : Nat,
              asof : Days, skipped : Marks, session : Sessions, why : Whys]

TypedRest ==
  /\ provider \in {"shopify", "meta"} /\ status \in Statuses
  /\ credential \in {"stored", "absent"} /\ lastSync \in {"set", "null"}
  /\ clock \in Times /\ version \in [Records -> Times] /\ stored \in [Records -> Times]
  /\ rejected \subseteq Records \X Times /\ today \in 1..LastDay
  /\ runs \in Seq(Run) /\ job \in [Jobs -> Job] /\ lock \in AnyLock
  /\ races \subseteq Races /\ events \in 0..MaxEvents

Typed == TypedRest /\ exec \in [Workers -> Execution]

\* Nothing is newer than the provider's clock, which events push.
Clocked ==
  /\ clock \in 1..(events + 1)
  /\ \A r \in Records : version[r] \in 0..clock

JobsWant == \A j \in Jobs : job[j].state # "none" => job[j].want # {}

\* What an execution carries.
Carries(x) ==
  /\ x.pc # "idle" => x.job \in Jobs /\ job[x.job].state # "none"
  /\ x.pc \notin {"idle", "complete"} => x.left # {}
  /\ x.pc \in InRun => x.run \in 1..Len(runs)
  /\ x.pc = "persist" => x.page[1] \in Records

Executions == \A k \in Workers : Carries(exec[k])

LockKept == \A k \in Workers :
  exec[k].pc \notin {"idle", "lock"} /\ Locked(exec[k].job) => lock = k

Erased == provider = "meta" /\ status = "disconnected" /\ "disconnect" \notin races =>
  /\ \A k \in Workers : ~Working(k)
  /\ \A r \in Records : stored[r] = 0

OneAtATime == "overlap" \notin races =>
  \A k, i \in Workers : Working(k) /\ Working(i) => k = i

\* No named race has happened, and the data has not been erased.
Undisturbed == /\ races \subseteq {"disconnect"}
               /\ provider = "shopify" \/ status = "connected"

\* A daily run comes to the days before the one that its windows overlap in.
Reaches(x, r) == Dated(r) => DayOf[r] + 1 < x.asof

\* A record of the resource that x lists is settled, to come, or in the page.
Accounted(x, r) == Due(r) =>
  /\ Covered(r, x.cursor) => Settled(r)
  /\ x.paging # "first" /\ Reaches(x, r) =>
       \/ r \in x.pending \/ Settled(r)
       \/ x.pc = "persist" /\ x.page = <<r, version[r]>>

\* What x has seen is no newer than the clock, or the day it asked on; and it
\* started where the saved cursor still is.
Bounded(x, r) ==
  /\ x.cursor <= SavedCursor(ResourceOf[r])
  /\ IF Dated(r) THEN x.mark <= x.asof /\ (r \in x.pending => DayOf[r] <= x.asof)
                 ELSE x.mark <= clock

\* A page that the provider has overtaken comes again, if its run can pass it,
\* and is beyond every cursor.
Overtaken(x, r) ==
  x.page[1] = r /\ x.page[2] # version[r] =>
    /\ r \in x.pending \/ ~Reaches(x, r)
    /\ ~Covered(r, SavedCursor(ResourceOf[r])) /\ ~Covered(r, x.cursor)

RunSound(x) ==
  LET res == Resources[First(x.left)] IN
  /\ x.pc \in InRun => runs[x.run].res = res /\ runs[x.run].status = "running"
  /\ x.pc \in {"lock", "begin", "open", "fetch", "persist", "finish"} =>
       /\ x.paging # "next" => x.pending = {}
       /\ \A r \in x.pending : ResourceOf[r] = res
  /\ x.pc \in {"lock", "begin", "open"} => x.pending = {}
  /\ x.pc = "fetch" /\ x.paging = "first" => x.mark = 0
  /\ x.pc = "finish" => x.paging = "last"
  /\ x.pc \in {"fetch", "persist", "finish"} =>
       \A r \in Records : ResourceOf[r] = res => Accounted(x, r) /\ Bounded(x, r)
  /\ x.pc = "persist" =>
       /\ x.paging # "first" /\ ResourceOf[x.page[1]] = res
       /\ \A r \in Records : Overtaken(x, r)

\* No record is lost, and no cursor of update times is ahead of the clock.
Safe(r) == ~Lost(r) /\ (~Dated(r) => SavedCursor(ResourceOf[r]) <= clock)

Sound == Undisturbed =>
  /\ \A r \in Records : Safe(r)
  /\ \A k \in Workers : RunSound(exec[k])

IInv == /\ Typed /\ Clocked /\ JobsWant /\ Executions /\ LockKept /\ Erased
        /\ OneAtATime /\ Sound

-----------------------------------------------------------------------------
LEMMA Members ==
  /\ {"idle", "lock", "begin", "open", "fetch", "persist", "finish", "fail", "mark",
      "complete"} \subseteq Pcs
  /\ {"connected", "error", "disconnected"} \subseteq Statuses
  /\ {"none", "queued", "running", "done"} \subseteq JobStates
  /\ {"initial", "metaInitial", "manual"} \subseteq Kinds
  /\ {"first", "next", "last"} \subseteq Pagings /\ {"no", "yes"} \subseteq Marks
  /\ {"fresh", "expired"} \subseteq Sessions /\ {"none", "auth", "retry"} \subseteq Whys
  /\ Jobs \subseteq AnyJob /\ Nobody \in AnyJob
  /\ Workers \subseteq AnyLock /\ Nobody \in AnyLock /\ "orphan" \in AnyLock
  /\ {} \in Places /\ All \in Places /\ {} \in RecordSets
  /\ (\A S : S \subseteq Records <=> S \in RecordSets)
  /\ (\A S : S \subseteq All <=> S \in Places)
  /\ NoPage \in AnyPage /\ (\A r \in Records : \A t \in Times : <<r, t>> \in AnyPage)
  /\ 0 \in Times /\ 0 \in Tries /\ 0 \in Days /\ \A n \in Tries : n < MaxTries => n + 1 \in Tries
BY DEF Pcs, Statuses, JobStates, Kinds, Pagings, Marks, Sessions, Whys, AnyJob, AnyLock,
       Places, RecordSets, NoPage, AnyPage, Times, Tries, Days,
       All

LEMMA IdleIsAnExecution == Idle \in Execution
BY Members DEF Idle, Execution

LEMMA TypedIsTypeOK == Typed => TypeOK
<1> SUFFICES ASSUME Typed PROVE TypeOK OBVIOUS
<1>1. runs \in Seq([res : {Resources[i] : i \in 1..Len(Resources)},
                   status : RunStates, cursor : Nat])
  BY DEF Typed, TypedRest, Run, AllNames
<1>2. job \in [Jobs -> [state : {"none", "queued", "running", "done"},
                       kind : {"initial", "metaInitial", "manual"},
                       tries : 0..MaxTries, want : SUBSET All]]
  BY DEF Typed, TypedRest, Job, JobStates, Kinds, Tries, Places
<1>3. exec \in [Workers -> [pc : {"idle", "lock", "begin", "open", "fetch",
                                 "persist", "finish", "fail", "mark", "complete"},
                 job : Jobs \cup {Nobody}, left : SUBSET All, run : Nat,
                 cursor : Nat, pending : SUBSET Records,
                 paging : {"first", "next", "last"},
                 page : (Records \cup {Nobody}) \X (0..(MaxEvents + 1)),
                 mark : Nat, asof : 0..LastDay, skipped : {"no", "yes"},
                 session : {"fresh", "expired"}, why : {"none", "auth", "retry"}]]
  BY DEF Typed, Execution, Pcs, AnyJob, Places, Times, RecordSets, Pagings, AnyPage,
         Days, Marks, Sessions, Whys
<1>4. /\ provider \in {"shopify", "meta"}
      /\ status \in {"connected", "error", "disconnected"}
      /\ credential \in {"stored", "absent"} /\ lastSync \in {"set", "null"}
      /\ clock \in 0..(MaxEvents + 1) /\ version \in [Records -> 0..(MaxEvents + 1)]
      /\ stored \in [Records -> 0..(MaxEvents + 1)]
      /\ rejected \subseteq Records \X (0..(MaxEvents + 1))
      /\ lock \in Workers \cup {Nobody, "orphan"} /\ races \subseteq Races
      /\ events \in 0..MaxEvents /\ today \in 1..LastDay
  BY DEF Typed, TypedRest, Statuses, Times, AnyLock
<1> QED BY <1>1, <1>2, <1>3, <1>4 DEF TypeOK

-----------------------------------------------------------------------------
(* What executions keep while the rest moves on.                           *)

JobsGoOn ==
  /\ \A j \in Jobs : job[j].state # "none" =>
       job'[j].state # "none" /\ job'[j].kind = job[j].kind
  /\ JobsWant'

Onward == JobsGoOn /\ Len(runs) <= Len(runs')

LEMMA CarriesOnward ==
  ASSUME TypedRest, TypedRest', NEW x \in Execution, Carries(x), Onward
  PROVE  Carries(x)'
<1>1. Len(runs) \in Nat /\ Len(runs') \in Nat BY DEF TypedRest
<1>2. x.run \in Nat BY DEF Execution
<1> QED BY <1>1, <1>2 DEF Carries, Onward, JobsGoOn

LEMMA LocksStay ==
  ASSUME IInv, JobsGoOn, UNCHANGED exec, \A k \in Workers : lock = k => lock' = k
  PROVE  LockKept'
<1>1. ASSUME NEW k \in Workers, exec[k].pc \notin {"idle", "lock"},
             job'[exec[k].job].kind = "metaInitial"
      PROVE  lock' = k
  <2>1. exec[k].job \in Jobs /\ job[exec[k].job].state # "none"
    BY <1>1 DEF IInv, Executions, Carries
  <2>2. job[exec[k].job].kind = "metaInitial" BY <1>1, <2>1 DEF JobsGoOn
  <2> QED BY <1>1, <2>2 DEF IInv, LockKept, Locked
<1> QED BY <1>1 DEF LockKept, Locked

LEMMA LocksMove ==
  ASSUME IInv, JobsGoOn, NEW k \in Workers, NEW x, exec' = [exec EXCEPT ![k] = x],
         \A i \in Workers \ {k} : lock = i => lock' = i,
         x.pc \notin {"idle", "lock"} /\ job'[x.job].kind = "metaInitial" => lock' = k
  PROVE  LockKept'
<1>1. \A i \in Workers : exec'[i] = IF i = k THEN x ELSE exec[i] BY DEF IInv, Typed
<1>2. ASSUME NEW i \in Workers \ {k}, exec[i].pc \notin {"idle", "lock"},
             job'[exec[i].job].kind = "metaInitial"
      PROVE  lock' = i
  <2>1. exec[i].job \in Jobs /\ job[exec[i].job].state # "none"
    BY <1>2 DEF IInv, Executions, Carries
  <2>2. job[exec[i].job].kind = "metaInitial" BY <1>2, <2>1 DEF JobsGoOn
  <2> QED BY <1>2, <2>2 DEF IInv, LockKept, Locked
<1> QED BY <1>1, <1>2 DEF LockKept, Locked

LEMMA ExecutionsMove ==
  ASSUME IInv, TypedRest', Onward, NEW k \in Workers, NEW x \in Execution,
         exec' = [exec EXCEPT ![k] = x], Carries(x)'
  PROVE  Executions' /\ exec' \in [Workers -> Execution]
<1>1. \A i \in Workers : exec'[i] = IF i = k THEN x ELSE exec[i] BY DEF IInv, Typed
<1>2. ASSUME NEW i \in Workers PROVE Carries(exec[i])'
  <2>1. CASE i = k BY <1>1, <2>1 DEF Carries
  <2>2. CASE i # k
    <3>1. PICK e \in Execution : e = exec[i] BY DEF IInv, Typed
    <3>2. Carries(e)' BY <3>1, CarriesOnward DEF IInv, Typed, Executions
    <3> QED BY <1>1, <2>2, <3>1, <3>2 DEF Carries
  <2> QED BY <2>1, <2>2
<1> QED BY <1>2 DEF Executions, IInv, Typed

AtWork(x) == x.pc \notin {"idle", "lock", "begin"}

\* What the step of an execution may do to the promises about disconnects and
\* about executions at once.
LEMMA OthersMove ==
  ASSUME IInv, NEW k \in Workers, NEW x, exec' = [exec EXCEPT ![k] = x],
         races \subseteq races', provider' = provider,
         status' = "disconnected" => status = "disconnected",
         AtWork(x) => \/ AtWork(exec[k])
                      \/ /\ status = "connected"
                         /\ "overlap" \notin races' => \A i \in Workers \ {k} : ~AtWork(exec[i]),
         stored' = stored \/ AtWork(exec[k])
  PROVE  Erased' /\ OneAtATime'
<1>1. \A i \in Workers : exec'[i] = IF i = k THEN x ELSE exec[i] BY DEF IInv, Typed
<1>2. Erased' BY <1>1 DEF IInv, Erased, Working, AtWork
<1>3. OneAtATime' BY <1>1 DEF IInv, OneAtATime, Working, AtWork
<1> QED BY <1>2, <1>3

\* A new day may begin, and nothing else.
DataStays == UNCHANGED <<clock, version, stored, rejected, runs>> /\ today' \in {today, today + 1}

LEMMA RunsStaySound ==
  ASSUME TypedRest, DataStays
  PROVE  /\ \A x : RunSound(x) => RunSound(x)'
         /\ \A r \in Records : Safe(r) => Safe(r)'
<1>1. \A res : SavedCursor(res)' = SavedCursor(res)
  BY DEF DataStays, SavedCursor, Completed
<1>2. \A r \in Records : Due(r)' => Due(r)
  <2>1. \A r \in Records : DayOf[r] \in Nat OBVIOUS
  <2>2. InitialDays \in Nat /\ today \in Nat BY DEF TypedRest
  <2> QED BY <2>1, <2>2 DEF Due, DataStays
<1>3. \A r \in Records : Lost(r)' => Lost(r)
  BY <1>1, <1>2 DEF Lost, Covered, Settled, DataStays
<1>4. \A r \in Records : Safe(r) => Safe(r)'  BY <1>1, <1>3 DEF Safe, DataStays
<1>5. \A x : \A r : Reaches(x, r)' <=> Reaches(x, r)  BY DEF Reaches
<1>6. \A x : \A r \in Records : Accounted(x, r) => Accounted(x, r)'
  BY <1>2, <1>5 DEF Accounted, Covered, Settled, DataStays
<1>7. \A x : \A r : /\ Bounded(x, r)' <=> Bounded(x, r)
                    /\ Overtaken(x, r)' <=> Overtaken(x, r)
  BY <1>1, <1>5 DEF Bounded, Overtaken, Covered, DataStays
<1>8. \A x : RunSound(x) => RunSound(x)'
  <2>1. SUFFICES ASSUME NEW x, RunSound(x) PROVE RunSound(x)' OBVIOUS
  <2> QED BY <2>1, <1>6, <1>7 DEF RunSound, DataStays
<1> QED BY <1>4, <1>8

\* Nothing is stored and no run moves.
LEMMA QuietIsSound ==
  ASSUME IInv, DataStays, Undisturbed' => Undisturbed,
         NEW k \in Workers, NEW x, exec' = [exec EXCEPT ![k] = x],
         Undisturbed' => RunSound(x)
  PROVE  Sound'
<1>1. \A i \in Workers : exec'[i] = IF i = k THEN x ELSE exec[i] BY DEF IInv, Typed
<1>2. ASSUME Undisturbed' PROVE \A i \in Workers : RunSound(exec'[i])
  BY <1>1, <1>2 DEF IInv, Sound
<1>3. ASSUME Undisturbed' PROVE \A i \in Workers : RunSound(exec[i])'
  <2>1. ASSUME NEW i \in Workers PROVE RunSound(exec[i])'
    <3>1. PICK y : y = exec'[i] OBVIOUS
    <3>2. RunSound(y)' BY <1>2, <1>3, <3>1, RunsStaySound DEF IInv, Typed
    <3> QED BY <3>1, <3>2 DEF RunSound, Accounted, Bounded, Overtaken, Reaches
  <2> QED BY <2>1
<1> QED BY <1>3, RunsStaySound DEF IInv, Typed, Sound

LEMMA StillnessIsSound ==
  ASSUME IInv, DataStays, Undisturbed' => Undisturbed, UNCHANGED exec
  PROVE  Sound'
<1>1. ASSUME Undisturbed, NEW i \in Workers PROVE RunSound(exec[i])'
  <2>1. PICK y : y = exec[i] OBVIOUS
  <2>2. RunSound(y)' BY <1>1, <2>1, RunsStaySound DEF IInv, Typed, Sound
  <2> QED BY <2>1, <2>2 DEF RunSound, Accounted, Bounded, Overtaken, Reaches
<1> QED BY <1>1, RunsStaySound DEF IInv, Typed, Sound

\* One that does not work yet has nothing to lose.
LEMMA RestIsSound ==
  ASSUME NEW x, ~AtWork(x), RunSound(x)
  PROVE  RunSound(x)'
BY DEF AtWork, RunSound, InRun

\* The one execution at work stores, or moves its run.
LEMMA WorkIsSound ==
  ASSUME IInv, Undisturbed' => Undisturbed,
         NEW k \in Workers, NEW x, exec' = [exec EXCEPT ![k] = x], AtWork(exec[k]),
         Undisturbed => RunSound(x)' /\ \A r \in Records : Safe(r)'
  PROVE  Sound'
<1>1. \A i \in Workers : exec'[i] = IF i = k THEN x ELSE exec[i] BY DEF IInv, Typed
<1>2. ASSUME Undisturbed, NEW i \in Workers PROVE RunSound(exec[i])'
  <2>1. CASE i = k
    <3>1. RunSound(x)' BY <1>2
    <3>2. x = exec'[i] BY <1>1, <2>1
    <3> QED BY <3>1, <3>2 DEF RunSound, Accounted, Bounded, Overtaken, Reaches
  <2>2. CASE i # k
    <3>1. PICK y : y = exec[i] OBVIOUS
    <3>2. ~AtWork(y)
      BY <1>2, <2>2, <3>1 DEF IInv, OneAtATime, Undisturbed, Working, AtWork
    <3>3. RunSound(y) BY <1>2, <3>1 DEF IInv, Sound
    <3>4. RunSound(y)' BY <3>2, <3>3, RestIsSound
    <3> QED BY <1>1, <2>2, <3>1, <3>4 DEF RunSound, Accounted, Bounded, Overtaken, Reaches
  <2> QED BY <2>1, <2>2
<1> QED BY <1>2 DEF Sound

-----------------------------------------------------------------------------
(* Which resource is in hand, and which cursor is saved.                    *)

\* A nonempty set of positions has a first one.
LEMMA Smallest ==
  ASSUME NEW S, S \subseteq Nat, S # {}
  PROVE  \E i \in S : \A j \in S : i <= j
<1>1. \A x, y \in Nat : <<y, x>> \notin OpToRel(<, Nat) => x <= y BY DEF OpToRel
<1> QED BY <1>1, NatLessThanWellFounded, WFMin

\* A nonempty set of positions has a last one: the first of its mirror image.
LEMMA Largest ==
  ASSUME NEW n \in Nat, NEW S, S \subseteq 1..n, S # {}
  PROVE  \E i \in S : \A j \in S : j <= i
<1> DEFINE flip(i) == n - i  mirror == {flip(i) : i \in S}
<1>1. \A i \in S : i \in Nat /\ flip(i) \in Nat /\ flip(i) \in mirror OBVIOUS
<1>2. mirror \subseteq Nat /\ mirror # {} BY <1>1
<1> HIDE DEF mirror
<1>3. PICK m \in mirror : \A y \in mirror : m <= y BY <1>2, Smallest
<1>4. PICK i \in S : m = flip(i) BY DEF mirror
<1>5. \A j \in S : flip(i) <= flip(j) BY <1>1, <1>3, <1>4
<1> QED BY <1>1, <1>5

LEMMA FirstIsLeft ==
  ASSUME NEW S \in Places, S # {}
  PROVE  First(S) \in S /\ Resources[First(S)] \in AllNames
<1>1. Len(Resources) \in Nat /\ S \subseteq 1..Len(Resources) BY DEF Places, All
<1>2. S \subseteq Nat BY <1>1
<1>3. \E i \in S : \A n \in S : i <= n  BY <1>2, Smallest
<1>4. First(S) \in S BY <1>3 DEF First
<1> QED BY <1>1, <1>4 DEF AllNames

LEMMA LastCompleted ==
  ASSUME runs \in Seq(Run), NEW res, Completed(res) # {}
  PROVE  LET n == CHOOSE i \in Completed(res) : \A m \in Completed(res) : m <= i IN
         /\ n \in Completed(res) /\ \A m \in Completed(res) : m <= n
         /\ n \in 1..Len(runs) /\ SavedCursor(res) = runs[n].cursor
<1>1. Len(runs) \in Nat /\ Completed(res) \subseteq 1..Len(runs) BY DEF Completed
<1>2. \E i \in Completed(res) : \A m \in Completed(res) : m <= i  BY <1>1, Largest
<1> QED BY <1>1, <1>2 DEF SavedCursor

LEMMA SavedCursorIsNat ==
  ASSUME runs \in Seq(Run), NEW res
  PROVE  SavedCursor(res) \in Nat
<1>1. CASE Completed(res) = {} BY <1>1 DEF SavedCursor
<1>2. CASE Completed(res) # {}
  <2>1. PICK n \in 1..Len(runs) : SavedCursor(res) = runs[n].cursor  BY <1>2, LastCompleted
  <2>2. runs[n] \in Run BY <2>1
  <2> QED BY <2>1, <2>2 DEF Run
<1> QED BY <1>1, <1>2

\* A run that is not completed says nothing about cursors.
LEMMA SavedCursorStays ==
  ASSUME runs \in Seq(Run), NEW res, Completed(res)' = Completed(res),
         \A i \in Completed(res) : runs'[i].cursor = runs[i].cursor
  PROVE  SavedCursor(res)' = SavedCursor(res)
<1>1. CASE Completed(res) = {} BY <1>1 DEF SavedCursor
<1>2. CASE Completed(res) # {} BY <1>2, LastCompleted DEF SavedCursor
<1> QED BY <1>1, <1>2

\* One run changes, or one begins.
RunSet(i, y) ==
  /\ runs' \in Seq(Run) /\ Len(runs') = Len(runs)
  /\ \A n \in 1..Len(runs) : runs'[n] = IF n = i THEN y ELSE runs[n]

LEMMA RunIsSet ==
  ASSUME runs \in Seq(Run), NEW i \in 1..Len(runs), NEW y \in Run, runs' = [runs EXCEPT ![i] = y]
  PROVE  RunSet(i, y)
BY DEF RunSet

LEMMA RunBegins ==
  ASSUME runs \in Seq(Run), NEW y \in Run, runs' = Append(runs, y)
  PROVE  /\ runs' \in Seq(Run) /\ Len(runs') = Len(runs) + 1
         /\ \A n \in 1..Len(runs) : runs'[n] = runs[n]
         /\ runs'[Len(runs) + 1] = y
OBVIOUS

\* A run that was not completed and is not now leaves every cursor.
LEMMA CursorsStay ==
  ASSUME runs \in Seq(Run), NEW i \in 1..Len(runs), NEW y \in Run, RunSet(i, y),
         runs[i].status \notin {"success", "partial"}, y.status \notin {"success", "partial"}
  PROVE  \A res : SavedCursor(res)' = SavedCursor(res)
<1> SUFFICES ASSUME NEW res PROVE SavedCursor(res)' = SavedCursor(res) OBVIOUS
<1>1. Completed(res)' = Completed(res)  BY DEF Completed, RunSet
<1>2. \A n \in Completed(res) : runs'[n].cursor = runs[n].cursor  BY DEF Completed, RunSet
<1> QED BY <1>1, <1>2, SavedCursorStays

\* A run that is completed is the one that counts, or an earlier one still is.
LEMMA CursorMoves ==
  ASSUME runs \in Seq(Run), NEW i \in 1..Len(runs), NEW y \in Run, RunSet(i, y),
         runs[i].status = "running"
  PROVE  /\ SavedCursor(y.res)' \in {y.cursor, SavedCursor(y.res)}
         /\ \A res : runs[i].res # res /\ y.res # res => SavedCursor(res)' = SavedCursor(res)
<1>1. ASSUME NEW res, runs[i].res # res /\ y.res # res
      PROVE  SavedCursor(res)' = SavedCursor(res)
  <2>1. Completed(res)' = Completed(res)  BY <1>1 DEF Completed, RunSet
  <2>2. \A n \in Completed(res) : runs'[n].cursor = runs[n].cursor
    BY <1>1 DEF Completed, RunSet
  <2> QED BY <2>1, <2>2, SavedCursorStays
<1> DEFINE res == y.res  before == Completed(res)  after == Completed(res)'
           last == CHOOSE n \in after : \A m \in after : m <= n
<1>2. SavedCursor(res)' \in {y.cursor, SavedCursor(res)}
  <2>0. Len(runs) \in Nat /\ Len(runs') = Len(runs) BY DEF RunSet
  <2>1. before \subseteq 1..Len(runs) /\ after \subseteq 1..Len(runs) /\ i \notin before
    BY <2>0 DEF Completed
  <2>2. /\ \A n \in 1..Len(runs) : n # i => (n \in after <=> n \in before)
        /\ \A n \in before : runs'[n] = runs[n]
    BY <2>0, <2>1 DEF Completed, RunSet
  <2>3. SavedCursor(res)' = IF after = {} THEN 0 ELSE runs'[last].cursor
    BY DEF SavedCursor
  <2>4. CASE after = {}
    <3>1. before = {} BY <2>1, <2>2, <2>4
    <3> QED BY <2>3, <2>4, <3>1 DEF SavedCursor
  <2>5. CASE after # {}
    <3> HIDE DEF after, before
    <3>1. last \in after /\ \A m \in after : m <= last
      BY <2>0, <2>1, <2>5, Largest
    <3> HIDE DEF last
    <3>2. CASE last = i BY <2>1, <2>3, <2>5, <3>1, <3>2 DEF RunSet
    <3>3. CASE last # i
      <4>1. last \in before /\ \A m \in before : m <= last BY <2>1, <2>2, <3>1, <3>3
      <4>2. PICK n \in before : /\ \A m \in before : m <= n
                                /\ SavedCursor(res) = runs[n].cursor
        BY <4>1, LastCompleted DEF before
      <4>3. n = last BY <2>0, <2>1, <4>1, <4>2
      <4> QED BY <2>2, <2>3, <2>5, <4>1, <4>2, <4>3
    <3> QED BY <3>2, <3>3
  <2> QED BY <2>4, <2>5
<1> QED BY <1>1, <1>2

LEMMA CursorsStayWhenOneBegins ==
  ASSUME runs \in Seq(Run), NEW y \in Run, runs' = Append(runs, y), y.status = "running"
  PROVE  \A res : SavedCursor(res)' = SavedCursor(res)
<1> SUFFICES ASSUME NEW res PROVE SavedCursor(res)' = SavedCursor(res) OBVIOUS
<1>1. Len(runs) \in Nat OBVIOUS
<1>2. \A n \in 1..Len(runs') : n \in 1..Len(runs) \/ n = Len(runs) + 1  BY <1>1, RunBegins
<1>3. 1..Len(runs) \subseteq 1..Len(runs')  BY <1>1, RunBegins
<1>4. Completed(res)' = Completed(res)  BY <1>2, <1>3, RunBegins DEF Completed
<1>5. \A n \in Completed(res) : runs'[n].cursor = runs[n].cursor  BY RunBegins DEF Completed
<1> QED BY <1>4, <1>5, SavedCursorStays

-----------------------------------------------------------------------------
(* What the parts of a step add up to.                                      *)

LEMMA UndisturbedBefore ==
  ASSUME races \subseteq races', provider' = provider,
         provider = "shopify" \/ (status' = "connected" => status = "connected")
  PROVE  Undisturbed' => Undisturbed
BY DEF Undisturbed

\* A step of one execution.
LEMMA ExecutionSteps ==
  ASSUME IInv, TypedRest', Clocked', Onward,
         NEW k \in Workers, NEW x \in Execution, exec' = [exec EXCEPT ![k] = x], Carries(x)',
         \A i \in Workers \ {k} : lock = i => lock' = i,
         x.pc \notin {"idle", "lock"} /\ job'[x.job].kind = "metaInitial" => lock' = k,
         races \subseteq races', provider' = provider,
         status' = "disconnected" => status = "disconnected",
         AtWork(x) => \/ AtWork(exec[k])
                      \/ /\ status = "connected"
                         /\ "overlap" \notin races' => \A i \in Workers \ {k} : ~AtWork(exec[i]),
         stored' = stored \/ AtWork(exec[k]),
         Sound'
  PROVE  IInv'
<1>1. Executions' /\ exec' \in [Workers -> Execution] BY ExecutionsMove
<1>2. LockKept' BY LocksMove DEF Onward
<1>3. Erased' /\ OneAtATime' BY OthersMove
<1> QED BY <1>1, <1>2, <1>3 DEF IInv, Typed, Onward, JobsGoOn

\* A step that is none of the executions'.
LEMMA OthersStep ==
  ASSUME IInv, TypedRest', Clocked', Onward, UNCHANGED exec,
         \A k \in Workers : lock = k => lock' = k,
         Erased', races \subseteq races', Sound'
  PROVE  IInv'
<1>1. Executions'
  <2>1. ASSUME NEW k \in Workers PROVE Carries(exec[k])'
    <3>1. PICK e \in Execution : e = exec[k] BY DEF IInv, Typed
    <3>2. Carries(e)' BY <3>1, CarriesOnward DEF IInv, Typed, Executions
    <3> QED BY <3>1, <3>2 DEF Carries
  <2> QED BY <2>1 DEF Executions
<1>2. LockKept' BY LocksStay DEF Onward
<1>3. OneAtATime' BY DEF IInv, OneAtATime, Working
<1> QED BY <1>1, <1>2, <1>3 DEF IInv, Typed, Onward, JobsGoOn

\* One job changes, and is still a job.
JobSet(j, y) == \A i \in Jobs : job'[i] = IF i = j THEN y ELSE job[i]

LEMMA JobIsSet ==
  ASSUME IInv, NEW j \in Jobs, NEW y \in Job, JobSet(j, y),
         y.state # "none", y.want # {}, job[j].state # "none" => y.kind = job[j].kind
  PROVE  JobsGoOn
BY DEF JobSet, JobsGoOn, JobsWant, IInv

LEMMA JobStateIsSet ==
  ASSUME IInv, NEW j \in Jobs, job[j].state # "none", NEW s \in JobStates \ {"none"},
         job' = [job EXCEPT ![j].state = s]
  PROVE  job' \in [Jobs -> Job] /\ JobsGoOn
<1>1. PICK z \in Job : z = job[j] BY DEF IInv, Typed, TypedRest
<1> DEFINE y == [z EXCEPT !.state = s]
<1>2. y \in Job /\ y.state = s /\ y.want = z.want /\ y.kind = z.kind /\ y.tries = z.tries
  BY DEF Job
<1>3. job' = [job EXCEPT ![j] = y] BY <1>1
<1> HIDE DEF y
<1>4. job \in [Jobs -> Job] BY DEF IInv, Typed, TypedRest
<1>4a. job' \in [Jobs -> Job] /\ JobSet(j, y) BY <1>2, <1>3, <1>4 DEF JobSet
<1>5. y.want # {} BY <1>1, <1>2 DEF IInv, JobsWant
<1> QED BY <1>1, <1>2, <1>4a, <1>5, JobIsSet

LEMMA NothingGoesOn ==
  ASSUME IInv, UNCHANGED job
  PROVE  JobsGoOn
BY DEF IInv, JobsGoOn, JobsWant

LEMMA ClockStays ==
  ASSUME IInv, UNCHANGED <<clock, version>>, events \in Nat, events' \in Nat, events <= events'
  PROVE  Clocked'
<1>1. clock \in 1..(events + 1) BY DEF IInv, Clocked
<1>2. clock' = clock /\ version' = version OBVIOUS
<1>3. \A e, f \in Nat : \A c \in 1..(e + 1) : e <= f => c \in 1..(f + 1)  OBVIOUS
<1>4. clock' \in 1..(events' + 1) BY <1>1, <1>2, <1>3
<1> QED BY <1>2, <1>4 DEF IInv, Clocked

\* What an action of Event leaves.
LEMMA EventCounts ==
  ASSUME IInv, Event
  PROVE  events \in Nat /\ events' \in 0..MaxEvents /\ events' = events + 1
BY DEF IInv, Typed, TypedRest, Event

LEMMA NoEvent ==
  ASSUME IInv, UNCHANGED events
  PROVE  events \in Nat /\ events' \in Nat /\ events <= events'
BY DEF IInv, Typed, TypedRest

\* An execution that is idle has nothing to answer for.
LEMMA IdleIsQuiet == Carries(Idle)' /\ RunSound(Idle) /\ ~AtWork(Idle)
<1>1. Idle.pc = "idle" /\ Idle.paging = "first" /\ Idle.pending = {} BY DEF Idle
<1>2. Carries(Idle)' BY <1>1 DEF Carries, InRun
<1>3. RunSound(Idle) /\ ~AtWork(Idle) BY <1>1 DEF RunSound, InRun, AtWork
<1> QED BY <1>2, <1>3

-----------------------------------------------------------------------------
(* Users, the queue and Redis.                                              *)

LEMMA Enqueued ==
  ASSUME IInv, NEW j \in Jobs, NEW kind \in Kinds, NEW want \in Places \ {{}},
         Enqueue(j, kind, want)
  PROVE  job' \in [Jobs -> Job] /\ JobsGoOn
<1> DEFINE y == [state |-> "queued", kind |-> kind, tries |-> 0, want |-> want]
<1>1. y \in Job /\ y.state = "queued" /\ y.want = want /\ y.kind = kind BY Members DEF Job
<1>2. job' = [job EXCEPT ![j] = y] /\ job[j].state = "none" BY DEF Enqueue
<1> HIDE DEF y
<1>3. job \in [Jobs -> Job] BY DEF IInv, Typed, TypedRest
<1>4. job' \in [Jobs -> Job] /\ JobSet(j, y) BY <1>1, <1>2, <1>3 DEF JobSet
<1> QED BY <1>1, <1>2, <1>4, JobIsSet

LEMMA WantsAreNamed ==
  /\ \A p \in {"shopify", "meta"} :
       Offered[p] \in Places \ {{}} /\ Incremental[p] \in Places \ {{}}
  /\ Choices \subseteq Places \ {{}}
BY DEF Places, All

LEMMA RequestSyncStep ==
  ASSUME IInv, NEW j \in Jobs, RequestSync(j)
  PROVE  IInv'
<1>1. PICK want \in Places \ {{}} : Enqueue(j, "manual", want)
  <2>1. provider \in {"shopify", "meta"} BY DEF IInv, Typed, TypedRest
  <2> QED BY <2>1, WantsAreNamed DEF RequestSync
<1>2. job' \in [Jobs -> Job] /\ JobsGoOn BY <1>1, Enqueued, Members
<1>3. events \in Nat /\ events' \in 0..MaxEvents /\ events' = events + 1
  BY EventCounts DEF RequestSync
<1>4. TypedRest'
  BY <1>2, <1>3 DEF RequestSync, connVars, feedVars, dataVars, IInv, Typed, TypedRest
<1>5. Clocked' BY <1>3, ClockStays DEF RequestSync, feedVars
<1>6. runs' = runs /\ Len(runs) \in Nat
  BY DEF RequestSync, feedVars, IInv, Typed, TypedRest, Times
<1>7. Onward BY <1>2, <1>6 DEF Onward
<1>8. Sound' BY StillnessIsSound
  DEF RequestSync, connVars, feedVars, dataVars, DataStays, Undisturbed
<1>9. Erased' BY DEF RequestSync, connVars, dataVars, IInv, Erased, Working
<1> QED BY <1>4, <1>5, <1>7, <1>8, <1>9, OthersStep DEF RequestSync

LEMMA JobExhaustedStep ==
  ASSUME IInv, NEW j \in Jobs, JobExhausted(j)
  PROVE  IInv'
<1>0. "done" \in JobStates \ {"none"} BY Members
<1>01. job[j].state # "none" /\ job' = [job EXCEPT ![j].state = "done"] BY DEF JobExhausted
<1>1. job' \in [Jobs -> Job] /\ JobsGoOn
  <2> HIDE DEF JobExhausted
  <2> QED BY <1>0, <1>01, JobStateIsSet
<1>2. TypedRest'
  BY <1>1 DEF JobExhausted, connVars, feedVars, dataVars, IInv, Typed, TypedRest
<1>3. Clocked' BY NoEvent, ClockStays DEF JobExhausted, feedVars
<1>4. runs' = runs /\ Len(runs) \in Nat
  BY DEF JobExhausted, feedVars, IInv, Typed, TypedRest, Times
<1>5. Onward BY <1>1, <1>4 DEF Onward
<1>6. Sound' BY StillnessIsSound
  DEF JobExhausted, connVars, feedVars, dataVars, DataStays, Undisturbed
<1>7. Erased' BY DEF JobExhausted, connVars, dataVars, IInv, Erased, Working
<1> QED BY <1>2, <1>3, <1>5, <1>6, <1>7, OthersStep DEF JobExhausted

LEMMA LeaseExpiresStep ==
  ASSUME IInv, NEW j \in Jobs, LeaseExpires(j)
  PROVE  IInv'
<1>0. "queued" \in JobStates \ {"none"} BY Members
<1>01. job[j].state # "none" /\ job' = [job EXCEPT ![j].state = "queued"] BY DEF LeaseExpires
<1>1. job' \in [Jobs -> Job] /\ JobsGoOn
  <2> HIDE DEF LeaseExpires
  <2> QED BY <1>0, <1>01, JobStateIsSet
<1>2. TypedRest'
  BY <1>1 DEF LeaseExpires, connVars, feedVars, dataVars, IInv, Typed, TypedRest
<1>3. Clocked' BY NoEvent, ClockStays DEF LeaseExpires, feedVars
<1>4. runs' = runs /\ Len(runs) \in Nat
  BY DEF LeaseExpires, feedVars, IInv, Typed, TypedRest, Times
<1>5. Onward BY <1>1, <1>4 DEF Onward
<1>6. Sound' BY StillnessIsSound
  DEF LeaseExpires, connVars, feedVars, dataVars, DataStays, Undisturbed
<1>7. Erased' BY DEF LeaseExpires, connVars, dataVars, IInv, Erased, Working
<1> QED BY <1>2, <1>3, <1>5, <1>6, <1>7, OthersStep DEF LeaseExpires

LEMMA LockExpiresStep ==
  ASSUME IInv, LockExpires
  PROVE  IInv'
<1>1. JobsGoOn BY NothingGoesOn DEF LockExpires
<1>2. TypedRest'
  BY Members DEF LockExpires, connVars, feedVars, dataVars, IInv, Typed, TypedRest
<1>3. Clocked' BY NoEvent, ClockStays DEF LockExpires, feedVars
<1>4. runs' = runs /\ Len(runs) \in Nat
  BY DEF LockExpires, feedVars, IInv, Typed, TypedRest, Times
<1>5. Onward BY <1>1, <1>4 DEF Onward
<1>6. Sound' BY StillnessIsSound
  DEF LockExpires, connVars, feedVars, dataVars, DataStays, Undisturbed
<1>7. Erased' BY DEF LockExpires, connVars, dataVars, IInv, Erased, Working
<1>8. \A k \in Workers : lock # k BY DEF LockExpires
<1> QED BY <1>2, <1>3, <1>5, <1>6, <1>7, <1>8, OthersStep DEF LockExpires

LEMMA NewDayStep ==
  ASSUME IInv, NewDay
  PROVE  IInv'
<1>1. JobsGoOn BY NothingGoesOn DEF NewDay
<1>2. today' \in 1..LastDay BY DEF NewDay, IInv, Typed, TypedRest
<1>3. TypedRest'
  BY <1>2 DEF NewDay, connVars, dataVars, IInv, Typed, TypedRest
<1>4. Clocked' BY NoEvent, ClockStays DEF NewDay
<1>5. runs' = runs /\ Len(runs) \in Nat BY DEF NewDay, IInv, Typed, TypedRest
<1>6. Onward BY <1>1, <1>5 DEF Onward
<1>7. Sound' BY StillnessIsSound DEF NewDay, connVars, dataVars, DataStays, Undisturbed
<1>8. Erased' BY DEF NewDay, connVars, dataVars, IInv, Erased, Working
<1> QED BY <1>3, <1>4, <1>6, <1>7, <1>8, OthersStep DEF NewDay

LEMMA DisconnectStep ==
  ASSUME IInv, Disconnect
  PROVE  IInv'
<1>1. JobsGoOn BY NothingGoesOn DEF Disconnect
<1>2. events \in Nat /\ events' \in 0..MaxEvents /\ events' = events + 1
  BY EventCounts DEF Disconnect
<1>3. races' \subseteq Races /\ races \subseteq races'
  BY DEF Disconnect, IInv, Typed, TypedRest, Races
<1>4. stored' \in [Records -> Times]
  BY Members DEF Disconnect, IInv, Typed, TypedRest
<1>5. TypedRest'
  BY <1>2, <1>3, <1>4, Members DEF Disconnect, feedVars, IInv, Typed, TypedRest
<1>6. Clocked' BY <1>2, ClockStays DEF Disconnect, feedVars
<1>7. runs' = runs /\ Len(runs) \in Nat
  BY DEF Disconnect, feedVars, IInv, Typed, TypedRest, Times
<1>8. Onward BY <1>1, <1>7 DEF Onward
<1>9. Sound'
  <2>1. CASE provider = "meta"
    <3>1. ~Undisturbed' BY <2>1 DEF Disconnect, Undisturbed
    <3> QED BY <3>1 DEF Sound
  <2>2. CASE provider # "meta"
    <3>1. provider = "shopify" BY <2>2 DEF IInv, Typed, TypedRest
    <3>2. DataStays BY <2>2 DEF Disconnect, feedVars, DataStays
    <3>3. Undisturbed' => Undisturbed BY <1>3, <3>1 DEF Disconnect, Undisturbed
    <3> QED BY <3>2, <3>3, StillnessIsSound DEF Disconnect
  <2> QED BY <2>1, <2>2
<1>10. Erased' BY DEF Disconnect, Erased, Working
<1> QED BY <1>3, <1>5, <1>6, <1>8, <1>9, <1>10, OthersStep DEF Disconnect

LEMMA ReconnectStep ==
  ASSUME IInv, NEW j \in Jobs, Reconnect(j)
  PROVE  IInv'
<1>1. job' \in [Jobs -> Job] /\ JobsGoOn BY Enqueued, Members, WantsAreNamed DEF Reconnect
<1>2. events \in Nat /\ events' \in 0..MaxEvents /\ events' = events + 1
  BY EventCounts DEF Reconnect
<1>3. races' \subseteq Races /\ races \subseteq races'
  BY DEF Reconnect, IInv, Typed, TypedRest, Races
<1>4. clock \in 1..(events + 1) /\ 0 \in Times /\ 1 \in Times
  BY DEF IInv, Clocked, Times
<1>40. \A r \in Records : version'[r] \in {version[r], 0, 1}
  BY DEF Reconnect, IInv, Typed, TypedRest
<1>5. stored' \in [Records -> Times] /\ version' \in [Records -> Times]
  <2>1. version' \in [Records -> Times]
    <3>1. CASE version' = version BY <3>1 DEF IInv, Typed, TypedRest
    <3>2. CASE version' = [r \in Records |-> IF Born(r) THEN 1 ELSE 0] BY <1>4, <3>2
    <3> QED BY <3>1, <3>2 DEF Reconnect
  <2>2. stored' \in [Records -> Times]
    <3>1. CASE stored' = stored BY <3>1 DEF IInv, Typed, TypedRest
    <3>2. CASE stored' = [r \in Records |-> 0] BY <1>4, <3>2
    <3> QED BY <3>1, <3>2 DEF Reconnect
  <2> QED BY <2>1, <2>2
<1>6. TypedRest'
  BY <1>1, <1>2, <1>3, <1>5, Members DEF Reconnect, IInv, Typed, TypedRest
<1>7. clock' = clock /\ runs' = runs /\ Len(runs) \in Nat
  BY DEF Reconnect, IInv, Typed, TypedRest
<1>8. Onward BY <1>1, <1>7 DEF Onward
<1>9. Clocked'
  <2>1. clock' \in 1..(events' + 1) BY <1>2, <1>4, <1>7
  <2>2. 0 \in 0..clock /\ 1 \in 0..clock BY <1>2, <1>4
  <2>3. \A r \in Records : version'[r] \in 0..clock
    BY <1>40, <2>2 DEF IInv, Clocked
  <2> QED BY <2>1, <2>3, <1>7 DEF Clocked
<1>10. Sound'
  <2>1. CASE "newShop" \in races'
    <3>1. ~Undisturbed' BY <2>1 DEF Undisturbed
    <3> QED BY <3>1 DEF Sound
  <2>2. CASE "newShop" \notin races'
    <3>1. DataStays BY <2>2 DEF Reconnect, dataVars, DataStays
    <3>2. Undisturbed' => Undisturbed BY <1>3 DEF Reconnect, Undisturbed
    <3> QED BY <3>1, <3>2, StillnessIsSound DEF Reconnect
  <2> QED BY <2>1, <2>2
<1>11. Erased' BY DEF Reconnect, Erased
<1> QED BY <1>3, <1>6, <1>8, <1>9, <1>10, <1>11, OthersStep DEF Reconnect

-----------------------------------------------------------------------------
(* Executions that begin and end.                                           *)

\* Every change of an execution: what it was, and what one of its kind is.
LEMMA OneOfExec ==
  ASSUME IInv, NEW k \in Workers
  PROVE  \E e \in Execution : /\ e = exec[k] /\ Carries(e)
                              /\ Undisturbed => RunSound(e)
BY DEF IInv, Typed, Executions, Sound

LEMMA EndJobGoesOn ==
  ASSUME IInv, NEW k \in Workers, exec[k].pc # "idle",
         NEW s \in {"queued", "done"}, EndJob(k, s)
  PROVE  /\ job' \in [Jobs -> Job] /\ JobsGoOn /\ lock' \in AnyLock
         /\ exec' = [exec EXCEPT ![k] = Idle]
         /\ \A i \in Workers \ {k} : lock = i => lock' = i
<1>1. PICK e \in Execution : e = exec[k] /\ Carries(e) BY OneOfExec
<1>2. e.job \in Jobs /\ job[e.job].state # "none" BY <1>1 DEF Carries
<1>3. s \in JobStates \ {"none"} BY Members
<1>4. job' = [job EXCEPT ![e.job].state = s] BY <1>1 DEF EndJob
<1>5. job' \in [Jobs -> Job] /\ JobsGoOn BY <1>2, <1>3, <1>4, JobStateIsSet
<1>6. lock' \in AnyLock BY Members DEF EndJob, IInv, Typed, TypedRest
<1> QED BY <1>5, <1>6 DEF EndJob

\* The job ends, and the data stays.
LEMMA EndingSteps ==
  ASSUME IInv, NEW k \in Workers, exec[k].pc # "idle", NEW s \in {"queued", "done"},
         EndJob(k, s), TypedRest', Clocked', Len(runs) <= Len(runs'),
         races \subseteq races', provider' = provider, stored' = stored,
         status' = "disconnected" => status = "disconnected",
         Sound'
  PROVE  IInv'
<1>1. JobsGoOn /\ exec' = [exec EXCEPT ![k] = Idle]
      /\ \A i \in Workers \ {k} : lock = i => lock' = i
  BY EndJobGoesOn
<1>2. Carries(Idle)' /\ RunSound(Idle) /\ ~AtWork(Idle) BY IdleIsQuiet
<1>3. Onward BY <1>1 DEF Onward
<1>4. Idle \in Execution /\ Idle.pc = "idle" BY IdleIsAnExecution DEF Idle
<1> QED BY <1>1, <1>2, <1>3, <1>4, ExecutionSteps

LEMMA StartJobStep ==
  ASSUME IInv, NEW k \in Workers, NEW j \in Jobs, StartJob(k, j)
  PROVE  IInv'
<1>1. PICK z \in Job : z = job[j] BY DEF IInv, Typed, TypedRest
<1>0. PICK start \in {"lock", "begin"} : start = IF Locked(j) THEN "lock" ELSE "begin"
  OBVIOUS
<1> DEFINE y == [z EXCEPT !.state = "running", !.tries = @ + 1]
           x == [Idle EXCEPT !.pc = start,
                             !.job = j, !.left = z.want]
<1>2. z.state = "queued" /\ z.tries < MaxTries /\ z.want # {}
  BY <1>1 DEF StartJob, IInv, JobsWant
<1>3. y \in Job /\ y.state = "running" /\ y.want = z.want /\ y.kind = z.kind
  BY <1>2, Members DEF Job
<1>4. x \in Execution
  <2>1. z.want \in Places BY DEF Job
  <2> QED BY <2>1, IdleIsAnExecution, Members DEF Execution
<1>5. /\ x.pc = start /\ x.job = j /\ x.left = z.want
      /\ x.cursor = 0 /\ x.mark = 0 /\ x.pending = {} /\ x.paging = "first"
  BY DEF Idle
<1>6. job' = [job EXCEPT ![j] = y] /\ exec' = [exec EXCEPT ![k] = x]
  BY <1>0, <1>1 DEF StartJob
<1> HIDE DEF x, y
<1>7. job \in [Jobs -> Job] BY DEF IInv, Typed, TypedRest
<1>8. job' \in [Jobs -> Job] /\ JobSet(j, y) BY <1>3, <1>6, <1>7 DEF JobSet
<1>9. JobsGoOn BY <1>1, <1>2, <1>3, <1>8, JobIsSet
<1>10. TypedRest'
  BY <1>8 DEF StartJob, connVars, feedVars, dataVars, IInv, Typed, TypedRest
<1>11. Clocked' BY NoEvent, ClockStays DEF StartJob, feedVars
<1>12. runs' = runs /\ Len(runs) \in Nat
  BY DEF StartJob, feedVars, IInv, Typed, TypedRest, Times
<1>13. Onward BY <1>9, <1>12 DEF Onward
<1>14. Carries(x)'
  <2>1. job'[j].state # "none" BY <1>3, <1>8 DEF JobSet
  <2>2. x.pc \notin InRun BY <1>5 DEF InRun
  <2> QED BY <1>2, <1>5, <1>12, <2>1, <2>2 DEF Carries
<1>15. RunSound(x) /\ ~AtWork(x) BY <1>5 DEF RunSound, InRun, AtWork
<1>16. Sound' BY <1>6, <1>15, QuietIsSound
  DEF StartJob, connVars, feedVars, dataVars, DataStays, Undisturbed
<1>17. x.pc \notin {"idle", "lock"} /\ job'[x.job].kind = "metaInitial" => lock' = k
  BY <1>0, <1>1, <1>3, <1>5, <1>8 DEF JobSet, Locked
<1> QED BY <1>4, <1>6, <1>10, <1>11, <1>13, <1>14, <1>15, <1>16, <1>17, ExecutionSteps
        DEF StartJob, connVars, dataVars

LEMMA AcquireLockStep ==
  ASSUME IInv, NEW k \in Workers, AcquireLock(k)
  PROVE  IInv'
<1>1. PICK e \in Execution : e = exec[k] /\ Carries(e) /\ (Undisturbed => RunSound(e))
  BY OneOfExec
<1>2. Clocked' BY NoEvent, ClockStays DEF AcquireLock, feedVars
<1>3. runs' = runs /\ Len(runs) \in Nat
  BY DEF AcquireLock, feedVars, IInv, Typed, TypedRest, Times
<1>4. DataStays /\ (Undisturbed' => Undisturbed)
  BY DEF AcquireLock, connVars, feedVars, dataVars, DataStays, Undisturbed
<1>5. CASE lock = Nobody
  <2> DEFINE x == [e EXCEPT !.pc = "begin"]
  <2>1. x \in Execution BY Members DEF Execution
  <2>2. /\ x.pc = "begin" /\ x.job = e.job /\ x.left = e.left /\ x.run = e.run
        /\ x.cursor = e.cursor /\ x.mark = e.mark /\ x.pending = e.pending
        /\ x.paging = e.paging /\ x.page = e.page
    BY DEF Execution
  <2>3. exec' = [exec EXCEPT ![k] = x] /\ e.pc = "lock" BY <1>1, <1>5 DEF AcquireLock
  <2> HIDE DEF x
  <2>4. job' = job /\ lock' = k BY <1>5 DEF AcquireLock
  <2>5. JobsGoOn BY <2>4, NothingGoesOn
  <2>6. Onward BY <1>3, <2>5 DEF Onward
  <2>7. TypedRest'
    BY <2>4, Members DEF AcquireLock, connVars, feedVars, dataVars, IInv, Typed, TypedRest
  <2>8. Carries(x)' BY <1>1, <1>3, <2>2, <2>3, <2>4 DEF Carries, InRun
  <2>9. ~AtWork(x) /\ (Undisturbed => RunSound(x))
    BY <1>1, <2>2, <2>3 DEF RunSound, InRun, AtWork
  <2>10. Sound' BY <1>4, <2>3, <2>9, QuietIsSound
  <2>11. \A i \in Workers : lock # i BY <1>5
  <2> QED BY <1>2, <2>1, <2>3, <2>4, <2>6, <2>7, <2>8, <2>9, <2>10, <2>11, ExecutionSteps
          DEF AcquireLock, connVars, dataVars
<1>6. CASE lock # Nobody
  <2>1. EndJob(k, "done") /\ exec[k].pc # "idle" BY <1>6 DEF AcquireLock
  <2>2. job' \in [Jobs -> Job] /\ lock' \in AnyLock /\ exec' = [exec EXCEPT ![k] = Idle]
    BY <2>1, EndJobGoesOn
  <2>3. TypedRest'
    BY <2>2 DEF AcquireLock, connVars, feedVars, dataVars, IInv, Typed, TypedRest
  <2>4. Sound' BY <1>4, <2>2, <2>3, IdleIsQuiet, QuietIsSound
  <2> QED BY <1>2, <1>3, <2>1, <2>3, <2>4, EndingSteps DEF AcquireLock, connVars, dataVars
<1> QED BY <1>5, <1>6

LEMMA BeginSyncStep ==
  ASSUME IInv, NEW k \in Workers, BeginSync(k)
  PROVE  IInv'
<1>1. PICK e \in Execution : e = exec[k] /\ Carries(e) /\ (Undisturbed => RunSound(e))
  BY OneOfExec
<1>2. Clocked' BY NoEvent, ClockStays DEF BeginSync, feedVars
<1>3. runs' = runs /\ Len(runs) \in Nat
  BY DEF BeginSync, feedVars, IInv, Typed, TypedRest, Times
<1>4. races \subseteq races' /\ races' \subseteq Races
  BY DEF BeginSync, IInv, Typed, TypedRest, Races
<1>5. DataStays /\ (Undisturbed' => Undisturbed)
  BY <1>4 DEF BeginSync, connVars, feedVars, dataVars, DataStays, Undisturbed
<1>6. CASE status = "connected" /\ credential = "stored"
  <2> DEFINE x == [e EXCEPT !.pc = "open"]
  <2>1. x \in Execution BY Members DEF Execution
  <2>2. /\ x.pc = "open" /\ x.job = e.job /\ x.left = e.left /\ x.run = e.run
        /\ x.cursor = e.cursor /\ x.mark = e.mark /\ x.pending = e.pending
        /\ x.paging = e.paging /\ x.page = e.page
    BY DEF Execution
  <2>3. exec' = [exec EXCEPT ![k] = x] /\ e.pc = "begin" BY <1>1, <1>6 DEF BeginSync
  <2> HIDE DEF x
  <2>4. job' = job /\ lock' = lock BY <1>6 DEF BeginSync
  <2>5. JobsGoOn BY <2>4, NothingGoesOn
  <2>6. Onward BY <1>3, <2>5 DEF Onward
  <2>7. TypedRest'
    BY <1>4, <2>4 DEF BeginSync, connVars, feedVars, dataVars, IInv, Typed, TypedRest
  <2>8. Carries(x)' BY <1>1, <1>3, <2>2, <2>3, <2>4 DEF Carries, InRun
  <2>9. Undisturbed => RunSound(x)
    BY <1>1, <2>2, <2>3 DEF RunSound, InRun
  <2>10. Sound' BY <1>5, <2>3, <2>9, QuietIsSound
  <2>11. x.pc \notin {"idle", "lock"} /\ job'[x.job].kind = "metaInitial" => lock' = k
    BY <1>1, <2>2, <2>3, <2>4 DEF IInv, LockKept, Locked
  <2>12. "overlap" \notin races' => \A i \in Workers \ {k} : ~AtWork(exec[i])
    BY <1>6 DEF BeginSync, AtWork, Working
  <2> QED BY <1>2, <1>4, <1>6, <2>1, <2>3, <2>4, <2>6, <2>7, <2>8, <2>10, <2>11, <2>12,
             ExecutionSteps DEF BeginSync, connVars, dataVars
<1>7. CASE ~(status = "connected" /\ credential = "stored")
  <2>1. EndJob(k, "done") /\ exec[k].pc # "idle" BY <1>7 DEF BeginSync
  <2>2. job' \in [Jobs -> Job] /\ lock' \in AnyLock /\ exec' = [exec EXCEPT ![k] = Idle]
    BY <2>1, EndJobGoesOn
  <2>3. TypedRest'
    BY <1>4, <2>2 DEF BeginSync, connVars, feedVars, dataVars, IInv, Typed, TypedRest
  <2>4. Sound' BY <1>5, <2>2, <2>3, IdleIsQuiet, QuietIsSound
  <2>5. provider' = provider /\ stored' = stored /\ status' = status
    BY DEF BeginSync, connVars, dataVars
  <2> QED BY <1>2, <1>3, <1>4, <2>1, <2>3, <2>4, <2>5, EndingSteps
<1> QED BY <1>6, <1>7

LEMMA CompleteJobStep ==
  ASSUME IInv, NEW k \in Workers, CompleteJob(k)
  PROVE  IInv'
<1>1. Clocked' BY NoEvent, ClockStays DEF CompleteJob, feedVars
<1>2. runs' = runs /\ Len(runs) \in Nat
  BY DEF CompleteJob, feedVars, IInv, Typed, TypedRest, Times
<1>3. EndJob(k, "done") /\ exec[k].pc # "idle" BY DEF CompleteJob
<1>4. job' \in [Jobs -> Job] /\ lock' \in AnyLock /\ exec' = [exec EXCEPT ![k] = Idle]
  BY <1>3, EndJobGoesOn
<1>5. TypedRest'
  BY <1>4 DEF CompleteJob, feedVars, dataVars, IInv, Typed, TypedRest
<1>6. DataStays /\ (Undisturbed' => Undisturbed)
  BY DEF CompleteJob, feedVars, dataVars, DataStays, Undisturbed
<1>7. Sound' BY <1>4, <1>5, <1>6, IdleIsQuiet, QuietIsSound
<1> QED BY <1>1, <1>2, <1>3, <1>5, <1>7, EndingSteps DEF CompleteJob, dataVars

LEMMA MarkReconnectRequiredStep ==
  ASSUME IInv, NEW k \in Workers, MarkReconnectRequired(k)
  PROVE  IInv'
<1>1. Clocked' BY NoEvent, ClockStays DEF MarkReconnectRequired, feedVars
<1>2. runs' = runs /\ Len(runs) \in Nat
  BY DEF MarkReconnectRequired, feedVars, IInv, Typed, TypedRest, Times
<1>3. EndJob(k, "done") /\ exec[k].pc # "idle" BY DEF MarkReconnectRequired
<1>4. job' \in [Jobs -> Job] /\ lock' \in AnyLock /\ exec' = [exec EXCEPT ![k] = Idle]
  BY <1>3, EndJobGoesOn
<1>5. TypedRest'
  BY <1>4, Members DEF MarkReconnectRequired, feedVars, dataVars, IInv, Typed, TypedRest
<1>6. DataStays /\ (Undisturbed' => Undisturbed)
  BY DEF MarkReconnectRequired, feedVars, dataVars, DataStays, Undisturbed
<1>7. Sound' BY <1>4, <1>5, <1>6, IdleIsQuiet, QuietIsSound
<1> QED BY <1>1, <1>2, <1>3, <1>5, <1>7, EndingSteps DEF MarkReconnectRequired, dataVars

LEMMA JobTimeoutStep ==
  ASSUME IInv, NEW k \in Workers, JobTimeout(k)
  PROVE  IInv'
<1>1. events \in Nat /\ events' \in 0..MaxEvents /\ events' = events + 1
  BY EventCounts DEF JobTimeout
<1>2. Clocked' BY <1>1, ClockStays DEF JobTimeout, feedVars
<1>3. runs' = runs /\ Len(runs) \in Nat
  BY DEF JobTimeout, feedVars, IInv, Typed, TypedRest, Times
<1>4. EndJob(k, "done") /\ exec[k].pc # "idle" BY DEF JobTimeout
<1>5. job' \in [Jobs -> Job] /\ lock' \in AnyLock /\ exec' = [exec EXCEPT ![k] = Idle]
  BY <1>4, EndJobGoesOn
<1>6. TypedRest'
  BY <1>1, <1>5 DEF JobTimeout, connVars, feedVars, dataVars, IInv, Typed, TypedRest
<1>7. DataStays /\ (Undisturbed' => Undisturbed)
  BY DEF JobTimeout, connVars, feedVars, dataVars, DataStays, Undisturbed
<1>8. Sound' BY <1>5, <1>6, <1>7, IdleIsQuiet, QuietIsSound
<1> QED BY <1>2, <1>3, <1>4, <1>6, <1>8, EndingSteps DEF JobTimeout, connVars, dataVars

LEMMA WorkerDiesStep ==
  ASSUME IInv, NEW k \in Workers, WorkerDies(k)
  PROVE  IInv'
<1>1. events \in Nat /\ events' \in 0..MaxEvents /\ events' = events + 1
  BY EventCounts DEF WorkerDies
<1>2. Clocked' BY <1>1, ClockStays DEF WorkerDies, feedVars
<1>3. runs' = runs /\ Len(runs) \in Nat
  BY DEF WorkerDies, feedVars, IInv, Typed, TypedRest, Times
<1>4. JobsGoOn /\ exec' = [exec EXCEPT ![k] = Idle] BY NothingGoesOn DEF WorkerDies
<1>5. Onward BY <1>3, <1>4 DEF Onward
<1>6. TypedRest'
  BY <1>1, Members DEF WorkerDies, connVars, feedVars, dataVars, IInv, Typed, TypedRest
<1>7. DataStays /\ (Undisturbed' => Undisturbed)
  BY DEF WorkerDies, connVars, feedVars, dataVars, DataStays, Undisturbed
<1>8. Sound' BY <1>4, <1>6, <1>7, IdleIsQuiet, QuietIsSound
<1>9. Carries(Idle)' /\ ~AtWork(Idle) /\ Idle \in Execution /\ Idle.pc = "idle"
  BY <1>6, IdleIsQuiet, IdleIsAnExecution DEF Idle
<1>10. \A i \in Workers \ {k} : lock = i => lock' = i BY DEF WorkerDies
<1> QED BY <1>2, <1>4, <1>5, <1>6, <1>8, <1>9, <1>10, ExecutionSteps
        DEF WorkerDies, connVars, dataVars

\* The client gives up, or takes an error for a page: the run goes no further.
LEMMA FetchFailsStep ==
  ASSUME IInv, NEW k \in Workers, FetchFails(k)
  PROVE  IInv'
<1>1. PICK e \in Execution : e = exec[k] /\ Carries(e) /\ (Undisturbed => RunSound(e))
  BY OneOfExec
<1>2. PICK reason \in Whys : exec' = [exec EXCEPT ![k].pc = "fail", ![k].why = reason]
  BY Members DEF FetchFails
<1> DEFINE x == [e EXCEPT !.pc = "fail", !.why = reason]
<1>3. x \in Execution BY Members DEF Execution
<1>4. /\ x.pc = "fail" /\ x.job = e.job /\ x.left = e.left /\ x.run = e.run
      /\ x.cursor = e.cursor /\ x.mark = e.mark
  BY DEF Execution
<1>5. exec' = [exec EXCEPT ![k] = x] /\ e.pc = "fetch" BY <1>1, <1>2 DEF FetchFails
<1> HIDE DEF x
<1>6. events \in Nat /\ events' \in 0..MaxEvents /\ events' = events + 1
  BY EventCounts DEF FetchFails
<1>7. Clocked' BY <1>6, ClockStays DEF FetchFails, feedVars
<1>8. runs' = runs /\ Len(runs) \in Nat
  BY DEF FetchFails, feedVars, IInv, Typed, TypedRest, Times
<1>9. JobsGoOn /\ job' = job BY NothingGoesOn DEF FetchFails
<1>10. Onward BY <1>8, <1>9 DEF Onward
<1>11. TypedRest'
  BY <1>6 DEF FetchFails, connVars, feedVars, dataVars, IInv, Typed, TypedRest
<1>12. Carries(x)' BY <1>1, <1>4, <1>5, <1>8, <1>9 DEF Carries, InRun
<1>13. Undisturbed => RunSound(x) BY <1>1, <1>4, <1>5 DEF RunSound, InRun
<1>14. DataStays /\ (Undisturbed' => Undisturbed)
  BY DEF FetchFails, connVars, feedVars, dataVars, DataStays, Undisturbed
<1>15. Sound' BY <1>5, <1>13, <1>14, QuietIsSound
<1>16. x.pc \notin {"idle", "lock"} /\ job'[x.job].kind = "metaInitial" => lock' = k
  BY <1>1, <1>4, <1>5, <1>9 DEF FetchFails, IInv, LockKept, Locked
<1>17. AtWork(exec[k]) BY <1>1, <1>5 DEF AtWork
<1> QED BY <1>3, <1>5, <1>7, <1>10, <1>11, <1>12, <1>15, <1>16, <1>17, ExecutionSteps
        DEF FetchFails, connVars, dataVars

LEMMA FetchErrorPageStep ==
  ASSUME IInv, NEW k \in Workers, FetchErrorPage(k)
  PROVE  IInv'
<1>1. PICK e \in Execution : e = exec[k] /\ Carries(e) BY OneOfExec
<1> DEFINE x == [e EXCEPT !.pc = "finish", !.paging = "last", !.pending = {}]
<1>2. x \in Execution BY Members DEF Execution
<1>3. /\ x.pc = "finish" /\ x.job = e.job /\ x.left = e.left /\ x.run = e.run
      /\ x.cursor = e.cursor /\ x.mark = e.mark
  BY DEF Execution
<1>4. exec' = [exec EXCEPT ![k] = x] /\ e.pc = "fetch" BY <1>1 DEF FetchErrorPage
<1> HIDE DEF x
<1>5. events \in Nat /\ events' \in 0..MaxEvents /\ events' = events + 1
  BY EventCounts DEF FetchErrorPage
<1>6. Clocked' BY <1>5, ClockStays DEF FetchErrorPage, feedVars
<1>7. runs' = runs /\ Len(runs) \in Nat
  BY DEF FetchErrorPage, feedVars, IInv, Typed, TypedRest, Times
<1>8. JobsGoOn /\ job' = job BY NothingGoesOn DEF FetchErrorPage
<1>9. Onward BY <1>7, <1>8 DEF Onward
<1>10. races \subseteq races' /\ races' \subseteq Races /\ "errorPage" \in races'
  BY DEF FetchErrorPage, IInv, Typed, TypedRest, Races
<1>11. TypedRest'
  BY <1>5, <1>10 DEF FetchErrorPage, connVars, feedVars, dataVars, IInv, Typed, TypedRest
<1>12. Carries(x)' BY <1>1, <1>3, <1>4, <1>7, <1>8 DEF Carries, InRun
<1>13. Sound' BY <1>10 DEF Sound, Undisturbed
<1>14. x.pc \notin {"idle", "lock"} /\ job'[x.job].kind = "metaInitial" => lock' = k
  BY <1>1, <1>3, <1>4, <1>8 DEF FetchErrorPage, IInv, LockKept, Locked
<1>15. AtWork(exec[k]) BY <1>1, <1>4 DEF AtWork
<1> QED BY <1>2, <1>4, <1>6, <1>9, <1>10, <1>11, <1>12, <1>13, <1>14, <1>15, ExecutionSteps
        DEF FetchErrorPage, connVars, dataVars

-----------------------------------------------------------------------------
(* The steps of a run.                                                      *)

LEMMA OpenRunStep ==
  ASSUME IInv, NEW k \in Workers, OpenRun(k)
  PROVE  IInv'
<1>1. PICK e \in Execution : e = exec[k] /\ Carries(e) /\ (Undisturbed => RunSound(e))
  BY OneOfExec
<1>2. clock' = clock /\ version' = version /\ today' = today /\ clock \in Nat
      /\ Len(runs) \in Nat /\ runs \in Seq(Run)
  BY DEF OpenRun, feedVars, IInv, Typed, TypedRest, Times
<1>3. Undisturbed' => Undisturbed BY DEF OpenRun, connVars, Undisturbed
<1>4. CASE exec[k].session # "expired"
  <2> DEFINE res == Resources[First(e.left)]
  <2>1. e.left \in Places /\ e.left # {} /\ e.pc = "open"
    BY <1>1 DEF OpenRun, Carries, Execution
  <2>2. PICK name \in AllNames : name = Resources[First(e.left)] BY <2>1, FirstIsLeft
  <2>3. PICK c \in Nat : c = IF Initial(e.job) THEN 0 ELSE SavedCursor(name)
    BY <1>2, SavedCursorIsNat
  <2>5. PICK n \in Nat : n = Len(runs) + 1 BY <1>2
  <2> DEFINE y == [res |-> name, status |-> "running", cursor |-> 0]
             x == [e EXCEPT !.pc = "fetch", !.run = n, !.paging = "first",
                            !.mark = 0, !.skipped = "no", !.cursor = c]
  <2>6. y \in Run /\ y.status = "running" /\ y.res = name /\ y.cursor = 0
    BY Members DEF Run, RunStates
  <2>7. x \in Execution BY Members DEF Execution
  <2>8. /\ x.pc = "fetch" /\ x.job = e.job /\ x.left = e.left /\ x.run = n
        /\ x.cursor = c /\ x.mark = 0 /\ x.pending = e.pending /\ x.paging = "first"
        /\ x.asof \in Nat
    BY DEF Execution, Days
  <2>9. runs' = Append(runs, y) /\ exec' = [exec EXCEPT ![k] = x] /\ job' = job /\ lock' = lock
    BY <1>1, <1>4, <2>2, <2>3, <2>5 DEF OpenRun, Resource
  <2> HIDE DEF x, y
  <2>10. /\ runs' \in Seq(Run) /\ Len(runs') = Len(runs) + 1
         /\ \A i \in 1..Len(runs) : runs'[i] = runs[i]
         /\ runs'[Len(runs) + 1] = y
    BY <1>2, <2>6, <2>9, RunBegins
  <2>11. \A name2 : SavedCursor(name2)' = SavedCursor(name2)
    BY <1>2, <2>6, <2>9, CursorsStayWhenOneBegins
  <2>12. TypedRest'
    BY <2>9, <2>10 DEF OpenRun, connVars, feedVars, dataVars, IInv, Typed, TypedRest
  <2>13. Clocked' BY NoEvent, ClockStays DEF OpenRun, feedVars
  <2>14. Onward
    <3>1. JobsGoOn BY <2>9, NothingGoesOn
    <3> QED BY <1>2, <2>10, <3>1 DEF Onward
  <2>15. Carries(x)'
    <3>1. n \in 1..Len(runs') BY <1>2, <2>5, <2>10
    <3> QED BY <1>1, <2>1, <2>8, <2>9, <3>1 DEF Carries
  <2>16. AtWork(exec[k]) BY <1>1, <2>1 DEF AtWork
  <2>17. ASSUME Undisturbed PROVE RunSound(x)' /\ \A r \in Records : Safe(r)'
    <3>1. \A r \in Records : Safe(r) BY <2>17 DEF IInv, Sound
    <3>2. \A r \in Records : Safe(r)'
      BY <1>2, <2>11, <3>1 DEF Safe, Lost, Due, Covered, Settled, OpenRun, dataVars
    <3>3. x.pending = {} BY <1>1, <2>1, <2>8, <2>17 DEF RunSound
    <3>4. runs'[x.run] = y BY <2>5, <2>8, <2>10
    <3>5. SavedCursor(name) \in Nat BY <1>2, SavedCursorIsNat
    <3>6. ASSUME NEW r \in Records, ResourceOf[r] = name
          PROVE  Accounted(x, r)' /\ Bounded(x, r)'
      <4>1. version[r] \in Nat /\ DayOf[r] \in Nat BY DEF IInv, Typed, TypedRest, Times
      <4>2. ~Lost(r) BY <3>1 DEF Safe
      <4>3. ASSUME Due(r), Covered(r, c) PROVE Settled(r)
        <5>1. c # 0 BY <4>1, <4>3 DEF Due, Covered
        <5> QED BY <2>3, <3>6, <4>2, <4>3, <5>1 DEF Lost
      <4>4. Accounted(x, r)'
        BY <1>2, <2>8, <4>3 DEF Accounted, Due, Covered, Settled, OpenRun, dataVars
      <4>5. SavedCursor(ResourceOf[r])' = SavedCursor(name) BY <2>11, <3>6
      <4>6. Bounded(x, r)'
        BY <1>2, <2>3, <2>8, <3>3, <3>5, <4>5 DEF Bounded
      <4> QED BY <4>4, <4>6
    <3>7. RunSound(x)' BY <2>2, <2>6, <2>8, <3>3, <3>4, <3>6 DEF RunSound, InRun
    <3> QED BY <3>2, <3>7
  <2>18. Sound' BY <1>3, <2>9, <2>16, <2>17, WorkIsSound
  <2>19. x.pc \notin {"idle", "lock"} /\ job'[x.job].kind = "metaInitial" => lock' = k
    BY <1>1, <2>1, <2>8, <2>9 DEF IInv, LockKept, Locked
  <2> QED BY <2>7, <2>9, <2>12, <2>13, <2>14, <2>15, <2>16, <2>18, <2>19, ExecutionSteps
          DEF OpenRun, connVars, dataVars
<1>5. CASE exec[k].session = "expired"
  <2>1. EndJob(k, "done") /\ exec[k].pc # "idle" /\ runs' = runs BY <1>5 DEF OpenRun
  <2>2. job' \in [Jobs -> Job] /\ lock' \in AnyLock /\ exec' = [exec EXCEPT ![k] = Idle]
    BY <2>1, EndJobGoesOn
  <2>3. TypedRest'
    BY <2>1, <2>2 DEF OpenRun, connVars, feedVars, dataVars, IInv, Typed, TypedRest
  <2>4. DataStays BY <2>1 DEF OpenRun, feedVars, dataVars, DataStays
  <2>5. Sound' BY <1>3, <2>2, <2>3, <2>4, IdleIsQuiet, QuietIsSound
  <2>6. Clocked' BY <2>1, NoEvent, ClockStays DEF OpenRun, feedVars
  <2> QED BY <1>2, <2>1, <2>3, <2>5, <2>6, EndingSteps DEF OpenRun, connVars, dataVars
<1> QED BY <1>4, <1>5

LEMMA FetchPageStep ==
  ASSUME IInv, NEW k \in Workers, FetchPage(k)
  PROVE  IInv'
<1>1. PICK e \in Execution : e = exec[k] /\ Carries(e) /\ (Undisturbed => RunSound(e))
  BY OneOfExec
<1>0. /\ exec[k].pc = "fetch" /\ exec[k].paging # "last"
      /\ UNCHANGED <<connVars, feedVars, dataVars, runs, job, lock, events>>
      /\ races' = IF /\ exec[k].paging = "first" /\ Resource(k) \in Daily
                      /\ exec[k].cursor # 0 /\ exec[k].cursor + Lookback < today + 1
                   THEN races \cup {"gap"} ELSE races
  BY Zenon DEF FetchPage
<1>2. runs' = runs /\ Len(runs) \in Nat
  BY <1>0 DEF feedVars, IInv, Typed, TypedRest
<1>3. Clocked' BY <1>0, NoEvent, ClockStays DEF feedVars
<1>4. JobsGoOn /\ job' = job BY <1>0, NothingGoesOn
<1>5. Onward BY <1>2, <1>4 DEF Onward
<1>60. races \subseteq races' /\ races' \subseteq Races
  BY <1>0 DEF IInv, Typed, TypedRest, Races
<1>6. TypedRest'
  BY <1>0, <1>60 DEF connVars, feedVars, dataVars, IInv, Typed, TypedRest
<1>7. DataStays /\ (Undisturbed' => Undisturbed)
  BY <1>0, <1>60 DEF connVars, feedVars, dataVars, DataStays, Undisturbed
<1>8. e.pc = "fetch" /\ e.paging \in {"first", "next"} /\ AtWork(exec[k])
  BY <1>0, <1>1 DEF Execution, Pagings, AtWork
<1> DEFINE res == Resources[First(e.left)]
<1>80. Resource(k) = res BY <1>1 DEF Resource
<1> HIDE DEF res
<1>9. PICK due \in RecordSets :
        due = IF e.paging = "first" THEN Selected(k) ELSE e.pending
  BY <1>1, Members DEF Selected, Execution
<1>90. PICK again \in BOOLEAN :
         again = (e.paging = "first" /\ res \in Daily /\ Cardinality(due) <= 1)
  OBVIOUS
<1>91. PICK asof \in Days :
         asof = IF e.paging = "first" /\ res \in Daily THEN today ELSE e.asof
  BY DEF IInv, Typed, TypedRest, Execution, Days
<1> DEFINE from == [e EXCEPT !.asof = asof]
<1>92. from = IF e.paging = "first" /\ res \in Daily THEN [e EXCEPT !.asof = today] ELSE e
  BY <1>91 DEF Execution
<1>94. from \in Execution BY DEF Execution
<1>93. /\ from.asof = asof /\ from.pc = e.pc /\ from.job = e.job
       /\ from.left = e.left /\ from.run = e.run /\ from.cursor = e.cursor
       /\ from.mark = e.mark /\ from.pending = e.pending
  BY DEF Execution
<1> HIDE DEF from
<1>10. /\ due = {} => exec' = [exec EXCEPT ![k] =
            IF again THEN [from EXCEPT !.paging = "next"]
                     ELSE [from EXCEPT !.pc = "finish", !.paging = "last"]]
       /\ due # {} => \E r \in due : LET left == IF again THEN due ELSE due \ {r} IN
            exec' = [exec EXCEPT ![k] =
              [from EXCEPT !.pc = "persist", !.page = <<r, version[r]>>,
                           !.pending = left,
                           !.paging = IF left = {} THEN "last" ELSE "next",
                           !.mark = Greater(e.mark, Stamp(r))]]
  BY <1>1, <1>80, <1>9, <1>90, <1>92 DEF FetchPage
<1>100. Undisturbed' /\ e.paging = "first" /\ res \in Daily /\ e.cursor # 0 =>
          ~(e.cursor + Lookback < today + 1)
  BY <1>0, <1>1, <1>80 DEF Undisturbed
<1>11. job'[e.job].kind = "metaInitial" => lock' = k
  BY <1>0, <1>1, <1>4, <1>8 DEF IInv, LockKept, Locked
\* What the run has accounted for: what is due, and what is settled.
<1>12. ASSUME Undisturbed', NEW r \in Records, ResourceOf[r] = res, r \notin due,
              Due(r), Dated(r) => DayOf[r] + 1 < asof
       PROVE  Settled(r)
  <2>1. Accounted(e, r) BY <1>1, <1>7, <1>8, <1>12 DEF RunSound, res
  <2>2. CASE e.paging = "first"
    <3>1. version[r] \in Nat /\ version[r] > 0 /\ e.cursor \in Nat /\ DayOf[r] \in Nat
          /\ today \in Nat /\ Lookback \in Nat /\ InitialDays \in Nat
      BY <1>12 DEF Due, IInv, Typed, TypedRest, Execution, Times
    <3>2. ~(IF Dated(r) THEN DayOf[r] \in Window(e.cursor, today)
                        ELSE provider = "shopify" => version[r] >= e.cursor)
      BY <1>1, <1>80, <1>9, <1>12, <2>2, <3>1 DEF Selected
    <3>3. Covered(r, e.cursor)
      <4>1. CASE Dated(r)
        <5>1. res \in Daily /\ asof = today BY <1>12, <1>91, <2>2, <4>1 DEF Dated
        <5>2. DayOf[r] + 1 < today /\ today <= DayOf[r] + InitialDays
          BY <1>12, <4>1, <5>1 DEF Due
        <5>3. e.cursor # 0 BY <3>1, <3>2, <4>1, <5>2 DEF Window
        <5>4. ~(e.cursor + Lookback < today + 1) BY <1>100, <1>12, <2>2, <5>1, <5>3
        <5>5. ~(today <= DayOf[r] + Lookback /\ e.cursor <= DayOf[r] + 1)
          BY <3>1, <3>2, <4>1, <5>2, <5>3 DEF Window
        <5> QED BY <3>1, <4>1, <5>4, <5>5 DEF Covered
      <4>2. CASE ~Dated(r) BY <3>1, <3>2, <4>2 DEF Covered
      <4> QED BY <4>1, <4>2
    <3> QED BY <1>12, <2>1, <3>3 DEF Accounted
  <2>3. CASE e.paging # "first"
    <3>1. asof = e.asof BY <1>91, <2>3
    <3> QED BY <1>8, <1>9, <1>12, <2>1, <2>3, <3>1 DEF Accounted, Reaches
  <2> QED BY <2>2, <2>3
<1>13. ASSUME Undisturbed', NEW r \in due
       PROVE  ResourceOf[r] = res /\ (Dated(r) => DayOf[r] <= asof)
  <2>1. r \in Records BY <1>9, Members
  <2>2. CASE e.paging = "first"
    <3>1. ResourceOf[r] = res /\ (Dated(r) => DayOf[r] \in Window(e.cursor, today))
      BY <1>1, <1>80, <1>9, <1>13, <2>2 DEF Selected
    <3> QED BY <1>91, <2>2, <3>1 DEF Dated, Window
  <2>3. CASE e.paging # "first"
    <3>1. r \in e.pending BY <1>9, <1>13, <2>3
    <3>2. ResourceOf[r] = res BY <1>1, <1>7, <1>8, <1>13, <3>1 DEF RunSound, res
    <3>3. Bounded(e, r) BY <1>1, <1>7, <1>8, <1>13, <2>1, <3>2 DEF RunSound, res
    <3> QED BY <1>91, <2>3, <3>1, <3>2, <3>3 DEF Bounded
  <2> QED BY <2>2, <2>3
\* What it has seen so far is still bounded, whatever day it asks on.
<1>14. ASSUME Undisturbed', NEW r \in Records, ResourceOf[r] = res
       PROVE  /\ e.cursor <= SavedCursor(ResourceOf[r])
              /\ IF Dated(r) THEN e.mark <= asof ELSE e.mark <= clock
  <2>1. Bounded(e, r) /\ (e.paging = "first" => e.mark = 0)
    BY <1>1, <1>7, <1>8, <1>14 DEF RunSound, res
  <2>2. asof \in Nat BY DEF Days
  <2> QED BY <1>91, <2>1, <2>2 DEF Bounded
<1>15. Undisturbed' => runs[e.run].res = res /\ runs[e.run].status = "running"
  BY <1>1, <1>7, <1>8 DEF RunSound, InRun, res
<1>16. CASE due = {}
  <2>0. PICK pc \in {"fetch", "finish"}, paging \in {"next", "last"} :
          /\ pc = (IF again THEN "fetch" ELSE "finish")
          /\ paging = (IF again THEN "next" ELSE "last")
    OBVIOUS
  <2> DEFINE x == [from EXCEPT !.pc = pc, !.paging = paging]
  <2>1. x \in Execution
    <3>1. pc \in Pcs /\ paging \in Pagings BY Members
    <3> QED BY <1>94, <3>1 DEF Execution
  <2>2. /\ x.pc = pc /\ x.job = e.job /\ x.left = e.left /\ x.run = e.run
        /\ x.cursor = e.cursor /\ x.mark = e.mark /\ x.pending = e.pending
        /\ x.paging = paging /\ x.asof = asof
    BY <1>93, <1>94 DEF Execution
  <2>3. exec' = [exec EXCEPT ![k] = x]
    <3>1. x = IF again THEN [from EXCEPT !.paging = "next"]
                       ELSE [from EXCEPT !.pc = "finish", !.paging = "last"]
      BY <1>8, <1>93, <1>94, <2>0 DEF Execution
    <3> HIDE DEF x
    <3> QED BY <1>10, <1>16, <3>1
  <2> HIDE DEF x
  <2>4. Carries(x)' BY <1>1, <1>2, <1>4, <1>8, <2>2 DEF Carries, InRun
  <2>5. ASSUME Undisturbed' PROVE RunSound(x)
    <3>1. e.pending = {} BY <1>1, <1>7, <1>8, <1>9, <1>16, <2>5 DEF RunSound
    <3>2. ASSUME NEW r \in Records, ResourceOf[r] = res
          PROVE  Accounted(x, r) /\ Bounded(x, r)
      <4>1. Accounted(e, r) BY <1>1, <1>7, <1>8, <2>5, <3>2 DEF RunSound, res
      <4>2. Due(r) /\ Reaches(x, r) => Settled(r)
        BY <1>12, <1>16, <2>2, <2>5, <3>2 DEF Reaches
      <4>3. Accounted(x, r) BY <2>2, <4>1, <4>2 DEF Accounted
      <4>4. Bounded(x, r) BY <1>14, <2>2, <2>5, <3>1, <3>2 DEF Bounded
      <4> QED BY <4>3, <4>4
    <3> QED BY <1>15, <2>0, <2>2, <2>5, <3>1, <3>2 DEF RunSound, res
  <2>6. Sound' BY <1>7, <2>3, <2>5, QuietIsSound
  <2>7. AtWork(x) => AtWork(exec[k]) BY <1>8
  <2> QED BY <1>0, <1>3, <1>5, <1>6, <1>60, <1>8, <1>11, <2>1, <2>2, <2>3, <2>4, <2>6, <2>7,
             ExecutionSteps
          DEF connVars, dataVars
<1>17. CASE due # {}
  <2>1. PICK r \in due : LET left == IF again THEN due ELSE due \ {r} IN
          exec' = [exec EXCEPT ![k] =
            [from EXCEPT !.pc = "persist", !.page = <<r, version[r]>>,
                         !.pending = left,
                         !.paging = IF left = {} THEN "last" ELSE "next",
                         !.mark = Greater(e.mark, Stamp(r))]]
    BY <1>10, <1>17, Zenon
  <2>2. r \in Records BY <1>9, Members
  <2>3. PICK t \in Times : t = version[r] BY <2>2 DEF IInv, Typed, TypedRest
  <2>30. PICK left \in RecordSets : left = IF again THEN due ELSE due \ {r}
    BY <1>9 DEF RecordSets
  <2>4. PICK paging \in {"next", "last"} : paging = IF left = {} THEN "last" ELSE "next"
    OBVIOUS
  <2>5. e.mark \in Nat /\ Stamp(r) \in Nat BY <2>2, <2>3 DEF Execution, Stamp, Times
  <2>6. PICK m \in Nat : m = Greater(e.mark, Stamp(r)) BY <2>5 DEF Greater
  <2> DEFINE x == [from EXCEPT !.pc = "persist", !.page = <<r, t>>, !.pending = left,
                               !.paging = paging, !.mark = m]
  <2>7. <<r, t>> \in AnyPage /\ paging \in Pagings
    BY <2>2, Members
  <2>8. x \in Execution BY <1>94, <2>7, Members DEF Execution
  <2>9. /\ x.pc = "persist" /\ x.job = e.job /\ x.left = e.left /\ x.run = e.run
        /\ x.cursor = e.cursor /\ x.mark = m /\ x.pending = left
        /\ x.paging = paging /\ x.page = <<r, t>> /\ x.asof = asof
    BY <1>93, <1>94 DEF Execution
  <2>10. exec' = [exec EXCEPT ![k] = x] BY <2>1, <2>3, <2>30, <2>4, <2>6
  <2> HIDE DEF x
  <2>12. Carries(x)'
    <3>1. x.page[1] \in Records BY <2>2, <2>9
    <3>2. e.job \in Jobs /\ job[e.job].state # "none" /\ e.left # {} /\ e.run \in 1..Len(runs)
      BY <1>1, <1>8 DEF Carries, InRun
    <3> QED BY <1>2, <1>4, <2>9, <3>1, <3>2 DEF Carries
  <2>13. ASSUME Undisturbed' PROVE RunSound(x)
    <3>2. x.paging # "next" => x.pending = {} BY <2>4, <2>9
    <3>3. \A q \in x.pending : q \in due BY <2>30, <2>9
    <3>4. ASSUME NEW q \in Records, ResourceOf[q] = res
          PROVE  Accounted(x, q) /\ Bounded(x, q)
      <4>1. Accounted(e, q) BY <1>1, <1>7, <1>8, <2>13, <3>4 DEF RunSound, res
      <4>2. Due(q) /\ Reaches(x, q) =>
              q \in x.pending \/ Settled(q) \/ x.page = <<q, version[q]>>
        BY <1>12, <2>3, <2>30, <2>9, <2>13, <3>4 DEF Reaches
      <4>3. Accounted(x, q) BY <2>9, <4>1, <4>2 DEF Accounted
      <4>4. ResourceOf[r] = res /\ (Dated(q) <=> Dated(r)) BY <1>13, <2>13, <3>4 DEF Dated
      <4>5. IF Dated(q) THEN Stamp(r) <= asof ELSE Stamp(r) <= clock
        <5>1. CASE Dated(q) BY <1>13, <2>13, <4>4, <5>1 DEF Stamp
        <5>2. CASE ~Dated(q) BY <2>2, <4>4, <5>2 DEF Stamp, IInv, Clocked
        <5> QED BY <5>1, <5>2
      <4>6. IF Dated(q) THEN m <= asof ELSE m <= clock
        BY <1>14, <2>13, <2>6, <3>4, <4>5 DEF Greater
      <4>7. Bounded(x, q)
        BY <1>13, <1>14, <2>9, <2>13, <3>3, <3>4, <4>6 DEF Bounded
      <4> QED BY <4>3, <4>7
    <3>5. x.paging # "first" /\ ResourceOf[x.page[1]] = res BY <1>13, <2>4, <2>9, <2>13
    <3>6. \A q \in Records : Overtaken(x, q) BY <2>3, <2>9 DEF Overtaken
    <3>7. \A q \in x.pending : ResourceOf[q] = res BY <1>13, <2>13, <3>3
    <3> QED BY <1>15, <2>9, <2>13, <3>2, <3>4, <3>5, <3>6, <3>7 DEF RunSound, res
  <2>14. Sound' BY <1>7, <2>10, <2>13, QuietIsSound
  <2> QED BY <1>0, <1>3, <1>5, <1>6, <1>60, <1>8, <1>11, <2>8, <2>9, <2>10, <2>12, <2>14,
             ExecutionSteps
          DEF connVars, dataVars
<1> QED BY <1>16, <1>17

\* The record in hand is stored, or counted as rejected, and the run goes on.
LEMMA RecordSteps ==
  ASSUME IInv, NEW k \in Workers, exec[k].pc = "persist",
         NEW skipped \in Marks, NEW session \in Sessions, AfterRecord(k, skipped, session),
         \/ /\ stored' = [stored EXCEPT ![exec[k].page[1]] = exec[k].page[2]]
            /\ rejected' = rejected
         \/ stored' = stored /\ rejected' = rejected \cup {exec[k].page},
         UNCHANGED <<connVars, feedVars, runs, job, lock, races>>,
         events \in Nat, events' \in 0..MaxEvents, events <= events'
  PROVE  IInv'
<1>1. PICK e \in Execution : e = exec[k] /\ Carries(e) /\ (Undisturbed => RunSound(e))
  BY OneOfExec
<1>2. PICK p \in Records : p = e.page[1] BY <1>1 DEF Carries
<1>3. PICK t \in Times : t = e.page[2] BY DEF Execution, AnyPage
<1>4. e.page = <<p, t>> BY <1>2, <1>3 DEF Execution, AnyPage
<1>5. e.pc = "persist" /\ AtWork(exec[k]) BY <1>1 DEF AtWork
<1>6. PICK pc \in {"finish", "fetch"} : pc = IF e.paging = "last" THEN "finish" ELSE "fetch"
  OBVIOUS
<1> DEFINE x == [e EXCEPT !.pc = pc, !.page = NoPage, !.skipped = skipped,
                          !.session = session]
<1>7. x \in Execution
  <2>1. pc \in Pcs BY Members
  <2> QED BY <2>1, Members DEF Execution
<1>8. /\ x.pc = pc /\ x.job = e.job /\ x.left = e.left /\ x.run = e.run
      /\ x.cursor = e.cursor /\ x.mark = e.mark /\ x.pending = e.pending
      /\ x.paging = e.paging /\ x.asof = e.asof
  BY DEF Execution
<1>9. exec' = [exec EXCEPT ![k] = x] BY <1>1, <1>6 DEF AfterRecord
<1> HIDE DEF x
<1>10. clock' = clock /\ version' = version /\ runs' = runs /\ job' = job /\ lock' = lock
       /\ races' = races /\ provider' = provider /\ status' = status /\ today' = today
  BY DEF connVars, feedVars
<1>11. Len(runs) \in Nat BY DEF IInv, Typed, TypedRest
<1>12. Clocked' BY <1>10, ClockStays
<1>13. JobsGoOn BY <1>10, NothingGoesOn
<1>14. Onward BY <1>10, <1>11, <1>13 DEF Onward
<1>15. stored' \in [Records -> Times] /\ rejected' \subseteq Records \X Times
  <2>1. stored \in [Records -> Times] /\ rejected \subseteq Records \X Times
    BY DEF IInv, Typed, TypedRest
  <2>2. exec[k].page = <<p, t>> /\ exec[k].page[1] = p /\ exec[k].page[2] = t
    BY <1>1, <1>2, <1>3, <1>4
  <2>3. CASE stored' = [stored EXCEPT ![exec[k].page[1]] = exec[k].page[2]] /\ rejected' = rejected
    BY <2>1, <2>2, <2>3
  <2>4. CASE stored' = stored /\ rejected' = rejected \cup {exec[k].page}
    BY <2>1, <2>2, <2>4
  <2> QED BY <2>3, <2>4
<1>16. TypedRest' BY <1>10, <1>15 DEF connVars, IInv, Typed, TypedRest
<1>17. Carries(x)' BY <1>1, <1>5, <1>8, <1>10 DEF Carries, InRun
<1>18. Undisturbed' => Undisturbed BY <1>10 DEF Undisturbed
<1>19. \A q \in Records : q # p => (Settled(q) => Settled(q)')
  <2>1. stored \in [Records -> Times] BY DEF IInv, Typed, TypedRest
  <2> QED BY <1>1, <1>2, <1>10, <2>1 DEF Settled
\* The record in hand: the copy is the provider's, or a newer one is to come.
<1>20. t = version[p] => Settled(p)'
  <2>1. stored \in [Records -> Times] BY DEF IInv, Typed, TypedRest
  <2> QED BY <1>1, <1>2, <1>3, <1>4, <1>10, <2>1 DEF Settled
<1>21. \A name : SavedCursor(name)' = SavedCursor(name)
  BY <1>10 DEF SavedCursor, Completed
<1>22. ASSUME Undisturbed PROVE RunSound(x)' /\ \A r \in Records : Safe(r)'
  <2>1. RunSound(e) /\ \A r \in Records : Safe(r) BY <1>1, <1>22 DEF IInv, Sound
  <2>2. Overtaken(e, p) BY <1>5, <2>1 DEF RunSound
  <2>3. t # version[p] => /\ p \in e.pending \/ ~Reaches(e, p)
                          /\ ~Covered(p, SavedCursor(ResourceOf[p])) /\ ~Covered(p, e.cursor)
    BY <1>2, <1>3, <2>2 DEF Overtaken
  <2>4. \A r : \A c : (Due(r)' <=> Due(r)) /\ (Covered(r, c)' <=> Covered(r, c))
    BY <1>10 DEF Due, Covered
  <2>5. \A r \in Records : (r = p => t = version[p]) => (Settled(r) => Settled(r)')
    BY <1>19, <1>20
  <2>6. ASSUME NEW r \in Records PROVE Safe(r)'
    <3>1. Covered(r, SavedCursor(ResourceOf[r]))' <=> Covered(r, SavedCursor(ResourceOf[r]))
      BY <1>10, <1>21 DEF Covered
    <3>2. Safe(r) BY <2>1
    <3>3. ~Lost(r)' BY <1>20, <2>3, <2>4, <2>5, <3>1, <3>2 DEF Lost, Safe
    <3> QED BY <1>10, <1>21, <3>2, <3>3 DEF Safe
  <2>7. ASSUME NEW r \in Records, ResourceOf[r] = Resources[First(e.left)]
        PROVE  Accounted(x, r)' /\ Bounded(x, r)'
    <3>1. Accounted(e, r) /\ Bounded(e, r) BY <1>5, <2>1, <2>7 DEF RunSound
    <3>2. Reaches(x, r) <=> Reaches(e, r) BY <1>8 DEF Reaches
    <3>3. Accounted(x, r)'
      <4>1. CASE r = p /\ t # version[p]
        <5>1. ~Covered(r, e.cursor) /\ (r \in e.pending \/ ~Reaches(e, r)) BY <2>3, <4>1
        <5> QED BY <1>8, <1>10, <5>1 DEF Accounted, Reaches, Due, Covered
      <4>2. CASE r = p /\ t = version[p] BY <1>20, <4>2 DEF Accounted
      <4>3. CASE r # p
        <5>1. e.page # <<r, version[r]>> BY <1>4, <4>3
        <5>2. Settled(r) => Settled(r)' BY <1>19, <4>3
        <5> QED BY <1>8, <1>10, <3>1, <5>1, <5>2 DEF Accounted, Reaches, Due, Covered
      <4> QED BY <4>1, <4>2, <4>3
    <3>4. Bounded(x, r)' BY <1>8, <1>10, <1>21, <3>1 DEF Bounded
    <3> QED BY <3>3, <3>4
  <2>8. e.paging # "first" /\ (e.paging # "next" => e.pending = {})
        /\ \A r \in e.pending : ResourceOf[r] = Resources[First(e.left)]
    BY <1>5, <2>1 DEF RunSound
  <2>9. runs[e.run].res = Resources[First(e.left)] /\ runs[e.run].status = "running"
    BY <1>5, <2>1 DEF RunSound, InRun
  <2>10. RunSound(x)' BY <1>6, <1>8, <1>10, <2>7, <2>8, <2>9 DEF RunSound
  <2> QED BY <2>6, <2>10
<1>23. Sound' BY <1>5, <1>9, <1>18, <1>22, WorkIsSound
<1>24. x.pc \notin {"idle", "lock"} /\ job'[x.job].kind = "metaInitial" => lock' = k
  BY <1>1, <1>5, <1>8, <1>10 DEF IInv, LockKept, Locked
<1> QED BY <1>5, <1>7, <1>9, <1>10, <1>12, <1>14, <1>16, <1>17, <1>23, <1>24, ExecutionSteps

LEMMA PersistRecordStep ==
  ASSUME IInv, NEW k \in Workers, PersistRecord(k)
  PROVE  IInv'
<1>1. PICK e \in Execution : e = exec[k] BY OneOfExec
<1>2. PICK skipped \in Marks : skipped = e.skipped BY DEF Execution
<1>3. PICK session \in Sessions : session = e.session BY DEF Execution
<1>4. AfterRecord(k, skipped, session) BY <1>1, <1>2, <1>3 DEF PersistRecord
<1>5. events \in Nat /\ events' \in 0..MaxEvents /\ events <= events'
  BY DEF PersistRecord, IInv, Typed, TypedRest
<1> QED BY <1>4, <1>5, RecordSteps DEF PersistRecord

LEMMA PersistRollsBackStep ==
  ASSUME IInv, NEW k \in Workers, PersistRollsBack(k)
  PROVE  IInv'
<1>1. PICK e \in Execution : e = exec[k] BY OneOfExec
<1>2. PICK skipped \in Marks : skipped = e.skipped BY DEF Execution
<1>3. "expired" \in Sessions /\ "yes" \in Marks BY Members
<1>4. events \in Nat /\ events' \in 0..MaxEvents /\ events <= events'
  BY EventCounts DEF PersistRollsBack
<1>5. CASE stored' = [stored EXCEPT ![exec[k].page[1]] = exec[k].page[2]]
           /\ AfterRecord(k, exec[k].skipped, "expired") /\ UNCHANGED rejected
  <2>1. AfterRecord(k, skipped, "expired") BY <1>1, <1>2, <1>5
  <2> QED BY <1>3, <1>4, <1>5, <2>1, RecordSteps DEF PersistRollsBack
<1>6. CASE rejected' = rejected \cup {exec[k].page} /\ AfterRecord(k, "yes", "expired")
           /\ UNCHANGED stored
  BY <1>3, <1>4, <1>6, RecordSteps DEF PersistRollsBack
<1> QED BY <1>5, <1>6 DEF PersistRollsBack

LEMMA FinishRunStep ==
  ASSUME IInv, NEW k \in Workers, FinishRun(k)
  PROVE  IInv'
<1>1. PICK e \in Execution : e = exec[k] /\ Carries(e) /\ (Undisturbed => RunSound(e))
  BY OneOfExec
<1>2. e.pc = "finish" /\ AtWork(exec[k]) BY <1>1 DEF FinishRun, AtWork
<1>3. e.run \in 1..Len(runs) /\ e.left # {} /\ e.left \in Places
  BY <1>1, <1>2 DEF Carries, InRun, Execution
<1>4. PICK old \in Run : old = runs[e.run] BY <1>3 DEF IInv, Typed, TypedRest
<1>5. PICK final \in {"partial", "success"} :
        final = IF e.skipped = "yes" THEN "partial" ELSE "success"
  OBVIOUS
<1>6. e.mark \in Nat /\ e.cursor \in Nat /\ e.asof \in Nat BY DEF Execution, Days
<1>7. PICK c \in Nat : c = IF e.mark # 0 THEN e.mark ELSE e.cursor BY <1>6
<1>8. PICK left \in Places : left = e.left \ {First(e.left)}
  <2>1. e.left \ {First(e.left)} \in Places BY <1>3 DEF Places
  <2> QED BY <2>1
<1>9. PICK pc \in {"complete", "open"} : pc = IF left = {} THEN "complete" ELSE "open"
  OBVIOUS
<1> DEFINE y == [old EXCEPT !.status = final, !.cursor = c]
           x == [e EXCEPT !.pc = pc, !.left = left]
<1>10. y \in Run /\ y.res = old.res /\ y.cursor = c BY DEF Run, RunStates
<1>11. x \in Execution
  <2>1. pc \in Pcs BY Members
  <2> QED BY <2>1 DEF Execution
<1>12. /\ x.pc = pc /\ x.job = e.job /\ x.left = left /\ x.cursor = e.cursor
       /\ x.mark = e.mark /\ x.pending = e.pending /\ x.paging = e.paging
  BY DEF Execution
<1>13. runs' = [runs EXCEPT ![e.run] = y]
  BY <1>1, <1>4, <1>5, <1>7 DEF FinishRun
<1>14. exec' = [exec EXCEPT ![k] = x]
  BY <1>1, <1>8, <1>9 DEF FinishRun
<1> HIDE DEF x, y
<1>15. RunSet(e.run, y) BY <1>3, <1>10, <1>13, RunIsSet DEF IInv, Typed, TypedRest
<1>16. /\ clock' = clock /\ version' = version /\ today' = today /\ clock \in Nat
       /\ stored' = stored /\ rejected' = rejected
       /\ Len(runs) \in Nat /\ Len(runs') = Len(runs)
  BY <1>15 DEF FinishRun, feedVars, dataVars, RunSet, IInv, Typed, TypedRest, Times
<1>18. Clocked' BY NoEvent, ClockStays DEF FinishRun, feedVars
<1>19. TypedRest'
  BY <1>15 DEF RunSet, FinishRun, connVars, feedVars, dataVars, IInv, Typed, TypedRest
<1>20. JobsGoOn /\ job' = job BY NothingGoesOn DEF FinishRun
<1>21. Onward BY <1>16, <1>20 DEF Onward
<1>22. Carries(x)' BY <1>1, <1>2, <1>9, <1>12, <1>16, <1>20 DEF Carries, InRun
<1>23. Undisturbed' => Undisturbed BY DEF FinishRun, connVars, Undisturbed
<1>24. ASSUME Undisturbed PROVE RunSound(x)' /\ \A r \in Records : Safe(r)'
  <2> DEFINE res == Resources[First(e.left)]
  <2>1. RunSound(e) /\ \A r \in Records : Safe(r) BY <1>1, <1>24 DEF IInv, Sound
  <2>2. e.paging = "last" /\ e.pending = {} /\ old.res = res
    BY <1>2, <1>4, <2>1 DEF RunSound, InRun
  <2>20. runs[e.run].status = "running" BY <1>2, <2>1 DEF RunSound, InRun
  <2>21. runs \in Seq(Run) BY DEF IInv, Typed, TypedRest
  <2>22. /\ SavedCursor(old.res)' \in {c, SavedCursor(old.res)}
         /\ \A name : name # old.res => SavedCursor(name)' = SavedCursor(name)
    BY <1>3, <1>4, <1>10, <1>15, <2>20, <2>21, CursorMoves
  <2>3. ASSUME NEW r \in Records PROVE Safe(r)'
    <3>1. Safe(r) /\ DayOf[r] \in Nat BY <2>1
    <3>2. CASE SavedCursor(ResourceOf[r])' = SavedCursor(ResourceOf[r])
      BY <1>16, <3>1, <3>2 DEF Safe, Lost, Due, Covered, Settled
    <3>3. CASE SavedCursor(ResourceOf[r])' # SavedCursor(ResourceOf[r])
      <4>1. ResourceOf[r] = res /\ SavedCursor(ResourceOf[r])' = c BY <2>2, <2>22, <3>3
      <4>2. Accounted(e, r) /\ Bounded(e, r) BY <1>2, <2>1, <4>1 DEF RunSound
      <4>3. ASSUME Due(r), Covered(r, c) PROVE Settled(r)
        <5>1. CASE c = e.cursor BY <4>2, <4>3, <5>1 DEF Accounted
        <5>2. CASE c # e.cursor
          <6>1. c = e.mark BY <1>7, <5>2
          <6>2. Reaches(e, r) BY <1>6, <3>1, <4>2, <4>3, <6>1 DEF Reaches, Bounded, Covered
          <6> QED BY <1>2, <2>2, <4>2, <4>3, <6>2 DEF Accounted
        <5> QED BY <5>1, <5>2
      <4>4. ~Dated(r) => c <= clock
        <5>1. SavedCursor(ResourceOf[r]) \in Nat BY <2>21, SavedCursorIsNat
        <5> QED BY <1>6, <1>7, <1>16, <3>1, <4>2, <5>1 DEF Safe, Bounded
      <4>5. ~Lost(r)' BY <1>16, <4>1, <4>3 DEF Lost, Due, Covered, Settled
      <4> QED BY <1>16, <4>1, <4>4, <4>5 DEF Safe
    <3> QED BY <3>2, <3>3
  <2>4. RunSound(x)' BY <1>9, <1>12, <2>2 DEF RunSound, InRun
  <2> QED BY <2>3, <2>4
<1>25. Sound' BY <1>2, <1>14, <1>23, <1>24, WorkIsSound
<1>26. x.pc \notin {"idle", "lock"} /\ job'[x.job].kind = "metaInitial" => lock' = k
  BY <1>1, <1>2, <1>12, <1>20 DEF FinishRun, IInv, LockKept, Locked
<1> QED BY <1>2, <1>11, <1>14, <1>18, <1>19, <1>21, <1>22, <1>25, <1>26, ExecutionSteps
        DEF FinishRun, connVars, dataVars

LEMMA FailRunStep ==
  ASSUME IInv, NEW k \in Workers, FailRun(k)
  PROVE  IInv'
<1>1. PICK e \in Execution : e = exec[k] /\ Carries(e) /\ (Undisturbed => RunSound(e))
  BY OneOfExec
<1>2. e.pc = "fail" /\ AtWork(exec[k]) BY <1>1 DEF FailRun, AtWork
<1>3. e.run \in 1..Len(runs) BY <1>1, <1>2 DEF Carries, InRun
<1>4. PICK old \in Run : old = runs[e.run] BY <1>3 DEF IInv, Typed, TypedRest
<1> DEFINE y == [old EXCEPT !.status = "failed"]
<1>5. y \in Run /\ y.status = "failed" /\ y.cursor = old.cursor BY DEF Run, RunStates
<1>6. runs' = [runs EXCEPT ![e.run] = y] BY <1>1, <1>4 DEF FailRun
<1> HIDE DEF y
<1>7. runs \in Seq(Run) BY DEF IInv, Typed, TypedRest
<1>8. RunSet(e.run, y) BY <1>3, <1>5, <1>6, <1>7, RunIsSet
<1>9. Len(runs) \in Nat /\ Len(runs') = Len(runs)
  BY <1>8 DEF RunSet, IInv, Typed, TypedRest
<1>10. Clocked' BY NoEvent, ClockStays DEF FailRun, feedVars
<1>11. Undisturbed' => Undisturbed BY DEF FailRun, connVars, Undisturbed
<1>12. ASSUME Undisturbed PROVE \A r \in Records : Safe(r)'
  <2>1. old.status = "running" BY <1>1, <1>2, <1>4, <1>12 DEF RunSound, InRun
  <2>2. \A name : SavedCursor(name)' = SavedCursor(name)
    BY <1>3, <1>4, <1>5, <1>7, <1>8, <2>1, CursorsStay
  <2>3. \A r \in Records : Safe(r) BY <1>12 DEF IInv, Sound
  <2> QED BY <2>2, <2>3
          DEF Safe, Lost, Due, Covered, Settled, FailRun, feedVars, dataVars
<1>13. ASSUME NEW s \in {"queued", "done"}, EndJob(k, s) PROVE IInv'
  <2>1. job' \in [Jobs -> Job] /\ lock' \in AnyLock /\ exec' = [exec EXCEPT ![k] = Idle]
    BY <1>1, <1>2, <1>13, EndJobGoesOn
  <2>2. TypedRest'
    BY <1>8, <2>1 DEF RunSet, FailRun, connVars, feedVars, dataVars, IInv, Typed, TypedRest
  <2>3. RunSound(Idle)' BY DEF Idle, RunSound, InRun
  <2>4. Sound' BY <1>2, <1>11, <1>12, <2>1, <2>3, WorkIsSound
  <2>5. exec[k].pc # "idle" BY <1>1, <1>2
  <2> QED BY <1>9, <1>10, <1>13, <2>2, <2>4, <2>5, EndingSteps DEF FailRun, connVars, dataVars
<1>14. CASE exec' = [exec EXCEPT ![k].pc = "mark"] /\ UNCHANGED <<job, lock>>
  <2> DEFINE x == [e EXCEPT !.pc = "mark"]
  <2>1. x \in Execution BY Members DEF Execution
  <2>2. /\ x.pc = "mark" /\ x.job = e.job /\ x.left = e.left
        /\ x.cursor = e.cursor /\ x.mark = e.mark
    BY DEF Execution
  <2>3. exec' = [exec EXCEPT ![k] = x] /\ job' = job /\ lock' = lock BY <1>1, <1>14
  <2> HIDE DEF x
  <2>4. TypedRest'
    BY <1>8, <2>3 DEF RunSet, FailRun, connVars, feedVars, dataVars, IInv, Typed, TypedRest
  <2>5. JobsGoOn BY <2>3, NothingGoesOn
  <2>6. Onward BY <1>9, <2>5 DEF Onward
  <2>7. Carries(x)' BY <1>1, <1>2, <1>9, <2>2, <2>3 DEF Carries, InRun
  <2>8. RunSound(x)' BY <2>2 DEF RunSound, InRun
  <2>9. Sound' BY <1>2, <1>11, <1>12, <2>3, <2>8, WorkIsSound
  <2>10. x.pc \notin {"idle", "lock"} /\ job'[x.job].kind = "metaInitial" => lock' = k
    BY <1>1, <1>2, <2>2, <2>3 DEF IInv, LockKept, Locked
  <2> QED BY <1>2, <1>10, <2>1, <2>3, <2>4, <2>6, <2>7, <2>9, <2>10, ExecutionSteps
          DEF FailRun, connVars, dataVars
<1> QED BY <1>13, <1>14 DEF FailRun

\* A record that changes is beyond every cursor; whoever lists its resource
\* still comes to it, or the race is on record.
LEMMA ProviderUpdateStep ==
  ASSUME IInv, NEW r \in Records, ProviderUpdate(r)
  PROVE  IInv'
<1>2. /\ clock \in 1..(events + 1) /\ clock \in Nat /\ runs \in Seq(Run) /\ Len(runs) \in Nat
      /\ events \in 0..MaxEvents /\ clock \in Times
  BY DEF IInv, Clocked, Typed, TypedRest, Times
<1>1. /\ events' \in 0..MaxEvents /\ events <= events'
      /\ clock <= clock' /\ clock' \in 1..(events' + 1) /\ clock' \in Times
      /\ ~Dated(r) => clock' = clock + 1
  <2>1. CASE Event /\ clock' = clock + 1
    <3>1. events' \in 0..MaxEvents /\ events' = events + 1 BY <2>1, EventCounts
    <3> QED BY <1>2, <2>1, <3>1 DEF Times
  <2>2. CASE Dated(r) /\ UNCHANGED <<clock, events>> BY <1>2, <2>2
  <2> QED BY <2>1, <2>2 DEF ProviderUpdate
<1>4. \A q \in Records : version'[q] = IF q = r THEN clock' ELSE version[q]
  BY DEF ProviderUpdate, IInv, Typed, TypedRest
<1>5. version' \in [Records -> Times]
  BY <1>1 DEF ProviderUpdate, IInv, Typed, TypedRest
<1> DEFINE listing == {k \in Workers : Listing(k) /\ Resource(k) = ResourceOf[r]
                                       /\ r \notin exec[k].pending}
           asks(x) == Dated(r) => DayOf[r] \in Window(x.cursor, x.asof)
           may == {k \in listing : exec[k].paging = "next" /\ asks(exec[k])}
           behind == {k \in listing : Dated(r) => DayOf[r] + 1 < exec[k].asof}
           late == Dated(r) /\ Covered(r, SavedCursor(ResourceOf[r]))
<1>6. PICK seen \in SUBSET may :
        /\ exec' = [k \in Workers |->
                      IF k \in seen THEN [exec[k] EXCEPT !.pending = @ \cup {r}] ELSE exec[k]]
        /\ races' = races \cup (IF behind \subseteq seen THEN {} ELSE {"changed"})
                          \cup (IF late THEN {"late"} ELSE {})
  BY Zenon DEF ProviderUpdate
<1>60. \A k \in seen : /\ k \in Workers /\ Listing(k) /\ exec[k].paging = "next"
                       /\ Resource(k) = ResourceOf[r]
                       /\ Dated(r) => DayOf[r] \in Window(exec[k].cursor, exec[k].asof)
  BY <1>6
<1>61. "changed" \notin races' =>
         \A k \in Workers \ seen :
           Listing(k) /\ Resource(k) = ResourceOf[r] /\ (Dated(r) => DayOf[r] + 1 < exec[k].asof)
             => r \in exec[k].pending
  <2>1. "changed" \notin races' => behind \subseteq seen BY <1>6
  <2> QED BY <2>1
<1>62. "late" \notin races' => ~(Dated(r) /\ Covered(r, SavedCursor(ResourceOf[r])))
  <2>1. "late" \notin races' => ~late BY <1>6
  <2> QED BY <2>1
<1>7. races \subseteq races' /\ races' \subseteq Races
  BY <1>6 DEF IInv, Typed, TypedRest, Races
<1> HIDE DEF listing, asks, may, behind, late
<1>8. job' = job /\ lock' = lock /\ runs' = runs /\ provider' = provider /\ status' = status
      /\ stored' = stored /\ rejected' = rejected /\ today' = today
  BY DEF ProviderUpdate, connVars, dataVars
<1>80. \A name : SavedCursor(name)' = SavedCursor(name) /\ SavedCursor(name) \in Nat
  <2>1. \A name : SavedCursor(name)' = SavedCursor(name) BY <1>8 DEF SavedCursor, Completed
  <2> QED BY <1>2, <2>1, SavedCursorIsNat
<1>9. TypedRest'
  BY <1>1, <1>5, <1>7, <1>8 DEF ProviderUpdate, connVars, IInv, Typed, TypedRest
<1>10. Clocked'
  <2>1. \A q \in Records : version'[q] \in 0..clock'
    <3>1. \A q \in Records : version[q] \in 0..clock BY DEF IInv, Clocked
    <3>2. clock' \in Nat /\ clock \in Nat BY <1>1, <1>2
    <3>3. 0..clock \subseteq 0..clock' /\ clock' \in 0..clock' BY <1>1, <3>2
    <3> QED BY <1>4, <3>1, <3>3
  <2> QED BY <1>1, <2>1 DEF Clocked
<1>81. ASSUME Undisturbed' PROVE Undisturbed
  BY <1>7, <1>8, <1>81 DEF Undisturbed
\* The record is beyond the saved cursor, and so beyond any that a run started from.
<1>82. ASSUME Undisturbed', NEW c \in Nat, c <= SavedCursor(ResourceOf[r])
       PROVE  ~Covered(r, c)'
  <2>1. SavedCursor(ResourceOf[r]) \in Nat BY <1>80
  <2>2. CASE Dated(r)
    <3>1. ~Covered(r, SavedCursor(ResourceOf[r])) BY <1>62, <1>82, <2>2 DEF Undisturbed
    <3> QED BY <1>82, <2>1, <2>2, <3>1 DEF Covered
  <2>3. CASE ~Dated(r)
    <3>1. Safe(r) BY <1>81, <1>82 DEF IInv, Sound
    <3>2. SavedCursor(ResourceOf[r]) <= clock BY <2>3, <3>1 DEF Safe
    <3>3. version'[r] = clock + 1 BY <1>1, <1>4, <2>3
    <3> QED BY <1>2, <1>82, <2>1, <2>3, <3>2, <3>3 DEF Covered
  <2> QED BY <2>2, <2>3
<1>11. JobsGoOn BY <1>8, NothingGoesOn
<1>12. Onward BY <1>2, <1>8, <1>11 DEF Onward
\* What becomes of each execution.
<1>13. ASSUME NEW k \in Workers
       PROVE  \E x \in Execution :
                /\ x = exec'[k] /\ Carries(x)' /\ x.pc = exec[k].pc /\ x.job = exec[k].job
                /\ Undisturbed' => RunSound(x)'
  <2>1. PICK e \in Execution : e = exec[k] /\ Carries(e) /\ (Undisturbed => RunSound(e))
    BY OneOfExec
  <2>2. PICK more \in RecordSets : more = IF k \in seen THEN e.pending \cup {r} ELSE e.pending
    <3>1. e.pending \in RecordSets BY DEF Execution
    <3>2. e.pending \cup {r} \in RecordSets BY <3>1 DEF RecordSets
    <3> QED BY <3>1, <3>2
  <2> DEFINE x == [e EXCEPT !.pending = more]
  <2>3. x \in Execution BY DEF Execution
  <2>4. /\ x.pc = e.pc /\ x.job = e.job /\ x.left = e.left /\ x.run = e.run
        /\ x.cursor = e.cursor /\ x.mark = e.mark /\ x.pending = more
        /\ x.paging = e.paging /\ x.page = e.page /\ x.asof = e.asof
    BY DEF Execution
  <2>5. x = exec'[k]
    <3>1. CASE k \in seen BY <1>6, <2>1, <2>2, <3>1
    <3>2. CASE k \notin seen
      <4>1. more = e.pending BY <2>2, <3>2
      <4>2. x = e BY <4>1 DEF Execution
      <4> HIDE DEF x
      <4> QED BY <1>6, <2>1, <3>2, <4>2
    <3> QED BY <3>1, <3>2
  <2> HIDE DEF x
  <2>6. Carries(x)'
    <3>1. Carries(e)' BY <1>9, <1>12, <2>1, CarriesOnward DEF IInv, Typed
    <3> QED BY <2>4, <3>1 DEF Carries
  <2>7. ASSUME Undisturbed' PROVE RunSound(x)'
    <3> DEFINE res == Resources[First(e.left)]
    <3>1. Undisturbed BY <1>81, <2>7
    <3>2. RunSound(e) BY <2>1, <3>1
    <3>3. ASSUME e.pc \in {"fetch", "persist", "finish"}, e.paging # "first",
                 ResourceOf[r] = res, Reaches(e, r)
          PROVE  r \in more
      <4>1. Listing(k) /\ Resource(k) = ResourceOf[r]
        BY <2>1, <3>3 DEF Listing, Resource
      <4>2. Dated(r) => DayOf[r] + 1 < exec[k].asof BY <2>1, <3>3 DEF Reaches
      <4>3. k \notin seen => r \in exec[k].pending
        BY <1>61, <2>7, <4>1, <4>2 DEF Undisturbed
      <4> QED BY <2>1, <2>2, <4>3
    <3>4. k \in seen => /\ e.paging = "next" /\ ResourceOf[r] = res
                        /\ e.pc \in {"fetch", "persist", "finish"}
                        /\ Dated(r) => DayOf[r] <= e.asof
      BY <1>60, <2>1 DEF Listing, Resource, Window
    <3>5. \A q : Reaches(x, q) <=> Reaches(e, q) BY <2>4 DEF Reaches
    <3>6. e.cursor \in Nat /\ e.mark \in Nat BY DEF Execution
    <3>7. ~Covered(r, SavedCursor(ResourceOf[r]))'
      <4>1. SavedCursor(ResourceOf[r]) \in Nat /\ SavedCursor(ResourceOf[r])'
                                                    = SavedCursor(ResourceOf[r])
        BY <1>80
      <4>2. PICK c \in Nat : c = SavedCursor(ResourceOf[r]) BY <4>1
      <4>3. ~Covered(r, c)' BY <1>82, <2>7, <4>2
      <4> QED BY <4>1, <4>2, <4>3 DEF Covered
    <3>70. e.pc \in {"fetch", "persist", "finish"} /\ ResourceOf[r] = res
             => ~Covered(r, e.cursor)'
      BY <1>82, <2>7, <3>2, <3>6 DEF RunSound, Bounded
    <3>8. \A q \in Records : q # r =>
            /\ version'[q] = version[q] /\ (Settled(q)' <=> Settled(q)) /\ (Due(q)' <=> Due(q))
            /\ \A c : Covered(q, c)' <=> Covered(q, c)
      BY <1>4, <1>8 DEF Settled, Due, Covered
    <3>80. e.pending \subseteq more BY <2>2
    <3>9. ASSUME NEW q \in Records, ResourceOf[q] = res,
                 e.pc \in {"fetch", "persist", "finish"}
          PROVE  Accounted(x, q)' /\ Bounded(x, q)'
      <4>1. Accounted(e, q) /\ Bounded(e, q) BY <3>2, <3>9 DEF RunSound
      <4>2. Accounted(x, q)'
        <5>1. CASE q = r
          <6>1. ~Covered(r, x.cursor)' BY <2>4, <3>70, <3>9, <5>1 DEF Covered
          <6> QED BY <2>4, <3>3, <3>9, <5>1, <6>1 DEF Accounted, Reaches, Covered
        <5>2. CASE q # r
          BY <2>4, <3>8, <3>80, <4>1, <5>2 DEF Accounted, Reaches, Covered
        <5> QED BY <5>1, <5>2
      <4>3. q \in more /\ Dated(q) => DayOf[q] <= e.asof
        BY <2>2, <3>4, <4>1 DEF Bounded
      <4>4. Bounded(x, q)'
        <5>1. SavedCursor(ResourceOf[q])' = SavedCursor(ResourceOf[q]) BY <1>80
        <5>2. ~Dated(q) => e.mark <= clock' BY <1>1, <1>2, <3>6, <4>1 DEF Bounded, Times
        <5> QED BY <2>4, <4>1, <4>3, <5>1, <5>2 DEF Bounded
      <4> QED BY <4>2, <4>4
    <3>10. ASSUME NEW q \in Records, e.pc = "persist" PROVE Overtaken(x, q)'
      <4>1. Overtaken(e, q) /\ e.paging # "first" /\ ResourceOf[e.page[1]] = res
        BY <3>2, <3>10 DEF RunSound
      <4>2. CASE q = r
        <5>1. e.page[1] = r => /\ ~Covered(r, x.cursor)'
                               /\ r \in x.pending \/ ~Reaches(e, r)
          BY <2>4, <3>3, <3>70, <3>10, <4>1 DEF Covered
        <5> QED BY <2>4, <3>7, <4>2, <5>1 DEF Overtaken, Reaches
      <4>3. CASE q # r
        <5>1. SavedCursor(ResourceOf[q])' = SavedCursor(ResourceOf[q]) BY <1>80
        <5>2. Covered(q, SavedCursor(ResourceOf[q]))' <=> Covered(q, SavedCursor(ResourceOf[q]))
          BY <3>8, <4>3, <5>1 DEF Covered
        <5> QED BY <2>4, <3>8, <3>80, <4>1, <4>3, <5>2 DEF Overtaken, Reaches, Covered
      <4> QED BY <4>2, <4>3
    <3>11. /\ e.pc \in {"lock", "begin", "open", "fetch", "persist", "finish"} =>
                /\ e.paging # "next" => more = {}
                /\ \A q \in more : ResourceOf[q] = res
           /\ e.pc \in {"lock", "begin", "open"} => more = {}
      BY <2>2, <3>2, <3>4 DEF RunSound
    <3>12. /\ e.pc \in InRun => runs'[e.run].res = res /\ runs'[e.run].status = "running"
           /\ e.pc = "finish" => e.paging = "last"
           /\ e.pc = "fetch" /\ e.paging = "first" => e.mark = 0
           /\ e.pc = "persist" => e.paging # "first" /\ ResourceOf[e.page[1]] = res
      BY <1>8, <3>2 DEF RunSound
    <3> QED BY <2>4, <3>9, <3>10, <3>11, <3>12 DEF RunSound
  <2> QED BY <2>1, <2>3, <2>4, <2>5, <2>6, <2>7
<1>14. exec' \in [Workers -> Execution]
  <2>1. \A k \in Workers : exec'[k] \in Execution BY <1>13
  <2>2. exec' = [k \in Workers |-> exec'[k]] BY <1>6
  <2> QED BY <2>1, <2>2
<1>15. Executions'
  <2>1. ASSUME NEW k \in Workers PROVE Carries(exec[k])'
    <3>1. PICK x \in Execution : x = exec'[k] /\ Carries(x)' BY <1>13
    <3> QED BY <3>1 DEF Carries
  <2> QED BY <2>1 DEF Executions
<1>16. \A k \in Workers : exec'[k].pc = exec[k].pc /\ exec'[k].job = exec[k].job  BY <1>13
<1>17. LockKept' BY <1>8, <1>16 DEF IInv, LockKept, Locked
<1>18. Erased' BY <1>7, <1>8, <1>16 DEF IInv, Erased, Working
<1>19. OneAtATime' BY <1>7, <1>16 DEF IInv, OneAtATime, Working
<1>20. Sound'
  <2>1. SUFFICES ASSUME Undisturbed'
                 PROVE  /\ \A q \in Records : Safe(q)'
                        /\ \A k \in Workers : RunSound(exec[k])'
    BY DEF Sound
  <2>2. Undisturbed BY <1>81, <2>1
  <2>3. ASSUME NEW q \in Records PROVE Safe(q)'
    <3>1. SavedCursor(ResourceOf[q])' = SavedCursor(ResourceOf[q])
          /\ SavedCursor(ResourceOf[q]) \in Nat
      BY <1>80
    <3>2. Safe(q) BY <2>2 DEF IInv, Sound
    <3>3. ~Lost(q)'
      <4>1. CASE q = r
        <5>1. PICK c \in Nat : c = SavedCursor(ResourceOf[r]) BY <3>1, <4>1
        <5>2. ~Covered(r, c)' BY <1>82, <2>1, <5>1
        <5> QED BY <3>1, <4>1, <5>1, <5>2 DEF Lost, Covered
      <4>2. CASE q # r
        BY <1>4, <1>8, <3>1, <3>2, <4>2 DEF Safe, Lost, Due, Covered, Settled
      <4> QED BY <4>1, <4>2
    <3> QED BY <1>1, <1>2, <3>1, <3>2, <3>3 DEF Safe, Times
  <2>4. ASSUME NEW k \in Workers PROVE RunSound(exec[k])'
    <3>1. PICK x \in Execution : x = exec'[k] /\ RunSound(x)' BY <1>13, <2>1
    <3> QED BY <3>1 DEF RunSound, Accounted, Bounded, Overtaken, Reaches
  <2> QED BY <2>3, <2>4
<1> QED BY <1>9, <1>10, <1>11, <1>14, <1>15, <1>17, <1>18, <1>19, <1>20
        DEF IInv, Typed, JobsGoOn

-----------------------------------------------------------------------------
LEMMA Initially == ASSUME Init PROVE IInv
<1> DEFINE first == CHOOSE j \in Jobs : TRUE
<1>1. /\ clock = 1 /\ events = 0 /\ races = {} /\ lock = Nobody /\ rejected = {}
      /\ status = "connected" /\ \A k \in Workers : exec[k] = Idle
  BY DEF Init
<1>2. PICK kind \in Kinds : kind = IF provider = "meta" THEN "metaInitial" ELSE "initial"
  BY Members
<1> DEFINE queued == [state |-> "queued", kind |-> kind, tries |-> 0, want |-> Offered[provider]]
<1>30. Offered[provider] \in Places \ {{}} BY WantsAreNamed DEF Init
<1>3. queued \in Job /\ NoJob \in Job BY <1>30, Members DEF Job, NoJob
<1>4. job = [j \in Jobs |-> IF j = first THEN queued ELSE NoJob]
  BY <1>2, Members DEF Init, NoJob
<1>5. queued.want = Offered[provider] /\ NoJob.state = "none" BY DEF NoJob
<1> HIDE DEF queued, first
<1>6. job \in [Jobs -> Job] BY <1>3, <1>4
<1>7. 1 \in Times /\ 0 \in Times BY DEF Times
<1>8. TypedRest
  <2>1. version \in [Records -> Times] /\ stored \in [Records -> Times] /\ clock \in Times
    BY <1>1, <1>7 DEF Init
  <2>2. runs \in Seq(Run) BY DEF Init
  <2> QED BY <1>1, <1>6, <2>1, <2>2, Members DEF Init, TypedRest
<1>9. Typed BY <1>8, IdleIsAnExecution DEF Init, Typed
<1>10. Len(runs) = 0 BY DEF Init
<1>11. Clocked
  <2>1. clock \in 1..(events + 1) BY <1>1
  <2>2. \A r \in Records : version[r] \in {0, 1} BY DEF Init
  <2> QED BY <1>1, <2>1, <2>2 DEF Clocked
<1>12. JobsWant BY <1>4, <1>5, <1>30 DEF JobsWant
<1>13. Idle.pc = "idle" BY DEF Idle
<1>14. Executions
  <2>1. Carries(Idle) BY <1>1, <1>13 DEF Carries, InRun
  <2> QED BY <1>1, <2>1 DEF Executions
<1>15. LockKept /\ OneAtATime BY <1>1, <1>13 DEF LockKept, OneAtATime, Working
<1>16. Erased BY <1>1 DEF Erased
<1>17. Sound
  <2>1. \A res : Completed(res) = {} BY <1>10 DEF Completed
  <2>2. \A res : SavedCursor(res) = 0 BY <2>1 DEF SavedCursor
  <2>3. ASSUME NEW r \in Records PROVE Safe(r)
    <3>1. version[r] \in Nat /\ DayOf[r] \in Nat BY <1>8 DEF TypedRest, Times
    <3> QED BY <1>1, <2>2, <3>1 DEF Safe, Lost, Due, Covered
  <2>4. RunSound(Idle) BY IdleIsQuiet
  <2> QED BY <1>1, <2>3, <2>4 DEF Sound
<1> QED BY <1>9, <1>11, <1>12, <1>14, <1>15, <1>16, <1>17 DEF IInv

LEMMA Stuttering == ASSUME IInv, UNCHANGED vars PROVE IInv'
<1>1. DataStays /\ UNCHANGED exec /\ races' = races /\ provider' = provider /\ status' = status
      /\ job' = job /\ lock' = lock /\ clock' = clock /\ stored' = stored
  BY DEF vars, DataStays
<1>2. TypedRest' BY DEF vars, IInv, Typed, TypedRest
<1>3. Clocked' BY NoEvent, ClockStays DEF vars
<1>4. Len(runs) \in Nat BY DEF IInv, Typed, TypedRest
<1>5. Onward BY <1>1, <1>4, NothingGoesOn DEF Onward, DataStays
<1>6. Erased' BY <1>1 DEF IInv, Erased, Working
<1>7. Sound' BY <1>1, StillnessIsSound DEF Undisturbed
<1> QED BY <1>1, <1>2, <1>3, <1>5, <1>6, <1>7, OthersStep

LEMMA NextKeepsIInv == ASSUME IInv, Next PROVE IInv'
<1>1. ASSUME NEW j \in Jobs,
             RequestSync(j) \/ Reconnect(j) \/ JobExhausted(j) \/ LeaseExpires(j)
      PROVE  IInv'
  BY <1>1, RequestSyncStep, ReconnectStep, JobExhaustedStep, LeaseExpiresStep
<1>2. ASSUME NEW k \in Workers, NEW j \in Jobs, StartJob(k, j) PROVE IInv'
  BY <1>2, StartJobStep
<1>3. ASSUME NEW k \in Workers, WorkerStep(k) PROVE IInv'
  BY <1>3, AcquireLockStep, BeginSyncStep, OpenRunStep, FetchPageStep, PersistRecordStep,
     FinishRunStep, CompleteJobStep, FailRunStep, MarkReconnectRequiredStep DEF WorkerStep
<1>4. ASSUME NEW k \in Workers,
             FetchErrorPage(k) \/ FetchFails(k) \/ PersistRollsBack(k) \/ WorkerDies(k)
             \/ JobTimeout(k)
      PROVE  IInv'
  BY <1>4, FetchErrorPageStep, FetchFailsStep, PersistRollsBackStep, WorkerDiesStep,
     JobTimeoutStep
<1>5. ASSUME NEW r \in Records, ProviderUpdate(r) PROVE IInv'
  BY <1>5, ProviderUpdateStep
<1> QED BY <1>1, <1>2, <1>3, <1>4, <1>5, DisconnectStep, LockExpiresStep, NewDayStep
       DEF Next

THEOREM Invariance == Spec => []IInv
<1>1. Init => IInv BY Initially
<1>2. IInv /\ [Next]_vars => IInv' BY NextKeepsIInv, Stuttering
<1> QED BY <1>1, <1>2, PTL DEF Spec

\* Types, and the lock: whatever jobs end, die or time out meanwhile, a Meta job
\* that works is the one whose token meta_sync_lock set, because the script that
\* releases the lock compares tokens.
THEOREM LockIsTheWorkers == Spec => []LocksFit
<1>1. IInv => LocksFit
  <2>1. IInv => TypeOK BY TypedIsTypeOK DEF IInv
  <2>2. IInv => LockHeld BY DEF IInv, LockKept, LockHeld, Working
  <2> QED BY <2>1, <2>2 DEF LocksFit
<1> QED BY <1>1, Invariance, PTL

\* disconnect_connection erases for good: as no job passes the connection check
\* of the sync service afterwards, no queued job or retry stores again.
THEOREM DisconnectIsFinal == Spec => []DisconnectErases
<1>1. IInv => DisconnectErases BY DEF IInv, Erased, DisconnectErases
<1> QED BY <1>1, Invariance, PTL

\* The cursor that run_sync saves and _previous_cursor reads: it passes no
\* version of a record that is neither stored nor counted as rejected.
THEOREM CursorNeverPasses == Spec => []CursorSound
<1>1. IInv => CursorSound BY DEF IInv, Sound, Safe, Undisturbed, CursorSound
<1> QED BY <1>1, Invariance, PTL

===============================================================================
