# MarketingOS: a TLA+ model of the API and the worker

MarketingOS is a multi-tenant marketing back office: a FastAPI process
(`apps/api`), an arq worker that runs in a process of its own, Postgres (READ
COMMITTED), Redis (tokens, OAuth state, locks, webhook payloads, the job queue)
and a Next.js front end. This directory holds the TLA+ modules that model its
own core logic, the TLC configurations that check them and the TLAPS proofs
about them. Paths below are relative to `apps/api/src/` unless they say
otherwise.

## 1. Inventory

Status: **M** modelled, **P** partly, **–** not modelled (the reason is in
`PROJECT.json`).

| component | state it keeps | operations | what is hard | what makes it correct | |
|---|---|---|---|---|---|
| webhook intake and processing (`modules/integrations/router.py`, `service.py`, `core/worker.py`) | `webhook_events` rows, two Redis keys per event, one arq job | deliver, record, store payload, enqueue, claim, resolve, persist, finish | at-least-once deliveries and jobs, death between commit and enqueue, key expiry, disconnect in between | one claimant, one application, a truthful and final status, every event resolves | M |
| provider sync (`modules/integrations/service.py`, `shopify/`, `meta/`, `core/worker.py`) | `sync_runs` with the cursor they carry, the stored records, the Meta lock | request, run resource by resource and page by page, commit record by record, retry, finish | the cursor must not pass what was not fetched; two jobs at once; death, timeout, retry; disconnect during a run | sound cursor, held lock, nothing written after a disconnect, every job ends | M |
| record persistence (`modules/integrations/persistence.py`) | canonical products, customers, orders, campaigns, insights | upsert by external id, append a price or a stock snapshot | last writer wins | a stored copy is the version the cursor says | P |
| connections and OAuth (`modules/integrations/service.py`, `callback_session.py`, `credentials.py`) | `integration_connections`, `integration_credentials`, OAuth state and callback session in Redis | connect, callback, select account, reject, disconnect | single-use state, rows reused by later connects, callbacks in any order | a row's token opens the account it names; one row per grant; what is down stays down | M |
| sessions and the browser client (`modules/auth`, `apps/web/src/lib/api-client.ts`, `auth-context.tsx`) | refresh `jti` in Redis, the cookie, the access token in localStorage, one refresh promise per tab | login, refresh, logout, retry after 401 | rotation, two tabs, logout against refresh, a lost reply | one session per login, logout ends it, nobody waits for ever | P |
| rate limiter (`core/dependencies.py`) | a Redis counter per client and window | count, expire, refuse | INCR and EXPIRE are two commands | every window ends | P |
| catalog (`modules/products`, `goals`, `shipping`, `economics/service.py`) | price and cost periods, goals, shipping rules, stock snapshots | create, update, delete, adjust, resolve | check-then-insert without constraints, lost updates, equal starts | periods supersede, goals disjoint, one default, stock adds up | P |
| research collection (`modules/research/collection`) | collection jobs, pages, snapshots, the source's last hash | create, enqueue, run, cancel, retry | cancel against run, death, a job queued twice | pages appear with the status, cancel holds, new content is reported, every job ends | M |
| creative decisions and tests (`modules/creative/decision`, `creative/action`) | plans, reviews, drafts, activations, lifecycle events | plan, review, draft, review the draft, activate, close | overlapping requests over several tables, single activation | two reviews before a test runs, provenance, a legal history | M |
| creative engines (`creative/performance`, `learning`, `optimization`, `measurement`) | concepts, links, snapshots per fingerprint | report, learn, optimize, decide, draft, measure | rules written apart for one question, facts that move under a fingerprint, duplicate links | gates agree, plans follow reports and cite them | P |
| metrics and diagnostics (`metrics`, `diagnostics`) | none: computed from stored facts | sum, divide, compare, apply the rules, gate | None, zero and negative terms, gates in rows or in days | no conclusion without its sample, rules that do not contradict one another | P |
| recommendations (`recommendations`) | one row per scope and range | decide by precedence, store scope after scope | facts and other requests move between the scopes | decisions agree with the diagnostics of the same facts; a request ends | M |
| forecasting, simulator (`forecasting`, `simulator`) | forecasts and points, simulations | choose a model, store metric by metric; resolve, simulate, reuse | late facts, death in the middle, missing ratios | evidence behind a forecast, points of their row, hints that do not contradict their figures | P |
| strategy (`strategy`) | candidates, decisions, messaging, funnels, all versioned | create, validate, recommend, decide, generate | versions without a key, verdicts in any order, stale inputs | a selection is earned, no version skipped, a recommended funnel leads to a sale | M |
| unit economics (`economics/calculator.py`) | none | pure Decimal arithmetic | zero revenue, discount caps, missing costs | contribution and break-even agree with what reads them | P |
| research library, intelligence (`modules/research`) | projects, competitors, sources, evidence, findings, reports | create, change status, collect, generate a report | a report recognised by a hash of its input; overlapping creates | a report served is current; a finding is grounded | P |
| tenancy and rbac (`core/tenancy.py`, `core/rbac.py`) | memberships, roles, agencies | resolve the tenant, check a permission | an agency's access to a client's business | access only through a membership | – |
| bundles, discounts, businesses, organizations, creative assets | single rows | CRUD | none between requests that a test would miss | references stay inside the business | – |
| schema and migrations, web pages, health, infra, docs | – | – | – | – | – |

**How they interact.** A request is one coroutine with one database session; its
transaction starts at its first SELECT (authentication) and `now()` is that
moment for every row it writes. It reads, decides and commits, and takes no row
lock except by an UPDATE, so any two requests interleave between their
awaits. After a commit it may write Redis and queue an arq job: three stores, no
common transaction. The worker takes jobs at least once: an execution that dies is
started again when its in-progress key expires, up to `max_tries`; a timeout or
an exception that is not `Retry` ends the job. The worker and the API share
Postgres rows and Redis keys and nothing else. Shopify and Meta call the
webhook and callback routes and are called by the sync. The
engines read what the sync, the catalog and the library stored and write back
rows of their own: metrics feed diagnostics, diagnostics and forecasts feed
recommendations, evidence and economics feed strategy, strategy anchors creative
concepts, and performance, learning and optimization of those feed the decision
plan that `CreativeLifecycle` starts from.

The behaviours that are hard to test, each at its line, are the `hazards` of
`PROJECT.json`.

## 2. Plan

The modules, in the order they were written, the most consequential first:

| module | models | composed with |
|---|---|---|
| `WebhookInbox`, `WebhookInboxProofs` | webhook intake, worker, Redis, arq | requests, workers, the connection and the provider in one module: they share the row and the keys |
| `ProviderSync`, `MCProviderSync`, `ProviderSyncProofs` | one connection's syncs | worker, arq, lock, provider feed, disconnect |
| `Connections`, `MCConnections`, `ConnectionsProofs` | connecting and disconnecting | several users, browsers, provider grants |
| `ResearchCollection`, `MCResearchCollection`, `ResearchCollectionProofs` | collection jobs | API, worker, arq, the site |
| `CreativeLifecycle`, `MCCreativeLifecycle` | from plan to closed test | decision and action services over shared tables |
| `RefreshSessions`, `RefreshSessionsProofs` | sessions | browser tabs, API, Redis, limiter |
| `Catalog` | histories, goals, defaults, stock | requests and the sync's appends |
| `Economics`, `Metrics`, `Diagnostics`, `Recommendations`, `Decisions`, `MCInsights` | from facts to decisions | a stack of EXTENDS: values, measures, rules, and the requests that store them |
| `Forecasting`, `Simulator`, `Planning`, `MCPlanning` | forecasts and simulations | both over `Economics` and one set of facts |
| `Strategy`, `Funnel`, `MCStrategy`, `StrategyProofs` | strategies, offers, decisions; messaging and funnels | `Funnel` EXTENDS `Strategy` and owns Next; the proofs are about `Planning` too |
| `CreativePerformance`, `CreativeLearning`, `CreativeOptimization`, `CreativeInsight`, `CreativeLayers`, `MCCreativeInsight` | the creative engines and their snapshots | a stack of EXTENDS, `CreativeInsight` owns the requests |
| `DecisionProofs` | what rules decide and what people decide of it | the proofs about `CreativeLifecycle`, `CreativeLayers` and `Decisions` |
| `ResearchLibrary`, `MCRecords`, `RecordsProofs` | the research library and its reports | instantiated beside `Catalog`, with which it shares no row; the proofs are about both |
| `EventLog` | what the webhook table promises | `WebhookInbox` implements it (`Log`, `ImplementsEventLog`) |

`CreativeLayers`, `Planning` and `Decisions` add nothing to what they instantiate
(`CreativeInsight`, `Simulator`, `Recommendations`) but other names for the constants and
variables that another model has too, the assumptions on the constants, and the names of the
properties. They are what lets one module hold the proofs about several models: eight modules
hold theorems, the most this project wants to check from nothing. The runs are of the
same modules, so that TLC evaluates what the proofs assume.

Left, in this order:

1. **Another abstract specification**: a `Rotation` (one right to continue per
   login) that `RefreshSessions` implements.
2. **Tenancy**: access as an operator over memberships and agencies, against
   the statement in `docs/adr/0002-multi-tenancy`.
3. **Proofs** of what the engines compute beyond what the runs check: that a percentile is
   one of its series, that the tails of a simulation lie on both sides.

## 3. The modules

In every module one action is one stretch of code between two awaits that other
actors can observe: a SELECT whose result is used later, a commit, a Redis command, a
call to the provider. `pc` names the stretch an actor is about to run. A request
that fails or a process that dies leaves the database as it was at the last
commit. Counters are bounded by one constant per module
(`MaxEvents`, `MaxRequests`, `MaxWork`, `MaxChanges`) in the guards of the actions that come from outside;
when the bound is reached the system may come to rest, which is why the
configurations say `CHECK_DEADLOCK FALSE`. Variables that no code keeps (`applied`,
`races`, `lost`, `died`, `overtaken`, `acked`, `cleared`, `fault`,
`seen`, `torn`, `level`) remember what happened, and no guard reads them.

**WebhookInbox.** `row` is `webhook_events.status`, `errorNoted` its error
summary, `job` the arq job of the event; `req` are deliveries in the route handler,
`exec` executions of `process_webhook_event`. `RecordEvent` is the
insert behind the unique (provider, external event id) and tells a duplicate;
`StorePayload`, `StoreMeta`, `EnqueueAndAck` the three writes after it;
`ClaimEvent` the conditional UPDATE received → processing; `TakeMeta` and
`TakePayload` the GETDELs; `LookupConnection`, `ResolveEvent`, `PersistRecord`,
`FinishEvent` the rest. An execution keeps its verdict until `FinishEvent` writes status and
summary in one commit: only `processed` of a stored record and `ignored` of an
unsupported topic come without a summary (`StatusOf`, `Explained`). arq: `StartJob`, `LeaseExpires`, `JobExhausted`.

**ProviderSync.** `runs` are the sync_runs rows of one connection, `version` the
update times at the provider, `stored` those of the stored copies, `today` the
worker's date. `FetchPage` picks the records of a page by what the code asks for
(`Selected`): from Shopify what was updated since the cursor, of Meta's hierarchy
everything, of the daily insights (`Dated`, each record a day, `DayOf`) the days of a
`Window`: the initial one, or from the later of today - lookback and cursor - 1 day until
today. Records come in any order, because the requests name none; a window of one page is
fetched twice, because its first answer names a next cursor in any case. `PersistRecord` is a
commit per record; `FinishRun` writes the newest time, or the last day, seen as the cursor
(`Stamp`). `NewDay` moves the date, `ProviderUpdate` revises a record or reports a day for the
first time. Meta's
initial job takes the lock (`AcquireLock`, `EndJob` compares before it deletes).
`races` collects what the cursor does not survive: two executions at once
(`overlap`), a record that changed behind the page being read (`changed`), an
error page taken for the last one (`errorPage`), a row reused for another shop
(`newShop`), a disconnect during a run, a window that the lookback starts after the
cursor (`gap`), a day revised or first reported once the cursor has left it (`late`).
A record is `Covered` by a cursor when no later run will ask for it: it is no
newer, or its day is before the one in which the next window overlaps.

**Connections.** `row`, `token` and `grant` are connection, credential and what the
provider's token opens; `live`, `owner`, `cookie` the OAuth state, its user and
the callback session. Requests load a row, talk to the provider, and
write with what they had loaded (`Store` merges the columns they changed).
`overtaken` marks rows so written after another request had changed them.

**ResearchCollection.** `status`, `pages`, `snapshots`, `sourceHash` are the
tables; `exec` the worker's executions of `run_job`: `Begin`, `Claim`,
`Collect`, `Examine`, `StoreResult` (one commit of pages, snapshots, source and
status), `Requeue`, `RetryOrFail` and `Fail` for the errors that are caught, `RunRaises` for
those that are not. The collector's outcome is
a set of contents, an error of either kind or another exception; what the source's
last hash and the pages become is said in closed form of the order of the contents
(`Last`, `Known`, `Differs`).

**CreativeLifecycle.** One business. `plan` holds created_at of the plan that
each snapshot gives, `review` and `draftReview` the two review rows, `test` and
`hist` the test and its events. Requests are transactions that read
(`LookUpPlan`, `ReadReviews`, `LookUpDrafts`, `CheckTest`) and commit
(`StorePlan`, `StoreReview`, `StoreDrafts`, `StoreDraftReview`, `Activate`, `Close`).
An insert that meets a unique constraint rolls its whole transaction back.

**RefreshSessions.** `live` are the jti keys in Redis, `jar` the cookie all tabs
share, `call` the requests with the limiter (`Incr`, `SetExpiry`), `Consume`
(GETDEL), `LoadUser` and `StoreToken` on the server and the single-flight
`refreshSession` in the tab. `family` ties a jti to its login. A logout leaves the
cookie in the browser (`ReceiveLogout`).

**Catalog.** `history` are price and cost periods of a product, `goals`, `rules`,
`stock` the other tables. `CheckPeriod`/`StorePeriod`, `LoadGoal`/`CheckGoal`/
`StoreGoal` are the check and the commit; `PickDefaults` and `ClearDefaults` are
the snapshot and the row locks of the one UPDATE that clears defaults; `StockAddsUp`
uses recorded_at as the code does, the start of the transaction. Rows remember the
rows, and versions of rows, their writer had read.

**EventLog.** The table of events without requests, jobs, Redis or crashes: an event
is recorded, taken up, perhaps stored, and settled: processed, without an error if and only if
it was stored; ignored, with or without one; or failed, with one. `WebhookInbox` maps `event` to `row`, `stored` to `applied` and `noted` to
`errorNoted`.

**Economics, Metrics, Diagnostics, Recommendations.** `Economics` is the calculator:
what an order earns, break-even and scaling figures, a ratio as a pair of
integers, NA for None. `Metrics` keeps the facts (`insight[a][d]`, `orders[d]`, the
catalog, offer, goal and each provider's feed) and has one operator per measure of a
scope and a set of days; a sum over no rows is NA, a ratio without a divisor is NA,
a negative term makes the engine raise (`SummaryFails`, `RatioRaises`).
`Diagnostics` has one operator per rule, the campaign states and the scaling gates.
`Recommendations` is the precedence of decisions and the request that decides and
commits scope after scope (`Begin`, `Decide`, `Store`, `StoreAgain`), while
`SyncInsights`, `SyncOrders`, `EditCatalog`, `EditOffer`, `SetGoal` and `RunSync` move
the facts.

**Forecasting, Simulator.** `ads` and `sold` are the daily facts, `rows` the table of
forecasts with their points, `work` what a request has still to store: `Generate`,
`Summary` and `CampaignForecast` compute, `StoreRow` and `StorePoints` are the
commits, `Die` a death between them. A request names an `entity_type` and an `entity_id`
(`Scope`), and either type comes with an id or without; a row without an id is never met by
the unique key, one with an id always. Which candidate model wins and what it predicts
is any outcome the observed days allow. `Simulator` resolves assumptions
(`Resolve`), then reads the series and stores or reuses a row (`Simulate`, `Rerun`).
Every assumption, daily ratio and figure that the code quantizes is rounded here, half to
even, to as many parts (`Quantize`, `Unit`); what is said of a figure reads it rounded.

**Strategy, Funnel.** Requests read their inputs, then a version number, then commit
(`Read`, `Number`, `CreatePosition`, `CreateOffer`, `CommitDecision`,
`CommitMessaging`, `CommitFunnel`); recommendation and validation rewrite statuses.
Scores, verdicts, components, stages, gaps and funnel status are operators over what
was read; `Change` moves evidence, price, goal, metrics or the forecast.

**CreativePerformance, CreativeLearning, CreativeOptimization, CreativeInsight.**
From linked creatives and daily rows to observations (signal, trend, fatigue, class,
readiness), from observations to profiles, patterns and learnings, from those to
gated, scored and unique opportunities, and to drafts. `CreativeInsight` runs them as
requests that read at once and store a snapshot unless one with their
fingerprint is there; the fingerprint is what the code hashes, not what the snapshot
depends on. `cites` marks the plans whose report was a stored one.

**ResearchLibrary.** `status`, `competitors`, `sources`, `snapshots`, `evidence`,
`findings`, `reports` are the tables. `LoadProject`/`StoreStatus` and
`CheckCompetitor`/`StoreCompetitor` are a check and its write; `ReadInputs` is the
read half of `ensure_snapshot` (its three queries as one) and `StoreReport` its
commit. Evidence rows never change, so that storing one is a single step; a
collection is its last commit (`ResearchCollection` has the rest). The operators of
the engine take the rows of evidence and their sources by id (`SourcesOf`), the two
things `_inputs` returns and `_groups`, `_coverage` and `_input_hash` are given.

## 4. The runs

| run | shows | instance |
|---|---|---|
| `webhook_inbox` | one claimant, one application, honest and final status, every event resolves, the event log is implemented | 1 webhook, 3 deliveries and 2 executions, two at a time, 3 tries, key expiry, 1 rotation, 1 death |
| `provider_sync` | sound cursor outside the named races, types and lock (`LocksFit`), erasure, end of jobs | 2 orders on two pages and an empty resource, or the insights of 2 days; 3 days, a lookback of 1, an initial window of 2; 2 jobs, 2 workers, any 2 events. Meta's hierarchy is listed as Shopify's orders are, without a filter: the theorem covers it, the instance has none |
| `sync_error_page` | **finding**: an error on a later Shopify page is a success whose cursor passes the missing records | the same |
| `connections` | token and account agree, one row per grant and one open row (`RowsFit`), down stays down | 2 users, 2 accounts, 2 states, 2 requests at once, 5 starts |
| `research_collection` | pages with status (`PagesFit`), cancel, new content, end of jobs | 2 jobs of one source, 2 executions at once, 2 contents, up to 2 pages, 2 tries, any 2 disturbances; initial states up to an exchange of the contents or of the jobs |
| `creative_lifecycle` | two reviews before a test, plan behind the draft and provenance (`TestsFit`), legal history | 2 requests at once, 1 opportunity, 2 snapshots of which the second drops it, 9 starts |
| `refresh_sessions` | one session per login (`SessionsFit`), logout ends it, cookie alive, windows end and calls answer (`AllSettle`) | 2 tabs, 2 calls at once, limit 1, 3 starts |
| `records` | catalog: newest wins, goals disjoint, one default rule, stock adds up (`RowsFit`); library: served reports are current, findings grounded and competitors distinct (`LibraryFits`) | 2 requests at once; catalog: 4 in all on one table, 3 instants; library: 6 accepted requests, 2 projects, 2 names of one competitor, 3 kinds of source, 2 pages |
| `insights` | diagnostics and decisions never contradict each other on a campaign; a persistent finding has its cause now; a request ends | 1 campaign, 1 ad set, 2 ads, 2 periods of 2 days, 4 histories, 1 change between the scopes; a floor of 400 impressions for a decision, 200 for a diagnosis, in the code 1000 and 500 |
| `planning` | a current forecast has its evidence, and its points where it has no `entity_id`; the break-even hints of a simulation do not contradict its figures | 2 requests, 2 campaigns, scopes with and without an id, 5 days, 3 histories (one of ads that cost nothing), 1 late fact, change or death; a rate in parts of 1/20 |
| `strategy` | a recommended position has evidence of customers or competitors, or three pieces and a solution, and a selected offer earned money; no version is skipped; a recommended funnel leads to a product that can be bought | 3 requests, two at a time, 6 pieces of evidence (three of neither kind: the fewest that can be recommended), 3 positions, 2 offers, 1 change |
| `creative_insight` | classification, readiness and measurement agree; plans follow the learning they are built from (`Ignored` names the recommendations a plan makes nothing of) and cite it (`CitationsHold`) | 4 concepts, 1 variant, 3 ads and a shared creative, 6 days, 2 requests, 1 change, 1 review |

**Why the bounds are enough to be of interest.** Each hazard in the list needs at most two
actors at once, so every instance has two of whatever overlaps (deliveries,
executions, jobs, requests, tabs). The number of starts is the longest story a
property needs: from connect to reconnect and select (5), from a first plan
to a closed test with a second request beside it (9), create, check, change and
check again (4), from a source to a report that a later collection could make stale
(6). The engines get thresholds scaled down to a few rows, so that each gate
is met, missed and met exactly by some history. Larger instances were also run once and held: two opportunities with eight starts for
`creative_lifecycle` (1.6 million), a limit of two for `refresh_sessions`, five
requests for the catalog (2.1 million). `MaxTables = 1`: no handler of one table of
the catalog reads another, so mixing tables gives nothing but products of
the same behaviours. For the same reason a behaviour of `records` exercises the
catalog or the library and one of `planning` forecasts or simulates, and `Narrow` in
`MCRecords` keeps what nothing else reads on its own. Symmetry is used where a run has no liveness property and the
model values are interchangeable.

**Exceptions in the properties.** Several properties hold only outside a named
race, and the race is real: the model reaches it. `CursorSound` excepts what `races`
lists, and the days before the initial window (`Due`), which nothing asks for; `TokenServesAccount` and `StaysDown` rows that a late request wrote;
`OneOpenConnection` overlapping first connects; `NewContentIsReported` jobs of
several pages and jobs whose worker died; `EveryJobEnds` of `ResearchCollection` the five
ways to strand a row that its comment names, among them every exception that `run_job` does
not catch; `HistoryIsChain` tests written from a
replaced status; `CookieIsAlive` lost replies, expiry and a logged-out login; `WindowsEnd` a death
between INCR and EXPIRE; `CitationsHold` the plan of a report that was computed because none
was stored, which cites a fingerprint that may later be another report's; the catalog's and the competitors, requests that had not
read each other's rows; `EvidenceBehindModel` the model's name on a campaign's row,
which keeps the one it was first stored for. They are listed as hazards with that note: the properties show
that nothing else breaks the promise.

Two of the races are Meta's own window. `_resolve_window` (`meta/adapter.py:313`) takes the
later of today - lookback and cursor - 1 day, so after a pause longer than
`meta_incremental_lookback_days` (2 by default) the days between the cursor and the window are
never fetched, and the cursor, which becomes the last day seen, passes them (`gap`). A day
revised after the one day of overlap is not read again (`late`), although
`docs/architecture/meta.md:73-75` says that the overlap "catches late attribution" and the docstring
(`meta/adapter.py:302`) "floored by the lookback": a maximum lets the lookback shorten
the window, never lengthen it. Without either exception TLC finds `CursorSound` violated.

Two clauses are beyond the bounds of their run and rest on the theorem alone: the three works of
`strategy` never build a recommended funnel beside a decision that lacks data
(`RecommendedFunnelLeadsToSale`), and the two works of `creative_insight` never reach a second
report under one fingerprint.

**Fairness.** Weak fairness on the step an API request or a worker execution is
about to take: an event loop runs a coroutine whose await has returned. Strong
fairness on starting a queued arq job where workers may be busy for ever in
between, weak where they may not: arq polls the queue while a slot is free. Weak
fairness on Redis expiry and on arq's max_tries check. No fairness on anything
from outside: deliveries, users, the provider, failures and deaths.

## 5. What is proved

`tlapm` checks, for every value of the constants that the assumptions allow (any
sets of actors and of data, any bounds), that `Spec` keeps the properties below. The
runs check the same formulas, every invariant and every action property of them; what
TLC can evaluate of an inductive invariant it checked before the proof.

| proofs | theorems, and the property of a run they state | obligations |
|---|---|---|
| `WebhookInboxProofs` | `TypeCorrect` `TypeOK`, `ClaimIsExclusive` `SingleClaimant`, `StoredAtMostOnce` `AppliedAtMostOnce`, `StatusIsTrue` `StatusIsHonest`, `FinalStatusIsFinal` `TerminalIsFinal`, `InboxImplementsLog` `ImplementsEventLog` | 650 |
| `RefreshSessionsProofs` | `OneSession` `SessionsFit`, `LogoutIsFinal` `LogoutEnds`, `CookieLives` `CookieIsAlive` | 1200 |
| `DecisionProofs` | of `CreativeLifecycle`: `NothingUnreviewed` `TwoStageReview`, `ProvenanceIsKept` `TestsFit`, `HistoryIsLegal` `HistoryIsChain`; of `CreativeInsight`: `RulesAgree` `GatesAgree`, `PlansAreFollowed` `PlansFollowReports`, `PlansCiteTheirReport` `CitationsHold`; of `Recommendations`: `RulesDoNotContradict` `ViewsAgree`, `PersistenceIsCaused` `PersistenceHasACause` | 2464 |
| `ResearchCollectionProofs` | `PagesFollowStatus` `PagesFit`, `CancelIsKept` `CancelHolds`, `NothingNewIsPassedOver` `NewContentIsReported` | 944 |
| `ProviderSyncProofs` | `LockIsTheWorkers` `LocksFit`, `DisconnectIsFinal` `DisconnectErases`, `CursorNeverPasses` `CursorSound` | 2725 |
| `ConnectionsProofs` | `TokensServe` `TokenServesAccount`, `RowsFitTogether` `RowsFit`, `DownStaysDown` `StaysDown` | 1624 |
| `RecordsProofs` | of `Catalog`: `NewerPeriodWins` `NewestWins`, `RowsAreApart` `RowsFit`; of `ResearchLibrary`: `ServedReportsAreCurrent` `ReportsAreCurrent`, `LibraryRowsFit` `LibraryFits` | 2410 |
| `StrategyProofs` | `VersionsFollow` `NoVersionSkipped`, `SelectionsAreEarned` `SelectionIsEarned`, `FunnelsLead` `RecommendedFunnelLeadsToSale`; of `Forecasting`: `ForecastsHold` `ForecastRowsHold`; of `Simulator`: `FiguresAgree` `BreakEvenAgrees` | 3553 |

The `...Fit` properties include the type invariant of their module.

**Assumptions.** One per module, named, evaluated by TLC on every run: constants that
stand for nothing are outside the sets they complete, bounds are naturals, the
resources of a provider are a non-empty sequence and every choice of them takes one,
a snapshot lists opportunities, the evidence a user names is finite. `ProviderSync` takes its sets of records and workers to
be finite; each provider offers a non-empty set of resources; days, lookback and initial window are
naturals, and there is a first day. The library's is `LibraryAssumption` in `MCRecords`: a submitted claim has one
of the classes the schema admits, a page gives a sequence of signals, its bounds are
naturals. Nothing is assumed about how many actors there are. Three are longer, because
arithmetic has to be of numbers:

- `LayersAssumption`: concepts and variants are different things and each link target has a
  set of ads; the days of a period and the first links are finitely many; the
  thresholds of days and of entities are integers, and classifying asks for no more days than
  scaling does (`InsightAssumption`).
- `PlanningAssumption`: there are finitely many campaigns; rows of ads hold naturals and
  rows of orders integers beside a count (the CHECKs of `ad_insights`, `integrations/models.py:425`),
  prices are not negative; a request has a positive budget, and overrides that are
  ratios (`simulator/validation.py:51`); a unit has at least one part; days and the least numbers of
  observations are integers; None is not a campaign, a number or a forecast.
- `ScopesFit`, `ThresholdsFit`, `FactsAdmitted`: a campaign has a set of ads, ads and days are
  finitely many, and the period before has as many days as the current one; thresholds are naturals
  and stand to one another as in `diagnostics/thresholds.py` and `recommendations/thresholds.py`
  (a critical level is beyond the plain one, a decision asks for no more spend than a
  diagnosis); facts are rows the tables admit.

**The shape of every proof.** No property is inductive: each speaks of rows, and a
row is right because of what its writer had read before an await. The inductive
invariant `IInv` (`LibraryInv`) therefore says of every actor, between its read and its
commit, what its read still guarantees. There is a lemma per action and one for
steps that only move an actor on; `Step` collects them.

*Webhook inbox.* A busy actor has an event in hand and a verdict before it writes one;
nothing is stored for an event that was never claimed, no summary is written before the
status is final (`UnfinishedUnnoted`), and by `HolderIsHonest` what an
execution that holds the claim has stored is what its verdict will say. With the
exclusive claim these give the status: the only execution that may write it is
the only one that may have stored. The refinement uses the same invariant: a step that
touches none of `row`, `applied` and `errorNoted` stutters, `RecordEvent` records,
`ClaimEvent` takes up, `PersistRecord` stores or leaves the log alone, and `FinishEvent`
settles, where `HolderIsHonest` tells the log which verdicts follow a stored record
(`ExecutionRefines`, `RefineStep`).

*Sessions.* The right to the next session of a login is held once: by a live
token or by a refresh that has consumed it (`OneHolder`). A logout finds
the token or somebody who has consumed it; no refresh of an ended login is under way
(`EndedStay`). A token that no tab has received is live and is in one reply
only (`Undelivered`); that is what keeps the cookie alive when neither a fault nor a
logout intervened.

*Creative lifecycle.* `Justified` is what remains of a read at the commit. Most of it
remains because plans, acknowledgements and tests only accumulate; where rows are
overwritten, the property excepts the tests it names.

*Creative engines.* A snapshot is right of inputs that may have moved since, so nothing is said of
it and the present facts. `SnapshotInv` says of every stored snapshot, and of every one a
request is about to insert, what it tells by itself: the observations of a performance snapshot
agree on their class, readiness and measurement (`Agrees`), a learning report is
computed from some set of performances (`Learnt`), a plan has the items its report
supports, each once, none of those the plan ignores, and none that is blocked
(`Follows`). A plan of a stored report finds that report under the fingerprint it cites
(`Cites`), and no two snapshots have one fingerprint, so it finds no other. The model does
not say that a snapshot is current: after facts have moved, the old one is answered. That the three rules agree on an observation is shown rule by
rule: they are compared on the same rows, and a sample that suffices for scaling suffices for a class.

*Diagnostics and recommendations.* `FactsHold` says that the facts are rows the tables
admit and that the views are what the queries make of them; then every measure is an integer
or None, and the rules can be compared. A campaign ready for scaling is profitable by
diagnostics, so its ROAS is at least break-even and it is not up for a kill (`CampaignsAgree`). A
persistent loss is one of the current period too, and each way to lose there has a
finding of its own (`RoasIsCause`, `CpaIsCause`, `CausesAre`).

*Research collection.* An arq job is never executed twice at a time, and a job that
lost no worker is finished once it has pages (`Row`); so the execution about to
write pages is the only one that could have. What an execution has read of the
snapshots stays there, because nothing deletes them (`Carries`).

*Provider sync.* `RunSound` says of a run what it has done so far: each record of
the resource it lists is settled (the stored copy is the provider's version, or that
version was rejected), is in the page at hand, or is still to come. A page that
the provider has overtaken meanwhile belongs to a record that comes again, newer
than every cursor (`Overtaken`). The cursor such a run writes at its end passes nothing.
Of daily records a run accounts for the days before the one it asks on overlaps with
(`Reaches`, `Accounted`): its window starts no later than the cursor it read, else there was a `gap`. What it
marks is no later than the day it asked on and the cursor it read no newer than the saved one
(`Bounded`), so a day that appears behind the saved cursor is `late`, and nothing is lost (`Safe`).
The lock is held from the moment an execution leaves `lock`.

*Connections.* `Fresh` is what a request relies on (its row is as it was read), and
holds unless another request has written in between, which `late` records. An OAuth
state passes from Redis to one request and from there to one token (`Exchanging`,
`TokensHold`), so no two rows have tokens of one grant.

*Catalog.* Every request has a ticket that names the version of what it writes and is
never used twice; each table has its own invariant that relates what requests have read
to the rows that came since.

*Research library.* A report, and a request about to store one, was generated from rows of
evidence that are still there and from sources that differ from those of today at most
in their content (`Generated`); and the input names the evidence and the content it came
from (`InputTells`). So an input that is that of today was generated from what is
there today. Here the input must be injective, which is why a hash without the content
of the sources would not do.

*Strategy.* Four tables get their versions in the same way, so `Held` says of any of them
that its versions are one to the highest, and `Carries` of a request between its count
and its commit that it holds at most the next (`NextFollows`, `AppendKept`). Overlapping
requests may share a version; none can leave a gap. A selection is decided by the score
alone (`Scored`), and the arithmetic of the score gives the evidence and the profit.
A funnel speaks of rows by their place: tables only grow and what was asked and
decided is not rewritten (`Extends`), so what it says of them stays so. `PositionScore`
is a sum of fixed points, hence no induction. This proof is what showed that
three pieces of evidence of neither kind with a solution reach exactly 0.60, the
threshold (`strategy/service.py:404`): the property had demanded a customer's or a competitor's
piece, and the instance was too small to contradict it. Both were corrected.

*Forecasts.* A request has entries left to store, each of a metric of its own (`Entries`), and what
it stored last is there. Where it has no `entity_id`, that is a row with its own number (`Stored`,
`ForecastJob`): so no request finds its row with points of another. Where it has one, rows are
shared and only their evidence is claimed. That the winner was scored on
enough is `ScoredOnEnough`, which travels from the contest to the entry and to the row.

*Simulator.* A figure that is rounded is `Close` to a ratio: within half a part of it
(`RoundedIs`), and a number of whole parts that is on one side of the ratio stays there
(`RoundedKeeps`). A conversion rate, an order value or a cost is one such number and its hint another,
so one lemma compares the two sides of a break-even line that are each rounded
(`HintAgrees`, and `DearestAgrees` for the largest cost, which is rounded twice): if both were on
the wrong side, the product of what they are rounded from would differ by more
than the two halves allow. This takes the divisors to be large enough to tell: a conversion rate no more than the clicks,
an order value no more cents than the purchases have ten-thousandths, and a cost a cent away from
its maximum. Each condition is in the property, since rounding alone
breaks it otherwise (a fraction of a click, an order value in the millions for a thousandth of an order).
`RowHolds` keeps of a row that it was computed from values in whole parts and the model they
select; each model buys the budget's worth of orders at what an order costs
(`BoughtIs`, `CostIs`, `ReturnIs`), whence `MinCvrAgrees`, `MinAovAgrees` and `MaxCpaAgrees`.

Where a set has a first or a last member, the proof takes it from the well-foundedness of
`<` (`Smallest`, `Largest`, stated in the modules that need them). A sum over a finite set
is a recursion on sets (`SumFunctionOnSet` of the library): the function
it defines exists and is unique by the well-foundedness of strict inclusion (`Minimal`,
`SumsExist`, `OneValue`), and a sum of members of a set closed under addition is in it
(`SumStays`). That is all the induction over data these proofs need, and why the models
write their sums that way.

**What the proofs showed.** Besides the threshold above:

- `rule_insufficient_data` compares with 100 and 1000 in place (`recommendations/rules.py:380`), while
  diagnostics asks for 500 impressions (`diagnostics/thresholds.py:81`). A campaign with 500 to 999 is
  ready for a scaling review and has insufficient data at once, against "Sample-size and
  data-quality thresholds are sourced from Phase 3B" (`recommendations/thresholds.py:8`) and "never
  hardcode comparisons" (`diagnostics/thresholds.py:4`). The model had one threshold
  for both; it has two now, and `ViewsAgree` excepts the campaigns between them.
- Where the ads of history cost nothing and brought no click, but there were orders, the
  simulator picks the model `cpa_aov` with a cost of zero; `_div` gives None
  (`simulator/engine.py:221`) and a run that is called available has an expected scenario
  without figures. An earlier property had claimed the figures; the
  third history of `planning` is such a case.
- Guards of a CASE that overlap (`SelectModel`, the strength of a finding, the direction of a
  pattern) mean any of their values, where TLC takes the first as the code does.
  They exclude one another now.

**Only model-checked, and why.**

- Liveness (`EveryEventResolves`, `EveryJobEnds`, `JobsEnd`, `AllSettle`,
  `RequestEnds`) needs fairness and ENABLED, both beyond the prover.
- Every safety invariant and every action property of a passing run is a theorem. That their
  cases happen is what the runs add: each property has a change of the code that breaks it there.

## 6. What is not modelled

Tenancy and permissions, bundles, discounts and profiles, creative assets, campaign
listings, the schema as such, web pages, health and configuration: reads, single-row
writes that no rule relates to another request, views and infrastructure
(`PROJECT.json` has the reason for each). Inside the modelled components: the HMAC and
the OAuth signature (accepted or not, as an outcome), encryption, field mapping,
pagination sizes, rate-limit headers, log lines, messages and every text an engine
writes; the crawl order, robots.txt and parsing; sign-up; Decimal rounding outside `Simulator` and the profit forecast, and its
28 digits inside them (the arithmetic between two roundings is exact); sensitivity tables and the
columns of a simulation that are only shown; the numbers
a forecasting model predicts; full-text search and filters of listings; analyses no
endpoint calls (angle diversity, redundancy, test groups, whitespace, the
creative brief). The several SELECTs of a report are one read, except where the
module says that facts arrive between them.

Seen while reading, left out of the hazard list because nothing in these
modules depends on it: a repeated idempotency key of a research job
is answered after a rollback with an expired object and ends as a 500;
lifecycle events are listed by created_at, the start of the
transaction, so two overlapping ones may be listed in the other order; two
overlapping reviews may leave a row with the state of one and the note of the
other; two first webhooks of one connection read it once each; a Meta job that is
run again after a death skips itself while its own lock is still held, until it
expires.

Also seen, as facts the models reach or abstract, without a run of their own:

- *Intake and connections.* A delivery is acknowledged although its first attempt
  died before the enqueue (`router.py:360`). A worker that dies after the claim leaves
  `processing`, a dead sync leaves `running`. An account whose connection ended is
  refused as already connected (`service.py:521`). A refresh answered 429 clears
  the access token of every tab (`api-client.ts:57`). A logout says "the cookie is cleared
  regardless" (`auth/router.py:147`), and clears it on the injected response while it
  returns a fresh `Response(status_code=204)`: the header never leaves, and the browser
  keeps a revoked cookie until the next login or its expiry.
- *Catalog and tests.* Two price periods with one start are both accepted
  (`products/service.py:50`). Two overlapping activations are both recorded
  (`creative/action/service.py:419`).
- *Diagnostics and recommendations.* A negative unit margin makes the summary raise.
  `spend_without_purchase` and `revenue_purchase_mismatch` can never be raised. The
  goal row is passed where a context is read (`recommendations/engine.py:231`). Day
  gates count rows in one place and days in another.
- *Forecasts.* Business rows are not covered by their unique key (NULL), so
  overlapping requests leave two. A row under an `entity_id` is met by it: a
  campaign's, and a business's too, for `schemas.py:176` takes an id beside the type `business` and
  nothing looks at it. The second request of a day then updates and commits the row and
  fails at its points, which are inserted before the old ones are deleted, where
  `service.py:207` says "the unique (forecast_id, date) makes this safe": the row keeps the points and the model
  of the first. `ForecastRowsHold` excepts those rows. A baseline "needs at least 7 observations"
  in `docs/architecture/forecasting.md:54` and `constants.py:33`, but no model is chosen without a backtest, and
  that asks for 14 (`constants.py:74`, `backtesting.py:84`): seven to thirteen end as "no model", and a
  current forecast has at least 14, which is what `EvidenceBehindModel` says.
- *Simulator.* Targets and duration are not in the key of a run; a paid day without
  clicks divides by zero.
- *Strategy.* Offer decisions look for a forecast status that no row has;
  recommending twice takes the recommendation back; validating afterwards leaves a
  selection on an invalid strategy; versions repeat when requests overlap; three pieces
  of evidence of any kind with a solution just reach the threshold of a
  recommendation.
- *Creative engines.* Fingerprints of performance and learning omit the facts, so a
  stale snapshot is answered as the existing one; a report that was not stored
  is cited as a snapshot; coverage-gap drafts are never measurable.
- *Research.* A job of mode `specific_urls` never ends: its queue is a deque of an
  asynchronous generator (`collection/provider.py:87`), the TypeError passes the three handlers
  of `run_job` (`collection/service.py:254`) and the row stays `running`, as after a
  protocol error (`provider.py:127`), which is not one of httpx's network errors. Evidence a person submits has no project, so a group of it alone never
  becomes an item of a report; every changed input generates the findings again;
  the number of source snapshots is not in the input hash; a project's status is
  written whatever it has become since it was read; collecting a page that another
  source has stored meets the unique index outside any handler.
