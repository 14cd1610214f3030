# Verification of the Zion terminal

TLA+ modules, TLC configurations and TLAPS proofs for the parts of this repository whose
correctness is hard to test: what happens when requests, queue messages, deployments, crashes,
retries and late answers meet, and what is computed from filings that are restated, late, repeated
or contradictory. Every module is written from the code, one action per handler or per awaited
call, one operator per function, and `PROJECT.json` names for every definition the lines it stands
for.

1. [The system](#1-the-system) — inventory
2. [Modules and code](#2-modules-and-code)
3. [Runs](#3-runs) — what TLC checks, with which bounds
4. [Fairness](#4-fairness)
5. [Proofs](#5-proofs)
6. [Where the code and its documents disagree](#6-where-the-code-and-its-documents-disagree)
7. [What is not modelled](#7-what-is-not-modelled)
8. [Plan](#8-plan)

To repeat the work, in this directory: `tlc -config <run>.cfg <module>` for a row of section 3,
`tlapm <module>.tla` for a module of section 5.

## 1. The system

The repository is a financial research system around SEC filings and market prices. Its parts
meet in object storage (R2): nearly every object is created once, under a name that holds a
digest or a release, and a handful of pointers (`CURRENT`, the deployed version of a Worker, the
root manifest bound to it) say which objects are in force. The hard behaviours follow from that:
what is read before the pointer moves and used after it, and what a crash leaves half written.
Around the storage, pure code decides which of many reported facts answers a question as of a
date; there the hard cases are data: restatements, facts of one day that disagree, fiscal years
that end anywhere, concepts that overlap.

**Services that run at the edge**

| Component | State | Operations | What is hard | What makes it correct |
|---|---|---|---|---|
| SEC engine durable jobs (`sec_engine_jobs.py`, persistence of `sec_engine_api.py`) | `request.json`, parts, computed histories, cached queries in R2; queue messages; the Worker's bindings | submit, `queue_batch`, `consume`, failure record, status, interactive `queue_missing` | redelivery, a write that lands after its timeout, a crash between two writes, rotation of the credential that keys everything | one final outcome per task, acknowledged only when stored; COMPLETE means readable |
| CURRENT pointer cache (`serving_v2.py`) | `_entries` and `_inflight` of each isolate, edge cache, the object | `resolve`: entry, edge, shared refresh, retry after failure | every await is a chance for another request to change what was read | bounded staleness, one refresh at a time, nobody waits for ever |
| Snapshot bundles (`thin_worker.py`, `snapshot_bundle.py`, tools) | two pointers; per request the first snapshot, pieces and pins | snapshot, check pin, load, stamp, snapshot again, answer | pointers move between any two reads | an answer is from one release, the one it names |
| Company queries over the current release (`private_api.py`, `private_financials.py`, `data_api.py`, `serving_v2.py`, `temporal_core.py`) | the release, the edge cache of its artifacts | identity, financials, revenue growth, price, price history; paged fundamentals, revisions, prices | artifacts are read one by one and may be torn; rows are restated and published late; a symbol passes to another company | an answer as of an instant is whole, newest for it, of one release, and stays |
| Private read APIs (screens, price histories, readiness, series, certification) and the client that follows them (`private_research.py`) | deployed release, cursor, the live object of the stored histories | one page, the next page, the loop of `--all-pages` | a deployment or a replaced object between pages; each API binds other parts of a request into its cursor | a complete reading is the whole selection of one release; a cursor is refused only for a reason |
| Research client and history paging (`private_research.py`, `sec_engine_api.py`) | cursor, seen cursors, budgets; deployed release | `collect_history`, `compare`, `financial_history`, `page_result` | a switch between pages or companies; budgets in the middle of a company | a complete collection is one release, every item once |
| Dataset service (JavaScript: `native.mjs`, `financial-query.mjs`, `service.mjs`) and its Python transport (`transport.py`) | objects that are written again, tables with versions, two shared caches | rows page by page, template queries, ranges of an object or of an archive's member | a write between head, cache and ranges; work that goes on after its timeout | nothing of two versions or of an unregistered one is answered |
| Equity claims (`equity_claims.py`, `equity_claims_api.py`) | an engine release and a companion release | the claims on a company's equity as of a cutoff | two archives of different days, overlapping concepts, late filings | the claims of a cutoff are those of all the facts available then |
| SEC engine histories (`sec_engine.py`; first engine `sec_history.py` and its endpoint) | none | normalize a member, select, derive quarters, trailing years, free cash flow | restatements, cumulative and overlapping contexts, long quarters, values that are not finite | a history of the past is final |
| Financial certification (`financial_certification.py`, `unified_research_api.py`) | a companion built for one cutoff | certify a row of a history by its sources or by an identity | it recomputes what the engine did; companions are used for other days | true rows certify; a proof holds on its day |
| Issuer readiness (`sec_universe_readiness.py`, `sec_readiness_index.py`, `sec_readiness_api.py`) | records, an index of buckets; the files of a resumable run | classify, summarise, index, screen; a pool of range workers | a screen reads only one bucket; kills, torn lines, failing workers | a screen is whole; a manifest forgets no issuer |

**What operators run**

| Component | State | Operations | What is hard | What makes it correct |
|---|---|---|---|---|
| Staging promotion (`controlled_research_promotion.py`) | traffic of the Worker, evidence file, process | preflight, activate, wait, verify, drill, roll back, record | commands that fail after taking effect, propagation, kills, evidence that cannot be written | what the evidence claims is true; it leads the traffic |
| Universe pipeline (`sec_universe_pipeline.py`) | checkpoints, stage receipts, `publication.json`; bodies, catalogs in the cloud; thread pool | evaluate, publish, throttle, mark a stage, classify, publish the catalog | threads finish out of order; kills at any write | receipts say what happened; published catalogs are servable and final |
| SEC update releases and candidates (`sec_publish_update_release.py`, `build_revenue_override_candidate.py`, `sec_incremental_update.py`, `sec_engine_api.company`) | create-only payloads, catalogs, screens, manifests, receipts | `publish_update` object by object, override, rerun, the Worker's reads | runs stopped anywhere and rerun, side by side; inheritance over several releases | a manifest that is found is whole; history of the archive reproduces, but for what a registry change declares |
| Immutable publications (`publish_*.py`, `extend_collection_catalog.py`, `materialize_screen_release.py`, `sec_readiness_index.py`, index scripts) | objects of a release, receipts, configurations, `CURRENT` | write in stages, create, adopt, claim or copy, then name the release | two runs of other checkouts, crashes between any two objects | what is named is whole; a rerun publishes |
| SEC engine materialization (`materialize_sec_engine.py`, `publish_sec_engine.py`) | members, histories, checkpoint and manifest in a directory | extract in a pool, record, write the manifest, publish | kills within a write, a replaced archive, edited code | what is published is of what its identity names |
| Historical sources (`history_store.py`, `acquire_historical_sources.py`) | raw files, checkpoints, releases | fetch, keep, reuse, build | kills, cleared files, new editions | a release has every task, parsed, with its response |

**In the terminal**

| Component | State | Operations | What is hard | What makes it correct |
|---|---|---|---|---|
| Retrieval orchestrator (`client.py`, `orchestrator.py`, `agents/retrieval/`, `storage/`) | a response cache and a document store shared by processes, a ticker table per process | route, look up, fetch, retry, fall back, persist | a cache that outlives processes of other configurations; sources that fail midway | an answer tells its source and is of the filing it names |
| Dataset registry, comparison and report (`datasets/`, `dataset_canary.py`) | baseline, packet, published release, stored facts | evaluate a field, derive, corroborate, report, compare, accept | restatements, rewritten facts, lost sources | the past stays; what is accepted hides nothing |
| Filing pipeline and reconciliation (`pipeline/`, `verification/`) | the stage of one filing | convert, cut into sections, verify against company facts | the period of a filing is inferred | a pass is of the filing's own figures |

**Not modelled**: command line and local HTTP API; truth query; intent parser and LLM providers;
validation and synthesis agents; Serving V2 contracts and tools; the selections of SEC engine
screens; security identity and valuation; stored price indexes; valuation service; bulk refresh;
Basin layouts; acceptance, audit and benchmark scripts. Section 7 has the reasons.

How the parts meet:

- *jobs and paging*: a page request for a company without a computed history becomes a job
  (`queue_missing`). `Paging` has the answer 202 and the later appearance of the history;
  `SecJobs` has what happens to the job in between.
- *releases and jobs*: a job runs against the release bound to the Worker. `SecJobs` has the
  release as a binding that a deployment changes; `ReleaseChain` has how a release comes about.
- *promotion and the rest*: a deployment is one step of `SecJobs`, `Paging`, `ReadApis` and
  `SnapshotBundle`; `Promotion` opens that step.
- *pointer cache, bundles and queries*: `SnapshotBundle` and `ReleaseQueries` keep of the cached
  pointer what a reader may rely on, a release that has been CURRENT; `CurrentPointer` shows how
  old it may be, as an implementation of `RecentPointer`, which says no more than that.
- *pipeline and releases*: `UniversePipeline` publishes the kind of root a chain starts from;
  `Materialization` and `Acquisition` make what the programs `Engine` and `HistoricalSeries` of
  `PublicationScripts` publish.
- *readiness*: `ReadinessRun` produces the records that `Readiness` defines, indexes and screens,
  and `ReadApis` pages; their claims summary abstracts `EquityClaims`.
- *histories and certification*: the certifier of `Certification` is confronted in `Histories`
  with the histories of `SecHistory`, over the same filings.

## 2. Modules and code

Common conventions. A variable that carries a `pc` is a Python coroutine, thread or process; its
steps end where the code awaits, performs a storage call or can be killed. A body that is a
function of pinned bytes is represented by its presence, a digest by the object it names. A
definition whose comment begins "Mutant of" is a plausible bug in the definition it names; it is
used nowhere in a specification and shows that a run would notice the bug. A variable or field
whose comment says "observation" is read by properties only. Pure functions are operators without
recursion, so that they may stand in modules with theorems.

**SecJobs** (`deploy/cloudflare-query/src/sec_engine_jobs.py`, `sec_engine_api.py`).
`job`/`SubmitCheck`, `SubmitRecord`, `Enqueue`, `SubmitSend`, `SubmitFail` are the producer:
record first, one message per company, then the answer. `run` is the one invocation of
`queue_batch`: `Deliver`, the steps of `consume` (`ReadRoot` … `Readback`), the failure handler
(`HandleFinal`, `HandleRetry`), `Ack`. `Put` is `create_json`: create if absent, read back,
conflict on other bytes. `LeaveLate`/`Land` are writes that `wait_for` cancelled and that still
take effect; `Abandon` is a Worker that stops anywhere, `Deploy` a release switch or a rotated
credential. `PollStart` … `PollReply` are the status request, one part per step. `ServeHistory`
is the interactive route that fills the same cache.

**TaskBoard** is the abstract specification: tasks get one outcome each, callers are told the
truth or "QUEUED". `SecJobs` instantiates it as `Board` with
`outcome <- part`, `asked <-` the credential and companies of the submissions that were accepted or are under way,
`answer <- answer`; `KeepsTheBoard` is the implementation.

**CurrentPointer** (`CurrentPointerCache.resolve` in `serving_v2.py`). `Hit`, `Expired`, `EdgeHit`,
`EdgeText`, `Refresh`, `Followed`, `Owned`, `EdgePut` are the segments of `resolve` between awaits;
`ReadCurrent`, `TaskDone`, `TaskFails` the shared task (`RefreshTask`). `Tick` is time: everything
awaited takes at most `Latency`, and what is ready runs before time passes.

**RecentPointer** is the abstract specification of the cache: no entry, no edge, no refresh. The
pointer moves; a caller asks, finds a release that was CURRENT less than `Slack` before it asked,
and is answered with it or refused, alone or together with others. `CurrentPointer` instantiates it as
`Promised` with `Slack <- TTL + 2 * Latency` and a `call` for each resolution: it has asked while it
looks up, follows or owns a refresh (`match`, `follow`, `own`), and has found its release from then
on (`StageOf`); `KeepsPointerRecent` is the implementation. A text at the edge that proves
too old loses the release again (`Lose`), the end of a refresh is found by all its followers (`Find`).

**SnapshotBundle** (`thin_worker.fetch`, `snapshot_bundle.py`, tools). `Arrive` draws a request
with its route, number of loads, pins and expectation; `ReadServing`, `ReadDaily`, `CheckPin`,
`Load`/`Refuse`, `Stamp`, `ReadServingAgain`, `ReadDailyAgain`, `Unavailable` are its steps in
order; `Promote` and `Restore` move a pointer.

**ReleaseQueries** (`private_api._query`, `private_financials.py`, `data_api.dispatch`, the
selections of `serving_v2.py` and instants of `temporal_core.py`). A book of rows, each with the
moment its source gives: a day of the SEC or an instant. A release of a day `Held` the rows public
by its end. A query goes through `ReadPointer`, `ReadManifest`, `CheckIdentity`, `ResolveSecurity`,
`ReadSnapshot`, `ReadAnnual` or `ReadYear` (files back from the last year), or `ReadView` for a
page of a REST view; each `Read` goes through the edge cache, which keeps a text before its digest
is compared. `Observations` and `SelectRevisions` choose the revision of a period, the one by the
UTC end of a day of the SEC, the other by the midnight of New York that ends it;
`AnnualRevenueGrowth` wants consecutive full years of one unit and basis. A sorted list is
`InOrder`: the row at a place is the one with so many rows before it. `Publish`, `Evict` and
torn reads are the environment. `BooksAssumption` is what the producers of releases see to: rows of
a company have an id each, each at most one moment, and a session has one close
(`private_research.py:675` refuses a series that repeats a `session_date`), which is not public before its day.

**Paging** (`private_research.py` against `sec_engine_api.py`). One action per request and its
answer: `FetchPage` (a page: `validate`, `financial_history`, `page_result` with the halving of
`Tried`/`Fitting`, then the checks of `collect_history` in `Receive`), `FetchQueued` (202),
`FetchRefused` (an error or an unreachable Worker), `Combine` (the checks of `compare` over the
collected companies). `Deploy` and `Materialize` happen between requests.

**ReadApis** (the other paged routes). Six APIs with what each binds into its cursor (`Query`,
`Stated`, `SeriesAccepts` … `UnifiedAccepts`); `AskPage` is a page of an immutable release,
`AskStored`/`NativeRequest`/`AnswerStored` the stored price history, whose rows come from a live
object in a bounded number of native requests and are filtered by date afterwards. The caller
repeats its request with the cursor, or is the loop of the research command, which also states the
release.

**DatasetService** (`native.mjs`, `financial-query.mjs`, `service.mjs`, `transport.py`).
`AskRows`, `ReadHead`, `PageCache`, `ReadRange`, `PutPage` are a page of a stored table;
`AskTemplate`, `VersionCheck`, `ResultCache`, `EngineReads`, `AnswerTemplate`, `Timeout` a template
query; `AskObject`, `HeadMeta`, `ReadChunk`, `EndPart` the transport, for a whole object or for the
directory and the member of an archive. `WriteObject` and `MoveTable` happen at any time.

**EquityClaims** is `build_claims`: the candidate concepts, groups of the newest period within the
age limit, one operator per claim, the bridge. **ClaimsService** is the endpoint around it: the
company files, the SEC writes archives, `ReleaseEngine` and `ReleaseCompanion` pin them in any
order, `AskClaims` is a request with a cutoff.

**SecHistory** is `sec_engine.py`: `Normalize` (source rows, rejected contexts, quarantine, long
quarters), `Versions`, `Blocked` and `Selected` choose among revisions, `Candidates` and `Insert`
fill periods, `DerivedQuarters`, `TrailingYear`, `CashAt`, `DebtAt`, `FreeCashFlow`, `History`.
**SecHistoryV1** is the first engine, its releases and its endpoint, in what differs.
**Certification** is the certifier: `SourcesValid` recomputes a row from its leaves,
`Identities` and `Companion` are the accounting proofs, `Certified` the request.
**Histories** files reports and compares the three.

**Readiness** is the pure part: `Rule` and `MethodEligibility` (one gap operator per method),
`SummaryOf`, `RankWork`, `IndexOf`, and `Screen` with its choice of the smallest bucket
(`Candidates`, `Smallest`). **ReadinessRun** is the command: `Launch` reads what earlier runs left,
`Classify`, `CloseRange`, `RaiseInRange` are the workers of the pool with their flushes, `PoolEnds`
and `WriteManifest` the main process, `KillRun` leaves a prefix and perhaps a torn line.

**Promotion** (`scripts/controlled_research_promotion.py`). `ctl` is the process, `evidence` the file
that `write_evidence` replaces, `deployed` what Wrangler reports, `edge` what answers requests.
`Stages` is the table of records: status, step after it, and the handler if it cannot be written.
`WaitFor` is `wait_for_version`; `VersionsDeploy` a `wrangler versions deploy` that may fail
before or after taking effect; `Propagate` and `Kill` are the environment. `Timed` and `Untimed` are
the steps that a timeout bounds and those that may hang (`Hanging`).

**UniversePipeline** (`scripts/sec_universe_pipeline.py`). `main` is the main thread (`Skip`,
`Exhaust`, `Fault`, `Submit`, `Throttle`, `Mark`, `Finish`, `ClassifyCheckpoints`, `PublishPart`,
`PublishRoot`, `WriteReceipt`), `Pin` and `Save` are a thread of the pool, `StartPipeline` and
`KillPipeline` the command. `disk` survives, `cloud` is create-only.

**ReleaseChain** (`sec_publish_update_release.py`, `build_revenue_override_candidate.py`,
`sec_engine_api.company`, gates of `sec_incremental_update.py` and `sec_release_promotion.py`).
References are digests, so a manifest embeds its shards, items and payloads, and a release is the
path of changes that led to it. `Start` (reads and gates, all immutable), `PinCompany`,
`PinShard`, `PinScreen`, `PinManifest`, `FileReceipt`, `Conflict`, `Refuse` (budget), `Crash` are
`publish_update`; `Override` the registry change; `ChangeEngine` another checkout; `Served`,
`ExpectedRegistry` and `Resolves` what the Worker checks when it reads. `ArchiveHistory` is what a
payload shows as of the archive's cutoff: the same facts, and revenue as its registry defines it.

**Publication** is one model of create-only publication: `Look`, `Put` and `Meet` treat an object
as its stage says (`create`, `claim`, `adopt`, `immutable`, `foreign`, `replace`), `Advance` waits
for a stage, `Point` writes what names the release. **PublicationScripts** has one program for
each publishing script: its objects, those whose bytes its identity does not cover, its stages,
its pointers; a set of shards or members is represented by one or two. Runs know nothing of one
another; `contested` records that two runs of a script that copies a manifest were side by side.

**Materialization** and **Acquisition** are the two builds in a local directory. Files of the first
are written in place, so a kill leaves a torn member or history; those of the second are renamed.
`Prepare`/`Extracted` are the pool, `TakeMember`, `RecordHistory`, `OpenManifest`, `WriteManifest`
the main thread, `PublishEngine` the gates; `LookOrFetch`, `KeepRaw`, `KeepCheckpoint` a task,
`BuildSeries` and `MayPublish` the release.

**Retrieval** (`client.py`, `orchestrator.py`, `agents/retrieval/*`, `cache_manager.py`,
`doc_store.py`, `retry.py`). A request becomes tasks (`AskDirect`, `AskQuery`); a task is routed
(`Route`, `FallsBack`), looked up under `CacheKey` (`CacheHit`, `CacheMiss`), fetched (`Fetched`,
`Retry`, `FetchFails`) and stored (`Store`); `Respond` persists filings. `Markdown` is
`_fetch_filing_markdown` with the two clients of the SEC; `Expire` and `Restart` the environment.

**Fundamentals** evaluates a field as of a date (`Winner`, `EvaluateField`), derives totals
(`DeriveSum`) and corroborates them (`Confirm`, `CrossValidate`); **Comparison** is every finding of
`compare` but those about market data, with its severity; **RegistryReports** is the canary around
them: filings, rewrites, the packet, the published release, lost sources, `Screen` accepting a
baseline.

**Verification** is the filing pipeline: `Convert`, `Segment` (with the table of contents removed),
`VerifyFiling` with `DeriveFiscalPeriod`, `CanonicalFacts`, `CheckReconciliation`, `Structural`,
`CheckXbrl` and `Verdict`.

**MC modules.** Components that share no state share a run: an MC module extends them, adds a
variable `side`, and starts with one of them, the others at rest; a behaviour is one of one
component, and the run's states are the sum, not the product, of theirs. `MCWorker` (SecJobs,
CurrentPointer), `MCOperator` (Promotion, Publication, ReadinessRun, UniversePipeline),
`MCPaging` (Paging, ReadApis), `MCReads` (MCPaging, DatasetService, Readiness, Verification,
Materialization, Acquisition, ReleaseQueries), `MCTerminal` (RegistryReports, Retrieval,
SnapshotBundle), `MCFilings` (ClaimsService, Histories), `MCReleaseChain`. They also hold the
instances: filings, menus, books, questions.

## 3. Runs

All runs are exhaustive within their bounds. "Violation" runs check one property that a document,
a comment or a test states and the code does not keep (section 6).

| Run (cfg) | Question | Instance and why it is enough |
|---|---|---|
| `worker` (Worker) | May a task be acknowledged undecided, or be complete and unreadable? Is there one refresh at a time, is a caller of the pointer told a recent one, and does every resolution end? | Jobs: 1 job, 1 company, 2 releases, 2 credentials, the real 3 deliveries, 1 deployment (of either kind), 2 late writes. Tasks share only the cache, and a second task of the company would find what a redelivery finds; two late writes are a retry's and the failure record's. Pointer: 1 isolate with 2 resolutions, 2 releases, TTL 2, waits of 1, time to 4: a refresh that begins in one period and is used in the next; the proofs cover any number of isolates. |
| `jobs_board` (SecJobsBoard) | Is what callers are told true and final, and does the queue settle? | 1 job of 2 companies, one unsupported, 2 deliveries: a poll that overlaps the decision of both parts in either order, success and failure in one job. |
| `operator` (Operator) | Is the evidence of a promotion true and ahead of the traffic? Are releases that are named whole, and do reruns publish? Does a classification forget nobody? Do checkpoints, receipts and catalogs stay true? | Promotion: 3 versions (previous, candidate, a stranger), 3 polls for 30: first, middle, last. Publication: each of 19 programs, 2 runs, 2 environments, 3 starts, 2 crashes: two runs side by side and a rerun after both. Readiness: 3 issuers, of which one malformed and one of another company, 2 workers, flushes of 2, 3 launches, 1 kill. Universe: 4 issuers, stages after 3 and 4, one not usable, one read badly once, pool of 2, reserve of 2 bodies out of 3, 3 runs. |
| `reads` (Reads) | Is what is read, in whatever pages and from whatever cache, of one release, whole and in order? Is a screen whole, a pass deserved, a build whole, an answer about an instant of that instant? | Histories: 2 companies, 4 releases (several pages, an item too large, another cutoff, empty); limit 4, response 3, total 8, 3 pages, so each budget is met and exceeded. APIs: 3 releases (3 fragments of which one has no selected row, 2 fragments, an empty selection), page sizes 1 and 2, 2 rows per native read, 2 reads per page, 2 moves. Service: 2 callers, a table of 3 then 4 rows over a range boundary, 2 tables, 2 writes, 1 retry. Readiness: 2 issuers in 2 shards whose members and histories cover every gap of every method, 50 questions. Filings: fiscal years that end in June, September, December and January, with the number of the calendar year or of the one before, reports in time or thirteen months late, company facts as old as the filing or a year newer, figures that stay, grow or repeat, 8 documents. Builds: 2 companies or tasks, 2 archives and editions of the code, 3 builds. Queries: 7 books (restated and late rows, ties, no moment, another company's row, another unit, a short year), 3 releases, 4 past instants, 1 torn read, a question and a second of the same. |
| `all_pages` (AllPages, violation) | Does the loop of `--all-pages` get its pages? | as above, 1 move |
| `release_chain` (ReleaseChain) | Is every root that is found whole and reproducible? | 3 companies in 2 shards, 2 symmetric runs, 7 candidates, budget of 5 creates, 1 engine change, 4 releases, 3 starts: two updates side by side or one after the other on either side of an override, and a rerun. |
| `release_chain_served` (ReleaseChainServed, violation) | Does the Worker serve every company of every root? | as above |
| `terminal` (Terminal) | Do reports of the past stay, does an accepted baseline hide nothing, do filings explain reported values? Do answers tell their source? Are bundles of one release, the pinned one? | Registry: 1 company, an income and a debt of two parts, 4 days, 2 filings of a menu of 5, 1 rewrite. Retrieval: 2 processes with any adapters, 2 filing years, 2 attempts, 2 requests, expiry, restart. Bundle: 1 request (requests share only the pointers), 2 releases per pointer, up to 3 loads, 3 restorations. |
| `torn_line` (TornLine, violation) | Can a run read what a killed run left? | as in `operator` |
| `filings` (Filings) | Are claims of their cutoff? Are histories of the past final, do true rows certify, do companions prove only what holds on the day? | Claims: 3 days, 2 filings of a menu of 5, 2 archives, any order of releases. Histories: 3 reports of a menu of 4 over 3 days: restatements, an amendment, cumulative and overlapping contexts, values that are not finite, both orders of digests. |
| `cash_once` (CashOnce, violation) | Is reported cash added once? | as above |
| `compared` (Compared, violation) | Are the compared facts of the filing's period? | as in `reads`, filings only varied |

What the properties say:

- *worker, jobs_board*: `AckedIsDecided`, `CompleteIsReadable` (COMPLETE implies computed history
  and query), `OutcomeFollowsSource`, `KeepsTheBoard` (the refinement), `MessagesSettle`;
  `SingleFlight`, `KeepsPointerRecent` (the refinement: less than TTL plus two waits), `ResolveEnds`.
- *operator*: `PassIsTrue`, `TrafficFollowsEvidence`, `ControllerEnds` (a promotion ends, or hangs in
  one command that has no timeout); `ReleasesAreWhole` (what a
  receipt, a configuration or CURRENT names, and what a manifest after a barrier promises; but for
  the manifest of a screen release of which two runs were beside one another, section 6),
  `RerunPublishes`; `ManifestKeepsIssuers`; `RootIsServable`, `PublishedIsFinal`, `ReceiptIsHonest`,
  `RunEnds`.
- *reads*: `CompleteIsWhole`, `CommandsEnd`, `ReadIsWhole`, `FollowersAreServed`;
  `ServedIsOfOneVersion` for the dataset service; `ScreenIsWhole`, against the question put to the
  records themselves; `LocalBuildsAreWhole`; `AnswersAreOfTheirInstant` for company
  queries; `PassIsOfTheFiling`, against the figures the filing itself reported, with the one
  exception the code leaves (section 6).
- *release_chain*: `RootsAreWhole`, `ScreenFollowsCatalog`; `ArchiveReproduces`: as of the archive's
  cutoff a root shows of each company what the first root showed, but for the revenue of the
  companies of a registry change that the root declares, which is that of the declared registry.
- *terminal*: `PastStays`, `AcceptedHidesNothing`, `FilingsExplainValues`; `CacheKeepsSources`,
  `AnswersTellTheirSource`; `AnswersAreOfTheirRelease`, that a bundle is of one release, the pinned
  one if any, about requests during which no pointer is moved back.
- *filings*: `ClaimsAreOfTheirCutoff`; `AsOfIsFinal` for the engine and `ReleasesAreFinal` for the
  releases of the first one; `CertificationHolds` (`AnswersCertify`: true rows certify;
  `ProofsAreOfTheirDay`: a companion proves no more of another day than one of that day).

The type invariants of the modules with proofs are proved for every value of the constants
(section 5), as the first conjunct of the inductive invariant. `CHECK_DEADLOCK FALSE` is set where
the system stops: an ended command, a dropped message, a closed collection, the last permitted run.

Each property has a mutant in `PROJECT.json`: a mapped definition and a form of it with a plausible
bug, under which the run's own configuration reports the property violated.

## 4. Fairness

Liveness is checked under weak fairness of what the code or its platform schedules, and of nothing
else; kills, failures, deployments and pointer moves are never obliged or forbidden.

- `BoardSpec` (`jobs_board`): `QueueBatch` (a running invocation goes on) and `Deliver` of each
  message (the queue redelivers until it drops). A crash is still possible at every step;
  `MaxDeliveries` ends it.
- `WorkerSpec` (`worker`): `Resolve` of each resolution and `RefreshTask` of each isolate: the
  event loop runs what is ready. The jobs of this run are checked for safety only.
- `MCOperator`: `Timed`, the steps of a promotion that wait for a time only (polls are counted, reads
  have timeouts of 40 or 45 seconds, the demonstration one of ten minutes; an operator does not
  suspend the command). The steps that run `git diff` or `versions deploy` have no fairness:
  `command()` (`controlled_research_promotion.py:115-124`) gives them no timeout, and a hanging
  Wrangler holds the promotion where it is. `PublicationStep` of each run and
  `StartAny` (a script goes on, and is run again after a crash, which is what the comparing
  writes of the scripts are for; the bounds on starts exceed those on crashes); `Main` and each
  thread's `Pool` of the universe pipeline.
- `MCReads`: the history client runs while the other caller is idle, and the other caller while it
  has not ended; every request has a timeout, hence an answer or a failure.
- `MCTerminal`, `MCFilings`, `TaskBoard` and `ReleaseChain` state safety only: nobody is obliged
  to file, to ask or to run an update.

## 5. Proofs

Every theorem holds for all values of the constants that satisfy the assumptions named in its
component's module; sets may be infinite unless an assumption says otherwise. TLC evaluates those
assumptions in the runs. No theorem assumes fairness. A proof has the form `Init => Inv`,
`Inv /\ [Next]_vars => Inv'` action by action, and derives the properties from `Inv`. The theorems
are about the component's own specification; in a run it is one side of an MC module and takes the
same steps. Components whose properties share a run share a module of proofs.

| Module | Theorems about |
|---|---|
| `Worker_proofs` | SecJobs and its refinement of TaskBoard; CurrentPointer and its refinement of RecentPointer |
| `Operator_proofs` | Promotion; Publication; ReadinessRun; Materialization and Acquisition (LocalBuilds) |
| `UniversePipeline_proofs`, `ReleaseChain_proofs`, `SnapshotBundle_proofs` | the module of the name |
| `Reads_proofs` | Paging; ReadApis; DatasetService; Readiness; ReleaseQueries |
| `Terminal_proofs` | Retrieval; RegistryReports (with Fundamentals) |
| `Filings_proofs` | ClaimsService (with EquityClaims); Histories (with SecHistory) |

### Jobs and pointer (`Worker_proofs`)

*SecJobs.* `IInv` = `TypeInv` /\ `SubmissionInv` /\ `RunInv` /\ `OutcomeInv` /\ `AckedIsDecided`.
`CompleteIsReadable` alone is not inductive: the COMPLETE record is the last of three writes, and
may be on its way while the Worker is already elsewhere. `Established` (in `RunInv`) says for each
step of `consume` what is already stored; `Justified` says it of an outcome wherever it is: stored,
about to be written, or late. `SubmissionInv` ties messages to the record of their job. Proved:
`TypeCorrect`, `OutcomesAreFinal`, `CompleteTasksAreReadable`, `OutcomesFollowSources`,
`AcksFollowOutcomes`, `RecordsPrecedeMessages`, `AnswersAreFinal`, and `ServiceKeepsTheBoard`:
`Spec => Board!BoardSpec`. The refinement needs `PollInv` (what a status request has read so far is
still true, because outcomes are final) and `AnswerInv`.

*CurrentPointer.* `StoreInv`/`ResInv`: how far the stamp of a copy may lie behind the moment the
copy was last CURRENT, one wait for copies from the object, two for those taken over from the
edge. `FlightInv`: a refresh in flight has an owner. From the same invariant the refinement: the end
of a refresh is one step of all its followers, and the stamps bound what each of them has found.
Proved, for any number of isolates: `PointerTypeCorrect`, `RefreshesAreSingle`, `StalenessIsBounded`,
and `CacheKeepsPointerRecent`: `PointerSpec => Promised!RecentSpec`.

### What operators run (`Operator_proofs`)

*Promotion.* `Progress` ties each step of the controller to the traffic and the evidence (`Before`,
`During`, `Claims`), since what a record claims depends on where in the sequence it is written.
Proved: `TypeCorrect`, `PassIsProved`, `RestorationIsProved` (what RESTORED claims),
`NoSilentCandidate` (when the candidate may serve, the evidence says so), `EvidenceLeads`.

*Publication*, once for all scripts. `RunsOk`: a run at work has left under every name of the
stages behind it, and of what it has done in its own, the bytes that its environment gives
(`Good`); `ManifestsOk` and `PointersOk` then say what a manifest and a pointer stand for, and
`Alone` says that while no two runs of a script that copies a manifest were beside one another
(`contested`), at most one of them is at work. The assumption `OrderAssumption` is
what every program of `PublicationScripts` keeps to: a script that writes at all writes its whole
release; objects whose bytes the identity does not cover are never written over; what is adopted
comes first; a manifest that is copied from another release is replaced. None takes a lock.
The run evaluates it for all nineteen. Proved: `PublicationTypeCorrect`, `ReleasesStayWhole`.

*ReadinessRun.* `PoolCovers`: an issuer selected is in a file, in the buffer of the worker of its
range or still in its pool, as long as no line is shared by two records; `ClosedAreDone` and
`CollectedHolds` carry that to the moment the manifest is written, `OutputHolds` to later launches.
Proved, for any number of issuers, workers, launches and kills: `ManifestsKeepIssuers`.

*The builds.* Of a materialization, `BuildIsOfItsArchive` says that the files recorded so far are of
the archive and the code the build began with, and that the member whose history is being written
is whole, and `ManifestIsOfItsArchive` says it of a manifest. Of an acquisition, `TasksAreParsed`:
nothing is kept of an edition that does not parse. Proved: `LocalBuildsStayWhole`.

### Universe, bundles, releases

*UniversePipeline.* `PoolInv` (a thread works on an unchecked issuer and pins before it saves),
`FlightInv` (the main thread will await every active publication), `ProgressInv` (what is behind the
index is checked or in flight), `PublishInv` (what a catalog under way consists of). Proved:
`TypeCorrect`, `BodiesComeFirst`, `StagesAreTrue`, `RootsAreServable`, `PublicationsAreFinal`,
`ReceiptsAreHonest`.

*SnapshotBundle.* Two invariants of one request's record. `SightedInv` assumes nothing of the
operators: whatever a request read was current while it ran; from it `TypeCorrect` and
`MismatchIsReal` (a refusal for a changed release means that a pointer moved). `OrderedInv`
concerns requests during which no pointer is moved back: what was read lies between the first
reading of its pointer and the last, and is pinned down when the two agree; from it `BundlesExist`,
`AnswersAreOneRelease` (of one release, the pinned one if any).

*ReleaseChain.* `Sound(root)` (`ManifestOK`, its lineage, contents, registry change, and
`Registries`: of which registry each payload may be) holds of the materialization and is preserved
by an update and by an override; `StoreInv` says it of everything in the bucket, with every
reference present; `RunInv` says it of what a run under way has composed and already written.
`MadeInv` says that an object under an update's prefix is determined by the prefix, from which only
a manifest can conflict. Proved: `TypeCorrect`, `WholeCorrect`, `AncestorsCorrect` (earlier releases
stay readable), `ScreenCorrect`, `ArchiveCorrect` (histories as of the archive's cutoff), `ServedCorrect` (the Worker serves every company
that was not rebuilt after the change), `ObjectsStay`, `ConflictCorrect`.

### What is read (`Reads_proofs`)

*Paging.* `CollectedInv`: what has been collected when a request is sent is a prefix of the company
under way (`PrefixInv`), everything of those before it and nothing of those after (`OthersInv`), all
from the pinned release; the cursor continues it (`CursorInv`); no seen cursor is ahead (`SeenInv`).
Proved: `TypeCorrect` (the budgets), `CompleteCollectionsAreWhole`, `TheWorkerRefusesFirst` (the
client's own checks never fire), `EveryPageAdvances` (every page brings items and the next one
starts where they end, which is why a collection ends).

*ReadApis.* First what a cursor is bound to: `CursorHolds` says for each API which release and which
query the cursor that is about to be sent back carries, `FirstHolds` and `StatedHolds` what a request
without one states; from them `CursorsAreGood`. Then what the pages brought: `CursorIsSound` says
that the rows taken are the selection of the cursor's release up to its place, and `PageIsSound`
says it of the native page under way, whose place is one among the rows of the fragments, those
outside the dates included. `Reached` translates a place into a number of selected rows, and the
lemmas about it need that a set of numbers has a least and a greatest element. From them
`ReadingsAreWhole`. `ReadAssumption` says that the selected rows are rows of the fragments, in order,
and that `Nothing` is no cursor.

*DatasetService.* `RequestHolds` says, for each step of a request, of which version and which rows
its part is (`HeadHolds`, `PageHolds`, `ReaderHolds`), `CachedPageHolds` says it of every page in the
cache, whoever put it there. Of a template query, `Between`: the versions the engine has read lie
between the registered ones and those of now; as versions only grow, a table that is at its
registered version after the query was at it during the query. Proved: `ServingIsOfOneVersion`.
`DatasetAssumption` asks for a table at least and a registered version of each.

*Readiness.* `IndexInv`: an index is of the records, which are of every issuer. That a screen that
reads one group of buckets, or the shards of its companies, misses nothing is
`GroupsCoverMatches`: a row that answers a question has a name in every group the question may be
read from. Proved, for any records and questions: `ScreensAreWhole`. `ReadinessAssumption` is the
validation of a question's methods and flags (`sec_readiness_api.py:163-164`).

*ReleaseQueries.* An answer is told after several steps, over files of years and over pages, each
of which may be of another moment of the store. The invariant `QueriesSound` says of each step what
has been read so far: `OfStage` of which release and company, `YearsRead` that the rows collected
are the last ones of the years behind, `PagesRead` that they are the view up to the offset; and
`AnswerSound` says of an answer told that it is one that the release, the company and the question
allow (`IsAnswer`), written without reference to the steps. Two things follow from `IsAnswer` alone.
It is whole: the lemmas about `InOrder` (a set is listed without repetition, by the order, if the
order is one) and about `Latest`, `SelectRevisions` and `LastRows` give each case of `IsWhole`. And
it stays: what was known at an instant of a day is in every release from that day on and is
joined by nothing (`KnownStays`), the years of prices behind the instant add up to the same rows
whether a later release has more files or not, and the handover of the symbol lies behind the instant or
the company is another. Proved: `AnswersStay`, from `QueriesAssumption` and `BooksAssumption`.

### The terminal and the filings (`Terminal_proofs`, `Filings_proofs`)

*Retrieval.* `CacheOk`: an entry is from the source its key stands for; that the key of a task names
the adapter that answers it is `KeyIsOfItsAdapter`, over all actions, sources and adapters. `ClientOk`
follows a task from routing to answer with the warning that goes with a stand-in, `DocsOk` says it
of stored filings. Proved: `CacheIsOfItsSource`, `AnswersAreTrue`. `RetrievalAssumption` asks for a
last filing year.

*RegistryReports.* `PastStays` is an action property: two sets of rows that differ only in what is
filed today give the same usable field as of an earlier instant (`FieldsAlike`), and totals of such
parts agree (`TotalsAlike`). The other two rest on `RegistryInv`. `FactsInv` says that the filing
day and the accession order the rows of a concept, and `BaselineInv` that every reported field of
the approved report is still of the row that stands for it as of the day of the report, with that
row's value unless rows were rewritten since: a filing adds rows of today only, and a rewrite moves
no row (`RewrittenStands`). The row that stands for a field later has no later concept and, if it is
another one, a later filing (`LaterStands`). So a changed value has a later filing
(`ValuesAreExplained`); and a report that is accepted has no finding of a doubtful or failing
severity (`VerdictIs`, `FindingsAreKnown`), while each loss is one (`DemotionIsGrave`,
`CorroborationIsOfAnother`, `MaterialChangeIsOfALaterFiling`): `AcceptedReportsInherit`, for any
lost sources and rewrites. `FundamentalsAssumption`: the concepts of a field are a sequence, a total
has two parts at least, and they are reported fields. `RegistryAssumption`: the absolute tolerance is
a natural number, and a filing states one value of a concept of a period. The last is about the
filings: `_select_winner` orders rows by filing day and accession and has nothing to decide between
two rows of one filing. Proved: `PastIsFinal`, `ValuesAreExplained`, `AcceptedReportsInherit`.

*ClaimsService.* `HasAllBefore`: an archive lacks only what was filed on its day or later;
`IsMadeFromArchive`: an answer is made of one archive that reaches to its cutoff. Proved:
`ClaimsKeepTheirCutoff`.

*Histories.* `AlikeAt(a, b, cutoff, to)` collects all that a history as of a cutoff takes from a
member: the visible observations, what blocks them, which long periods are quarters, the policy. A
lemma for each stage of the engine, from `Selected` to `Anchors`, shows that it takes nothing else, so
members that are alike have equal histories (`HistoriesAlike`), whatever is folded or sorted on the
way. What remains is that a report of today leaves the member alike at every earlier cutoff
(`MembersAlike`); the hard part is `infer_calendar`, where rows of tomorrow may complete a division
of a year: `AddsTomorrow`, `StatedTimes` and `KnownTodayIsStatedToday` show that such a division is
known from tomorrow at the earliest. Proved: `PastAnswersAreFinal`, under the hypothesis
`YearsAreOfAnnualReports`, that a context of twelve months is stated by an annual report. It is
needed: a quarterly report that states one gives a division its dates, and the first annual report
that repeats it makes the division count from those dates (section 6).

For a release of the first engine the same lemmas say that what it serves of the past stays, rows
and sources (`ReleasesStayTrue`: `ReleasesAreFinal`), and no hypothesis is needed, since its policy
and its long quarters are the company's (`DatedRowsInv`, that a row is filed by today, is enough).
That the sources served with a row stay too is `HistoryKnows`: every source of a row, through
versions, derived quarters, sums and trailing years, is visible at its cutoff (`CalculatedKnows` is
the one step all of them take). `SecHistoryAssumption` asks that the components of a debt be
finitely many, so that they can be put in an order.

*Certification.* A companion adds to the member rows of costs and gross profit, and may prove rows of
revenue and operating income only (`Targets`). `SelectedOfTargets` to `HistoryOfTargets` follow the
annual rows of these two metrics through the engine: they are the same beside any companion
(`Extends`). An identity that holds of such a row is of the filing of its only source
(`OneFiling`), and that filing states its roles without contradiction; so the companion of the day
finds the same filing and makes the very same input (`ProvenOnItsDay`), and its sources are as
usable there (`UsableBesideAny`). Proved: `ProofsStayOnTheirDay`, from `DatedRowsInv`, which here
gives only that a row is a row. `CertificationAssumption` asks that no pinned concept of revenue be
one of those that companions add; the code pins `Revenues` alone (`sec_engine.py:74`).

### Limits

**Only proved.** `OutcomesAreFinal`, `RecordsPrecedeMessages`, `AnswersAreFinal`,
`StalenessIsBounded`, `RestorationIsProved`, `NoSilentCandidate`, `TheWorkerRefusesFirst`, `EveryPageAdvances`,
`BodiesComeFirst`, `StagesAreTrue`, `BundlesExist`, `MismatchIsReal`, `AncestorsCorrect`,
`ServedCorrect`, `ObjectsStay`, `ConflictCorrect`: their properties stand in the modules and are
checked by no run, since the theorem says more.

**Only model-checked.** Liveness (`MessagesSettle`, `ControllerEnds`, `RerunPublishes`,
`CommandsEnd`, `RunEnds`, `ResolveEnds`), which needs ENABLED and fairness, beyond the prover.
`AnswersCertify`, the first half of `CertificationHolds`: it rests on sums of terms, folds over sets
of any size, for which the prover has no induction. `PassIsOfTheFiling`: it rests on how the figures of a
document lie in it, and holds of the documents and companies of the run, not of arbitrary ones.

## 6. Where the code and its documents disagree

Found by a run:

| Run, property | Code | Document, comment or test |
|---|---|---|
| `all_pages`, `AllPagesAreServed` | `private_research.py:1096` states the release of the first page from the second on; screens, prices, market-screen and certification bind it into their cursor and refuse the page with 409, and readiness, which has no such parameter, with 400 | `docs/unified-research-sprint/terminal.md:39-41`, `docs/sec-readiness/README.md:177`, `docs/sec-universe-sprint/terminal-workflow.md:12` |
| `release_chain_served`, `EveryCompanyServed` | `sec_engine_api.py:335` expects the registry from before an override for a payload that an update under the new registry made and a further update inherits | `sec_publish_update_release.py:268`, `tests/unit/test_sec_release_api.py:36` |
| `torn_line`, `TornLineIsDiscarded` | `sec_universe_readiness.py:594` appends to a file whose last line is torn: the first record of the next run is joined to it, and the file cannot be read again | `sec_universe_readiness.py:649`, "a torn final line is discarded, and the issuer is retried" |
| `cash_once`, `CashCountsOnce` | `equity_claims.py:669` puts reported cash into the nonoperating assets, and the bridge adds both | `equity_claims.py:25-27` and the selection rule at 658 to 661 |
| `compared`, `ComparedIsOfItsPeriod` | `verification.py:266` infers the fiscal year of a quarterly report by the rule for an annual one, and takes the facts of the year before | `docs/context/period_resolution_logic.md:5`, `verification.py:404` |

Refuted by TLC in the course of the work, stated in the modules beside what does hold, and in no
run:

| Statement | Code | Document, comment or test |
|---|---|---|
| `SecJobs!ExhaustedIsDecided` | `sec_engine_jobs.py:316` records FAILED in an unprotected await on the last delivery; if the Worker stops there, or the write fails, nothing retries it and the status stays QUEUED | `tests/unit/test_sec_engine_api.py:247`, `docs/sec-engine-scale/README.md:27` |
| `Promotion!FailureRestores` | `controlled_research_promotion.py:66` records ROLLING_BACK before it rolls back; if the evidence cannot be written, no rollback is attempted | `docs/unified-research-sprint/release-control.md` |
| `Paging!CompleteHasHistories` | `private_research.py:285` takes a 202 job answer for a last, empty page | `docs/sec-engine-scale/README.md:29` |
| `RegistryReports!FilingsExplainTotals` | `compare.py:1266`: a derived total has no filing of its own, so a restated part makes it a value that changed without a source revision | `docs/datasets-regression-canary.md:45` |
| `ClaimsService!SnapshotDayIsInside` | `equity_claims_api.py:98` accepts the day of the archive as a cutoff, although the archive is written at some hour of it and filings follow | the comment of `source_ceiling`, "is inside the release" |
| `Publication!NamedStaysWhole` | `materialize_screen_release.py:136-143` takes no lock: a second run whose `rclone copy --immutable` looked before the first one replaced the manifest copies the manifest of the source release over the one that CURRENT names by then; it stays until the second run replaces it, or for good if that one dies | `materialize_screen_release.py:134-135`, "Existing objects are copied to a new immutable prefix" |
| `Verification!PassIsNeverOfAnother` | `verification.py:227-257` looks for an annual report under the year of its date: a year that ends in January and bears the number of the year before, or a report that is a year late, is looked for under the next number, which facts newer than the filing confirm as `exact_period`, and passes where figures repeat | `docs/context/period_resolution_logic.md`, where validation against the facts is the mitigation and `exact_period` the only mode that allows `reconciled_pass` |
| `Readiness!RankIsOfWork` | `sec_universe_readiness.py:684` ranks the statements that a method does not apply to a filer among the inputs that would unlock issuers | `sec_universe_readiness.py:63-65` |

Met while modelling, and described only:

- `CurrentPointerCache` states a hard expiry (`serving_v2.py:111-113`). An entry is stamped when its
  fetch has ended, and an edge entry's age is taken before its body is awaited, so an answer can be
  older than the TTL by less than two waits: `StalenessBounded` is the bound that holds.
- A rotation of the credential while messages are queued fails those tasks with JOB_CONTEXT
  (`sec_engine_jobs.py:196`, key derived at `sec_engine_api.py:265`).
- A universe run that died between a stage's last checkpoint and its receipt is resumed without
  that stage (`sec_universe_pipeline.py:324`; `docs/sec-universe-sprint/README.md:5`).
- A pointer that is moved and moved back within one request goes unnoticed
  (`thin_worker.py:131`).
- A candidate retrieved earlier takes a company back behind its last update, and an update of a
  sibling root forgets the other (`sec_publish_update_release.py:204`); nothing promises otherwise.
- `sec_bulk_release_refresh.py:262` writes its index and its manifest with bare conditional puts: a
  run stopped between the two meets 412 ever after (the comment at 245 calls reruns safe).
  `RerunPublishes` is about scripts that compare what they find.
- A kill during the write of a member (`materialize_sec_engine.py:219`) leaves a part that every
  later build refuses and none extracts again.
- The private API and the REST view order the revisions of a period by different instants of a day
  of the SEC (`private_api.py:243`, `serving_v2.py:370`), so that they may answer with different
  rows for the hours in between.
- The policy of a member (`sec_engine.py:405`) is taken from all of its rows: a filing that brings
  a financial tag, or the first evidence of a long quarter, changes histories of earlier dates. And
  `infer_calendar` (`sec_engine.py:843-866`) dates a long quarter by the first time each context was
  stated by any form, but wants the year in a 10-K: an annual report that repeats a context of
  twelve months of an earlier quarterly one would make a long quarter known in the past. The
  attempt to prove `AsOfIsFinal` found this, and TLC confirms it with such a pair of reports; its
  absence is the hypothesis of `PastAnswersAreFinal`.
- The certifier refuses rows whose figure two filings of one day repeat, and trailing years whose
  quarters were derived (`financial_certification.py:76`).
- A process that could not download the ticker table keeps an empty one for life
  (`sec_edgar.py:560`), and a member that cannot be read for a moment is recorded as a failure for
  good (`sec_universe_readiness.py:601`).

## 7. What is not modelled

Of the modelled components:

- *jobs*: what materialization computes; several consumers at a time (the binding has
  `max_concurrency` one); the contents of queries (all jobs ask the same one, the case in which
  they share most).
- *pointer*: an owner whose request is cancelled (a matter of the platform), TTL zero (no cache).
- *snapshot*: the MCP envelope, pagination tokens, historical market sessions.
- *company queries*: archive, filings, bulk, evidence, catalog, calculation and corporate-action
  routes; the percentages of a growth.
- *paging and read APIs*: the arithmetic of `compare_histories`; which rows a selection has;
  requests that are not paged.
- *dataset service*: decoding, the compilation of a template into SQL, listings, the proxied
  catalog; the bridge that serves fixtures to tests.
- *claims*: offering terms of preferred stock, which only tests pass; digests, notes and splits.
- *histories and certification*: coverage gaps, labels, decimal precision, `balance_checks`;
  independent reconciliations and the reasons of a refusal.
- *readiness*: dilution and share-class evidence, which no verdict uses; the integrity of the
  archive; the ranged reader.
- *promotion*: a second operator, against whom nothing in the code could protect; the individual
  probes, which are one outcome each.
- *universe*: two runs at one time on one disk; a run with another `--total`, which refuses the
  checkpoints; the arithmetic of the byte budgets (a body is one unit).
- *releases*: the upload of an override's objects, which its script leaves to the rollout;
  `build_candidate`'s files and publication.
- *publications*: the gates before the first write, and the contents of objects.
- *historical sources*: parsers, redirects, checks of single observations.
- *retrieval*: company facts, price history and lists of filings, which take the same path; the
  validation verdict and the synthesis. That a request of a terminal or of the edge ends is not
  checked: they are bounded loops over awaited calls.
- *registry*: the catalog of sources, the parsing of stored objects, findings about market data.
- *filing pipeline*: HTML conversion, the parsing of tables and numbers, Arelle.

Other components:

- *Command line and local HTTP API; intent parser and LLM providers; validation and synthesis
  agents; Serving V2 contracts and tools; valuation service*: stateless text, formatting, argument
  contracts or single lookups, where a model says nothing that a test does not.
- *Truth query* (`zion_terminal/data`, the rest of `temporal_core`): pure functions over one answer;
  the instants that matter to a reader of releases are in `ReleaseQueries`.
- *SEC engine screens*: their paging is in `ReadApis`; their selections are comparisons row by row.
- *Security identity and valuation*: arithmetic over one answer.
- *Stored price indexes*: how they are published is in `PublicationScripts` (`CrspIndex`,
  `StockHistoryIndex`, `ProviderPrices`); their building is a scan of immutable objects.
- *Bulk refresh*: its publication is the program `BulkRefresh`; the rest is a comparison of two
  indexes.
- *Basin layouts*: experiments against an Iceberg catalog, run by hand.
- *Acceptance, audit and benchmark scripts*: read-only checks of a deployment; they are tests.

## 8. Plan

Done: the core with its proofs (SecJobs with TaskBoard, Promotion, Paging, UniversePipeline,
SnapshotBundle, CurrentPointer, ReleaseChain); publication, acquisition and materialization; the
read paths (ReadApis, DatasetService, ReleaseQueries, Retrieval); the decisions over filings
(Fundamentals to RegistryReports, EquityClaims, SecHistory, Certification, Readiness,
Verification).

Proved for every instance: all of the above but what section 5 lists as only model-checked.

Next, by weight:

1. **What the folds give** (`AnswersCertify`): that the fold over the terms of a row is the sum of
   its parts, an induction that would have to be stated for the one fold at hand.
2. **Readers over the abstract pointer**: `SnapshotBundle` and `ReleaseQueries` composed with
   `RecentPointer`, so that how old a bundle or an answer may be is stated of them.
3. **More of the data**: screens of the SEC engine, the truth query, the bulk refresh against its
   member index.

Questions about components that share no state share one run wherever the instances allow it.
