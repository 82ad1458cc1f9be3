# A formal model of the Talmud study app

This directory holds TLA+ modules that model the concurrent and stateful core of
the repository (`src/packages/core`, the worker and the reader of
`src/packages/talmud`), the TLC configurations that check them on small
instances, and proofs checked by TLAPS. Every definition is translated from the
source; `PROJECT.json` maps each one to the lines it stands for, lists the
components, the hazards and the defects ("mutants") that each property was shown
to catch.

Below, `index.ts` is `packages/talmud/src/worker/index.ts`, and a client file is
in `packages/talmud/src/client/`.

## 1. Inventory of the system

A page ("daf") of the Talmud is studied through *artifacts*: marks (what is on
the page: arguments, rabbis, places, stories) and enrichments (essays about a
page or about one instance of a mark). Each artifact is made by a *producer*,
usually an LLM call over the page, over sources and over other artifacts, and is
cached under a key made of producer, page, language and version. A Cloudflare
Worker serves them; generation runs in a Workflow, in a queue consumer, or in
cron; money is guarded by a ledger in D1. In the browser, a store holds the view
of the page, and cards ask for what the view lacks through one request queue.

| part | state it keeps | operations | what is hard | what makes it correct |
|---|---|---|---|---|
| Dependency pool (`workflow-warm.ts`) | node status, slots in use, failure, drain promise | declare, add, drain, pump | callbacks re-entering the pump, fan-out while nodes run, failure with runs in flight | width never exceeded, order kept, `drain()` honest and never hanging |
| Daf-warm Workflow (`index.ts` 7531-7744) | the pool, persisted steps, artifact cache | build the graph, runStep, fan out a mark | replay after a crash, provider down in the middle, language of the entries it reads | ends, fails only by a step or a read that throws, covers every instance it read |
| Daf generation single flight (`routes/daf-generate.ts`) | a sentinel in KV | startDafGeneration, admin trigger | two first hits, a create or a write that fails | one Workflow a window, no page locked with nothing behind it |
| Spend ledger (`spend-reservations.ts`, `billing.ts`) | reservations, attempts, charges in D1 | admit, observe, finish, reconcile | concurrent admission, late receipts, holds that expire, duplicate settlement | caps hold, charges and totals agree, settlement final |
| LLM call path (`llm.ts`, `ai-gateway.ts`) | one call: model chain, attempts, signals, timer | resolve the chain, attempt, retry, fall back, time out | which errors retry and which fall back, silent streams, abandoned calls | the books agree with what happened, a paid answer is used, the call ends |
| AI-down breaker (`ai-down.ts`, `ai-credits.ts`) | a sentinel in KV, a cached balance | noteAiDown, clearAiDown, resolveAiDown | a clear racing a raise, stale balances | raised when it must be, cleared only by evidence |
| Run queue (`/api/run`, `/api/run-status`, consumer) | job records, queue, artifact cache | ask, enqueue, consume, poll | dropped and repeated deliveries, shared run ids, stale entries | a poller gets an answer, and one to its own question |
| Daf view store of the reader (`dafViewStore.ts`, `localViewCache.ts`) | the view signal, loads in flight, view-driven mode, saved copies | load, settle, open, poll | moving to another page and back while everything is in flight | the cards' gate opens, view-driven mode ends, nothing is paid for over a failed fetch |
| Request queue of the reader (`enrichmentQueue.ts`, `runProducer.ts`) | tasks by tier, slots, one run a slot | enqueue, pump, abort, POST, poll | slots after aborts and drops, a reserve, retries | background work never holds up a click, everything settles |
| Enrichment cards (`MarkEnrichmentCards.tsx`) | memo, run state, refresh timer, controller | effect, refresh, retry | an effect that re-runs while its last request is out | one request at most, what the view holds is shown |
| KV budget (`budget.ts`) | counters and pause latches in KV | recordSpend, checkBudget, clearPauses | read-modify-write counters, latches that re-arm | a trip is not lost |
| Producer run (`run-producer.ts`, `producer-run.ts`) | artifact cache, lint counters | runProducer, resolveInputs | stale reads, transient answers, the repair retry | nothing unclean or transient is cached |
| Artifact store (`artifact-store.ts`, `staging.ts`) | KV entries with envelopes | get, getSWR, put, evict | human edits against regeneration, previous versions, overlays | an edit survives |
| Daf view (`daf-view.ts`) | nothing of its own | one snapshot of a page | language of keys, completeness | complete means complete |
| Request coalescing (`coalesce.ts`) | an in-flight map per isolate | coalesce | a promise that outlives its answer | one promise a key |
| Crons | cursors and backlogs in KV | warm, yomi, backfill, rollup | overlap, budget pauses | progress is not skipped |
| Rest of the reader, sage graph, rabbi data, telemetry, MCP, Tanach worker, UI | see `PROJECT.json` | | | |

How they interact: the reader opens a page; the store fetches its view and, when
the page is cold, asks for a Workflow, which the single flight starts once. While
the Workflow runs the cards wait for the view; otherwise each asks for its piece
through the request queue, whose slots post to `/api/run` and poll
`/api/run-status`. `/api/run` answers from the artifact store or enqueues; the
consumer is a producer run that leaves a job record for the poller. The Workflow
runs its steps through the pool, and each step is a producer run, which reads and
writes the artifact store and calls a model. A model call opens and finishes a row
in the spend ledger for each attempt; its failure may raise the breaker. The
breaker closes `/api/run`, the consumer, the Workflow's steps and the trigger of
the single flight. The crons enqueue and reconcile the ledger.

## 2. Modules

| module | models | relation to others |
|---|---|---|
| `DepExecutor` | what the Workflow needs of a scheduler: an executor of a growing dependency graph | abstract |
| `DagPool` | `createDagPool`: every handler with the pump it calls | implements `DepExecutor` |
| `DafWarm` | `DafWarmWorkflow.run` | its pool is an INSTANCE of `DagPool` |
| `DafGenerate` | `startDafGeneration`: the trigger that starts that Workflow | |
| `SpendLedger` | admission, settlement, triggers and reconciliation over D1 | |
| `LlmCall` | `runLLM`: the walk down a chain of models, attempts, abort and hard timer | one row an attempt, seen from the caller's side |
| `AiDown` | the sentinel and the balance cache, each KV call a step | |
| `RunQueue` | one section enrichment from `POST /api/run` to the answer | uses the breaker as one cell |
| `DafOpen` | the reader's view store: fetch, saved copy, trigger, poll | |
| `ClientQueue` | the reader's request queue with the run in each slot | |
| `Cards` | one enrichment card of the sidebar | EXTENDS `ClientQueue`, whose specification it implements |
| `DagPoolProofs`, `DafWarmProofs`, `SpendLedgerProofs`, `LlmCallProofs`, `AiDownProofs`, `RunQueueProofs` | theorems about the module they are named after | `DafWarmProofs` uses `DagPoolProofs` as an INSTANCE |
| `DafOpenProofs` | theorems about `DafOpen` and `DafGenerate` | EXTENDS both |
| `CardsProofs` | theorems about `ClientQueue` and `Cards` | |
| `MC*` | constants for TLC | |

**DagPool.** `status`, `gate`, `group`, `inFlight`, `failure` and `drain` are
`createDagPool`'s Map, dependency lists, run-less nodes, counter, first error and
promise; `live` is the set of runs really outstanding, which the code does not
keep. One isolate runs one handler at a time, so `Declare`, `Add`, `Drain`,
`RunOk` and `RunFail` are atomic and include `Pump`. The code scans nodes in
insertion order; the model leaves open which ready nodes get the free slots, so
what holds of it holds of any order. A marker (a node without a run) completes
inside the pump: `Completed` is the least fixpoint of the scan.

**DafWarm.** The pool's variables plus, for each node, where its run is (`pc`) and
its persisted step result (`result`), a mark's fan-out (`insts`, `added`), the marks'
cache entries (`kv`, by mark and language, each an instance list or nothing) and the
sentinel. `EnterStep` to `GenerateThrow` are `runStep`. A step that succeeds need not
have cached anything: a transient result, a parse error or a lint left after the
repair is returned and not written, so `GenerateOk` leaves the entries of the mark,
and of the marks its run regenerates inline, written or not (`Produce`), and a
mark's persisted result is "kept" or "ended" accordingly. `ReadInstances` to
`ReadFails` are `addUnitsForMark` with `topoTiers` and the dedupe: its reads of the
entry and of each definition are outside every step, read whatever is there at that
moment, and may throw. `Rewrite` is everybody else who serves the same page, and a
KV location that answers with an older value. `Restart` is the Workflow engine
running `run()` again over the results it persisted.

**DafGenerate.** KV has no compare-and-set, so the read of the sentinel, the
creation of the Workflow and the write of the sentinel are three steps of a
request and others run in between; the create and the write may each fail. The
budget gate and the breaker before them answer anything. `started` counts the
Workflows of the present sentinel window and `excused` says that this window saw
what the code accepts: two first hits that overlapped, a write that was lost, or
the admin's trigger, which keeps no sentinel. The sentinel may lapse at any time.
KV is taken as linearizable here: a read that is up to a minute stale is one more
request that overlaps with the first, and widens the race the code accepts.

**SpendLedger.** `reservation`, `attempt` and `charge` are the three D1 tables,
one row per id; a D1 batch is one action. `call` is the `BillingAttempt` object
of the isolate, which dies with it (`Evict`); `cron` is a reconciliation run
between its query and its last row. `Hit` is the trigger of migration 0004. The
time a request is judged by is read in `Begin`, before the `Admit` that uses it.

**LlmCall.** `call` and `cur` are `runLLM`, which awaits one model of the chain at
a time. Each model is asked by a task of its own: `at[p]` is what the task awaits,
`why[p]` the answer or error it has in hand, `tries[p]` the attempts it has begun,
`row[p][k]` what the ledger says of the k-th. `Admit` and `Refuse` are
`beginBillingAttempt`, `Respond` to `BodyFails` the provider, `Finish` the batch
that settles a row, which may be lost. `closing`, `outer` and `settling` are the
three places that finish an attempt: the retry loop, the handler around it, and
the answer's. `Fire` is the AbortController of a gateway call, `HardTimeout` the
race that `withHardTimeout` loses; the abandoned task runs on, and the model lets
it.

**AiDown.** `sentinel` and `row` are the two KV entries with their expiry. Every
raise is `NoteRead` then `NotePut`, every clear `ClearRead` then `ClearDelete`,
and everyone else may run in between. Each of these KV calls may fail, and the code
swallows the error: a failed read counts as no sentinel (`Unread`), a failed put or
delete is lost (`WriteFails`). Jobs, Workflow steps and gates are the three callers,
each doing what it does in the code before and after. `CanServe` says who can
succeed: OpenRouter only while it refuses nobody, the AI Gateway's own cache
(`hit`), which returns the same transport, at any time, and Workers AI at any time.
`trouble` is what the provider refuses for; `funded`, `broke` and `absent` are
history.

**RunQueue.** `SectionOf` gives each job the section range it asks for, all under
one title. `entry` is the canonical cache entry, with the range it is stamped with;
`previous` the previous version; `record` the `job:{runId}` records; `at` and `tries`
the queue's message. A run id (`MakeRunId`) carries the cache mode, the title's slug
and the second, not the range, so requests of one second for different sections
share one; the ids of the background jobs lack the language segment and never equal
a request's. `Post`, `ServeStale` and `Gate` are the successive stages of
`POST /api/run`, `Poll` is `run-status`, and `Admit` to `Ack` are
`processEnrichmentJob` with the producer run it calls. A delivery can die between
any two of them (`Die`), and is repeated until `max_retries` is spent.

**DafOpen.** The browser runs one callback at a time, so an action is a callback
up to its next await. `load[d]` is the entry of the `inflight` map with its two
halves, the fetch (`net`) and IndexedDB (`idb`), which end in either order;
`open[o]` is one call of `openDafView`, which outlives the page it was made for.
`Settle` is the write of the signal, guarded by `latestKey`. A view is the number
of pieces it holds of `Total`. What the server has cached grows, is invalidated
and is pruned from the browser's storage at any time.

**ClientQueue.** `pump()` runs to its end before any other callback; here each
turn of its loop is a step (`Start`, `Drop`, `PumpEnds`) and `pumping` keeps every
other callback out meanwhile. A task in a slot is `runProducer`: a POST, a backoff
on a body that is no JSON, a sleep, a poll. An abort frees a slot when the awaited
fetch or sleep rejects, and reaches a waiting task only when the pump does.

**Cards.** The effect of one card is one operator, `Rerun`, over the new values of
everything it reads: its cleanup aborts what the last run started, then the text
comes from the memo (`Quiet`), from the view, or from a request (`Fetch`). Every
action that changes a tracked value ends in it; the hash of the instance id is a
promise that settles later, in any order. A card stays mounted while the reader
picks other anchors, so its stamp changes under its requests.

## 3. What the runs check

| run | instance | shows |
|---|---|---|
| `dag_pool` | four nodes, width two, every client that obeys the pool's contract | the counter is exact and the width holds (`WidthCap`), an open drain has a run in flight (`OpenMeansLive`), the pool implements `DepExecutor` (`Implements`: order, honest `drain()`, no start after a failure) |
| `daf_warm` | a registry with one producer of each shape, English, one crash, steps that cache nothing, reads that throw, a mark whose entry others rewrite, a sentinel that moves at any time | nothing is read before its own step has ended (`InlineOnlyAfterStep`); the warm fails only by a step or a read of a fan-out; every instance a fan-out read is covered, and every one of an entry the mark's own step left; step names stay for entries nobody touched; the Workflow ends |
| `daf_warm_hebrew` | the same, Hebrew | finding 1 |
| `daf_generate` | two pages, three requests that recur, the admin's trigger | one Workflow a window outside the accepted race (`OneGeneration`); no sentinel without a Workflow behind it (`SentinelBacked`) |
| `spend` | any two of two routed attempts and a native one, over two days, with shared ids, cache hits, lost writes, evictions, expiring holds and a reconciliation | neither cap is overspent by what was reserved (`CapsHold`); the status query equals the admission query; one generation is charged once; charges equal settlements; no hold stranded; settlement final |
| `llm_call` | a gateway model with a native fallback, three attempts each, streamed or not | the rows agree with what happened (`BooksAgree`), a paid answer is not exchanged (`PaidAnswerUsed`), an aborted gateway task asks nobody any more (`GivenUpStops`), the call ends (`CallEnds`) |
| `ai_down` | a job, a step and a gate, over gateway models and computed producers, credits that come and go | a gate that knows the balance is at most one TTL out of date, both ways; a clear spares a sentinel newer than its evidence (`ClearSparesMidRun`); a standing sentinel gives way to an upgrade only (`StandingSentinelKept`), but for a put whose read failed |
| `run_queue` | one request beside another of the same second that shares its run id and asks for another section, beside a forced fresh one, or while the entry changes from outside; the producer may be experimental or cost-paused | a forced fresh run gets a fresh answer, never the breaker's; an answer of the hot path or the previous version is for the section asked for, one from a record for a section asked for under that run id; an experimental card is never generated unasked |
| `run_queue_answers` | a request and a background job that shares its run id | a poller is answered unless every delivery died, and even then if the output was cached |
| `daf_open` | three openings of two pages, so a return to one, all in flight together | someone who will release it drives every view-driven page (`DriverAlive`); generation is asked for only over the server's own cold answer; the latest load settles; view-driven mode ends |
| `client_queue` | one task of each foreground tier and two low ones, two slots, one reserved | the reserve holds, a foreground task waits for foreground tasks only, tiers are first in first out, whatever is enqueued settles |
| `cards` | one card over two anchors of a page, two requests and a prefetch task | never more than one request out, and only over a settled view; what the view holds is shown; the memo is never out of date; every step is a step of the queue (`QSpec`) |

Every property of a passing run has a mutant: a plausible bug of the mapped code
under which TLC finds the property violated (operators named `..._Something`
next to the original).

### Bounds, and why they are enough

- *DagPool*: four nodes give a two-deep chain beside an independent node and a
  marker; two slots give contention with one to spare. The proofs have no bound.
- *DafWarm*: the registry (`MCDafWarm`) has a mark registered before its
  dependency, a mark with a repeated instance, a chain of per-instance
  enrichments, one whose definition does not load, a whole-daf enrichment over
  them and an excluded producer. In `Movable` is the mark that has instances.
  `MaxRestarts` is 1, since a second crash meets the same persisted results.
- *DafGenerate*: three requests race pairwise with one to find what they left; a
  request that was answered asks again. `started` counts to two ("several").
- *SpendLedger*: `MaxNow`, `Day`, `Hour` and `HoldExpiry` are ticks, chosen so
  that holds lapse and the hour and the day roll inside a run. A call costs more
  (3) or less (1) than what was held (2). The constraint `TwoAttempts` explores
  every pair of the three attempts; sums over three live requests are not explored.
- *LlmCall*: `MaxAttempts` is 3; the code's `MAX_ATTEMPTS` is 5
  (`ai-gateway.ts:51`); three have a first, a middle and a last one. One model of each
  transport, the first with a model to fall back to and the last without. The proofs
  have no bound.
- *AiDown*: a tick is half a minute or a minute. A KV call never spans one, a
  balance probe (aborted after 2.5 s) at most one, a call to a model at least one; an
  answer of the gateway's cache need not. Each job, step and gate runs once. KV is
  linearizable here; real KV may serve a read up to a minute stale, which is weaker.
- *RunQueue*: `Deliveries` is 2, `max_retries` + 1 of the deployed queue.
  `Seconds` is one second, the case where run ids collide; a forced fresh request
  beside a plain one is the case of two ids. The constraint `TwoActors` explores the
  request `r1` with each of the others and one request with the one change from
  outside (`MaxUpsets`). The gate and the send are one step. The hour-long TTL of a
  job record and the ten minutes after which the client stops polling are longer than
  any run and left out.
- *DafOpen*: `MaxOpens` is 3, the least for a return to a page whose first load is
  still out. A view is empty or complete (`Total` = 1); `StallLimit` and `PollCap`
  stand for the code's four stalls and 12-minute cap.
- *ClientQueue*: `PostRetries` 1 and `PollCap` 2 give each loop a turn that
  repeats and one that ends. The proofs have no bound.
- *Cards*: `PostRetries` 0, `PollCap` 1 and `Refreshes` 1 keep the run behind a
  request short, since `client_queue` explores it; `MaxNavs` 2 leaves an anchor
  and comes back. A card has two requests in all. The proofs have no bound on
  anchors, pages, requests or moves.

Deadlock checking is off except in `daf_generate`: a page that is warm, an account
whose calls are over, a queue that is empty and a call that has returned have
nothing left to do.

### Fairness

Safety is checked without fairness (except that a run which also has a liveness
property uses the fair specification, which has the same reachable states).

- `DafWarm!FairSpec`: whatever the Workflow can do next, it does something
  (`Progress`): a step ends because the engine bounds its attempts and time, the event
  loop runs what is ready. One weak fairness of the disjunction is enough. Nothing is
  assumed of the sentinel, of crashes, of other writers, or of how a step ends.
- `RunQueue!FairSpec`: the platform delivers what is queued and runs what it
  started; the client keeps polling. Death of a delivery is not excluded, which is
  why `PollerAnswered` allows for a lost job.
- `LlmCall!FairSpec`: timers fire, and `runLLM` goes on when what it awaits has
  settled. It reads D1 twice outside the timer (`checkBudget` before the walk,
  `recordSpend` after), and `CallEnds` assumes that those reads answer. Nothing is
  assumed of providers, of the tasks, or of the writes an attempt waits for.
- `DafOpen!FairSpec`: the event loop always runs some callback that is due: a fetch
  is answered or aborted after 15 s, IndexedDB answers or errs, a timer fires. The
  trigger's POST (`dafViewStore.ts:240-245`) has no such abort, and ends because the
  browser ends a dead connection. One weak fairness of the disjunction is enough.
- `ClientQueue!QFairSpec`: a pump goes on, and a backoff, a sleep or a request
  ends. Nobody owes an abort or a new task. `Settles` also needs more slots than
  reserve; with no slot for low tasks they wait for ever, as they would in the code.

## 4. Findings

1. `daf_warm_hebrew`: the fan-out reads a mark's instances under the English key
   even when the Workflow warms Hebrew, so a mark with a Hebrew prompt yields no
   per-instance unit unless an English entry happens to exist (`index.ts:7666`).

More sentences of the comments and docs are refuted by the model. Each has a
configuration of its own that reproduces the counterexample
(`tlc -config <cfg> <module>`):

2. `MCDafWarmReplay.cfg` (`MCDafWarm`, `ReplayIsDeterministic`): the fan-out reads the
   mutable entry of a mark, outside every step (`index.ts:7666`). When the entry is
   rewritten, dropped or served stale between a crash and its replay, the restarted
   orchestrator gets another list and resolves without a unit whose step the first run
   had finished; `index.ts:7656-7658` says that the names replay identically.
3. `MCRunQueueShared.cfg` (`MCRunQueue`, `RecordsMatchSection`): two requests of one
   second for two sections of one title get the same run id (`run-id.ts:14-28`), both
   jobs write its record, and `run-status` answers from it without a look at the range
   (`index.ts:5775-5782`), so one poller gets the other section; `index.ts:5456-5459`
   says that a request whose range does not match is recomputed for its own.
4. `MCAiDownHit.cfg` (`MCAiDown`, `ClearsOnlyDisproved`): a result whose transport is
   `openrouter-gateway` clears the sentinel (`index.ts:7417`, `7459`) also when the AI
   Gateway answered it from its cache (`llm.ts:772-832`) and OpenRouter was never
   asked; `ai-down.ts:71-73` says that it proves the provider recovered. With
   `"workers-ai"` among the `Transports` and no cached answers the same holds of a
   Workers AI model.
5. `MCAiDownRace.cfg` (`MCAiDown`, `ClearSparesNewer`): `clearAiDown` judges the
   sentinel it read and deletes the one that stands; a hard pause raised in between is
   wiped, which its comment says the timestamp check prevents (`ai-down.ts:95`).
6. `MCAiDownBalance.cfg` (`MCAiDown`, `BalanceClearsOnlyDisproved`): a balance is
   stamped when its answer arrives (`ai-credits.ts:88`), so one observed before the
   account ran dry clears the sentinel raised during the probe; `ai-credits.ts:130`
   says it clears only when observed at or after the sentinel rose.
7. `MCRunQueueFallback.cfg` (`MCRunQueue`, `AnswersMatchSection`): `run-status` answers
   from the canonical key without the section guard, so the entry the POST refused is
   the poller's answer (`index.ts:5786`).
8. `MCSpendExpiry.cfg` (`MCSpendLedger`, `UnknownCostKeepsHold`): a hold without a known
   cost stops counting after an hour; `docs/cost-accounting.md` says it is kept
   (`spend-reservations.ts:76`).
9. `MCDafOpenGate.cfg` (`MCDafOpen`, `GateResolves`): a page joined while its load is in
   flight does not become the latest, so when the reader has been elsewhere meanwhile
   the load is not painted and the page's cards wait for ever (`dafViewStore.ts:113`);
   `dafViewStore.ts:100-104` says the signal always settles.
10. `MCCardsStraggler.cfg` (`MCCards`, `StragglerFetched`): a card marked "loading"
   while the Workflow ran is skipped by the effect that runs when it ends
   (`MarkEnrichmentCards.tsx:543`), so a piece the Workflow did not make is never
   fetched; the comment at 534-536 says the effect fetches any straggler. The same line
   leaves a card in "loading" when a re-run aborts its request.

Four more are refuted by a formula stated under "Properties" of its module; the
configuration named, changed as said, shows each.

- `AiDown!NeverDowngrades` (`MCAiDownRace.cfg`): a soft failure that read no
  sentinel, or whose read failed, overwrites a hard one.
- `AiDown!NoBudgetCapInSentinel` (`MCAiDown.cfg`): a Workflow step that meets
  the spend pause raises the sentinel with `daily-cap`.
- `RunQueue!NoSilentSkip` (`MCRunQueueShared.cfg` with `Mode <- MCExplicit` and
  `CostPaused = TRUE`): the consumer's cost-control backstop drops an explicit warm
  that the route admitted.
- `RunQueue!ExplicitSurvivesBreaker` (`MCRunQueueShared.cfg` with
  `Mode <- MCExplicit`): the two share a run id, and the plain job's breaker record
  answers the explicit poller.

Read while modelling, and built into the actions without a property of its own:

- *Cards*: an instance-id hash that settles late is not compared with the anchor
  it was computed for (`MarkEnrichmentCards.tsx:459`), so a text of the anchor left
  can be shown for the present one until the present hash settles; and an answer is
  pinned in the memo under the props of the moment it lands (line 579).
- *DafWarm*: a step that returns with nothing cached counts as done, so what depends
  on it runs against an uncached input and regenerates it inline, and a mark so ended
  is enumerated as having no instances: the Workflow finishes without its units.
- *DafOpen*: a failed poll settles an empty view and does not look at the saved
  copy, unlike a failed load (`dafViewStore.ts:60`).
- *LlmCall*: an attempt that timed out before the provider named it gives its hold
  back (`billing.ts:110-112`), where `docs/cost-accounting.md:37-40` says a timeout
  does not release one. The last attempt of a gateway task is finished twice, and
  the second finish replaces its error code (`llm.ts:835`). An abandoned native
  task has no signal and may go on to open paid attempts in the background, which
  `llm.ts:216-218` accepts. `runJev`'s paid calls open no row, where
  `docs/cost-accounting.md:3` says every paid request does.

## 5. What is proved

TLAPS checks these for every value of the constants, assuming only the named
ASSUMEs of the modules, which TLC evaluates in the runs. Most say that a constant
has its type, that a set is finite, or that two sorts of ids are disjoint. Four say
more:

- `WindowAssumption` (*SpendLedger*): a hold expires with the hour it was made in
  (`HoldExpiry = Hour`; both are 3,600,000 ms in the code). With a shorter expiry a
  hold would stop counting against the hour it was made in.
- `DependencyAssumption` (*DafWarm*): the dependencies between per-instance
  enrichments have no cycle, and no mark or whole-daf enrichment is behind itself.
  Both are facts of the registry (`code-marks.ts`); `topoTiers` emits
  the members of a cycle together as a last tier, which the fan-out of the model
  leaves out.
- `RegistryAssumption` (*DafWarm*): the kinds of producer are disjoint, a unit's id
  is no producer's id, and a mark depends on no producer the warm excludes.
- `ProcAssumption` (*AiDown*): a job, a step and a gate call are three things.

*DagPoolProofs.* `Inductive` proves `IInv`: `TypeOK`, the honesty and work
conservation of `drain`, and `Coherent`, which says the counter is the number of
live runs, every live run's node is running, a node left running without a run
means a failure, and everything started has its gates done. `WidthCap` is not
inductive alone: that a `RunOk` frees exactly one slot needs the counter to be
exact, and that needs live runs to be running nodes. The pump is handled once
(`PumpEstablishes`): from a coherent shape it re-establishes one, whatever the
handler did before. From it follow `WidthCapHolds`, `DrainIsHonest`, and what no
run needs to repeat: `StartedAfterDepsHolds` and `NoStartAfterFailureHolds`.
`Refinement` proves `Spec => Abstract!Spec`, each handler mapping to one step of
`DepExecutor` or a stutter.

*DafWarmProofs.* Every use the Workflow makes of its pool is a step of `DagPool`
within the pool's contract (`PoolContract`), and a restart makes a new one, so the
pool's invariant, proved once in `DagPoolProofs`, is carried by INSTANCE over any
number of crashes (`WidthHolds`). `WarmInv` says what the rest of the state has to
do with it: what survives the orchestrator (`Stored`), where each run is (`Ran`),
that every id is registered before anything gates on it (`Registered`), how far
each fan-out is (`Enumerated`), and that its units are the positions it has added
(`Fanned`). `NoDuplicateNode` needs the dedupe to keep exactly one position of
every id, and the pool never to be given an id twice, a replay included: it holds of
whatever list a fan-out read. `NoInlineRegeneration` holds in any language, whatever
the steps leave uncached and whoever rewrites an entry, since it is about the order
of steps and not about the cache. A replay reads its lists anew; that it adds every
unit with a persisted result (`ReplayHolds`) is proved for the marks whose entry
nobody else has changed (`moved`), from `Stored`: the entry such a unit came from is
still there, because a step writes only where it finds nothing. `CoversInstances` says
that every instance a fan-out read is covered; and under `OwnKeyRead`, that a mark's
instances are read under the key its own step writes, also every instance of an entry
the mark's step left behind and nobody changed. In an English Workflow `OwnKeyRead`
always holds (`EnglishReadsOwn`); in a Hebrew one it fails for a mark with a Hebrew
prompt, and with it the property (finding 1).

*DafOpenProofs* has two parts. The first is about the reader. `DriverAlive`, a
view-driven page has a call that posts or polls for it, is inductive together with
what a load and a call may hold (`Shape`: a served fetch has an answer, a call about
to poll has a poll left): while a page is view-driven, the calls of other pages, and
older ones of the same page, do not take its driver away (`DriverKept`). It says
nothing once the mode is cleared. Proved: `TypeCorrect`,
`ViewDrivenHasDriver`, and the action property `PostsOnlyOverCold`.

The second is about the worker's side of that post, `DafGenerate`. A window that
nothing excuses is in one of three shapes (`Window`): nothing started and at most
one request on its way to the create, one Workflow and the one request that will
write the sentinel, or one Workflow and its sentinel. `SentinelBacked` needs
`Backed`: who is about to write the sentinel has created a Workflow in this
window, also when an older sentinel lapses meanwhile. Proved: `SingleFlight`,
`NoEmptyLock`, `FlightTypeCorrect`.

*SpendLedgerProofs.* The inductive invariant says what a live call object, the
three rows of an attempt and a reconciliation in progress may disagree about
(`ObjectInv`, `CronInv`), what a charge implies (`Paid`), and why each settled
row is settled (`SettledInv`). `ReceiptsBacked` alone is not inductive: a late
finish or a cron run settles from what it read earlier, and one has to know that
it read the same provider id, cost and cache-hit flag as the row now has. Proved:
`TypeCorrect`, `ReceiptsAreBacked`, `GenerationChargedOnce`, `HoldsNotStranded`
and `SettlementIsFinal`.

The totals are sums over sets of rows, which would ask for an induction over sets if
a sum were a fold; here a sum is the cardinality of a set of units, and what is
needed of sums (`SumMonotone`, `SumAgree`, `SumDisjoint`, `SumZero`, `SumOne`)
follows from the library's facts about cardinalities. `StatusMatchesAdmission`
splits the rows the admission query counts into the two sums the status page adds
(`SumSplit`). `CapsAreHeld` needs that a share of a cap, once within it, stays
there: every step but an admission keeps a row's time and amount held or settles
it (`StepKeepsRow`), which never raises what the reservations share (`ShareKept`),
and an admission compares with the total of the very window it adds to
(`WithinAfterAdmission`).

*LlmCallProofs.* `BooksAgree` speaks of a task that is over; the invariant says
for each station of a task what its rows look like (`Books`): those of earlier
attempts are settled or missed, the present one is open until its finish. `Walk`
relates the walk to the tasks (who is awaited, who was abandoned), and `Station`
what a task may have in hand where it stands. A step of a task leaves the others
alone (`TaskFrame`), so each action is checked for one position. Proved:
`CallTypeCorrect`, `BooksAlwaysAgree`, and the action properties `PaidAnswersUsed`
and `GivenUpStopsAlways`, for any chain and `MaxAttempts`.

*AiDownProofs.* That a gate with a known balance is at most one TTL behind it
(`GateKnowsBalance`) is far from inductive: a gate that refuses over a standing
sentinel is as stale as the sentinel, which another gate may have raised over a
balance read earlier still. The invariant says how far each reading is from the
moment it witnesses (`Clock`, `RowInv`, `GateInv`) and that all who work over a
balance from before the present tick work over the same, the cached one (`OneOld`).
So a sentinel for credits that is younger than the balance a gate has in hand, and
is not explained by that balance, rose within a tick of a moment without credit
(`Raised`); otherwise the balance would have cleared it. What a note or a clear knows
of the sentinel when it writes (`TripInv`): either it still stands as read, or it rose
in this very tick, or the read failed; from it follow `SparesMidRun` and
`SentinelKept`, with every KV call free to fail. Proved besides: `TypeCorrect`,
`KnowsBalance`, and `DisprovedByProvider` (`ClearsOnlyDisproved`) for a queue whose
model calls are all answered by OpenRouter itself; with Workers AI models or answers
of the gateway's cache it is false (section 4).

*RunQueueProofs.* `BypassAnsweredFresh` speaks of the end of a chain: a job's
output, its record under a run id that several jobs share, the answer of a
request that polls that id. The inductive invariant follows the chain. `JobInv`
says that a job has a run id of its own cache mode from the moment it is queued,
and holds only an outcome that is `Good` under it, which for a section means that
some job under that id was asked for it; `RecordInv` the same of every
record, whoever wrote it and however many deliveries died before; `RequestInv`
what a client may have been told. `Good` names the run id of another job, so it
has to survive later enqueues (`GoodStays`). Each action is an instance of one of
three frame lemmas: `ConsumerStep`, `ClientStep`, `WorldKeeps`. Proved:
`TypeCorrect`, `BypassIsFresh`, `GuardedAnswersRight`, `ExperimentalIsExplicit`,
for any number of requests, background jobs, seconds and deliveries, which the
run's one second and two deliveries do not reach.

*CardsProofs*, on the queue. `QInv` says that the counters are the slots taken
(`SlotsExact`), that neither exceeds its cap, that the numbers pushed stay below the
counter, and, the part that makes the rest true of a queue at rest,
`Drained`: when the pump is not running, either every slot is taken or nothing
that waits may start. Proved: `QueueInvariant`, `QueueTypeCorrect`,
`ReserveHolds`, `ForegroundFirst`, `FifoTiers`, for any tasks, slots and reserve.

*CardsProofs*, on the cards over it. `CardsImplementQueue` proves `Spec => QSpec`
action by action, so the queue's invariant, and `ReserveHeld` and
`ForegroundWaitsForForeground` with it, hold under any cards
(`CardsNeverStarved`). The card's own invariant (`CardInvariant`) adds `Alone`:
whatever is out, one request or one timer, is for the anchor on screen, over a
settled view of its page, and not while the page is view-driven. Proved:
`OneRequest`, `ViewHitsRender`, `MemoPinsFresh`.

Only model-checked: everything under fairness (`WarmSettles`,
`PollerAnswered`, `CachedRunAnswers`, `CallEnds`, `LatestSettles`,
`ViewDrivenEnds`, `Settles`), which is out of the prover's reach. Every invariant
a run checks and every action property of a passing run is the statement of a
theorem; `CoversInstances` has the hypothesis named above, which the run of its
property satisfies. `DisprovedByProvider` proves what no run checks: its property
holds in `MCAiDownHit.cfg` with `GatewayHits = FALSE`.

## 6. Not modelled, and why

- Prompts, parsing, key strings, schemas and registry text are data; what a key
  decides (the language a producer is stored under) is in the modules that use it.
- Sage and rabbi data, telemetry, the dashboards and the MCP description keep
  records nothing else reads back; rendering keeps no state of its own. These files
  are most of the repository's lines.
- The edit guard of the artifact store accepts a race between a human edit and a
  regeneration; nothing in the repository writes a human entry yet, so the race
  has no second party to model.
- The KV budget serves only deployments without D1.
- In `RunQueue`, deep-warm and rebuild jobs, ad hoc runs and malformed bodies; in
  `SpendLedger`, pricing, the size estimate of a request, the summary endpoint and
  the ten-rows-a-run order of the reconciliation; in `LlmCall`, building the
  request, reading the answer and `runJev`; in `Cards`, the inspector's leaf fetch
  and the fan-out of resolved dependencies.
- `PROJECT.json` gives every other component with its reason.

## 7. Plan

Done: `DagPool` over `DepExecutor`, `SpendLedger`, `RunQueue`, `DafGenerate`,
`ClientQueue`, `Cards` over it, `LlmCall`, `DafWarm`, `AiDown` and `DafOpen`, all
with proofs.

Next, in this order:

1. The reconciliation's discipline (ten rows a run, oldest first, deferred by an
   hour) and whether rows that never resolve starve newer ones.
2. `RunProducer`: the repair retry, transient output, staleness of resolved inputs.
3. The crons, the KV budget, `runJev`, the Tanach worker.
4. Proofs: the reader's request as one with the worker's (`DafOpen` over
   `DafGenerate`), and the gates of `RunQueue` over `AiDown`.
