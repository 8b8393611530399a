# FinInsights: a verification development in TLA+

FinInsights watches a demonstration bank (NexaBank), moves what happens there
into a ClickHouse warehouse, investigates its KPIs and shows findings to readers.
This directory models the parts of it where order, failure and concurrency decide
whether the numbers and the money are right. Each module is written from the code
under `src/`, checked on small instances with TLC, and, where a theorem can be
stated for every value of the constants, proved with TLAPS.

    tlc -config KafkaWorkerSafety.cfg MCKafkaWorker     # any run of PROJECT.json
    tlapm KafkaWorkerProofs.tla                         # any *Proofs module

Contents: [1 the system](#1-the-system) · [2 modules](#2-modules-and-what-they-correspond-to) ·
[3 runs](#3-runs-and-bounds) · [4 where code and comments disagree](#4-where-code-and-comments-disagree) ·
[5 fairness](#5-fairness) · [6 proofs](#6-what-is-proved) ·
[7 assumptions](#7-what-is-assumed-of-the-surroundings) · [8 what is not modelled](#8-what-is-not-modelled) ·
[9 plan](#9-plan)

## 1 The system

```
 customers, pages          simulator (POST /events/simulate)
   OnlineBanking, Tracker     Journey: what a customer does, SimulationRun: what the request writes
        │                     │
        v                     v
 NexaBank backend (Express, Postgres) ──events──> ingestion API ──> Kafka ──> worker
   BankLedger, OnlineBanking, Tracker             Ingestion    │              KafkaWorker
        │                                                      └─(fallback)──┐    │
        └──extract routes──> pipeline extract (Extract) ──> bronze <─────────┴────┘
                                                              │ transform rounds (Warehouse)
                                                              v
      readers <── dashboard API <── Signal Store <── sweeps <── silver, gold
         │                          SignalStore
         ├── live event stream (LiveStream)
         └── questions (Chat) ──> agent (Agent) ──reads──> Signal Store
```

| Component | State | Operations | Talks to | What is hard |
|---|---|---|---|---|
| Ingestion API, `ingestion/main.py` | one global Kafka producer, a lock, a cooldown | `POST /events`, producer start/drop, direct insert, dead letter | Kafka, ClickHouse | requests interleave at every `await`; a timed-out send may still arrive; a producer shared by requests that fail separately |
| Kafka worker, `pipeline/worker.py` | consumer position, batch, flags (`dirty`, `batch_stuck`, `commit_retry_needed`) | poll, flush with retries and isolation, dead letter, commits, `on_revoke` | Kafka group, ClickHouse | commits are positions while failures are messages; rebalances and evictions in the middle of a flush; outages and lost replies |
| Core-banking extract, `pipeline/extract` with `nexabank/backend/src/routes/extract*.ts` | watermark rows, cursor id, branch fingerprint | sweep, page, land, invalidate | Postgres over HTTP, ClickHouse | two readings of one table (`max` without `FINAL`, `FINAL`), equal timestamps, concurrent sweeps |
| Transforms, `pipeline/transforms`, `pipeline/service.py`, `pipeline/dev/seed.py` | silver and gold tables | rounds of the loop, `/refresh`, seed, purge | ClickHouse | every statement is alone; overlapping rounds; a round that raises in the middle |
| Migrations, `warehouse/migrate.py` | ledger table | apply pending | ClickHouse | statements are not atomic |
| Intelligence sweeps, `api/intelligence` | the Signal Store (eight `gold` tables) | forecast batch, sweep, nine-stage investigation | metric API, ClickHouse | re-runs reuse ids and replace rows by key; several windows; two sweeping processes; no transaction |
| Readers, `api/intelligence/reader.py`, dashboard API | none | `latest_insight`, `list_insights`, evidence | ClickHouse | which of several surviving rows is current |
| Agent, `api/intelligence/loop.py` | per question: focus, observations, claims | rounds of calls planned by rules or a model, critique, verification, rewriting | LLM, readers | the findings are replaced while it reads; a model that proposes anything; claims of different capabilities under one id |
| NexaBank money handlers | accounts, transactions, loans, licences | ten handlers | Postgres | READ COMMITTED checks, lock order, JSON columns written whole |
| NexaBank web pages and their handlers, `UserContext.tsx`, the pages, `UserControllers.ts`, `IsLoggedIn.ts`, `payee.ts` | a cookie, per tab who is signed in and what is shown, payees, profiles | sign-in, logout, session rotation, payees, profile, accounts, what a page reads again | each other, Postgres | tabs share the cookie; answers arrive in any order and after the page was left; handlers check first and write later |
| NexaBank event tracking, `eventTracker.ts`, `useGeoLocation.ts` | session profiles (bounded), `Event` rows | `trackEvent`, `trackEventsBatch`, `/events/track`, `/events/location` | Postgres, ingestion API | whichever event of a session is forwarded first decides its place; eviction; a timer against a position |
| Customer simulator, `eventRoutes.ts`, `journeyModel.ts`, `simulationBehavior.ts` | in-memory journey and balance, the rows it writes | one request with a pool of runners and a payee pass | Postgres, tracker | gates against an operator's override; one balance write for a day loop of rows; swallowed failures |
| Live event stream, `useRealtimeEvents.ts`, `websocket_manager.py` | refs to a socket and a timer | connect, select a tenant, close | WebSocket server | closes are reported late, to whoever holds the refs by then |
| Chat, `ChatSurface.tsx`, `chatStore.ts`, `IntelligenceAsk.tsx` | transcript, `localStorage` per tenant and persona | ask, stream, fall back, switch, wipe, close | agent API | closures of older renders; the order of effects |
| Other dashboard pages, RBAC | UI state, a JSON file | pages | APIs | best effort |

What makes the main components correct, informally:

* **worker**: a committed offset never passes a message that is in neither table;
  commits never go back; every decodable message gets to a table; a stuck batch is
  retried as it is and resolved in the end.
* **ingestion**: a 202 is backed by a stored event, nobody waits for ever, no started
  producer is forgotten, a broker that returns is used again.
* **extract**: nothing is ever behind the cursor unread, except a transaction that committed
  when a watermark had passed its stamp; bronze catches up with what was not late.
* **ledger**: the Transaction table explains every balance, payouts agree with
  applications, callers are told the truth, a request nobody raced behaves as if alone.
* **Signal Store**: a finding has its evidence, its band ends where its window begins
  (proved), a withdrawn finding is not shown, a standing one is, and its figures are of one run.
* **warehouse**: whatever rounds overlap, raise or die, gold comes back to what bronze says;
  while rounds run singly no reader whose window goes back to the first date sees a part larger than its whole.
* **online banking**: the cookie names the last sign-in, a page at rest shows what is stored,
  profiles do not mix, a page always gets past its skeleton; and nothing that is pressed twice is
  done twice: a payee is added, a licence bought, a payroll list paid, a form sent and a loan paid out once,
  to its own customer; each but the skeleton except in races and losses that the property names.
* **tracker**: one session is in one place; what is forwarded was stored, and so was its place
  unless it is marked as simulated.
* **simulator**: every event sent through the journey model is earned by an earlier one, a planted anomaly stays
  in its window and segment, balances are what the rows say, every customer is accounted for.
* **live stream**: a mounted page never stops trying; a page that is gone leaves nothing,
  unless a close was overtaken.
* **chat**: what is stored is what is shown, or its tail, as far as either fits; a question ends in an answer or an error.
* **agent**: a run stays with its metric, consults all that the question asks for, and states
  only figures that its capabilities read, one per claim id unless it ranks.

`PROJECT.json` lists all components with their status, and forty hazards with the
line where each bites and the properties that watch it.

## 2 Modules and what they correspond to

`PROJECT.json` "map" gives the source lines of every definition. Definitions named
*mutants* in comments are plausible bugs: replacing the definition after them by the
mutant makes a property fail.

### DeliveryContract, KafkaWorker, MCKafkaWorker

`DeliveryContract` is the abstract promise: a log, the set of durable messages, and
committed offsets that only advance, past durable messages. `KafkaWorker` is the code.
A message is `<<partition, offset>>` with a kind: *good*, *poison* (decodes but cannot be
inserted), *undecodable*. `pc[w]` follows `run_worker` and `flush_batch`: `poll`, `check`
(the timer half of the loop), `insert`, `isolate`, `probe`, `park`, then `settled` or
`held`; `revoked` is the end of `on_revoke`. Each action is the code between two points
where something else can happen: a poll with the append or the dead-letter write it
causes, one insert attempt, one row, one probe, one parked row, one commit call. A write
that raises may or may not have been stored. The batch is a set (its order only feeds an
insert token that the code says is ignored), elapsed time is a choice, backoff sleeps are
nothing. The refinement maps `durable` to `bronze \cup dlq`.

### Ingestion

A step is what a coroutine does between two awaits. A slot serves one request after
another. `get_producer` is `GetProducer` (the checks before the lock), `Locked` (the checks
again), `Started`; `drop_producer` is `Drop` and `Stopped`, with `stop()` awaited under the
lock. `Deliver` and `Expire` are the sender task of aiokafka and may happen after the
request has given up. `places[r]` is where the event of a request has got to.

### Extract

One entity with a keyset cursor. The bank stamps a record when a statement runs (`Change`) and shows
it when the transaction commits (`Commit`), in whatever order: `late` collects the records whose commit came after
their stamp was passed. The first sweep of the loop after a start reads in full, once, however it ends
(`Booted`). `older` and `newest` are the unmerged rows of
`gold.ingest_watermarks`: `read_watermark` takes the largest, `read_cursor_id` the newest,
and `Merge` is ClickHouse collapsing them. Two sweepers: the extract loop and `/refresh`; a restart
of the service is `ServiceRestarts`. Its proofs are in `IngestionProofs`.
The model keeps milliseconds (`TICKS` of them to a second) because the stored watermark
does not.

### BankLedger, MCBankLedger

Ten handlers as data: a request is a `Question` with a kind, and operators say what each
kind reads, checks, locks, changes and books. `Read` is the code before the transaction
writes, `Update` one row lock in statement order, `Commit` everything at once, `Tell` the
tracking and the response. JSON columns (`investment`, `kycData`) are modelled by the set
of requests whose change they still contain, which is what a lost update loses.
`raced[r]` is a ghost: another request changed what `r` had read.

### SignalStore, MCSignalStore

One KPI, one persona entitled to it, windows of several lengths. Each table is the set of
rows a `SELECT ... FINAL` returns; `Put` is a `ReplacingMergeTree` insert, and every key
is the table's `ORDER BY`. A stage's conclusion is a choice; the order of writes is
`investigate`'s: anomaly, causes, causal verdict, recommendation, insight, investigation.
`Abort` cuts a run anywhere. `LatestInsight` and `ListInsights` are the two queries.
`ended` and `disturbed` are history variables used by properties only.

### Warehouse, MCWarehouse (proofs in SignalStoreProofs)

A round of transforms is a sequence of ClickHouse statements (`Path`), and a thread is a
position in it: the transform loop, and requests (`/refresh`, seed, purge). Nothing holds
statements together, so threads interleave at each. A statement that raises may have taken
effect; the KPI path is given up and the context path still runs, as in `run_transforms`.
One KPI with its numerator and denominator stands for the five, one fact table for the six
(all share `_write` and `run`); a table is what `SELECT` without `FINAL` sees, so duplicates
count until `OPTIMIZE`. `silver.events` is never emptied, only merged. A user enters a stage of the
funnel on the date of that step (`Entered`), in a row for that date, and `ReadFunnel` is the query of
`/metric/funnel`: the distinct users of the rows dated in the reader's window.

### Tracker, TrackerProofs

`calls` are the tracker's calls with the row they write and their progress; `profiles` is the
session cache in insertion order, `wire` what was posted to ingestion. A call of
`trackEvent` stores, then forwards without waiting; a batch stores all rows and forwards only
if that worked. Places are model values, *real* (reported by a browser or a simulation) or
*invented* (drawn by the server). The page half is `useGeoLocation`: a timer and a position
callback that race for one `postedRef`.

### Journey, MCClickstream (proofs in TrackerProofs)

One customer of the simulator. An action is a block of `runUser`'s day loop; a *script* is
a sequence of events a block may emit, with their timestamps, and `Play` picks one and sends
it through `SimEmit`, which back-fills what the journey model finds missing. One event does not go that way,
the payment of the deposit flight (`Flight`). `Missing[n]` is
`planBackfill`'s recursion as a function of a list of groups still to visit, with a depth that
bounds it; six levels are enough, which is proved. Probabilities
are percentages of which only 0 and 100 decide. The override (targets with a traffic and a
failure multiplier, a forced mix, a window, a segment, the released safeguard) acts through
`Effective`, `FailureRate`, `Forced` and `Applies`. `MCClickstream` puts the two writers of the
clickstream side by side: a behaviour follows the script of a customer or the tracker, as
`source` says, and the other rests.

### SimulationRun, MCSimulationRun (proofs in BankLedgerProofs)

The request around it: runners take customers from one counter; each customer is a sequence
of awaited statements (`stage`), any of which may fail; a failure is swallowed and the
customer counted as skipped. `cash` is the balance kept in memory, written by `Settle`;
`booked` adds up the rows. Then the payee pass moves money between pairs. `torn` marks
customers a swallowed failure of that pass left between row and money.

### OnlineBanking, MCOnlineBanking

The bank in the browser. `tab` is a document (its page, whom it believes signed in, whether it
waits for `Auth`, whether the page's skeleton is gone, and what it shows of four resources);
`jar` is the cookie the tabs share; `calls` are the requests in flight, each with the token it
was sent with and the answer once there is one. Customers act (`Load`, `Visit`, `SignIn`, ...,
`SaveProfile`), the handlers work (`Refuse`, `Read`, `Check` and `WritePayee`, `Write`,
`ServeSignIn`, `ServeLogout`) and answers arrive in any order (`Deliver...`), for a page that may
have been left or a document that is gone. `isLoggedIn` is `Session` and `Rotated`. Payees and accounts
are held by the context above the pages and survive a visit, the rest does not. `Refetch` is what a
page reads after a write. Four ghosts name the races the code does not exclude: `raced` (a sign-in
or logout answered while a call of another session was in flight), `overlapped` (two additions
between look-up and insert), `doubt` (a resource of a tab that something else may have changed
since it was read) and a call's `lone` (no other read of its resource was in flight). An answer
lifts a doubt only if it is about whoever the tab now believes signed in; a payee's id is never
given to another (`@default(uuid())` in `schema.prisma`), which `Unused` keeps for calls that
have already found a row.
`MCOnlineBanking` puts the pages, the pro features and the loan pages in one browser that is
at one of the three (`view`); they share no state here.

### ProDesk, Sifting

The `/pro-feature` page, one component that shows whichever feature the address names, and
the handlers of `/pro`. `desk` is the page and the state of the module it has mounted; `sent`
are the requests in flight, each marked `here` while the component that made it is on screen,
and `newest` while none of its kind was sent after it. The server's side is the licences, the
fees, a portfolio as the number of its changes, the payroll rows of each account and the
moment of the cached prices. `Goto` keeps what the page knew of the last feature until
`OnStatus`; that, and a batch that is paid while its list changes, are what `blind` and
`spoiled` name. `Sifting` is a filter on positions, which proofs can use where `SelectSeq`
takes an operator.

### LoanDesk, MCLoanDesk

Loan applications between two kinds of pages: the customer's, with a form of three steps,
and an administrator's, with a list, a review dialog and questions asked in toasts. `mail` is
what is in flight. A step of the form that gives way to another stays on the screen until its exit has been
played (`shown` is not `step`; `ShowStep` ends it), and so does a dialog that closes (`FadeOut`); until then their
buttons answer with what they were last rendered with, a check that holds for the step that leaves while the
move counts from the step that comes (`Checked`, `Moved`), and no `disabled` while a request runs. `hurried` is a
ghost: the forms of which a step was used so. A decision is `CheckDeed` and `DoDeed`, the two statements of the handler.
An approval from a row first looks for the account of its customer (`OnFind`), one from the
dialog takes `target`, which the page never resets: `met` names the customers whose accounts a
page has asked for.

### DeskProofs, BrowserProofs

`DeskProofs` is about `ProDesk`; `BrowserProofs` extends it with the other two and with
`MCOnlineBanking`, the browser that is at any of the three; see section 6.

### LiveStream

An action is one turn of the browser's event loop. Sockets and timers are slots with the
tenant their closure was made for; the three refs of the hook outlive a change of the tenant.
`raced` is a ghost: a socket closed on purpose reported its close to a later selection.

### Chat

An action is one turn with the renders and effects it causes; on a change of the identity the
load effect runs before the save effect. `ask` is the question under way with what the closure
of its render holds: the identity it was asked under and how far its stream has got. The
server may answer, report an error, or break at any point. All identities write to one quota
(`HasRoom`); `Kept` has the three outcomes of `saveChat`: the capped transcript, its tail, or neither, and
then what was stored stays.

### MCDashboard, DashboardProofs

One tab of the dashboard: a page with the live stream or the page with the chat. The two share
no state, so `view` is chosen once and the other half stays as an unmounted component is.

### Agent, MCAgent, DashboardProofs

One question (`loop.run`). A question is what the matching of its words yields: the metrics it
names or refers to, the capabilities its cues reach, and which vocabularies it uses; `Shape`,
`Wants` and `Chain` are `understanding.read`, kept in `reading` by `Comprehend`. `REGISTRY` and `Profile` are the tables of
`tools.py` and `personas.py` as they stand. `Propose` is a round's plan: a planner (`RulePlan`, or
`ModelPlan` applied to any reply of the model), then `DropMeta` and `EnsureChain`. `Execute` is
`_execute`, the claims and the critic; its variants `Fails`, `GoesMute` and `SweptUnder` are a
capability that raises, one whose wording raises, and a sweep that replaces the findings before
some of the parallel calls have read them. A figure is the record it was read from (kind, metric,
generation of the findings), so two figures are equal exactly when one row supports both;
`loose` figures are those a wording prints without recording them. `claims`, the claim set of
`_synthesize`, is read off the observations: under each id the figure recorded last. `Withhold` is the verifier
refusing the draft, `Write` the answer with a part the model has reworded.

## 3 Runs and bounds

| Run | Configuration | Question |
|---|---|---|
| `worker_safety` | 2 workers, 1 partition, 2 messages, batch of 2, 2 faults | no commit passes a lost message; the group implements `DeliveryContract` |
| `worker_live` | 1 worker, 2 messages, 3 faults, fair | stuck batches are frozen and resolved, decodable messages delivered |
| `ingestion` | 2 requests at a time, 3 producers, 2 faults, fair | truth of answers, no leak, progress, recovery |
| `extract` | 2 records, pages of 1, 2 sweepers, 2 open changes at a time committed in any order, 3 ticks to a second, 1 fault, fair | cursor completeness, catching up |
| `ledger` | 2 requests of any of ten kinds, 3 accounts of 2 customers, 1 application, fair | books, payouts, answers, serial behaviour, progress |
| `signal_store` | 2 sweepers, windows of 1 and 2 days, 2 midnights, 3 investigations | the promises about findings |
| `warehouse` | the loop and 1 request, 2 applications, 3 events, 1 change, 1 fault, fair | parts and wholes, settling |
| `clickstream` | script: 3 days, 3 overrides and none, 3 countries, 2 devices; tracker: 3 sessions for 2 profiles, 3 calls, batches of 2, 1 fault | earned events, plants in scope; one place per session, forwarding, marks |
| `online_banking` | pages: 2 tabs, 2 customers, 1 shop, 3 acts in one tab and 1 in the other, 2 calls in flight, 1 tick (of a token of 2) or 1 fault; pro: 2 licences held, 2 people, 2 searches, 4 acts and ticks, 1 fault; loans: 2 customers, 2 administrators, 2 applications, 2 forms, one of six budgets; fair | the session, nothing done twice, screens at rest, customers apart, settling |
| `simulation_run` | 3 customers, 2 runners, 1 failure, 1 outside transfer, fair | books, an answer |
| `dashboard` | live page: 2 tenants, 2 changes, 4 sockets, 4 timers, fair; chat: 2 identities, 3 questions, a cap of 4, a tail of 2, a quota of 6, answers of size 2 | coming back; storage, no lost question |
| `agent` | 4 personas, 12 questions, 3 states of the findings, 5 proposals of a model, one at a time, 3 rounds, 1 upset | one subject, no gap, figures on record, clashes only beside a ranking |

Each run is exhaustive. Distinct states: `worker_safety` 0.6 million, `worker_live` 61
thousand, `ingestion` 24 thousand, `extract` 2.5 million, `ledger` 0.7 million, `signal_store`
5.5 million, `warehouse` 1.1 million, `clickstream` 2.4 million, `online_banking` 0.8 million,
`simulation_run` 0.8 million, `dashboard` 0.1 million, `agent` 0.3 million; the slowest
takes three to four minutes. Eleven more configurations, those of section 4, are no runs of
`PROJECT.json`: TLC refutes the one property each of them names. `TypeOK` is the
type invariant of `KafkaWorker`, `Ingestion`, `SignalStore`, `Tracker` and `Chat`, where it is proved
for every instance, and of `BankLedger`; those of `Agent` and `Journey`, `AgentTypes` and `JourneyTypes`, are
proved too; `Extract` has `ExtractTypes` and `SimulationRun` has `RunTypes`; the browser's modules
state theirs inside the inductive invariants of `DeskProofs` and `BrowserProofs`.

Every bound is a constant and appears only in a guard: `MaxLog`, `MaxFaults`, `MaxClock`,
`MaxRuns`, `MaxDay`; the tables and queues are otherwise unbounded. Why they suffice:

* A batch of two messages is the smallest in which one row can be good and another
  poison, in which a dead-letter write can fail after another succeeded, and after which
  a later message can be committed past an earlier one. Two workers are enough for a
  zombie and its successor. Two faults give a rebalance plus a lost reply, an eviction
  plus an outage, and so on; three are used where one worker suffices.
* Three producers for two requests: the current one and one each request still holds
  (`IngestionAssumption` asks for exactly this).
* Two records, two changes and three ticks to a second have equal stamps, equal seconds with different
  stamps, and different seconds, each with a commit in order and out of order, before and after a
  watermark has passed the stamp; pages of one put a boundary between any two records.
* Two requests are enough for every race of two handlers and for a deadlock; balances of
  one, amounts of one and a fee of two make every check pass in some states and fail in
  others. Two accounts of one customer, so "the richest account" can change between a read
  and a write, and one of another customer for the refusals.
* Three investigations give a finding, a re-run and a run that overlaps either; windows of
  one and two days over two midnights include two windows of different length that begin
  on one day, which share all their ids.
* Warehouse: one request beside the loop is enough for two rounds to overlap at any two
  statements; one customer who starts and one who completes make the parts of a rate differ;
  of two days, the user who starts on the first completes on the second.
* Tracker: two profiles for four sessions force an eviction while evicted sessions go on; two
  instants make the order of eviction matter.
* Journey: three days give days inside and outside a window of one and of two; each override
  exercises one mechanism (a plant in a segment the mix shift moves sessions into, a forced
  country with and without cities together with a silenced login, the released safeguard).
* OnlineBanking: a tick makes a token expire, a fault loses a call; a run with both adds only what
  each adds alone. One tab acts on its own long enough to add a payee twice; the other signs in.
* ProDesk: a licence that is held and one that is not on each side of a link; two refresh
  periods let prices and the server's cache get out of step.
* LoanDesk: the budgets put the acts where they matter: seven of the customer's alone (a form
  filled, closed, opened again, sent twice, or walked with a step skipped) or six and a mishap, or one administrator who decides twice, or two who decide at once.
* SimulationRun: three customers are the fewest the payee pass accepts.
* LiveStream: two changes of the tenant make the refs meet a close that is two selections
  old; four slots are never all in use.
* Chat: with a quota of four messages, two of them answers, a lone identity meets the cap, and a second one with a
  transcript of its own the tail and the refusal of both, with and without an older transcript stored.
* Agent: the personas are the code's four, so every width, depth and bias is there; the questions
  are the personas' examples and those the comments of `planner.py` and `understanding.py`
  discuss, one for each shape; the findings have both metrics moved, one or none, one whose level
  has more than six digits and one whose series misses a day. One proposal at a time is enough
  for a model to repeat itself, ask for what is not entitled or stop early, because the planner
  adds the rest; a single upset lands in any round.

`CHECK_DEADLOCK FALSE` is set where the system may stop: a ledger whose requests are served, a
simulated customer or request that is done, a page that is gone, a question that is answered, a
bounded number of calls used up. The other specifications never deadlock.

## 4 Where code and comments disagree

Each configuration below checks one sentence of the repository, and TLC refutes it by what
the code does. They are kept beside the runs so that a change of the code can be tried.
Where the configuration is that of a run, the sentence takes the place of the properties it names.

* **An undecodable message can be lost** (`KafkaWorkerUndecodable.cfg`, `UndecodableIsKept`).
  worker.py:433-435 says a failed dead-letter write holds the offset; position has already
  moved, and the next commit for any later message passes it.
* **An outage can dead-letter good rows** (`KafkaWorkerOutage.cfg`, `OnlyRefusedRowsAreParked`).
  worker.py:229-230 promises to tell an outage from a poison row; the probe runs after the
  failures it explains.
* **A healthy producer can be discarded** (`IngestionDrop.cfg`, `OnlyFailedProducersAreDropped`).
  `drop_producer` (ingestion/main.py:117) discards the current producer, not the one that failed.
* **A branch change may never be re-read** (`ExtractBranch.cfg`, `BranchChangeIsReread`).
  core_banking.py:165-166 says the feeds are read again in full; the reset watermark loses to
  the older, larger one until ClickHouse merges, and the sweep that follows writes that again.
* **A checked transfer can overdraw** (`BankLedgerOverdraft.cfg`, `TransfersAreCovered`).
  transactionRoutes.ts:237-239: the check and the decrement are in one transaction, but at READ
  COMMITTED without a lock or a condition.
* **A superseded finding is served** (`SignalStoreSuperseded.cfg`, `SupersededNeverServed`).
  reader.py:79 says never; only `no_anomaly` supersedes, so a re-run that ends in a defect, an
  abstention or an immaterial movement leaves the older finding on the page.
* **An approved application need not become a loan** (`SimulationRunLoans.cfg`, `ApprovedIsLent`).
  eventRoutes.ts:1468 says it must become a real Loan; the `updateMany` at 1462-1465 approves
  every pending application of the customer, while one loan is created.
* **A simulated event can come from nowhere** (`EveryEventIsEarned` in `Clickstream.cfg`).
  eventRoutes.ts:868-870 says every generator event goes through `simEmit`, so that the journey model can
  back-fill what it misses; the payment of the deposit flight (1306-1308) is written by `trackEvent`
  itself, and in a session whose login was silenced nothing precedes it.
* **A page that is gone can hold a live socket** (`NothingOutlivesThePage` in `Dashboard.cfg`).
  useRealtimeEvents.ts:46-50 and 128 say the teardown flag ended this. After a change of the
  tenant the flag is reset before the old socket reports its close: that report clears the ref
  to the new socket and arms a retry, so the page has two sockets and can close only one.
* **Tenants can share a transcript** (`TranscriptsStayApart` in `Dashboard.cfg`). chatStore.ts:5-6
  and ChatSurface.tsx:383-384 say they never do. The save effect (389-391) runs after the load
  effect with the transcript still on screen and stores it under the new identity; if that has
  no conversation of its own, it stays there. An answer that arrives after a switch lands in
  the transcript switched to.
* **The newest messages are the ones lost** (`NewestIsKept` in `Dashboard.cfg`). chatStore.ts:13-15 says the
  cap prevents writes that fail silently, "losing the newest messages rather than the oldest". The quota is
  shared by the identities; where not even the tail fits, the write is dropped silently (70-72), the older
  transcript stays and comes back on reopening.
* **A loan goes to the customer of another dialog** (`LoanDesk.cfg`, `LoansReachTheirCustomer`).
  admin/loans/page.tsx:106 fetches "the customer's first account to pre-fill target account for
  disbursal"; the account stays when the dialog is closed, an approval from a row uses it if it is
  there, and the handler pays any account it is given.
* **An application can be sent without its details** (`LoanDeskForm.cfg`, `ApplicationsAreWhole`).
  ApplyLoanForm.tsx:76 says "Please fill in all details to proceed." `AnimatePresence mode="wait"` (521) keeps the
  step that leaves, with its button, on the screen; a second press checks that step again (70-81) but moves on
  from whichever step is current, so the second step is passed unchecked, and `/apply` checks none of it. The last
  step's button, or that of a dialog that closes, is live in the same way and can send a form twice.
* **A later window can show a funnel that grows** (`WarehouseWindow.cfg`, `EveryWindowNarrows`).
  gold_funnel.py:12-18 says that a later stage is no longer larger than an earlier one and that the reader merges the
  rows "over whatever window it asks for". A user who starts on one day and completes on the next is in the
  rows of the second day as completed only, and reads.py:164-182 reads the rows of its dates alone, without any
  rebuild being under way. `LaterStagesAreSmaller` is therefore about windows that go back to the first date.
* **A rejected event is dead-lettered every round** (`WarehouseRejects.cfg`, `OneRowPerReject`).
  0003_events_dead_letter.sql promises one row per event; `silver_events.run` reads all of bronze
  each time and writes its rejects again.

Noticed while reading the agent: `_compare_metrics` (tools.py:794) uses a `window_days` it does not
receive, so a comparison of two metrics always comes back as a failed capability; a ranked level
is printed with `%g`, in six digits, and a trend with the days asked for rather than the days on
record, so that either can make the verifier withhold an answer whose figures are all right;
`get_causes` and `run_localized_search` record their shares under the same ids, the later one wins
and the other's sentence no longer verifies; an overwritten figure passes the verifier after all when a ranking
lists the same metric, because the level of a line is recorded under an id of its own; a model that says it is done in its first reply, with
calls beside it, gets none of them run, and the reader an abstention; a metric that moved is never
preferred in `resolve_metric` (159-164), because the aliases have settled it before; the streaming
endpoint of the dashboard API passes an `emit` of two arguments to a trace that calls it with one,
and the error is swallowed, so the steps its docstring promises are not sent.

Noticed elsewhere, not under a property: `getBookStats` counts the event
`pro.finance-library.book_access`, which `accessBook` does not record (it tracks
`ai_insights.book.success`), so the library's figure stays at nothing; `causes_for` returns ranks a later run no
longer has; `top_movements` has no supersession rule at all; `read_forecast` reads without
`FINAL`, so two fits of one date may both be there; `_apply_fdr` marks a result after its
insight was written and no reader looks at the mark; `_reconcile` in `silver_facts.py` is
never called although the module's docstring relies on it; a purge leaves the seeded events in
`silver.events`, which is never emptied, and with them the sessions and funnels, although
seed.py:393 says it rebuilds "from what's left"; `silver_events` reads the two million oldest
events, and later ones never reach silver; the payee pass debits up to 5999 from an account
checked to hold more than 5000; a reused customer's balance is overwritten with the value the
run computed, so transfers made during the run are lost; a question typed on the page is sent
to a resumed conversation with an empty history; an answer is shown twice if the stream breaks
right after it; dismissing the last turn of a transcript leaves it stored; an operator who
silences logins gets them back-filled a second before the first event that is emitted, so the
start of KYC, stamped relative to the day, can precede its login.

## 5 Fairness

Fairness is part of `FairSpec` (in `SimulationRun` of `RunSpec`, in `Extract` and `Warehouse` of `FairExtract`
and `FairWarehouse`), and used by the liveness
properties alone.

* **Worker.** Weak fairness of the loop and of a flush: `poll` has a timeout, every
  ClickHouse call has one, the process is single-threaded. Strong fairness of
  delivering a polled message, of a flush and of an assignment: these are enabled again and
  again between rebalances, `FLUSH_INTERVAL` elapses, and the broker serves waiting
  members. A commit request is answered or refused. `restart: unless-stopped` restarts the
  process. Faults are bounded, so outages are finite, and each ends.
* **Ingestion.** asyncio runs every ready task; its lock is first come, first served (strong
  fairness of taking it); a send ends after five seconds; aiokafka sends or gives up what it
  buffers; the cooldown and outages end; valid events keep arriving.
* **Extract.** The loop sweeps for ever; transactions commit. Nothing is assumed of `/refresh`.
* **Ledger.** Handlers run, free locks are taken, transactions commit, and the database
  breaks deadlocks: only `Break`, an abort of a transaction on a wait cycle, is fair.
* **Warehouse.** The loop comes round (`_transform_loop` never ends), every statement is
  answered (the client has timeouts); faults, requests and changes are bounded.
* **SimulationRun.** Every await of the handler settles: weak fairness of `Handler`.
* **OnlineBanking, ProDesk, LoanDesk.** Weak fairness of handlers and answers together (`Serving`,
  `Runs`, `Turns`): a handler ends and an answer or its loss is reported, the search timer of the
  payroll and the prices' interval fire; nothing is assumed of customers, faults or the clock.
* **LiveStream.** Timers fire and closes end; a socket that is tried again and again is accepted
  in the end (strong fairness of `Opened`): the server is up now and then.
* **Signal Store, Tracker, Journey, Chat, Agent.** None: their properties are safety and action
  properties. The chat has no timeout, so nothing says a stream ever ends.

## 6 What is proved

The proofs are for any number of workers, partitions, requests, accounts, sweepers, and any
bounds; they use the named `ASSUME` of the module and nothing else.

**KafkaWorkerProofs.** `TypeCorrect` is inductive by itself. `CommittedIsAccounted` is not: it
says nothing of commits in flight or of positions. The invariant `SafetyInv` adds
`RequestsSafe`, that every unanswered asynchronous commit is for a safe prefix, and
`WorkersCovered`, that whatever a worker has moved past is safe or still in its batch, or,
in the middle of a flush, in the rows it has not tried or parked. A commit is only sent
when that remainder is empty, which gives `CommittedAccounted`.

`WorkerImplementsContract`, in the same module: every step is a step of
`DeliveryContract` or a stutter. It needs, beyond safety, that offsets in flight are
ordered and not below the committed ones of partitions still owned, which is what the
coordinator's fencing buys. `BatchBounded` and `StuckBatchFrozen` hold if `pause()` never
raises, and are proved under that hypothesis.

**IngestionProofs.** The invariant ties the lock to the task between `Locked` and `Started`
or `Drop` and `Stopped`, and says that the global is the only open producer. From it
`NoProducerLeaked`, `AnswersTrue`, and `IngestionTypeCorrect`; the last needs
a counting argument, that an unused producer object exists whenever one is built.

For `Extract`, in the same module: `EInv` says that what is due (committed, not landed, not late) is younger
than every stored watermark, whichever row a reading takes, and ahead of every sweep as a pair of stamp
and id. Its lemmas are about pages: that nothing eligible sorts before what a page takes (`PageIsFirst`),
that a short page takes all (`ShortPageIsAll`), and that the last record of a page is its youngest. `NothingElseIsSkipped`
has one hypothesis, `[]PagesEndBatches`: a sweep that uses up `MAX_PAGES` (5000 in the code) does not stop inside a
batch stamped at a full second. Only there does the served watermark, cut to the second, equal the stamp of
records still to be read; the rest of any other batch is at or after the second the next sweep starts from. It
cannot be dropped: with fewer pages than the batch has records TLC finds a record skipped. What is late is said of the moment
of the commit (`Behind`): its stamp is not after the second a watermark serves, or a sweep under way has fetched past it.

**BankLedgerProofs.** `IInv` says a request is on the books exactly when its
transaction has committed. `PayoutsAgree` and `AnswersTrue` follow. `BalancesInvariant` adds, for
`BooksExplainBalances` (as `BooksExplain`), that each balance nobody overwrote is its opening plus
what the rows say, the case the property states; so a commit must change a balance by what it adds to the
rows. That needs the fold over rows opened: its accumulator function exists and is unique, one more row adds its
amount, and a batch of rows of equal amounts adds their number times it (`SumOfBatch`, by induction over the
number of rows). The rows of a commit are new, because a request has none before it.
For `UnracedIsSerial` (as `UnracedSerial`), `Fresh`: what an unraced request about to write has read
is still the present, since a commit that changes a row races everyone who has read it.

For `SimulationRun`, in the same module, `PoolAccounts`: the invariant says that the counter separates the
customers taken from those to come, that each taken one is at one runner, finished or
skipped, and that the payee pass begins when all runners have ended. `BooksBalance` adds that
`cash` of a customer on the way equals what its rows add up to (`MInv`), stage by stage, and
that a transfer in progress is accounted for by `Due`.

**SignalStoreProofs.** The invariant says which rows a run has behind it at each stage, that
every run has a band of its own date, and that the last run to end over an unshared start
is the one whose verdict is on record. It gives `EvidenceFirst`, `BandsEndInTime` and
`QuietSilences`. `FindingsInv` adds what a calm day keeps: one run at a time, rows dated by the end of
their window, so that a re-run ties with what it replaces and the later insert wins; what the
run has written so far is the day's only evidence; and a finding carries its run's figures while nobody
is replacing them. `FindingIsServed`, `PageAndListAgree` and `FiguresAreOneRuns` follow.

For `Warehouse`, in the same module: `LaterStagesAreSmaller` speaks of every moment and therefore of half-built
tables, so `WInv` says what a lone round has left behind at its n-th statement (`RoundAt`): no KPI row before the first
is counted, then the row of those who started, and of the funnel exactly the stages passed (`FunnelAt`). A
statement that raises leaves such a state too. That a prefix of the funnel narrows needs `FunnelAssumption`,
that `FUNNELS` lists a stage after the one it requires, and `PassedBefore`, that a stage's chain
extends that of the stage before: the recursive `Chain` is opened by showing that its equation has a solution. From it
`EnteredShrinks`: whoever entered a stage entered the one before on that date or an earlier one, because a first touch
is one of the user's events and dates do not run against the timestamps.

**DashboardProofs**, for `MCDashboard`. Live stream: a mounted page has a timer or a socket not yet
closed, and, as long as no close was overtaken, the refs name the only ones.
`PageKeepsTrying` and `PageLetsGo` follow; they, like `PoolAccounts` and `SwitchesKeep`, are no longer
run by TLC, since their theorems say more.

Chat: every transcript is within the cap and all together within the quota
(`Capped`), so a transcript read on a switch fits again where it was; and what is stored under the identity in force is
what the cap, the tail and the quota keep of the screen (`FitsIsStored`). `ScreenIsStored`, `QuestionsEnd` and
`SwitchesKeep` follow, the last two as action properties.

For `Agent`, in the same module, `AgentInv`. The subject: `focus` is at every moment `SubjectBefore` the coming
round, so `FollowUpsKeepTheSubject` needs that a planned call without a metric of its own is about the focus or
about nothing yet (`OpenCall`), whichever planner, correction or model it came from. The gap: every plan that runs has
been through `EnsureChain`, after which what was tried and what is planned consult all that is wanted
(`Consulted`), and it calls nothing that has returned (`Sound`). The figures: the results of every
capability but the ranking stand under the id of their kind (`Fits`), so a figure that is a claim at all is the claim of
its own id. That last step fails for a ranking, whose lines carry numbers for ids: TLC refutes the
property without its exception when a model proposes a call about each of two metrics and a ranking of both in
one round, and nothing in the code forbids it. `Agent` states its filters with `Those`, a recursion over
positions, because the provers know nothing of `SelectSeq`; `SiftExists` and `AmongFacts` say what it returns.

**TrackerProofs.** One event of a call is a step of `Forward`, and a call is a fold of it over
its events. `Sound` says of the cache and the wire together that
a place on the wire is its session's in the cache, or as many other sessions were heard of since
as the cache holds (`Placed`), that a profile was last seen when its session was last forwarded
(`Dated`, which is what makes the evicted profile the right one), and that a place not
marked as invented is one of a stored row (`Backed`). `ForwardIsSound` shows that one event keeps it, `ChainExists` and
an induction over the positions of a call that a call does. `Once` adds that an
event goes out when its call stores it. `SessionKeepsItsPlace` and `ForwardedIsStored` follow.

For `Journey`, in the same module, `JourneyInv`: `PlantStaysInScope` (as `PlantAlways`) and
`GatedEventsAreEarned` (as `EarnedAlways`) for any overrides, countries and lengths of a plan. The
plant needs `ScopeHolds`, that a session in scope is one the override applies to *with the device
and country the mix shift left it*, and that no other block, back-fill or script names it. What is earned
takes three arguments. A visit of the back-fill is built from the visits one level down (`SoundMissing`: nothing
it emits comes before what it needs), and each event of the catalogue has a depth that does not cut its visit
short (`VisitIsSound`: one where only an entry is asked for, six for the failure of a pro feature). A script is an
induction on its steps: if its stamps do not go back, what an event
waits for was stamped no later (`PlayGated`). And blocks share one set of stamps while each counts
its own seconds, so the invariant bounds how late the stamps of the loan funnel and of the pro
features are when a block begins (`KycBy`, `ProBy`): an event waits only for those sides (`SideOf`), and
every block starts its own after the bound. That is where a block moved to another place
of the day would break.

**DeskProofs** and **BrowserProofs**, for `MCOnlineBanking`. `BrowserInv`, about what is done and to whom, is the
conjunction of three invariants, none of whose properties is inductive alone.

* `PagesInv`. `SessionsKept`: without a race not only the cookie but every call's token is of the
  last sign-in, since its answer may still rotate the cookie. `PayeesKept`: without an overlap, an addition that
  passed its check is the only one of its customer and still finds no twin. `ProfilesKept` and
  `CallsKept`: a form, a call and its answer hold one customer's profile whole.
* `DeskInv`, in `DeskProofs`. `LicenceKept`: outside `blind` a fee is paid exactly for a licence that is held, a purchase in
  flight is for one that is not, there is one at a time, and the page's `unlocked` is right unless
  an answer that will set it is under way. `PayrollKept`: whoever was wanted was paid or is on the
  list, counting a batch that is paid but not yet answered; at most one batch of a mounted
  module is in flight, and while it is, the list is its batch.
* `LoanInv`. `FormFilled` and `FormsOnce`, for a form outside `hurried`: it is filled as far as its step, a request
  of it is there exactly while its button is disabled, and its application only after it. `DecidedOnce`: a decision that passed its check is about a pending
  application unless another passed too. `TargetsKnown`: an account that a page, a toast or a
  request holds is of a customer in `met` or of its own application.

`ScreensInv` is about what is shown, for `QuietScreenIsCurrent` (as `ScreensAlways`; `DeskShowsWhatIs` is the
part about the pro features under their own specification). Its form is the same three times: what a page
shows is stored, or is in doubt, or something under way will read it again; and an answer that will be
believed says what is stored. Both halves need the other: a write makes every answer stale at once, so it must
either be its own page's, whose return will read again, or put the other screens in doubt.

* `RestInv`, the pages: `ShownKept` and `Faithful`. `Covers` lists what reads a resource again: its
  read, the `auth` of a document that loads, or a write that has come back and whose `Refetch` names it,
  for a page that is gone only if the resource is kept above the pages. An edit or removal still finds a
  row of its own customer (`Finds`), because an id is never given twice.
* `GlassInv`, the pro features, in `DeskProofs`: `WorthKept`, `FoundKept` with the timer of a search that has not been sent, and
  `PriceKept`, which bounds a price by the moment it was read, the time the service keeps it, and the
  refresh that is due. A call of a module that is gone stays out (`CallsAtHome`).
* `ListsInv`, the loan pages: the newest read of a list is believed, and every decision or application that is
  answered reads again (`Renews`).

Proving this found two places where the model let in what the code does not. A new payee could be given the id
of one removed while an edit of it was between look-up and update. And an answer was compared
with the user it was asked for instead of whoever the tab shows by then. Both are corrected.
The proofs also asked for assumptions the models did not state: `Blank` is no profile, there are
finitely many administrators and applications, the order of the funnel, and `"bank"`, which stands for the system's accounts, is no customer's. All are so in the code. They
found that two cases of `Change` overlapped for a posted withdrawal, which TLC had
resolved by order; they are now disjoint.

Induction over data is within reach where the property is put as a set of numbers: `Induct` of
`TrackerProofs` and `BankLedgerProofs`, and the least element it uses, are proved from the well-foundedness of the
natural numbers, without an operator as a parameter.

Only model-checked: the liveness properties, because fairness and ENABLED are out of reach of the prover:
`BrokerIsPickedUp`, `BronzeCatchesUp`, `DecodableIsDelivered`, `EveryRequestEnds`, `EveryRequestIsAnswered`,
`EveryRunIsAnswered`, `ScreensSettle`, `StreamComesBack`, `StuckBatchResolves`, `WarehouseSettles`. Every
safety and action property of a run is a theorem, some under the hypotheses named above.

## 7 What is assumed of the surroundings

Definitions marked external in "map" model code outside the repository from how it is used.

* Kafka: a commit is accepted only from the member that owns the partition; answers of one
  consumer come in order; no commit of one generation enters the next; a reassigned
  partition starts at the committed offset and unpaused.
* aiokafka: `stop()` flushes what is buffered; `asyncio.Lock` is fair.
* ClickHouse: one insert is stored whole or not at all; a `ReplacingMergeTree` keeps the
  largest version, of equal ones the last inserted; parts merge at any time or never.
* Postgres: READ COMMITTED, row locks held to the end of the transaction, a deadlock
  detector. A COMMIT whose reply is lost is not modelled: `AnswersMatchTheBook` is about the
  handlers, for which an error of the transaction means it did not commit.
* Extract: a record is written by one open transaction at a time (its row lock), and `MAX_PAGES` is not
  reached inside a batch stamped at a full second.
* Ledger: a licence of one kind per customer stands for both; how many units of an asset
  are held, and the `FAILED` and `PENDING` statuses of a posted record, which move money as
  `SUCCESS` does, are abstracted.
* Signal Store: a contract's detection method is fixed, so ids vary only with the window;
  the persona is entitled; bands exist because a sweep fits them first.
* Warehouse: statements of ClickHouse take effect whole or not at all, but for the batched
  insert of events; the rebuild's 120 days do not move on, so a day that leaves them is not
  there, and one day stands for those of the KPI rows, whose two counts share a date; the rows by dimension follow the daily ones; one session per user; the seed's batch
  lands in one step with the start of its transforms.
* OnlineBanking: a request that is lost and an answer that is lost look the same to the page; an
  expired cookie is not sent; the form of an addition stands for one account of the payee; accounts
  and history are counts of their changes; the tracking call a page makes between a write's answer
  and the next read is part of that answer.
* Tracker: the requests of a page carry one session id; the clock advances by ticks.
* Simulator: amounts are one value on each side of every comparison the code makes with them;
  the loan cap and its cooldown are draws in `SimulationRun` and kept in `Journey`.
* Agent: the metrics are governed and declare what a capability needs (a contract, a fundamental
  to plot); the claims of one kind about one metric go by one id, so a clash of two of them
  stands for that of their members; levers owned by others are counted under one id, as in the code.
* LiveStream and Chat: one event loop per page; the agent's server ends a stream only after an
  answer or an error frame, and its frames parse: one that does not is skipped without a word
  (api.ts:1087-1091), so that a question whose answer is such a frame ends with neither. What else the origin
  keeps in `localStorage`, and what other tabs write there, is a constant part of the quota. The address of the socket
  is well formed: a constructor that throws is caught (useRealtimeEvents.ts:138-140) and leaves the page without a
  socket or a retry.

## 8 What is not modelled

* **Statistics** (detection, localization, forecasting, causal estimates), the claims of a stored narrative,
  masking and the event taxonomy: pure functions over floating point or strings with tests of
  their own; models leave their outcome open.
* **Agent, in part**: the scoring of words, the wording, the choice of the window, confidence, the
  trace, and `answer_question`, the router that takes over when the loop raises.
* **Other front-end pages**: of NexaBank the admin pages but for loans and the registration
  steps before the last; of the loan pages, leaving them, the arithmetic of instalments and a toast
  that expires by itself; of the dashboard everything but the live stream and the chat.
  Each fetches, keeps what came back and renders it.
* **Migrations**: the runner applies files in order on start-up, alone. A crash between the
  statements of one file, before it is recorded, is handled by re-running it, which
  `0011_window_days.sql` does not survive between its DROP and its RENAME; the reason is the
  file's own statements, not an interplay worth a model.
* **RBAC, demo scripts**: a JSON file behind a cache, scripts run on a stopped system. Of
  `OnlineBanking`, passwords, the payee search, IFSC verification and feature toggles.
* **Within modelled components**: in the Signal Store, several KPIs and with them propagation
  and false-discovery control, `trust_findings`, `model_runs` and `outcomes`; in `Extract`,
  offset-paged customers, campaigns and reference data; in the warehouse, the cells by
  dimension and `argMax` over equal stamps; in the tracker, the forwarder's statistics and the
  suppression list; in the chat, the display of progress.

## 9 Plan

Done: `KafkaWorker` with `DeliveryContract`, `Ingestion`, `Extract`, `BankLedger`, `SignalStore`, and
then `Warehouse`, `Tracker`, `Journey` and `SimulationRun`, `LiveStream`, `Chat`, `Agent`, `OnlineBanking`, `ProDesk`, `LoanDesk`. What would come next:

1. Several KPIs in `SignalStore`: upstream first, propagation, exceptions that leave the rest
   of a sweep going, false-discovery control.
2. `Ingestion` composed with `KafkaWorker`: a 202 reaches bronze or the dead-letter table.
3. `Extract` composed with `Warehouse` through bronze: an abstract specification by which a
   reader sees the fold of some prefix of what the bank committed.
