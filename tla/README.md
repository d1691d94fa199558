# CodeZard gateway: TLA+ models, checks and proofs

CodeZard's gateway sits between a browser and a set of AI agents.  It keeps the
runs (questionnaire, plan, approval, generation), forwards requests to replicated
agent instances, relays their event streams, and charges for what they cost:
tokens bought on the Stellar network, or granted weekly for nothing or monthly by
a subscription that lives in a Soroban contract.

The modules here model that core.  TLC checks them on small instances, TLAPS
proves the main invariants for every value of the constants.  Paths below are
relative to the repository (`src/gateway/...`, `contracts/...`); `PROJECT.json`
maps every definition to its lines.

## 1. The system

The gateway is one asyncio process.  Nothing runs in parallel on its objects:
what interleaves is coroutines, at their `await`s and `yield`s.  Between two
suspension points a coroutine has the process to itself, and that is the grain of
every action here.

| Part | Keeps | Operations | Talks to |
|---|---|---|---|
| circuit breaker (`infrastructure/resilience/circuit_breaker.py`) | state, consecutive failures, opening time, probe slot, per target | `allow`, `on_success`, `on_failure`, `on_abort`, `_guarded` | the retrying client below it, the balancer above |
| load balancer, retries, HTTP client (`load_balancer.py`, `retry.py`, `httpx_client.py`) | turn of each service | rotation, failover, retry, send | agent instances over HTTP |
| run domain (`domain/runs.py`) | a `Run` value | the transitions of its state machine | – |
| orchestrator (`application/orchestration.py`) | nothing of its own across calls; copies of a run inside one | `start`, `answer`, `reject`, `approve`, `generate`, `read`, `open_console`, `open_download` | run store, run log, PM agent, implementing agents, billing |
| run store (`infrastructure/runs.py`) | runs by id, in memory, with a TTL and a limit | `get`, `put`, `_sweep` | – |
| run log (`infrastructure/run_log.py`) | chunks and an `Event` per run | `start`, `append`, `end`, `follow`, eviction | the generation that writes, browser tabs that follow |
| proxy, header policy, response adapters, request id (`application/proxy_service.py`, `header_policy.py`, `api/adapters.py`, `api/middleware.py`) | the one pool of connections of `bootstrap.py` | `forward`, `stream`, `for_upstream`, `for_client`, `_relay` | clients, the upstream chain |
| health service (`application/health_service.py`) | nothing | `check_all` | instances, over the bare transport and the same pool |
| payment gate (`api/payment_gate.py`) | nothing | `payer_of`: session, payment header, or refusal with a price | identity, x402, billing |
| stream scan (in `orchestration.py`) | the tail of an unfinished line, artifact, usage | `feed` | the agent's stream |
| billing service (`application/billing_service.py`, `domain/billing.py`) | nothing; all is in the store | `settle_period`, `authorize`, `charge`, `credit`, `checkout`, `confirm`, `reconcile`, `_deliver` | SQLite store, contract, Horizon |
| x402 service (`application/x402_service.py`) | nothing | `requirements`, `settle` (verify and submit), redeem | SQLite store, Horizon |
| SQLite store (`infrastructure/billing/sqlite_store.py`) | ledger, invoices, subscriptions | upserts; append with a UNIQUE reference | worker threads, one lock |
| subscriptions contract (`contracts/subscriptions/src/lib.rs`) | admin, plans, subscriptions | `initialise`, `set_admin`, `set_plan`, `subscribe`, `withdraw` | token contract, wallets |
| pricing (`domain/billing.py`) | configuration | `tokens_for`, `billable`, `Money.scaled` | – |
| identity (`application/identity_service.py`) | a secret; everything else is in sealed tokens | `challenge`, `verify`, `account_of` | wallets |

Outside the gateway, and environment in the models: the clients, who call what
they like when they like and may leave; the agents, who answer, fail, or never
answer until a timeout; the Stellar network, which takes payments or does not;
the contract's RPC, which may not answer.

### What is hard

* **Copies across awaits.**  The orchestrator reads a run, waits for an agent and
  puts its copy back.  Billing reads a balance, an invoice or a subscription in
  one worker-thread call and acts on it in the next.
* **Leaving and being cut off.**  A client that closes its connection ends a
  generator at its `yield`, or a coroutine at its `await`; a restart ends all of
  them.  Several operations take two writes.
* **Keys instead of transactions.**  Money is kept right by idempotency keys
  (`free:...`, `chain:...`, `invoice:...`, `x402:...`, `run:...`), which is right
  exactly if one thing has one key, and two things have two.
* **Limits.**  Logs are trimmed and evicted under their readers, the tail of a
  stream is capped, a circuit half opens for one probe.
* **Things that live elsewhere.**  A project is in the memory of the one agent
  instance that made it; a connection belongs to whoever will close it; a payment
  is on the ledger whether or not its answer was heard.
* **Money in integers.**  Rounding, twice, many times.

`PROJECT.json` lists these as hazards, each at its line.

### What makes each part correct

* breaker: one probe at a time, no leaked slot, the quarantine is served, a
  target that recovered is admitted again;
* upstream chain: what is not idempotent is sent at most once, "circuit open"
  means nothing was sent, repeats are bounded, every request ends;
* orchestrator: nothing is generated that was not approved, once per approval; an
  approved plan is frozen; answers are kept; the cap on questionnaires holds; a
  run is never left generating by nobody; what is paid for is delivered;
* run log: a follower gets every chunk once, in order, and is let go in the end;
  the limits hold;
* run store and delivery: a run is kept while it is due, and whoever asks for the
  run or its project is told the truth;
* proxy: every connection comes back, no header crosses that should not, a service
  cannot pass itself off as another, the health report is real;
* payment gate: a run is on an account that proved itself, a payment is credited
  though the run be refused;
* stream scan: chunk boundaries do not matter;
* billing: a period is granted once and not lost, tokens expire only if granted,
  overspending is neither forgiven nor invented, a payment is credited once;
* contract: money and time move together and only with the right signatures;
* pricing: rounding never favours the buyer beyond a token and half a micro a run;
* identity: an accepted token rests on its account's own recent signature.

## 2. Modules

| Module | Models | State | Actions |
|---|---|---|---|
| `Breaker` | the methods of one `CircuitBreaker`, as functions of its fields | – | – |
| `CircuitBreaker` | `_guarded` with several callers of one target | breaker, calls in flight | `Begin`, `Finish` (success, failure, cancellation), `Tick` |
| `Upstream` | balancer around breakers around retries around the wire | breaker per instance, turn, each request's coroutine | `Balance`, `Pinned`, `Step`, `Cancel`, `Tick` |
| `Run` | the `Run` value and its transitions | – | – |
| `Orchestrator` | the five operations on runs, the charge, the life of the log | store, coroutines, PM's answers, ledger, log | `Start`, `Answer`, `Reject`, `Approve`, `Generate`, `PMAnswers`, `AgentAnswers`, `Leave`, `ChargeCancelled`, `Forget` |
| `RunLife` | what a run's life promises its reader: an abstract specification, implemented by `Orchestrator` | a life per run | `Ask`, `Propose`, `Approve`, `Generate`, `Settle`, `Vanish`, `Outlive`, `Cross` |
| `RunLog` | the log at the grain of its yields and waits | log, followers, streams | `Start`, `AppendChunk`, `End`, `Follow`, `Reads`, `Leave` |
| `StreamScan` | `feed` over every cutting of a stream | bytes fed, tail, artifact, usage | `Chunk` |
| `RunStore` | `put`, `get`, `_sweep`, as functions of the ordered dict | – | – |
| `Delivery` | one run from the agent's stream to whoever comes for its project, in a store that others fill: `StreamScan`, `RunStore`, instances | store, generation, where the project is, what was told | `Converse`, `Generate`, `Opened`, `Passes`, `Finish`, `Break`, `Charge`, `Die`, `Read`, `ConsoleOff`, `Refuse`, `Open`, `Answer`, `Forget`, `Tick` |
| `HeaderPolicy` | which headers cross, both ways, and what that is for | – | – |
| `Proxy` | proxied requests, relays and health checks over one pool | requests, connections, checks, headers that crossed | `Arrive`, `Sent`, `PoolTimeout`, `Fails`, `Retried`, `Whole`, `Answered`, `Begun`, `Relayed`, `Dropped`, `Cancelled`, `CheckAll`, `CheckSent`, `CheckAnswered`, `CheckStarved`, `Turns` |
| `Ledger` | `balance_of`: what each kind of row does to the two pools | – | – |
| `Billing` | periods, grants, authorisation and charges | clock, rows, pools, keys, contract, coroutines, runs | `Settle`, `Deliver`, `Step`, `Die`, `Charge`, `BuyPack`, `Subscribe`, `Tick` |
| `Invoices` | checkout, confirm, reconcile, x402 | statuses, payments on the ledger, keys, coroutines | `Checkout`, `Challenge`, `Lapse`, `Pay`, `Confirm`, `Sweep`, `Redeem`, `Step`, `NotYet`, `SubmitFails`, `Die` |
| `Subscriptions` | the contract | its storage, wallets, takings, clock | `Initialise`, `SetAdmin`, `SetPlan`, `Subscribe`, `Withdraw`, `Tick` |
| `Periods` | what the gateway relies on of the contract: an abstract specification, implemented by `Subscriptions` | clock, a period per account | `Pay`, `Close` |
| `Pricing` | the arithmetic of a sale and of a run | totals | `Sell`, `Run` |
| `Identity` | challenge, signature, session | clock, secret, tokens and signatures ever made | `IssueChallenge`, `Sign`, `Verify`, `Rotate`, `Tick` |
| `Gate` | `payer_of` over `Identity` and the x402 service, and the run it starts | quotes, payments, credits, coroutines, runs | `SignIn`, `Quote`, `Lapse`, `Poll`, `Session`, `Redeem`, `Submit`, `SubmitFails`, `Reread`, `Mark`, `Credit`, `Refuse`, `Start`, `Die`, `Restart` |

`Upstream` and `CircuitBreaker` share `Breaker`; `Orchestrator` extends `Run`;
`Billing` extends `Ledger`, and `MCBilling` adds the symmetry of its handlers for
TLC.  `Delivery` extends `StreamScan` and `RunStore`, `Proxy` extends `HeaderPolicy`,
`Gate` extends `Identity`: the modules extended have no run of their own and are
checked through those.  `Orchestrator` instantiates `RunLife` and `Subscriptions` instantiates
`Periods`, each with the refinement mapping beside its properties.  Each `...Proofs` module
extends what it is about: `DeliveryProofs` the two modules a client that comes back meets,
`Delivery` and `RunLog`; `InvoicesProofs` also `Pricing`; `ProxyProofs` also `CircuitBreaker`.
So that two models can be extended together, the second one's specification carries a name of
its own: `BreakerSpec`, `PricingSpec`, `LogSpec`, `DeliverySpec`.

Three conventions run through them.  A coroutine is a record per handler: where it
is suspended (`at`, `phase`), and the copies it holds.  Variables commented
*history* record what happened for the properties and never decide what the code
does (`lost` of `Billing` also serves as the bound on requests that are cut off).
Failures are never switched off: clients leave, requests are cut off and reads
fail in every run, and a property that the code keeps only under a condition says
so itself, by a history mark such as `crossed` (two requests on one thing at
once), `cut`, `abandoned`, `strays` or `disturbed`.

### How the state corresponds to the code

* **Time.**  The breaker keeps how long it has been open, up to the timeout, in
  place of `_opened_at`.  `Billing` and `Subscriptions` count ledger seconds; the
  gateway's microseconds never collide between two accounts, which the key says
  by carrying the account.  In `Invoices` only "has `expires_at` passed" matters.
* **Plans and questionnaires** of `Orchestrator` are numbered by the PM answer
  they came in.  The log there is reduced to never started, open or ended:
  `RunLog` has the rest.
* **The ledger** in `Billing` is what its rows replay to plus the references in
  the UNIQUE index.  `REFUND` and `ADJUSTMENT` rows have no writer in the code.
* **The store** does one statement under one lock per call: each call is atomic,
  two of them are not.
* **The contract's RPC** is read by a blocking call inside a coroutine, so it
  interleaves with nothing.
* **Payments.**  `payment_for` sees the newest payment with the invoice's memo.
  A submission that times out may have been taken by the ledger.
* **A byte** of `StreamScan` is its line and its place in it; what feed tells
  apart about a line is a kind.  A line whose beginning was cut off does not by
  accident begin with `data: `.
* **The abstract lives.**  A run is for `RunLife` what the store shows of it, plus
  the number of questionnaires it was served; a run two of whose requests crossed
  is `wild` and promised nothing.  A period is for `Periods` the contract's record.
* **The store's dict** in `RunStore` is a sequence, oldest put first.  Deleting entries
  leaves the others in their order: `only` says which entry is the i-th of those that
  stay, in a form that can be reasoned about (`OnlyPlaces`).  `Delivery`
  keeps ages in place of `updated_at`, capped just above the TTL.  The conversation
  before the approval is reduced there to its puts; `Orchestrator` has the rest,
  and lets a run vanish from the store at any time.
* **Connections** are a number: who holds one follows from where each request is.
  Which errors are retried is `Upstream`'s; `Proxy` gives a request a budget.
* **Headers** are a lower-case name with its values.  The policy's sets of names are
  the code's; the messages tried have of each set the members some rule tells apart, and
  are all those of at most two headers that bear on each other (a connection header and
  what it names, the host and a claimed one, repeated headers): the rules look at
  headers one by one otherwise.  The position of a header among those of other names,
  once the gateway has set it, is not modelled.
* **A subscription** submitted through the gateway (`submit_subscription`) is
  `Billing`'s `Subscribe` followed by `Settle`; the submission blocks, so nothing
  comes between, and when its answer is lost only the first happens.
* **The gate's payment** is an envelope: whose key signed it, for which quote.  Its
  transaction's hash is the envelope itself, so a header sent twice is one
  transaction.  Whether an account can pay is a choice: `Billing` has `authorize`.
* **HMAC and ed25519** work: a token is a record that only the service seals, a
  signature is a record that only its account makes.

## 3. Runs

State counts are distinct states.  `CHECK_DEADLOCK FALSE` is set wherever the
system may simply have nothing left to do: the bounds on clocks, runs or payments
are used up and every request has ended.  Only the circuit breaker, whose clock
and callers never stop, is checked for deadlock.

There is one run per module, with everything that module claims, and one for a
comment the code does not live up to.

| Run | States | Shows |
|---|---|---|
| `CircuitBreaker` | 846 | four callers, with cancellation: `SlotHasHolder`, `SingleProbe` (until a stray cancellation), `QuarantineServed`, and `AdmitsAgain` (a target that answers is admitted again) |
| `Upstream` | 450 k | `PostAtMostOnce`, `RepeatsBounded`, `OpenMeansUntouched`, `EveryRequestEnds` |
| `Orchestrator` | 430 k | two requests on one run, clients leave, agents refuse: `Gated` (no generation without an approval of its plan, one per approval) and `ReadersLetGo` always; `LivesAsPromised`, the refinement of `RunLife` (round cap, frozen plan, answers kept), and `PaidMeansDelivered` for runs whose requests did not cross; the last, `GeneratingIsTended` and `GenerationSettles` for generations nobody abandoned |
| `Delivery` | 474 k | one run generated over two instances while others fill a store of two: `KeptWhileDue` (only an hour of silence or a full store of later runs costs a run its place), `ReadsAlong` (the scan finds what reading the whole stream would, if the lines that matter fit the tail), `AnswersAreTrue` (not found, no project, gone, failed and the project itself) |
| `Proxy` | 1.06 M | two requests and a health check over two connections: `ConnectionsOwned`, `CrossesClean`, `HealthIsReal` |
| `Billing` | 1.98 M | two requests, cut off anywhere, with plans sold by invoice and by contract: `OverspendNotForgiven`, `AWeekAtATime` (one grant a week, none rolls over), `PeriodGranted`, `SubscriberGranted` |
| `Invoices` | 107 k | an invoice of each kind, up to two payments, two requests: `CreditedAsPaid`, `PaidMeansCredited`, `PaidIsFinal`, and `PaymentIsCredited`, whose premise is that somebody keeps asking about the invoice |
| `Gate` | 4.53 M | two requests with any token ever sealed or any signed payment, lost answers, a lapse, polls, a rotation: `PayerProved`, `SettledIsCredited` |
| `RunLog` | 693 k | `InOrder` and `KeepsNewest` (the newest chunks, within both limits) across trims, evictions and restarts; `CaughtUp` for a follower whose list did not change under it; `FollowersLetGo` |
| `Subscriptions` | 263 k | `AsPaid` (money and time move together), `PaidTimeKept`, `Signed`, and `AsRelied`, the refinement of `Periods` |
| `Pricing` | 83 k | `NeverOversold`, `CostsCovered` |
| `OrchestratorLeftGenerating` | violation | `GeneratingMeansInFlight`: a refusing agent, or a client that leaves at the yield, leaves the run in BACKEND_GENERATION |

No run carries a type invariant: the type invariants of `CircuitBreaker`, `Upstream`,
`Orchestrator`, `Billing`, `Invoices`, `Gate`, `Subscriptions`, `Proxy` and `RunLog` are
proved (section 4), as conjuncts of the inductive invariants at least, `Pricing`'s up to its
bounds and of `Delivery`'s what concerns the store.  The rest of `Delivery`'s and
`StreamScan`'s document the variables' types: check those by hand after changing a module's
state.

### Where the code needs the condition

Every condition in a property stands for a behaviour the code does have.  Dropping
it makes TLC show the trace; what the traces show:

* **breaker:** a call admitted while the circuit was closed and cancelled while it
  is half-open frees the probe slot another caller holds, and a second probe goes
  out (`strays`, `circuit_breaker.py:81`; line 30 says "a single probe request").
  A verdict that comes late, from before the circuit opened, closes or reopens it
  in place of the probe; no property denies it.
* **orchestrator, requests that cross:** a planning turn puts its stale copy over
  an approved run (`runs.py:104` "No way back"); of two answers at once the first
  is dropped (`runs.py:208` "MERGED"); two turns from one count serve a
  questionnaire too many.
* **orchestrator, abandoned:** a client that leaves during the charge has been
  debited and the stored run has no artifact.
* **billing, requests that cross:** two first reads begin, and grant, a week each;
  an expiry computed before a charge takes tokens that are gone.
* **billing, cut off:** the period's row is written and its grant never
  (`billing_service.py:464`; `lost`).
* **billing, keys:** two accounts whose on-chain periods begin in one second share
  the key of their grants (`subscriptions.py:73`), so the second gets nothing; a
  period renewed early keeps `started` and so has no key of its own; switching
  plans moves `started` although nothing lapsed (`lib.rs:195`).
* **billing, not claimed:** a contract that cannot be read lets a renewed
  subscription's stored row be ended (`billing_service.py:479`); a pack bought in
  debt frees granted tokens that then expire; several runs authorised at once
  overshoot one balance (`domain/billing.py:481` says a single one).
* **invoices, cut off:** marked paid, never credited (`billing_service.py:256`).
* **invoices, requests that cross:** one payment credited by confirm as
  `invoice:<id>` and by settle as `x402:<hash>`; EXPIRED written over PAID on the
  strength of an older answer.
* **invoices, quotes:** an x402 quote that confirm finds paid is refused by the
  catalog, and nothing is credited (`x402_service.py:93` says otherwise), which is
  why the delivery properties are about packs and plans.
* **invoices, late:** a payment after `expires_at` is credited only if somebody asks
  about its invoice again: reconcile walks the pending invoices and this one is
  EXPIRED, although `billing_service.py:247` says "still matched by `reconcile`".
  With fairness of `Sweep` in place of the premise of `PaymentIsCredited` TLC shows
  it: the invoice lapses, a poll writes it down as expired, the payment lands.  In time
  or not, nothing in the gateway runs reconcile: that "a payer who closes the tab ...
  must still end up with their tokens" (line 263) is up to whoever deploys it.
* **gate:** a quote that lapses, is polled as an invoice or is paid by somebody else
  between the submission and the second reading leaves the payment uncredited, and
  the run starts (`x402_service.py:168`); so does a request that is cut off there.
  `x402_service.py:93` says a 402 paid and abandoned is credited by reconcile; the
  catalog has no such product, and it is not.  The gate settles before the work,
  where `x402_service.py:11` says "Verify, then work, then settle": what a failed
  run leaves is credit.  `redeem` falls back on the quote's account where the
  network names no payer (line 212), and `settle` on the verified payer first (line
  170): `PayerProved` rests on the network's answer naming the source account.
* **delivery, another instance:** a download or a command goes to whichever instance
  is next, and the client is told the agent no longer has the project
  (`exceptions.py:92`) although the one that made it does; `api/contracts/mirag.py:187`
  tells clients of the plain proxy to pin it.
* **delivery, early:** a client that acts on the `done` event may be told there is no
  project until the charge has returned (`orchestration.py:257`).
* **delivery, late:** a generation longer than the TTL without a put is swept while it
  runs; readers get 404 until its end puts it back.
* **proxy:** a response whose client is gone before its body has begun keeps its
  connection: the relay's `finally` is in a generator that never started (`lost`,
  `adapters.py:47`; line 43 speaks of a background task the response does not have).
* **health:** checks share the pool with the streams.  With the pool full a check
  times out and an instance that is up is reported down (`calm`).
* **headers, buffering:** `x-accel-buffering: no` is set before the service's headers are
  appended (`adapters.py:49`): a service that sends the header itself is not overruled,
  and the client gets both.
* **headers, configuration:** a service header configured under a forwarding or
  hop-by-hop name would be sent beside the gateway's own; settings do not exclude it
  and the model's service header is a credential.
* **contract:** of three payments in one ledger second for plan A, plan B and plan A
  again the first and the last begin periods with one name, so `Periods` numbers the
  payments apart and `SubscriberGranted` speaks of the period a row shows.
* **run log:** chunks appended while a follower is at its yield, or after the list
  was trimmed under its cursor, are skipped (`disturbed`); a second generation of
  a run replaces the Event a follower waits on without setting it (`doubled`);
  eviction takes the log started first, not the one idle longest
  (`run_log.py:34`).
* **stream scan:** a `done` event longer than the tail that a chunk boundary cuts
  is not read.

### Bounds, and why they are enough

* **Callers, handlers, followers.**  Two suffice for a stale copy to overwrite
  what another wrote; the breaker has four because a probe, a stale success, a
  stale failure and a cancelled call can all be out at once.
* **`FailureThreshold = 2`** is the smallest at which one failure does not trip;
  **`RecoveryTimeout`** of 1 or 2 the smallest at which an attempt can come too
  early.  **Two instances, two attempts**: failover and retry both happen and
  multiply.
* **`MAX_ROUNDS = 2`**, `MaxAnswers = 4`: the cap is reached and passed, a plan
  can be rejected after it.  One run: runs share nothing but the PM's numbering.
* **Billing:** week and month of two ticks over two ticks of clock, so that a
  period of each kind ends and the next begins, on chain and off; two purchases;
  one request cut off.  Grants of 2 and 3, a run of 3 and a reserve of 1: a run can
  use up or overshoot a balance, and the overshoot exceed a pack.  One account:
  accounts meet only in the keys of on-chain periods, which `SubscriberGranted`
  excepts.
* **Invoices:** one invoice, of each kind in turn (no step and no property relates
  two of them), with up to two payments, each enough or too little.
* **Run log:** three bytes and chunks of one or two: a chunk can push out one or
  two others; one kept run of two, so every start evicts.
* **Stream scan:** a tail of two bytes, lines below, at and above it, chunks up to
  a whole line and its newline.
* **Contract:** two addresses, two plans, prices and periods including the zero
  that must be refused, two purchases, time to lapse in between.
* **Pricing:** rates and margins around the divisor, so that every remainder
  occurs; the theorems remove these bounds.
* **Gate:** a challenge lives one tick and so does a session.  The clock starts at 2, where
  an `issued_at` of zero is long past, and goes on to 4: a challenge issued at 2 is
  answered in its last second or too late, a session of either second runs out, and both
  are presented until then and afterwards (with either lifetime checked one tick too
  generously `PayerProved` is violated).  Two accounts, so that one can present
  what is the other's; one challenge, two secrets, one quote and two handlers: one
  handler redeems while the other, or a poll, closes the quote.
* **Delivery:** a store of two and three runs, so that a put evicts and the order of
  puts decides whom; a TTL of one tick; two instances, one without the project; the
  stream's bounds as above, two lines.
* **Proxy:** two connections, two requests and two checks, so that requests starve
  checks, checks starve requests and a leaked connection is missed; one repeat.

Symmetry is used where the members of a set are interchangeable and the run has no
liveness property: handlers of `Billing`; handlers, quotes and accounts of `Gate`;
the other runs and the instances of `Delivery`; requests and instances of `Proxy`.

### Fairness

* `CircuitBreaker`: time passes and every admitted call returns (the client has
  timeouts).  Nobody is obliged to call.
* `Upstream`: a request that can go on does: the wire has a timeout, the backoff
  ends.
* `Orchestrator`: the PM and the agents answer or time out; a stream that has
  produced something ends eventually (strong fairness of ending it, since every
  further chunk passes through a state where it could).
* `Invoices`: a coroutine that is ready goes on; Horizon, asked over and
  over about an invoice, answers in the end.  Nobody is obliged to ask: nothing in the
  gateway schedules confirm or reconcile.  `PaymentIsCredited` is about invoices that are
  asked about over and over, which it says itself, as its premise.
* `RunLog`: a follower that can run runs, a stream ends.

The other modules check safety only and assume no fairness.

## 4. Proofs

Eight modules hold theorems, checked by TLAPS for every value of the constants
that satisfies the named assumptions of each module (thresholds, periods, grants,
limits and prices in range, kinds of invoices disjoint, the configured instances of a
service finitely many and at least one).  None bounds the number of callers, requests,
runs, generations, followers, accounts, addresses, plans, quotes or invoices.

| Module | Theorem | States |
|---|---|---|
| `UpstreamProofs` | `Safety` | `TypeOK`, `PostAtMostOnce` |
| | `Untouched` | `OpenMeansUntouched` |
| | `Bounded` | `RepeatsBounded` |
| `OrchestratorProofs` | `Safety` | `TypeOK`, `Gated` (`GateHolds`, `OneGenerationPerPlan`) |
| | `ReadersReleased` | `ReadersLetGo` |
| | `GenerationTracked` | `GeneratingIsTended` |
| | `DebitedIsDelivered` | `PaidMeansDelivered` |
| | `Implements` | `LivesAsPromised`: the orchestrator implements `RunLife` |
| `BillingProofs` | `Funds` | `TypeOK`, `OverspendNotForgiven` |
| | `Granted` | `PeriodGranted` |
| | `SubscribersGranted` | `SubscriberGranted` |
| | `Weekly` | `AWeekAtATime` (`OneGrantPerWeek`, `NoRollOver`) |
| `InvoicesProofs` | `Counted` | `TypeOK`, `CreditedAsPaid` |
| | `PaidDelivered` | `PaidMeansCredited` |
| | `PaidStays` | `PaidIsFinal`, an action property |
| | `Sold`, `Covered` | `NeverOversold`, `CostsCovered` of `Pricing` |
| `GateProofs` | `Payers` | `GateTypeOK`, `PayerProved` |
| | `Credited` | `SettledIsCredited` |
| `SubscriptionsProofs` | `Paid` | `TypeOK`, `AsPaid` (`PaidAsBought`, `TimeAsPaid`) |
| | `Refines` | `AsRelied`: the contract implements `Periods` |
| | `TimeKept`, `Authorised` | `PaidTimeKept`, `Signed`, action properties |
| `ProxyProofs` | `ProxyInvariant` | `ProxyInv`, with `TypeOK` |
| | `Owned` | `ConnectionsOwned` |
| | `Healthy` | `HealthIsReal` |
| | `KeepsPin` | `PinKept`, the part of `CrossesClean` that is about retries |
| | `BreakerTypeCorrect` | `BreakerTypeOK` of `CircuitBreaker` |
| | `BreakerSafety` | `SlotHasHolder`, `EpisodeStartsClean` |
| | `Quarantine` | `QuarantineServed`, an action property |
| | `ProbesSingly` | `SingleProbe` |
| `DeliveryProofs` | `OrderInvariant`, `GivenInOrder` | `LogTypeOK`, `InOrder` of `RunLog` |
| | `KeepsTheNewest` | `KeepsNewest` |
| | `CatchesUp` | `CaughtUp`, an action property |
| | `DeliveryInvariant`, `Keeps` | `KeptWhileDue` |
| | `Answers` | `AnswersAreTrue`, an action property |

The inductive invariants and why they are needed:

* **Breaker.**  `SafetyInv` adds to the slot's holder that an episode starts clean:
  without it a circuit could half open with a slot taken by nobody.
  `SingleProbeInv` adds that a probe in flight keeps the slot taken, which is the
  very thing a cancelled outsider breaks.
* **Upstream.**  A request that is not idempotent has not been received as long as
  it may still be sent (`NotYetReceived`), and an attempt is numbered below the
  limit whenever another can follow (`AttemptInv`).  `Budget` is what a request may
  have cost so far: `max_attempts` for each instance it has left behind and the
  attempts on the one in turn.  It never goes back to an instance, so the budget of
  all of them bounds the repeats.
* **Orchestrator.**  `GateHolds` is about the stored run, but a step puts a copy
  back.  `OrchestratorInv` therefore says of every copy what `PlanInv` says of the
  store: where its plan stands between the PM's numbering, the approved and the
  generated plans.  That a copy in planning never carries an approved, ungenerated
  plan is why the gate holds although stale copies are put back.
* **A run's life.**  `LifeInv` is about the runs whose requests did not cross.  Such a
  run has one handler at most, and `BesideStored` relates that handler's copy to the
  stored run, place by place: what it will put back differs from what a reader sees
  only by what the request itself did.  With it each action is mapped: a `put` is the
  step of `RunLife` between the two stages, the store dropping a run is its `Vanish`, a
  second request its `Cross`, everything else a stutter.  `DebitedInv` adds that a run in the ledger
  is delivered and that a delivered run has no legal transition left.
* **Billing.**  `Books` strengthens `OverspendNotForgiven` from the balance shown,
  which is clamped, to the worth of the two pools, which may be negative;
  `InHand` says which row a suspended coroutine holds.  Every ledger row keeps
  `Books` whatever was stale when it was computed: a credit is counted, a debit is
  counted, an expiry only takes.  `MirrorInv` carries `SubscriberGranted` over to the
  paid rows a request holds, which it may store again as ended.  `WeekInv` is about
  an account whose requests are served one at a time: the request that settles it
  holds the stored row (`WeeksFollow`), and between the expiry of a week and the next
  grant the account is worth nothing, debts included (`WeekSpent`).
* **Invoices.**  `CallInv` says what payment a suspended request has in hand: from
  `verify` or `settles` on it pays the invoice, from the network's answer on it was
  taken; so every reference in the ledger has a payment behind it (`KeysInv`), and the
  credits of an invoice are at most one of its own and one per payment.  `LoneInv`
  is about an invoice no two requests were at: what its request read of the status is
  still so.  That is why `expired()` is not written over `paid` and why the two kinds
  of reference exclude each other there.  `PaidInv` and `StartedInv` say that whoever
  wrote `paid` has the credit before it, and then the subscription.
* **Gate.**  `SessionsInv` traces a session's end back to a signature over a
  challenge of the same secret, `CallInv` says that a request on its way to the
  credit holds a payment the network took, and `ClosedInv` what closed a quote: a
  poll or a payment that was credited, is about to be, or was cut off.  With
  `StatusInv` this is why a second request that finds the quote closed may leave its
  own payment uncredited only in the cases `SettledIsCredited` names.
* **Contract.**  `PaidInv` adds `Sold`: every plan on record passed `set_plan`'s
  check.  With a price that is not positive a transfer could run backwards, and with
  a length that is not positive a payment would be no step of `Periods`: `Refines`
  uses the same invariant, maps `Subscribe` to `Pay` (extending or beginning by
  whether the old period still runs), `Tick` to `Close`, and everything else to a
  stutter.
* **Proxy.**  `ConnectionsOwned` counts, so `ProxyInv` has the account it is drawn from
  (`Balanced`): the requests and checks that hold a connection are finitely many, and with
  the dropped responses they are as many as are out of the pool.  A step moves one request
  or one check, and `RequestMoves` and `CheckMoves` say what that does to the account,
  once for all the actions.  `Pinned` says that a request under way goes to the instance it
  names, which is what a repeat could break before `PinKept` shows it.  `Real` says of each
  single answer of a check what `HealthIsReal` says of the report.
* **Run log.**  `InOrder` is about what a follower was given; `OrderInv` says why the next
  chunk cannot break it: what it was given is older than the rest of its slice, than what
  the list has after its cursor when it looks again, and, once its list was replaced under
  it (`frozen`), than everything in the new one.  A trim only shortens the list from the
  front (`TrimSuffix`), so a stale cursor skips and never repeats.  `NewestInv` adds the
  budget and that the list is the unbroken end of one generation's chunks while only one
  generation streams; `HadInv` is the other half of the order: of a list that only grew,
  and not while it was being read out, a follower has had all up to its cursor, or all with
  the rest of its slice.
* **Delivery.**  `KeptWhileDue` is about one run and the number of others put after it.
  `StoreInv` makes the store carry that number: its entries stand in the order of their
  last puts, with their ages, and every entry behind a run is among those put after it.
  So what eviction takes from the front has at least as many later runs as there are places
  (`LaterRuns`, `Evicts`).  That a deletion keeps the order (`OnlyPlaces`) is a count of
  ranks: the numbers up to a place are one more than those up to the one before it, and the
  rank that is missing first would be the next one's (`Least`, by well-foundedness).
  `ReadyInv` and `VisitInv` tie the stored state, and the place of the project, to the
  generation: a run shows as ready if and only if it was delivered, and nobody asks an
  agent for a project before.  Every answer is then read off what `get` finds (`Looks`).
* **Pricing.**  The invariants are inductive with their types; the work is the
  division lemmas (`Division`, `TokensFor`, `Scaled`), the products being hidden
  behind lemmas because they are not linear.

`LifeInv`, `InvoicesInv`, `GateInv`, `ProxyInv`, the invariants of the log and
`StoreInv` were checked by TLC on the instances of their runs before they were proved.

**Only model-checked:** all liveness (`AdmitsAgain`, `EveryRequestEnds`,
`GenerationSettles`, `FollowersLetGo`, `PaymentIsCredited`), which is out of the
prover's reach.  `ReadsAlong`, which compares a fold over the chunks with a fold over the
whole stream, and the header part of `CrossesClean`, which is about what selecting from and
flattening a list of headers yields: both say what a recursive definition computes for every
input and would need induction over sequences.  `GeneratingMeansInFlight` is no theorem:
the code breaks it.

## 5. Not modelled

* Request schemas, bodies of answers, the OpenAPI document, settings, the smoke
  script: parsing, formatting, configuration.
* `aclose` of the agent's stream is taken to return.
* Exchange rates and quotes; Horizon's page limit, and its requests in the pool; a
  plan withdrawn from the catalog or unknown on chain; archival of the contract's
  storage; backoff times; latencies in the health report.
* Building and submitting a subscription's transaction, beyond what the contract
  does with it.

## 6. Plan

Done, in this order: breaker and upstream chain, runs and orchestrator, ledger and
periods, invoices, run log, contract, pricing, identity, stream scan; then the run
store and delivery, the proxy with its pool, headers and health, the payment gate,
and the abstract specifications of a run's life and of a paid period.

Proved, in the same order; the safety properties the runs check are theorems now, but for
`ReadsAlong` and the header part of `CrossesClean` (section 4).

Next, by importance:

1. A broadcast log (every reader a growing prefix), implemented by `RunLog` with
   prompt readers.
2. `Billing` over the contract of `Subscriptions` in place of its two-field
   abstraction, which `Periods` now justifies step by step.
3. `HeaderPolicy` over sets of headers in place of lists, so that what crosses can be
   proved as well as checked; repeated headers make the lists.
