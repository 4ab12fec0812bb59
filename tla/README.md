# Verification of solana-resilience-kit

The kit (`src/`) is a TypeScript layer over `@solana/kit`: it sends a signed
transaction, rebroadcasts it, decides whether it was confirmed, failed or
expired, optionally sends it through the Jito block engine first, and routes
RPC calls over several endpoints. This directory models its stateful parts in
TLA+, checks them with TLC on small instances and proves every safety property
those checks establish, and facts about the fee levels and the event emitter, with
TLAPS for instances of any size. The demo's lab, which drives the kit and a naive baseline
side by side, is modelled as well.

## The parts of the system

| Part (source) | State it keeps | Operations | Interacts with |
|---|---|---|---|
| `ConfirmationTracker` (`src/src/tx/confirmation.ts`) | per call: poll loop position, abort signal, two promises | `track` | status and height calls on one or several RPC clients; optional `signatureNotifications` stream; injected `sleep` |
| `TransactionSender` (`tx/sender.ts`) | per call: rebroadcast count | `sendAndConfirm` | one RPC client, its own tracker (whose `sleep` it hooks), detector, events |
| `JitoRouter` (`jito/router.ts`) | per call: poll counter, bundle id | `sendWithFallback` | block engine, a `TransactionSender` |
| `ResilientRpcPool` (`rpc/pool.ts`) | last health told per endpoint | `transport`, `health` | endpoints, `HealthMonitor`, `CreditRateLimiter`, events, metrics |
| `HealthMonitor` (`rpc/health.ts`) | per endpoint: slot, failures in a row, latency, error rate | `recordSuccess`, `recordFailure`, `isHealthy`, `rankByFreshness`, `snapshot` | shared by pool, tracker (fan-out) and diagnostics |
| `CreditRateLimiter` (`rpc/rate-limit.ts`) | credits, start of the window | `tryAcquire`, `available` | asked by the pool before each attempt |
| `ClusterDetector` (`rpc/cluster.ts`) | promise per RPC client | `detectFromRpc` | sender's guard |
| `TypedEventEmitter` (`events.ts`) | listener sets | `on`, `once`, `off`, `emit`, `removeAllListeners` | sender and pool emit, UI listens |
| `WalletAdapterBridge` (`wallet/`) | none of its own | `signAndSend`, `signAndSendAll` | wallet, sender |
| `useResilientSender` (`react/`) | React status of the last send | `signAndSend`, effect | emitter, bridge |
| `Diagnostics` and CLI (`cli/`) | none | `probeEndpoints`, `explainTransaction` | monitor, RPC |
| fee and tip estimators (`fees/`, `jito/tips.ts`) | none | percentile levels | oracles |
| `ErrorTranslator` (`error-translator.ts`) | none | `translate` | CLI, bridge |
| metrics (`observability/metrics.ts`) | records the program does not read | | pool, sender; the lab shows them |
| test harness (`src/test/harness`) | simulated cluster, endpoints, engine, faults | | everything above, in tests; the lab |
| the lab (`demo/src/lab.ts`, `App.tsx`) | controls, pipeline steps, scoreboard, balance | `send`, the controls, `setWallet`, `refreshBalance` | kit, harness, devnet, wallet |

What is hard about each, and what makes it correct:

* **Tracker.** The status and the height are two calls, possibly answered by two
  nodes at different heights; a notification may arrive at any point of a round
  in flight; two promises race and each may abstain. Correct means: a verdict is
  true of the chain, "expired" is only said when nothing can happen any more,
  and the call always settles.
* **Sender.** Broadcasts are lost, refused or taken with their reply lost; copies
  stay in flight. The events must tell the truth, once, and the guard must come
  before the first broadcast.
* **Router.** The bundle may land before, during or after the fallback.
* **Pool.** Concurrent requests share a monitor and a bucket; answers are late.
  A request must not give up before it tried what it may, ejected endpoints must
  be able to return, requests must end.
* **Limiter.** Its windows float, the provider's do not have to coincide.
* **Detector and hook.** Several sends share one lookup, which may fail under all
  of them, and one displayed status, which their events overwrite in any order.
  A send must not hang on the lookup, and the hook must end at an outcome.
* **Diagnosis.** Status and height are again two calls, of other nodes and at
  another time than those of a program that still follows the transaction, and a
  status is judged by another rule than the tracker's. The two verdicts can differ;
  why they do must be bounded, and "confirmed" must never meet "failed".
* **Batches.** One failing transaction of a batch discards the results of those
  that landed; nothing may leave behind a transaction that did not settle.
* **Emitter.** Listeners come and go during a dispatch, and an event emitted from a
  listener dispatches over a newer set while the outer snapshot is still at work.
* **Tool.** Probes answer in any order, a URL may be given twice, one of several
  calls fails: the freshest endpoint must be one that answered, and the exit code
  must tell what happened.
* **Lab.** A send can end at every await, by a return, a bound or a throw, while the
  user works the controls and the wallet changes under a balance check. What it
  shows (steps, scoreboard, balance, outcome) must be true.

`PROJECT.json` lists every hazard at its line with the properties that cover it.

## The modules

| Module | Models | How state and actions correspond to the code |
|---|---|---|
| `Ledger` | the Solana cluster (external) | `height` confirmed blocks; `tip`: the transaction in the one processed block; `landedAt`, `landedErr`; `inflight`: a leader holds a copy; `view[n]`: how far node n is. `NodeStatuses(n)` is what `getSignatureStatuses` may answer, including a processed block only some nodes have seen |
| `SettledOutcome` | the promise a caller relies on (abstract specification) | `executed`, `dead`, `outcome` |
| `ConfirmationTracker` | `track`, `pollLoop`, `wsWait`, `statusClients`, `checkStatus`, `classifyStatus` | `pc` is the await the loop stands at; `reply[c]` the settled calls of `Promise.allSettled`; `pollRes`/`wsRes` what the promises settle with, `race` which settled first; `horizon` is a history variable (the highest block an answer of the round knew) |
| `TransactionSender` | `sendAndConfirm`, `guardCluster` | extends the tracker; `Rebroadcast` is the `sleep` hook, so it is the tracker's `Sleep` together with a broadcast that may be lost; `events` is what was emitted |
| `JitoRouter` | `sendWithFallback` | extends the sender, whose steps run while `jPc = "fallback"`; `bundle` is the engine's copy, which lands through the same ledger |
| `HealthMonitor` | the monitor | `health[e]` has the slot (0 for null) and the failures; `MayPrecede(e, f)` says when `rankByFreshness` may put `e` before `f` (latency breaks ties, so ties are free) |
| `CreditRateLimiter` | the bucket | `credits`, `elapsed` since `windowStart`; the lazy refill is part of `Acquire` and `Refill` |
| `CreditBudget` | limiter and provider | adds `spent[i]`, what was spent now and in the `i` ticks before; `spent[Window - 1]` is what the provider counts |
| `ResilientRpcPool` | `transport`, `attemptOrder`, `probe`, `noteHealth` | per request: `rPc`, `wire` (calls under way, with the slot at which the endpoint answered), `rest` and `tried`; `told` is `lastHealthy`. `AttemptOrders` are the lists `attemptOrder` may return: every endpoint once, the healthy before the others |
| `Diagnostics` | `explainTransaction` | extends the tracker, beside which it runs; `dPc` is the await it stands at, `onChain` its local `status` being there, `verdict` what it returned; `known` is a history variable (the view of the node that gave the status) |
| `ClusterDetector` | `detectFromRpc` over one RPC client | a promise is named after the caller that began it: `cache`, `awaits[c]`; `lookups` are the pending `getGenesisHash` calls |
| `WalletAdapterBridge` | the bridge's `signAndSend`, the composition of the write path | extends the router; `bPc` is the await of `signAndSend`, `jito` says whether the bridge has a router. Without one it is `ResilientWalletAdapter.signAndSend` as well |
| `UseResilientSender` | the hook and the bridge's `signAndSend` over several senders, beside one `signAndSendAll` | extends the detector; `phase[c]` is the await a send stands at, `status` and `error` the hook's, `batch` where `signAndSendAll` stands; `shared` says whether the senders emit into the hook's emitter. A sender is what the hook sees of it: guard, events, result |
| `TypedEventEmitter` | the emitter, one event | `stack` holds the dispatches under way, each with the part of its snapshot that is not called yet; `Outside` says where user code runs, for everything is synchronous |
| `Cli` | the command line tool, `probeEndpoints` | extends the monitor; `flags` are collected as they are read, `probes` are the calls of `Promise.all`, `code` is the exit code |
| `ErrorTranslator` | the dictionary | an error is the set of patterns it matches |
| `Fees` | fee levels, compute budget, tip | operators only |
| `MockCluster` | the harness cluster and its endpoints, as the lab uses them | `tx` is the status of the followed signature; `Fates` and `PoolFates` say what the fault profiles do to a broadcast |
| `Lab` | the demo's lab | `phase` is the await `send()` stands at, `steps` the pipeline it shows, `tally` the scoreboard, `refreshing[w]` the balance checks in flight. On the simulation the kit is modelled call by call, on devnet by what it promises |
| `MC...` | instances for TLC | backends, endpoint lists, costs |
| `ConfirmationTracker_proofs` | theorems about the tracker | |
| `Diagnostics_proofs`, `WalletAdapterBridge_proofs` | theorems about the operator beside the tracker, and about wallet, router and sender over it | reuse the tracker's invariant and lemmas |
| `UseResilientSender_proofs` | theorems about hook, batch and detector | |
| `Rpc_proofs` | theorems about pool and monitor, and about the limiter | |
| `Cli_proofs` | theorems about the tool, and about the fee operators | |
| `Lab_proofs` | theorems about the lab | |
| `TypedEventEmitter_proofs` | theorems about the emitter | |

A call to an RPC client is two steps (the request leaves, the answer is handled)
wherever an interleaving can tell, and one step elsewhere; the module headers
say which. An operator marked "Fault" is a plausible bug of the definition that
follows it; no specification uses it. `PROJECT.json` pairs every property with
the fault that breaks it.

## The runs

| Run | Instance | What it shows |
|---|---|---|
| `tracker_fanout` | a gateway served by either of two nodes and a client of one of them, up to 2 clients per round, finalized, deadline 2, heights to 4, an operator who may ask once at any time | verdicts are true, expired transactions landed only above what the last round saw, expiry is final, also when the operator was told of it; where operator and program differ, it has one of the causes listed below; `track` settles and implements `SettledOutcome` |
| `tracker_subscription` | two nodes and a client of each, one per round, confirmed, WebSocket path, abandoned blocks, streams that fail to close | "confirmed" is true; only the poll loop says "expired", unless a notified stream failed to close; no status poll and no poll verdict after a notification; `track` settles |
| `bridge` | gateway of two nodes, finalized, guard off, warn and throw, with and without a router, two bundle polls | events are true and end once, with a terminal one unless the guard refused or the tracker rejected; a wrong cluster is sent to only if detection said unknown; route "jito" means landed; with all routes the caller of `signAndSend` has `SettledOutcome`; it settles |
| `pool` | two endpoints, two concurrent requests that are repeated for ever, slots to 2, lag 0, ejection after 2 failures, a bucket that pays one call per window, freshness on and off | a request fails only after every endpoint it may try; the UI knows of every ejection; requests settle; ejection ends |
| `budget` | costs 1, 3 and 6 against 5 credits per 4 ticks | at most two refills in any window; no refusal the provider would not have justified |
| `front_end` | three sends in all, of the hook and of a batch of two, a detector, an emitter shared or not, a wallet that may reject | one lookup is under way at a time, a failed one is forgotten and a successful one kept; at rest the hook shows how the last send ended; a batch has sent a prefix, and all of it if it returned; every send and batch settles |
| `cli` | two endpoints, up to four probes, slots to 3, lag 1, ejection after 2 failures, errors of several kinds | the endpoint named as freshest answered, and no other answered with a higher slot; the exit code is true. Evaluates the fee operators over all sorted samples of up to six fees and ranks among up to thirty |
| `lab` | two wallets, two sends between resets, every scenario, two polls of the bundle and of the baseline, a blockhash valid for four blocks | no step is left active and the outcome step agrees with the record; the scoreboard counts only what landed; a balance shown is the connected wallet's; where the scenario does not drop the kit confirms what ends while the blockhash is valid; sends come to rest |
| `expired_with_status` | one node, finalized | **violation**: a transaction seen "confirmed" is reported expired if the deadline passes before it is final, although `confirmation.ts:5` makes "no status" a condition of expiry |
| `first_error_then_lands` | one node | **violation**: the first broadcast's reply is lost, `sendAndConfirm` throws, the transaction lands, although `sender.ts:143` says it never will |
| `diagnosed_expired` | one node | **violation**: `explainTransaction` treats a status with an error as none and answers "expired" of a transaction that landed and failed, where `diagnose.ts:128` says it expired before it landed and `diagnose.ts:12` that the verdict mirrors the tracker's |
| `engine_error_no_fallback` | one node | **violation**: a rejected engine call rejects `sendWithFallback` without the RPC fallback `router.ts:50` and `README.md:523` promise |

**Operator and program.** `diagnose.ts:10-12` and `:104-105` call the operator's
verdict mirrored from the tracker's, with the same precedence. It is not always the
same verdict, in whichever order the two conclude. Of a transaction that landed,
`tracker_fanout` reaches these pairs, and `DisagreementHasCause` shows that they have
no other cause:

| Operator | Program | Cause |
|---|---|---|
| confirmed | expired | any status without an error is a landing to the operator (`diagnose.ts:114-118`), while the tracker waits for its target commitment and expires on the height: the block was short of that commitment for every node of the last round |
| expired | confirmed, or failed | two queries: the block is above what the node knew that gave the operator's status |
| expired | failed | the status carried the execution's error, which the operator reads as none (the violation `diagnosed_expired`) |

The fourth, an operator told "confirmed" and a program that says "failed", does not
occur unless a processed block is abandoned.

**Bounds and why they are enough.** Two nodes give every relation between an
answering node and a lagging one; two clients give every combination of two
answers (the round's verdict is decided by the presence of an answer, never by
their number). A deadline of 2 leaves a block before it, the deadline block and,
with `MaxHeight = 4`, two blocks after it: a height the loop can skip and a
depth for finality. The heights stop at `MaxHeight`, which only a bounded run
needs: nothing tests a height beyond the deadline except for final depth. Two
endpoints give a fresh and a stale one, a failing and a working one; two requests
are enough for one to change the ranking under the other; lag 0 with slots 1 and
2 distinguishes stale from fresh. A window of four ticks allows every alignment
of the limiter's windows with the provider's. Three sends give one that begins a
lookup, one that joins it and one that comes after it has settled, and a batch of
two with one of the hook. Four probes of two endpoints give a URL that fails as
often as ejection takes and answers once. In the lab a blockhash of four blocks
lets a second send meet a cluster whose only blockhash is used up, as a longer
series of sends meets it in the code.

**Fairness.** `WF` on the steps that handle answers and timers: every RPC call is
answered or fails. The kit sets no timeout of its own, so this is an assumption
about the transport (sockets fail eventually); a call that hangs for ever hangs
`track`, and through `Promise.all` over the probes every request of the pool.
Timers fire and ready continuations run, as the event loop guarantees. The chain
grows and nodes catch up, an assumption about Solana. Nothing is assumed of a
WebSocket stream, of the block engine's bundle, of leaders, of an endpoint's
success, of the operator or of the limiter's clock. `front_end` and `bridge` assume that
the wallet answers, `front_end` that a sender ends, which `bridge` shows
(`BridgeSettles`). `lab` assumes that the running send goes on: its timers fire,
the wallet's prompt is answered, calls end. Nobody has to click, and devnet owes
nothing. `EjectionEnds` states its own premise: requests keep coming and
the endpoint stops failing.

`CHECK_DEADLOCK FALSE` is set where a call ends and the chain stops at
`MaxHeight`, or all sends have settled, the tool has exited or the lab's bounds are
used up; pool and budget never stop and are checked
for deadlock.

## What is proved

Every invariant and every action property of the passing runs, and both
refinements of `SettledOutcome`, are theorems of the same specification: the run
shows it on a small instance, the theorem for every value of the constants. Hardly
any of the properties is inductive as it stands, so each proof module states an
invariant that is; the theorems follow from it, and TLC finds it to hold on the
instance of the module's run.

**Tracker** (`ConfirmationTracker_proofs`; any nodes, clients, fan-out, deadline
and commitment). `ConfirmedTruth`, also with forks and failing streams;
`FailedTruth` if processed blocks are not abandoned; `ExpiryFromPollLoop`;
`ExpiredMissesOnlyUnseen` if the stream of a notification does not fail to close (the
tracker then says "expired" of what it was told has landed); `ExpiryIsFinal`, also
with such failures and with forks; `NotificationEndsPolling` and
`NotifiedPollLoop`; `TrackerKeepsPromise`: without forks and close failures every
step of tracker and chain is a step of `SettledOutcome` or a stutter. The
invariant `IInv` has five parts besides the types: `LedgerInv` (one execution, not
after the deadline, nodes not ahead of the chain), `TruthInv` (every result held
anywhere, in a reply, a promise or a notice, is true of the chain), `RoundInv` (a
round that is still undecided saw nothing decisive below its horizon, which an
expired verdict inherits), `RaceInv` (which promise may have settled, given where
each racer stands and who won) and `DeadlineInv` (an expired result implies a
height past the deadline, or a notification of a landing whose stream failed to
close). "Confirmed" is true because a result is true when the
answer is given and the chain's confirmed part only grows; that is the step the
lemmas about `Ledger` make once for all parts.

**Operator** (`Diagnostics_proofs`). `DisagreementCause` (without forks and close
failures) and `DiagnosedExpiryFinal`. `IInv` is reused: the operator's steps leave
the tracker alone, and `VerdictInv` says that what the operator was told is so for
good, and that a status which is no landing comes from a node that did not know the
block (it is above `known`, and what lands later is above it too) or has an error.

**Write path** (`WalletAdapterBridge_proofs`; also any number of bundle polls and
every guard setting). `WrongClusterIsStopped`, `EventsEnd`, and, without forks,
`EventsTellTheTruth`, `JitoRouteLanded` and `WritePathKeepsPromise`, which shows
that `signAndSend` over wallet, router, sender and tracker implements
`SettledOutcome`. A step of the composition is a step of the tracker or of the
chain, for which `IInv` is known to be kept, or leaves alone what `IInv` is about,
with two exceptions that have lemmas of their own: a bundle is included, and a
broadcast puts a copy in flight. The other parts of the invariant say which events
can have been emitted where the sender stands (`EventsInv`), that a call which is over
emitted a terminal event unless the guard refused or the tracker rejected
(`EndIsTold`), that the sender's
tracker does not run before the first broadcast returned (`PhaseInv`), that a
detected wrong cluster ended the call (`GuardInv`), where the router is
(`RouteInv`), and that an included bundle is executed (`BundleInv`).

**Front end** (`UseResilientSender_proofs`; any callers, any batch).
`LookupIsShared`, `HookTellsLastSettled`, `BatchSendsInOrder`. A lookup under way
is the cached one and awaited by the caller that began it (`LookupInv`); each
member of a batch that left idle has only settled ones before it (`BatchInv`); and
the status is tied to the send that settled last whenever the hook's own sends are
at rest and the batch has not emitted into the hook's emitter (`ShownInv`).

**Pool** (`Rpc_proofs`; any endpoints, requests, methods, thresholds, attempts).
`EjectionIsTold` and `FailureIsExhaustive`. The invariant `AttemptInv` says that,
while a request calls, the endpoints it has before it and those that failed it
divide the configured ones, each once; the lemmas show that `attemptOrder` returns
every endpoint once whatever the monitor says, and that a failure moves one
endpoint over, so that a list that is exhausted, or cut by `maxAttempts`, holds as
many different endpoints as `FailsOnlyAfterAll` asks for. `Methods # {}` is
assumed: a call has a method.

**Limiter** (`Rpc_proofs`; any weights, rate and window).
`ProviderSeesTwiceTheRate` and `LimiterNoStricter`. The provider's sum is one of
the numbers `spent[i]`, and the invariant bounds all of them: from above by what
the present refill has paid, and one whole refill more for spans that reach back
before it; from below, for those spans, by what the bucket lacks.

**Tool** (`Cli_proofs`; any endpoints, slots, lag and ejection threshold).
`ExitCodeTellsTheTruth` and `FreshestWasHeard`. `Heard` says that the slot the
monitor holds of an endpoint is one of its answers, that it holds one if any came,
and that it counts no more failures in a row than probes of that endpoint failed;
an endpoint that answered is therefore not ejected when no URL is given more often
than ejection takes, and the highest-ranked one answered. In the same module
`NativeLevelsMonotonic` (the native oracle's levels never fall from `min` to
`veryHigh` for any samples, from the ranks of the five percentages among n
samples), `RankIsNearest` (no other sample is nearer to the percentage of the
level) and `BudgetCovers` (the compute budget covers the simulated units and costs
the least that pays for its limit, for a margin of at least 100 percent, which the
default of 110 percent satisfies).

**Lab** (`Lab_proofs`; any wallets, sends, polls, validity of the blockhash).
`PipelineShowsOutcome`, `ScoreboardCountsLanded`, `ShownBalanceIsOwn` and
`KitConfirmsItsSends`. `PipelineInv` adds that no outcome is told while a send
runs and that only the kit lands on devnet; `WalletInv`, that as long as nothing
has raced only the connected wallet is asked about. For the last theorem `RideInv`
relates the chain's height to the send's deadline in every phase: the polls of a
bundle may not use up the send's window, hence the assumption `BundlePolls <=
SendWindow` (4 and 14 in the code, `lab.ts:491` and `:460`).

**Emitter** (`TypedEventEmitter_proofs`; any handlers, any number of `once()`
calls, any depth of nested dispatches). A once-listener which was called is
subscribed no more (`OnceStaysOver`), and, if listeners do not emit the event they
listen to, it is called at most once (`OnceCalledOnce`). The premise is needed:
with re-entrant events an outer dispatch still holds the listener that an inner
one has called and removed. The invariant adds that a wrapper is nowhere before
`once()` made it, and that the one dispatch there is has no called wrapper left.
This module is proved about and has no run: its state is a listener set and a
stack.

**Assumptions.** Those the modules state about their constants, which every run
evaluates (at least one node and client, every client backed by some node, a
positive deadline and final depth, no endpoint configured twice, and the two named
above), and, where a theorem says so, `~Forks`: a block that executed the
transaction is not abandoned. With forks those theorems are false: an error, or a
landing the operator was told of, may be undone. `ExpiredMissesOnlyUnseen`,
`TrackerKeepsPromise` and `DisagreementCause` also assume `~CloseErrors`: the
notification stream closes without an error. Without that they are false,
for the tracker then falls back to "expired" after a notification. Bounds such as `MaxSlot`,
`MaxSends` or `MaxTargets` are constants, and the theorems hold for any of them.

**Only model-checked.** The liveness properties `TrackSettles`, `BridgeSettles`,
`RequestsSettle`, `EjectionEnds`, `SendsSettle` and `SendsComeToRest`: TLAPS 1.4
has no practical support for `ENABLED`, on which fairness rests. The tip's floor
is evaluated by `MCCli` on samples, and the dictionary only as the run `cli` uses
it.

## What the models leave out

* Slots, poll and rebroadcast counts, durations, payloads, error texts and metrics:
  nothing decides on them, except the monitor's slots, which are modelled.
* An injected `sleep` that rejects; a `multiEndpoint` with no endpoints; the
  status cache of an RPC node forgetting an old signature.
* A pool whose injected monitor was built for other endpoints than the pool's; a
  probe answer that is not a slot; a clock that goes back; a bucket whose window
  ends inside one synchronous stretch of the failover loop.
* The hook's arguments changing between renders, and unmounting; a bridge with a
  Jito router under the hook (it is in `bridge`); a cluster guard in the hook's
  senders other than "throw" ("off" and "warn" are in `bridge`); which genesis hash names which cluster.
* The text of errors and which regular expression it matches; floating point in the
  fee operators (rationals stand for it, and `Math.round` of a product that is not
  exact may differ by a unit).
* A `HealthMonitor` injected into `Diagnostics`; a status without a commitment
  (`diagnose.ts:116`; the ledger gives none); the printing of the tool, and a client
  factory that throws for an endpoint given to `probe` (`index.ts:249`).
* In the lab: the log, the metrics other than expired landings, latencies, slots and
  lag, which decide no simulated broadcast, and rendering. The scripts under
  `examples/`, which call the kit in a line and keep no state.
* The mocks of Jito and of subscriptions in the test harness, which only the tests
  use; `OtelMetrics` and `InMemoryMetrics`, which forward and record.
* `hedge` in `ResilientRpcConfig`: the option is declared and nothing reads it.

Behaviour seen while modelling that no run of its own shows: a transaction that
lands between the last status query and the height query is reported expired
(bounded by `ExpiredMissesOnlyUnseenBlocks`); an error in a processed block that
is abandoned is reported as failed; a fan-out round whose queries all fail counts
as pending; a rejected query in flight beats a notification; if a stream's
`return()` rejects after a notification, `track` falls back to expired; after
"transaction:sent" a rejected tracker leaves the event stream without a terminal
event (the exception `EventsEndOnce` states); the Jito route reports "confirmed" whatever commitment was asked for; an
older answer to a probe overwrites the newer slot of another request's; the hook
leaves `error` null for a transaction that failed on chain, and after concurrent
sends `error` may belong to an earlier send than `status`; when every probe of
`probeEndpoints` fails, `freshest` still names the first endpoint, because one
failure does not eject it, and a URL given more often than ejection takes can be
ejected after it answered (`diagnose.ts:35` and `:65` say null and never ranked); the
exit code 1 of `explain` means an expired transaction or a failed RPC call, where
`src/README.md:512` names no failed call; `once` (`events.ts:60`) under re-entrant
events; a failed simulation reports no units, and the budget has a limit of 0
(`estimator.ts:52`); the lab's simulated cluster has one blockhash for all sends, so
that after 150 blocks every scenario ends expired until the lab is reset.

## The plan

1. *(done)* ledger, tracker, promise, sender, router; the tracker's proofs; pool,
   monitor and limiter; the one-shot diagnosis beside the tracker; detector, bridge
   and hook.
2. *(done)* the write path composed in the bridge; batches; the emitter and its
   proofs; the tool with `probeEndpoints` and the dictionary; fees and tips; the lab
   over the harness cluster.
3. *(done)* theorems for every safety property the runs check: the write path over
   the tracker's invariant, the operator, hook, batch and detector, pool, limiter,
   tool and lab.
4. Proofs that are left: that each request of the pool, and not only the pool, ends
   a loop over a measure that falls with every failure; that a batch implements the
   promise of each of its members.
5. The order a pool request uses against the answers its own probes received, which
   needs a history variable.
