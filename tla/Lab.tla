-------------------------------- MODULE Lab ---------------------------------
(***************************************************************************)
(* The demo's RPC Resilience Lab: one send at a time, through the kit or   *)
(* through a naive baseline, on the simulated network or on devnet, while  *)
(* the user works the controls and the wallet connects, disconnects or     *)
(* changes (demo/src/lab.ts; the buttons and the wallet effect of          *)
(* demo/src/App.tsx).                                                      *)
(*                                                                         *)
(* A send is a chain of awaits; a step is what runs between two of them.   *)
(* On the simulation the kit is modelled call by call against MockCluster; *)
(* on devnet, which is external, by what it promises (SettledOutcome).     *)
(***************************************************************************)
EXTENDS MockCluster, FiniteSets

CONSTANTS
  Wallets,         \* the addresses the user can connect
  NoWallet,
  MaxSends,        \* bound: sends between two resets
  MaxRefreshes,    \* bound: balance checks in flight that the user may cause
  SendWindow,      \* blocks a simulated transaction is given
  BundlePolls,     \* maxBundlePolls
  NaivePolls       \* NAIVE_POLLS

ASSUME LabAssumption ==
  /\ NoWallet \notin Wallets
  /\ {MaxSends, MaxRefreshes, SendWindow} \subseteq Nat
  /\ {BundlePolls, NaivePolls} \subseteq Nat \ {0}
  /\ BundlePolls <= SendWindow

VARIABLES
  network, scenario, viaJito, sdkEnabled,    \* the controls
  phase,        \* where send() stands; "idle" is ~running
  count,        \* polls done in this phase, and txSeq
  deadline,     \* lastValidBlockHeight of the simulated send
  steps,        \* the status of each pipeline step, "absent" if not shown
  tally,        \* confirmed and total sends of each baseline
  expired,      \* the "expired" tile: expired landings InMemoryMetrics holds
  result,       \* history: how the last send ended
  wallet,       \* walletSigner and walletAddress
  signer,       \* the wallet runDevnet captured
  payable,      \* history: the transaction's fee payer is the wallet that signs
  balance,      \* balanceSol, with the address it was asked for
  loadingBalance,
  refreshing,   \* refreshing[w]: balance checks for w in flight
  raced         \* history: a wallet changed during a balance check, or a check
                \* failed, and no undisturbed check has succeeded since

controls == <<network, scenario, viaJito, sdkEnabled>>
pipeline == <<phase, count, deadline, steps, tally, expired, result>>
devnetVars == <<wallet, signer, payable, balance, loadingBalance, refreshing, raced>>
labVars == <<mockVars, controls, pipeline, devnetVars>>

Scenarios == {"healthy", "drop", "429", "lag", "jito-fail", "congestion"}
StepIds == {"submit", "route", "pin", "bundle", "broadcast", "rebroadcast",
            "confirm", "outcome"}
Phases == {"idle", "bundle", "broadcast", "poll", "sleep", "blockhash", "signing",
           "landing", "shot"}
Outcome == {"confirmed", "expired", "failed"}
NoBalance == [of |-> NoWallet, zero |-> FALSE]

running == phase # "idle"
Baseline == IF sdkEnabled THEN "sdk" ELSE "naive"
Jito == network = "sim" /\ viaJito

InFlight == {w \in Wallets : refreshing[w] > 0}

LabTypeOK ==
  /\ MockTypeOK
  /\ network \in {"sim", "devnet"} /\ scenario \in Scenarios
  /\ viaJito \in BOOLEAN /\ sdkEnabled \in BOOLEAN
  /\ phase \in Phases
  /\ count \in [polls : Nat, sends : 0..MaxSends]
  /\ deadline \in Nat
  /\ steps \in [StepIds -> {"absent", "idle", "active", "done", "failed", "skipped"}]
  /\ \A b \in {"sdk", "naive"} : tally[b].confirmed <= tally[b].total
  /\ expired \in Nat
  /\ result \in Outcome \cup {"none"}
  /\ {wallet, signer, balance.of} \subseteq Wallets \cup {NoWallet}
  /\ {payable, balance.zero, loadingBalance, raced} \subseteq BOOLEAN
  /\ refreshing \in [Wallets -> Nat]

-----------------------------------------------------------------------------
(* The pipeline steps.                                                     *)

freshSteps(jito, naive) ==
  LET ids == {"submit", "confirm", "outcome"}
             \cup (IF jito THEN {"bundle"} ELSE {})
             \cup (IF ~naive THEN {"route", "broadcast", "rebroadcast"}
                   ELSE IF jito THEN {} ELSE {"pin", "broadcast"})
  IN [i \in StepIds |-> IF i \in ids THEN "idle" ELSE "absent"]

\* A step that is not shown is not marked.
mark(st, i, status) ==
  IF st[i] = "absent" THEN st ELSE [st EXCEPT ![i] = status]

tick(st, i) == IF st[i] \in {"idle", "active"} THEN [st EXCEPT ![i] = "active"] ELSE st

\* Fault: what is left active stays active.
settleStepsOnce(st, o) ==
  [i \in StepIds |->
     IF i = "rebroadcast" /\ st[i] = "idle" /\ o = "confirmed" THEN "skipped"
     ELSE st[i]]

settleSteps(st, o) ==
  [i \in StepIds |->
     IF st[i] = "active" THEN (IF o = "confirmed" THEN "done" ELSE "failed")
     ELSE IF i = "rebroadcast" /\ st[i] = "idle" /\ o = "confirmed" THEN "skipped"
     ELSE st[i]]

\* Fault: only what did not land is counted in the total.
recordMisses(o) ==
  tally' = [tally EXCEPT ![Baseline] =
    [confirmed |-> @.confirmed + (IF o = "confirmed" THEN 1 ELSE 0),
     total |-> @.total + (IF o = "confirmed" THEN 0 ELSE 1)]]

recordOutcome(o) ==
  tally' = [tally EXCEPT ![Baseline] =
    [confirmed |-> @.confirmed + (IF o = "confirmed" THEN 1 ELSE 0),
     total |-> @.total + 1]]

\* The `finally' of send(): the tally, the steps and the running flag.
\* `recorded' if the sender put the landing into the metrics.
Finish(st, o, recorded) ==
  /\ recordOutcome(o)
  /\ steps' = settleSteps(st, o)
  /\ phase' = "idle"
  /\ count' = [count EXCEPT !.polls = 0]
  /\ expired' = expired + (IF recorded /\ o = "expired" THEN 1 ELSE 0)
  /\ result' = o
  /\ deadline' = 0

MarkOutcome(st, o) == mark(st, "outcome", IF o = "confirmed" THEN "done" ELSE "failed")

\* An exception reached send(): "unhandled".
Throws(st) == Finish(mark(st, "outcome", "failed"), "failed", FALSE)

GoesOn(p, st) ==
  /\ phase' = p
  /\ steps' = st
  /\ UNCHANGED <<count, deadline, tally, expired, result>>

\* One more unsuccessful poll of a bounded loop: `p' while polls remain.
Polled(p, st) ==
  /\ count' = [count EXCEPT !.polls = @ + 1]
  /\ phase' = p
  /\ steps' = st
  /\ UNCHANGED <<deadline, tally, expired, result>>

-----------------------------------------------------------------------------
(* The controls.  Their buttons are disabled while a send runs.            *)

\* The network, the wallet and its balance are kept.  The steps are refreshed
\* before the route and the SDK switch are.
reset ==
  /\ ~running
  /\ blockHeight' = 0 /\ tx' = "none" /\ landAt' = 0
  /\ steps' = freshSteps(viaJito, ~sdkEnabled)
  /\ scenario' = "healthy" /\ viaJito' = FALSE /\ sdkEnabled' = TRUE
  /\ tally' = [b \in {"sdk", "naive"} |-> [confirmed |-> 0, total |-> 0]]
  /\ count' = [polls |-> 0, sends |-> 0]
  /\ deadline' = 0 /\ expired' = 0 /\ result' = "none"
  /\ UNCHANGED <<network, phase, devnetVars>>

\* Bound: the user leaves devnet without a wallet and without balance checks
\* under way, of which the simulation reads nothing.
setNetwork(n) ==
  /\ ~running /\ network # n
  /\ n = "sim" => wallet = NoWallet /\ InFlight = {} /\ balance = NoBalance
  /\ network' = n
  /\ steps' = freshSteps(FALSE, ~sdkEnabled)
  /\ viaJito' = (viaJito /\ n = "sim")
  /\ UNCHANGED <<mockVars, scenario, sdkEnabled, phase, count, deadline, tally,
                 expired, result, devnetVars>>

\* The probe that follows is awaited, and only refreshes the pool's health.
applyScenario(s) ==
  /\ ~running /\ network = "sim"
  /\ scenario' = s
  /\ viaJito' = (s = "jito-fail")
  /\ UNCHANGED <<mockVars, network, sdkEnabled, pipeline, devnetVars>>

setViaJito ==
  /\ ~running /\ network = "sim"
  /\ viaJito' = ~viaJito
  /\ UNCHANGED <<mockVars, network, scenario, sdkEnabled, pipeline, devnetVars>>

setSdkEnabled ==
  /\ ~running
  /\ sdkEnabled' = ~sdkEnabled
  /\ UNCHANGED <<mockVars, network, scenario, viaJito, pipeline, devnetVars>>

-----------------------------------------------------------------------------
(* The wallet and its balance, at any time.                                *)

MayRefresh == \A w \in Wallets : refreshing[w] < MaxRefreshes

\* refreshBalance up to its await, for the address of that moment.
StartRefresh(w) ==
  /\ refreshing' = [refreshing EXCEPT ![w] = @ + 1]
  /\ loadingBalance' = TRUE

\* Fault: another wallet's balance is not asked for.
setWalletQuietly(w) ==
  /\ network = "devnet" /\ w # wallet
  /\ wallet' = w
  /\ raced' = (InFlight # {} \/ (raced /\ w # NoWallet))
  /\ balance' = IF w = NoWallet THEN NoBalance ELSE balance
  /\ UNCHANGED <<refreshing, loadingBalance, mockVars, controls, pipeline, signer, payable>>

\* The wallet adapter connects, disconnects or switches accounts.  The wallet
\* button is only there on devnet, and the simulation reads nothing of this.
setWallet(w) ==
  /\ network = "devnet" /\ w # wallet
  /\ wallet' = w
  /\ raced' = (InFlight # {} \/ (raced /\ w # NoWallet))
  /\ IF w = NoWallet
     THEN balance' = NoBalance /\ UNCHANGED <<refreshing, loadingBalance>>
     ELSE MayRefresh /\ StartRefresh(w) /\ UNCHANGED balance
  /\ UNCHANGED <<mockVars, controls, pipeline, signer, payable>>

\* The refresh link.
refreshBalance ==
  /\ wallet # NoWallet
  /\ network = "devnet"
  /\ MayRefresh
  /\ StartRefresh(wallet)
  /\ UNCHANGED <<mockVars, controls, pipeline, wallet, signer, payable, balance, raced>>

\* An answer is shown whoever is connected by now, and ends the loading of
\* any other check too.
BalanceArrives(w) ==
  /\ w \in InFlight
  /\ refreshing' = [refreshing EXCEPT ![w] = @ - 1]
  /\ loadingBalance' = FALSE
  /\ \/ /\ \E zero \in BOOLEAN : balance' = [of |-> w, zero |-> zero]
        /\ raced' = (raced /\ (w # wallet \/ InFlight # {w} \/ refreshing[w] > 1))
     \/ raced' = TRUE /\ UNCHANGED balance
  /\ UNCHANGED <<mockVars, controls, pipeline, wallet, signer, payable>>

-----------------------------------------------------------------------------
(* send() on the simulation.                                               *)

\* What every send does first.
Begins(st, p) ==
  /\ ~running /\ count.sends < MaxSends
  /\ count' = [polls |-> 0, sends |-> count.sends + 1]
  /\ steps' = mark(st, "submit", "done")
  /\ phase' = p
  /\ UNCHANGED <<controls, tally, expired>>

SendSimulated ==
  /\ network = "sim"
  /\ LET fresh == freshSteps(viaJito, ~sdkEnabled) IN
       Begins(IF viaJito THEN mark(mark(fresh, "route", "active"), "bundle", "active")
              ELSE IF sdkEnabled THEN mark(fresh, "route", "active")
              ELSE mark(mark(fresh, "pin", "done"), "broadcast", "active"),
              IF viaJito THEN "bundle" ELSE "broadcast")
  /\ deadline' = blockHeight + SendWindow
  /\ result' = "none"
  /\ NewSignature
  /\ UNCHANGED devnetVars

\* MockJitoEngine lands a bundle at the first poll, or never in "jito-fail".
BundleLands ==
  /\ phase = "bundle" /\ scenario # "jito-fail"
  /\ tx' = "landed"
  /\ LET st == mark(mark(mark(steps, "broadcast", "skipped"), "rebroadcast", "skipped"),
                    "bundle", "done")
     IN Finish(MarkOutcome(mark(mark(st, "route", "done"), "confirm", "done"), "confirmed"),
               "confirmed", FALSE)
  /\ UNCHANGED <<blockHeight, landAt, controls, devnetVars>>

\* Fault: the kit gives up with its bundle, too.
BundleLost ==
  /\ phase = "bundle" /\ scenario = "jito-fail"
  /\ advanceSlots
  /\ IF count.polls + 1 < BundlePolls THEN Polled("bundle", tick(steps, "confirm"))
     ELSE Finish(MarkOutcome(mark(tick(steps, "confirm"), "bundle", "failed"), "expired"),
                 "expired", FALSE)
  /\ UNCHANGED <<controls, devnetVars>>

\* After the last poll the kit falls back to RPC, and the baseline gives up.
\* The kit's bundle step is marked when the fallback has returned.
BundlePends ==
  /\ phase = "bundle" /\ scenario = "jito-fail"
  /\ advanceSlots
  /\ IF count.polls + 1 < BundlePolls THEN Polled("bundle", tick(steps, "confirm"))
     ELSE IF sdkEnabled THEN Polled("broadcast", tick(steps, "confirm"))
     ELSE Finish(MarkOutcome(mark(tick(steps, "confirm"), "bundle", "failed"), "expired"),
                 "expired", FALSE)
  /\ UNCHANGED <<controls, devnetVars>>

\* The metrics sink sees the request: the route is found, the broadcast runs.
SinkBroadcast(st) == mark(mark(st, "route", "done"), "broadcast", "active")

KitBroadcasts ==
  /\ phase = "broadcast" /\ sdkEnabled
  /\ \E fate \in PoolFates(scenario) : rpcSendTransaction(fate = "dropped")
  /\ GoesOn("poll", SinkBroadcast(steps))
  /\ UNCHANGED <<controls, devnetVars>>

\* The steps runSdk marks when the sender, or the router, has returned.
KitReturns(o) ==
  LET st == IF Jito THEN mark(steps, "bundle", "failed") ELSE steps IN
  Finish(MarkOutcome(mark(mark(mark(st, "route", "done"), "broadcast", "done"),
                          "confirm", "done"), o), o, TRUE)

\* The tracker reads the status, then the height.
KitPolls ==
  /\ network = "sim" /\ phase = "poll" /\ sdkEnabled
  /\ IF HasStatus THEN KitReturns("confirmed")
     ELSE IF blockHeight > deadline THEN KitReturns("expired")
     ELSE GoesOn("sleep", steps)
  /\ UNCHANGED <<mockVars, controls, devnetVars>>

\* Fault: the simulated clock stands still while the kit sleeps.
KitSleepsFrozen ==
  /\ phase = "sleep"
  /\ GoesOn("poll", tick(tick(mark(SinkBroadcast(steps), "broadcast", "done"), "rebroadcast"),
                         "confirm"))
  /\ UNCHANGED <<mockVars, controls, devnetVars>>

\* The rebroadcast, which the cluster has already recorded, and one slot.
KitSleeps ==
  /\ phase = "sleep"
  /\ advanceSlots
  /\ GoesOn("poll", tick(tick(mark(SinkBroadcast(steps), "broadcast", "done"), "rebroadcast"),
                         "confirm"))
  /\ UNCHANGED <<controls, devnetVars>>

\* The baseline's single shot at the first endpoint.
NaiveBroadcasts ==
  /\ network = "sim" /\ phase = "broadcast" /\ ~sdkEnabled
  /\ \E fate \in Fates(scenario, 1) :
       IF fate = "refused"
       THEN /\ Finish(MarkOutcome(mark(steps, "broadcast", "failed"), "failed"), "failed", FALSE)
            /\ UNCHANGED mockVars
       ELSE /\ rpcSendTransaction(fate = "dropped")
            /\ GoesOn("poll", mark(steps, "broadcast", "done"))
  /\ UNCHANGED <<controls, devnetVars>>

\* The baseline's poll number count.polls + 1 saw a status, or did not.
NaivePolled(seen) ==
  LET st == tick(steps, "confirm") IN
  IF seen THEN Finish(MarkOutcome(mark(st, "confirm", "done"), "confirmed"), "confirmed", FALSE)
  ELSE IF count.polls + 1 < NaivePolls THEN Polled("poll", st)
  ELSE Finish(MarkOutcome(mark(st, "confirm", "done"), "expired"), "expired", FALSE)

\* A refused poll counts as one that saw nothing; the clock moves on.
NaivePollsSimulated ==
  /\ network = "sim" /\ phase = "poll" /\ ~sdkEnabled
  /\ \E refused \in Chance(ScenarioFaults(scenario)[1].rate429) :
       LET seen == HasStatus /\ ~refused IN
       /\ NaivePolled(seen)
       /\ IF seen THEN UNCHANGED mockVars ELSE advanceSlots
  /\ UNCHANGED <<controls, devnetVars>>

-----------------------------------------------------------------------------
(* send() on devnet.                                                       *)

\* The kit's step or the baseline's that stands for finding an endpoint.
Pin == IF sdkEnabled THEN "route" ELSE "pin"

\* The button is disabled without a wallet.
SendDevnet ==
  /\ network = "devnet" /\ wallet # NoWallet /\ ~balance.zero
  /\ MayRefresh
  /\ Begins(mark(freshSteps(FALSE, ~sdkEnabled), Pin, "active"), "blockhash")
  /\ signer' = wallet
  /\ NewSignature
  /\ result' = "none"
  /\ UNCHANGED <<deadline, wallet, payable, balance, loadingBalance, refreshing, raced>>

\* The balance that was last shown, whosever it is, was zero.
SendUnfunded ==
  /\ ~running /\ count.sends < MaxSends
  /\ network = "devnet" /\ wallet # NoWallet /\ balance.zero
  /\ LET st == mark(freshSteps(FALSE, ~sdkEnabled), "submit", "done") IN
       /\ steps' = settleSteps(MarkOutcome(st, "failed"), "failed")
       /\ recordOutcome("failed")
  /\ count' = [count EXCEPT !.sends = @ + 1]
  /\ result' = "failed"
  /\ NewSignature
  /\ UNCHANGED <<controls, phase, deadline, expired, devnetVars>>

\* getLatestBlockhash answers; the transfer is built for whoever is connected
\* now, and signed by the wallet captured before.
BlockhashArrives ==
  /\ phase = "blockhash"
  /\ IF wallet = NoWallet THEN Throws(steps) ELSE GoesOn("signing", steps)
  /\ payable' = (wallet = signer)
  /\ UNCHANGED <<mockVars, controls, wallet, signer, balance, loadingBalance, refreshing, raced>>

BlockhashFails ==
  /\ phase = "blockhash"
  /\ Throws(steps)
  /\ UNCHANGED <<mockVars, controls, devnetVars>>

\* The user refuses, or the wallet returns no signature.
SigningRejected ==
  /\ phase = "signing"
  /\ Finish(MarkOutcome(mark(steps, Pin, "failed"), "failed"), "failed", FALSE)
  /\ UNCHANGED <<mockVars, controls, devnetVars>>

Signed ==
  /\ phase = "signing"
  /\ LET st == mark(steps, Pin, "done") IN
       IF sdkEnabled THEN GoesOn("landing", st)
       ELSE GoesOn("shot", mark(st, "broadcast", "active"))
  /\ UNCHANGED <<mockVars, controls, devnetVars>>

\* A node takes the transaction, if its payer signed it.
DevnetTakes ==
  /\ network = "devnet" /\ phase \in {"landing", "shot"}
  /\ payable /\ tx = "none"
  /\ tx' = "pending"
  /\ UNCHANGED <<blockHeight, landAt, controls, pipeline, devnetVars>>

\* A leader executes it, be it after the lab has given up.
DevnetLands ==
  /\ network = "devnet" /\ tx = "pending"
  /\ tx' \in {"landed", "reverted"}
  /\ UNCHANGED <<blockHeight, landAt, controls, pipeline, devnetVars>>

\* The end of runDevnet asks for the balance again.
RefreshAgain ==
  IF wallet = NoWallet THEN UNCHANGED <<refreshing, loadingBalance>> ELSE StartRefresh(wallet)

\* The sender rebroadcasts and sleeps.
KitRebroadcasts ==
  /\ phase = "landing" /\ tx # "none"
  /\ GoesOn("landing", tick(tick(mark(steps, "broadcast", "done"), "rebroadcast"), "confirm"))
  /\ UNCHANGED <<mockVars, controls, devnetVars>>

\* sendAndConfirm returns what SettledOutcome allows, or throws.
LandingReturns(o) ==
  /\ phase = "landing"
  /\ o = "confirmed" => tx = "landed"
  /\ o = "failed" => tx = "reverted"
  /\ o = "expired" => tx # "none"
  /\ KitReturns(o)
  /\ RefreshAgain
  /\ UNCHANGED <<mockVars, controls, wallet, signer, payable, balance, raced>>

LandingThrows ==
  /\ phase = "landing"
  /\ Throws(steps)
  /\ UNCHANGED <<mockVars, controls, devnetVars>>

ShotReturns ==
  /\ phase = "shot" /\ tx # "none"
  /\ GoesOn("poll", mark(steps, "broadcast", "done"))
  /\ UNCHANGED <<mockVars, controls, devnetVars>>

ShotFails ==
  /\ phase = "shot"
  /\ Finish(MarkOutcome(mark(steps, "broadcast", "failed"), "failed"), "failed", FALSE)
  /\ UNCHANGED <<mockVars, controls, devnetVars>>

\* Fault: any status counts, also one with an error.
SeenWithError == {(tx \in {"landed", "reverted"}), FALSE}

\* What a poll may see: a node may lag.
Seen == {tx = "landed", FALSE}

NaivePollsDevnet ==
  /\ network = "devnet" /\ phase = "poll"
  /\ \E seen \in Seen :
       /\ NaivePolled(seen)
       /\ IF phase' = "idle" THEN RefreshAgain ELSE UNCHANGED <<refreshing, loadingBalance>>
  /\ UNCHANGED <<mockVars, controls, wallet, signer, payable, balance, raced>>

\* Here a refused poll is not caught.
NaivePollThrows ==
  /\ network = "devnet" /\ phase = "poll"
  /\ Throws(tick(steps, "confirm"))
  /\ UNCHANGED <<mockVars, controls, devnetVars>>

-----------------------------------------------------------------------------

LabInit ==
  /\ MockInit
  /\ network = "sim" /\ scenario = "healthy"
  /\ viaJito = FALSE /\ sdkEnabled = TRUE
  /\ phase = "idle"
  /\ count = [polls |-> 0, sends |-> 0]
  /\ deadline = 0 /\ expired = 0 /\ result = "none"
  /\ steps = freshSteps(FALSE, FALSE)
  /\ tally = [b \in {"sdk", "naive"} |-> [confirmed |-> 0, total |-> 0]]
  /\ wallet = NoWallet /\ signer = NoWallet
  /\ payable = TRUE /\ raced = FALSE
  /\ balance = NoBalance
  /\ loadingBalance = FALSE
  /\ refreshing = [w \in Wallets |-> 0]

\* What the user and the wallet may do.
UserStep ==
  \/ reset
  \/ \E n \in {"sim", "devnet"} : setNetwork(n)
  \/ \E s \in Scenarios : applyScenario(s)
  \/ setViaJito
  \/ setSdkEnabled
  \/ \E w \in Wallets \cup {NoWallet} : setWallet(w)
  \/ refreshBalance
  \/ SendSimulated
  \/ SendDevnet
  \/ SendUnfunded

\* What a running send does next.
SendStep ==
  \/ BundleLands
  \/ BundlePends
  \/ KitBroadcasts
  \/ KitPolls
  \/ KitSleeps
  \/ NaiveBroadcasts
  \/ NaivePollsSimulated
  \/ BlockhashArrives
  \/ BlockhashFails
  \/ SigningRejected
  \/ Signed
  \/ \E o \in Outcome : LandingReturns(o)
  \/ LandingThrows
  \/ ShotReturns
  \/ ShotFails
  \/ NaivePollsDevnet
  \/ NaivePollThrows

LabNext ==
  \/ UserStep
  \/ SendStep
  \/ \E w \in Wallets : BalanceArrives(w)
  \/ DevnetTakes
  \/ DevnetLands
  \/ KitRebroadcasts

LabSpec == LabInit /\ [][LabNext]_labVars

\* Timers fire, the user answers the wallet's prompt and calls are answered or
\* fail.  The user need not click, and devnet owes nothing.
FairLabSpec == LabSpec /\ WF_labVars(SendStep)

-----------------------------------------------------------------------------
(* Properties.                                                             *)

\* At rest no step of the pipeline is left running, whatever path the send
\* took and wherever it threw, and the outcome step shows what was recorded
\* (lines 463-474, 510, 825-835).
PipelineTellsOutcome ==
  ~running /\ steps["outcome"] # "idle" =>
    /\ \A i \in StepIds : steps[i] # "active"
    /\ steps["outcome"] = "done" <=> result = "confirmed"

\* The scoreboard counts as landed only what executed without error, for the
\* kit and for the baseline, and no expired landing of the metrics beside a
\* confirmed one (lines 270-296, 683-687).
ScoreboardIsTrue ==
  /\ ~running /\ result = "confirmed" => tx = "landed"
  /\ tally["sdk"].confirmed + expired <= tally["sdk"].total

\* A step that ends a simulated send of the kit while the cluster's only
\* blockhash is valid, where the scenario does not drop, confirms it.
RidesOut ==
  /\ running /\ phase' = "idle"
  /\ network = "sim" /\ sdkEnabled
  /\ scenario \notin {"drop", "congestion"}
  /\ blockHeight' <= BlockhashValidity
  => result' = "confirmed"

\* Where the scenario does not drop, the kit confirms every simulated send that
\* ends while the cluster's only blockhash is valid: over a dead primary, past
\* a laggard, after a lost bundle (lines 138-188).
KitRidesOut == [][RidesOut]_labVars

\* A balance that is shown and not loading is the connected wallet's, unless a
\* wallet changed while a check was under way or a check failed
\* (lines 384-417).
BalanceIsOwn ==
  balance # NoBalance /\ ~loadingBalance /\ ~raced => balance.of = wallet

\* A send always comes to rest: the polls of the baseline and of the bundle
\* are bounded, the kit's end at the deadline, and what throws is caught
\* (lines 450-474).
SendsComeToRest == [](running => <>~running)

=============================================================================
