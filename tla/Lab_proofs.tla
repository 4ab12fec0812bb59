----------------------------- MODULE Lab_proofs -----------------------------
(***************************************************************************)
(* Theorems about the demo's lab (demo/src/lab.ts), for any wallets, any   *)
(* number of sends and of polls, any validity of the blockhash and every   *)
(* fault scenario, on the simulation and on devnet.                        *)
(***************************************************************************)
EXTENDS Lab, TLAPS

-----------------------------------------------------------------------------
(* The inductive invariant.                                                *)

Status == {"absent", "idle", "active", "done", "failed", "skipped"}
Steps == [StepIds -> Status]

ControlsTypeOK ==
  /\ network \in {"sim", "devnet"} /\ scenario \in Scenarios
  /\ viaJito \in BOOLEAN /\ sdkEnabled \in BOOLEAN

PipelineTypeOK ==
  /\ phase \in Phases
  /\ count \in [polls : Nat, sends : 0..MaxSends]
  /\ deadline \in Nat
  /\ steps \in Steps
  /\ tally \in [{"sdk", "naive"} -> [confirmed : Nat, total : Nat]]
  /\ \A b \in {"sdk", "naive"} : tally[b].confirmed <= tally[b].total
  /\ expired \in Nat
  /\ result \in Outcome \cup {"none"}

\* While a send runs its outcome is not told, and only the kit lands on devnet.
PipelineInv ==
  /\ PipelineTypeOK
  /\ running => steps["outcome"] = "idle"
  /\ phase = "landing" => sdkEnabled
  /\ PipelineTellsOutcome
  /\ ScoreboardIsTrue

\* As long as nothing has raced, only the connected wallet is asked about.
WalletInv ==
  /\ {wallet, signer, balance.of} \subseteq Wallets \cup {NoWallet}
  /\ {payable, balance.zero, loadingBalance, raced} \subseteq BOOLEAN
  /\ refreshing \in [Wallets -> Nat]
  /\ ~raced => InFlight \subseteq {wallet}
  /\ BalanceIsOwn

LabInv == MockTypeOK /\ ControlsTypeOK /\ PipelineInv /\ WalletInv

-----------------------------------------------------------------------------
(* The steps of the pipeline.                                              *)

\* The steps of a send whose outcome is not told yet.
Open(st) == st \in Steps /\ st["outcome"] = "idle"

LEMMA FreshIsOpen ==
  ASSUME NEW jito \in BOOLEAN, NEW naive \in BOOLEAN
  PROVE  Open(freshSteps(jito, naive))
         /\ \A i \in StepIds : freshSteps(jito, naive)[i] # "active"
BY DEF freshSteps, Open, Steps, Status, StepIds

LEMMA MarkKeepsOpen ==
  ASSUME NEW st, Open(st), NEW i \in StepIds \ {"outcome"}, NEW s \in Status
  PROVE  Open(mark(st, i, s)) /\ Open(tick(st, i))
BY DEF mark, tick, Open, Steps, Status, StepIds

\* The end of a send tells its outcome and leaves no step active.
LEMMA SettledSteps ==
  ASSUME NEW st, Open(st), NEW o \in Outcome
  PROVE  LET end == settleSteps(MarkOutcome(st, o), o) IN
         /\ end \in Steps
         /\ end["outcome"] = IF o = "confirmed" THEN "done" ELSE "failed"
         /\ \A i \in StepIds : end[i] # "active"
<1> DEFINE m == MarkOutcome(st, o)
<1>1. m \in Steps /\ m["outcome"] = IF o = "confirmed" THEN "done" ELSE "failed"
  BY DEF MarkOutcome, mark, Open, Steps, Status, StepIds
<1> HIDE DEF m
<1>2. "outcome" \in StepIds
  BY DEF StepIds
<1>3. settleSteps(m, o) \in Steps
  BY <1>1 DEF settleSteps, Steps, Status
<1>4. settleSteps(m, o)["outcome"] = m["outcome"]
  BY <1>1, <1>2 DEF settleSteps
<1>5. \A i \in StepIds : settleSteps(m, o)[i] # "active"
  BY DEF settleSteps
<1> QED
  BY <1>1, <1>3, <1>4, <1>5 DEF m

\* A send ends: its outcome is shown and counted (lines 463-474, 683-687).
LEMMA FinishKeeps ==
  ASSUME PipelineInv, ControlsTypeOK, NEW st, Open(st), NEW o \in Outcome,
         NEW recorded \in BOOLEAN, recorded => sdkEnabled,
         Finish(MarkOutcome(st, o), o, recorded), UNCHANGED controls,
         o = "confirmed" => tx' = "landed"
  PROVE  PipelineInv'
<1> USE DEF PipelineInv, PipelineTypeOK
<1>1. /\ steps' \in Steps
      /\ steps'["outcome"] = IF o = "confirmed" THEN "done" ELSE "failed"
      /\ \A i \in StepIds : steps'[i] # "active"
  BY SettledSteps DEF Finish
<1>2. /\ phase' = "idle" /\ result' = o /\ deadline' = 0
      /\ count' = [count EXCEPT !.polls = 0]
      /\ expired' = expired + (IF recorded /\ o = "expired" THEN 1 ELSE 0)
      /\ tally' = [tally EXCEPT ![Baseline] =
           [confirmed |-> @.confirmed + (IF o = "confirmed" THEN 1 ELSE 0),
            total |-> @.total + 1]]
  BY DEF Finish, recordOutcome
<1>3. count' \in [polls : Nat, sends : 0..MaxSends]
  BY <1>2
<1>4. Baseline \in {"sdk", "naive"} /\ (sdkEnabled => Baseline = "sdk")
  BY DEF Baseline
<1>5. /\ tally' \in [{"sdk", "naive"} -> [confirmed : Nat, total : Nat]]
      /\ \A b \in {"sdk", "naive"} : tally'[b].confirmed <= tally'[b].total
  BY <1>2, <1>4
<1>6. expired' \in Nat
  BY <1>2
<1>7. tally'["sdk"].confirmed + expired' <= tally'["sdk"].total
  <2>1. /\ tally["sdk"].confirmed + expired <= tally["sdk"].total
        /\ tally["sdk"].confirmed \in Nat /\ tally["sdk"].total \in Nat /\ expired \in Nat
    BY DEF ScoreboardIsTrue
  <2>2. CASE Baseline = "sdk"
    <3>1. /\ tally'["sdk"].confirmed = tally["sdk"].confirmed
                                        + (IF o = "confirmed" THEN 1 ELSE 0)
          /\ tally'["sdk"].total = tally["sdk"].total + 1
      BY <1>2, <2>2
    <3> QED
      BY <1>2, <2>1, <3>1
  <2>3. CASE Baseline # "sdk"
    <3>1. tally'["sdk"] = tally["sdk"] /\ expired' = expired
      BY <1>2, <1>4, <2>1, <2>3
    <3> QED
      BY <2>1, <3>1
  <2> QED
    BY <2>2, <2>3
<1>8. ScoreboardIsTrue'
  BY <1>2, <1>7 DEF ScoreboardIsTrue
<1>9. PipelineTellsOutcome'
  BY <1>1, <1>2 DEF PipelineTellsOutcome
<1> QED
  BY <1>1, <1>2, <1>3, <1>5, <1>6, <1>8, <1>9 DEF Phases, running

\* A send goes on to its next await, and tells nothing.
LEMMA GoesOnKeeps ==
  ASSUME PipelineInv, NEW st, Open(st), NEW p \in Phases \ {"idle"},
         p = "landing" => sdkEnabled, UNCHANGED controls,
         GoesOn(p, st) \/ Polled(p, st)
  PROVE  PipelineInv'
<1> USE DEF PipelineInv, PipelineTypeOK
<1>1. /\ phase' = p /\ steps' = st
      /\ UNCHANGED <<deadline, tally, expired, result>>
      /\ count' = count \/ count' = [count EXCEPT !.polls = @ + 1]
  BY DEF GoesOn, Polled
<1>2. count' \in [polls : Nat, sends : 0..MaxSends]
  BY <1>1
<1>3. running'
  BY <1>1 DEF running
<1>4. ScoreboardIsTrue'
  BY <1>1, <1>3 DEF ScoreboardIsTrue
<1>5. PipelineTellsOutcome'
  BY <1>3 DEF PipelineTellsOutcome
<1> QED
  BY <1>1, <1>2, <1>3, <1>4, <1>5 DEF Open, controls

\* Nothing of the pipeline moves, and a transaction that landed stays so.
LEMMA PipelineRests ==
  ASSUME PipelineInv, UNCHANGED <<pipeline, sdkEnabled>>, tx = "landed" => tx' = "landed"
  PROVE  PipelineInv'
BY DEF PipelineInv, PipelineTypeOK, pipeline, running, PipelineTellsOutcome, ScoreboardIsTrue

\* A control moves while no send runs.
LEMMA PipelineIgnoresControls ==
  ASSUME PipelineInv, ~running, UNCHANGED <<mockVars, pipeline>>
  PROVE  PipelineInv'
BY DEF PipelineInv, PipelineTypeOK, pipeline, mockVars, running, PipelineTellsOutcome,
       ScoreboardIsTrue

-----------------------------------------------------------------------------
(* The wallet and its balance.                                             *)

\* A step that leaves the wallet and asks at most for its own balance.
LEMMA WalletKept ==
  ASSUME WalletInv, signer' \in Wallets \cup {NoWallet}, payable' \in BOOLEAN,
         UNCHANGED <<wallet, balance, raced>>,
         \/ UNCHANGED <<refreshing, loadingBalance>>
         \/ wallet # NoWallet /\ StartRefresh(wallet)
  PROVE  WalletInv'
<1> USE DEF WalletInv
<1>1. CASE UNCHANGED <<refreshing, loadingBalance>>
  BY <1>1 DEF BalanceIsOwn, InFlight
<1>2. CASE wallet # NoWallet /\ StartRefresh(wallet)
  <2>1. wallet \in Wallets
    BY <1>2
  <2>2. refreshing' \in [Wallets -> Nat] /\ loadingBalance' = TRUE
    BY <1>2, <2>1 DEF StartRefresh
  <2>3. InFlight' \subseteq InFlight \cup {wallet}
    BY <1>2, <2>1 DEF StartRefresh, InFlight
  <2> QED
    BY <2>2, <2>3 DEF BalanceIsOwn
<1> QED
  BY <1>1, <1>2

LEMMA WalletRests == WalletInv /\ UNCHANGED devnetVars => WalletInv'
BY DEF WalletInv, devnetVars, BalanceIsOwn, InFlight

\* The wallet effect: connect, change or disconnect (lines 384-417).
LEMMA WalletChanges ==
  ASSUME WalletInv, NEW w \in Wallets \cup {NoWallet}, setWallet(w)
  PROVE  WalletInv'
<1> USE DEF WalletInv
<1>1. /\ wallet' = w /\ UNCHANGED <<signer, payable>>
      /\ raced' = (InFlight # {} \/ (raced /\ w # NoWallet))
  BY DEF setWallet
<1>2. raced' \in BOOLEAN /\ (~raced' => InFlight = {})
  BY <1>1
<1>3. CASE w = NoWallet
  <2>1. balance' = NoBalance /\ UNCHANGED <<refreshing, loadingBalance>>
    BY <1>3 DEF setWallet
  <2>2. balance'.of = NoWallet /\ balance'.zero = FALSE
    BY <2>1 DEF NoBalance
  <2>3. BalanceIsOwn'
    BY <2>1 DEF BalanceIsOwn, NoBalance
  <2>4. InFlight' = InFlight
    BY <2>1 DEF InFlight
  <2> QED
    BY <1>1, <1>2, <2>1, <2>2, <2>3, <2>4
<1>4. CASE w # NoWallet
  <2>1. StartRefresh(w) /\ UNCHANGED balance /\ w \in Wallets
    BY <1>4 DEF setWallet
  <2>2. refreshing' \in [Wallets -> Nat] /\ loadingBalance' = TRUE
    BY <2>1 DEF StartRefresh
  <2>3. InFlight' \subseteq InFlight \cup {w}
    BY <2>1 DEF StartRefresh, InFlight
  <2>4. BalanceIsOwn'
    BY <2>2 DEF BalanceIsOwn
  <2> QED
    BY <1>1, <1>2, <2>1, <2>2, <2>3, <2>4
<1> QED
  BY <1>3, <1>4

\* A balance check ends, for a wallet that may be gone (lines 400-417).
LEMMA BalanceKeeps ==
  ASSUME WalletInv, NEW w \in Wallets, BalanceArrives(w)
  PROVE  WalletInv'
<1> USE DEF WalletInv
<1>1. /\ w \in InFlight /\ refreshing[w] > 0
      /\ refreshing' = [refreshing EXCEPT ![w] = @ - 1]
      /\ loadingBalance' = FALSE
      /\ UNCHANGED <<wallet, signer, payable>>
  BY DEF BalanceArrives, InFlight
<1>2. refreshing' \in [Wallets -> Nat]
  BY <1>1
<1>3. InFlight' \subseteq InFlight
  BY <1>1 DEF InFlight
<1>4. CASE raced' = TRUE /\ UNCHANGED balance
  BY <1>1, <1>2, <1>4 DEF BalanceIsOwn
<1>5. CASE /\ \E zero \in BOOLEAN : balance' = [of |-> w, zero |-> zero]
           /\ raced' = (raced /\ (w # wallet \/ InFlight # {w} \/ refreshing[w] > 1))
  <2>1. balance'.of = w /\ balance'.zero \in BOOLEAN
    BY <1>5
  <2>2. raced' \in BOOLEAN
    BY <1>5
  <2>3. ASSUME ~raced'
        PROVE  w = wallet /\ InFlight' \subseteq {wallet}
    BY <1>1, <1>3, <1>5, <2>3
  <2>4. BalanceIsOwn'
    BY <1>1, <2>1, <2>3 DEF BalanceIsOwn
  <2> QED
    BY <1>1, <1>2, <2>1, <2>2, <2>3, <2>4
<1> QED
  BY <1>4, <1>5 DEF BalanceArrives

-----------------------------------------------------------------------------
(* The cluster.                                                            *)

LEMMA ClusterKept ==
  ASSUME MockTypeOK,
         \/ UNCHANGED mockVars
         \/ NewSignature
         \/ advanceSlots
         \/ \E dropped \in BOOLEAN : rpcSendTransaction(dropped)
         \/ tx' \in {"pending", "landed", "reverted"} /\ UNCHANGED <<blockHeight, landAt>>
  PROVE  MockTypeOK'
<1> USE DEF MockTypeOK
<1>1. CASE UNCHANGED mockVars
  BY <1>1 DEF mockVars
<1>2. CASE NewSignature
  BY <1>2 DEF NewSignature
<1>3. CASE advanceSlots
  BY <1>3 DEF advanceSlots
<1>4. ASSUME NEW dropped \in BOOLEAN, rpcSendTransaction(dropped)
      PROVE  MockTypeOK'
  BY <1>4 DEF rpcSendTransaction
<1>5. CASE tx' \in {"pending", "landed", "reverted"} /\ UNCHANGED <<blockHeight, landAt>>
  BY <1>5
<1> QED
  BY <1>1, <1>2, <1>3, <1>4, <1>5

\* A step of the wallet disturbs nothing else.
LEMMA OthersRest ==
  ASSUME LabInv, UNCHANGED <<mockVars, controls, pipeline>>, WalletInv'
  PROVE  LabInv'
<1>1. ControlsTypeOK'
  BY DEF LabInv, ControlsTypeOK, controls
<1>2. PipelineInv'
  BY PipelineRests DEF LabInv, controls, mockVars
<1>3. MockTypeOK'
  BY ClusterKept DEF LabInv
<1> QED
  BY <1>1, <1>2, <1>3 DEF LabInv

LEMMA PinIsStep == Pin \in StepIds \ {"outcome"}
BY DEF Pin, StepIds

-----------------------------------------------------------------------------
(* The steps of the lab.                                                   *)

LEMMA LabInvHolds == LabInit => LabInv
<1> SUFFICES ASSUME LabInit
             PROVE  LabInv
  OBVIOUS
<1> USE DEF LabInit
<1>1. MockTypeOK
  BY DEF MockInit, MockTypeOK
<1>2. ControlsTypeOK
  BY DEF ControlsTypeOK, Scenarios
<1>3. Open(steps) /\ \A i \in StepIds : steps[i] # "active"
  BY FreshIsOpen
<1>4. PipelineInv
  <2>1. MaxSends \in Nat
    BY LabAssumption
  <2>2. count \in [polls : Nat, sends : 0..MaxSends]
    BY <2>1
  <2>3. /\ tally \in [{"sdk", "naive"} -> [confirmed : Nat, total : Nat]]
        /\ \A b \in {"sdk", "naive"} : tally[b].confirmed = 0 /\ tally[b].total = 0
    OBVIOUS
  <2>4. /\ phase = "idle" /\ deadline = 0 /\ expired = 0 /\ result = "none"
        /\ steps \in Steps /\ steps["outcome"] = "idle"
    BY <1>3 DEF Open
  <2> QED
    <3> HIDE DEF LabInit
    <3>1. PipelineTypeOK
      BY <2>2, <2>3, <2>4 DEF PipelineTypeOK, Phases
    <3>2. PipelineTellsOutcome /\ ScoreboardIsTrue
      BY <2>3, <2>4 DEF PipelineTellsOutcome, ScoreboardIsTrue
    <3> QED
      BY <2>4, <3>1, <3>2 DEF PipelineInv, running
<1>5. WalletInv
  <2>1. refreshing \in [Wallets -> Nat] /\ InFlight = {}
    BY DEF InFlight
  <2>2. balance = NoBalance /\ balance.of = NoWallet /\ balance.zero = FALSE
    BY DEF NoBalance
  <2> QED
    BY <2>1, <2>2 DEF WalletInv, BalanceIsOwn
<1> QED
  BY <1>1, <1>2, <1>4, <1>5 DEF LabInv

\* A new send: the steps are fresh, nothing of the last one counts.
LEMMA BeginsKeeps ==
  ASSUME PipelineInv, NEW st, Open(st), NEW p \in {"bundle", "broadcast", "blockhash"},
         Begins(st, p), deadline' \in Nat, result' = "none"
  PROVE  PipelineInv'
<1> USE DEF PipelineInv, PipelineTypeOK
<1>1. /\ count' = [polls |-> 0, sends |-> count.sends + 1] /\ count.sends < MaxSends
      /\ steps' = mark(st, "submit", "done") /\ phase' = p
      /\ UNCHANGED <<tally, expired>> /\ UNCHANGED controls
  BY DEF Begins
<1>2. count' \in [polls : Nat, sends : 0..MaxSends]
  BY <1>1, LabAssumption
<1>3. Open(steps')
  BY <1>1, MarkKeepsOpen DEF StepIds, Status
<1>4. running' /\ phase' # "landing" /\ phase' \in Phases
  BY <1>1 DEF running, Phases
<1>5. ScoreboardIsTrue'
  BY <1>1, <1>4 DEF ScoreboardIsTrue
<1>6. PipelineTellsOutcome'
  BY <1>4 DEF PipelineTellsOutcome
<1> QED
  BY <1>1, <1>2, <1>3, <1>4, <1>5, <1>6 DEF Open

LEMMA UserKeeps == LabInv /\ UserStep => LabInv'
<1> SUFFICES ASSUME LabInv, UserStep
             PROVE  LabInv'
  OBVIOUS
<1> USE DEF LabInv
<1>1. CASE reset
  <2>1. MockTypeOK'
    BY <1>1 DEF reset, MockTypeOK
  <2>2. ControlsTypeOK'
    BY <1>1 DEF reset, ControlsTypeOK, Scenarios
  <2>3. viaJito \in BOOLEAN /\ (~sdkEnabled) \in BOOLEAN
    BY DEF ControlsTypeOK
  <2>4. Open(steps')
    BY <1>1, <2>3, FreshIsOpen DEF reset
  <2>5. /\ tally' = [b \in {"sdk", "naive"} |-> [confirmed |-> 0, total |-> 0]]
        /\ count' = [polls |-> 0, sends |-> 0]
        /\ deadline' = 0 /\ expired' = 0 /\ result' = "none"
        /\ phase' = phase /\ ~running
    BY <1>1 DEF reset
  <2>6. PipelineInv'
    BY <2>4, <2>5, LabAssumption
       DEF PipelineInv, PipelineTypeOK, Open, running, PipelineTellsOutcome, ScoreboardIsTrue
  <2>7. WalletInv'
    BY <1>1, WalletRests DEF reset
  <2> QED
    BY <2>1, <2>2, <2>6, <2>7
<1>2. ASSUME NEW n \in {"sim", "devnet"}, setNetwork(n)
      PROVE  LabInv'
  <2>1. MockTypeOK'
    BY <1>2, ClusterKept DEF setNetwork
  <2>2. ControlsTypeOK'
    BY <1>2 DEF setNetwork, ControlsTypeOK
  <2>3. (~sdkEnabled) \in BOOLEAN
    BY DEF ControlsTypeOK
  <2>4. Open(steps')
    BY <1>2, <2>3, FreshIsOpen DEF setNetwork
  <2>5. UNCHANGED <<phase, count, deadline, tally, expired, result, tx>> /\ ~running
    BY <1>2 DEF setNetwork, mockVars
  <2>6. PipelineInv'
    BY <2>4, <2>5
       DEF PipelineInv, PipelineTypeOK, Open, running, PipelineTellsOutcome, ScoreboardIsTrue
  <2>7. WalletInv'
    BY <1>2, WalletRests DEF setNetwork
  <2> QED
    BY <2>1, <2>2, <2>6, <2>7
<1>3. CASE (\E s \in Scenarios : applyScenario(s)) \/ setViaJito \/ setSdkEnabled
  <2>1. ~running /\ UNCHANGED <<mockVars, pipeline, devnetVars>>
    BY <1>3 DEF applyScenario, setViaJito, setSdkEnabled
  <2>2. ControlsTypeOK'
    BY <1>3 DEF applyScenario, setViaJito, setSdkEnabled, ControlsTypeOK
  <2> QED
    BY <2>1, <2>2, ClusterKept, PipelineIgnoresControls, WalletRests
<1>4. ASSUME NEW w \in Wallets \cup {NoWallet}, setWallet(w)
      PROVE  LabInv'
  <2>1. UNCHANGED <<mockVars, controls, pipeline>>
    BY <1>4 DEF setWallet
  <2> QED
    BY <1>4, <2>1, WalletChanges, OthersRest
<1>5. CASE refreshBalance
  <2>1. UNCHANGED <<mockVars, controls, pipeline>>
    BY <1>5 DEF refreshBalance
  <2>2. /\ UNCHANGED <<wallet, signer, payable, balance, raced>>
        /\ wallet # NoWallet /\ StartRefresh(wallet)
    BY <1>5 DEF refreshBalance
  <2>3. WalletInv'
    <3>1. signer' \in Wallets \cup {NoWallet} /\ payable' \in BOOLEAN
      BY <2>2 DEF WalletInv
    <3> QED
      BY <2>2, <3>1, WalletKept
  <2> QED
    BY <2>1, <2>3, OthersRest
<1>6. CASE SendSimulated
  <2> DEFINE fresh == freshSteps(viaJito, ~sdkEnabled)
             st == IF viaJito THEN mark(mark(fresh, "route", "active"), "bundle", "active")
                   ELSE IF sdkEnabled THEN mark(fresh, "route", "active")
                   ELSE mark(mark(fresh, "pin", "done"), "broadcast", "active")
             p == IF viaJito THEN "bundle" ELSE "broadcast"
  <2>1. /\ Begins(st, p) /\ deadline' = blockHeight + SendWindow /\ result' = "none"
        /\ NewSignature /\ UNCHANGED devnetVars
    BY <1>6 DEF SendSimulated
  <2>2. Open(fresh)
    <3>1. viaJito \in BOOLEAN /\ (~sdkEnabled) \in BOOLEAN
      BY DEF ControlsTypeOK
    <3> QED
      BY <3>1, FreshIsOpen
  <2>3. Open(st)
    <3> HIDE DEF fresh
    <3>1. /\ "active" \in Status /\ "done" \in Status
          /\ {"route", "bundle", "pin", "broadcast"} \subseteq StepIds \ {"outcome"}
      BY DEF Status, StepIds
    <3>2. /\ Open(mark(fresh, "route", "active"))
          /\ Open(mark(mark(fresh, "route", "active"), "bundle", "active"))
          /\ Open(mark(fresh, "pin", "done"))
          /\ Open(mark(mark(fresh, "pin", "done"), "broadcast", "active"))
      BY <2>2, <3>1, MarkKeepsOpen
    <3> QED
      BY <3>2
  <2>4. deadline' \in Nat
    BY <2>1, LabAssumption DEF MockTypeOK
  <2>5. p \in {"bundle", "broadcast", "blockhash"}
    OBVIOUS
  <2>6. PipelineInv'
    <3> HIDE DEF st, p
    <3> QED
      BY <2>1, <2>3, <2>4, <2>5, BeginsKeeps
  <2>7. UNCHANGED controls
    BY <2>1 DEF Begins
  <2> QED
    BY <2>1, <2>6, <2>7, ClusterKept, WalletRests DEF ControlsTypeOK, controls
<1>7. CASE SendDevnet
  <2> DEFINE fresh == freshSteps(FALSE, ~sdkEnabled)
             st == mark(fresh, Pin, "active")
  <2>1. /\ Begins(st, "blockhash") /\ result' = "none" /\ NewSignature
        /\ signer' = wallet
        /\ UNCHANGED <<deadline, wallet, payable, balance, loadingBalance, refreshing, raced>>
    BY <1>7 DEF SendDevnet
  <2>2. Open(fresh)
    <3>1. (~sdkEnabled) \in BOOLEAN
      BY DEF ControlsTypeOK
    <3> QED
      BY <3>1, FreshIsOpen
  <2>3. Open(st)
    BY <2>2, PinIsStep, MarkKeepsOpen DEF Status
  <2>4. deadline' \in Nat
    BY <2>1 DEF PipelineInv, PipelineTypeOK
  <2>5. PipelineInv'
    BY <2>1, <2>3, <2>4, BeginsKeeps
  <2>6. UNCHANGED controls
    BY <2>1 DEF Begins
  <2>7. WalletInv'
    <3>1. signer' \in Wallets \cup {NoWallet} /\ payable' \in BOOLEAN
      BY <2>1 DEF WalletInv
    <3> QED
      BY <2>1, <3>1, WalletKept
  <2> QED
    BY <2>1, <2>5, <2>6, <2>7, ClusterKept DEF ControlsTypeOK, controls
<1>8. CASE SendUnfunded
  <2> DEFINE st == mark(freshSteps(FALSE, ~sdkEnabled), "submit", "done")
  <2>1. /\ ~running /\ count.sends < MaxSends
        /\ steps' = settleSteps(MarkOutcome(st, "failed"), "failed")
        /\ recordOutcome("failed")
        /\ count' = [count EXCEPT !.sends = @ + 1]
        /\ result' = "failed" /\ NewSignature
        /\ UNCHANGED <<controls, phase, deadline, expired, devnetVars>>
    BY <1>8 DEF SendUnfunded
  <2>2. Open(st)
    <3>1. (~sdkEnabled) \in BOOLEAN
      BY DEF ControlsTypeOK
    <3> QED
      BY <3>1, FreshIsOpen, MarkKeepsOpen DEF Status, StepIds
  <2>3. "failed" \in Outcome
    BY DEF Outcome
  <2>4. /\ steps' \in Steps /\ steps'["outcome"] = "failed"
        /\ \A i \in StepIds : steps'[i] # "active"
    <3> HIDE DEF st
    <3> QED
      BY <2>1, <2>2, <2>3, SettledSteps
  <2>5. /\ Baseline \in {"sdk", "naive"}
        /\ tally' = [tally EXCEPT ![Baseline] =
             [confirmed |-> @.confirmed + 0, total |-> @.total + 1]]
    BY <2>1 DEF Baseline, recordOutcome
  <2>6. /\ tally' \in [{"sdk", "naive"} -> [confirmed : Nat, total : Nat]]
        /\ \A b \in {"sdk", "naive"} : /\ tally'[b].confirmed = tally[b].confirmed
                                       /\ tally'[b].total >= tally[b].total
    BY <2>5 DEF PipelineInv, PipelineTypeOK
  <2>7. count' \in [polls : Nat, sends : 0..MaxSends]
    BY <2>1, LabAssumption DEF PipelineInv, PipelineTypeOK
  <2>8. PipelineTypeOK'
    <3>1. \A b \in {"sdk", "naive"} : tally'[b].confirmed <= tally'[b].total
      BY <2>6 DEF PipelineInv, PipelineTypeOK
    <3>2. UNCHANGED <<phase, deadline, expired>> /\ result' \in Outcome \cup {"none"}
      BY <2>1, <2>3
    <3> QED
      BY <2>4, <2>6, <2>7, <3>1, <3>2 DEF PipelineInv, PipelineTypeOK
  <2>9. ScoreboardIsTrue'
    BY <2>1, <2>6 DEF PipelineInv, PipelineTypeOK, ScoreboardIsTrue
  <2>10. PipelineInv'
    BY <2>1, <2>4, <2>8, <2>9 DEF PipelineInv, PipelineTellsOutcome, running
  <2> QED
    BY <2>1, <2>10, ClusterKept, WalletRests DEF ControlsTypeOK, controls
<1> QED
  BY <1>1, <1>2, <1>3, <1>4, <1>5, <1>6, <1>7, <1>8 DEF UserStep

LEMMA StepKeeps ==
  ASSUME LabInv, UNCHANGED controls, MockTypeOK', PipelineInv', WalletInv'
  PROVE  LabInv'
BY DEF LabInv, ControlsTypeOK, controls

LEMMA RunningIsOpen == PipelineInv /\ running => Open(steps)
BY DEF PipelineInv, PipelineTypeOK, Open

\* The sender or the router returned: only the kit calls them.
LEMMA KitReturnKeeps ==
  ASSUME PipelineInv, ControlsTypeOK, running, sdkEnabled, UNCHANGED controls,
         NEW o \in Outcome, KitReturns(o), o = "confirmed" => tx' = "landed"
  PROVE  PipelineInv'
<1> DEFINE st == IF Jito THEN mark(steps, "bundle", "failed") ELSE steps
           end == mark(mark(mark(st, "route", "done"), "broadcast", "done"),
                       "confirm", "done")
<1>1. Open(st)
  BY RunningIsOpen, MarkKeepsOpen DEF StepIds, Status
<1>2. Open(end)
  <2> HIDE DEF st
  <2>1. Open(mark(mark(st, "route", "done"), "broadcast", "done"))
    BY <1>1, MarkKeepsOpen DEF StepIds, Status
  <2> QED
    BY <2>1, MarkKeepsOpen DEF StepIds, Status
<1>3. Finish(MarkOutcome(end, o), o, TRUE)
  BY DEF KitReturns
<1> HIDE DEF st, end
<1> QED
  BY <1>2, <1>3, FinishKeeps

LEMMA NaivePollKeeps ==
  ASSUME PipelineInv, ControlsTypeOK, running, UNCHANGED controls,
         NEW seen \in BOOLEAN, NaivePolled(seen), seen => tx' = "landed"
  PROVE  PipelineInv'
<1> DEFINE st == tick(steps, "confirm")
           end == mark(st, "confirm", "done")
<1>1. Open(st)
  BY RunningIsOpen, MarkKeepsOpen DEF StepIds, Status
<1>2. Open(end)
  <2> HIDE DEF st
  <2> QED
    BY <1>1, MarkKeepsOpen DEF StepIds, Status
<1>3. \/ seen /\ Finish(MarkOutcome(end, "confirmed"), "confirmed", FALSE)
      \/ Polled("poll", st)
      \/ Finish(MarkOutcome(end, "expired"), "expired", FALSE)
  BY DEF NaivePolled
<1> HIDE DEF st, end
<1>4. "confirmed" \in Outcome /\ "expired" \in Outcome /\ "poll" \in Phases \ {"idle"}
  BY DEF Outcome, Phases
<1>5. CASE seen /\ Finish(MarkOutcome(end, "confirmed"), "confirmed", FALSE)
  BY <1>2, <1>4, <1>5, FinishKeeps
<1>6. CASE Polled("poll", st)
  BY <1>1, <1>4, <1>6, GoesOnKeeps
<1>7. CASE Finish(MarkOutcome(end, "expired"), "expired", FALSE)
  BY <1>2, <1>4, <1>7, FinishKeeps
<1> QED
  BY <1>3, <1>5, <1>6, <1>7

\* send() catches what is thrown.
LEMMA ThrowKeeps ==
  ASSUME PipelineInv, ControlsTypeOK, NEW st, Open(st), UNCHANGED controls, Throws(st)
  PROVE  PipelineInv'
<1>1. Finish(MarkOutcome(st, "failed"), "failed", FALSE) /\ "failed" \in Outcome
  BY DEF Throws, MarkOutcome, Outcome
<1> QED
  BY <1>1, FinishKeeps

\* The end of runDevnet leaves the wallet alone, but may ask for its balance.
LEMMA RefreshKeeps ==
  ASSUME WalletInv, UNCHANGED <<wallet, signer, payable, balance, raced>>,
         RefreshAgain \/ UNCHANGED <<refreshing, loadingBalance>>
  PROVE  WalletInv'
<1>1. signer' \in Wallets \cup {NoWallet} /\ payable' \in BOOLEAN
  BY DEF WalletInv
<1>2. \/ UNCHANGED <<refreshing, loadingBalance>>
      \/ wallet # NoWallet /\ StartRefresh(wallet)
  BY DEF RefreshAgain
<1> QED
  BY <1>1, <1>2, WalletKept

LEMMA SimulationKeeps ==
  LabInv /\ (BundleLands \/ BundlePends \/ KitBroadcasts \/ KitPolls \/ KitSleeps
             \/ NaiveBroadcasts \/ NaivePollsSimulated)
    => LabInv'
<1> SUFFICES ASSUME LabInv,
                    \/ BundleLands \/ BundlePends \/ KitBroadcasts \/ KitPolls \/ KitSleeps
                    \/ NaiveBroadcasts \/ NaivePollsSimulated
             PROVE  LabInv'
  OBVIOUS
<1> USE DEF LabInv
<1>1. Outcome = {"confirmed", "expired", "failed"}
  BY DEF Outcome
<1>2. {"bundle", "broadcast", "poll", "sleep"} \subseteq Phases \ {"idle", "landing"}
  BY DEF Phases
<1>3. /\ {"route", "bundle", "broadcast", "rebroadcast", "confirm"} \subseteq StepIds \ {"outcome"}
      /\ {"skipped", "done", "failed"} \subseteq Status
  BY DEF StepIds, Status
<1>4. /\ running /\ Open(steps)
      /\ UNCHANGED controls /\ UNCHANGED devnetVars
  <2>1. running
    BY DEF BundleLands, BundlePends, KitBroadcasts, KitPolls, KitSleeps, NaiveBroadcasts,
           NaivePollsSimulated, running
  <2>2. UNCHANGED controls /\ UNCHANGED devnetVars
    BY DEF BundleLands, BundlePends, KitBroadcasts, KitPolls, KitSleeps, NaiveBroadcasts,
           NaivePollsSimulated
  <2> QED
    BY <2>1, <2>2, RunningIsOpen
<1>5. WalletInv'
  BY <1>4, WalletRests
<1>6. CASE BundleLands
  <2> DEFINE s1 == mark(steps, "broadcast", "skipped")
             s2 == mark(s1, "rebroadcast", "skipped")
             s3 == mark(s2, "bundle", "done")
             s4 == mark(s3, "route", "done")
             st == mark(s4, "confirm", "done")
  <2>1. Open(s1)
    BY <1>3, <1>4, MarkKeepsOpen
  <2>2. Open(s2)
    <3> HIDE DEF s1
    <3> QED
      BY <1>3, <2>1, MarkKeepsOpen
  <2>3. Open(s3)
    <3> HIDE DEF s2
    <3> QED
      BY <1>3, <2>2, MarkKeepsOpen
  <2>4. Open(s4)
    <3> HIDE DEF s3
    <3> QED
      BY <1>3, <2>3, MarkKeepsOpen
  <2>5. Open(st)
    <3> HIDE DEF s4
    <3> QED
      BY <1>3, <2>4, MarkKeepsOpen
  <2>6. /\ Finish(MarkOutcome(st, "confirmed"), "confirmed", FALSE)
        /\ tx' = "landed" /\ UNCHANGED <<blockHeight, landAt>>
    BY <1>6 DEF BundleLands
  <2>7. PipelineInv'
    <3> HIDE DEF st
    <3> QED
      BY <1>1, <1>4, <2>5, <2>6, FinishKeeps
  <2>8. MockTypeOK'
    BY <2>6, ClusterKept
  <2> QED
    BY <1>4, <1>5, <2>7, <2>8, StepKeeps
<1>7. CASE BundlePends
  <2> DEFINE st == tick(steps, "confirm")
             end == mark(st, "bundle", "failed")
  <2>1. Open(st)
    BY <1>3, <1>4, MarkKeepsOpen DEF Status
  <2>2. Open(end)
    <3> HIDE DEF st
    <3> QED
      BY <1>3, <2>1, MarkKeepsOpen
  <2>3. /\ advanceSlots
        /\ \/ Polled("bundle", st)
           \/ Polled("broadcast", st)
           \/ Finish(MarkOutcome(end, "expired"), "expired", FALSE)
    BY <1>7 DEF BundlePends
  <2>4. PipelineInv'
    <3> HIDE DEF st, end
    <3>1. CASE Polled("bundle", st) \/ Polled("broadcast", st)
      BY <1>2, <1>4, <2>1, <3>1, GoesOnKeeps
    <3>2. CASE Finish(MarkOutcome(end, "expired"), "expired", FALSE)
      BY <1>1, <1>4, <2>2, <3>2, FinishKeeps
    <3> QED
      BY <2>3, <3>1, <3>2
  <2>5. MockTypeOK'
    BY <2>3, ClusterKept
  <2> QED
    BY <1>4, <1>5, <2>4, <2>5, StepKeeps
<1>8. CASE KitBroadcasts
  <2> DEFINE st == mark(steps, "route", "done")
  <2>1. Open(st)
    BY <1>3, <1>4, MarkKeepsOpen
  <2>2. Open(SinkBroadcast(steps))
    <3>1. "active" \in Status
      BY DEF Status
    <3> HIDE DEF st
    <3>2. Open(mark(st, "broadcast", "active"))
      BY <1>3, <2>1, <3>1, MarkKeepsOpen
    <3> QED
      BY <3>2 DEF SinkBroadcast, st
  <2>3. PipelineInv'
    BY <1>2, <1>4, <1>8, <2>2, GoesOnKeeps DEF KitBroadcasts
  <2>4. \E dropped \in BOOLEAN : rpcSendTransaction(dropped)
    BY <1>8 DEF KitBroadcasts
  <2> QED
    BY <1>4, <1>5, <2>3, <2>4, ClusterKept, StepKeeps
<1>9. CASE KitPolls
  <2>1. sdkEnabled /\ UNCHANGED mockVars /\ tx' = tx
    BY <1>9 DEF KitPolls, mockVars
  <2>2. \/ HasStatus /\ KitReturns("confirmed")
        \/ KitReturns("expired")
        \/ GoesOn("sleep", steps)
    BY <1>9 DEF KitPolls
  <2>3. PipelineInv'
    <3>1. CASE HasStatus /\ KitReturns("confirmed")
      BY <1>1, <1>4, <2>1, <3>1, KitReturnKeeps DEF HasStatus
    <3>2. CASE KitReturns("expired")
      BY <1>1, <1>4, <2>1, <3>2, KitReturnKeeps
    <3>3. CASE GoesOn("sleep", steps)
      BY <1>2, <1>4, <3>3, GoesOnKeeps
    <3> QED
      BY <2>2, <3>1, <3>2, <3>3
  <2> QED
    BY <1>4, <1>5, <2>1, <2>3, ClusterKept, StepKeeps
<1>10. CASE KitSleeps
  <2> DEFINE s1 == mark(steps, "route", "done")
             s2 == mark(s1, "broadcast", "active")
             s3 == mark(s2, "broadcast", "done")
             s4 == tick(s3, "rebroadcast")
             st == tick(s4, "confirm")
  <2>1. "active" \in Status
    BY DEF Status
  <2>2. Open(s1)
    BY <1>3, <1>4, MarkKeepsOpen
  <2>3. Open(s2)
    <3> HIDE DEF s1
    <3> QED
      BY <1>3, <2>1, <2>2, MarkKeepsOpen
  <2>4. Open(s3)
    <3> HIDE DEF s2
    <3> QED
      BY <1>3, <2>3, MarkKeepsOpen
  <2>5. Open(s4)
    <3> HIDE DEF s3
    <3> QED
      BY <1>3, <2>1, <2>4, MarkKeepsOpen
  <2>6. Open(st)
    <3> HIDE DEF s4
    <3> QED
      BY <1>3, <2>1, <2>5, MarkKeepsOpen
  <2>7. advanceSlots /\ GoesOn("poll", st)
    BY <1>10 DEF KitSleeps, SinkBroadcast
  <2>8. PipelineInv'
    <3> HIDE DEF st
    <3> QED
      BY <1>2, <1>4, <2>6, <2>7, GoesOnKeeps
  <2> QED
    BY <1>4, <1>5, <2>7, <2>8, ClusterKept, StepKeeps
<1>11. CASE NaiveBroadcasts
  <2>1. Open(mark(steps, "broadcast", "failed")) /\ Open(mark(steps, "broadcast", "done"))
    BY <1>3, <1>4, MarkKeepsOpen
  <2>2. \/ /\ Finish(MarkOutcome(mark(steps, "broadcast", "failed"), "failed"), "failed", FALSE)
           /\ UNCHANGED mockVars
        \/ /\ \E dropped \in BOOLEAN : rpcSendTransaction(dropped)
           /\ GoesOn("poll", mark(steps, "broadcast", "done"))
    BY <1>11 DEF NaiveBroadcasts
  <2>3. CASE /\ Finish(MarkOutcome(mark(steps, "broadcast", "failed"), "failed"), "failed", FALSE)
             /\ UNCHANGED mockVars
    <3>1. PipelineInv'
      BY <1>1, <1>4, <2>1, <2>3, FinishKeeps
    <3> QED
      BY <1>4, <1>5, <2>3, <3>1, ClusterKept, StepKeeps
  <2>4. CASE /\ \E dropped \in BOOLEAN : rpcSendTransaction(dropped)
             /\ GoesOn("poll", mark(steps, "broadcast", "done"))
    <3>1. PipelineInv'
      BY <1>2, <1>4, <2>1, <2>4, GoesOnKeeps
    <3> QED
      BY <1>4, <1>5, <2>4, <3>1, ClusterKept, StepKeeps
  <2> QED
    BY <2>2, <2>3, <2>4
<1>12. CASE NaivePollsSimulated
  <2>1. PICK seen \in BOOLEAN :
          /\ seen => HasStatus
          /\ NaivePolled(seen)
          /\ IF seen THEN UNCHANGED mockVars ELSE advanceSlots
    BY <1>12 DEF NaivePollsSimulated, HasStatus
  <2>2. seen => tx' = "landed"
    BY <2>1 DEF HasStatus, mockVars
  <2>3. PipelineInv'
    BY <1>4, <2>1, <2>2, NaivePollKeeps
  <2>4. MockTypeOK'
    BY <2>1, ClusterKept
  <2> QED
    BY <1>4, <1>5, <2>3, <2>4, StepKeeps
<1> QED
  BY <1>6, <1>7, <1>8, <1>9, <1>10, <1>11, <1>12

LEMMA DevnetKeeps ==
  LabInv /\ (BlockhashArrives \/ BlockhashFails \/ SigningRejected \/ Signed
             \/ (\E o \in Outcome : LandingReturns(o)) \/ LandingThrows \/ ShotReturns
             \/ ShotFails \/ NaivePollsDevnet \/ NaivePollThrows \/ KitRebroadcasts)
    => LabInv'
<1> SUFFICES ASSUME LabInv,
                    \/ BlockhashArrives \/ BlockhashFails \/ SigningRejected \/ Signed
                    \/ \E o \in Outcome : LandingReturns(o)
                    \/ LandingThrows \/ ShotReturns \/ ShotFails \/ NaivePollsDevnet
                    \/ NaivePollThrows \/ KitRebroadcasts
             PROVE  LabInv'
  OBVIOUS
<1> USE DEF LabInv
<1>1. Outcome = {"confirmed", "expired", "failed"}
  BY DEF Outcome
<1>2. {"signing", "landing", "shot", "poll"} \subseteq Phases \ {"idle"}
  BY DEF Phases
<1>3. /\ {Pin, "broadcast", "rebroadcast", "confirm"} \subseteq StepIds \ {"outcome"}
      /\ {"active", "done", "failed"} \subseteq Status
  BY PinIsStep DEF StepIds, Status
<1>4. /\ running /\ Open(steps)
      /\ UNCHANGED controls /\ UNCHANGED mockVars
  <2>1. running
    BY DEF BlockhashArrives, BlockhashFails, SigningRejected, Signed, LandingReturns,
           LandingThrows, ShotReturns, ShotFails, NaivePollsDevnet, NaivePollThrows,
           KitRebroadcasts, running
  <2>2. UNCHANGED controls /\ UNCHANGED mockVars
    BY DEF BlockhashArrives, BlockhashFails, SigningRejected, Signed, LandingReturns,
           LandingThrows, ShotReturns, ShotFails, NaivePollsDevnet, NaivePollThrows,
           KitRebroadcasts
  <2> QED
    BY <2>1, <2>2, RunningIsOpen
<1>5. MockTypeOK' /\ tx' = tx
  BY <1>4, ClusterKept DEF mockVars
<1>6. CASE BlockhashArrives
  <2>1. /\ Throws(steps) \/ GoesOn("signing", steps)
        /\ payable' = (wallet = signer)
        /\ UNCHANGED <<wallet, signer, balance, loadingBalance, refreshing, raced>>
    BY <1>6 DEF BlockhashArrives
  <2>2. PipelineInv'
    BY <1>2, <1>4, <2>1, ThrowKeeps, GoesOnKeeps
  <2>3. WalletInv'
    <3>1. signer' \in Wallets \cup {NoWallet} /\ payable' \in BOOLEAN
      BY <2>1 DEF WalletInv
    <3> QED
      BY <2>1, <3>1, WalletKept
  <2> QED
    BY <1>4, <1>5, <2>2, <2>3, StepKeeps
<1>7. CASE BlockhashFails \/ LandingThrows
  <2>1. Throws(steps) /\ UNCHANGED devnetVars
    BY <1>7 DEF BlockhashFails, LandingThrows
  <2>2. PipelineInv'
    BY <1>4, <2>1, ThrowKeeps
  <2> QED
    BY <1>4, <1>5, <2>1, <2>2, WalletRests, StepKeeps
<1>8. CASE SigningRejected \/ ShotFails
  <2>1. PICK i \in StepIds \ {"outcome"} :
          /\ Finish(MarkOutcome(mark(steps, i, "failed"), "failed"), "failed", FALSE)
          /\ UNCHANGED devnetVars
    BY <1>3, <1>8 DEF SigningRejected, ShotFails
  <2>2. Open(mark(steps, i, "failed"))
    BY <1>3, <1>4, MarkKeepsOpen
  <2>3. PipelineInv'
    BY <1>1, <1>4, <2>1, <2>2, FinishKeeps
  <2> QED
    BY <1>4, <1>5, <2>1, <2>3, WalletRests, StepKeeps
<1>9. CASE Signed
  <2> DEFINE st == mark(steps, Pin, "done")
  <2>1. Open(st)
    BY <1>3, <1>4, MarkKeepsOpen
  <2>2. Open(mark(st, "broadcast", "active"))
    <3> HIDE DEF st
    <3> QED
      BY <1>3, <2>1, MarkKeepsOpen
  <2>3. /\ \/ sdkEnabled /\ GoesOn("landing", st)
           \/ GoesOn("shot", mark(st, "broadcast", "active"))
        /\ UNCHANGED devnetVars
    BY <1>9 DEF Signed
  <2>4. PipelineInv'
    <3> HIDE DEF st
    <3>1. CASE sdkEnabled /\ GoesOn("landing", st)
      BY <1>2, <1>4, <2>1, <3>1, GoesOnKeeps
    <3>2. CASE GoesOn("shot", mark(st, "broadcast", "active"))
      BY <1>2, <1>4, <2>2, <3>2, GoesOnKeeps
    <3> QED
      BY <2>3, <3>1, <3>2
  <2> QED
    BY <1>4, <1>5, <2>3, <2>4, WalletRests, StepKeeps
<1>10. ASSUME NEW o \in Outcome, LandingReturns(o)
       PROVE  LabInv'
  <2>1. /\ phase = "landing" /\ (o = "confirmed" => tx = "landed")
        /\ KitReturns(o) /\ RefreshAgain
        /\ UNCHANGED <<wallet, signer, payable, balance, raced>>
    BY <1>10 DEF LandingReturns
  <2>2. sdkEnabled
    BY <2>1 DEF PipelineInv
  <2>3. PipelineInv'
    BY <1>4, <1>5, <2>1, <2>2, KitReturnKeeps
  <2>4. WalletInv'
    BY <2>1, RefreshKeeps
  <2> QED
    BY <1>4, <1>5, <2>3, <2>4, StepKeeps
<1>11. CASE ShotReturns
  <2>1. GoesOn("poll", mark(steps, "broadcast", "done")) /\ UNCHANGED devnetVars
    BY <1>11 DEF ShotReturns
  <2>2. Open(mark(steps, "broadcast", "done"))
    BY <1>3, <1>4, MarkKeepsOpen
  <2>3. PipelineInv'
    BY <1>2, <1>4, <2>1, <2>2, GoesOnKeeps
  <2> QED
    BY <1>4, <1>5, <2>1, <2>3, WalletRests, StepKeeps
<1>12. CASE NaivePollsDevnet
  <2>1. PICK seen \in BOOLEAN :
          /\ seen => tx = "landed"
          /\ NaivePolled(seen)
          /\ RefreshAgain \/ UNCHANGED <<refreshing, loadingBalance>>
          /\ UNCHANGED <<wallet, signer, payable, balance, raced>>
    BY <1>12 DEF NaivePollsDevnet, Seen
  <2>2. PipelineInv'
    BY <1>4, <1>5, <2>1, NaivePollKeeps
  <2>3. WalletInv'
    BY <2>1, RefreshKeeps
  <2> QED
    BY <1>4, <1>5, <2>2, <2>3, StepKeeps
<1>13. CASE NaivePollThrows
  <2>1. Throws(tick(steps, "confirm")) /\ UNCHANGED devnetVars
    BY <1>13 DEF NaivePollThrows
  <2>2. Open(tick(steps, "confirm"))
    BY <1>3, <1>4, MarkKeepsOpen
  <2>3. PipelineInv'
    BY <1>4, <2>1, <2>2, ThrowKeeps
  <2> QED
    BY <1>4, <1>5, <2>1, <2>3, WalletRests, StepKeeps
<1>14. CASE KitRebroadcasts
  <2> DEFINE s1 == mark(steps, "broadcast", "done")
             s2 == tick(s1, "rebroadcast")
             st == tick(s2, "confirm")
  <2>1. Open(s1)
    BY <1>3, <1>4, MarkKeepsOpen
  <2>2. Open(s2)
    <3> HIDE DEF s1
    <3> QED
      BY <1>3, <2>1, MarkKeepsOpen
  <2>3. Open(st)
    <3> HIDE DEF s2
    <3> QED
      BY <1>3, <2>2, MarkKeepsOpen
  <2>4. phase = "landing" /\ GoesOn("landing", st) /\ UNCHANGED devnetVars
    BY <1>14 DEF KitRebroadcasts
  <2>5. PipelineInv'
    <3>1. sdkEnabled
      BY <2>4 DEF PipelineInv
    <3> HIDE DEF st
    <3> QED
      BY <1>2, <1>4, <2>3, <2>4, <3>1, GoesOnKeeps
  <2> QED
    BY <1>4, <1>5, <2>4, <2>5, WalletRests, StepKeeps
<1> QED
  BY <1>6, <1>7, <1>8, <1>9, <1>10, <1>11, <1>12, <1>13, <1>14

LEMMA LabInvKept == LabInv /\ [LabNext]_labVars => LabInv'
<1> SUFFICES ASSUME LabInv, [LabNext]_labVars
             PROVE  LabInv'
  OBVIOUS
<1>1. CASE UserStep
  BY <1>1, UserKeeps
<1>2. CASE SendStep
  BY <1>2, SimulationKeeps, DevnetKeeps DEF SendStep
<1>3. ASSUME NEW w \in Wallets, BalanceArrives(w)
      PROVE  LabInv'
  <2>1. WalletInv'
    BY <1>3, BalanceKeeps DEF LabInv
  <2>2. UNCHANGED <<mockVars, controls, pipeline>>
    BY <1>3 DEF BalanceArrives
  <2> QED
    BY <2>1, <2>2, OthersRest
<1>4. CASE DevnetTakes \/ DevnetLands
  <2>1. /\ tx # "landed" /\ tx' \in {"pending", "landed", "reverted"}
        /\ UNCHANGED <<blockHeight, landAt, controls, pipeline, devnetVars>>
    BY <1>4 DEF DevnetTakes, DevnetLands
  <2>2. MockTypeOK'
    BY <2>1, ClusterKept DEF LabInv
  <2>3. PipelineInv'
    BY <2>1, PipelineRests DEF LabInv, controls
  <2>4. WalletInv'
    BY <2>1, WalletRests DEF LabInv
  <2> QED
    BY <2>1, <2>2, <2>3, <2>4, StepKeeps
<1>5. CASE KitRebroadcasts
  BY <1>5, DevnetKeeps
<1>6. CASE UNCHANGED labVars
  <2>1. UNCHANGED <<mockVars, controls, pipeline>> /\ UNCHANGED devnetVars
    BY <1>6 DEF labVars
  <2>2. WalletInv'
    BY <2>1, WalletRests DEF LabInv
  <2> QED
    BY <2>1, <2>2, OthersRest
<1> QED
  BY <1>1, <1>2, <1>3, <1>4, <1>5, <1>6 DEF LabNext

-----------------------------------------------------------------------------
(* The kit on the simulated network.                                       *)

\* The height of the simulated chain while the kit has a send under way, and
\* what the cluster makes of a transaction no scenario drops.
RideInv ==
  /\ network = "sim" => phase \in {"idle", "bundle", "broadcast", "poll", "sleep"}
  /\ network = "sim" /\ sdkEnabled =>
       /\ phase = "bundle" =>
            /\ tx = "none" /\ count.polls < BundlePolls
            /\ blockHeight + SendWindow = deadline + count.polls
       /\ phase = "broadcast" => tx = "none" /\ blockHeight <= deadline
       /\ phase \in {"poll", "sleep"} /\ scenario \notin {"drop", "congestion"} =>
            \/ tx = "landed"
            \/ tx = "expired" /\ blockHeight > BlockhashValidity
            \/ tx = "pending" /\ blockHeight < landAt /\ landAt <= deadline + 1

LEMMA NothingDropped ==
  ASSUME NEW s \in Scenarios \ {"drop", "congestion"}
  PROVE  "dropped" \notin PoolFates(s)
<1>1. \A e \in Endpoints : ScenarioFaults(s)[e].drop = "never"
  BY DEF ScenarioFaults, Endpoints, ok
<1>2. Chance("never") = {FALSE}
  BY DEF Chance
<1>3. \A e \in Endpoints : "dropped" \notin Fates(s, e)
  BY <1>1, <1>2 DEF Fates
<1> QED
  BY <1>3 DEF PoolFates

\* Nothing RideInv depends on moves.
LEMMA RideRests ==
  ASSUME RideInv, UNCHANGED <<controls, phase, count, deadline, mockVars>>
  PROVE  RideInv'
BY DEF RideInv, controls, mockVars

\* A send is at rest, before the step or after it.
LEMMA RestIsEasy == phase' = "idle" => RideInv'
BY DEF RideInv

\* What the user does leaves a simulated send alone.
LEMMA UserRides == LabInv /\ RideInv /\ UserStep => RideInv'
<1> SUFFICES ASSUME LabInv, RideInv, UserStep
             PROVE  RideInv'
  OBVIOUS
<1>1. CASE \/ reset \/ (\E n \in {"sim", "devnet"} : setNetwork(n))
           \/ (\E s \in Scenarios : applyScenario(s)) \/ setViaJito \/ setSdkEnabled
           \/ SendUnfunded
  <2>1. phase' = phase /\ ~running
    BY <1>1 DEF reset, setNetwork, applyScenario, setViaJito, setSdkEnabled, SendUnfunded,
                pipeline
  <2> QED
    BY <2>1, RestIsEasy DEF running
<1>2. CASE (\E w \in Wallets \cup {NoWallet} : setWallet(w)) \/ refreshBalance
  <2>1. UNCHANGED <<controls, pipeline, mockVars>>
    BY <1>2 DEF setWallet, refreshBalance
  <2> QED
    BY <2>1, RideRests DEF pipeline
<1>3. CASE SendSimulated
  <2>1. /\ phase' \in {"bundle", "broadcast"} /\ count' = [polls |-> 0, sends |-> count.sends + 1]
        /\ deadline' = blockHeight + SendWindow /\ tx' = "none" /\ blockHeight' = blockHeight
    BY <1>3 DEF SendSimulated, Begins, NewSignature
  <2>2. count'.polls = 0
    BY <2>1
  <2>3. blockHeight \in Nat /\ SendWindow \in Nat /\ BundlePolls \in Nat \ {0}
    BY LabAssumption DEF LabInv, MockTypeOK
  <2> QED
    BY <2>1, <2>2, <2>3 DEF RideInv
<1>4. CASE SendDevnet
  BY <1>4 DEF SendDevnet, Begins, controls, RideInv
<1> QED
  BY <1>1, <1>2, <1>3, <1>4 DEF UserStep

\* A step of a simulated send: the chain moves on with it.
LEMMA SimulationRides ==
  LabInv /\ RideInv
    /\ (BundleLands \/ BundlePends \/ KitBroadcasts \/ KitPolls \/ KitSleeps
        \/ NaiveBroadcasts \/ NaivePollsSimulated)
    => RideInv' /\ RidesOut
<1> SUFFICES ASSUME LabInv, RideInv,
                    \/ BundleLands \/ BundlePends \/ KitBroadcasts \/ KitPolls \/ KitSleeps
                    \/ NaiveBroadcasts \/ NaivePollsSimulated
             PROVE  RideInv' /\ RidesOut
  OBVIOUS
<1>1. UNCHANGED controls
  BY DEF BundleLands, BundlePends, KitBroadcasts, KitPolls, KitSleeps, NaiveBroadcasts,
         NaivePollsSimulated
<1>2. /\ blockHeight \in Nat /\ landAt \in Nat /\ deadline \in Nat
      /\ count.polls \in Nat /\ SendWindow \in Nat /\ BundlePolls \in Nat \ {0}
      /\ BundlePolls <= SendWindow /\ BlockhashValidity \in Nat
      /\ scenario \in Scenarios
  BY LabAssumption, MockAssumption
     DEF LabInv, MockTypeOK, PipelineInv, PipelineTypeOK, ControlsTypeOK
<1>3. CASE ~(network = "sim" /\ sdkEnabled)
  <2>1. network = "sim" => phase' \in {"idle", "bundle", "broadcast", "poll", "sleep"}
    <3>1. phase' \in {"idle", "bundle", "broadcast", "poll", "sleep"}
      BY DEF BundleLands, BundlePends, KitBroadcasts, KitPolls, KitSleeps, NaiveBroadcasts,
             NaivePollsSimulated, Finish, GoesOn, Polled, KitReturns, NaivePolled
    <3> QED
      BY <3>1
  <2> QED
    BY <1>1, <1>3, <2>1 DEF RideInv, RidesOut, controls
<1>4. CASE network = "sim" /\ sdkEnabled
  <2>1. CASE BundleLands
    BY <2>1, RestIsEasy DEF BundleLands, Finish, RidesOut
  <2>2. CASE BundlePends
    <3>1. /\ phase = "bundle" /\ tx = "none" /\ tx' = "none" /\ blockHeight' = blockHeight + 1
          /\ count.polls < BundlePolls /\ blockHeight + SendWindow = deadline + count.polls
      BY <1>4, <2>2 DEF BundlePends, advanceSlots, RideInv
    <3>2. /\ count' = [count EXCEPT !.polls = @ + 1] /\ deadline' = deadline
          /\ \/ phase' = "bundle" /\ count.polls + 1 < BundlePolls
             \/ phase' = "broadcast" /\ ~(count.polls + 1 < BundlePolls)
      BY <1>4, <2>2 DEF BundlePends, Polled
    <3>3. count'.polls = count.polls + 1
      BY <3>2 DEF LabInv, PipelineInv, PipelineTypeOK
    <3>4. blockHeight' + SendWindow = deadline' + count'.polls
      BY <1>2, <3>1, <3>2, <3>3
    <3>5. phase' = "broadcast" => blockHeight' <= deadline'
      BY <1>2, <3>1, <3>2, <3>3, <3>4
    <3> QED
      BY <3>1, <3>2, <3>3, <3>4, <3>5 DEF RideInv, RidesOut
  <2>3. CASE KitBroadcasts
    <3>1. PICK fate \in PoolFates(scenario) : rpcSendTransaction(fate = "dropped")
      BY <2>3 DEF KitBroadcasts
    <3>2. phase = "broadcast" /\ tx = "none" /\ blockHeight <= deadline
      BY <1>4, <2>3 DEF KitBroadcasts, RideInv
    <3>3. phase' = "poll" /\ deadline' = deadline
      BY <2>3 DEF KitBroadcasts, GoesOn
    <3>4. landAt' = blockHeight + 1 /\ blockHeight' = blockHeight
      BY <3>1, <3>2 DEF rpcSendTransaction
    <3>5. scenario \notin {"drop", "congestion"} => tx' = "pending"
      <4>1. ASSUME scenario \notin {"drop", "congestion"}
            PROVE  fate # "dropped"
        BY <1>2, <3>1, <4>1, NothingDropped
      <4> QED
        BY <3>1, <3>2, <4>1 DEF rpcSendTransaction
    <3> QED
      BY <1>1, <1>2, <3>2, <3>3, <3>4, <3>5 DEF RideInv, RidesOut, controls
  <2>4. CASE KitPolls
    <3>1. phase = "poll" /\ UNCHANGED mockVars
      BY <2>4 DEF KitPolls
    <3>2. CASE HasStatus
      BY <1>4, <2>4, <3>2, RestIsEasy DEF KitPolls, KitReturns, Finish, RidesOut
    <3>3. CASE ~HasStatus /\ blockHeight > deadline
      <4>1. phase' = "idle"
        BY <2>4, <3>3 DEF KitPolls, KitReturns, Finish
      <4>2. scenario \notin {"drop", "congestion"} => blockHeight' > BlockhashValidity
        BY <1>2, <1>4, <3>1, <3>3 DEF RideInv, HasStatus, mockVars
      <4> QED
        BY <1>2, <3>1, <4>1, <4>2, RestIsEasy DEF RidesOut, mockVars
    <3>4. CASE ~HasStatus /\ ~(blockHeight > deadline)
      <4>1. phase' = "sleep" /\ deadline' = deadline
        BY <2>4, <3>4 DEF KitPolls, GoesOn
      <4> QED
        BY <1>1, <1>4, <3>1, <4>1 DEF RideInv, RidesOut, controls, mockVars
    <3> QED
      BY <3>2, <3>3, <3>4
  <2>5. CASE KitSleeps
    <3>1. /\ phase = "sleep" /\ phase' = "poll" /\ deadline' = deadline
          /\ blockHeight' = blockHeight + 1 /\ landAt' = landAt
          /\ tx' = IF tx # "pending" THEN tx
                   ELSE IF blockHeight + 1 > BlockhashValidity THEN "expired"
                   ELSE IF blockHeight + 1 >= landAt THEN "landed"
                   ELSE tx
      BY <2>5 DEF KitSleeps, advanceSlots, GoesOn
    <3> QED
      BY <1>1, <1>2, <1>4, <3>1 DEF RideInv, RidesOut, controls
  <2>6. CASE NaiveBroadcasts \/ NaivePollsSimulated
    BY <1>4, <2>6 DEF NaiveBroadcasts, NaivePollsSimulated
  <2> QED
    BY <2>1, <2>2, <2>3, <2>4, <2>5, <2>6
<1> QED
  BY <1>3, <1>4

LEMMA OthersRide ==
  LabInv /\ RideInv
    /\ (\/ BlockhashArrives \/ BlockhashFails \/ SigningRejected \/ Signed
        \/ (\E o \in Outcome : LandingReturns(o)) \/ LandingThrows \/ ShotReturns
        \/ ShotFails \/ NaivePollsDevnet \/ NaivePollThrows \/ KitRebroadcasts
        \/ (\E w \in Wallets : BalanceArrives(w)) \/ DevnetTakes \/ DevnetLands
        \/ UNCHANGED labVars)
    => RideInv' /\ RidesOut
<1> SUFFICES ASSUME LabInv, RideInv,
                    \/ BlockhashArrives \/ BlockhashFails \/ SigningRejected \/ Signed
                    \/ (\E o \in Outcome : LandingReturns(o)) \/ LandingThrows \/ ShotReturns
                    \/ ShotFails \/ NaivePollsDevnet \/ NaivePollThrows \/ KitRebroadcasts
                    \/ (\E w \in Wallets : BalanceArrives(w)) \/ DevnetTakes \/ DevnetLands
                    \/ UNCHANGED labVars
             PROVE  RideInv' /\ RidesOut
  OBVIOUS
<1>1. CASE \/ BlockhashArrives \/ BlockhashFails \/ SigningRejected \/ Signed
           \/ (\E o \in Outcome : LandingReturns(o)) \/ LandingThrows \/ ShotReturns
           \/ ShotFails \/ NaivePollsDevnet \/ NaivePollThrows \/ KitRebroadcasts
           \/ DevnetTakes \/ DevnetLands
  <2>1. network # "sim" /\ UNCHANGED controls
    BY <1>1 DEF BlockhashArrives, BlockhashFails, SigningRejected, Signed, LandingReturns,
                LandingThrows, ShotReturns, ShotFails, NaivePollsDevnet, NaivePollThrows,
                KitRebroadcasts, DevnetTakes, DevnetLands, RideInv
  <2> QED
    BY <2>1 DEF RideInv, RidesOut, controls
<1>2. CASE (\E w \in Wallets : BalanceArrives(w)) \/ UNCHANGED labVars
  <2>1. UNCHANGED <<controls, phase, count, deadline, mockVars>>
    BY <1>2 DEF BalanceArrives, labVars, pipeline
  <2> QED
    BY <2>1, RideRests DEF RidesOut, running
<1> QED
  BY <1>1, <1>2

\* RideInv is kept, and a step that ends a send confirms it.
LEMMA RideKept == LabInv /\ RideInv /\ [LabNext]_labVars => RideInv' /\ RidesOut
<1>1. UserStep => RidesOut
  <2> SUFFICES ASSUME UserStep, running, phase' = "idle"
               PROVE  FALSE
    BY DEF RidesOut
  <2>1. UNCHANGED phase
    BY DEF UserStep, reset, setNetwork, applyScenario, setViaJito, setSdkEnabled, setWallet,
           refreshBalance, SendSimulated, SendDevnet, SendUnfunded, Begins, pipeline
  <2> QED
    BY <2>1 DEF running
<1> QED
  BY <1>1, UserRides, SimulationRides, OthersRide DEF LabNext, SendStep

-----------------------------------------------------------------------------
(* The theorems.                                                           *)

\* LabInv holds throughout: no outcome is told while a send runs, the tally and
\* the expired tile move together, and a balance check that may answer for
\* another wallet has been noted (lines 384-475, 683-687).
THEOREM LabInductive == LabSpec => []LabInv
BY LabInvHolds, LabInvKept, PTL DEF LabSpec

\* The lab and its cluster keep their types.
THEOREM LabTypeCorrect == LabSpec => []LabTypeOK
<1>1. LabInv => LabTypeOK
  BY DEF LabInv, ControlsTypeOK, PipelineInv, PipelineTypeOK, Steps, Status, WalletInv, LabTypeOK
<1> QED
  BY <1>1, LabInductive, PTL

\* However a send left its path, no step is left active at rest, and the outcome
\* step shows what was recorded (lines 463-474, 825-835).
THEOREM PipelineShowsOutcome == LabSpec => []PipelineTellsOutcome
<1>1. LabInv => PipelineTellsOutcome
  BY DEF LabInv, PipelineInv
<1> QED
  BY <1>1, LabInductive, PTL

\* Only what executed without error is counted as landed, and what expired is not
\* counted as confirmed, after any series of sends (lines 270-296, 683-687).
THEOREM ScoreboardCountsLanded == LabSpec => []ScoreboardIsTrue
<1>1. LabInv => ScoreboardIsTrue
  BY DEF LabInv, PipelineInv
<1> QED
  BY <1>1, LabInductive, PTL

\* A balance shown is the connected wallet's, whatever wallets came and went,
\* unless one changed while a check was under way or a check failed
\* (lines 384-417).
THEOREM ShownBalanceIsOwn == LabSpec => []BalanceIsOwn
<1>1. LabInv => BalanceIsOwn
  BY DEF LabInv, WalletInv
<1> QED
  BY <1>1, LabInductive, PTL

\* In every scenario that does not drop, the kit confirms each simulated send
\* that ends while the blockhash is valid, for any number of bundle polls that
\* fits the send's window (lines 138-188, 460, 477-583).
THEOREM KitConfirmsItsSends == LabSpec => KitRidesOut
<1>1. LabInit => RideInv
  BY DEF LabInit, RideInv
<1>2. LabInv /\ RideInv /\ [LabNext]_labVars => RideInv' /\ [RidesOut]_labVars
  BY RideKept
<1> QED
  BY <1>1, <1>2, LabInductive, PTL DEF LabSpec, KitRidesOut

=============================================================================
