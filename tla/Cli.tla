-------------------------------- MODULE Cli ---------------------------------
(***************************************************************************)
(* The command line tool (src/src/cli/index.ts) from its arguments to its  *)
(* exit code: `probe', which asks all endpoints for their slots at once    *)
(* (Diagnostics.probeEndpoints) and names the freshest as the pool would,  *)
(* and `explain', which asks one of them what became of a transaction.     *)
(*                                                                         *)
(* The arguments are chosen as they are read.  explainTransaction itself   *)
(* is the subject of Diagnostics; here it answers anything it may answer.  *)
(***************************************************************************)
EXTENDS HealthMonitor, ErrorTranslator

CONSTANTS
  MaxTargets,    \* bound: endpoints to probe (the flags of explain: 2 values)
  RpcErrors      \* the errors an RPC call may throw, by what they match

ASSUME CliAssumption == MaxTargets \in Nat \ {0}

VARIABLES
  cPc,       \* where run() stands
  flags,     \* the flags collected: the values of --rpc, --sig and --lvbh
  probes,    \* probeEndpoints: the answer of each target
  report,    \* healthyCount and what freshest may be, or the verdict of explain
  told,      \* the code of the translated error
  code       \* the exit code, "none" while it runs

cliVars == <<health, cPc, flags, probes, report, told, code>>

Values == [rpc |-> Endpoints, sig |-> {"sig"}, lvbh |-> {"n", "negative", "text"}]
Verdicts == {"confirmed", "expired", "pending"}
Waiting == [ok |-> FALSE, slot |-> 0, done |-> FALSE]
NoReport == [freshest |-> {}, healthyCount |-> 0, verdict |-> "none"]

CliInit ==
  /\ HealthInit
  /\ cPc = "command"
  /\ flags = [k \in DOMAIN Values |-> <<>>]
  /\ probes = <<>>
  /\ report = NoReport
  /\ told = "none"
  /\ code = "none"

-----------------------------------------------------------------------------
(* Parsing.                                                                *)

Exits(c) == cPc' = "done" /\ code' = c

parseArgs ==
  /\ cPc = "command"
  /\ cPc' \in {"probe", "explain"}
  /\ UNCHANGED <<health, flags, probes, report, told, code>>

\* A flag that the command does not look at is collected, too, and left out.
collectFlags(k) ==
  /\ cPc = "explain" \/ (cPc = "probe" /\ k = "rpc")
  /\ Len(flags[k]) < IF cPc = "probe" THEN MaxTargets ELSE 2
  /\ \E v \in Values[k] : flags' = [flags EXCEPT ![k] = Append(@, v)]
  /\ UNCHANGED <<health, cPc, probes, report, told, code>>

\* No command or an unknown one, an argument that is no flag, a flag without a
\* value.
Malformed ==
  /\ cPc \in {"command", "probe", "explain"}
  /\ Exits(2)
  /\ UNCHANGED <<health, flags, probes, report, told>>

Single(k) == Len(flags[k]) = 1

\* parseProbe and parseExplain, when the arguments are read.
WellFormed ==
  IF cPc = "probe" THEN flags.rpc # <<>>
  ELSE (\A k \in DOMAIN Values : Single(k)) /\ flags.lvbh[1] = "n"

Rejected ==
  /\ cPc \in {"probe", "explain"} /\ ~WellFormed
  /\ Exits(2)
  /\ UNCHANGED <<health, flags, probes, report, told>>

\* The calls of probeEndpoints leave together.
Starts ==
  /\ cPc \in {"probe", "explain"} /\ WellFormed
  /\ IF cPc = "probe"
     THEN cPc' = "probing" /\ probes' = [i \in DOMAIN flags.rpc |-> Waiting]
     ELSE cPc' = "explaining" /\ UNCHANGED probes
  /\ UNCHANGED <<health, flags, report, told, code>>

-----------------------------------------------------------------------------
(* probe.                                                                  *)

\* Targets are told apart by their names, which are their URLs.
ProbeAnswers(i) ==
  /\ cPc = "probing" /\ ~probes[i].done
  /\ \E s \in 1..MaxSlot :
       /\ probes' = [probes EXCEPT ![i] = [ok |-> TRUE, slot |-> s, done |-> TRUE]]
       /\ health' = AfterSuccess(flags.rpc[i], s)
  /\ UNCHANGED <<cPc, flags, report, told, code>>

ProbeFails(i) ==
  /\ cPc = "probing" /\ ~probes[i].done
  /\ probes' = [probes EXCEPT ![i].done = TRUE]
  /\ health' = AfterFailure(flags.rpc[i])
  /\ UNCHANGED <<cPc, flags, report, told, code>>

\* The targets' names; the monitor knows no others.
Named == {flags.rpc[i] : i \in DOMAIN flags.rpc}

\* Fault: any endpoint that did not fail too often will do.
FirstHealthy == Healthy \cap Named

\* What rankByFreshness may put first; latency decides.
FirstRanked ==
  {e \in Healthy \cap Named : \A f \in Healthy \cap Named : health[f].slot <= health[e].slot}

Up == {i \in DOMAIN probes : probes[i].ok}

Reports ==
  /\ cPc = "probing" /\ \A i \in DOMAIN probes : probes[i].done
  /\ report' = [report EXCEPT !.freshest = FirstRanked, !.healthyCount = Cardinality(Up)]
  /\ Exits(IF Up # {} THEN 0 ELSE 1)
  /\ UNCHANGED <<health, flags, probes, told>>

-----------------------------------------------------------------------------
(* explain.                                                                *)

Explained ==
  /\ cPc = "explaining"
  /\ \E v \in Verdicts :
       /\ report' = [report EXCEPT !.verdict = v]
       /\ Exits(IF v = "expired" THEN 1 ELSE 0)
  /\ UNCHANGED <<health, flags, probes, told>>

\* Fault: an error of the RPC is one of the invocation.
ExplainBlamesUsage ==
  /\ cPc = "explaining"
  /\ report' = [report EXCEPT !.verdict = "failed"]
  /\ \E e \in RpcErrors : told' = translate(e)
  /\ Exits(2)
  /\ UNCHANGED <<health, flags, probes>>

ExplainFails ==
  /\ cPc = "explaining"
  /\ report' = [report EXCEPT !.verdict = "failed"]
  /\ \E e \in RpcErrors : told' = translate(e)
  /\ Exits(1)
  /\ UNCHANGED <<health, flags, probes>>

CliNext ==
  \/ parseArgs
  \/ \E k \in DOMAIN Values : collectFlags(k)
  \/ Malformed
  \/ Rejected
  \/ Starts
  \/ \E i \in DOMAIN probes : ProbeAnswers(i) \/ ProbeFails(i)
  \/ Reports
  \/ Explained
  \/ ExplainFails

CliSpec == CliInit /\ [][CliNext]_cliVars

-----------------------------------------------------------------------------
(* Properties.                                                             *)

\* When an endpoint is up, the one that is named as the freshest answered, and
\* no other that answered had a higher slot, in whatever order the answers and
\* the failures came, if no URL was given twice.  One that was given twice must
\* at least have answered once, unless it was given so often that its failures
\* eject it after its answer (diagnose.ts:72-97).
Alike(e) == {i \in DOMAIN probes : flags.rpc[i] = e}
NamedAtMost(n) == \A e \in Named : Cardinality(Alike(e)) <= n

FreshestIsFresh ==
  cPc = "done" /\ report.healthyCount > 0 /\ NamedAtMost(FailureThreshold) =>
    /\ report.freshest # {}
    /\ \A e \in report.freshest : \E i \in Alike(e) : probes[i].ok
    /\ NamedAtMost(1) =>
         \A e \in report.freshest : \A i \in Alike(e), j \in Up :
           probes[i].slot >= probes[j].slot

\* The exit code tells a script what happened: 2 that nothing was asked of any
\* endpoint, 0 that an endpoint answered and, to explain, not that the
\* transaction expired; an error of the RPC is 1, as is an expired transaction
\* (index.ts:235-268).
ExitCodeIsTrue ==
  cPc = "done" =>
    LET asked == probes # <<>> \/ report.verdict # "none" IN
    /\ code = 2 <=> ~asked
    /\ code = 0 <=> report.healthyCount > 0 \/ report.verdict \in {"confirmed", "pending"}
    /\ told # "none" => code = 1

=============================================================================
