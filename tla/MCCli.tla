------------------------------- MODULE MCCli --------------------------------
(* Instances of Cli for TLC, which also evaluates the operators of Fees. *)
EXTENDS Cli, Fees

CONSTANTS a, b

TwoUrls == <<a, b>>

\* Errors of one call: a refusal, a slow node, a status a wallet or a program
\* would give, and one that several patterns match.
SomeErrors ==
  {[text |-> {}, statusCode |-> 0, custom |-> {}],
   [text |-> {"RATE_LIMITED"}, statusCode |-> 429, custom |-> {}],
   [text |-> {"SIMULATION_FAILED"}, statusCode |-> 0, custom |-> {1}],
   [text |-> {"SIMULATION_FAILED", "BLOCKHASH_EXPIRED"}, statusCode |-> 429, custom |-> {6001}]}

-----------------------------------------------------------------------------

Samples == {s \in UNION {[1..n -> 0..3] : n \in 0..6} : Sorted(s)}

\* The level of each percentage is a sample, none nearer to that percentage
\* of the way, and levels never fall (fees/oracles.ts:33-34, 53-57).
ASSUME LevelsAreNearestRanks ==
  /\ \A s \in Samples : Monotonic(NativeLevels(s))
  /\ \A n \in 1..30, l \in FeeLevel :
       LET off(r) == LET d == 100 * (r - 1) - Percent[l] * (n - 1)
                     IN IF d < 0 THEN -d ELSE d
       IN \A r \in 1..n : off(Rank(n, Percent[l])) <= off(r)

\* The budget pays for what was simulated, and the tip is never below the
\* floor of the protocol (fees/estimator.ts:64-77, jito/tips.ts:66-69).
ASSUME AdviceIsEnough ==
  /\ \A units \in {0, 1, 6000, 1400000}, margin \in {100, 110}, price \in {0, 1, 999} :
       Covers(estimate(units, margin, price), units)
  /\ \A floor \in {0, 999500000, 1000500000} : recommendTip(floor) >= MIN_TIP_LAMPORTS

=============================================================================
