-------------------------------- MODULE Fees --------------------------------
(***************************************************************************)
(* What a transaction is advised to pay: the priority fee levels of the    *)
(* oracles (src/src/fees/oracles.ts), the compute budget made of them      *)
(* (fees/estimator.ts) and the tip of a bundle (jito/tips.ts).  Amounts    *)
(* are naturals; a factor is a number of percent, a fraction of a unit a   *)
(* number of millionths, and Math.round rounds halves up.                  *)
(***************************************************************************)
EXTENDS Integers, Sequences

FeeLevel == {"min", "low", "medium", "high", "veryHigh"}

\* Math.round(a / b).
Round(a, b) == (2 * a + b) \div (2 * b)

\* Math.ceil(a / b).
Ceil(a, b) == (a + b - 1) \div b

\* The nearest rank of the p-th percentile among n sorted samples.
Rank(n, p) == 1 + Round(p * (n - 1), 100)

percentile(sorted, p) == sorted[Rank(Len(sorted), p)]

Percent == [min |-> 0, low |-> 25, medium |-> 50, high |-> 75, veryHigh |-> 100]

\* NativeFeeOracle.getPriorityFee of the sorted samples.
NativeLevels(sorted) ==
  [l \in FeeLevel |-> IF sorted = <<>> THEN 0 ELSE percentile(sorted, Percent[l])]

\* HeliusFeeOracle.getPriorityFee: the levels of the answer, in millionths of
\* a micro-lamport, 0 where one is missing.
HeliusLevels(answer) ==
  [l \in FeeLevel |-> IF l \in DOMAIN answer THEN Round(answer[l], 1000000) ELSE 0]

\* FeeEstimator.estimate of the units the simulation reported, 0 if it
\* reported none; whether the simulation failed is not looked at.
estimate(units, cuMargin, price) ==
  LET limit == Round(units * cuMargin, 100) IN
  [computeUnitLimit |-> limit,
   computeUnitPrice |-> price,
   priorityFeeLamports |-> Ceil(limit * price, 1000000)]

MIN_TIP_LAMPORTS == 1000

\* TipEstimator.recommendTip of a percentile in millionths of a lamport.
recommendTip(floor) ==
  IF Round(floor, 1000000) < MIN_TIP_LAMPORTS THEN MIN_TIP_LAMPORTS ELSE Round(floor, 1000000)

-----------------------------------------------------------------------------
(* What callers rely on.                                                   *)

Sorted(s) == \A i, j \in 1..Len(s) : i <= j => s[i] <= s[j]

\* A higher level never costs less, and lies between the lowest and the
\* highest sample (oracles.ts:43-67).
Monotonic(levels) ==
  /\ levels.min <= levels.low /\ levels.low <= levels.medium
  /\ levels.medium <= levels.high /\ levels.high <= levels.veryHigh

\* The fee is the least number of lamports that pays for the limit at that
\* price, and the limit covers what was simulated (estimator.ts:65-75).
Covers(budget, units) ==
  /\ budget.computeUnitLimit >= units
  /\ budget.priorityFeeLamports * 1000000
       >= budget.computeUnitLimit * budget.computeUnitPrice
  /\ (budget.priorityFeeLamports - 1) * 1000000
       < budget.computeUnitLimit * budget.computeUnitPrice

=============================================================================
