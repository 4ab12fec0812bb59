---------------------------- MODULE CreditBudget ----------------------------
(***************************************************************************)
(* A CreditRateLimiter and the provider it is to please: callers pay for   *)
(* calls whenever they like, and the provider counts what was spent in the *)
(* last Window ticks, wherever the limiter's own windows lie.              *)
(***************************************************************************)
EXTENDS CreditRateLimiter

VARIABLE spent    \* spent[i]: the credits spent now and in the i ticks before

budgetVars == <<limiterVars, spent>>

Ages == 0..(Window - 1)

\* The credits the provider counts.
Counted == spent[Window - 1]

BudgetTypeOK ==
  /\ LimiterTypeOK
  /\ spent \in [Ages -> Nat]

BudgetInit ==
  /\ LimiterInit
  /\ spent = [i \in Ages |-> 0]

Pay(m) ==
  /\ Acquire(m)
  /\ spent' = [i \in Ages |-> spent[i] + Cost[m]]

\* tryAcquire returns false, or available() is read.
PayNothing ==
  /\ Refill
  /\ UNCHANGED spent

Pass ==
  /\ Tick
  /\ spent' = [i \in Ages |-> IF i = 0 THEN 0 ELSE spent[i - 1]]

BudgetNext == (\E m \in Methods : Pay(m)) \/ PayNothing \/ Pass

BudgetSpec == BudgetInit /\ [][BudgetNext]_budgetVars

\* However a window of the clock lies across the limiter's own windows, no
\* more than two refills are spent in it: a provider that counts over a sliding
\* window sees at most twice the configured rate (lines 58-75).
SlidingWindowHolds == Counted <= 2 * CreditsPerWindow

\* The limiter is no stricter than the provider: a call the bucket could ever
\* pay for is refused only if, with what the provider counts, it would exceed
\* the configured rate (lines 58-75).
RefusedOnlyIfSpent ==
  \A m \in Methods :
    ~Affordable(m) /\ Cost[m] <= CreditsPerWindow =>
      Counted + Cost[m] > CreditsPerWindow

=============================================================================
