SPECIFICATION BudgetSpec
CONSTANTS
  Cost <- ThreeMethods
  CreditsPerWindow = 5
  Window = 4
INVARIANTS SlidingWindowHolds RefusedOnlyIfSpent
