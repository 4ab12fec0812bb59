SPECIFICATION FairLabSpec
CONSTANTS
  Wallets = {w1, w2}
  NoWallet = NoWallet
  MaxSends = 2
  MaxRefreshes = 1
  SendWindow = 2
  BundlePolls = 2
  NaivePolls = 2
  BlockhashValidity = 4
CHECK_DEADLOCK FALSE
INVARIANTS LabTypeOK PipelineTellsOutcome ScoreboardIsTrue BalanceIsOwn
PROPERTIES KitRidesOut SendsComeToRest
