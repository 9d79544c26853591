CONSTANTS
  Row = {1, 2, 3}
  Worker = {w1, w2}
  BatchSize = 2
  GiveUpAfter = 1
  MaxSetbacks = 1
SPECIFICATION FairSpec
CHECK_DEADLOCK FALSE
INVARIANTS RepeatsAreSetbacks PublishedWasTaken GivenUpAfterRetries
PROPERTIES SettledForGood EveryRowSettles
