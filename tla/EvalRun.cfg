\* Two runs of three suites on the loop of a worker or a command.
SPECIFICATION FairSpec
CONSTANTS
  Suites <- SuitesDef
  Rounds <- RoundsDef
  Timed <- TimedDef
  Calls <- CallsDef
  Concurrency = 1
  MaxAttempts = 2
  MaxRuns = 2
  MaxFaults = 2
INVARIANT TypeOK
INVARIANT InFlightBounded
INVARIANT VerdictsAreOwn
INVARIANT RetryBudget
INVARIANT TimingsComplete
PROPERTY RunsEnd
PROPERTY ItemsEnd
CHECK_DEADLOCK FALSE
