CONSTANTS
  Home <- MCHome
  Secrets <- MCSecrets
  Repositories <- MCRepositories
  Tasks <- MCTasks
  Checkouts <- MCCheckouts
  Hosts <- MCHosts
  Creators = {c1, c2}
  c1 = c1
  c2 = c2
  Flaky = TRUE
  Faults = {"large", "crash"}
  MaxCalls = 7
  MaxLives = 2
  MaxEvents = 3
  PageSize = 2
  MaxFollows = 2
SPECIFICATION FairSpec
INVARIANTS TypeOK HelloFirst FreshAnswers ViewsAreFaithful NotifiedOnce LayoutAgrees PlacementHolds IsolationHolds
CHECK_DEADLOCK FALSE
PROPERTIES CallsSettle
