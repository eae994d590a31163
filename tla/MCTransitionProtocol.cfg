SPECIFICATION FairSpec
CONSTANTS
  t1 = t1
  c1 = c1
  c2 = c2
  i1 = i1
  i2 = i2
  i3 = i3
  Tasks <- MCTasks
  Clients <- MCClients
  Ids <- MCIds
  Requests <- MCRequests
  MaxCrashes = 1
INVARIANTS
  StoreConsistent
  RepliesTruthful
  OneWinner
PROPERTIES
  ImplementsLedger
  Answered
