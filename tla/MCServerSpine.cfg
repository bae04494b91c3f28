SPECIFICATION FairSpec
CONSTANTS
  Addresses <- MCAddresses
  Updates <- MCUpdates
  Callers = {c1, c2}
  MaxDemands = 2
  MaxCounter = 13
INVARIANTS
  CountersUnique
  ReadsFollowBinding
  RefsUnambiguous
PROPERTIES
  ReadbackIsNotStale
  CommandReportedInOrder
  CommandsKeepPromise
  CommandEventuallySent
CHECK_DEADLOCK FALSE
