SPECIFICATION FairRequestsSpec
CONSTANTS
    Sessions = {s1, s2}
    Subscribers = {diag, other}
    Diagnosis = {diag}
    MaxRequests = 3
    NoList = NoList
    Writes <- MCWrites
INVARIANTS
    EveryRequestAnsweredOnce
    ProfileHoldsLatestWrites
    NotifyShowsTheWrite
    EventsReplayTheLimits
PROPERTY SubscribersGetHeartbeats
CHECK_DEADLOCK FALSE
