SPECIFICATION Spec
CONSTANTS
    Profiles = {"default", "hems-reference", "cls-adapter"}
    Diagnosis <- MCDiagnosis
    Entities = {1, 3}
    Cells <- MCCells
    DefaultCells <- MCDefaultCells
    NoList = NoList
    Null = Null
    Updates <- MCUpdates
    MaxMessages = 4
    MaxReconnects = 1
    MaxCuts = 1
INVARIANTS
    PeerViewIsCurrent
    
    AnnouncedReadsAreAnswered
    AsksAsAnnounced
CHECK_DEADLOCK FALSE
