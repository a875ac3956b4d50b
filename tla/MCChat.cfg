SPECIFICATION Spec
CONSTANTS
    Turn <- Turns
    Streamed <- StreamedTurns
    Slots = 1
    MaxDeltas = 2
    MaxChanges = 2
    MaxFaults = 2
INVARIANTS
    TypeOK
    NothingOnOldGrant
    AllGivenBack
PROPERTIES
    WatchObeyed
    EndsOnChange
