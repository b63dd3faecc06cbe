SPECIFICATION FairSpec
CONSTANTS
    NumPages = 2
    MaxFormulas = 1
    Scopes = {TRUE, FALSE}
    SourceCodes <- MCSourceCodes
    InputLimit = 2
    PendingLimit = 2
    ResultLimit = 5
    UpdateLimit = 3
INVARIANTS
    UpdatesCharged
    MailboxExact
    QueueExact
PROPERTIES
    OutcomeTrue
    CancelStops
    KeepsContract
    NobodyHangs
