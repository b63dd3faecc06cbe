SPECIFICATION FairSpec
CONSTANTS
    Callers = {c1, c2}
    Closers = {owner, other}
    Owner = owner
    QueueLimit = 1
    Options = {english, german}
    None = None
INVARIANTS
    DisposesCleanly
    SpeechMatchesRequest
PROPERTIES
    AnsweredOnce
    EveryCallReturns
