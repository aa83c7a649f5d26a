SPECIFICATION Spec
CONSTANTS
    Senders <- TelegramMatrix
    Groups <- MCGroups
    Group = "group"
    NoMsg = NoMsg
    MaxExtra = 0
    Echoes = {"Matrix"}
    Posters = {"Telegram", "Matrix"}
    MaxGen = 2
    MaxPosts = 1
    MaxDeletes = 1
    MaxFaults = 1
    MaxCrashes = 1
INVARIANTS
    NoEcho
    RoutedOrInFlight
    OnlyWithdrawn
PROPERTY
    KeepsPromise
CHECK_DEADLOCK FALSE
