SPECIFICATION Spec
CONSTANTS
    Senders <- DiscordQQTelegram
    Groups <- MCGroups
    Group = "group"
    NoMsg = NoMsg
    MaxExtra = 0
    Echoes = {"Discord"}
    Posters = {"Discord", "QQ", "Telegram"}
    MaxGen = 1
    MaxPosts = 2
    MaxDeletes = 1
    MaxFaults = 1
    MaxCrashes = 0
INVARIANTS
    TypeInv
    Ownership
    NoForeignDelete
    NoSelfCall
    SuppressionHarmless
    OneCopyPerRun
    RecallReaches
CHECK_DEADLOCK FALSE
