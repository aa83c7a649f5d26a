SPECIFICATION Spec
CONSTANTS
    Senders <- DiscordQQTelegram
    Groups <- MCGroups
    Group = "group"
    NoMsg = NoMsg
    MaxExtra = 0
    Echoes = {}
    Posters = {"Discord"}
    MaxGen = 2
    MaxPosts = 1
    MaxDeletes = 1
    MaxFaults = 0
    MaxCrashes = 0
INVARIANTS
    RecallReaches
CHECK_DEADLOCK FALSE
