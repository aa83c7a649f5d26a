SPECIFICATION Spec
CONSTANTS
    Senders <- DiscordQQTelegram
    Groups <- MCGroups
    Group = "group"
    NoMsg = NoMsg
    MaxExtra = 0
    Echoes = {}
    Posters = {"Discord", "QQ"}
    MaxGen = 1
    MaxPosts = 3
    MaxDeletes = 0
    MaxFaults = 1
    MaxCrashes = 0
INVARIANTS
    ReplyThreads
CHECK_DEADLOCK FALSE
