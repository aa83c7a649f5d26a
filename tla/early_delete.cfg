SPECIFICATION Spec
CONSTANTS
    Senders <- DiscordQQ
    Groups <- MCGroups
    Group = "group"
    NoMsg = NoMsg
    MaxExtra = 0
    Echoes = {}
    Posters = {"Discord"}
    MaxGen = 2
    MaxPosts = 1
    MaxDeletes = 1
    MaxFaults = 0
    MaxCrashes = 0
PROPERTY
    EarlyDeleteMarks
CHECK_DEADLOCK FALSE
