SPECIFICATION Spec
CONSTANTS
    Senders <- DiscordQQTelegram
    Groups <- MCGroups
    Group = "group"
    NoMsg = NoMsg
    MaxExtra = 0
    Echoes = {}
    Posters = {"Discord"}
    MaxGen = 1
    MaxPosts = 2
    MaxDeletes = 0
    MaxFaults = 0
    MaxCrashes = 0
PROPERTY
    RecordKnowsAll
CHECK_DEADLOCK FALSE
