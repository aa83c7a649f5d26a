SPECIFICATION Spec
CONSTANTS
    Senders <- QQTelegram
    Groups <- MCGroups
    Group = "group"
    NoMsg = NoMsg
    MaxExtra = 1
    Echoes = {}
    Posters = {"QQ"}
    MaxGen = 1
    MaxPosts = 1
    MaxDeletes = 1
    MaxFaults = 0
    MaxCrashes = 0
INVARIANTS
    EveryCopyRecalled
CHECK_DEADLOCK FALSE
