SPECIFICATION FairSpec
CONSTANTS
    Chosen = {"socket", "gateway", "telegram", "matrix", "gui"}
    Requests = {"send", "delete"}
    Reports = 1
    MaxSeq = 2
    MaxUpdates = 3
    MaxEvents = 3
    MaxGen = 1
    Saves = {}
    Readers = {1}
    MaxLines = 4
    \* A deletion among the calls.
    Deletions = {"delete"}
    \* A tick is ten seconds: a heartbeat every three, and Discord waits four.
    Period = 3
    Patience = 4
    MaxHandler = 2
    MaxQueue = 2
    \* Two generations of the polling clients, a failed request, a crash.
    PollGens = 2
    PollFaults = 1
    PollCrashes = 1
    BatchSize = 2
    PageSize = 2
    \* Two clients that send at once, texts or three images, and a restart.
    Callers = {"c1", "c2"}
    Images = {0, 3}
    MaxParts = 4
    MaxRedacts = 1
    SendFaults = 1
    MaxRestarts = 1
    Bodies <- MCBodies
    Attachments = {"data", "url", "neither"}
    MaxImages = 3
    MaxBytes = 15
    Tokens <- MCTokens
    Texts <- MCTexts
    Urls <- MCUrls
    MaxSegments = 2
    Configs <- MCConfigs
    WindowConfigs <- MCWindowConfigs
    Slots = {1, 2}
    \* The ring keeps two lines, a window's channel one.
    Capacity = 2
    Pipe = 1
    Platforms = {"Discord", "QQ", "Telegram"}
    Channels = {1, 2}
    NoChannel = 0
    Lists <- MCLists
    \* One message, over three times the days of the retention.
    Msgs = {1}
    Keep = 3
    Redelivers = 1
    MaxDays = 9
PROPERTIES
    CallsSettle
    BeatsGoOut
    EventsHandled
    StoppedEnd
    WindowSettles
CHECK_DEADLOCK FALSE
