SPECIFICATION Spec
CONSTANTS
    Chosen = {"socket", "gateway", "prompt gateway", "telegram", "matrix", "transactions", "send",
              "codes", "webui", "gui", "cli", "log", "bridges", "retention"}
    Requests = {"send", "send2", "delete"}
    Reports = 0
    MaxSeq = 3
    MaxUpdates = 4
    MaxEvents = 5
    MaxGen = 2
    Saves = {1}
    Readers = {1, 2}
    MaxLines = 4
    \* A deletion among the calls.
    Deletions = {"delete"}
    \* A tick is ten seconds: a heartbeat every three, and Discord waits four.
    Period = 3
    Patience = 4
    MaxHandler = 2
    MaxQueue = 2
    \* Two generations of the polling clients, a failed request, a crash.
    PollGens = 2
    PollFaults = 1
    PollCrashes = 1
    BatchSize = 2
    PageSize = 2
    \* Two clients that send at once, texts or three images, and a restart.
    Callers = {"c1", "c2"}
    Images = {0, 3}
    MaxParts = 4
    MaxRedacts = 1
    SendFaults = 1
    MaxRestarts = 1
    Bodies <- MCBodies
    Attachments = {"data", "url", "neither"}
    MaxImages = 3
    MaxBytes = 15
    Tokens <- MCTokens
    Texts <- MCTexts
    Urls <- MCUrls
    MaxSegments = 2
    Configs <- MCConfigs
    WindowConfigs <- MCWindowConfigs
    Slots = {1, 2}
    \* The ring keeps two lines, a window's channel one.
    Capacity = 2
    Pipe = 1
    Platforms = {"Discord", "QQ", "Telegram"}
    Channels = {1, 2}
    NoChannel = 0
    Lists <- MCLists
    \* One message, over three times the days of the retention.
    Msgs = {1}
    Keep = 3
    Redelivers = 1
    MaxDays = 9
INVARIANTS
    TypeInv
    AnswersMatch
    HeartbeatsRight
    CursorHonest
    OwnEventInRun
    ErrorLeavesOne
    SentAsMeant
    ReadAsMeant
    OneRunning
    NoFalseConnected
    RuntimeKept
    Accounted
    CopiesRecognised
    RoutedAsConfigured
    ReadyIfNamed
PROPERTIES
    KeepsPromise
    NoResurrection
CHECK_DEADLOCK FALSE
