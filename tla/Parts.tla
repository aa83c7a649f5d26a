-------------------------------- MODULE Parts --------------------------------
(***************************************************************************)
(* The parts of the program around Bridge: the OneBot socket, the clients  *)
(* of Discord, Telegram and Matrix, the senders, the reading of CQ codes,  *)
(* the three front ends over their controller, the log ring, the Bridges   *)
(* container and the retention.  These parts share no state but the        *)
(* controller, and a process has one front end; so a behaviour runs one of *)
(* them and leaves the others where they begin.                            *)
(***************************************************************************)
EXTENDS Naturals, Sequences

CONSTANTS
    Chosen,       \* the parts that run
    \* OneBotApi: calls, those that delete, events between the answers
    Requests, Deletions, Reports,
    \* DiscordGateway: ticks between heartbeats, ticks Discord waits for one,
    \* ticks a handler takes at most, dispatches, messages under way
    Period, Patience, MaxHandler, MaxSeq, MaxQueue,
    \* TelegramPoll and MatrixSync: starts, failed requests, crashes; updates
    \* to an answer and in all; events to an answer and in all
    PollGens, PollFaults, PollCrashes, BatchSize, MaxUpdates, PageSize, MaxEvents,
    \* MatrixSend: clients, images of a message, parts, deletions, failed
    \* requests, restarts
    Callers, Images, MaxParts, MaxRedacts, SendFaults, MaxRestarts,
    \* Senders: texts, kinds of attachments, how many, Discord's limit
    Bodies, Attachments, MaxImages, MaxBytes,
    \* CqText: what is written with, texts, addresses, segments
    Tokens, Texts, Urls, MaxSegments,
    \* Controller: configurations, those of the GUI's editor, starts
    Configs, WindowConfigs, MaxGen,
    Slots,        \* WebUi: requests under way at once
    Saves,        \* Gui: saves under way at once
    \* LogRing: windows, lines the ring keeps, lines under way, lines
    Readers, Capacity, Pipe, MaxLines,
    \* Bridges: platforms, channels, an id not given, lists of bridges
    Platforms, Channels, NoChannel, Lists,
    \* Retention: messages, days kept, days a platform repeats, days
    Msgs, Keep, Redelivers, MaxDays

VARIABLES
    chosen,
    \* OneBotApi
    counter, pending, call, queue, writer, reader, inbox, made, wire, events,
    \* DiscordGateway
    phase, cancelled, connected, lastSeq, inbound, busy, timer, due, silence, sent, taken,
    \* TelegramPoll
    arrived, confirmed, client, handled, gen, running, used,
    \* MatrixSync
    room, syncing, synced, skipped, syncGen, syncRunning, syncUsed,
    \* MatrixSend
    txns, sends, answered, event, returned, spent,
    \* Senders
    sender, atts, text, files, missing, looked, posted, result,
    \* CqText
    msg, got,
    \* Controller
    config, handle, started, stopped, clients, shown, slot,
    \* WebUi, Gui and Cli
    disk, req, seen, polled, clicked, jobs, saving, boot, cli, panicked,
    \* LogRing
    written, windows,
    \* Bridges
    configs, contexts, selfIds, identified, ready, copied,
    \* Retention
    today, up, day, removed, routes, marks, bridged, standing

----------------------------------------------------------------------------
OneBot == INSTANCE OneBotApi WITH MaxEvents <- Reports

(* The gateway client, and one whose handlers take no time to speak of. *)
Gateway == INSTANCE DiscordGateway WITH Limit <- Patience
Prompt == INSTANCE DiscordGateway WITH Limit <- Patience, MaxHandler <- 0

Telegram == INSTANCE TelegramPoll WITH
    MaxGen <- PollGens, MaxFaults <- PollFaults, MaxCrashes <- PollCrashes

Matrix == INSTANCE MatrixSync WITH
    Limit <- PageSize, MaxGen <- PollGens, MaxFaults <- PollFaults, MaxCrashes <- PollCrashes,
    client <- syncing, handled <- synced, gen <- syncGen, running <- syncRunning, used <- syncUsed

Transactions == INSTANCE MatrixSend WITH
    MaxFaults <- SendFaults, counter <- txns, call <- sends, used <- spent

Sending == INSTANCE Senders WITH Limit <- MaxBytes, lost <- missing, at <- looked

Cq == INSTANCE CqText

(* The controller, and the front ends over it. *)
Bot == INSTANCE Controller WITH cancelled <- stopped, client <- clients
Web == INSTANCE WebUi WITH cancelled <- stopped, client <- clients
Window == INSTANCE Gui WITH
    Configs <- WindowConfigs, cancelled <- stopped, client <- clients, running <- seen, pending <- clicked
Console == INSTANCE Cli WITH cancelled <- stopped, client <- clients, phase <- cli

Log == INSTANCE LogRing WITH reader <- windows

Groups == INSTANCE Bridges

Store == INSTANCE Retention WITH running <- up, posted <- day, copied <- bridged

ASSUME PartAssumptions ==
    /\ OneBot!OneBotAssumption
    /\ Gateway!GatewayAssumption
    /\ Telegram!PollAssumption /\ Matrix!SyncAssumption
    /\ Transactions!MatrixSendAssumption /\ Sending!SendersAssumption /\ Cq!CqAssumption
    /\ Bot!ControllerAssumption /\ WindowConfigs \subseteq Configs
    /\ Log!RingAssumption
    /\ Groups!BridgesAssumption /\ Store!RetentionAssumption

----------------------------------------------------------------------------
socketVars == <<counter, pending, call, queue, writer, reader, inbox, made, wire, events>>
gatewayVars == <<phase, cancelled, connected, lastSeq, inbound, busy, timer, due, silence, sent, taken>>
telegramVars == <<arrived, confirmed, client, handled, gen, running, used>>
matrixVars == <<room, syncing, synced, skipped, syncGen, syncRunning, syncUsed>>
transactionVars == <<txns, sends, answered, event, returned, spent>>
sendVars == <<sender, atts, text, files, missing, looked, posted, result>>
codeVars == <<msg, got>>
botVars == <<config, handle, started, stopped, clients, shown, slot>>
webVars == <<req>>
windowVars == <<seen, polled, clicked, jobs, saving, boot>>
consoleVars == <<cli, panicked>>
logVars == <<written, windows>>
groupVars == <<configs, contexts, selfIds, identified, ready, copied>>
storeVars == <<today, up, day, removed, routes, marks, bridged, standing>>

vars == <<chosen, socketVars, gatewayVars, telegramVars, matrixVars, transactionVars, sendVars,
          codeVars, botVars, disk, webVars, windowVars, consoleVars, logVars, groupVars, storeVars>>

FrontEnds == {"webui", "gui", "cli"}

(* Where a part with many beginnings waits in the behaviours of another. *)
SendingRests ==
    /\ sender = "Discord" /\ atts = <<>> /\ text = <<>> /\ files = <<>> /\ missing = {}
    /\ looked = 0 /\ posted = <<>> /\ result = "open"
CodesRest == msg = <<>> /\ got = Cq!NotYet
GroupsRest ==
    /\ configs = <<>> /\ contexts = {} /\ selfIds = {} /\ identified = {}
    /\ ready = FALSE /\ copied = {}

Init ==
    /\ chosen \in Chosen
    /\ OneBot!Init /\ Gateway!Init /\ Telegram!Init /\ Matrix!Init /\ Transactions!Init
    /\ IF chosen = "send" THEN Sending!Init ELSE SendingRests
    /\ IF chosen = "codes" THEN Cq!Init ELSE CodesRest
    /\ Web!Init /\ Window!Init /\ Console!Init
    /\ Log!Init
    /\ IF chosen = "bridges" THEN Groups!Init ELSE GroupsRest
    /\ Store!Init

(* Part p runs, the others rest. *)
Runs(p) ==
    /\ chosen = p /\ chosen' = chosen
    /\ IF p = "socket" THEN TRUE ELSE UNCHANGED socketVars
    /\ IF p \in {"gateway", "prompt gateway"} THEN TRUE ELSE UNCHANGED gatewayVars
    /\ IF p = "telegram" THEN TRUE ELSE UNCHANGED telegramVars
    /\ IF p = "matrix" THEN TRUE ELSE UNCHANGED matrixVars
    /\ IF p = "transactions" THEN TRUE ELSE UNCHANGED transactionVars
    /\ IF p = "send" THEN TRUE ELSE UNCHANGED sendVars
    /\ IF p = "codes" THEN TRUE ELSE UNCHANGED codeVars
    /\ IF p \in FrontEnds THEN TRUE ELSE UNCHANGED botVars
    /\ IF p \in {"webui", "gui"} THEN TRUE ELSE UNCHANGED disk
    /\ IF p = "webui" THEN TRUE ELSE UNCHANGED webVars
    /\ IF p = "gui" THEN TRUE ELSE UNCHANGED windowVars
    /\ IF p = "cli" THEN TRUE ELSE UNCHANGED consoleVars
    /\ IF p = "log" THEN TRUE ELSE UNCHANGED logVars
    /\ IF p = "bridges" THEN TRUE ELSE UNCHANGED groupVars
    /\ IF p = "retention" THEN TRUE ELSE UNCHANGED storeVars

Next ==
    \/ Runs("socket") /\ OneBot!Next
    \/ Runs("gateway") /\ Gateway!Next
    \/ Runs("prompt gateway") /\ Prompt!Next
    \/ Runs("telegram") /\ Telegram!Next
    \/ Runs("matrix") /\ Matrix!Next
    \/ Runs("transactions") /\ Transactions!Next
    \/ Runs("send") /\ Sending!Next
    \/ Runs("codes") /\ Cq!HandleMessage
    \/ Runs("webui") /\ Web!Next
    \/ Runs("gui") /\ Window!Next
    \/ Runs("cli") /\ Console!Next
    \/ Runs("log") /\ Log!Next
    \/ Runs("bridges") /\ Groups!Next
    \/ Runs("retention") /\ Store!Next

Spec == Init /\ [][Next]_vars

(* Tokio polls the callers and the read loop, timers fire, and a handler     *)
(* returns; NapCat owes nothing.                                             *)
SocketFairness ==
    /\ \A c \in Requests : WF_vars(Runs("socket") /\ OneBot!CallerStep(c))
    /\ WF_vars(Runs("socket") /\ OneBot!ReaderStep)

(* Requests are answered, time passes, a loop sees its token.  select!       *)
(* picks one of the branches that are ready at random, so a heartbeat that   *)
(* is due again and again is picked in the end.                              *)
GatewayFairness ==
    /\ WF_vars(Runs("gateway") /\ Gateway!Fetch) /\ WF_vars(Runs("gateway") /\ Gateway!Dial)
    /\ WF_vars(Runs("gateway") /\ Gateway!Leave) /\ WF_vars(Runs("gateway") /\ Gateway!Tick)
    /\ SF_vars(Runs("gateway") /\ Gateway!SendBeat) /\ SF_vars(Runs("gateway") /\ cancelled /\ Gateway!Break)

(* The polling tasks run, handlers return and the servers answer. *)
PollFairness ==
    /\ \A g \in Telegram!Gens : WF_vars(Runs("telegram") /\ Telegram!ClientStep(g))
    /\ \A g \in Matrix!Gens : WF_vars(Runs("matrix") /\ Matrix!ClientStep(g))

(* A window's tasks run, its event loop handles what they report, the status *)
(* stream goes on, and a cancelled client's requests end.  The user owes     *)
(* nothing.                                                                  *)
WindowFairness ==
    /\ WF_vars(Runs("gui") /\ Window!JobStep) /\ WF_vars(Runs("gui") /\ Window!BootStep)
    /\ WF_vars(Runs("gui") /\ Window!Poll) /\ WF_vars(Runs("gui") /\ Window!StatusUpdated)
    /\ \A g \in 1..MaxGen : \A p \in Window!Plats :
          WF_vars(Runs("gui") /\ g \in stopped /\ Window!Client(g, p))

FairSpec ==
    Spec /\ SocketFairness /\ GatewayFairness /\ PollFairness /\ WindowFairness

----------------------------------------------------------------------------
(* Properties: each is stated, with its reason, in the module of its part.   *)

(* The state of the part that runs keeps its shape (TypeInv of its module). *)
TypeInv ==
    /\ chosen = "socket" => OneBot!TypeInv
    /\ chosen = "gateway" => Gateway!TypeInv
    /\ chosen = "prompt gateway" => Prompt!TypeInv
    /\ chosen = "telegram" => Telegram!TypeInv
    /\ chosen = "matrix" => Matrix!TypeInv
    /\ chosen = "transactions" => Transactions!TypeInv
    /\ chosen = "send" => Sending!TypeInv
    /\ chosen = "codes" => Cq!TypeInv
    /\ chosen \in {"webui", "gui", "cli"} => Bot!BotTypeInv
    /\ chosen = "gui" => Window!GuiTypeInv
    /\ chosen = "log" => Log!TypeInv
    /\ chosen = "bridges" => Groups!TypeInv
    /\ chosen = "retention" => Store!TypeInv

(* The pending map leads each answer to the call it is for. *)
AnswersMatch == OneBot!AnswersMatch

(* The socket gives its callers what Calls promises. *)
KeepsPromise == OneBot!KeepsPromise

(* Every call on the socket ends, and an answer clears its entry. *)
CallsSettle == OneBot!CallsSettle

(* A heartbeat reports the last dispatch of its own connection, and Discord  *)
(* hears in time while handlers take no time to speak of.                    *)
HeartbeatsRight ==
    /\ Gateway!HeartbeatsRight
    /\ chosen = "prompt gateway" => Prompt!HeartbeatsRight

(* A heartbeat that is due goes out, however long the handlers. *)
BeatsGoOut == chosen = "gateway" => Gateway!BeatsGoOut

(* The offset and the cursor of a polling client never run ahead of its      *)
(* handlers, nor fall behind them: nothing skipped, nothing done twice.     *)
CursorHonest == Telegram!CursorHonest /\ Matrix!CursorHonest

(* While the bot and a polling client stay up, it comes by every event. *)
EventsHandled == Telegram!UpdatesHandled /\ Matrix!EventsPassed

(* Within a run of the process a Matrix send returns its own first event. *)
OwnEventInRun == Transactions!OwnEventInRun

(* A Matrix send that fails leaves at most the event whose answer was lost. *)
ErrorLeavesOne == Transactions!ErrorLeavesOne

(* A message arrives as it was meant. *)
SentAsMeant == Sending!SentAsMeant

(* A QQ message is read as it was meant. *)
ReadAsMeant == Cq!ReadAsMeant

(* At most one generation is started and not cancelled, whatever crosses. *)
OneRunning == Bot!OneRunning

(* A platform is shown as connected only while some client of it is, or      *)
(* where a panic took one away.                                              *)
NoFalseConnected == Bot!NoFalseConnected

(* The running bot's QQ runtime waits for NapCat in the slot or is in use,   *)
(* where one front end drives the bot: several windows of the WebUI can      *)
(* cross a stop with a start.                                                *)
RuntimeKept == chosen # "webui" => Bot!RuntimeKept

(* A stopped generation ends, the gateway connection among its clients. *)
StoppedEnd ==
    /\ Window!StoppedEnd
    /\ chosen = "gateway" => Gateway!CancelledEnds

(* The window keeps up with the bot. *)
WindowSettles == Window!WindowSettles

(* A window accounts for every line since it was opened. *)
Accounted == Log!Accounted

(* A copy is made only where the bot will recognise it. *)
CopiesRecognised == Groups!CopiesRecognised

(* Messages go where the configuration joins their channel to, and back. *)
RoutedAsConfigured == Groups!RoutedAsConfigured

(* The bot becomes ready, if every configured platform is named. *)
ReadyIfNamed == Groups!ReadyIfNamed

(* A recalled message is never forwarded again. *)
NoResurrection == Store!NoResurrection
=============================================================================
