------------------------------- MODULE Bridge -------------------------------
(***************************************************************************)
(* One bridge group: the platforms it links, the client task of each       *)
(* platform, Bridge::forward and Bridge::recall (src/src/bridge.rs) and    *)
(* the store they share.                                                   *)
(*                                                                         *)
(* A client reads its platform's events one at a time and awaits the       *)
(* handler before it takes the next, so it is a process with one task at   *)
(* most.  Every await, and every store call another process can come       *)
(* between, ends a step.  Stopping a bot only cancels a token: clients of  *)
(* the old generation finish their handler, and may read more events,      *)
(* beside the clients of the next generation.  They share the database and *)
(* nothing else.                                                           *)
(***************************************************************************)
EXTENDS MessageStore, FiniteSets, Sequences

CONSTANTS Senders,      \* the platforms in the order Bridges::new pushes senders
          Groups,       \* group keys
          Group,        \* the key of this bridge
          NoMsg,        \* absence of a message id
          MaxExtra,     \* messages a multi-part send creates beyond the first
          Echoes,       \* platforms that report the bot's own actions back to it
          MaxGen,       \* bound: times the bot is started
          Posters,      \* bound: platforms people post on
          MaxPosts,     \* bound: messages people post
          MaxDeletes,   \* bound: messages people delete
          MaxFaults,    \* bound: failed calls, lost answers, missed events, ended clients
          MaxCrashes    \* bound: process crashes

Plats == {Senders[i] : i \in DOMAIN Senders}
Gens == 1..MaxGen
Clients == Gens \X Plats

(* Properties of the platforms' APIs and of the code that calls them. *)
MultiPart == {"Telegram", "Matrix"}     \* an album is several messages, one id returned
SilentDelete == {"QQ"}                  \* delete_msg ignores the status of the answer
Connected == {"QQ", "Discord"}          \* calls fail before the client has connected
Lossy == {"Discord", "Matrix"}          \* new session without RESUME; answers cut to a limit

ASSUME BridgeAssumption ==
    /\ Senders \in Seq(Platform)
    /\ \A i, j \in DOMAIN Senders : Senders[i] = Senders[j] => i = j
    /\ Group \in Groups
    /\ NoMsg \notin Endpoint
    /\ {MaxExtra, MaxGen, MaxPosts, MaxDeletes, MaxFaults, MaxCrashes} \subseteq Nat
    /\ Echoes \subseteq Plats /\ Posters \subseteq Plats

VARIABLES
    next,        \* platform -> number of messages ever created there
    live,        \* messages that exist
    copyOf,      \* <<c, m>>: the bot created c by forwarding m
    log,         \* platform -> events it reports, in order
    pos,         \* client -> how many of them it has taken
    task,        \* client -> the handler it is in
    rows,        \* message_routes
    nextRow,     \* its AUTOINCREMENT counter
    recalled,    \* recalled_messages
    suppressed,  \* generation -> suppressed_recalls
    known,       \* generation -> platforms whose self id is set
    ready,       \* generation -> the shared ready flag
    gen,         \* generation started last
    running,     \* BotInner.handle.is_some()
    used,        \* how much of each bound is spent
    late,        \* ghost: copies created after their source was marked
    refused,     \* ghost: messages a delete was asked for and not carried out
    unrouted     \* ghost: copies whose id never reached the bridge

platform == <<next, live, copyOf, log>>
store == <<rows, nextRow, recalled>>
flags == <<known, ready>>
control == <<gen, running>>
ghosts == <<late, refused, unrouted>>
Bounds == {"posts", "deletes", "faults", "crashes"}

vars == <<platform, pos, task, store, suppressed, flags, control, used, ghosts>>

Copies == {x[1] : x \in copyOf}

Idle == [pc |-> "idle", msg |-> NoMsg, left |-> <<>>, reply |-> {}, dst |-> NoMsg, todo |-> {}]
Gone == [Idle EXCEPT !.pc = "gone"]

Init ==
    /\ next = [p \in Plats |-> 0]
    /\ live = {} /\ copyOf = {}
    /\ log = [p \in Plats |-> <<>>]
    /\ pos = [c \in Clients |-> 0]
    /\ task = [c \in Clients |-> Gone]
    /\ rows = {} /\ nextRow = 1 /\ recalled = {}
    /\ suppressed = [g \in Gens |-> {}]
    /\ known = [g \in Gens |-> {}]
    /\ ready = [g \in Gens |-> FALSE]
    /\ gen = 0 /\ running = FALSE
    /\ used = [b \in Bounds |-> 0]
    /\ late = {} /\ refused = {} /\ unrouted = {}

Spend(what, max) ==
    /\ used[what] < max
    /\ used' = [used EXCEPT ![what] = @ + 1]

----------------------------------------------------------------------------
(* People and platforms.  Events name the message, for a create also the   *)
(* message it replies to.                                                  *)

Event(kind, m, replied) == [kind |-> kind, msg |-> m, replied |-> replied]

Post(p, replied) ==
    LET m == <<p, next[p] + 1>>
    IN  /\ Spend("posts", MaxPosts)
        /\ next' = [next EXCEPT ![p] = @ + 1]
        /\ live' = live \cup {m}
        /\ log' = [log EXCEPT ![p] = Append(@, Event("create", m, replied))]
        /\ UNCHANGED <<copyOf, pos, task, store, suppressed, flags, control, ghosts>>

(* Anyone may remove any message of the chat, a moderator a copy too. *)
Delete(m) ==
    /\ Spend("deletes", MaxDeletes)
    /\ live' = live \ {m}
    /\ log' = [log EXCEPT ![m[1]] = Append(@, Event("delete", m, NoMsg))]
    /\ UNCHANGED <<next, copyOf, pos, task, store, suppressed, flags, control, ghosts>>

----------------------------------------------------------------------------
(* Clients: taking the next event.                                         *)

(* NapCat holds one connection.  It opens the next when the client on the  *)
(* old one has left it, and reports nothing to that one afterwards.        *)
Replaced(c) == c[2] = "QQ" /\ \E g \in Gens : g > c[1] /\ "QQ" \in known[g]

Connectable(c) ==
    c[2] = "QQ" => \A g \in Gens : g < c[1] => task[<<g, "QQ">>].pc \in {"idle", "gone"}

Hears(c) ==
    /\ task[c].pc = "idle" /\ c[2] \in known[c[1]] /\ ~Replaced(c)
    /\ pos[c] < Len(log[c[2]])
Heard(c) == log[c[2]][pos[c] + 1]
Take(c) == pos' = [pos EXCEPT ![c] = @ + 1]

(***************************************************************************)
(* Where a new client of p begins to read.  QQ and Discord push what       *)
(* happens from now on.  Telegram hands out what no getUpdates confirmed,  *)
(* Matrix a recent stretch of the timeline (since = None): both may repeat *)
(* what an earlier client has handled.                                     *)
(***************************************************************************)
FirstRead(p) ==
    CASE p \in {"QQ", "Discord"} -> {Len(log[p])}
      [] p = "Telegram" -> {k \in 0..Len(log[p]) : k = 0 \/ \E g \in Gens : k <= pos[<<g, p>>]}
      [] p = "Matrix" -> 0..Len(log[p])

(* check_ready *)
AllKnown(ids) == Plats \subseteq ids

(* The client connects and learns the bot's own id, which raises ready     *)
(* once every configured platform has done so (set_*_self_id).             *)
Identify(c) ==
    LET g == c[1] IN
    /\ task[c].pc = "idle" /\ c[2] \notin known[g]
    /\ ~Replaced(c) /\ Connectable(c)
    /\ known' = [known EXCEPT ![g] = @ \cup {c[2]}]
    /\ ready' = [ready EXCEPT ![g] = @ \/ AllKnown(known'[g])]
    /\ \E k \in FirstRead(c[2]) : pos' = [pos EXCEPT ![c] = k]
    /\ UNCHANGED <<platform, task, store, suppressed, control, used, ghosts>>

(* A client that is over for good, while the bot runs on: the first request *)
(* of the Discord, Telegram or Matrix client fails, which has no retry; or *)
(* NapCat's connection ends, or a panic of handle_message ends it, and the *)
(* runtime that would serve the next one is used up.                       *)
EndsForGood(c) ==
    /\ task[c].pc = "idle"
    /\ c[2] # "QQ" => c[2] \notin known[c[1]]
    /\ Spend("faults", MaxFaults)
    /\ task' = [task EXCEPT ![c] = Gone]
    /\ UNCHANGED <<platform, pos, store, suppressed, flags, control, ghosts>>

(* Mutant: a client without its author filter. *)
FromNobody(m) == FALSE

(* The author filters of the four clients: the bot's own messages. *)
FromSelf(m) == m \in Copies

(* Matrix strips the content of a redacted event.  One fetched before the  *)
(* redaction is forwarded, one fetched after it has an empty body.         *)
Blank(m) == m[1] = "Matrix" /\ m \notin live

Dropped(g, m) == FromSelf(m) \/ ~ready[g] \/ IsRecalled(recalled, Group, m)


(* A message event that is not forwarded. *)
IgnoreCreate(c) ==
    /\ Hears(c) /\ Heard(c).kind = "create"
    /\ Dropped(c[1], Heard(c).msg) \/ Blank(Heard(c).msg)
    /\ Take(c)
    /\ UNCHANGED <<platform, task, store, suppressed, flags, control, used, ghosts>>

(* forward up to its loop: the gates, then the reply lookup. *)
ReplyRecord(replied) == IF replied = NoMsg THEN {} ELSE Query(rows, Group, replied)

BeginForward(c) ==
    /\ Hears(c) /\ Heard(c).kind = "create"
    /\ ~Dropped(c[1], Heard(c).msg)
    /\ Take(c)
    /\ task' = [task EXCEPT ![c] =
                 [Idle EXCEPT !.pc = "fanout", !.msg = Heard(c).msg,
                              !.left = Senders,
                              !.reply = ReplyRecord(Heard(c).replied)]]
    /\ UNCHANGED <<platform, store, suppressed, flags, control, used, ghosts>>

(* A recall of a message this bridge has routed.  QQ also looks at the     *)
(* author of the recalled message.                                         *)
Recallable(c, m) ==
    /\ IsSource(rows, Group, m)
    /\ m \notin suppressed[c[1]]
    /\ m[1] = "QQ" => ~FromSelf(m)

(* take_suppressed_recall only runs once is_source_message said yes. *)
HandleDelete(c) ==
    LET m == Heard(c).msg IN
    /\ Hears(c) /\ Heard(c).kind = "delete"
    /\ Take(c)
    /\ task' = IF Recallable(c, m)
               THEN [task EXCEPT ![c] = [Idle EXCEPT !.pc = "marking", !.msg = m]]
               ELSE task
    /\ suppressed' = IF IsSource(rows, Group, m)
                     THEN [suppressed EXCEPT ![c[1]] = @ \ {m}]
                     ELSE suppressed
    /\ UNCHANGED <<platform, store, flags, control, used, ghosts>>

(* The gateway connection is replaced by a new session (IDENTIFY, never    *)
(* RESUME), or a sync answer holds only the latest events of the room:     *)
(* what came before is never seen.                                         *)
MissEvents(c) ==
    /\ Hears(c) /\ c[2] \in Lossy
    /\ Spend("faults", MaxFaults)
    /\ \E k \in (pos[c] + 1)..Len(log[c[2]]) : pos' = [pos EXCEPT ![c] = k]
    /\ UNCHANGED <<platform, task, store, suppressed, flags, control, ghosts>>

----------------------------------------------------------------------------
(* forward, one target per round of its loop.                              *)

At(c, pc) == task[c].pc = pc
Goto(c, pc) == task' = [task EXCEPT ![c].pc = pc]

(* `continue`: the next target, or the handler returns. *)
Rest(t) == [t EXCEPT !.pc = "fanout", !.left = Tail(t.left), !.dst = NoMsg]

(* Mutant: the loop does not end at the last target. *)
NextTargetForever(c) == task' = [task EXCEPT ![c] = Rest(task[c])]

NextTarget(c) ==
    task' = [task EXCEPT ![c] = IF Len(task[c].left) = 1 THEN Idle ELSE Rest(task[c])]

IsMarked(m) == IsRecalled(recalled, Group, m)

(* Mutant: the message's own platform gets a copy too. *)
OwnForgotten(c) == FALSE

Own(c) == Head(task[c].left) = task[c].msg[1]

SkipOwn(c) ==
    /\ At(c, "fanout") /\ Own(c)
    /\ NextTarget(c)
    /\ UNCHANGED <<platform, pos, store, suppressed, flags, control, used, ghosts>>

(* Recalled during the fan-out: the remaining targets are skipped. *)
StopForward(c) ==
    /\ At(c, "fanout") /\ ~Own(c) /\ IsMarked(task[c].msg)
    /\ task' = [task EXCEPT ![c] = Idle]
    /\ UNCHANGED <<platform, pos, store, suppressed, flags, control, used, ghosts>>

(* Mutant: the marker is not looked up before each target. *)
SendAnyway(c) ==
    /\ At(c, "fanout") /\ ~Own(c)
    /\ Goto(c, "sending")
    /\ UNCHANGED <<platform, pos, store, suppressed, flags, control, used, ghosts>>

SendTo(c) ==
    /\ At(c, "fanout") /\ ~Own(c) /\ ~IsMarked(task[c].msg)
    /\ Goto(c, "sending")
    /\ UNCHANGED <<platform, pos, store, suppressed, flags, control, used, ghosts>>

(* The native reply the sender is given on its platform. *)
ReplyTarget(c) == IdOn(task[c].reply, Head(task[c].left))

(* What a client's handlers can call: before its platform has connected    *)
(* there is no Discord client yet and nobody reads for QQ, and after the   *)
(* QQ client has ended nobody does any more.                               *)
Reachable(c, p) ==
    /\ p \in Connected => p \in known[c[1]]
    /\ p = "QQ" => ~At(<<c[1], p>>, "gone")

(* A failure of its own, or the channel to the write task is closed. *)
SendFails(c) ==
    /\ At(c, "sending")
    /\ \/ Spend("faults", MaxFaults)
       \/ ~Reachable(c, Head(task[c].left)) /\ UNCHANGED used
    /\ NextTarget(c)
    /\ UNCHANGED <<platform, pos, store, suppressed, flags, control, ghosts>>

(* The platform creates the message, or the n messages of an album; the    *)
(* sender will report the first.  NapCat may do so when the client has     *)
(* ended, with a request under way or from the write task a panic left.    *)
Parts(p) == IF p \in MultiPart THEN 1..(1 + MaxExtra) ELSE {1}

SendLands(c) ==
    LET m == task[c].msg
        p == Head(task[c].left)
    IN  /\ At(c, "sending")
        /\ \E n \in Parts(p) :
             LET new == {<<p, i>> : i \in (next[p] + 1)..(next[p] + n)}
             IN  /\ next' = [next EXCEPT ![p] = @ + n]
                 /\ live' = live \cup new
                 /\ copyOf' = copyOf \cup {<<d, m>> : d \in new}
                 /\ log' = IF p \in Echoes
                           THEN [log EXCEPT ![p] = @ \o [i \in 1..n |-> Event("create", <<p, next[p] + i>>, NoMsg)]]
                           ELSE log
                 /\ late' = IF IsMarked(m) THEN late \cup new ELSE late
        /\ task' = [task EXCEPT ![c] = [task[c] EXCEPT !.pc = "landed", !.dst = <<p, next[p] + 1>>]]
        /\ UNCHANGED <<pos, store, suppressed, flags, control, used, refused, unrouted>>

(* Mutant: an error answer makes forward try the same target again. *)
RetrySend(c) ==
    /\ At(c, "landed")
    /\ Spend("faults", MaxFaults)
    /\ unrouted' = unrouted \cup {task[c].dst}
    /\ Goto(c, "fanout")
    /\ UNCHANGED <<platform, pos, store, suppressed, flags, control, late, refused>>

(* Created, but the sender returns Err: no id, no route. *)
AnswerLost(c) ==
    /\ At(c, "landed")
    /\ Spend("faults", MaxFaults)
    /\ unrouted' = unrouted \cup {task[c].dst}
    /\ NextTarget(c)
    /\ UNCHANGED <<platform, pos, store, suppressed, flags, control, late, refused>>

Answerable(c) == Reachable(c, task[c].dst[1])

(* Created, and nobody is left to read the answer: the call times out. *)
AnswerUnread(c) ==
    /\ At(c, "landed") /\ ~Answerable(c)
    /\ unrouted' = unrouted \cup {task[c].dst}
    /\ NextTarget(c)
    /\ UNCHANGED <<platform, pos, store, suppressed, flags, control, used, late, refused>>

(* Mutant: the second is_recalled check is missing. *)
KeepLateCopy(c) ==
    /\ At(c, "landed")
    /\ Goto(c, "inserting")
    /\ UNCHANGED <<platform, pos, store, suppressed, flags, control, used, ghosts>>

(* The id came back: is the source still wanted? *)
KeepCopy(c) ==
    /\ At(c, "landed") /\ Answerable(c) /\ ~IsMarked(task[c].msg)
    /\ Goto(c, "inserting")
    /\ UNCHANGED <<platform, pos, store, suppressed, flags, control, used, ghosts>>

Suppress(g, m) == suppressed' = [suppressed EXCEPT ![g] = @ \cup {m}]

(* Mutant: every copy is undone, marked or not. *)
UndoAnyCopy(c) ==
    /\ At(c, "landed")
    /\ Suppress(c[1], task[c].dst)
    /\ Goto(c, "cleaning")
    /\ UNCHANGED <<platform, pos, store, flags, control, used, ghosts>>

UndoCopy(c) ==
    /\ At(c, "landed") /\ Answerable(c) /\ IsMarked(task[c].msg)
    /\ Suppress(c[1], task[c].dst)
    /\ Goto(c, "cleaning")
    /\ UNCHANGED <<platform, pos, store, flags, control, used, ghosts>>

(* delete_message on task[c].dst: what it does to the platform, and to the *)
(* suppression when it reports an error.                                   *)
Unsuppress(c) == suppressed' = [suppressed EXCEPT ![c[1]] = @ \ {task[c].dst}]

Removed(d) ==
    /\ live' = live \ {d}
    /\ log' = IF d \in live /\ d[1] \in Echoes
              THEN [log EXCEPT ![d[1]] = Append(@, Event("delete", d, NoMsg))]
              ELSE log

Refused(d) == refused' = refused \cup {d} /\ UNCHANGED <<live, log>>

(* Carried out; carried out but answered with an error or not at all;      *)
(* refused.  To a platform out of reach the call is an error: there is no  *)
(* Discord client yet, and what is left for NapCat may be sent to it after *)
(* the caller has given up.                                                *)
Deletion(c) ==
    LET d == task[c].dst IN
    /\ UNCHANGED <<next, copyOf, late, unrouted>>
    /\ \/ /\ Reachable(c, d[1])
          /\ Removed(d)
          /\ UNCHANGED <<suppressed, refused, used>>
       \/ /\ Reachable(c, d[1]) /\ Spend("faults", MaxFaults)
          /\ Removed(d) /\ Unsuppress(c)
          /\ UNCHANGED refused
       \/ /\ Reachable(c, d[1]) /\ Spend("faults", MaxFaults)
          /\ Refused(d)
          /\ Unsuppress(c) \/ (d[1] \in SilentDelete /\ UNCHANGED suppressed)
       \/ /\ ~Reachable(c, d[1])
          /\ Refused(d) \/ (d[1] = "QQ" /\ Removed(d) /\ UNCHANGED refused)
          /\ Unsuppress(c)
          /\ UNCHANGED used

CleanUp(c) ==
    /\ At(c, "cleaning")
    /\ Deletion(c)
    /\ Goto(c, "inserting")
    /\ UNCHANGED <<pos, store, flags, control>>

InsertRoute(c) ==
    /\ At(c, "inserting")
    /\ rows' = Insert(rows, nextRow, Group, task[c].msg, task[c].dst)
    /\ nextRow' = nextRow + 1
    /\ NextTarget(c)
    /\ UNCHANGED <<platform, pos, recalled, suppressed, flags, control, used, ghosts>>

----------------------------------------------------------------------------
(* recall *)

Mark(c) ==
    /\ At(c, "marking")
    /\ recalled' = MarkRecalled(recalled, Group, task[c].msg)
    /\ Goto(c, "lookup")
    /\ UNCHANGED <<platform, pos, rows, nextRow, suppressed, flags, control, used, ghosts>>

(* Mutant: the recalled message is not skipped. *)
LinkedAll(m) == {e \in Related(rows, Group, m) : e[1] \in Plats}

(* Every linked endpoint but the recalled one, where there is a sender. *)
Linked(m) == {e \in Related(rows, Group, m) : e # m /\ e[1] \in Plats}

(* Mutant: the loop ends one short. *)
RecallingOneShort(t, S) ==
    IF Cardinality(S) <= 1 THEN Idle ELSE [t EXCEPT !.pc = "recalling", !.todo = S, !.dst = NoMsg]

(* for (..) in related, in the order of a HashSet. *)
Recalling(t, S) == IF S = {} THEN Idle ELSE [t EXCEPT !.pc = "recalling", !.todo = S, !.dst = NoMsg]

LookUp(c) ==
    /\ At(c, "lookup")
    /\ task' = [task EXCEPT ![c] = Recalling(task[c], Linked(task[c].msg))]
    /\ UNCHANGED <<platform, pos, store, suppressed, flags, control, used, ghosts>>

RecallCopy(c) ==
    /\ At(c, "recalling")
    /\ \E d \in task[c].todo :
         /\ Suppress(c[1], d)
         /\ task' = [task EXCEPT ![c] = [task[c] EXCEPT !.pc = "deleting", !.dst = d,
                                                         !.todo = task[c].todo \ {d}]]
    /\ UNCHANGED <<platform, pos, store, flags, control, used, ghosts>>

DeleteCopy(c) ==
    /\ At(c, "deleting")
    /\ Deletion(c)
    /\ task' = [task EXCEPT ![c] = Recalling(task[c], task[c].todo)]
    /\ UNCHANGED <<pos, store, flags, control>>

----------------------------------------------------------------------------
(* The controller.                                                         *)

(* stop() waits for nobody.  A cancelled client leaves its loop between    *)
(* two events, at a moment of its own: since nothing reads the state of an *)
(* idle client, leaving is taking no further step.                         *)
Cancelled(c) == c[1] < gen \/ ~running

Start ==
    /\ ~running /\ gen < MaxGen
    /\ gen' = gen + 1
    /\ running' = TRUE
    /\ task' = [c \in Clients |-> IF c[1] = gen + 1 THEN Idle ELSE task[c]]
    /\ UNCHANGED <<platform, pos, store, suppressed, flags, used, ghosts>>

Stop ==
    /\ running
    /\ running' = FALSE
    /\ UNCHANGED <<platform, pos, task, store, suppressed, flags, gen, used, ghosts>>

(* prune_recall_state, every five minutes: the entries grown old. *)
CleanupTick ==
    /\ running
    /\ \E S \in SUBSET suppressed[gen] : suppressed' = [suppressed EXCEPT ![gen] = S]
    /\ suppressed' # suppressed
    /\ UNCHANGED <<platform, pos, task, store, flags, control, used, ghosts>>

(* The process dies: what is in memory is lost, the database is not. *)
Crash ==
    /\ running \/ \E c \in Clients : ~At(c, "gone")
    /\ Spend("crashes", MaxCrashes)
    /\ task' = [c \in Clients |-> Gone]
    /\ unrouted' = unrouted \cup {task[c].dst : c \in {k \in Clients : task[k].pc \in {"landed", "cleaning", "inserting"}}}
    /\ suppressed' = [g \in Gens |-> {}]
    /\ known' = [g \in Gens |-> {}]
    /\ ready' = [g \in Gens |-> FALSE]
    /\ running' = FALSE
    /\ UNCHANGED <<platform, pos, store, gen, late, refused>>

----------------------------------------------------------------------------
Users ==
    \/ \E p \in Posters : \E r \in {<<p, i>> : i \in 1..next[p]} \cup {NoMsg} : Post(p, r)
    \/ \E m \in live : Delete(m)

Forwarding(c) ==
    \/ BeginForward(c) \/ SkipOwn(c) \/ StopForward(c) \/ SendTo(c) \/ SendLands(c)
    \/ AnswerUnread(c) \/ KeepCopy(c) \/ UndoCopy(c) \/ CleanUp(c) \/ InsertRoute(c)

RecallSteps(c) ==
    HandleDelete(c) \/ Mark(c) \/ LookUp(c) \/ RecallCopy(c) \/ DeleteCopy(c)

ClientStep(c) == Identify(c) \/ IgnoreCreate(c) \/ Forwarding(c) \/ RecallSteps(c)

ClientFault(c) == SendFails(c) \/ AnswerLost(c) \/ MissEvents(c) \/ EndsForGood(c)

Controller == Start \/ Stop \/ CleanupTick \/ Crash

Next ==
    \/ Users
    \/ \E c \in Clients : ClientStep(c) \/ ClientFault(c)
    \/ Controller

Spec == Init /\ [][Next]_vars

(***************************************************************************)
(* Every client's task keeps being polled until it is cancelled or over,   *)
(* and calls are answered or time out: a handler that can go on does.      *)
(* People, faults and the controller owe nothing.                          *)
(***************************************************************************)
FairSpec == Spec /\ \A c \in Clients : WF_vars(ClientStep(c) /\ ~Cancelled(c))

----------------------------------------------------------------------------
PCs == {"gone", "idle", "fanout", "sending", "landed", "cleaning", "inserting",
        "marking", "lookup", "recalling", "deleting"}

Events == [kind : {"create", "delete"}, msg : Endpoint, replied : Endpoint \cup {NoMsg}]

Task == [pc : PCs, msg : Endpoint \cup {NoMsg}, left : Seq(Plats),
         reply : SUBSET Endpoint, dst : Endpoint \cup {NoMsg}, todo : SUBSET Endpoint]

PlatformOK ==
    /\ next \in [Plats -> Nat]
    /\ live \subseteq Plats \X Nat
    /\ copyOf \subseteq Endpoint \X Endpoint
    /\ log \in [Plats -> Seq(Events)]

StoreOK ==
    /\ rows \subseteq Row(Groups)
    /\ nextRow \in Nat
    /\ recalled \subseteq Groups \X Endpoint

MemoryOK ==
    /\ suppressed \in [Gens -> SUBSET Endpoint]
    /\ known \in [Gens -> SUBSET Plats]
    /\ ready \in [Gens -> BOOLEAN]

ControlOK ==
    /\ gen \in 0..MaxGen
    /\ running \in BOOLEAN
    /\ used \in [Bounds -> Nat]

GhostsOK == late \subseteq Endpoint /\ refused \subseteq Endpoint /\ unrouted \subseteq Endpoint

TypeOK ==
    /\ PlatformOK /\ StoreOK /\ MemoryOK /\ ControlOK /\ GhostsOK
    /\ pos \in [Clients -> Nat]
    /\ task \in [Clients -> Task]

(* The fields a handler relies on are set in the steps that use them. *)
Resting == {"gone", "idle"}
Fanning == {"fanout", "sending", "landed", "cleaning", "inserting"}
Holding == {"landed", "cleaning", "inserting", "deleting"}

Shape(t) ==
    /\ t.pc \notin Resting => t.msg \in Endpoint
    /\ t.pc \in Fanning => t.left # <<>>
    /\ t.pc \in Holding => t.dst \in Endpoint

TypeInv == TypeOK /\ \A c \in Clients : Shape(task[c])

(***************************************************************************)
(* A copy is never forwarded again: with the bot's own actions reported    *)
(* back, clients of two generations and replayed timelines, every message  *)
(* the bot forwards was posted by a person.  (Author filters of the        *)
(* clients; no ping-pong between platforms.)                               *)
(***************************************************************************)
NoEcho == \A x \in copyOf : x[2] \notin Copies

(***************************************************************************)
(* Who owns which id: what NoEcho, NoForeignDelete and SuppressionHarmless *)
(* rest on.  Ids are created once; every row, suppression and handler of   *)
(* the bridge tells the truth about which message is a copy of which.      *)
(***************************************************************************)
Created(m) == m[1] \in Plats /\ m[2] \in 1..next[m[1]]

IdsCreated ==
    /\ \A m \in live : Created(m)
    /\ \A x \in copyOf : Created(x[1]) /\ Created(x[2])
    /\ \A p \in Plats : \A i \in DOMAIN log[p] : Created(log[p][i].msg)

OneSource == \A x, y \in copyOf : x[1] = y[1] => x[2] = y[2]

RoutesTrue == \A r \in rows : <<r.dst, r.src>> \in copyOf

SuppressedCopies == \A g \in Gens : suppressed[g] \subseteq Copies

Truthful(t) ==
    /\ t.pc \notin Resting => Created(t.msg) /\ t.msg \notin Copies
    /\ t.pc \in Holding => <<t.dst, t.msg>> \in copyOf
    /\ \A d \in t.todo : <<d, t.msg>> \in copyOf

TasksTrue == \A c \in Clients : Truthful(task[c])

Ownership ==
    IdsCreated /\ NoEcho /\ OneSource /\ RoutesTrue /\ SuppressedCopies /\ TasksTrue

(***************************************************************************)
(* The bridge turns against a message only after it was removed: a delete  *)
(* event, a mark and a handler that marks, looks up or deletes copies are  *)
(* about a message that is gone, and gone messages do not come back.       *)
(***************************************************************************)
Withdrawn(m) == Created(m) /\ m \notin live

Withdrawing == {"cleaning", "marking", "lookup", "recalling", "deleting"}

OnlyWithdrawn ==
    /\ \A p \in Plats : \A i \in DOMAIN log[p] : log[p][i].kind = "delete" => Withdrawn(log[p][i].msg)
    /\ \A x \in recalled : Withdrawn(x[2])
    /\ \A c \in Clients : task[c].pc \in Withdrawing => Withdrawn(task[c].msg)

(***************************************************************************)
(* Who is at home where, which NoSelfCall and the refinement rest on: a    *)
(* platform reports its own messages, a client handles those of its        *)
(* platform, and copies are sent to and stand on another one.              *)
(***************************************************************************)
Homes ==
    /\ \A p \in Plats : \A i \in DOMAIN log[p] : log[p][i].msg[1] = p
    /\ \A x \in copyOf : x[1][1] # x[2][1]
    /\ \A c \in Clients :
          /\ task[c].pc \notin Resting => task[c].msg[1] = c[2]
          /\ At(c, "sending") => Head(task[c].left) # task[c].msg[1]

(***************************************************************************)
(* All steps of all handlers, crashes and overlapping generations included *)
(* come to nothing but what Mirror allows: copies of what people posted,   *)
(* on the other platforms, and the removal of copies whose source has been *)
(* removed.  (bridge.rs: "Forward an incoming message to all other         *)
(* platforms", "Try to delete every bridged copy of a message.")           *)
(***************************************************************************)
Promise == INSTANCE Mirror WITH MaxParts <- 1 + MaxExtra, removals <- used["deletes"]

KeepsPromise == Promise!Spec

(***************************************************************************)
(* Bridge::recall and the late cleanup of Bridge::forward delete only      *)
(* copies of the message they were called for: never the message of a      *)
(* person, never a copy of another message, however the walk over the      *)
(* routes got there.                                                       *)
(***************************************************************************)
NoForeignDelete ==
    \A c \in Clients :
        task[c].pc \in {"cleaning", "deleting"} => <<task[c].dst, task[c].msg>> \in copyOf

(***************************************************************************)
(* No handler calls the platform its own client serves.  The QQ client is  *)
(* the only reader of OneBot answers and awaits its handler: such a call   *)
(* would wait for an answer nobody reads.  (The source check of forward;   *)
(* recall relies on where the routes lead.)                                *)
(***************************************************************************)
NoSelfCall ==
    \A c \in Clients :
        /\ At(c, "sending") => Head(task[c].left) # c[2]
        /\ task[c].pc \in {"cleaning", "deleting"} => task[c].dst[1] # c[2]

(***************************************************************************)
(* Suppressing the echo of the bot's own deletion never swallows the       *)
(* recall of a person: no message in suppressed_recalls is the source of a *)
(* route, and only those are looked up there.                              *)
(***************************************************************************)
SuppressionHarmless == \A g \in Gens : \A m \in suppressed[g] : ~IsSource(rows, Group, m)

(***************************************************************************)
(* A forwarded reply threads under the message it answers: the target the  *)
(* sender is given is the replied-to message or another copy of it.        *)
(***************************************************************************)
Origin(m) == IF m \in Copies THEN CHOOSE s \in {x[2] : x \in copyOf} : <<m, s>> \in copyOf ELSE m

RepliedTo(m) == {e.replied : e \in {log[m[1]][i] : i \in {j \in DOMAIN log[m[1]] :
                    log[m[1]][j].kind = "create" /\ log[m[1]][j].msg = m}}}

ReplyThreads ==
    \A c \in Clients : At(c, "sending") =>
        \A t \in ReplyTarget(c) : \A r \in RepliedTo(task[c].msg) : Origin(t) = Origin(r)

(***************************************************************************)
(* A client forwards a message to each other platform at most once: no     *)
(* failure or lost answer makes forward repeat a send.  (Replays after a   *)
(* restart do: the bound is the number of generations.)                    *)
(***************************************************************************)
OneCopyPerRun ==
    MaxExtra = 0 =>
    \A m \in {x[2] : x \in copyOf} : \A p \in Plats :
        Cardinality({d \in Copies : d[1] = p /\ <<d, m>> \in copyOf}) <= gen

(***************************************************************************)
(* Once a marked message has no handler left, every routed copy of it is   *)
(* gone, unless the platform refused the deletion.  (recall: "Try to       *)
(* delete every bridged copy of a message.")                               *)
(***************************************************************************)
Busy(m) == \E c \in Clients : task[c].msg = m

Settled(m) == \A r \in rows : r.group = Group /\ r.src = m => r.dst \notin live \/ r.dst \in refused

RecallReaches == \A x \in recalled : ~Busy(x[2]) => Settled(x[2])

(***************************************************************************)
(* A copy that lands after its source was marked does not survive the      *)
(* handler that sent it: it is undone, refused, or its id was lost.        *)
(* (The second is_recalled check of forward's loop.)                       *)
(***************************************************************************)
Firsts == {d \in Copies : \E c \in Clients : task[c].pc \in {"landed", "cleaning"} /\ task[c].dst = d}

LateCopyUndone == MaxExtra = 0 => late \cap live \subseteq refused \cup unrouted \cup Firsts

(***************************************************************************)
(* A mark stops the fan-out at the target it is on: the clients of other   *)
(* generations create at most one more copy each.                          *)
(***************************************************************************)
FanoutStops ==
    MaxExtra = 0 =>
    \A x \in recalled : Cardinality({d \in late : <<d, x[2]>> \in copyOf}) < gen

(***************************************************************************)
(* No copy is lost track of: it has its row, or its handler is about to    *)
(* write it, or its id never came back (an error answer, a crash).  Undone *)
(* copies get their row too.                                               *)
(***************************************************************************)
RoutedOrInFlight ==
    MaxExtra = 0 =>
    \A x \in copyOf :
        \/ \E r \in rows : r.dst = x[1] /\ r.src = x[2]
        \/ \E c \in Clients : task[c].dst = x[1] /\ task[c].msg = x[2]
        \/ x[1] \in unrouted

(***************************************************************************)
(* What the code does not keep to (see the README, Findings).              *)
(*                                                                         *)
(* message.rs: "Resolved result of a reply lookup: maps one original       *)
(* message to IDs on all known platforms."  The record forward works with  *)
(* has an id on every platform the routes know one for.                    *)
(***************************************************************************)
RecordKnowsAll ==
    [][\A c \in Clients :
          BeginForward(c) /\ task'[c].reply # {} =>
              \A e \in Related(rows, Group, Heard(c).replied) :
                  IdOn(task'[c].reply, e[1]) # {}]_vars

(***************************************************************************)
(* bridge.rs: "Try to delete every bridged copy of a message."  As         *)
(* RecallReaches, for every message forward created, not only the one of   *)
(* each send that got a route.                                             *)
(***************************************************************************)
EveryCopyRecalled ==
    \A x \in recalled : ~Busy(x[2]) =>
        \A d \in live : <<d, x[2]>> \in copyOf => d \in refused \cup unrouted

(***************************************************************************)
(* store.rs on mark_recalled: "This lets forwarders short-circuit even if  *)
(* the source delete event arrives before the original message has been    *)
(* written to `message_routes`."  A delete event for a message that is     *)
(* being forwarded gets it marked.                                         *)
(***************************************************************************)
EarlyDeleteMarks ==
    [][\A c \in Clients :
          HandleDelete(c) /\ Busy(Heard(c).msg) => task'[c].pc = "marking"]_vars

(***************************************************************************)
(* While the bot stays up and with it its client of p, every message a     *)
(* person removes on p takes its routed copies with it, whatever became of *)
(* the other clients: the delete event waits behind the forward of the     *)
(* same client and is handled in the end.                                  *)
(***************************************************************************)
Serves(p) == running /\ ~At(<<gen, p>>, "gone")

Removals(p) ==
    \A i \in 1..MaxPosts : [](i <= next[p] /\ <<p, i>> \notin live => <>[]Settled(<<p, i>>))

=============================================================================
