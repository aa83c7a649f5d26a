----------------------------- MODULE Controller -----------------------------
(***************************************************************************)
(* BotController (src/src/bot_controller.rs) and the life of the clients   *)
(* it spawns, as the front ends WebUi, Gui and Cli drive it.               *)
(*                                                                         *)
(* Each successful start makes a new generation of clients.  stop cancels  *)
(* a token and waits for nobody, so generations overlap; they share the    *)
(* four connected flags.  The QQ client is passive: it is a QQRuntime that *)
(* start returns, that the front end keeps in a slot, and that the         *)
(* WebSocket handler takes when NapCat connects.                           *)
(***************************************************************************)
EXTENDS Naturals, Sequences

CONSTANTS Configs,   \* configurations: the platforms they configure
          MaxGen     \* bound: successful starts

Plats == {"Discord", "QQ", "Telegram", "Matrix"}
Gens == 1..MaxGen

ControllerAssumption ==
    /\ MaxGen \in Nat
    /\ \A c \in Configs : c.plats \subseteq Plats

VARIABLES
    config,      \* BotController.config
    handle,      \* BotInner.handle: the running generation, 0 for none
    started,     \* the configuration each generation was started with
    cancelled,   \* generations whose token is cancelled
    client,      \* generation -> platform -> where its client is
    shown,       \* platforms whose connected flag is set
    slot         \* generation whose QQRuntime the front end keeps, 0 for none

botVars == <<config, handle, started, cancelled, client, shown, slot>>

NoClients == [p \in Plats |-> "none"]

BotInit(c) ==
    /\ config = c
    /\ handle = 0 /\ started = <<>> /\ cancelled = {}
    /\ client = [g \in Gens |-> NoClients]
    /\ shown = {} /\ slot = 0

----------------------------------------------------------------------------
(* start, stop and update_config.                                          *)

NewGen == Len(started) + 1

Spawned(c) == [p \in Plats |-> IF p \in c.plats THEN "begun" ELSE "none"]

(* Mutant: a start does not look whether the bot is running. *)
NotRunningIgnored == TRUE

NotRunning == handle = 0

(* start with configuration c, read before the inner lock was taken. *)
StartBot(c) ==
    /\ NotRunning /\ NewGen \in Gens
    /\ started' = Append(started, c)
    /\ handle' = NewGen
    /\ client' = [client EXCEPT ![NewGen] = Spawned(c)]
    /\ shown' = {}
    /\ UNCHANGED <<config, cancelled, slot>>

(* The database or the HTTP client cannot be opened: the flags are already *)
(* cleared, nothing else has happened.                                     *)
StartFails ==
    /\ NotRunning
    /\ shown' = {}
    /\ UNCHANGED <<config, handle, started, cancelled, client, slot>>

AlreadyRunning == ~NotRunning /\ UNCHANGED botVars

StopBot ==
    /\ cancelled' = IF handle = 0 THEN cancelled ELSE cancelled \cup {handle}
    /\ handle' = 0
    /\ UNCHANGED <<config, started, client, shown, slot>>

UpdateConfig(c) ==
    /\ config' = c
    /\ UNCHANGED <<handle, started, cancelled, client, shown, slot>>

----------------------------------------------------------------------------
(* The slot.  A runtime that is overwritten or cleared there is dropped.   *)

Dropping(g) == IF g = 0 THEN client ELSE [client EXCEPT ![g]["QQ"] = "dropped"]

PutRuntime(g) ==
    /\ slot' = g /\ client' = Dropping(slot)
    /\ UNCHANGED <<config, handle, started, cancelled, shown>>

ClearSlot ==
    /\ slot' = 0 /\ client' = Dropping(slot)
    /\ UNCHANGED <<config, handle, started, cancelled, shown>>

(* NapCat holds one connection. *)
NapCatFree == \A g \in Gens : client[g]["QQ"] \notin {"open", "up"}

(* Mutant: the runtime is shared with the slot instead of taken from it. *)
ShareRuntime ==
    /\ slot # 0 /\ NapCatFree
    /\ client' = [client EXCEPT ![slot]["QQ"] = "open"]
    /\ UNCHANGED <<config, handle, started, cancelled, shown, slot>>

TakeRuntime ==
    /\ slot # 0 /\ NapCatFree
    /\ client' = [client EXCEPT ![slot]["QQ"] = "open"]
    /\ slot' = 0
    /\ UNCHANGED <<config, handle, started, cancelled, shown>>

----------------------------------------------------------------------------
(* The clients.                                                            *)

Moves(g, p, to) ==
    /\ client' = [client EXCEPT ![g][p] = to]
    /\ UNCHANGED <<config, handle, started, cancelled, slot>>

(***************************************************************************)
(* A client's way, by platform:                                            *)
(*   Telegram, Matrix: begun - up - ended                                  *)
(*   QQ:      begun - open (taken by the WebSocket handler) - up - ended,  *)
(*            or panicked instead of ended                                 *)
(*   Discord: begun - down - open - up - down - ... - ended                *)
(***************************************************************************)

(* The lifecycle event, READY, getMe or whoami. *)
Identifies(g, p) ==
    /\ client[g][p] = IF p \in {"QQ", "Discord"} THEN "open" ELSE "begun"
    /\ Moves(g, p, "up")
    /\ shown' = shown \cup {p}

(* The client's first request, which has no retry. *)
Fetches(g) == client[g]["Discord"] = "begun" /\ Moves(g, "Discord", "down") /\ UNCHANGED shown

GivesUp(g, p) ==
    /\ p # "QQ" /\ client[g][p] = "begun"
    /\ Moves(g, p, "ended")
    /\ UNCHANGED shown

(* Discord's outer loop looks at the token before it connects again. *)
Dials(g) ==
    /\ client[g]["Discord"] = "down" /\ g \notin cancelled
    /\ Moves(g, "Discord", "open")
    /\ UNCHANGED shown

DialFails(g) == client[g]["Discord"] = "open" /\ Moves(g, "Discord", "down") /\ UNCHANGED shown

(* Mutant: the end of a connection leaves the flag. *)
LosesQuietly(g, p) ==
    /\ p \in {"QQ", "Discord"} /\ client[g][p] \in {"open", "up"}
    /\ Moves(g, p, IF p = "QQ" THEN "ended" ELSE "down")
    /\ UNCHANGED shown

(* A gateway loop or the socket's read loop ends at a break, cancelled or  *)
(* not.  The flag is cleared, even if this connection never set it.        *)
LosesConnection(g, p) ==
    /\ p \in {"QQ", "Discord"} /\ client[g][p] \in {"open", "up"}
    /\ Moves(g, p, IF p = "QQ" THEN "ended" ELSE "down")
    /\ shown' = shown \ {p}

(* The handler of a QQ message, which the read loop awaits, panics (CqText *)
(* has when): the task unwinds past the line that clears the flag.         *)
Panics(g) ==
    /\ client[g]["QQ"] \in {"open", "up"}
    /\ Moves(g, "QQ", "panicked")
    /\ UNCHANGED shown

(* A cancelled client leaves its loop and clears the flag, which it shares *)
(* with the clients of the other generations.                              *)
Leaves(g, p) ==
    /\ g \in cancelled /\ p # "QQ"
    /\ client[g][p] = IF p = "Discord" THEN "down" ELSE "up"
    /\ Moves(g, p, "ended")
    /\ shown' = shown \ {p}

ClientStep(g, p) ==
    \/ Identifies(g, p) \/ GivesUp(g, p)
    \/ p = "Discord" /\ (Fetches(g) \/ Dials(g) \/ DialFails(g))
    \/ LosesConnection(g, p) \/ Leaves(g, p)
    \/ p = "QQ" /\ Panics(g)

(* What a cancelled generation's client does sooner or later: its requests *)
(* are answered or fail, its loops see the token.                          *)
WindsDown(g, p) == g \in cancelled /\ ClientStep(g, p)

----------------------------------------------------------------------------
(* Properties the front ends check.                                        *)

(* The shapes of the state; a slot holds the runtime of a generation whose  *)
(* QQ client waits for its connection.                                      *)
BotTypeInv ==
    /\ config \in Configs /\ started \in Seq(Configs) /\ Len(started) <= MaxGen
    /\ handle \in 0..Len(started) /\ cancelled \subseteq 1..Len(started)
    /\ client \in [Gens -> [Plats -> {"none", "begun", "dropped", "open", "up", "down", "ended", "panicked"}]]
    /\ \A g \in Gens : g > Len(started) => client[g] = NoClients
    /\ shown \subseteq Plats /\ slot \in 0..Len(started)
    /\ slot # 0 => client[slot]["QQ"] = "begun"

(* At most one generation is started and not cancelled, the one a stop       *)
(* would reach: whatever start and stop requests cross, none is orphaned.    *)
OneRunning == \A g \in 1..Len(started) : g \in cancelled <=> g # handle

(* A platform is shown as connected only while some client of it is, or where *)
(* a panic took a QQ client away, the one end that leaves the flag.          *)
LeftFlag(g, p) == p = "QQ" /\ client[g][p] = "panicked"

NoFalseConnected == \A p \in shown : \E g \in Gens : client[g][p] = "up" \/ LeftFlag(g, p)

(* The running bot's runtime is not dropped before NapCat has connected.     *)
RuntimeKept == handle # 0 => client[handle]["QQ"] # "dropped"

(* A stopped generation ends: its clients leave, its runtime goes.           *)
StoppedEnd ==
    \A g \in Gens : g \in cancelled ~>
        \A p \in Plats : client[g][p] \in {"none", "dropped", "ended", "panicked"}
=============================================================================
