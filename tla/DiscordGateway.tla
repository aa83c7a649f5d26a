--------------------------- MODULE DiscordGateway ---------------------------
(***************************************************************************)
(* The Discord client's gateway connection (src/src/discord_client.rs):    *)
(* the outer loop that connects, the inner loop that selects between the   *)
(* token, the heartbeat channel and the socket, and the keepalive task     *)
(* that puts a heartbeat into that channel every thirty seconds.           *)
(*                                                                         *)
(* The inner loop awaits the handler of a message before it selects again. *)
(* Time passes in ticks; a loop that has a heartbeat to send and nothing   *)
(* else to do sends it before the next tick.                               *)
(***************************************************************************)
EXTENDS Naturals, Sequences

CONSTANTS Period,      \* ticks between heartbeats (30 s)
          Limit,       \* ticks Discord waits for one (41.25 s)
          MaxHandler,  \* bound: ticks a handler takes
          MaxSeq,      \* bound: dispatches in a session
          MaxQueue     \* bound: messages sent by Discord and not yet read

(* Discord waits no less than a heartbeat's period, and READY is within    *)
(* the bound.                                                              *)
GatewayAssumption ==
    /\ {Period, Limit, MaxHandler, MaxSeq, MaxQueue} \subseteq Nat
    /\ Period \in 1..Limit /\ MaxSeq # 0

VARIABLES
    phase,      \* "fetching" the gateway URL, "down", "open", "live", "ended"
    cancelled,  \* the token
    connected,  \* the connected flag
    lastSeq,    \* last_seq, 0 for None
    inbound,    \* messages on the socket
    busy,       \* ticks the handler still takes
    timer,      \* ticks until the keepalive task wakes
    due,        \* heartbeats in the channel, two standing for more
    silence,    \* ticks since Discord last heard a heartbeat or IDENTIFY
    sent,       \* dispatches Discord has sent in this session
    taken       \* ghost: those of them the loop has taken

beat == <<timer, due, silence>>
session == <<lastSeq, inbound, sent, taken>>
vars == <<phase, cancelled, connected, busy, beat, session>>

Lesser(a, b) == IF a < b THEN a ELSE b

Init ==
    /\ phase = "fetching" /\ cancelled = FALSE /\ connected = FALSE
    /\ lastSeq = 0 /\ inbound = <<>> /\ busy = 0
    /\ timer = 0 /\ due = 0 /\ silence = 0
    /\ sent = 0 /\ taken = 0

Selecting == phase \in {"open", "live"} /\ busy = 0

----------------------------------------------------------------------------
(* The outer loop.                                                         *)

(* The gateway's URL; a failure ends the task. *)
Fetch ==
    /\ phase = "fetching" /\ phase' \in {"down", "ended"}
    /\ UNCHANGED <<cancelled, connected, busy, beat, session>>

(* Mutant: last_seq lives as long as the client. *)
DialKeepingSeq ==
    /\ phase = "down" /\ ~cancelled /\ phase' = "open"
    /\ inbound' = <<>> /\ sent' = 0 /\ taken' = 0 /\ due' = 0
    /\ UNCHANGED <<cancelled, connected, busy, timer, silence, lastSeq>>

(* Mutant: the token is not looked at before a reconnect. *)
DialCancelled ==
    /\ phase = "down" /\ phase' = "open"
    /\ lastSeq' = 0 /\ inbound' = <<>> /\ sent' = 0 /\ taken' = 0 /\ due' = 0
    /\ UNCHANGED <<cancelled, connected, busy, timer, silence>>

(* A connection has a last_seq and a heartbeat channel of its own. *)
Dial ==
    /\ phase = "down" /\ ~cancelled /\ phase' = "open"
    /\ lastSeq' = 0 /\ inbound' = <<>> /\ sent' = 0 /\ taken' = 0 /\ due' = 0
    /\ UNCHANGED <<cancelled, connected, busy, timer, silence>>

Leave ==
    /\ phase = "down" /\ cancelled /\ phase' = "ended"
    /\ connected' = FALSE
    /\ UNCHANGED <<cancelled, busy, beat, session>>

----------------------------------------------------------------------------
(* The inner loop.                                                         *)

(* op 10: IDENTIFY, and a keepalive task. *)
Hello ==
    /\ phase = "open" /\ phase' = "live"
    /\ timer' = Period /\ silence' = 0
    /\ UNCHANGED <<cancelled, connected, busy, due, session>>

(* Mutant: no heartbeat without a sequence number to report. *)
SendBeatWithSeq ==
    /\ Selecting /\ due > 0
    /\ due' = due - 1 /\ silence' = IF lastSeq = 0 THEN silence ELSE 0
    /\ UNCHANGED <<phase, cancelled, connected, busy, timer, session>>

SendBeat ==
    /\ Selecting /\ due > 0
    /\ due' = due - 1 /\ silence' = 0
    /\ UNCHANGED <<phase, cancelled, connected, busy, timer, session>>

Receive(kind) ==
    /\ Selecting /\ inbound # <<>> /\ Head(inbound) = kind
    /\ inbound' = Tail(inbound)

(* "s" is null except in a dispatch. *)
SeqAfter(kind) == IF kind \in {"ready", "event"} THEN taken + 1 ELSE lastSeq

(* op 0.  A handler is awaited; READY sets the flag. *)
Dispatch ==
    \E kind \in {"ready", "event"} :
        /\ Receive(kind)
        /\ lastSeq' = SeqAfter(kind) /\ taken' = taken + 1
        /\ connected' = (connected \/ kind = "ready")
        /\ busy' \in IF kind = "event" THEN 0..MaxHandler ELSE {0}
        /\ UNCHANGED <<phase, cancelled, beat, sent>>

(* op 11, a heartbeat acknowledged: nobody counts them. *)
Ack ==
    /\ Receive("ack")
    /\ lastSeq' = SeqAfter("ack")
    /\ UNCHANGED <<phase, cancelled, connected, busy, beat, sent, taken>>

(* op 1 is answered with a heartbeat at once. *)
Asked ==
    /\ Receive("beat")
    /\ lastSeq' = SeqAfter("beat") /\ silence' = 0
    /\ UNCHANGED <<phase, cancelled, connected, busy, timer, due, sent, taken>>

(* op 7 or 9, a close, an error, or the token. *)
Break ==
    /\ Selecting /\ phase' = "down"
    /\ connected' = FALSE
    /\ UNCHANGED <<cancelled, busy, beat, session>>

----------------------------------------------------------------------------
(* Discord, the controller, time.                                          *)

Push(kind) ==
    /\ phase = "live" /\ Len(inbound) < MaxQueue
    /\ (sent = 0) <=> (kind = "ready")
    /\ kind = "event" => sent < MaxSeq
    /\ inbound' = Append(inbound, kind)
    /\ sent' = IF kind \in {"ready", "event"} THEN sent + 1 ELSE sent
    /\ UNCHANGED <<phase, cancelled, connected, lastSeq, busy, beat, taken>>

Cancel ==
    /\ ~cancelled /\ cancelled' = TRUE
    /\ UNCHANGED <<phase, connected, busy, beat, session>>

(* Mutant: the keepalive task is started by READY. *)
WakesWhenReady == timer = 1 /\ connected

Wakes == timer = 1

Tick ==
    /\ phase = "live" /\ ~(Selecting /\ due > 0)
    /\ busy' = IF busy > 0 THEN busy - 1 ELSE 0
    /\ timer' = IF timer = 1 THEN Period ELSE timer - 1
    /\ due' = IF Wakes THEN Lesser(due + 1, 2) ELSE due
    /\ silence' = Lesser(silence + 1, Limit + 1)
    /\ UNCHANGED <<phase, cancelled, connected, session>>

Next ==
    \/ Fetch \/ Dial \/ Leave
    \/ Hello \/ SendBeat \/ Dispatch \/ Ack \/ Asked \/ Break
    \/ \E kind \in {"ready", "event", "ack", "beat"} : Push(kind)
    \/ Cancel \/ Tick

Spec == Init /\ [][Next]_vars

----------------------------------------------------------------------------
(* The shapes of the state. The flag is up only in a session that is ready. *)
TypeInv ==
    /\ phase \in {"fetching", "down", "open", "live", "ended"}
    /\ {cancelled, connected} \subseteq BOOLEAN
    /\ inbound \in Seq({"ready", "event", "ack", "beat"}) /\ Len(inbound) <= MaxQueue
    /\ busy \in 0..MaxHandler /\ timer \in 0..Period
    /\ due \in 0..2 /\ silence \in 0..(Limit + 1)
    /\ taken <= sent /\ sent <= MaxSeq
    /\ connected => phase = "live" /\ taken > 0

(* What a heartbeat would report is the last dispatch of this connection,    *)
(* never one of an earlier session, and acknowledgements do not disturb it.  *)
SeqReported == phase = "live" => lastSeq = taken

(* "30s < 41.25s": Discord never waits longer than it allows.  True while    *)
(* handlers take no time to speak of.                                        *)
HeartbeatInTime == phase = "live" => silence <= Limit

(* A heartbeat reports the right number, and comes in time where handlers    *)
(* take none.                                                                *)
HeartbeatsRight == SeqReported /\ (MaxHandler = 0 => HeartbeatInTime)

(* A heartbeat that is due is sent sooner or later, however busy the channel *)
(* and however long the handlers.                                            *)
BeatsGoOut == due > 0 ~> silence = 0 \/ phase # "live"

(* A cancelled client ends.                                                  *)
CancelledEnds == cancelled ~> phase = "ended"
=============================================================================
