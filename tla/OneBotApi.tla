------------------------------ MODULE OneBotApi ------------------------------
(***************************************************************************)
(* The request/answer half of the OneBot socket: Api::call                 *)
(* (src/src/onebot_api.rs) as its callers' tasks run it, the channel to    *)
(* the write task, NapCat, and the read loop of handle_socket              *)
(* (src/src/bot_controller.rs), which hands answers to the callers.        *)
(*                                                                         *)
(* One runtime of one generation: the channel, the pending map and at most *)
(* one socket.  The echo counter is a static of the process.  Callers are  *)
(* handlers of the other platforms' clients, so several calls are under    *)
(* way at once.                                                            *)
(***************************************************************************)
EXTENDS Naturals, Sequences, FiniteSets, Functions

CONSTANTS Requests,     \* the calls made
          Deletions,    \* those of them that are delete_msg
          MaxEvents     \* bound: events NapCat reports

OneBotAssumption == Deletions \subseteq Requests /\ MaxEvents \in Nat

VARIABLES
    counter,   \* ECHO_COUNTER
    pending,   \* echo -> the call whose oneshot sender it holds
    call,      \* call -> its locals
    queue,     \* the channel of serialised requests
    writer,    \* the write task: "slot" (not connected), "running", "ended"
    reader,    \* the read loop: "slot", "reading", "handling" an event, "ended"
    inbox,     \* requests NapCat has received and not served
    made,      \* call -> how often NapCat carried it out
    wire,      \* what NapCat has sent and the read loop not taken
    events     \* how many events NapCat has reported

client == <<counter, pending, call>>
socket == <<queue, writer, reader>>
napcat == <<inbox, made, wire, events>>
vars == <<client, socket, napcat>>

NoAnswer == [kind |-> "none"]
Answer(r, ok) == [kind |-> "answer", echo |-> r.echo, ok |-> ok, of |-> r.call]
AnEvent == [kind |-> "event"]

Init ==
    /\ counter = 0 /\ pending = <<>>
    /\ call = [c \in Requests |-> [pc |-> "idle", echo |-> 0, answer |-> NoAnswer, names |-> {}]]
    /\ queue = <<>> /\ writer = "slot" /\ reader = "slot"
    /\ inbox = {} /\ made = [c \in Requests |-> 0] /\ wire = <<>> /\ events = 0

----------------------------------------------------------------------------
(* The caller: Api::call, then send_group_msg or delete_msg.               *)

(* Mutant: an echo taken from the size of the pending map. *)
EchoBySize(c) == Cardinality(DOMAIN pending)

EchoOf(c) == counter

(* A fresh echo and an entry in the pending map, before anything is sent. *)
Register(c) ==
    LET e == EchoOf(c)
    IN  /\ call[c].pc = "idle"
        /\ counter' = counter + 1
        /\ pending' = [x \in DOMAIN pending \cup {e} |-> IF x = e THEN c ELSE pending[x]]
        /\ call' = [call EXCEPT ![c].pc = "registered", ![c].echo = e]
        /\ UNCHANGED <<socket, napcat>>

(* tx.send fails when the receiver is gone; the entry stays in the map. *)
Enqueue(c) ==
    /\ call[c].pc = "registered" /\ writer # "ended"
    /\ queue' = Append(queue, [echo |-> call[c].echo, call |-> c])
    /\ call' = [call EXCEPT ![c].pc = "waiting"]
    /\ UNCHANGED <<counter, pending, writer, reader, napcat>>

EnqueueFails(c) ==
    /\ call[c].pc = "registered" /\ writer = "ended"
    /\ call' = [call EXCEPT ![c].pc = "error"]
    /\ UNCHANGED <<counter, pending, socket, napcat>>

(* Mutant: any answer counts as a success. *)
AcceptedAny(c) == TRUE

(* delete_msg looks at no field of the answer, send_group_msg needs the id. *)
Accepted(c) == c \in Deletions \/ call[c].answer.ok

Return(c) ==
    /\ call[c].pc = "waiting" /\ call[c].answer # NoAnswer
    /\ call' = [call EXCEPT ![c] =
          IF Accepted(c) THEN [@ EXCEPT !.pc = "ok", !.names = {call[c].answer.of}]
                         ELSE [@ EXCEPT !.pc = "error"]]
    /\ UNCHANGED <<counter, pending, socket, napcat>>

(* Mutant: the timeout is started only once the request is on its way. *)
TimeoutSent(c) ==
    /\ call[c].pc = "waiting" /\ call[c].answer = NoAnswer
    /\ \A i \in DOMAIN queue : queue[i].call # c
    /\ call' = [call EXCEPT ![c].pc = "error"]
    /\ UNCHANGED <<counter, pending, socket, napcat>>

(* Ten seconds without an answer.  The waiter is dropped, the entry stays. *)
Timeout(c) ==
    /\ call[c].pc = "waiting" /\ call[c].answer = NoAnswer
    /\ call' = [call EXCEPT ![c].pc = "error"]
    /\ UNCHANGED <<counter, pending, socket, napcat>>

----------------------------------------------------------------------------
(* The socket.                                                             *)

(* NapCat connects and the handler takes the runtime out of its slot. *)
Connect ==
    /\ reader = "slot" /\ writer = "slot"
    /\ writer' = "running" /\ reader' = "reading"
    /\ UNCHANGED <<client, queue, napcat>>

Transmit ==
    /\ writer = "running" /\ queue # <<>>
    /\ inbox' = inbox \cup {Head(queue)}
    /\ queue' = Tail(queue)
    /\ UNCHANGED <<client, writer, reader, made, wire, events>>

(* Cancelled, or a send failed: the receiver goes, and what it held.  So   *)
(* too when the read loop is gone after a panic.                           *)
WriterEnds ==
    /\ writer = "running"
    /\ writer' = "ended" /\ queue' = <<>>
    /\ UNCHANGED <<client, reader, napcat>>

(* Mutant: the entry is looked up and left in the map. *)
DeliverAndKeep(a) ==
    LET c == pending[a.echo]
    IN  /\ pending' = pending
        /\ call' = IF call[c].pc \in {"registered", "waiting"}
                   THEN [call EXCEPT ![c].answer = a] ELSE call

(* Dispatch takes the entry out of the map.  The waiter may be gone.  *)
Deliver(a) ==
    LET c == pending[a.echo]
    IN  /\ pending' = Restrict(pending, DOMAIN pending \ {a.echo})
        /\ call' = IF call[c].pc \in {"registered", "waiting"}
                   THEN [call EXCEPT ![c].answer = a] ELSE call

(* The read loop dispatches an answer itself and awaits the handler of an  *)
(* event.  Until that returns it reads nothing, answers included.          *)
Dispatch ==
    /\ reader = "reading" /\ wire # <<>> /\ Head(wire).kind = "answer"
    /\ wire' = Tail(wire)
    /\ IF Head(wire).echo \in DOMAIN pending THEN Deliver(Head(wire))
                                             ELSE UNCHANGED <<pending, call>>
    /\ UNCHANGED <<counter, socket, inbox, made, events>>

TakeEvent ==
    /\ reader = "reading" /\ wire # <<>> /\ Head(wire).kind = "event"
    /\ wire' = Tail(wire) /\ reader' = "handling"
    /\ UNCHANGED <<client, queue, writer, inbox, made, events>>

HandlerReturns ==
    /\ reader = "handling"
    /\ reader' = "reading"
    /\ UNCHANGED <<client, queue, writer, napcat>>

(* The handler of an event panics: the task of the read loop unwinds, past *)
(* the line that aborts the write task, which goes on with the channel.    *)
(* What NapCat answers from then on nobody reads.                          *)
HandlerPanics ==
    /\ reader = "handling"
    /\ reader' = "ended" /\ wire' = <<>>
    /\ UNCHANGED <<client, queue, writer, inbox, made, events>>

(* Cancelled, closed or failed.  write_task is aborted. *)
ReaderEnds ==
    /\ reader = "reading"
    /\ reader' = "ended" /\ writer' = "ended" /\ queue' = <<>> /\ wire' = <<>>
    /\ UNCHANGED <<client, inbox, made, events>>

(* The bot is stopped before NapCat ever connected: the slot is emptied. *)
Discard ==
    /\ reader = "slot"
    /\ reader' = "ended" /\ writer' = "ended" /\ queue' = <<>>
    /\ UNCHANGED <<client, napcat>>

----------------------------------------------------------------------------
(* NapCat serves requests in any order, may refuse one, and may never      *)
(* answer.                                                                 *)

Sent(m) == wire' = IF reader = "ended" THEN wire ELSE Append(wire, m)

Serve(r) ==
    /\ inbox' = inbox \ {r}
    /\ made' = [made EXCEPT ![r.call] = @ + 1]
    /\ Sent(Answer(r, TRUE)) \/ UNCHANGED wire
    /\ UNCHANGED <<client, socket, events>>

Refuse(r) ==
    /\ inbox' = inbox \ {r}
    /\ Sent(Answer(r, FALSE))
    /\ UNCHANGED <<client, socket, made, events>>

Report ==
    /\ reader \in {"reading", "handling"} /\ events < MaxEvents
    /\ events' = events + 1
    /\ Sent(AnEvent)
    /\ UNCHANGED <<client, socket, inbox, made>>

----------------------------------------------------------------------------
CallerStep(c) == Enqueue(c) \/ EnqueueFails(c) \/ Return(c) \/ Timeout(c)
ReaderStep == Dispatch \/ TakeEvent \/ HandlerReturns

Next ==
    \/ \E c \in Requests : Register(c) \/ CallerStep(c)
    \/ Connect \/ Transmit \/ WriterEnds \/ ReaderStep \/ HandlerPanics \/ ReaderEnds \/ Discard
    \/ \E r \in inbox : Serve(r) \/ Refuse(r)
    \/ Report

Spec == Init /\ [][Next]_vars

----------------------------------------------------------------------------
(* Properties.                                                             *)

Request == [echo : Nat, call : Requests]
AnswerType == [kind : {"answer"}, echo : Nat, ok : BOOLEAN, of : Requests]

(* The shapes of the state, and what the two tasks of handle_socket have in  *)
(* common: they take the runtime out of the slot together, and the channel   *)
(* goes with the write task, which may outlive the read loop.                *)
TypeInv ==
    /\ writer = "slot" <=> reader = "slot"
    /\ writer = "ended" => queue = <<>>
    /\ counter \in Nat /\ events \in 0..MaxEvents
    /\ DOMAIN pending \subseteq 0..counter /\ \A e \in DOMAIN pending : pending[e] \in Requests
    /\ call \in [Requests -> [pc : {"idle", "registered", "waiting", "ok", "error"}, echo : Nat,
                              answer : AnswerType \cup {NoAnswer}, names : SUBSET Requests]]
    /\ queue \in Seq(Request) /\ inbox \subseteq Request
    /\ writer \in {"slot", "running", "ended"}
    /\ reader \in {"slot", "reading", "handling", "ended"}
    /\ made \in [Requests -> Nat]
    /\ wire \in Seq(AnswerType \cup {AnEvent})

Open(c) == call[c].pc \in {"registered", "waiting"}

(* Whoever still waits can be found: its entry is in the map, under its own  *)
(* echo, until the read loop hands it the answer.  Api::call inserts before  *)
(* it sends, and no other call takes the same echo.                          *)
Findable ==
    \A c \in Requests : Open(c) /\ call[c].answer = NoAnswer =>
        call[c].echo \in DOMAIN pending /\ pending[call[c].echo] = c

(* send_group_msg returns the id of the message it created, never that of   *)
(* another call's, whatever the order, the delay or the loss of answers.     *)
OwnAnswer ==
    \A c \in Requests :
        /\ call[c].answer # NoAnswer => call[c].answer.of = c
        /\ call[c].names \subseteq {c}

(* What is left behind in the pending map belongs to a call that is open or  *)
(* gave up: an answered call leaves nothing.                                 *)
OnlyUnanswered ==
    \A e \in DOMAIN pending :
        \/ Open(pending[e]) /\ call[pending[e]].answer = NoAnswer
        \/ call[pending[e]].pc = "error"

(* The pending map leads each answer to the call it is for, whatever the     *)
(* order, the delay and the loss of answers.                                 *)
AnswersMatch == Findable /\ OwnAnswer /\ OnlyUnanswered

(* Every call ends, with NapCat silent, the read loop busy with a handler or *)
(* the socket never opened.                                                  *)
CallsEnd == \A c \in Requests : call[c].pc = "registered" ~> call[c].pc \in {"ok", "error"}

(* An answer NapCat has sent clears its entry out of the pending map, also   *)
(* when the caller has given up, unless the socket ends first.               *)
OnWire(c) == \E i \in DOMAIN wire : wire[i].kind = "answer" /\ wire[i].of = c
AnswersClear ==
    \A c \in Requests :
        OnWire(c) ~> reader = "ended" \/ \A e \in DOMAIN pending : pending[e] # c

(* No call hangs, and no answer is left to lie: both of the above.           *)
CallsSettle == CallsEnd /\ AnswersClear

(* The module implements Calls. *)
StatusOf(c) ==
    CASE call[c].pc = "idle" -> "idle"
      [] Open(c) -> "open"
      [] OTHER -> call[c].pc

Promise == INSTANCE Calls WITH
    status <- [c \in Requests |-> StatusOf(c)],
    names <- [c \in Requests |-> call[c].names]

(* Callers can rely on Calls: at most one effect, a result that names its    *)
(* own effect, and failure that says nothing about it.                       *)
KeepsPromise == Promise!CSpec
=============================================================================
