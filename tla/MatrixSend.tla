----------------------------- MODULE MatrixSend -----------------------------
(***************************************************************************)
(* MatrixSender (src/src/matrix_sender.rs) in front of a homeserver.       *)
(* Several clients forward at once and share one counter of transaction    *)
(* ids; the homeserver answers a transaction id it has seen with the event *)
(* it created for it.  A send with images creates one event per image, one *)
(* after the other, and returns the id of the first.  The counter starts   *)
(* again with the process, the homeserver's memory does not.               *)
(***************************************************************************)
EXTENDS Naturals, FiniteSets

CONSTANTS Callers,      \* clients that forward to Matrix
          Images,       \* how many images a message may have
          MaxParts,     \* bound: parts of all messages sent
          MaxRedacts,   \* bound: calls of delete_message
          MaxFaults,    \* bound: failed requests, lost answers
          MaxRestarts   \* bound: restarts of the process

MatrixSendAssumption ==
    Images \cup {MaxParts, MaxRedacts, MaxFaults, MaxRestarts} \subseteq Nat

VARIABLES
    counter,    \* TXN_COUNTER
    call,       \* caller -> the send it is in
    answered,   \* homeserver: transaction id -> the event created for it
    event,      \* homeserver: events, each with the send and the run of the
                \* process that made it
    returned,   \* what each send that ended gave back, in which run
    used        \* how much of each bound is spent

vars == <<counter, call, answered, event, returned, used>>

Bounds == {"parts", "redacts", "faults", "restarts"}
None == 0
Idle == [pc |-> "idle", send |-> 0, part |-> 0, parts |-> 0, txn |-> None, first |-> None]
Events == {e.id : e \in event}

Init ==
    /\ counter = 1
    /\ call = [c \in Callers |-> Idle]
    /\ answered = {} /\ event = {} /\ returned = {}
    /\ used = [b \in Bounds |-> 0]

SpendMany(what, n, max) == used[what] + n <= max /\ used' = [used EXCEPT ![what] = @ + n]
Spend(what, max) == SpendMany(what, 1, max)

At(c, pc) == call[c].pc = pc
Goto(c, pc) == call' = [call EXCEPT ![c].pc = pc]

(* Text alone is one part without an upload. *)
Parts(images) == IF images = 0 THEN 1 ELSE images

Send(c, images) ==
    /\ At(c, "idle") /\ SpendMany("parts", Parts(images), MaxParts)
    /\ call' = [call EXCEPT ![c] =
          [Idle EXCEPT !.pc = IF images = 0 THEN "number" ELSE "upload",
                       !.send = used["parts"] + 1, !.part = 1,
                       !.parts = Parts(images)]]
    /\ UNCHANGED <<counter, answered, event, returned>>

(* The image is uploaded, if there is one. *)
Numbering(c) == call[c].pc \in {"upload", "number"}

(* Mutant: the counter is read, and written back with the answer. *)
ReadNumber(c) ==
    /\ Numbering(c)
    /\ call' = [call EXCEPT ![c].pc = "put", ![c].txn = counter]
    /\ counter' \in {counter, counter + 1}
    /\ UNCHANGED <<answered, event, returned, used>>

(* fetch_add, with no await between the upload's answer and it: two callers  *)
(* never take the same number.                                               *)
Number(c) ==
    /\ Numbering(c)
    /\ call' = [call EXCEPT ![c].pc = "put", ![c].txn = counter]
    /\ counter' = counter + 1
    /\ UNCHANGED <<answered, event, returned, used>>

Seen(txn) == \E a \in answered : a.txn = txn
EventOf(txn) == (CHOOSE a \in answered : a.txn = txn).id

(* PUT /send/m.room.message/{txn}: once per transaction id. *)
Put(c) ==
    LET new == Cardinality(event) + 1
    IN  /\ At(c, "put") /\ Goto(c, "answer")
        /\ IF Seen(call[c].txn)
           THEN UNCHANGED <<answered, event>>
           ELSE /\ answered' = answered \cup {[txn |-> call[c].txn, id |-> new]}
                /\ event' = event \cup {[id |-> new, send |-> call[c].send, part |-> call[c].part, run |-> used["restarts"]]}
        /\ UNCHANGED <<counter, returned, used>>

Give(c, id) ==
    /\ returned' = returned \cup {[send |-> call[c].send, id |-> id, run |-> used["restarts"]]}
    /\ call' = [call EXCEPT ![c] = Idle]

(* The next image, or the id of the first. *)
PartEnds(c, first) ==
    IF call[c].part = call[c].parts
    THEN Give(c, first)
    ELSE /\ call' = [call EXCEPT ![c].pc = "upload", ![c].part = @ + 1, ![c].txn = None, ![c].first = first]
         /\ UNCHANGED returned

FirstId(c, id) == IF call[c].part = 1 THEN id ELSE call[c].first

Answered(c) ==
    /\ At(c, "answer")
    /\ PartEnds(c, FirstId(c, EventOf(call[c].txn)))
    /\ UNCHANGED <<counter, answered, event, used>>

(* Mutant: `?` on every image. *)
EveryFailureCounts(c) == TRUE

(* Only the first part's failure is an error; the others are logged. *)
FailureCounts(c) == call[c].part = 1

(* The upload or the request fails, or its answer is lost. *)
PartFails(c) ==
    /\ call[c].pc \in {"upload", "put", "answer"}
    /\ Spend("faults", MaxFaults)
    /\ IF FailureCounts(c) THEN Give(c, None) ELSE PartEnds(c, call[c].first)
    /\ UNCHANGED <<counter, answered, event>>

(* delete_message takes a number too; its transactions are the redaction   *)
(* path's own.                                                             *)
Redact ==
    /\ Spend("redacts", MaxRedacts)
    /\ counter' = counter + 1
    /\ UNCHANGED <<call, answered, event, returned>>

(* The process starts again: the static counter is back at its beginning. *)
Restart ==
    /\ Spend("restarts", MaxRestarts)
    /\ counter' = 1
    /\ call' = [c \in Callers |-> Idle]
    /\ UNCHANGED <<answered, event, returned>>

Step(c) == Number(c) \/ Put(c) \/ Answered(c) \/ PartFails(c)

Next ==
    \/ \E c \in Callers : Step(c) \/ \E n \in Images : Send(c, n)
    \/ Redact \/ Restart

Spec == Init /\ [][Next]_vars

----------------------------------------------------------------------------
MadeBy(s) == {e \in event : e.send = s}

(* The shapes of the state; a transaction id stands for one event.           *)
TypeInv ==
    /\ counter \in Nat \ {0}
    /\ \A c \in Callers :
          /\ call[c].pc \in {"idle", "upload", "number", "put", "answer"}
          /\ call[c].send \in 0..MaxParts /\ call[c].parts \in Images \cup {0, 1}
          /\ call[c].part <= call[c].parts
          /\ call[c].first \in Events \cup {None}
    /\ \A a \in answered : a.id \in Events
    /\ \A a, b \in answered : a.txn = b.txn => a = b

(* "Returns the message ID assigned by the target platform on success.":     *)
(* the id a send returns, which the bridge records as the copy, replies to   *)
(* and redacts, is the event that very send created first, the one with the  *)
(* text: no concurrent send's, no later image's.  Within one run of the      *)
(* process, that is: the counter begins again with the next, whose first     *)
(* sends may be answered with events of before the restart.                  *)
OwnEventInRun ==
    \A r \in returned : r.id # None =>
        \E e \in event :
            /\ e.id = r.id
            /\ (e.send = r.send /\ e.part = 1) \/ e.run < r.run

(* A send that reports an error has left one event at most behind, the one   *)
(* whose answer was lost: images never stand in the room without an id for   *)
(* the bridge to recall them by.                                             *)
ErrorLeavesOne ==
    \A r \in returned : r.id = None =>
        \A e \in MadeBy(r.send) : e.part = 1 /\ MadeBy(r.send) = {e}
=============================================================================
