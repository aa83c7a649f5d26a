----------------------------- MODULE MatrixSync -----------------------------
(***************************************************************************)
(* How the Matrix client reads its rooms (run in                           *)
(* src/src/matrix_client.rs): whoami once, and if that fails the client is *)
(* over; then /sync with the cursor of the last answer,                    *)
(* the timeline of each bridged room handled one event after the other,    *)
(* the next request after the whole answer.  The cursor moves before the   *)
(* events are handled and is forgotten with the client; without one the    *)
(* server answers with a recent stretch of the timeline.  An answer holds  *)
(* at most Limit events of a room, the latest.  One bridged room.          *)
(***************************************************************************)
EXTENDS Naturals, Sequences, FiniteSets

CONSTANTS Limit,        \* events of a room the server puts into one answer
          MaxEvents,    \* bound: events of the room
          MaxGen,       \* bound: times the bot is started
          MaxFaults,    \* bound: failed requests, error answers, lost answers
          MaxCrashes    \* bound: process crashes

SyncAssumption ==
    /\ Limit \in Nat \ {0}
    /\ {MaxEvents, MaxGen, MaxFaults, MaxCrashes} \subseteq Nat

VARIABLES
    room,       \* events 1..room are in the room
    client,     \* generation -> its cursor, answer and place in the loop
    handled,    \* generation -> events its handlers have finished with, in order
    skipped,    \* ghost: generation -> events an answer left out as too many
    gen,        \* generation started last
    running,    \* BotInner.handle.is_some()
    used        \* how much of each bound is spent

vars == <<room, client, handled, skipped, gen, running, used>>

Gens == 1..MaxGen
Bounds == {"faults", "crashes"}
NoSince == MaxEvents + 1
Out == [pc |-> "out", since |-> NoSince, first |-> 0, batch |-> <<>>]
Started == [Out EXCEPT !.pc = "greeting"]

Init ==
    /\ room = 0
    /\ client = [g \in Gens |-> Out]
    /\ handled = [g \in Gens |-> <<>>]
    /\ skipped = [g \in Gens |-> {}]
    /\ gen = 0 /\ running = FALSE
    /\ used = [b \in Bounds |-> 0]

Spend(what, max) == used[what] < max /\ used' = [used EXCEPT ![what] = @ + 1]

At(g, pc) == client[g].pc = pc
Cancelled(g) == g < gen \/ ~running

Happen ==
    /\ room < MaxEvents
    /\ room' = room + 1
    /\ UNCHANGED <<client, handled, skipped, gen, running, used>>

(* whoami, before the loop. *)
Identify(g) ==
    /\ At(g, "greeting")
    /\ client' = [client EXCEPT ![g].pc = "loop"]
    /\ UNCHANGED <<room, handled, skipped, gen, running, used>>

(* It has no retry.  The bot goes on running without this client. *)
GivesUp(g) ==
    /\ At(g, "greeting") /\ Spend("faults", MaxFaults)
    /\ client' = [client EXCEPT ![g] = Out]
    /\ UNCHANGED <<room, handled, skipped, gen, running>>

(* The token is looked at between two answers only. *)
Leave(g) ==
    /\ At(g, "loop") /\ Cancelled(g)
    /\ client' = [client EXCEPT ![g] = Out]
    /\ UNCHANGED <<room, handled, skipped, gen, running, used>>

Ask(g) ==
    /\ At(g, "loop") /\ ~Cancelled(g)
    /\ client' = [client EXCEPT ![g].pc = "asked"]
    /\ UNCHANGED <<room, handled, skipped, gen, running, used>>

(* Where the answer begins: the events after the cursor, if they are not   *)
(* too many, or the latest ones.                                           *)
Latest == IF room > Limit THEN room - Limit ELSE 0
Initial(g) == client[g].since = NoSince
From(g) == IF Initial(g) \/ client[g].since < Latest THEN Latest ELSE client[g].since

Answer(g) == [i \in 1..(room - From(g)) |-> From(g) + i]

(* next_batch *)
NextSince(g) == room

Answered(g) ==
    /\ At(g, "asked")
    /\ client' = [client EXCEPT ![g].since = NextSince(g), ![g].batch = Answer(g),
                                ![g].first = IF Initial(g) THEN From(g) ELSE @,
                                ![g].pc = IF Answer(g) = <<>> THEN "loop" ELSE "batch"]
    /\ skipped' = IF Initial(g) THEN skipped
                  ELSE [skipped EXCEPT ![g] = @ \cup (client[g].since + 1)..From(g)]
    /\ UNCHANGED <<room, handled, gen, running, used>>

(* The request or its answer is lost, or the answer is an error and has    *)
(* neither a cursor nor rooms.                                             *)
AskFails(g) ==
    /\ At(g, "asked") /\ Spend("faults", MaxFaults)
    /\ client' = [client EXCEPT ![g].pc = "loop"]
    /\ UNCHANGED <<room, handled, skipped, gen, running>>

(* Mutant: an event that is of no interest ends the round. *)
BreakOff(g) ==
    /\ At(g, "batch")
    /\ handled' = [handled EXCEPT ![g] = Append(@, Head(client[g].batch))]
    /\ client' = [client EXCEPT ![g].batch = <<>>, ![g].pc = "loop"]
    /\ UNCHANGED <<room, skipped, gen, running, used>>

(* The handler, forward or recall, has returned. *)
Handle(g) ==
    LET rest == Tail(client[g].batch) IN
    /\ At(g, "batch")
    /\ handled' = [handled EXCEPT ![g] = Append(@, Head(client[g].batch))]
    /\ client' = [client EXCEPT ![g].batch = rest, ![g].pc = IF rest = <<>> THEN "loop" ELSE "batch"]
    /\ UNCHANGED <<room, skipped, gen, running, used>>

Start ==
    /\ ~running /\ gen < MaxGen
    /\ gen' = gen + 1 /\ running' = TRUE
    /\ client' = [client EXCEPT ![gen + 1] = Started]
    /\ UNCHANGED <<room, handled, skipped, used>>

Stop ==
    /\ running /\ running' = FALSE
    /\ UNCHANGED <<room, client, handled, skipped, gen, used>>

Crash ==
    /\ running \/ \E g \in Gens : ~At(g, "out")
    /\ Spend("crashes", MaxCrashes)
    /\ client' = [g \in Gens |-> Out] /\ running' = FALSE
    /\ UNCHANGED <<room, handled, skipped, gen>>

ClientStep(g) == Identify(g) \/ Leave(g) \/ Ask(g) \/ Answered(g) \/ Handle(g)

Next ==
    \/ Happen \/ Start \/ Stop \/ Crash
    \/ \E g \in Gens : ClientStep(g) \/ GivesUp(g) \/ AskFails(g)

Spec == Init /\ [][Next]_vars

----------------------------------------------------------------------------
HandledBy(g, e) == \E i \in DOMAIN handled[g] : handled[g][i] = e
Waiting(g, e) == \E i \in DOMAIN client[g].batch : client[g].batch[i] = e

(* The shapes of the state; the answer being handled ends at the cursor.     *)
TypeInv ==
    /\ room \in 0..MaxEvents
    /\ \A g \in Gens :
          /\ client[g].since \in 0..room \cup {NoSince}
          /\ Len(client[g].batch) <= Limit
          /\ client[g].batch # <<>> => client[g].batch[Len(client[g].batch)] = client[g].since

(* The cursor never runs ahead of the handlers: every event between the      *)
(* first a client was shown and its cursor has been handled, is about to be, *)
(* or was one of more than Limit events at once, which the server leaves out *)
(* and the client does not ask for.                                          *)
NotAhead ==
    \A g \in Gens : ~Initial(g) =>
        \A e \in (client[g].first + 1)..client[g].since :
            HandledBy(g, e) \/ Waiting(g, e) \/ e \in skipped[g]

(* A client handles events in their order and none twice.                    *)
OncePerClient ==
    \A g \in Gens : \A i, j \in DOMAIN handled[g] : i < j => handled[g][i] < handled[g][j]

(* The cursor neither skips an event it was shown nor repeats one.           *)
CursorHonest == NotAhead /\ OncePerClient

(* While the bot stays up, with a client that got past its first request,    *)
(* that is again and again through with every event of the room: it has      *)
(* handled it, or it was one of too many, or from before the first answer.   *)
Passed(e) ==
    \E g \in Gens : \/ HandledBy(g, e) \/ e \in skipped[g]
                    \/ (~Initial(g) /\ e <= client[g].first)

Polls == running /\ ~At(gen, "out")

EventsPassed == <>[]Polls => []<>(\A e \in 1..room : Passed(e))
=============================================================================
