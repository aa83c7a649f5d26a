---------------------------- MODULE TelegramPoll ----------------------------
(***************************************************************************)
(* How the Telegram client reads its updates (run in                       *)
(* src/src/telegram_client.rs): getMe once, and if that fails the client   *)
(* is over; then getUpdates with an offset that confirms                   *)
(* everything before it, a batch handled one update after the other, the   *)
(* next request only after the whole batch.  The offset lives in memory    *)
(* and begins at 0, for which the server hands out what is unconfirmed.    *)
(* Clients of a stopped generation finish their batch beside the next one. *)
(***************************************************************************)
EXTENDS Naturals, Sequences

CONSTANTS BatchSize,    \* updates the server puts into one answer
          MaxUpdates,   \* bound: updates that arrive
          MaxGen,       \* bound: times the bot is started
          MaxFaults,    \* bound: failed requests, error answers, lost answers
          MaxCrashes    \* bound: process crashes

PollAssumption ==
    /\ BatchSize \in Nat \ {0}
    /\ {MaxUpdates, MaxGen, MaxFaults, MaxCrashes} \subseteq Nat

VARIABLES
    arrived,    \* server: updates 1..arrived have come in
    confirmed,  \* server: updates up to this one are forgotten
    client,     \* generation -> its offset, batch and place in the loop
    handled,    \* generation -> updates its handlers have finished with, in order
    gen,        \* generation started last
    running,    \* BotInner.handle.is_some()
    used        \* how much of each bound is spent

vars == <<arrived, confirmed, client, handled, gen, running, used>>

Gens == 1..MaxGen
Bounds == {"faults", "crashes"}
Out == [pc |-> "out", offset |-> 0, batch |-> <<>>]
Started == [Out EXCEPT !.pc = "greeting"]

Init ==
    /\ arrived = 0 /\ confirmed = 0
    /\ client = [g \in Gens |-> Out]
    /\ handled = [g \in Gens |-> <<>>]
    /\ gen = 0 /\ running = FALSE
    /\ used = [b \in Bounds |-> 0]

Spend(what, max) == used[what] < max /\ used' = [used EXCEPT ![what] = @ + 1]

At(g, pc) == client[g].pc = pc
Cancelled(g) == g < gen \/ ~running

Arrive ==
    /\ arrived < MaxUpdates
    /\ arrived' = arrived + 1
    /\ UNCHANGED <<confirmed, client, handled, gen, running, used>>

(* getMe, before the loop. *)
Identify(g) ==
    /\ At(g, "greeting")
    /\ client' = [client EXCEPT ![g].pc = "loop"]
    /\ UNCHANGED <<arrived, confirmed, handled, gen, running, used>>

(* It has no retry.  The bot goes on running without this client. *)
GivesUp(g) ==
    /\ At(g, "greeting") /\ Spend("faults", MaxFaults)
    /\ client' = [client EXCEPT ![g] = Out]
    /\ UNCHANGED <<arrived, confirmed, handled, gen, running>>

(* The token is looked at between two batches only. *)
Leave(g) ==
    /\ At(g, "loop") /\ Cancelled(g)
    /\ client' = [client EXCEPT ![g] = Out]
    /\ UNCHANGED <<arrived, confirmed, handled, gen, running, used>>

Ask(g) ==
    /\ At(g, "loop") /\ ~Cancelled(g)
    /\ client' = [client EXCEPT ![g].pc = "asked"]
    /\ UNCHANGED <<arrived, confirmed, handled, gen, running, used>>

(* Offset k asks for update k and what follows; what is before it, the     *)
(* server forgets.                                                         *)
Larger(a, b) == IF a > b THEN a ELSE b
Smaller(a, b) == IF a < b THEN a ELSE b
Confirms(g) == IF client[g].offset = 0 THEN confirmed ELSE Larger(confirmed, client[g].offset - 1)

Answer(from) == [i \in 1..Smaller(BatchSize, arrived - from) |-> from + i]

Answered(g) ==
    /\ At(g, "asked")
    /\ confirmed' = Confirms(g)
    /\ client' = [client EXCEPT ![g].batch = Answer(Confirms(g)),
                                ![g].pc = IF Answer(Confirms(g)) = <<>> THEN "loop" ELSE "batch"]
    /\ UNCHANGED <<arrived, handled, gen, running, used>>

(* The request or its answer is lost, or the answer is an error, as it is  *)
(* while another client polls: the loop waits and asks again.              *)
AskFails(g) ==
    /\ At(g, "asked") /\ Spend("faults", MaxFaults)
    /\ confirmed' \in {confirmed, Confirms(g)}
    /\ client' = [client EXCEPT ![g].pc = "loop"]
    /\ UNCHANGED <<arrived, handled, gen, running>>

(* Mutant: the offset of an update is its own number. *)
OffsetOfSame(g, u) == Larger(client[g].offset, u)

(* offset.max(update_id + 1) *)
OffsetAfter(g, u) == Larger(client[g].offset, u + 1)

(* Mutant: the offset jumps behind the whole batch at its first update, and *)
(* the rest is left to the next request.                                    *)
BeginOnlyFirst(g) ==
    /\ At(g, "batch")
    /\ client' = [client EXCEPT ![g].pc = "handling", ![g].batch = <<Head(client[g].batch)>>,
                                ![g].offset = client[g].batch[Len(client[g].batch)] + 1]
    /\ UNCHANGED <<arrived, confirmed, handled, gen, running, used>>

Begin(g) ==
    /\ At(g, "batch")
    /\ client' = [client EXCEPT ![g].pc = "handling",
                                ![g].offset = OffsetAfter(g, Head(client[g].batch))]
    /\ UNCHANGED <<arrived, confirmed, handled, gen, running, used>>

(* The handler, forward or recall, has returned. *)
Finish(g) ==
    LET rest == Tail(client[g].batch) IN
    /\ At(g, "handling")
    /\ handled' = [handled EXCEPT ![g] = Append(@, Head(client[g].batch))]
    /\ client' = [client EXCEPT ![g].batch = rest, ![g].pc = IF rest = <<>> THEN "loop" ELSE "batch"]
    /\ UNCHANGED <<arrived, confirmed, gen, running, used>>

Start ==
    /\ ~running /\ gen < MaxGen
    /\ gen' = gen + 1 /\ running' = TRUE
    /\ client' = [client EXCEPT ![gen + 1] = Started]
    /\ UNCHANGED <<arrived, confirmed, handled, used>>

Stop ==
    /\ running /\ running' = FALSE
    /\ UNCHANGED <<arrived, confirmed, client, handled, gen, used>>

Crash ==
    /\ running \/ \E g \in Gens : ~At(g, "out")
    /\ Spend("crashes", MaxCrashes)
    /\ client' = [g \in Gens |-> Out] /\ running' = FALSE
    /\ UNCHANGED <<arrived, confirmed, handled, gen>>

ClientStep(g) == Identify(g) \/ Leave(g) \/ Ask(g) \/ Answered(g) \/ Begin(g) \/ Finish(g)

Next ==
    \/ Arrive \/ Start \/ Stop \/ Crash
    \/ \E g \in Gens : ClientStep(g) \/ GivesUp(g) \/ AskFails(g)

Spec == Init /\ [][Next]_vars

----------------------------------------------------------------------------
Handled(u) == \E g \in Gens : \E i \in DOMAIN handled[g] : handled[g][i] = u

(* The shapes of the state; an empty batch is never waited on. *)
TypeInv ==
    /\ confirmed \in 0..arrived /\ arrived \in 0..MaxUpdates
    /\ \A g \in Gens :
          /\ client[g].offset \in 0..arrived + 1
          /\ client[g].pc \in {"batch", "handling"} <=> client[g].batch # <<>>

(* No update is confirmed before some handler has finished with it: what a   *)
(* crash, a stop or a lost answer interrupts is handed out again, although   *)
(* the offset moves before the handler runs.                                 *)
NothingLost == \A u \in 1..confirmed : Handled(u)

(* A client handles its updates in order and none twice, whatever answers    *)
(* were lost; only the client of another generation may repeat one.          *)
OncePerClient ==
    \A g \in Gens : \A i, j \in DOMAIN handled[g] : i < j => handled[g][i] < handled[g][j]

(* The offset neither skips an update nor repeats one.                       *)
CursorHonest == NothingLost /\ OncePerClient

(* While the bot stays up, with a client that got past its first request, it *)
(* is again and again through with every update that has arrived.            *)
Polls == running /\ ~At(gen, "out")

UpdatesHandled == <>[]Polls => []<>(\A u \in 1..arrived : Handled(u))
=============================================================================
