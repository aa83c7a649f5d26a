------------------------------- MODULE Mirror -------------------------------
(***************************************************************************)
(* What a bridge group promises the people in its chats (README.txt, and   *)
(* the doc comments of src/src/bridge.rs): people post and remove          *)
(* messages; the bot copies what people post to the other platforms, never *)
(* to the same one and never a copy; and the only messages it removes are  *)
(* copies of a message that has been removed itself.  No handlers, no      *)
(* store, no events: Bridge is shown to implement this.                    *)
(***************************************************************************)
EXTENDS Naturals

CONSTANTS Plats,      \* the platforms the bridge links
          MaxParts    \* messages one send may create

VARIABLES
    next,     \* platform -> number of messages ever created there
    live,     \* messages that exist
    copyOf,   \* <<c, m>>: the bot created c by forwarding m
    removals  \* how many messages people have removed

vars == <<next, live, copyOf, removals>>

Existed(m) == m[1] \in Plats /\ m[2] \in 1..next[m[1]]
IsCopy(m) == \E x \in copyOf : x[1] = m
Removed(m) == Existed(m) /\ m \notin live

Init == next = [p \in Plats |-> 0] /\ live = {} /\ copyOf = {} /\ removals = 0

(* n new messages on p. *)
New(p, n) == {<<p, i>> : i \in (next[p] + 1)..(next[p] + n)}

Create(p, n) ==
    /\ next' = [next EXCEPT ![p] = @ + n]
    /\ live' = live \cup New(p, n)

PersonPosts(p) == Create(p, 1) /\ UNCHANGED <<copyOf, removals>>

Remove(m) == live' = live \ {m} /\ UNCHANGED <<next, copyOf>>

PersonRemoves(m) == m \in live /\ Remove(m) /\ removals' = removals + 1

BotCopies(m, p, n) ==
    /\ Existed(m) /\ ~IsCopy(m) /\ p # m[1]
    /\ Create(p, n)
    /\ copyOf' = copyOf \cup {<<d, m>> : d \in New(p, n)}
    /\ UNCHANGED removals

BotRemoves(x) == Removed(x[2]) /\ Remove(x[1]) /\ UNCHANGED removals

Next ==
    \/ \E p \in Plats : PersonPosts(p)
    \/ \E m \in live : PersonRemoves(m)
    \/ \E p, q \in Plats : \E i \in 1..next[q] : \E n \in 1..MaxParts : BotCopies(<<q, i>>, p, n)
    \/ \E x \in copyOf : BotRemoves(x)

Spec == Init /\ [][Next]_vars
=============================================================================
