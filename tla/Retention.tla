----------------------------- MODULE Retention -----------------------------
(***************************************************************************)
(* What the store forgets, and when (MessageStore::prune and               *)
(* prune_recalled in src/src/store.rs, called by BotController::start and  *)
(* its cleanup task in src/src/bot_controller.rs): routes older than the   *)
(* retention go when the bot starts, markers then and every five minutes.  *)
(* Against that stand platforms that hand out an event again for a while,  *)
(* and people who remove old messages.  Time is counted in days; forward   *)
(* and recall are single steps here (see Bridge for what is in them).      *)
(***************************************************************************)
EXTENDS Integers

CONSTANTS Msgs,         \* messages of one platform
          Keep,         \* the retention: 604 800 seconds
          Redelivers,   \* how long a platform hands out an unconfirmed event
          MaxDays       \* bound: days

RetentionAssumption ==
    /\ {Keep, Redelivers, MaxDays} \subseteq Nat
    /\ Redelivers <= Keep

VARIABLES
    today,      \* unixepoch(), in days
    running,    \* BotInner.handle.is_some()
    posted,     \* message -> the day it was posted
    removed,    \* message -> the day it was removed
    routes,     \* message_routes: [msg, at]
    marks,      \* recalled_messages: [msg, at]
    copied,     \* ghost: every route ever written
    standing    \* ghost: messages with a copy that no recall took back

vars == <<today, running, posted, removed, routes, marks, copied, standing>>

Never == -1

Init ==
    /\ today = 0 /\ running = FALSE
    /\ posted = [m \in Msgs |-> Never] /\ removed = [m \in Msgs |-> Never]
    /\ routes = {} /\ marks = {} /\ copied = {} /\ standing = {}

Tick ==
    /\ today < MaxDays /\ today' = today + 1
    /\ UNCHANGED <<running, posted, removed, routes, marks, copied, standing>>

Post(m) ==
    /\ posted[m] = Never
    /\ posted' = [posted EXCEPT ![m] = today]
    /\ UNCHANGED <<today, running, removed, routes, marks, copied, standing>>

Remove(m) ==
    /\ posted[m] # Never /\ removed[m] = Never
    /\ removed' = [removed EXCEPT ![m] = today]
    /\ UNCHANGED <<today, running, posted, routes, marks, copied, standing>>

(* The platform may still report what happened on that day. *)
Reported(day) == day # Never /\ today - day <= Redelivers

IsMarked(m) == \E x \in marks : x.msg = m
IsSource(m) == \E x \in routes : x.msg = m

(* forward: a replay is forwarded again, a marked message is not. *)
Forward(m) ==
    /\ running /\ Reported(posted[m]) /\ ~IsMarked(m)
    /\ routes' = routes \cup {[msg |-> m, at |-> today]}
    /\ copied' = copied \cup {[msg |-> m, at |-> today]}
    /\ standing' = standing \cup {m}
    /\ UNCHANGED <<today, running, posted, removed, marks>>

(* recall: INSERT OR REPLACE renews the marker. *)
Recall(m) ==
    /\ running /\ Reported(removed[m]) /\ IsSource(m)
    /\ marks' = {x \in marks : x.msg # m} \cup {[msg |-> m, at |-> today]}
    /\ standing' = standing \ {m}
    /\ UNCHANGED <<today, running, posted, removed, routes, copied>>

(* DELETE ... WHERE created_at < unixepoch() - retention *)
Pruned(S) == {x \in S : ~(x.at < today - Keep)}

Start ==
    /\ ~running /\ running' = TRUE
    /\ routes' = Pruned(routes) /\ marks' = Pruned(marks)
    /\ UNCHANGED <<today, posted, removed, copied, standing>>

Stop ==
    /\ running /\ running' = FALSE
    /\ UNCHANGED <<today, posted, removed, routes, marks, copied, standing>>

(* Mutant: the age the suppressions are dropped at. *)
CleanupTickSoon ==
    /\ running /\ marks' = {x \in marks : x.at = today}
    /\ UNCHANGED <<today, running, posted, removed, routes, copied, standing>>

CleanupTick ==
    /\ running /\ marks' = Pruned(marks)
    /\ UNCHANGED <<today, running, posted, removed, routes, copied, standing>>

Next ==
    \/ Tick \/ Start \/ Stop \/ CleanupTick
    \/ \E m \in Msgs : Post(m) \/ Remove(m) \/ Forward(m) \/ Recall(m)

Spec == Init /\ [][Next]_vars

----------------------------------------------------------------------------
(* The shapes of the state; no route and no marker is of the future, and a   *)
(* message has one marker at most.                                           *)
TypeInv ==
    /\ today \in 0..MaxDays
    /\ \A x \in routes \cup marks : x.at \in 0..today
    /\ routes \subseteq copied
    /\ \A x, y \in marks : x.msg = y.msg => x = y

(* What the markers forget is forgotten by the platforms before: a message   *)
(* that was recalled is never forwarded again, whatever is handed out twice. *)
NoResurrection ==
    [][\A m \in Msgs :
          Forward(m) => m \in standing \/ \A x \in copied : x.msg # m]_vars
=============================================================================
