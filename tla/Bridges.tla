------------------------------- MODULE Bridges -------------------------------
(***************************************************************************)
(* The Bridges container (src/src/bridge.rs): which bridge a channel's     *)
(* events are handed to, what a bridge forwards to, when the bot becomes   *)
(* ready, for any list of [[bridges]] and any choice of configured         *)
(* platforms.  Bridge looks into one of them.                              *)
(***************************************************************************)
EXTENDS Naturals, Sequences

CONSTANTS Platforms,    \* platforms that exist
          Channels,     \* channel, group, chat and room ids
          NoChannel,    \* an id that is not given
          Lists         \* the [[bridges]] lists that may be configured

BridgesAssumption ==
    /\ NoChannel \notin Channels
    /\ Lists \subseteq Seq([Platforms -> Channels \cup {NoChannel}])

VARIABLES
    configs,      \* the [[bridges]] of this start
    contexts,     \* platforms with a token (QQ: bind_addr)
    selfIds,      \* platforms whose self id lock is set
    identified,   \* platforms whose client has reported its id
    ready,        \* the shared ready flag
    copied        \* <<from, to>>: the channels the last message went between

vars == <<configs, contexts, selfIds, identified, ready, copied>>

Init ==
    /\ configs \in Lists
    /\ contexts \in SUBSET Platforms
    /\ selfIds = {} /\ identified = {} /\ ready = FALSE /\ copied = {}

----------------------------------------------------------------------------
(* new: the lookup maps.  A later bridge replaces an earlier one under a   *)
(* channel both name.                                                      *)

Naming(p, ch) == {i \in DOMAIN configs : configs[i][p] = ch}

(* Mutant: any bridge of the platform serves. *)
LookupAny(p, ch) == {i \in DOMAIN configs : configs[i][p] # NoChannel /\ Naming(p, ch) # {}}

Lookup(p, ch) == {i \in Naming(p, ch) : \A j \in Naming(p, ch) : j <= i}

Named(p) == \E i \in DOMAIN configs : configs[i][p] # NoChannel

(* The senders of bridge i: platforms it names and that are configured. *)
Senders(i) == {<<p, configs[i][p]>> : p \in {q \in contexts : configs[i][q] # NoChannel}}

----------------------------------------------------------------------------
(* set_*_self_id stores the id through any bridge of the platform; without *)
(* one, it is lost.  handle_socket stores the QQ id itself as well, after  *)
(* readiness has been checked.                                             *)

(* Mutant: the id is stored through the first bridge. *)
StoredByFirst(p) == IF configs[1][p] # NoChannel THEN selfIds \cup {p} ELSE selfIds

StoredBy(p) == IF Named(p) THEN selfIds \cup {p} ELSE selfIds

(* Mutant: ready as soon as one id is known. *)
ReadyWithOne(ids) == contexts \cap ids # {}

CheckReady(ids) == contexts \subseteq ids

(* READY, lifecycle, getMe or whoami; Discord identifies once a session.   *)
Identify(p) ==
    /\ p \in contexts
    /\ selfIds' = StoredBy(p) \cup ({p} \cap {"QQ"})
    /\ identified' = identified \cup {p}
    /\ ready' = (ready \/ CheckReady(StoredBy(p)))
    /\ UNCHANGED <<configs, contexts, copied>>

(* is_self_*: asked through any bridge of the platform. *)
KnowsSelf(p) == Named(p) /\ p \in selfIds

(* A message of a person in channel ch of p. *)
Targets(p, ch) ==
    UNION {{t \in Senders(i) : t[1] # p} : i \in Lookup(p, ch)}

Forward(p, ch) ==
    /\ ready /\ p \in identified
    /\ copied' = {<<p, ch>>} \X Targets(p, ch)
    /\ UNCHANGED <<configs, contexts, selfIds, identified, ready>>

Next ==
    \/ \E p \in Platforms : Identify(p)
    \/ \E p \in contexts, ch \in Channels : Forward(p, ch)

Spec == Init /\ [][Next]_vars

----------------------------------------------------------------------------
(* The self ids and the reports agree with the configuration. *)
TypeInv ==
    /\ selfIds \subseteq identified /\ identified \subseteq contexts
    /\ ready \in BOOLEAN
    /\ identified # {} => \A p \in identified : Named(p) => p \in selfIds

(* A copy is made only where the bot will recognise it: the filter of the   *)
(* target platform knows the bot's own id by then.                          *)
CopiesRecognised == \A c \in copied : KnowsSelf(c[2][1])

(* A message goes where one of the configured bridges joins its channel to, *)
(* never into a channel of another bridge.                                  *)
WithinBridge ==
    \A c \in copied : \E i \in DOMAIN configs :
        /\ configs[i][c[1][1]] = c[1][2]
        /\ configs[i][c[2][1]] = c[2][2]
        /\ c[1][1] # c[2][1]

Disjoint ==
    \A i, j \in DOMAIN configs : \A p \in Platforms :
        configs[i][p] = configs[j][p] /\ configs[i][p] # NoChannel => i = j

(* "Bidirectional text message forwarding": what is copied one way is      *)
(* copied the other way.                                                    *)
Bidirectional == \A c \in copied : c[1] \in Targets(c[2][1], c[2][2])

(* It holds when no two bridges name the same channel.                      *)
BidirectionalIfDisjoint == Disjoint => Bidirectional

(* Messages go where the configuration joins their channel to, and back.    *)
RoutedAsConfigured == WithinBridge /\ BidirectionalIfDisjoint

Useful == \E i \in DOMAIN configs : \E s, t \in Senders(i) : s # t

(* "only configured platforms will be active": with a bridge that joins two  *)
(* platforms, and every configured platform's id reported, the bot is ready. *)
ReadyWhenIdentified == Useful /\ identified = contexts => ready

(* It holds when every configured platform is named by some bridge.         *)
ReadyIfNamed == (\A p \in contexts : Named(p)) => ReadyWhenIdentified
=============================================================================
