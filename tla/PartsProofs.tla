----------------------------- MODULE PartsProofs -----------------------------
(***************************************************************************)
(* Parts of the program around Bridge, for every value of the constants of *)
(* Parts: the retention, the Bridges container, the Discord gateway, the   *)
(* polling clients of Telegram and Matrix and the log ring.  Each section  *)
(* is about the behaviours of one part, its properties and the shapes of   *)
(* its state; the last one carries its lemmas over to the behaviours of    *)
(* Parts and, with what TextProofs, SendersProofs and ControllerProofs     *)
(* show of the texts, the senders and the front ends, adds the shapes up   *)
(* to TypeInv.                                                             *)
(***************************************************************************)
EXTENDS SendersProofs, ControllerProofs

----------------------------------------------------------------------------
(***************************************************************************)
(* Retention.  NoResurrection is about steps; the state behind it is that  *)
(* a message whose copies were taken back, and which its platform may      *)
(* still hand out, is marked: a marker is younger than its message, so it  *)
(* is not pruned as long as the message is reported.                       *)
(***************************************************************************)
Dated ==
    /\ today \in Nat
    /\ day \in [Msgs -> Int] /\ removed \in [Msgs -> Int]
    /\ \A m \in Msgs : removed[m] # Store!Never => day[m] # Store!Never
    /\ \A m \in Msgs : day[m] <= today
    /\ \A x \in marks : /\ x.msg \in Msgs /\ x.at \in Nat
                        /\ day[x.msg] # Store!Never /\ day[x.msg] <= x.at
    /\ \A x \in bridged : x.msg \in Msgs /\ day[x.msg] # Store!Never

Suppressed ==
    \A m \in Msgs : Store!Reported(day[m]) /\ m \notin standing /\ (\E x \in bridged : x.msg = m)
                    => Store!IsMarked(m)

LEMMA Younger ==
    ASSUME Store!RetentionAssumption, Dated, NEW m \in Msgs, Store!Reported(day[m]), Store!IsMarked(m)
    PROVE  \E x \in Store!Pruned(marks) : x.msg = m
BY DEF Store!RetentionAssumption, Dated, Store!Reported, Store!IsMarked, Store!Pruned

LEMMA DatedStep ==
    ASSUME Dated, [Store!Next]_(Store!vars)
    PROVE  Dated'
<1>1. CASE Store!Tick \/ Store!Start \/ Store!Stop \/ Store!CleanupTick \/ UNCHANGED Store!vars
  <2>1. /\ today' \in Nat /\ today' >= today /\ UNCHANGED <<day, removed, bridged>>
        /\ marks' \subseteq marks
    BY <1>1
       DEF Store!Tick, Store!Start, Store!Stop, Store!CleanupTick, Store!vars, Store!Pruned,
           Dated
  <2> QED
    BY <2>1 DEF Dated
<1>2. ASSUME NEW m \in Msgs, Store!Post(m) PROVE Dated'
  BY <1>2 DEF Store!Post, Store!Never, Dated
<1>3. ASSUME NEW m \in Msgs, Store!Remove(m) PROVE Dated'
  BY <1>3 DEF Store!Remove, Store!Never, Dated
<1>4. ASSUME NEW m \in Msgs, Store!Forward(m) PROVE Dated'
  <2>1. /\ bridged' = bridged \cup {[msg |-> m, at |-> today]}
        /\ UNCHANGED <<today, day, removed, marks>>
        /\ day[m] # Store!Never
    BY <1>4 DEF Store!Forward, Store!Reported
  <2> QED
    BY <2>1 DEF Dated
<1>5. ASSUME NEW m \in Msgs, Store!Recall(m) PROVE Dated'
  <2>1. /\ marks' = {x \in marks : x.msg # m} \cup {[msg |-> m, at |-> today]}
        /\ UNCHANGED <<today, day, removed, bridged>> /\ removed[m] # Store!Never
    BY <1>5 DEF Store!Recall, Store!Reported
  <2> QED
    BY <2>1 DEF Dated
<1> QED
  BY <1>1, <1>2, <1>3, <1>4, <1>5 DEF Store!Next

LEMMA SuppressedStep ==
    ASSUME Store!RetentionAssumption, Dated, Suppressed, [Store!Next]_(Store!vars)
    PROVE  Suppressed'
<1> SUFFICES ASSUME NEW m \in Msgs, Store!Reported(day[m])', m \notin standing',
                    \E x \in bridged' : x.msg = m
             PROVE  \E x \in marks' : x.msg = m
  BY DEF Suppressed, Store!IsMarked
<1>1. CASE Store!Tick \/ Store!Start \/ Store!Stop \/ Store!CleanupTick \/ UNCHANGED Store!vars
  <2>1. /\ today' \in Nat /\ today' >= today /\ UNCHANGED <<day, bridged, standing>>
        /\ marks' = marks \/ marks' = Store!Pruned(marks)
    BY <1>1 DEF Store!Tick, Store!Start, Store!Stop, Store!CleanupTick, Store!vars, Dated
  <2>2. Store!Reported(day[m])
    BY <2>1 DEF Store!Reported, Dated, Store!RetentionAssumption
  <2>3. Store!IsMarked(m)
    BY <2>1, <2>2 DEF Suppressed
  <2> QED
    BY <2>1, <2>2, <2>3, Younger DEF Store!IsMarked
<1>2. ASSUME NEW k \in Msgs, Store!Post(k) PROVE \E x \in marks' : x.msg = m
  <2>1. UNCHANGED <<today, bridged, standing, marks>> /\ day[k] = Store!Never
        /\ day' = [day EXCEPT ![k] = today]
    BY <1>2 DEF Store!Post
  <2>2. m # k /\ day'[m] = day[m]
    BY <2>1 DEF Dated
  <2> QED
    BY <2>1, <2>2 DEF Suppressed, Store!IsMarked, Store!Reported
<1>3. ASSUME NEW k \in Msgs, Store!Remove(k) PROVE \E x \in marks' : x.msg = m
  BY <1>3 DEF Store!Remove, Suppressed, Store!IsMarked, Store!Reported
<1>4. ASSUME NEW k \in Msgs, Store!Forward(k) PROVE \E x \in marks' : x.msg = m
  BY <1>4 DEF Store!Forward, Suppressed, Store!IsMarked, Store!Reported
<1>5. ASSUME NEW k \in Msgs, Store!Recall(k) PROVE \E x \in marks' : x.msg = m
  <2>1. /\ marks' = {x \in marks : x.msg # k} \cup {[msg |-> k, at |-> today]}
        /\ UNCHANGED <<today, day, bridged>> /\ standing' = standing \ {k}
    BY <1>5 DEF Store!Recall
  <2>2. CASE m = k
    <3>1. [msg |-> k, at |-> today] \in marks'
      BY <2>1
    <3> QED
      BY <2>2, <3>1
  <2>3. CASE m # k
    <3>1. Store!IsMarked(m)
      BY <2>1, <2>3 DEF Suppressed, Store!Reported
    <3> QED
      BY <2>1, <2>3, <3>1 DEF Store!IsMarked
  <2> QED
    BY <2>2, <2>3
<1> QED
  BY <1>1, <1>2, <1>3, <1>4, <1>5 DEF Store!Next

LEMMA StoreResurrectsNothing ==
    ASSUME Store!RetentionAssumption PROVE Store!Spec => Store!NoResurrection
<1>1. Store!Init => Dated /\ Suppressed
  BY DEF Store!Init, Store!Never, Dated, Suppressed
<1>2. Suppressed /\ [Store!Next]_(Store!vars) =>
        [\A m \in Msgs : Store!Forward(m) => m \in standing \/ \A x \in bridged : x.msg # m]_(Store!vars)
  BY DEF Suppressed, Store!Forward
<1> QED
  BY <1>1, <1>2, DatedStep, SuppressedStep, PTL DEF Store!Spec, Store!NoResurrection

LEMMA StoreTyped == ASSUME Store!RetentionAssumption PROVE Store!Spec => []Store!TypeInv
<1>1. Store!Init => Store!TypeInv
  BY DEF Store!RetentionAssumption, Store!Init, Store!TypeInv
<1>2. Store!TypeInv /\ [Store!Next]_(Store!vars) => Store!TypeInv'
  <2> SUFFICES ASSUME Store!TypeInv, [Store!Next]_(Store!vars) PROVE Store!TypeInv'
    OBVIOUS
  <2>1. today \in 0..MaxDays /\ MaxDays \in Nat
    BY DEF Store!RetentionAssumption, Store!TypeInv
  <2>2. CASE Store!Tick \/ Store!Start \/ Store!Stop \/ Store!CleanupTick \/ UNCHANGED Store!vars
             \/ \E m \in Msgs : Store!Post(m) \/ Store!Remove(m)
    <3>1. /\ today' \in 0..MaxDays /\ today' >= today
          /\ marks' \subseteq marks /\ routes' \subseteq routes /\ bridged' = bridged
      BY <2>1, <2>2
         DEF Store!Tick, Store!Start, Store!Stop, Store!CleanupTick, Store!vars, Store!Pruned,
             Store!Post, Store!Remove
    <3>2. \A x \in routes' \cup marks' : x.at \in 0..today'
      BY <2>1, <3>1 DEF Store!TypeInv
    <3> QED
      BY <3>1, <3>2 DEF Store!TypeInv
  <2>3. ASSUME NEW m \in Msgs, Store!Forward(m) PROVE Store!TypeInv'
    BY <2>1, <2>3 DEF Store!Forward, Store!TypeInv
  <2>4. ASSUME NEW m \in Msgs, Store!Recall(m) PROVE Store!TypeInv'
    BY <2>1, <2>4 DEF Store!Recall, Store!TypeInv
  <2> QED
    BY <2>2, <2>3, <2>4 DEF Store!Next
<1> QED
  BY <1>1, <1>2, PTL DEF Store!Spec

----------------------------------------------------------------------------
(***************************************************************************)
(* Bridges.  The bot is ready only when every configured platform has its  *)
(* id stored, and the last message was copied where the lookup said.       *)
(***************************************************************************)
GroupsInv ==
    /\ configs \in Lists /\ contexts \subseteq Platforms
    /\ identified \subseteq contexts
    /\ \A p \in identified : Groups!Named(p) => p \in selfIds
    /\ ready => contexts \subseteq selfIds
    /\ Groups!ReadyIfNamed
    /\ \A c \in copied : \E p \in contexts, ch \in Channels : \E t \in Groups!Targets(p, ch) : c = <<<<p, ch>>, t>>
    /\ copied # {} => ready

LEMMA TargetsRight ==
    ASSUME Groups!BridgesAssumption, configs \in Lists, NEW p \in contexts, NEW ch \in Channels,
           NEW t \in Groups!Targets(p, ch), contexts \subseteq Platforms
    PROVE  \E i \in DOMAIN configs : \E q \in contexts :
              /\ t = <<q, configs[i][q]>> /\ q # p
              /\ configs[i][q] # NoChannel /\ configs[i][q] \in Channels /\ configs[i][p] = ch
<1>1. PICK i \in Groups!Lookup(p, ch) : t \in Groups!Senders(i) /\ t[1] # p
  BY DEF Groups!Targets
<1>2. PICK q \in contexts : configs[i][q] # NoChannel /\ t = <<q, configs[i][q]>>
  BY <1>1 DEF Groups!Senders
<1>3. i \in DOMAIN configs /\ configs[i][p] = ch
  BY <1>1 DEF Groups!Lookup, Groups!Naming
<1>4. configs \in Seq([Platforms -> Channels \cup {NoChannel}])
  BY DEF Groups!BridgesAssumption
<1>5. configs[i] \in [Platforms -> Channels \cup {NoChannel}]
  BY <1>3, <1>4, LenProperties
<1> QED
  BY <1>1, <1>2, <1>3, <1>5

LEMMA GroupsInit == Groups!Init => GroupsInv
<1> SUFFICES ASSUME Groups!Init PROVE GroupsInv
  OBVIOUS
<1>1. Groups!Useful => identified # contexts
  BY DEF Groups!Init, Groups!Useful, Groups!Senders
<1>2. Groups!ReadyIfNamed
  BY <1>1 DEF Groups!ReadyIfNamed, Groups!ReadyWhenIdentified
<1> QED
  BY <1>2 DEF Groups!Init, GroupsInv

LEMMA GroupsStep ==
    Groups!BridgesAssumption /\ GroupsInv /\ [Groups!Next]_(Groups!vars) => GroupsInv'
<1> SUFFICES ASSUME Groups!BridgesAssumption, GroupsInv, [Groups!Next]_(Groups!vars) PROVE GroupsInv'
  OBVIOUS
<1>1. ASSUME NEW p \in Platforms, Groups!Identify(p) PROVE GroupsInv'
  <2>1. /\ p \in contexts /\ UNCHANGED <<configs, contexts, copied>>
        /\ selfIds' = Groups!StoredBy(p) \cup ({p} \cap {"QQ"})
        /\ identified' = identified \cup {p}
        /\ ready' = (ready \/ Groups!CheckReady(Groups!StoredBy(p)))
    BY <1>1 DEF Groups!Identify
  <2>2. selfIds \subseteq Groups!StoredBy(p) /\ (Groups!Named(p) => p \in Groups!StoredBy(p))
        /\ Groups!StoredBy(p) \subseteq selfIds'
    BY <2>1 DEF Groups!StoredBy
  <2>3. \A q \in identified' : Groups!Named(q)' => q \in selfIds'
    BY <2>1, <2>2 DEF GroupsInv, Groups!Named
  <2>4. ready' => contexts' \subseteq selfIds'
    BY <2>1, <2>2 DEF GroupsInv, Groups!CheckReady
  <2>5. Groups!ReadyIfNamed'
    <3> SUFFICES ASSUME \A q \in contexts : Groups!Named(q), identified' = contexts PROVE ready'
      BY <2>1 DEF Groups!ReadyIfNamed, Groups!ReadyWhenIdentified, Groups!Named
    <3>1. contexts \subseteq Groups!StoredBy(p)
      BY <2>1, <2>2 DEF GroupsInv
    <3> QED
      BY <2>1, <3>1 DEF Groups!CheckReady
  <2>6. \A q, ch : Groups!Targets(q, ch)' = Groups!Targets(q, ch)
    BY <2>1 DEF Groups!Targets, Groups!Senders, Groups!Lookup, Groups!Naming
  <2>7. copied' # {} => ready'
    BY <2>1 DEF GroupsInv
  <2>8. identified' \subseteq contexts'
    BY <2>1 DEF GroupsInv
  <2> QED
    BY <2>1, <2>3, <2>4, <2>5, <2>6, <2>7, <2>8 DEF GroupsInv
<1>2. ASSUME NEW p \in contexts, NEW ch \in Channels, Groups!Forward(p, ch) PROVE GroupsInv'
  <2>1. /\ ready /\ copied' = {<<p, ch>>} \X Groups!Targets(p, ch)
        /\ UNCHANGED <<configs, contexts, selfIds, identified, ready>>
    BY <1>2 DEF Groups!Forward
  <2>2. \A q, dh : Groups!Targets(q, dh)' = Groups!Targets(q, dh)
    BY <2>1 DEF Groups!Targets, Groups!Senders, Groups!Lookup, Groups!Naming
  <2>3. \A c \in copied' : \E t \in Groups!Targets(p, ch) : c = <<<<p, ch>>, t>>
    BY <2>1
  <2>4. Groups!ReadyIfNamed'
    BY <2>1 DEF Groups!ReadyIfNamed, Groups!ReadyWhenIdentified
  <2>5. \A q : Groups!Named(q)' <=> Groups!Named(q)
    BY <2>1 DEF Groups!Named
  <2> QED
    BY <2>1, <2>2, <2>3, <2>4, <2>5 DEF GroupsInv
<1>3. CASE UNCHANGED Groups!vars
  <2>1. /\ \A q, dh : Groups!Targets(q, dh)' = Groups!Targets(q, dh)
        /\ \A q : Groups!Named(q)' <=> Groups!Named(q)
        /\ Groups!ReadyIfNamed' <=> Groups!ReadyIfNamed
    BY <1>3
       DEF Groups!vars, Groups!Targets, Groups!Senders, Groups!Lookup, Groups!Naming,
           Groups!Named, Groups!ReadyIfNamed, Groups!ReadyWhenIdentified, Groups!Useful
  <2> QED
    BY <1>3, <2>1 DEF Groups!vars, GroupsInv
<1> QED
  BY <1>1, <1>2, <1>3 DEF Groups!Next

LEMMA GroupsInvariant == ASSUME Groups!BridgesAssumption PROVE Groups!Spec => []GroupsInv
BY GroupsInit, GroupsStep, PTL DEF Groups!Spec

LEMMA GroupsKnowCopies ==
    ASSUME Groups!BridgesAssumption PROVE Groups!Spec => []Groups!CopiesRecognised
<1>1. Groups!BridgesAssumption /\ GroupsInv => Groups!CopiesRecognised
  <2> SUFFICES ASSUME Groups!BridgesAssumption, GroupsInv, NEW c \in copied PROVE Groups!KnowsSelf(c[2][1])
    BY DEF Groups!CopiesRecognised
  <2>1. PICK p \in contexts, ch \in Channels : \E t \in Groups!Targets(p, ch) : c = <<<<p, ch>>, t>>
    BY DEF GroupsInv
  <2>2. PICK t \in Groups!Targets(p, ch) : c = <<<<p, ch>>, t>>
    BY <2>1
  <2>3. PICK i \in DOMAIN configs, q \in contexts :
            t = <<q, configs[i][q]>> /\ configs[i][q] # NoChannel
    BY TargetsRight DEF GroupsInv
  <2>4. q \in selfIds
    BY DEF GroupsInv
  <2> QED
    BY <2>2, <2>3, <2>4 DEF Groups!KnowsSelf, Groups!Named
<1> QED
  BY <1>1, GroupsInvariant, PTL

LEMMA GroupsFollowConfig ==
    ASSUME Groups!BridgesAssumption PROVE Groups!Spec => []Groups!RoutedAsConfigured
<1>1. Groups!BridgesAssumption /\ GroupsInv => Groups!RoutedAsConfigured
  <2> SUFFICES ASSUME Groups!BridgesAssumption, GroupsInv PROVE Groups!WithinBridge /\ Groups!BidirectionalIfDisjoint
    BY DEF Groups!RoutedAsConfigured
  <2>1. ASSUME NEW c \in copied
        PROVE  \E p \in contexts, ch \in Channels, i \in DOMAIN configs, q \in contexts :
                  /\ c = <<<<p, ch>>, <<q, configs[i][q]>>>> /\ q # p
                  /\ configs[i][q] # NoChannel /\ configs[i][q] \in Channels /\ configs[i][p] = ch
    <3>1. PICK p \in contexts, ch \in Channels : \E t \in Groups!Targets(p, ch) : c = <<<<p, ch>>, t>>
      BY DEF GroupsInv
    <3>2. PICK t \in Groups!Targets(p, ch) : c = <<<<p, ch>>, t>>
      BY <3>1
    <3>3. \E i \in DOMAIN configs : \E q \in contexts :
              /\ t = <<q, configs[i][q]>> /\ q # p
              /\ configs[i][q] # NoChannel /\ configs[i][q] \in Channels /\ configs[i][p] = ch
      BY TargetsRight DEF GroupsInv
    <3> QED
      BY <3>2, <3>3
  <2>2. Groups!WithinBridge
    <3> SUFFICES ASSUME NEW c \in copied
                 PROVE  \E i \in DOMAIN configs : /\ configs[i][c[1][1]] = c[1][2]
                                                  /\ configs[i][c[2][1]] = c[2][2]
                                                  /\ c[1][1] # c[2][1]
      BY DEF Groups!WithinBridge
    <3>1. PICK p \in contexts, ch \in Channels, i \in DOMAIN configs, q \in contexts :
                  /\ c = <<<<p, ch>>, <<q, configs[i][q]>>>> /\ q # p
                  /\ configs[i][q] # NoChannel /\ configs[i][q] \in Channels /\ configs[i][p] = ch
      BY <2>1
    <3> QED
      BY <3>1
  <2>3. ASSUME Groups!Disjoint, NEW c \in copied PROVE c[1] \in Groups!Targets(c[2][1], c[2][2])
    <3>1. PICK p \in contexts, ch \in Channels, i \in DOMAIN configs, q \in contexts :
                  /\ c = <<<<p, ch>>, <<q, configs[i][q]>>>> /\ q # p
                  /\ configs[i][q] # NoChannel /\ configs[i][q] \in Channels /\ configs[i][p] = ch
      BY <2>1
    <3>2. p \in Platforms /\ q \in Platforms /\ ch # NoChannel
      BY DEF GroupsInv, Groups!BridgesAssumption
    <3>3. \A j \in Groups!Naming(q, configs[i][q]) : j = i
      BY <2>3, <3>1, <3>2 DEF Groups!Disjoint, Groups!Naming
    <3>4. i \in Nat
      <4>1. configs \in Seq([Platforms -> Channels \cup {NoChannel}])
        BY DEF GroupsInv, Groups!BridgesAssumption
      <4> QED
        BY <3>1, <4>1, LenProperties
    <3>5. i \in Groups!Lookup(q, configs[i][q])
      BY <3>1, <3>3, <3>4 DEF Groups!Lookup, Groups!Naming
    <3>6. <<p, ch>> \in Groups!Senders(i)
      BY <3>1, <3>2 DEF Groups!Senders
    <3> QED
      BY <3>1, <3>5, <3>6 DEF Groups!Targets
  <2> QED
    BY <2>2, <2>3 DEF Groups!BidirectionalIfDisjoint, Groups!Bidirectional
<1> QED
  BY <1>1, GroupsInvariant, PTL

LEMMA GroupsReady == ASSUME Groups!BridgesAssumption PROVE Groups!Spec => []Groups!ReadyIfNamed
<1>1. GroupsInv => Groups!ReadyIfNamed
  BY DEF GroupsInv
<1> QED
  BY <1>1, GroupsInvariant, PTL

LEMMA GroupsTyped == Groups!Spec => []Groups!TypeInv
<1>1. Groups!Init => Groups!TypeInv
  BY DEF Groups!Init, Groups!TypeInv
<1>2. Groups!TypeInv /\ [Groups!Next]_(Groups!vars) => Groups!TypeInv'
  <2> SUFFICES ASSUME Groups!TypeInv, [Groups!Next]_(Groups!vars) PROVE Groups!TypeInv'
    OBVIOUS
  <2>1. \A q : configs' = configs => (Groups!Named(q)' <=> Groups!Named(q))
    BY DEF Groups!Named
  <2>2. ASSUME NEW p \in Platforms, Groups!Identify(p) PROVE Groups!TypeInv'
    <3>1. /\ p \in contexts /\ UNCHANGED <<configs, contexts>>
          /\ selfIds' = Groups!StoredBy(p) \cup ({p} \cap {"QQ"}) /\ identified' = identified \cup {p}
          /\ ready' \in BOOLEAN
      BY <2>2 DEF Groups!Identify, Groups!CheckReady
    <3>2. /\ selfIds \subseteq selfIds' /\ selfIds' \subseteq selfIds \cup {p}
          /\ Groups!Named(p) => p \in selfIds'
      BY <3>1 DEF Groups!StoredBy
    <3>3. \A q \in identified' : Groups!Named(q) => q \in selfIds'
      BY <3>1, <3>2 DEF Groups!TypeInv
    <3> QED
      BY <2>1, <3>1, <3>2, <3>3 DEF Groups!TypeInv
  <2>3. CASE UNCHANGED Groups!vars \/ \E p \in contexts, ch \in Channels : Groups!Forward(p, ch)
    <3>1. UNCHANGED <<configs, contexts, selfIds, identified, ready>>
      BY <2>3 DEF Groups!Forward, Groups!vars
    <3> QED
      BY <2>1, <3>1 DEF Groups!TypeInv
  <2> QED
    BY <2>2, <2>3 DEF Groups!Next
<1> QED
  BY <1>1, <1>2, PTL DEF Groups!Spec

----------------------------------------------------------------------------
(***************************************************************************)
(* The Discord gateway.  A heartbeat reports the dispatches of its own     *)
(* connection; and while handlers take no time, a heartbeat that is due    *)
(* leaves before the next tick, so Discord waits one period at most.       *)
(***************************************************************************)
SeqKept == phase \in {"open", "live"} => lastSeq = taken

BeatsTimed ==
    /\ busy = 0
    /\ phase = "open" => due = 0
    /\ phase = "live" => /\ timer \in 1..Period /\ due \in {0, 1} /\ silence \in 0..Period
                         /\ due = 0 => silence <= Period - timer

LEMMA SeqStep == SeqKept /\ [Gateway!Next]_(Gateway!vars) => SeqKept'
<1> SUFFICES ASSUME SeqKept, [Gateway!Next]_(Gateway!vars) PROVE SeqKept'
  OBVIOUS
<1>1. CASE Gateway!Fetch \/ Gateway!Leave \/ Gateway!Break
  BY <1>1 DEF Gateway!Fetch, Gateway!Leave, Gateway!Break, SeqKept
<1>2. CASE Gateway!Dial
  BY <1>2 DEF Gateway!Dial, SeqKept
<1>3. CASE Gateway!Hello \/ Gateway!SendBeat \/ Gateway!Cancel \/ Gateway!Tick \/ UNCHANGED Gateway!vars
  BY <1>3
     DEF Gateway!Hello, Gateway!SendBeat, Gateway!Cancel, Gateway!Tick, Gateway!session,
         Gateway!vars, SeqKept
<1>4. CASE Gateway!Dispatch
  BY <1>4 DEF Gateway!Dispatch, Gateway!SeqAfter, SeqKept
<1>5. CASE Gateway!Ack \/ Gateway!Asked
  BY <1>5 DEF Gateway!Ack, Gateway!Asked, Gateway!SeqAfter, SeqKept
<1>6. CASE \E kind \in {"ready", "event", "ack", "beat"} : Gateway!Push(kind)
  BY <1>6 DEF Gateway!Push, SeqKept
<1> QED
  BY <1>1, <1>2, <1>3, <1>4, <1>5, <1>6 DEF Gateway!Next

LEMMA BeatsStep ==
    ASSUME Gateway!GatewayAssumption, BeatsTimed, [Gateway!Next]_(Gateway!vars), busy' = 0
    PROVE  BeatsTimed'
<1>0. Period \in Nat /\ Patience \in Nat /\ Period \in 1..Patience
  BY DEF Gateway!GatewayAssumption
<1>1. CASE Gateway!Fetch \/ Gateway!Leave \/ Gateway!Break
  BY <1>1 DEF Gateway!Fetch, Gateway!Leave, Gateway!Break, Gateway!beat, BeatsTimed
<1>2. CASE Gateway!Dial
  BY <1>2 DEF Gateway!Dial, BeatsTimed
<1>3. CASE Gateway!Hello
  BY <1>0, <1>3 DEF Gateway!Hello, BeatsTimed
<1>4. CASE Gateway!SendBeat
  BY <1>0, <1>4 DEF Gateway!SendBeat, Gateway!Selecting, BeatsTimed
<1>5. CASE Gateway!Tick
  <2>1. /\ phase = "live" /\ due = 0 /\ busy = 0 /\ phase' = phase /\ busy' = 0
        /\ timer \in 1..Period /\ silence \in 0..Period /\ silence <= Period - timer
    BY <1>5 DEF Gateway!Tick, Gateway!Selecting, BeatsTimed
  <2>2. /\ timer' = IF timer = 1 THEN Period ELSE timer - 1
        /\ due' = IF timer = 1 THEN 1 ELSE 0
        /\ silence' = silence + 1
    BY <1>0, <1>5, <2>1 DEF Gateway!Tick, Gateway!Wakes, Gateway!Lesser
  <2> QED
    BY <1>0, <2>1, <2>2 DEF BeatsTimed
<1>6. CASE Gateway!Dispatch
  BY <1>6 DEF Gateway!Dispatch, Gateway!beat, BeatsTimed
<1>7. CASE Gateway!Ack \/ Gateway!Cancel \/ UNCHANGED Gateway!vars
           \/ \E kind \in {"ready", "event", "ack", "beat"} : Gateway!Push(kind)
  BY <1>7 DEF Gateway!Ack, Gateway!Cancel, Gateway!vars, Gateway!Push, Gateway!beat, BeatsTimed
<1>8. CASE Gateway!Asked
  BY <1>0, <1>8 DEF Gateway!Asked, BeatsTimed
<1> QED
  BY <1>1, <1>2, <1>3, <1>4, <1>5, <1>6, <1>7, <1>8 DEF Gateway!Next

LEMMA HandlersPrompt ==
    ASSUME BeatsTimed, [Gateway!Next]_(Gateway!vars), MaxHandler = 0
    PROVE  busy' = 0
<1>1. CASE Gateway!Tick
  BY <1>1 DEF Gateway!Tick, BeatsTimed
<1>2. CASE Gateway!Dispatch
  BY <1>2 DEF Gateway!Dispatch, BeatsTimed
<1>3. CASE ~Gateway!Tick /\ ~Gateway!Dispatch
  BY <1>3
     DEF Gateway!Next, Gateway!vars, Gateway!Fetch, Gateway!Dial, Gateway!Leave,
         Gateway!Hello, Gateway!SendBeat, Gateway!Ack, Gateway!Asked, Gateway!Break,
         Gateway!Push, Gateway!Cancel, BeatsTimed
<1> QED
  BY <1>1, <1>2, <1>3

LEMMA GatewayHeartbeats ==
    ASSUME Gateway!GatewayAssumption PROVE Gateway!Spec => []Gateway!HeartbeatsRight
<1>1. Period \in Nat /\ Patience \in Nat /\ Period \in 1..Patience
  BY DEF Gateway!GatewayAssumption
<1>2. Gateway!Init => SeqKept /\ BeatsTimed
  BY DEF Gateway!Init, SeqKept, BeatsTimed
<1>3. SeqKept => Gateway!SeqReported
  BY DEF SeqKept, Gateway!SeqReported
<1>4. CASE MaxHandler = 0
  <2>1. SeqKept /\ BeatsTimed => Gateway!HeartbeatsRight
    BY <1>1, <1>3 DEF BeatsTimed, Gateway!HeartbeatInTime, Gateway!HeartbeatsRight
  <2>2. BeatsTimed /\ [Gateway!Next]_(Gateway!vars) => BeatsTimed'
    BY <1>4, HandlersPrompt, BeatsStep
  <2> QED
    BY <1>2, <2>1, <2>2, SeqStep, PTL DEF Gateway!Spec
<1>5. CASE MaxHandler # 0
  <2>1. SeqKept => Gateway!HeartbeatsRight
    BY <1>3, <1>5 DEF Gateway!HeartbeatsRight
  <2> QED
    BY <1>2, <2>1, SeqStep, PTL DEF Gateway!Spec
<1> QED
  BY <1>4, <1>5

----------------------------------------------------------------------------
(***************************************************************************)
(* Sequences, as the batches of the two polling clients use them.          *)
(***************************************************************************)
LEMMA TailOfNat ==
    ASSUME NEW s \in Seq(Nat), s # <<>>
    PROVE  /\ Head(s) = s[1] /\ 1 \in DOMAIN s /\ Head(s) \in Nat
           /\ Tail(s) \in Seq(Nat)
           /\ \A i \in DOMAIN Tail(s) : i \in Nat /\ i + 1 \in DOMAIN s /\ Tail(s)[i] = s[i + 1]
           /\ Tail(s) # <<>> => 1 \in DOMAIN Tail(s)
<1>1. /\ Tail(s) \in Seq(Nat) /\ Len(Tail(s)) = Len(s) - 1 /\ Head(s) \in Nat
      /\ \A i \in 1..Len(Tail(s)) : Tail(s)[i] = s[i + 1]
  BY HeadTailProperties
<1>2. Len(s) \in Nat /\ Len(s) # 0 /\ DOMAIN s = 1..Len(s) /\ DOMAIN Tail(s) = 1..Len(Tail(s))
  BY <1>1, LenProperties, EmptySeq
<1>3. Tail(s) # <<>> => Len(Tail(s)) # 0
  BY <1>1, EmptySeq
<1>4. Head(s) = s[1]
  OBVIOUS
<1> QED
  BY <1>1, <1>2, <1>3, <1>4

LEMMA AppendNat ==
    ASSUME NEW s \in Seq(Nat), NEW e \in Nat
    PROVE  /\ Append(s, e) \in Seq(Nat)
           /\ \A i \in DOMAIN Append(s, e) :
                 \/ i \in DOMAIN s /\ Append(s, e)[i] = s[i]
                 \/ i = Len(s) + 1 /\ Append(s, e)[i] = e
           /\ \A i \in DOMAIN s : i \in Nat /\ i <= Len(s) /\ i \in DOMAIN Append(s, e) /\ Append(s, e)[i] = s[i]
           /\ Len(s) \in Nat /\ Len(s) + 1 \in DOMAIN Append(s, e)
<1>1. Len(s) \in Nat /\ DOMAIN s = 1..Len(s)
  BY LenProperties
<1>2. /\ Append(s, e) \in Seq(Nat) /\ Len(Append(s, e)) = Len(s) + 1
      /\ \A i \in 1..Len(s) : Append(s, e)[i] = s[i]
      /\ Append(s, e)[Len(s) + 1] = e
  OBVIOUS
<1>3. DOMAIN Append(s, e) = 1..(Len(s) + 1)
  BY <1>2, LenProperties
<1> QED
  BY <1>1, <1>2, <1>3

LEMMA AppendAt ==
    ASSUME NEW S, NEW s \in Seq(S), NEW x \in S, NEW n \in Nat, n = Len(s)
    PROVE  /\ Append(s, x) \in Seq(S) /\ Len(Append(s, x)) = n + 1
           /\ DOMAIN s = 1..n /\ DOMAIN Append(s, x) = 1..(n + 1)
           /\ (\A k \in 1..n : Append(s, x)[k] = s[k]) /\ Append(s, x)[n + 1] = x
<1>1. /\ Append(s, x) \in Seq(S) /\ Len(Append(s, x)) = Len(s) + 1
      /\ \A k \in 1..Len(s) : Append(s, x)[k] = s[k]
      /\ Append(s, x)[Len(s) + 1] = x
  BY AppendProperties
<1>2. DOMAIN s = 1..Len(s) /\ DOMAIN Append(s, x) = 1..Len(Append(s, x))
  BY <1>1, LenProperties
<1> QED
  BY <1>1, <1>2

LEMMA TailAt ==
    ASSUME NEW S, NEW s \in Seq(S), s # <<>>
    PROVE  \E n \in Nat : /\ n + 1 = Len(s) /\ Tail(s) \in Seq(S) /\ Len(Tail(s)) = n
                         /\ DOMAIN s = 1..(n + 1) /\ DOMAIN Tail(s) = 1..n
                         /\ \A k \in 1..n : Tail(s)[k] = s[k + 1]
<1>1. PICK m \in Nat : m = Len(s) /\ m # 0
  <2>1. Len(s) \in Nat /\ Len(s) # 0
    BY LenProperties, EmptySeq
  <2> QED
    BY <2>1
<1>2. PICK n \in Nat : n + 1 = m /\ n = m - 1
  <2>1. m - 1 \in Nat /\ (m - 1) + 1 = m
    BY <1>1
  <2> QED
    BY <2>1
<1>3. Tail(s) \in Seq(S) /\ Len(Tail(s)) = Len(s) - 1 /\ \A k \in 1..Len(Tail(s)) : Tail(s)[k] = s[k + 1]
  BY HeadTailProperties
<1>4. DOMAIN s = 1..Len(s) /\ DOMAIN Tail(s) = 1..Len(Tail(s))
  BY <1>3, LenProperties
<1> QED
  BY <1>1, <1>2, <1>3, <1>4

Ordered(own) == \A i, j \in DOMAIN own : i < j => own[i] < own[j]

(* A client that has handled everything in order below k handles k.        *)
LEMMA AppendLast ==
    ASSUME NEW own \in Seq(Nat), NEW k \in Nat, Ordered(own), \A i \in DOMAIN own : own[i] < k
    PROVE  Ordered(Append(own, k)) /\ \A i \in DOMAIN Append(own, k) : Append(own, k)[i] <= k
<1>1. \A i \in DOMAIN own : own[i] \in Nat
  BY ElementOfSeq, LenProperties
<1>2. \A i \in DOMAIN Append(own, k) : Append(own, k)[i] <= k
  BY <1>1, AppendNat
<1>3. ASSUME NEW i \in DOMAIN Append(own, k), NEW j \in DOMAIN Append(own, k), i < j
      PROVE  Append(own, k)[i] < Append(own, k)[j]
  <2>1. CASE j \in DOMAIN own
    <3>1. i \in DOMAIN own
      BY <1>3, <2>1, AppendNat
    <3> QED
      BY <1>3, <2>1, <3>1, AppendNat DEF Ordered
  <2>2. CASE j \notin DOMAIN own
    <3>1. j = Len(own) + 1 /\ Append(own, k)[j] = k
      BY <2>2, AppendNat
    <3>2. i \in DOMAIN own /\ Append(own, k)[i] = own[i]
      BY <1>3, <3>1, AppendNat
    <3> QED
      BY <3>1, <3>2
  <2> QED
    BY <2>1, <2>2
<1> QED
  BY <1>2, <1>3 DEF Ordered

----------------------------------------------------------------------------
(***************************************************************************)
(* Polling Telegram.  A client that waits has its offset behind everything *)
(* up to which all is handled, by itself or by an earlier client, and has  *)
(* handled nothing from the offset on; a client with a batch stands there  *)
(* with the batch's first update.  So whatever the next request confirms   *)
(* has been handled, although the offset moves before the handler runs.    *)
(***************************************************************************)
Reader == [pc : {"out", "greeting", "loop", "asked", "batch", "handling"}, offset : Nat, batch : Seq(Nat)]

HandledIn(h) == {u \in Nat : \E g \in Telegram!Gens : \E i \in DOMAIN h[g] : h[g][i] = u}

Through(k, own, done) == /\ \A u \in 1..(k - 1) : u \in done
                         /\ \A i \in DOMAIN own : own[i] < k

Cursor(c, own, done, top) ==
    /\ Ordered(own)
    /\ c.pc \in {"greeting", "loop", "asked"} => c.offset <= top + 1 /\ Through(c.offset, own, done)
    /\ c.pc \in {"batch", "handling"} =>
          /\ c.batch # <<>>
          /\ \A i \in DOMAIN c.batch : c.batch[i] = c.batch[1] + i - 1 /\ c.batch[i] <= top
          /\ Through(c.batch[1], own, done)
    /\ c.pc = "batch" => c.offset <= c.batch[1]
    /\ c.pc = "handling" => c.offset = c.batch[1] + 1

CursorsInv ==
    /\ arrived \in Nat /\ confirmed \in Nat /\ confirmed <= arrived /\ gen \in Nat
    /\ client \in [Telegram!Gens -> Reader]
    /\ handled \in [Telegram!Gens -> Seq(Nat)]
    /\ \A u \in 1..confirmed : u \in HandledIn(handled)
    /\ \A g \in Telegram!Gens : Cursor(client[g], handled[g], HandledIn(handled), arrived)
    /\ \A g \in Telegram!Gens : g > gen => client[g].pc = "out" /\ handled[g] = <<>>

LEMMA CursorStays ==
    ASSUME NEW c \in Reader, NEW own, NEW done, NEW done2, done \subseteq done2,
           NEW top \in Nat, NEW top2 \in Nat, top <= top2, Cursor(c, own, done, top)
    PROVE  Cursor(c, own, done2, top2)
<1>1. \A i \in DOMAIN c.batch : c.batch[i] \in Nat
  BY ElementOfSeq, LenProperties DEF Reader
<1> QED
  BY <1>1 DEF Cursor, Reader, Through

(* One client moves on: enough that its own place is right.                *)
LEMMA ReaderMoves ==
    ASSUME CursorsInv, NEW g \in Telegram!Gens, g <= gen, NEW c \in Reader,
           client' = [client EXCEPT ![g] = c], arrived' = arrived, gen' = gen,
           handled' \in [Telegram!Gens -> Seq(Nat)],
           \A h \in Telegram!Gens : h # g => handled'[h] = handled[h],
           HandledIn(handled) \subseteq HandledIn(handled'),
           confirmed' \in Nat, confirmed' <= arrived,
           \A u \in 1..confirmed' : u \in HandledIn(handled'),
           Cursor(c, handled'[g], HandledIn(handled'), arrived)
    PROVE  CursorsInv'
<1>1. client' \in [Telegram!Gens -> Reader] /\ client'[g] = c
      /\ \A h \in Telegram!Gens : h # g => client'[h] = client[h]
  BY DEF CursorsInv
<1>2. ASSUME NEW h \in Telegram!Gens PROVE Cursor(client'[h], handled'[h], HandledIn(handled'), arrived')
  <2>1. CASE h = g
    BY <2>1, <1>1
  <2>2. CASE h # g
    <3>1. /\ Cursor(client[h], handled[h], HandledIn(handled), arrived)
          /\ client[h] \in Reader /\ arrived \in Nat
      BY DEF CursorsInv
    <3>2. client'[h] = client[h] /\ handled'[h] = handled[h]
      BY <2>2, <1>1
    <3>3. Cursor(client[h], handled[h], HandledIn(handled'), arrived)
      BY <3>1, CursorStays
    <3> QED
      BY <3>2, <3>3
  <2> QED
    BY <2>1, <2>2
<1>3. \A h \in Telegram!Gens : h > gen => client'[h].pc = "out" /\ handled'[h] = <<>>
  <2> SUFFICES ASSUME NEW h \in Telegram!Gens, h > gen PROVE client'[h].pc = "out" /\ handled'[h] = <<>>
    OBVIOUS
  <2>1. h # g
    BY DEF CursorsInv, Telegram!Gens
  <2> QED
    BY <2>1, <1>1 DEF CursorsInv
<1> QED
  BY <1>1, <1>2, <1>3 DEF CursorsInv

LEMMA Present ==
    ASSUME CursorsInv, NEW g \in Telegram!Gens, client[g].pc # "out"
    PROVE  g <= gen /\ client[g] \in Reader /\ handled[g] \in Seq(Nat)
           /\ Cursor(client[g], handled[g], HandledIn(handled), arrived)
BY DEF CursorsInv, Telegram!Gens

LEMMA AnsweredStep ==
    ASSUME Telegram!PollAssumption, CursorsInv, NEW g \in Telegram!Gens, Telegram!Answered(g)
    PROVE  CursorsInv'
<1> DEFINE from == Telegram!Confirms(g)
           c == [client[g] EXCEPT !.batch = Telegram!Answer(from),
                                  !.pc = IF Telegram!Answer(from) = <<>> THEN "loop" ELSE "batch"]
<1>1. /\ client[g].pc = "asked" /\ confirmed' = from
      /\ client' = [client EXCEPT ![g] = c] /\ UNCHANGED <<arrived, handled, gen>>
  BY DEF Telegram!Answered, Telegram!At, CursorsInv
<1>2. /\ client[g] \in Reader /\ g <= gen /\ Cursor(client[g], handled[g], HandledIn(handled), arrived)
      /\ client[g].offset \in Nat /\ client[g].offset <= arrived + 1
      /\ Through(client[g].offset, handled[g], HandledIn(handled)) /\ Ordered(handled[g])
  BY <1>1, Present DEF Cursor, Reader
<1>3. /\ from \in Nat /\ from <= arrived /\ client[g].offset <= from + 1
      /\ from = confirmed \/ from = client[g].offset - 1
      /\ confirmed <= from
  BY <1>2 DEF CursorsInv, Telegram!Confirms, Telegram!Larger
<1>4. \A u \in 1..from : u \in HandledIn(handled)
  BY <1>2, <1>3 DEF CursorsInv, Through
<1> HIDE DEF from
<1>5. /\ Telegram!Answer(from) \in Seq(Nat)
      /\ \A i \in DOMAIN Telegram!Answer(from) : /\ i \in Nat /\ Telegram!Answer(from)[i] = from + i
                                                 /\ from + i <= arrived
      /\ Telegram!Answer(from) # <<>> => 1 \in DOMAIN Telegram!Answer(from)
  <2> DEFINE n == Telegram!Smaller(BatchSize, arrived - from)
  <2>1. n \in Nat /\ n <= arrived - from
    BY <1>3 DEF Telegram!Smaller, Telegram!PollAssumption, CursorsInv
  <2> HIDE DEF n
  <2>2. Telegram!Answer(from) = [i \in 1..n |-> from + i]
    BY DEF Telegram!Answer, n
  <2>3. Telegram!Answer(from) \in Seq(Nat)
    BY <1>3, <2>1, <2>2
  <2>4. Telegram!Answer(from) # <<>> => 1 \in DOMAIN Telegram!Answer(from)
    BY <2>3, EmptySeq, LenProperties
  <2> QED
    BY <1>3, <2>1, <2>2, <2>3, <2>4 DEF CursorsInv
<1>6. c \in Reader
  BY <1>2, <1>5 DEF Reader
<1>7. Cursor(c, handled[g], HandledIn(handled), arrived)
  <2>1. CASE Telegram!Answer(from) = <<>>
    BY <2>1, <1>2 DEF Cursor, Reader
  <2>2. CASE Telegram!Answer(from) # <<>>
    <3>1. c.pc = "batch" /\ c.batch = Telegram!Answer(from) /\ c.offset = client[g].offset
      BY <2>2, <1>2 DEF Reader
    <3>2. c.batch[1] = from + 1
      BY <2>2, <3>1, <1>5
    <3>3. \A i \in DOMAIN c.batch : c.batch[i] = c.batch[1] + i - 1 /\ c.batch[i] <= arrived
      BY <3>1, <3>2, <1>5, <1>3
    <3>4. \A i \in DOMAIN handled[g] : handled[g][i] \in Nat
      BY ElementOfSeq, LenProperties DEF CursorsInv
    <3>5. Through(c.batch[1], handled[g], HandledIn(handled))
      BY <3>2, <3>4, <1>2, <1>3, <1>4 DEF Through
    <3> HIDE DEF c
    <3> QED
      BY <2>2, <3>1, <3>2, <3>3, <3>5, <1>2, <1>3 DEF Cursor
  <2> QED
    BY <2>1, <2>2
<1> HIDE DEF c
<1> QED
  BY <1>1, <1>2, <1>3, <1>4, <1>6, <1>7, ReaderMoves DEF CursorsInv

LEMMA BeginStep ==
    ASSUME CursorsInv, NEW g \in Telegram!Gens, Telegram!Begin(g)
    PROVE  CursorsInv'
<1>1. /\ client[g].pc = "batch"
      /\ client' = [client EXCEPT ![g].pc = "handling",
                                  ![g].offset = Telegram!OffsetAfter(g, Head(client[g].batch))]
      /\ UNCHANGED <<arrived, confirmed, handled, gen>>
  BY DEF Telegram!Begin, Telegram!At
<1>2. /\ client[g] \in Reader /\ g <= gen /\ Cursor(client[g], handled[g], HandledIn(handled), arrived)
  BY <1>1, Present
<1>3. /\ client[g].batch \in Seq(Nat) /\ client[g].batch # <<>> /\ client[g].offset \in Nat
      /\ client[g].offset <= client[g].batch[1]
  BY <1>1, <1>2 DEF Cursor, Reader
<1>4. Head(client[g].batch) = client[g].batch[1] /\ Head(client[g].batch) \in Nat
  BY <1>3, TailOfNat
<1>5. PICK k \in Nat : k = client[g].batch[1]
  BY <1>4
<1>6. Telegram!OffsetAfter(g, Head(client[g].batch)) = k + 1
  BY <1>3, <1>4, <1>5 DEF Telegram!OffsetAfter, Telegram!Larger
<1>7. PICK c \in Reader : /\ c.pc = "handling" /\ c.offset = k + 1 /\ c.batch = client[g].batch
                          /\ client' = [client EXCEPT ![g] = c]
  <2>1. [client[g] EXCEPT !.pc = "handling", !.offset = k + 1] \in Reader
    <3>1. k + 1 \in Nat
      BY <1>5
    <3>2. ASSUME NEW n \in Nat PROVE [client[g] EXCEPT !.pc = "handling", !.offset = n] \in Reader
      BY <1>2 DEF Reader
    <3> QED
      BY <3>1, <3>2
  <2>2. client' = [client EXCEPT ![g] = [client[g] EXCEPT !.pc = "handling", !.offset = k + 1]]
    BY <1>1, <1>6 DEF CursorsInv
  <2> QED
    BY <2>1, <2>2, <1>2 DEF Reader
<1>8. Cursor(c, handled[g], HandledIn(handled), arrived)
  BY <1>1, <1>2, <1>5, <1>7 DEF Cursor
<1> QED
  BY <1>1, <1>2, <1>7, <1>8, ReaderMoves DEF CursorsInv

LEMMA BatchTail ==
    ASSUME NEW b \in Seq(Nat), b # <<>>, NEW top,
           \A i \in DOMAIN b : b[i] = b[1] + i - 1 /\ b[i] <= top
    PROVE  /\ Head(b) = b[1] /\ Head(b) \in Nat /\ Head(b) <= top /\ Tail(b) \in Seq(Nat)
           /\ \A i \in DOMAIN Tail(b) : i \in Nat /\ Tail(b)[i] = b[1] + i /\ b[1] + i <= top
           /\ Tail(b) # <<>> => 1 \in DOMAIN Tail(b)
<1>1. /\ Head(b) = b[1] /\ 1 \in DOMAIN b /\ Head(b) \in Nat /\ Tail(b) \in Seq(Nat)
      /\ Tail(b) # <<>> => 1 \in DOMAIN Tail(b)
  BY TailOfNat
<1>2. ASSUME NEW i \in DOMAIN Tail(b)
      PROVE  i \in Nat /\ Tail(b)[i] = b[1] + i /\ b[1] + i <= top
  <2>1. i \in Nat /\ i + 1 \in DOMAIN b /\ Tail(b)[i] = b[i + 1]
    BY TailOfNat
  <2>2. b[i + 1] = b[1] + (i + 1) - 1 /\ b[i + 1] <= top
    BY <2>1
  <2> QED
    BY <1>1, <2>1, <2>2
<1> QED
  BY <1>1, <1>2

LEMMA FinishStep ==
    ASSUME CursorsInv, NEW g \in Telegram!Gens, Telegram!Finish(g)
    PROVE  CursorsInv'
<1>1. PICK k, rest, own : /\ k = Head(client[g].batch) /\ rest = Tail(client[g].batch)
                          /\ own = Append(handled[g], k)
  OBVIOUS
<1>2. /\ client[g].pc = "handling" /\ handled' = [handled EXCEPT ![g] = own]
      /\ client' = [client EXCEPT ![g].batch = rest, ![g].pc = IF rest = <<>> THEN "loop" ELSE "batch"]
      /\ UNCHANGED <<arrived, confirmed, gen>>
  BY <1>1 DEF Telegram!Finish, Telegram!At
<1>3. /\ client[g] \in Reader /\ handled[g] \in Seq(Nat) /\ g <= gen
      /\ Cursor(client[g], handled[g], HandledIn(handled), arrived)
  BY <1>2, Present
<1>4. /\ client[g].batch \in Seq(Nat) /\ client[g].batch # <<>>
      /\ client[g].offset = client[g].batch[1] + 1 /\ Ordered(handled[g])
      /\ \A i \in DOMAIN client[g].batch : /\ client[g].batch[i] = client[g].batch[1] + i - 1
                                           /\ client[g].batch[i] <= arrived
      /\ Through(client[g].batch[1], handled[g], HandledIn(handled))
  BY <1>2, <1>3 DEF Cursor, Reader
<1>5. /\ k = client[g].batch[1] /\ k \in Nat /\ rest \in Seq(Nat) /\ k <= arrived
      /\ \A i \in DOMAIN rest : i \in Nat /\ rest[i] = k + i /\ k + i <= arrived
      /\ rest # <<>> => 1 \in DOMAIN rest
  BY <1>1, <1>4, BatchTail
<1>6. /\ own \in Seq(Nat) /\ Ordered(own) /\ \A i \in DOMAIN own : own[i] <= k
      /\ \A i \in DOMAIN handled[g] : i \in DOMAIN own /\ own[i] = handled[g][i]
      /\ \E i \in DOMAIN own : own[i] = k
  <2>1. \A i \in DOMAIN handled[g] : handled[g][i] < k
    BY <1>4, <1>5 DEF Through
  <2>2. Ordered(own) /\ \A i \in DOMAIN own : own[i] <= k
    BY <2>1, <1>1, <1>3, <1>4, <1>5, AppendLast
  <2>3. /\ own \in Seq(Nat) /\ Len(handled[g]) + 1 \in DOMAIN own
        /\ \A i \in DOMAIN handled[g] : i \in DOMAIN own /\ own[i] = handled[g][i]
    BY <1>1, <1>3, <1>5, AppendNat
  <2>4. own[Len(handled[g]) + 1] = k
    BY <1>1, <1>3, <1>5
  <2> QED
    BY <2>2, <2>3, <2>4
<1>7. /\ handled' \in [Telegram!Gens -> Seq(Nat)] /\ handled'[g] = own
      /\ \A h \in Telegram!Gens : h # g => handled'[h] = handled[h]
  BY <1>2, <1>6 DEF CursorsInv
<1>8. HandledIn(handled) \subseteq HandledIn(handled') /\ k \in HandledIn(handled')
  <2>1. k \in HandledIn(handled')
    BY <1>5, <1>6, <1>7 DEF HandledIn
  <2>2. ASSUME NEW u \in HandledIn(handled) PROVE u \in HandledIn(handled')
    <3>1. u \in Nat /\ \E h \in Telegram!Gens : \E i \in DOMAIN handled[h] : handled[h][i] = u
      BY DEF HandledIn
    <3>2. PICK h \in Telegram!Gens : \E i \in DOMAIN handled[h] : handled[h][i] = u
      BY <3>1
    <3>3. \E i \in DOMAIN handled'[h] : handled'[h][i] = u
      BY <3>2, <1>6, <1>7
    <3> QED
      BY <3>1, <3>3 DEF HandledIn
  <2> QED
    BY <2>1, <2>2
<1>9. \A u \in 1..k : u \in HandledIn(handled')
  <2>1. \A u \in 1..(k - 1) : u \in HandledIn(handled)
    BY <1>4, <1>5 DEF Through
  <2> QED
    BY <2>1, <1>5, <1>8
<1>10. PICK c \in Reader : /\ c.batch = rest /\ c.offset = k + 1
                           /\ c.pc = IF rest = <<>> THEN "loop" ELSE "batch"
                           /\ client' = [client EXCEPT ![g] = c]
  <2> DEFINE c == [client[g] EXCEPT !.batch = rest, !.pc = IF rest = <<>> THEN "loop" ELSE "batch"]
  <2>1. /\ c \in Reader /\ c.batch = rest /\ c.offset = k + 1
        /\ c.pc = IF rest = <<>> THEN "loop" ELSE "batch"
    BY <1>3, <1>4, <1>5 DEF Reader
  <2>2. client' = [client EXCEPT ![g] = c]
    BY <1>2 DEF CursorsInv
  <2> HIDE DEF c
  <2> QED
    BY <2>1, <2>2
<1>11. Through(k + 1, own, HandledIn(handled'))
  <2>1. \A i \in DOMAIN own : own[i] \in Nat
    BY <1>6, ElementOfSeq, LenProperties
  <2>2. \A u \in 1..((k + 1) - 1) : u \in HandledIn(handled')
    BY <1>5, <1>9
  <2>3. \A i \in DOMAIN own : own[i] < k + 1
    BY <1>5, <1>6, <2>1
  <2> QED
    BY <2>2, <2>3 DEF Through
<1>12. arrived \in Nat
  BY DEF CursorsInv
<1>13. Cursor(c, own, HandledIn(handled'), arrived)
  <2>1. CASE rest = <<>>
    BY <2>1, <1>5, <1>6, <1>10, <1>11, <1>12 DEF Cursor
  <2>2. CASE rest # <<>>
    <3>1. c.pc = "batch" /\ c.batch[1] = k + 1
      BY <2>2, <1>5, <1>10
    <3>2. \A i \in DOMAIN c.batch : c.batch[i] = c.batch[1] + i - 1 /\ c.batch[i] <= arrived
      <4> SUFFICES ASSUME NEW i \in DOMAIN rest
                   PROVE  rest[i] = (k + 1) + i - 1 /\ rest[i] <= arrived
        BY <3>1, <1>10
      <4>1. i \in Nat /\ rest[i] = k + i /\ k + i <= arrived /\ k \in Nat
        BY <1>5
      <4> QED
        BY <4>1
    <3> QED
      BY <2>2, <3>1, <3>2, <1>5, <1>6, <1>10, <1>11 DEF Cursor
  <2> QED
    BY <2>1, <2>2
<1>14. \A u \in 1..confirmed : u \in HandledIn(handled')
  BY <1>8 DEF CursorsInv
<1>15. /\ confirmed' \in Nat /\ confirmed' <= arrived /\ arrived' = arrived /\ gen' = gen
       /\ \A u \in 1..confirmed' : u \in HandledIn(handled')
  BY <1>2, <1>14 DEF CursorsInv
<1>16. Cursor(c, handled'[g], HandledIn(handled'), arrived)
  BY <1>7, <1>13
<1> QED
  BY <1>3, <1>7, <1>8, <1>10, <1>15, <1>16, ReaderMoves

LEMMA AskStep ==
    ASSUME CursorsInv, NEW g \in Telegram!Gens,
           \/ Telegram!Identify(g) \/ Telegram!GivesUp(g)
           \/ Telegram!Leave(g) \/ Telegram!Ask(g) \/ Telegram!AskFails(g)
    PROVE  CursorsInv'
<1>1. /\ client[g].pc \in {"greeting", "loop", "asked"} /\ UNCHANGED <<arrived, handled, gen>>
      /\ confirmed' \in {confirmed, Telegram!Confirms(g)}
      /\ \/ client' = [client EXCEPT ![g] = Telegram!Out]
         \/ client' = [client EXCEPT ![g] = [client[g] EXCEPT !.pc = "asked"]]
         \/ client' = [client EXCEPT ![g] = [client[g] EXCEPT !.pc = "loop"]]
  <2>1. CASE Telegram!Leave(g)
    BY <2>1 DEF Telegram!Leave, Telegram!At
  <2>2. CASE Telegram!Ask(g)
    BY <2>2 DEF Telegram!Ask, Telegram!At, CursorsInv
  <2>3. CASE Telegram!AskFails(g)
    BY <2>3 DEF Telegram!AskFails, Telegram!At, CursorsInv
  <2>4. CASE Telegram!Identify(g) \/ Telegram!GivesUp(g)
    BY <2>4 DEF Telegram!Identify, Telegram!GivesUp, Telegram!At, CursorsInv
  <2> QED
    BY <2>1, <2>2, <2>3, <2>4
<1>2. /\ client[g] \in Reader /\ g <= gen /\ Cursor(client[g], handled[g], HandledIn(handled), arrived)
  BY <1>1, Present
<1>3. /\ client[g].offset \in Nat /\ client[g].offset <= arrived + 1
      /\ Through(client[g].offset, handled[g], HandledIn(handled)) /\ Ordered(handled[g])
  BY <1>1, <1>2 DEF Cursor, Reader
<1>4. /\ confirmed' \in Nat /\ confirmed' <= arrived
      /\ confirmed' = confirmed \/ confirmed' = client[g].offset - 1
  BY <1>1, <1>3 DEF CursorsInv, Telegram!Confirms, Telegram!Larger
<1>5. \A u \in 1..confirmed' : u \in HandledIn(handled)
  BY <1>3, <1>4 DEF CursorsInv, Through
<1>6. PICK c \in Reader : /\ client' = [client EXCEPT ![g] = c]
                          /\ Cursor(c, handled[g], HandledIn(handled), arrived)
  <2>1. CASE client' = [client EXCEPT ![g] = Telegram!Out]
    <3>1. Telegram!Out \in Reader /\ Telegram!Out.pc = "out"
      BY EmptySeq DEF Telegram!Out, Reader
    <3> QED
      BY <2>1, <3>1, <1>3 DEF Cursor
  <2>2. CASE client' = [client EXCEPT ![g] = [client[g] EXCEPT !.pc = "asked"]]
    <3>1. Cursor([client[g] EXCEPT !.pc = "asked"], handled[g], HandledIn(handled), arrived)
      BY <1>2, <1>3 DEF Cursor, Reader
    <3> QED
      BY <2>2, <3>1, <1>2 DEF Reader
  <2>3. CASE client' = [client EXCEPT ![g] = [client[g] EXCEPT !.pc = "loop"]]
    <3>1. Cursor([client[g] EXCEPT !.pc = "loop"], handled[g], HandledIn(handled), arrived)
      BY <1>2, <1>3 DEF Cursor, Reader
    <3> QED
      BY <2>3, <3>1, <1>2 DEF Reader
  <2> QED
    BY <1>1, <2>1, <2>2, <2>3
<1> QED
  BY <1>1, <1>2, <1>4, <1>5, <1>6, ReaderMoves DEF CursorsInv

LEMMA CursorsStep ==
    ASSUME Telegram!PollAssumption
    PROVE  CursorsInv /\ [Telegram!Next]_(Telegram!vars) => CursorsInv'
<1> SUFFICES ASSUME CursorsInv, [Telegram!Next]_(Telegram!vars) PROVE CursorsInv'
  OBVIOUS
<1>1. CASE Telegram!Arrive
  <2>1. arrived' = arrived + 1 /\ UNCHANGED <<confirmed, client, handled, gen>> /\ arrived \in Nat
    BY <1>1 DEF Telegram!Arrive, CursorsInv
  <2>2. \A g \in Telegram!Gens : Cursor(client[g], handled[g], HandledIn(handled), arrived')
    BY <2>1, CursorStays DEF CursorsInv
  <2> QED
    BY <2>1, <2>2 DEF CursorsInv
<1>2. CASE Telegram!Stop \/ UNCHANGED Telegram!vars
  BY <1>2 DEF Telegram!Stop, Telegram!vars, CursorsInv
<1>3. CASE Telegram!Start
  <2> DEFINE fresh == gen + 1
  <2>1. /\ gen' = fresh /\ client' = [client EXCEPT ![fresh] = Telegram!Started]
        /\ UNCHANGED <<arrived, confirmed, handled>> /\ fresh \in Telegram!Gens /\ gen \in Nat
    BY <1>3 DEF Telegram!Start, Telegram!Gens, Telegram!PollAssumption, CursorsInv
  <2>2. /\ Telegram!Started \in Reader /\ Telegram!Started.pc = "greeting" /\ Telegram!Started.offset = 0
    BY EmptySeq DEF Telegram!Started, Telegram!Out, Reader
  <2>3. fresh > gen /\ handled[fresh] = <<>>
    BY <2>1 DEF CursorsInv
  <2> HIDE DEF fresh
  <2>4. DOMAIN handled[fresh] = {}
    BY <2>3
  <2>5. Cursor(Telegram!Started, handled[fresh], HandledIn(handled), arrived)
    BY <2>2, <2>4 DEF Cursor, Through, Ordered, CursorsInv
  <2>6. \A g \in Telegram!Gens : g > fresh => g > gen /\ g # fresh
    BY <2>1, <2>3 DEF Telegram!Gens
  <2> QED
    BY <2>1, <2>2, <2>5, <2>6 DEF CursorsInv, fresh
<1>4. CASE Telegram!Crash
  <2>1. /\ client' = [g \in Telegram!Gens |-> Telegram!Out]
        /\ UNCHANGED <<arrived, confirmed, handled, gen>>
    BY <1>4 DEF Telegram!Crash
  <2>2. Telegram!Out \in Reader /\ Telegram!Out.pc = "out"
    BY EmptySeq DEF Telegram!Out, Reader
  <2>3. \A g \in Telegram!Gens : Cursor(Telegram!Out, handled[g], HandledIn(handled), arrived)
    BY <2>2 DEF Cursor, CursorsInv
  <2> QED
    BY <2>1, <2>2, <2>3 DEF CursorsInv
<1>5. ASSUME NEW g \in Telegram!Gens, Telegram!ClientStep(g) \/ Telegram!GivesUp(g) \/ Telegram!AskFails(g) PROVE CursorsInv'
  BY <1>5, AskStep, AnsweredStep, BeginStep, FinishStep DEF Telegram!ClientStep
<1> QED
  BY <1>1, <1>2, <1>3, <1>4, <1>5 DEF Telegram!Next

LEMMA TelegramBegins == Telegram!Init => CursorsInv
<1> SUFFICES ASSUME Telegram!Init PROVE CursorsInv
  OBVIOUS
<1>1. Telegram!Out \in Reader /\ Telegram!Out.pc = "out" /\ <<>> \in Seq(Nat)
  BY EmptySeq DEF Telegram!Out, Reader
<1>2. Ordered(<<>>)
  BY DEF Ordered
<1> QED
  BY <1>1, <1>2 DEF Telegram!Init, CursorsInv, Cursor

LEMMA TelegramUpdates ==
    ASSUME Telegram!PollAssumption PROVE Telegram!Spec => []Telegram!CursorHonest
<1>1. CursorsInv => Telegram!CursorHonest
  <2> SUFFICES ASSUME CursorsInv PROVE Telegram!NothingLost /\ Telegram!OncePerClient
    BY DEF Telegram!CursorHonest
  <2>1. Telegram!NothingLost
    BY DEF CursorsInv, HandledIn, Telegram!NothingLost, Telegram!Handled
  <2>2. Telegram!OncePerClient
    BY DEF CursorsInv, Cursor, Ordered, Telegram!OncePerClient
  <2> QED
    BY <2>1, <2>2
<1> QED
  BY <1>1, TelegramBegins, CursorsStep, PTL DEF Telegram!Spec

(* An offset and a batch belong to a client that polls, and only a client    *)
(* with a batch is at one.                                                   *)
Polls(c) ==
    /\ c.pc = "out" => c.offset = 0
    /\ c.pc \in {"batch", "handling"} <=> c.batch # <<>>

TelegramTyped ==
    /\ CursorsInv
    /\ arrived <= MaxUpdates
    /\ \A g \in Telegram!Gens : Polls(client[g])

LEMMA PollsMoves ==
    ASSUME TelegramTyped, CursorsInv', arrived' <= MaxUpdates,
           NEW g \in Telegram!Gens, NEW c, Polls(c), client' = [client EXCEPT ![g] = c]
    PROVE  TelegramTyped'
<1>1. client'[g] = c /\ \A h \in Telegram!Gens : h # g => client'[h] = client[h]
  BY DEF TelegramTyped, CursorsInv
<1> QED
  BY <1>1 DEF TelegramTyped

LEMMA ClientPolls ==
    ASSUME TelegramTyped, CursorsInv', arrived' = arrived, NEW g \in Telegram!Gens,
           Telegram!ClientStep(g) \/ Telegram!GivesUp(g) \/ Telegram!AskFails(g)
    PROVE  TelegramTyped'
<1>1. PICK old \in Reader : old = client[g]
  BY DEF TelegramTyped, CursorsInv
<1>2. Polls(old) /\ client \in [Telegram!Gens -> Reader] /\ arrived' <= MaxUpdates
  BY <1>1 DEF TelegramTyped, CursorsInv
<1>3. CASE Telegram!Leave(g) \/ Telegram!GivesUp(g)
  <2>1. Polls(Telegram!Out)
    BY DEF Polls, Telegram!Out
  <2> QED
    BY <1>2, <1>3, <2>1, PollsMoves DEF Telegram!Leave, Telegram!GivesUp
<1>4. CASE Telegram!Ask(g)
  <2>1. PICK c : c = [old EXCEPT !.pc = "asked"]
    OBVIOUS
  <2>2. c.pc = "asked" /\ c.batch = old.batch
    BY <2>1 DEF Reader
  <2>3. client' = [client EXCEPT ![g] = c] /\ old.pc = "loop"
    BY <1>1, <1>2, <1>4, <2>1 DEF Telegram!Ask, Telegram!At
  <2>4. Polls(c)
    BY <1>2, <2>2, <2>3 DEF Polls
  <2> QED
    BY <1>2, <2>3, <2>4, PollsMoves
<1>5. CASE Telegram!AskFails(g) \/ Telegram!Identify(g)
  <2>1. PICK c : c = [old EXCEPT !.pc = "loop"]
    OBVIOUS
  <2>2. c.pc = "loop" /\ c.batch = old.batch
    BY <2>1 DEF Reader
  <2>3. client' = [client EXCEPT ![g] = c] /\ old.pc \in {"greeting", "asked"}
    BY <1>1, <1>2, <1>5, <2>1 DEF Telegram!AskFails, Telegram!Identify, Telegram!At
  <2>4. Polls(c)
    BY <1>2, <2>2, <2>3 DEF Polls
  <2> QED
    BY <1>2, <2>3, <2>4, PollsMoves
<1>6. CASE Telegram!Answered(g)
  <2>1. PICK s : s = Telegram!Answer(Telegram!Confirms(g))
    OBVIOUS
  <2>2. PICK c : c = [old EXCEPT !.batch = s, !.pc = IF s = <<>> THEN "loop" ELSE "batch"]
    OBVIOUS
  <2>3. c.pc = (IF s = <<>> THEN "loop" ELSE "batch") /\ c.batch = s
    BY <2>2 DEF Reader
  <2>4. client' = [client EXCEPT ![g] = c]
    BY <1>1, <1>2, <1>6, <2>1, <2>2 DEF Telegram!Answered
  <2>5. Polls(c)
    BY <2>3 DEF Polls
  <2> QED
    BY <1>2, <2>4, <2>5, PollsMoves
<1>7. CASE Telegram!Begin(g)
  <2>1. PICK c : c = [old EXCEPT !.pc = "handling", !.offset = Telegram!OffsetAfter(g, Head(old.batch))]
    OBVIOUS
  <2>2. c.pc = "handling" /\ c.batch = old.batch
    BY <2>1 DEF Reader
  <2>3. client' = [client EXCEPT ![g] = c] /\ old.pc = "batch"
    BY <1>1, <1>2, <1>7, <2>1 DEF Telegram!Begin, Telegram!At
  <2>4. Polls(c)
    BY <1>2, <2>2, <2>3 DEF Polls
  <2> QED
    BY <1>2, <2>3, <2>4, PollsMoves
<1>8. CASE Telegram!Finish(g)
  <2>1. PICK s : s = Tail(old.batch)
    OBVIOUS
  <2>2. PICK c : c = [old EXCEPT !.batch = s, !.pc = IF s = <<>> THEN "loop" ELSE "batch"]
    OBVIOUS
  <2>3. c.pc = (IF s = <<>> THEN "loop" ELSE "batch") /\ c.batch = s
    BY <2>2 DEF Reader
  <2>4. client' = [client EXCEPT ![g] = c]
    BY <1>1, <1>2, <1>8, <2>1, <2>2 DEF Telegram!Finish
  <2>5. Polls(c)
    BY <2>3 DEF Polls
  <2> QED
    BY <1>2, <2>4, <2>5, PollsMoves
<1> QED
  BY <1>3, <1>4, <1>5, <1>6, <1>7, <1>8 DEF Telegram!ClientStep

LEMMA TelegramTypes == ASSUME Telegram!PollAssumption PROVE Telegram!Spec => []TelegramTyped
<1>1. Telegram!Init => TelegramTyped
  <2> SUFFICES ASSUME Telegram!Init PROVE TelegramTyped
    OBVIOUS
  <2>1. CursorsInv
    BY TelegramBegins
  <2>2. Polls(Telegram!Out) /\ 0 <= MaxUpdates
    BY DEF Polls, Telegram!Out, Telegram!PollAssumption
  <2> QED
    BY <2>1, <2>2 DEF TelegramTyped, Telegram!Init
<1>2. TelegramTyped /\ [Telegram!Next]_(Telegram!vars) => TelegramTyped'
  <2> SUFFICES ASSUME TelegramTyped, [Telegram!Next]_(Telegram!vars) PROVE TelegramTyped'
    OBVIOUS
  <2>1. CursorsInv' /\ arrived \in Nat /\ gen \in Nat /\ MaxUpdates \in Nat
    BY CursorsStep DEF TelegramTyped, CursorsInv, Telegram!PollAssumption
  <2>2. CASE Telegram!Arrive
    <3>1. arrived' <= MaxUpdates
      BY <2>1, <2>2 DEF Telegram!Arrive
    <3> QED
      BY <2>1, <2>2, <3>1 DEF Telegram!Arrive, TelegramTyped
  <2>3. CASE Telegram!Start
    <3>1. PICK fresh : fresh = gen + 1
      OBVIOUS
    <3>2. fresh \in Telegram!Gens
      BY <2>1, <2>3, <3>1 DEF Telegram!Start, Telegram!Gens, Telegram!PollAssumption
    <3>3. Polls(Telegram!Started)
      BY DEF Polls, Telegram!Started, Telegram!Out
    <3>4. client' = [client EXCEPT ![fresh] = Telegram!Started] /\ arrived' <= MaxUpdates
      BY <2>3, <3>1 DEF Telegram!Start, TelegramTyped
    <3> QED
      BY <2>1, <3>2, <3>3, <3>4, PollsMoves
  <2>4. CASE Telegram!Crash
    <3>1. Polls(Telegram!Out)
      BY DEF Polls, Telegram!Out
    <3> QED
      BY <2>1, <2>4, <3>1 DEF Telegram!Crash, TelegramTyped
  <2>5. CASE Telegram!Stop \/ UNCHANGED Telegram!vars
    BY <2>1, <2>5 DEF Telegram!Stop, Telegram!vars, TelegramTyped
  <2>6. ASSUME NEW g \in Telegram!Gens, Telegram!ClientStep(g) \/ Telegram!GivesUp(g) \/ Telegram!AskFails(g) PROVE TelegramTyped'
    <3>1. arrived' = arrived
      BY <2>6
         DEF Telegram!ClientStep, Telegram!Identify, Telegram!GivesUp, Telegram!Leave,
             Telegram!Ask, Telegram!Answered, Telegram!Begin, Telegram!Finish, Telegram!AskFails
    <3> QED
      BY <2>1, <2>6, <3>1, ClientPolls
  <2> QED
    BY <2>2, <2>3, <2>4, <2>5, <2>6 DEF Telegram!Next
<1> QED
  BY <1>1, <1>2, PTL DEF Telegram!Spec

LEMMA TelegramShapes == TelegramTyped => Telegram!TypeInv
<1> SUFFICES ASSUME TelegramTyped PROVE Telegram!TypeInv
  OBVIOUS
<1>1. confirmed \in 0..arrived /\ arrived \in 0..MaxUpdates
  BY DEF TelegramTyped, CursorsInv
<1>2. ASSUME NEW g \in Telegram!Gens PROVE client[g].offset \in 0..arrived + 1
  <2>1. PICK c \in Reader : c = client[g]
    BY DEF TelegramTyped, CursorsInv
  <2>2. /\ Cursor(c, handled[g], HandledIn(handled), arrived) /\ Polls(c)
        /\ arrived \in Nat /\ c.offset \in Nat
    BY <2>1 DEF TelegramTyped, CursorsInv, Reader
  <2>3. c.offset <= arrived + 1
    <3>1. CASE c.pc = "out"
      BY <2>2, <3>1 DEF Polls
    <3>2. CASE c.pc \in {"greeting", "loop", "asked"}
      BY <2>2, <3>2 DEF Cursor
    <3>3. CASE c.pc \in {"batch", "handling"}
      <4>1. c.batch \in Seq(Nat) /\ c.batch # <<>>
        BY <2>1, <2>2, <3>3 DEF Reader, Cursor
      <4>2. 1 \in DOMAIN c.batch /\ c.batch[1] \in Nat
        BY <4>1, TailOfNat
      <4>3. c.batch[1] <= arrived
        BY <2>2, <3>3, <4>2 DEF Cursor
      <4>4. c.offset <= c.batch[1] + 1
        BY <2>2, <3>3, <4>2 DEF Cursor
      <4> QED
        BY <2>2, <4>2, <4>3, <4>4
    <3> QED
      BY <3>1, <3>2, <3>3 DEF Reader
  <2> QED
    BY <2>1, <2>2, <2>3
<1> QED
  BY <1>1, <1>2 DEF Telegram!TypeInv, TelegramTyped, Polls

----------------------------------------------------------------------------
(***************************************************************************)
(* Syncing Matrix.  The cursor is ahead of the handlers by the answer in   *)
(* hand and by nothing else: between two answers a client has handled      *)
(* nothing beyond its cursor and holds nothing, and an answer begins where *)
(* its handlers have come to.  What lies between the client's first event  *)
(* and its cursor is handled, in hand, or was left out by the server.      *)
(***************************************************************************)
Syncer == [pc : {"out", "greeting", "loop", "asked", "batch"}, since : Nat, first : Nat, batch : Seq(Nat)]

Within(e, s) == \E i \in DOMAIN s : s[i] = e

Shown(c, own, gone) ==
    \A e \in (c.first + 1)..c.since : Within(e, own) \/ Within(e, c.batch) \/ e \in gone

Synced(c, own, gone, top) ==
    /\ Ordered(own)
    /\ c.pc = "out" => c.since = Matrix!NoSince
    /\ c.since # Matrix!NoSince => c.since <= top /\ Shown(c, own, gone)
    /\ c.pc \in {"greeting", "loop", "asked"} =>
          /\ c.since = Matrix!NoSince => own = <<>>
          /\ c.since # Matrix!NoSince => c.batch = <<>> /\ \A i \in DOMAIN own : own[i] <= c.since
    /\ c.pc = "batch" =>
          /\ c.since # Matrix!NoSince /\ c.batch # <<>>
          /\ \A i \in DOMAIN c.batch : c.batch[i] = c.batch[1] + i - 1 /\ c.batch[i] <= c.since
          /\ \A i \in DOMAIN own : own[i] < c.batch[1]

SyncInv ==
    /\ room \in Nat /\ room <= MaxEvents /\ syncGen \in Nat
    /\ syncing \in [Matrix!Gens -> Syncer]
    /\ synced \in [Matrix!Gens -> Seq(Nat)]
    /\ skipped \in [Matrix!Gens -> SUBSET Nat]
    /\ \A g \in Matrix!Gens : Synced(syncing[g], synced[g], skipped[g], room)
    /\ \A g \in Matrix!Gens : g > syncGen => syncing[g].pc = "out" /\ synced[g] = <<>>

LEMMA SyncOut == Matrix!SyncAssumption => Matrix!Out \in Syncer /\ Matrix!Started \in Syncer
<1> SUFFICES ASSUME Matrix!SyncAssumption PROVE Matrix!Out \in Syncer /\ Matrix!Started \in Syncer
  OBVIOUS
<1>1. Matrix!NoSince \in Nat /\ <<>> \in Seq(Nat)
  BY EmptySeq DEF Matrix!SyncAssumption, Matrix!NoSince
<1> QED
  BY <1>1 DEF Matrix!Out, Matrix!Started, Syncer

LEMMA SyncerMoves ==
    ASSUME SyncInv, NEW g \in Matrix!Gens, syncing[g].pc # "out", NEW c \in Syncer,
           NEW own \in Seq(Nat), NEW gone \in SUBSET Nat,
           syncing' = [syncing EXCEPT ![g] = c], synced' = [synced EXCEPT ![g] = own],
           skipped' = [skipped EXCEPT ![g] = gone], room' = room, syncGen' = syncGen,
           Synced(c, own, gone, room)
    PROVE  SyncInv'
<1>1. g <= syncGen
  BY DEF SyncInv, Matrix!Gens
<1>2. /\ syncing' \in [Matrix!Gens -> Syncer] /\ syncing'[g] = c
      /\ synced' \in [Matrix!Gens -> Seq(Nat)] /\ synced'[g] = own
      /\ skipped' \in [Matrix!Gens -> SUBSET Nat] /\ skipped'[g] = gone
      /\ \A h \in Matrix!Gens : h # g => /\ syncing'[h] = syncing[h] /\ synced'[h] = synced[h]
                                         /\ skipped'[h] = skipped[h]
  BY DEF SyncInv
<1>3. ASSUME NEW h \in Matrix!Gens PROVE Synced(syncing'[h], synced'[h], skipped'[h], room')
  <2>1. CASE h = g
    BY <2>1, <1>2
  <2>2. CASE h # g
    <3>1. Synced(syncing[h], synced[h], skipped[h], room)
      BY DEF SyncInv
    <3> QED
      BY <3>1, <2>2, <1>2
  <2> QED
    BY <2>1, <2>2
<1>4. ASSUME NEW h \in Matrix!Gens, h > syncGen PROVE syncing'[h].pc = "out" /\ synced'[h] = <<>>
  <2>1. h # g
    BY <1>1, <1>4 DEF SyncInv, Matrix!Gens
  <2> QED
    BY <2>1, <1>2, <1>4 DEF SyncInv
<1> QED
  BY <1>2, <1>3, <1>4 DEF SyncInv

LEMMA SyncAnswered ==
    ASSUME Matrix!SyncAssumption, SyncInv, NEW g \in Matrix!Gens, Matrix!Answered(g)
    PROVE  SyncInv'
<1>1. PICK old \in Syncer, own \in Seq(Nat), gone \in SUBSET Nat :
          old = syncing[g] /\ own = synced[g] /\ gone = skipped[g]
  BY DEF SyncInv
<1>2. PICK from : from = Matrix!From(g)
  OBVIOUS
<1>3. PICK batch : batch = Matrix!Answer(g)
  OBVIOUS
<1>4. PICK now : now = IF Matrix!Initial(g) THEN gone ELSE gone \cup (old.since + 1)..from
  OBVIOUS
<1>5. /\ old.pc = "asked"
      /\ Matrix!Initial(g) <=> old.since = Matrix!NoSince
      /\ Synced(old, own, gone, room) /\ old.since \in Nat /\ old.first \in Nat /\ Ordered(own)
      /\ UNCHANGED <<room, synced, syncGen>>
  BY <1>1 DEF Matrix!Answered, Matrix!At, Matrix!Initial, SyncInv, Synced, Syncer
<1>6. /\ from \in Nat /\ from <= room
      /\ old.since # Matrix!NoSince => old.since <= from
  <2>1. Matrix!Latest \in Nat /\ Matrix!Latest <= room
    BY DEF Matrix!Latest, Matrix!SyncAssumption, SyncInv
  <2>2. old.since # Matrix!NoSince => old.since <= room
    BY <1>5 DEF Synced
  <2> QED
    BY <1>1, <1>2, <1>5, <2>1, <2>2 DEF Matrix!From, SyncInv
<1>7. /\ batch \in Seq(Nat)
      /\ \A i \in DOMAIN batch : i \in Nat /\ batch[i] = from + i /\ from + i <= room
      /\ batch # <<>> => 1 \in DOMAIN batch
      /\ \A e \in (from + 1)..room : Within(e, batch)
  <2>1. PICK n \in Nat : n = room - from
    BY <1>6 DEF SyncInv
  <2>2. batch = [i \in 1..n |-> from + i]
    BY <1>2, <1>3, <2>1 DEF Matrix!Answer
  <2>3. batch \in Seq(Nat)
    BY <1>6, <2>2
  <2>4. batch # <<>> => 1 \in DOMAIN batch
    BY <2>3, EmptySeq, LenProperties
  <2>5. ASSUME NEW i \in DOMAIN batch PROVE i \in Nat /\ batch[i] = from + i /\ from + i <= room
    BY <1>6, <2>1, <2>2 DEF SyncInv
  <2>6. ASSUME NEW e \in (from + 1)..room PROVE Within(e, batch)
    <3>1. e - from \in 1..n /\ from + (e - from) = e
      BY <1>6, <2>1 DEF SyncInv
    <3> QED
      BY <3>1, <2>2 DEF Within
  <2> QED
    BY <2>3, <2>4, <2>5, <2>6
<1>8. /\ now \in SUBSET Nat /\ skipped' = [skipped EXCEPT ![g] = now]
      /\ old.since # Matrix!NoSince => /\ gone \subseteq now
                                       /\ \A e \in (old.since + 1)..from : e \in now
  <2>1. now \in SUBSET Nat
    <3>1. old.since + 1 \in Nat
      BY <1>5
    <3>2. (old.since + 1)..from \subseteq Nat
      BY <3>1, <1>6
    <3> QED
      BY <1>4, <3>2
  <2>2. CASE Matrix!Initial(g)
    <3>1. now = gone /\ skipped' = skipped
      BY <1>4, <2>2 DEF Matrix!Answered
    <3> QED
      BY <3>1, <2>1, <2>2, <1>1, <1>5 DEF SyncInv
  <2>3. CASE ~Matrix!Initial(g)
    <3>1. now = gone \cup (old.since + 1)..from
      BY <1>4, <2>3
    <3>2. skipped' = [skipped EXCEPT ![g] = now]
      BY <1>1, <1>2, <2>3, <3>1 DEF Matrix!Answered, SyncInv
    <3> QED
      BY <3>1, <3>2, <2>1
  <2> QED
    BY <2>2, <2>3
<1>9. PICK c \in Syncer :
          /\ syncing' = [syncing EXCEPT ![g] = c]
          /\ c.since = room /\ c.batch = batch
          /\ c.first = IF Matrix!Initial(g) THEN from ELSE old.first
          /\ c.pc = IF batch = <<>> THEN "loop" ELSE "batch"
  <2> DEFINE c == [old EXCEPT !.since = room, !.batch = batch,
                              !.first = IF Matrix!Initial(g) THEN from ELSE @,
                              !.pc = IF batch = <<>> THEN "loop" ELSE "batch"]
  <2>1. /\ c \in Syncer /\ c.since = room /\ c.batch = batch
        /\ c.first = IF Matrix!Initial(g) THEN from ELSE old.first
        /\ c.pc = IF batch = <<>> THEN "loop" ELSE "batch"
    BY <1>6, <1>7 DEF Syncer, SyncInv
  <2>2. syncing' = [syncing EXCEPT ![g] = c]
    BY <1>1, <1>2, <1>3 DEF Matrix!Answered, Matrix!NextSince, SyncInv
  <2> HIDE DEF c
  <2> QED
    BY <2>1, <2>2
<1>10. room # Matrix!NoSince /\ room \in Nat
  BY DEF Matrix!NoSince, Matrix!SyncAssumption, SyncInv
<1>11. Shown(c, own, now)
  <2> SUFFICES ASSUME NEW e \in (c.first + 1)..room
               PROVE  Within(e, own) \/ Within(e, batch) \/ e \in now
    BY <1>9 DEF Shown
  <2>1. CASE e > from
    <3>1. e \in (from + 1)..room
      BY <2>1, <1>6, <1>10
    <3> QED
      BY <3>1, <1>7
  <2>2. CASE ~(e > from) /\ old.since # Matrix!NoSince
    <3>1. c.first = old.first /\ e \in Int /\ e <= from /\ old.first + 1 <= e
      BY <2>2, <1>5, <1>6, <1>9, <1>10
    <3>2. CASE e > old.since
      BY <3>1, <3>2, <2>2, <1>5, <1>6, <1>8
    <3>3. CASE ~(e > old.since)
      <4>1. e \in (old.first + 1)..old.since
        BY <3>1, <3>3, <1>5
      <4>2. Shown(old, own, gone) /\ old.batch = <<>>
        BY <2>2, <1>5 DEF Synced
      <4>3. ~Within(e, old.batch)
        BY <4>2 DEF Within
      <4> QED
        BY <4>1, <4>2, <4>3, <2>2, <1>8 DEF Shown
    <3> QED
      BY <3>2, <3>3
  <2>3. CASE old.since = Matrix!NoSince
    <3>1. c.first = from
      BY <2>3, <1>5, <1>9
    <3> QED
      BY <3>1, <1>7
  <2> QED
    BY <2>1, <2>2, <2>3
<1>12. \A i \in DOMAIN own : own[i] \in Nat /\ own[i] <= from
  <2>1. \A i \in DOMAIN own : own[i] \in Nat
    BY ElementOfSeq, LenProperties
  <2>2. CASE old.since = Matrix!NoSince
    <3>1. own = <<>>
      BY <2>2, <1>5 DEF Synced
    <3> QED
      BY <3>1
  <2>3. CASE old.since # Matrix!NoSince
    <3>1. \A i \in DOMAIN own : own[i] <= old.since
      BY <2>3, <1>5 DEF Synced
    <3> QED
      BY <2>1, <2>3, <3>1, <1>5, <1>6
  <2> QED
    BY <2>2, <2>3
<1>13. Synced(c, own, now, room)
  <2>1. CASE batch = <<>>
    <3>1. \A i \in DOMAIN own : own[i] <= room
      BY <1>6, <1>10, <1>12
    <3> QED
      BY <2>1, <3>1, <1>5, <1>9, <1>10, <1>11 DEF Synced
  <2>2. CASE batch # <<>>
    <3>1. batch[1] = from + 1
      BY <2>2, <1>7
    <3>2. ASSUME NEW i \in DOMAIN batch PROVE batch[i] = batch[1] + i - 1 /\ batch[i] <= room
      <4>1. i \in Nat /\ batch[i] = from + i /\ from + i <= room
        BY <1>7
      <4> QED
        BY <3>1, <4>1, <1>6
    <3>3. \A i \in DOMAIN own : own[i] < batch[1]
      BY <3>1, <1>6, <1>12
    <3>4. c.pc = "batch" /\ c.batch = batch /\ c.since = room
      BY <2>2, <1>9
    <3> QED
      BY <2>2, <3>2, <3>3, <3>4, <1>5, <1>10, <1>11 DEF Synced
  <2> QED
    BY <2>1, <2>2
<1>14. synced' = [synced EXCEPT ![g] = own]
  BY <1>1, <1>5 DEF SyncInv
<1>15. syncing[g].pc # "out"
  BY <1>1, <1>5
<1> QED
  BY <1>5, <1>8, <1>9, <1>13, <1>14, <1>15, SyncerMoves

LEMMA SyncHandled ==
    ASSUME SyncInv, NEW g \in Matrix!Gens, Matrix!Handle(g)
    PROVE  SyncInv'
<1>1. PICK old \in Syncer, own \in Seq(Nat), gone \in SUBSET Nat :
          old = syncing[g] /\ own = synced[g] /\ gone = skipped[g]
  BY DEF SyncInv
<1>2. PICK k, rest, longer :
          k = Head(old.batch) /\ rest = Tail(old.batch) /\ longer = Append(own, k)
  OBVIOUS
<1>3. /\ old.pc = "batch" /\ synced' = [synced EXCEPT ![g] = longer]
      /\ syncing' = [syncing EXCEPT ![g].batch = rest, ![g].pc = IF rest = <<>> THEN "loop" ELSE "batch"]
      /\ UNCHANGED <<room, skipped, syncGen>>
  BY <1>1, <1>2 DEF Matrix!Handle, Matrix!At, SyncInv
<1>4. /\ Synced(old, own, gone, room) /\ old.batch \in Seq(Nat) /\ old.since \in Nat
      /\ room \in Nat
  BY <1>1 DEF SyncInv, Syncer
<1>5. /\ old.batch # <<>> /\ Ordered(own) /\ Shown(old, own, gone)
      /\ old.since # Matrix!NoSince /\ old.since <= room
      /\ \A i \in DOMAIN old.batch : old.batch[i] = old.batch[1] + i - 1 /\ old.batch[i] <= old.since
      /\ \A i \in DOMAIN own : own[i] < old.batch[1]
  BY <1>3, <1>4 DEF Synced
<1>6. /\ k = old.batch[1] /\ k \in Nat /\ rest \in Seq(Nat) /\ k <= old.since
      /\ \A i \in DOMAIN rest : i \in Nat /\ rest[i] = k + i /\ k + i <= old.since
      /\ rest # <<>> => 1 \in DOMAIN rest
  BY <1>2, <1>4, <1>5, BatchTail
<1>7. /\ longer \in Seq(Nat) /\ Ordered(longer) /\ \A i \in DOMAIN longer : longer[i] \in Nat /\ longer[i] <= k
      /\ Within(k, longer) /\ \A e : Within(e, own) => Within(e, longer)
  <2>1. Ordered(longer) /\ \A i \in DOMAIN longer : longer[i] <= k
    BY <1>2, <1>5, <1>6, AppendLast
  <2>2. /\ longer \in Seq(Nat) /\ Len(own) + 1 \in DOMAIN longer
        /\ \A i \in DOMAIN own : i \in DOMAIN longer /\ longer[i] = own[i]
    BY <1>2, <1>6, AppendNat
  <2>3. longer[Len(own) + 1] = k
    BY <1>2, <1>6
  <2>4. \A i \in DOMAIN longer : longer[i] \in Nat
    BY <2>2, ElementOfSeq, LenProperties
  <2> QED
    BY <2>1, <2>2, <2>3, <2>4 DEF Within
<1>8. PICK c \in Syncer : /\ c.batch = rest /\ c.since = old.since /\ c.first = old.first
                          /\ c.pc = IF rest = <<>> THEN "loop" ELSE "batch"
                          /\ syncing' = [syncing EXCEPT ![g] = c]
  <2> DEFINE c == [old EXCEPT !.batch = rest, !.pc = IF rest = <<>> THEN "loop" ELSE "batch"]
  <2>1. /\ c \in Syncer /\ c.batch = rest /\ c.since = old.since /\ c.first = old.first
        /\ c.pc = IF rest = <<>> THEN "loop" ELSE "batch"
    BY <1>6 DEF Syncer
  <2>2. syncing' = [syncing EXCEPT ![g] = c]
    BY <1>1, <1>3 DEF SyncInv
  <2> HIDE DEF c
  <2> QED
    BY <2>1, <2>2
<1>9. \A e : Within(e, old.batch) => e = k \/ Within(e, rest)
  <2> SUFFICES ASSUME NEW i \in DOMAIN old.batch, i # 1 PROVE Within(old.batch[i], rest)
    BY <1>6 DEF Within
  <2>1. Len(old.batch) \in Nat /\ DOMAIN old.batch = 1..Len(old.batch)
    BY <1>4, LenProperties
  <2>2. Len(rest) = Len(old.batch) - 1 /\ DOMAIN rest = 1..Len(rest)
    BY <1>2, <1>4, <1>5, <1>6, HeadTailProperties, LenProperties
  <2>3. i - 1 \in DOMAIN rest
    BY <2>1, <2>2
  <2>4. rest[i - 1] = k + (i - 1) /\ old.batch[i] = k + i - 1 /\ i \in Nat
    BY <2>1, <2>3, <1>5, <1>6
  <2> QED
    BY <2>3, <2>4, <1>6 DEF Within
<1>10. Shown(c, longer, gone)
  <2> SUFFICES ASSUME NEW e \in (old.first + 1)..old.since
               PROVE  Within(e, longer) \/ Within(e, rest) \/ e \in gone
    BY <1>8 DEF Shown
  <2>1. Within(e, own) \/ Within(e, old.batch) \/ e \in gone
    BY <1>5 DEF Shown
  <2> QED
    BY <2>1, <1>7, <1>9
<1>11. Synced(c, longer, gone, room)
  <2>1. CASE rest = <<>>
    <3>1. ASSUME NEW i \in DOMAIN longer PROVE longer[i] <= old.since
      <4>1. /\ longer[i] \in Nat /\ longer[i] <= k /\ k \in Nat /\ k <= old.since
            /\ old.since \in Nat
        BY <1>4, <1>6, <1>7
      <4> QED
        BY <4>1
    <3> QED
      BY <2>1, <3>1, <1>5, <1>7, <1>8, <1>10 DEF Synced
  <2>2. CASE rest # <<>>
    <3>1. rest[1] = k + 1
      BY <2>2, <1>6
    <3>2. ASSUME NEW i \in DOMAIN rest PROVE rest[i] = rest[1] + i - 1 /\ rest[i] <= old.since
      <4>1. i \in Nat /\ rest[i] = k + i /\ k + i <= old.since /\ k \in Nat
        BY <1>6
      <4> QED
        BY <3>1, <4>1
    <3>3. ASSUME NEW i \in DOMAIN longer PROVE longer[i] < rest[1]
      <4>1. longer[i] \in Nat /\ longer[i] <= k /\ k \in Nat
        BY <1>6, <1>7
      <4> QED
        BY <3>1, <4>1
    <3>4. c.pc = "batch"
      BY <2>2, <1>8
    <3> QED
      BY <2>2, <3>2, <3>3, <3>4, <1>5, <1>7, <1>8, <1>10 DEF Synced
  <2> QED
    BY <2>1, <2>2
<1>12. /\ skipped' = [skipped EXCEPT ![g] = gone] /\ room' = room /\ syncGen' = syncGen
       /\ syncing[g].pc # "out"
  BY <1>1, <1>3 DEF SyncInv
<1> QED
  BY <1>3, <1>7, <1>8, <1>11, <1>12, SyncerMoves

LEMMA SyncAsked ==
    ASSUME Matrix!SyncAssumption, SyncInv, NEW g \in Matrix!Gens,
           \/ Matrix!Identify(g) \/ Matrix!GivesUp(g)
           \/ Matrix!Leave(g) \/ Matrix!Ask(g) \/ Matrix!AskFails(g)
    PROVE  SyncInv'
<1>1. /\ syncing[g].pc \in {"greeting", "loop", "asked"} /\ UNCHANGED <<room, synced, skipped, syncGen>>
      /\ \/ syncing' = [syncing EXCEPT ![g] = Matrix!Out]
         \/ syncing' = [syncing EXCEPT ![g] = [syncing[g] EXCEPT !.pc = "asked"]]
         \/ syncing' = [syncing EXCEPT ![g] = [syncing[g] EXCEPT !.pc = "loop"]]
  <2>1. CASE Matrix!Leave(g)
    BY <2>1 DEF Matrix!Leave, Matrix!At
  <2>2. CASE Matrix!Ask(g)
    BY <2>2 DEF Matrix!Ask, Matrix!At, SyncInv
  <2>3. CASE Matrix!AskFails(g)
    BY <2>3 DEF Matrix!AskFails, Matrix!At, SyncInv
  <2>4. CASE Matrix!Identify(g) \/ Matrix!GivesUp(g)
    BY <2>4 DEF Matrix!Identify, Matrix!GivesUp, Matrix!At, SyncInv
  <2> QED
    BY <2>1, <2>2, <2>3, <2>4
<1>2. PICK old \in Syncer, own \in Seq(Nat), gone \in SUBSET Nat :
          old = syncing[g] /\ own = synced[g] /\ gone = skipped[g]
  BY DEF SyncInv
<1>3. Synced(old, own, gone, room) /\ old.pc \in {"greeting", "loop", "asked"}
  BY <1>1, <1>2 DEF SyncInv
<1>4. PICK c \in Syncer : syncing' = [syncing EXCEPT ![g] = c] /\ Synced(c, own, gone, room)
  <2>1. CASE syncing' = [syncing EXCEPT ![g] = Matrix!Out]
    <3>1. Matrix!Out.pc = "out" /\ Matrix!Out.since = Matrix!NoSince
      BY DEF Matrix!Out
    <3>2. Synced(Matrix!Out, own, gone, room)
      BY <3>1, <1>3 DEF Synced
    <3> QED
      BY <2>1, <3>2, SyncOut
  <2>2. CASE syncing' = [syncing EXCEPT ![g] = [syncing[g] EXCEPT !.pc = "asked"]]
    <3>1. PICK c : c = [old EXCEPT !.pc = "asked"]
      OBVIOUS
    <3>2. /\ c \in Syncer /\ c.pc = "asked" /\ c.since = old.since
          /\ c.first = old.first /\ c.batch = old.batch
      BY <3>1 DEF Syncer
    <3>3. Synced(c, own, gone, room)
      BY <3>2, <1>3 DEF Synced, Shown
    <3> QED
      BY <2>2, <3>1, <3>2, <3>3, <1>2
  <2>3. CASE syncing' = [syncing EXCEPT ![g] = [syncing[g] EXCEPT !.pc = "loop"]]
    <3>1. PICK c : c = [old EXCEPT !.pc = "loop"]
      OBVIOUS
    <3>2. /\ c \in Syncer /\ c.pc = "loop" /\ c.since = old.since
          /\ c.first = old.first /\ c.batch = old.batch
      BY <3>1 DEF Syncer
    <3>3. Synced(c, own, gone, room)
      BY <3>2, <1>3 DEF Synced, Shown
    <3> QED
      BY <2>3, <3>1, <3>2, <3>3, <1>2
  <2> QED
    BY <1>1, <2>1, <2>2, <2>3
<1>5. synced' = [synced EXCEPT ![g] = own] /\ skipped' = [skipped EXCEPT ![g] = gone]
  BY <1>1, <1>2 DEF SyncInv
<1>6. room' = room /\ syncGen' = syncGen /\ syncing[g].pc # "out"
  BY <1>1
<1> QED
  BY <1>4, <1>5, <1>6, SyncerMoves

LEMMA SyncStep ==
    ASSUME Matrix!SyncAssumption
    PROVE  SyncInv /\ [Matrix!Next]_(Matrix!vars) => SyncInv'
<1> SUFFICES ASSUME SyncInv, [Matrix!Next]_(Matrix!vars) PROVE SyncInv'
  OBVIOUS
<1>1. CASE Matrix!Happen
  <2>1. /\ room' = room + 1 /\ room < MaxEvents /\ room \in Nat /\ MaxEvents \in Nat
        /\ UNCHANGED <<syncing, synced, skipped, syncGen>>
    BY <1>1 DEF Matrix!Happen, Matrix!SyncAssumption, SyncInv
  <2>2. ASSUME NEW g \in Matrix!Gens PROVE Synced(syncing[g], synced[g], skipped[g], room')
    <3>1. syncing[g].since \in Nat /\ Synced(syncing[g], synced[g], skipped[g], room)
      BY DEF SyncInv, Syncer
    <3>2. syncing[g].since <= room => syncing[g].since <= room'
      BY <2>1, <3>1
    <3> QED
      BY <3>1, <3>2 DEF Synced
  <2> QED
    BY <2>1, <2>2 DEF SyncInv
<1>2. CASE Matrix!Stop \/ UNCHANGED Matrix!vars
  BY <1>2 DEF Matrix!Stop, Matrix!vars, SyncInv
<1>3. CASE Matrix!Start
  <2>1. PICK fresh : fresh = syncGen + 1
    OBVIOUS
  <2>2. /\ syncGen' = fresh /\ syncing' = [syncing EXCEPT ![fresh] = Matrix!Started]
        /\ UNCHANGED <<room, synced, skipped>> /\ syncGen \in Nat /\ fresh \in Matrix!Gens
    BY <1>3, <2>1 DEF Matrix!Start, Matrix!Gens, Matrix!SyncAssumption, SyncInv
  <2>3. fresh > syncGen /\ synced[fresh] = <<>>
    BY <2>1, <2>2 DEF SyncInv
  <2>4. Synced(Matrix!Started, synced[fresh], skipped[fresh], room)
    <3>1. Matrix!Started.pc = "greeting" /\ Matrix!Started.since = Matrix!NoSince
      BY DEF Matrix!Started, Matrix!Out
    <3>2. Ordered(synced[fresh])
      BY <2>2 DEF SyncInv, Synced
    <3> QED
      BY <2>3, <3>1, <3>2 DEF Synced
  <2>5. Matrix!Started \in Syncer
    BY SyncOut
  <2>6. \A g \in Matrix!Gens : g > fresh => g > syncGen /\ g # fresh
    BY <2>1, <2>2 DEF Matrix!Gens
  <2> QED
    BY <2>1, <2>2, <2>4, <2>5, <2>6 DEF SyncInv
<1>4. CASE Matrix!Crash
  <2>1. /\ syncing' = [g \in Matrix!Gens |-> Matrix!Out]
        /\ UNCHANGED <<room, synced, skipped, syncGen>>
    BY <1>4 DEF Matrix!Crash
  <2>2. Matrix!Out.pc = "out" /\ Matrix!Out.since = Matrix!NoSince
    BY DEF Matrix!Out
  <2>3. \A g \in Matrix!Gens : Synced(Matrix!Out, synced[g], skipped[g], room)
    BY <2>2 DEF Synced, SyncInv
  <2> QED
    BY <2>1, <2>2, <2>3, SyncOut DEF SyncInv
<1>5. ASSUME NEW g \in Matrix!Gens, Matrix!ClientStep(g) \/ Matrix!GivesUp(g) \/ Matrix!AskFails(g) PROVE SyncInv'
  BY <1>5, SyncAsked, SyncAnswered, SyncHandled DEF Matrix!ClientStep
<1> QED
  BY <1>1, <1>2, <1>3, <1>4, <1>5 DEF Matrix!Next

LEMMA MatrixBegins == ASSUME Matrix!SyncAssumption PROVE Matrix!Init => SyncInv
<1> SUFFICES ASSUME Matrix!Init PROVE SyncInv
  OBVIOUS
<1>1. Matrix!Out \in Syncer /\ Matrix!Out.pc = "out" /\ Matrix!Out.since = Matrix!NoSince
  BY SyncOut DEF Matrix!Out
<1>2. Ordered(<<>>) /\ <<>> \in Seq(Nat)
  BY EmptySeq DEF Ordered
<1> QED
  BY <1>1, <1>2 DEF Matrix!Init, Matrix!SyncAssumption, SyncInv, Synced

LEMMA MatrixEvents == ASSUME Matrix!SyncAssumption PROVE Matrix!Spec => []Matrix!CursorHonest
<1>1. SyncInv => Matrix!CursorHonest
  <2> SUFFICES ASSUME SyncInv PROVE Matrix!NotAhead /\ Matrix!OncePerClient
    BY DEF Matrix!CursorHonest
  <2>1. Matrix!NotAhead
    BY DEF SyncInv, Synced, Shown, Within, Matrix!NotAhead, Matrix!Initial,
           Matrix!HandledBy, Matrix!Waiting
  <2>2. Matrix!OncePerClient
    BY DEF SyncInv, Synced, Ordered, Matrix!OncePerClient
  <2> QED
    BY <2>1, <2>2
<1> QED
  BY <1>1, MatrixBegins, SyncStep, PTL DEF Matrix!Spec

(* The answer in hand is no longer than the server gives, and ends at the    *)
(* cursor.                                                                   *)
Ends(c) ==
    /\ Len(c.batch) <= PageSize
    /\ c.batch # <<>> => c.batch[Len(c.batch)] = c.since

MatrixTyped == SyncInv /\ \A g \in Matrix!Gens : Ends(syncing[g])

LEMMA OutEnds == Matrix!SyncAssumption => Ends(Matrix!Out) /\ Ends(Matrix!Started)
<1> SUFFICES ASSUME Matrix!SyncAssumption PROVE Ends(Matrix!Out) /\ Ends(Matrix!Started)
  OBVIOUS
<1>1. Matrix!Out.batch = <<>> /\ Matrix!Started.batch = <<>>
  BY DEF Matrix!Out, Matrix!Started
<1>2. Len(<<>>) = 0 /\ 0 <= PageSize
  BY EmptySeq DEF Matrix!SyncAssumption
<1> QED
  BY <1>1, <1>2 DEF Ends

LEMMA EndsMoves ==
    ASSUME MatrixTyped, SyncInv', NEW g \in Matrix!Gens, NEW c, Ends(c),
           syncing' = [syncing EXCEPT ![g] = c]
    PROVE  MatrixTyped'
<1>1. syncing'[g] = c /\ \A h \in Matrix!Gens : h # g => syncing'[h] = syncing[h]
  BY DEF MatrixTyped, SyncInv
<1> QED
  BY <1>1 DEF MatrixTyped

LEMMA AnswerEnds ==
    ASSUME Matrix!SyncAssumption, SyncInv, NEW g \in Matrix!Gens, NEW s, s = Matrix!Answer(g)
    PROVE  s \in Seq(Nat) /\ Len(s) <= PageSize /\ (s # <<>> => s[Len(s)] = room)
<1>1. PICK old \in Syncer : old = syncing[g]
  BY DEF SyncInv
<1>2. PICK from : from = Matrix!From(g)
  OBVIOUS
<1>3. room \in Nat /\ PageSize \in Nat \ {0} /\ old.since \in Nat
  BY <1>1 DEF SyncInv, Matrix!SyncAssumption, Syncer
<1>4. PICK latest : latest = Matrix!Latest
  OBVIOUS
<1>5. latest \in Nat /\ latest <= room /\ room - latest <= PageSize
  BY <1>3, <1>4 DEF Matrix!Latest
<1>6. from \in Nat /\ latest <= from /\ from <= room
  <2>1. old.since # Matrix!NoSince => old.since <= room
    BY <1>1 DEF SyncInv, Synced
  <2> QED
    BY <1>1, <1>2, <1>3, <1>4, <1>5, <2>1 DEF Matrix!From, Matrix!Initial
<1>7. PICK n \in Nat : n = room - from /\ n <= PageSize /\ from + n = room
  <2>1. room - from \in Nat /\ room - from <= PageSize /\ from + (room - from) = room
    BY <1>3, <1>5, <1>6
  <2> QED
    BY <2>1
<1>8. s = [i \in 1..n |-> from + i]
  BY <1>2, <1>7 DEF Matrix!Answer
<1>9. s \in Seq(Nat) /\ Len(s) = n /\ DOMAIN s = 1..n
  BY <1>6, <1>8
<1>10. s # <<>> => n \in 1..n
  BY <1>7, <1>9, EmptySeq
<1>11. s # <<>> => s[n] = room
  BY <1>7, <1>8, <1>10
<1> QED
  BY <1>7, <1>9, <1>11

LEMMA ClientEnds ==
    ASSUME Matrix!SyncAssumption, MatrixTyped, SyncInv', NEW g \in Matrix!Gens,
           Matrix!ClientStep(g) \/ Matrix!GivesUp(g) \/ Matrix!AskFails(g)
    PROVE  MatrixTyped'
<1>1. PICK old \in Syncer : old = syncing[g]
  BY DEF MatrixTyped, SyncInv
<1>2. Ends(old) /\ syncing \in [Matrix!Gens -> Syncer] /\ old.batch \in Seq(Nat)
  BY <1>1 DEF MatrixTyped, SyncInv, Syncer
<1>3. CASE Matrix!Leave(g) \/ Matrix!GivesUp(g)
  BY <1>3, OutEnds, EndsMoves DEF Matrix!Leave, Matrix!GivesUp
<1>4. CASE Matrix!Ask(g)
  <2>1. PICK c : c = [old EXCEPT !.pc = "asked"]
    OBVIOUS
  <2>2. c.since = old.since /\ c.batch = old.batch
    BY <2>1 DEF Syncer
  <2>3. syncing' = [syncing EXCEPT ![g] = c]
    BY <1>1, <1>2, <1>4, <2>1 DEF Matrix!Ask
  <2>4. Ends(c)
    BY <1>2, <2>2 DEF Ends
  <2> QED
    BY <2>3, <2>4, EndsMoves
<1>5. CASE Matrix!AskFails(g) \/ Matrix!Identify(g)
  <2>1. PICK c : c = [old EXCEPT !.pc = "loop"]
    OBVIOUS
  <2>2. c.since = old.since /\ c.batch = old.batch
    BY <2>1 DEF Syncer
  <2>3. syncing' = [syncing EXCEPT ![g] = c]
    BY <1>1, <1>2, <1>5, <2>1 DEF Matrix!AskFails, Matrix!Identify
  <2>4. Ends(c)
    BY <1>2, <2>2 DEF Ends
  <2> QED
    BY <2>3, <2>4, EndsMoves
<1>6. CASE Matrix!Answered(g)
  <2>1. PICK s : s = Matrix!Answer(g)
    OBVIOUS
  <2>2. PICK c : c = [old EXCEPT !.since = room, !.batch = s,
                                 !.first = IF Matrix!Initial(g) THEN Matrix!From(g) ELSE @,
                                 !.pc = IF s = <<>> THEN "loop" ELSE "batch"]
    OBVIOUS
  <2>3. c.since = room /\ c.batch = s
    BY <2>2 DEF Syncer
  <2>4. syncing' = [syncing EXCEPT ![g] = c]
    BY <1>1, <1>2, <1>6, <2>1, <2>2 DEF Matrix!Answered, Matrix!NextSince
  <2>5. Len(s) <= PageSize /\ (s # <<>> => s[Len(s)] = room)
    BY <2>1, AnswerEnds DEF MatrixTyped
  <2>6. Ends(c)
    BY <2>3, <2>5 DEF Ends
  <2> QED
    BY <2>4, <2>6, EndsMoves
<1>7. CASE Matrix!Handle(g)
  <2>1. PICK s : s = Tail(old.batch)
    OBVIOUS
  <2>2. PICK c : c = [old EXCEPT !.batch = s, !.pc = IF s = <<>> THEN "loop" ELSE "batch"]
    OBVIOUS
  <2>3. c.since = old.since /\ c.batch = s
    BY <2>2 DEF Syncer
  <2>4. syncing' = [syncing EXCEPT ![g] = c] /\ old.pc = "batch"
    BY <1>1, <1>2, <1>7, <2>1, <2>2 DEF Matrix!Handle, Matrix!At
  <2>5. old.batch # <<>>
    BY <1>1, <2>4 DEF MatrixTyped, SyncInv, Synced
  <2>6. PICK b \in Seq(Nat) : b = old.batch
    BY <1>2
  <2>7. PICK n \in Nat : /\ n + 1 = Len(b) /\ s \in Seq(Nat) /\ Len(s) = n
                         /\ \A k \in 1..n : s[k] = b[k + 1]
    BY <2>1, <2>5, <2>6, TailAt
  <2>8. n + 1 <= PageSize /\ b[n + 1] = old.since
    BY <1>2, <2>5, <2>6, <2>7 DEF Ends
  <2>9. n <= PageSize
    BY <2>7, <2>8 DEF Matrix!SyncAssumption
  <2>10. s # <<>> => n \in 1..n
    BY <2>7, EmptySeq
  <2>11. s # <<>> => s[n] = old.since
    BY <2>7, <2>8, <2>10
  <2>12. Ends(c)
    BY <2>3, <2>7, <2>9, <2>11 DEF Ends
  <2> QED
    BY <2>4, <2>12, EndsMoves
<1> QED
  BY <1>3, <1>4, <1>5, <1>6, <1>7 DEF Matrix!ClientStep

LEMMA MatrixTypes == ASSUME Matrix!SyncAssumption PROVE Matrix!Spec => []MatrixTyped
<1>1. Matrix!Init => MatrixTyped
  BY MatrixBegins, OutEnds DEF MatrixTyped, Matrix!Init
<1>2. MatrixTyped /\ [Matrix!Next]_(Matrix!vars) => MatrixTyped'
  <2> SUFFICES ASSUME MatrixTyped, [Matrix!Next]_(Matrix!vars) PROVE MatrixTyped'
    OBVIOUS
  <2>1. SyncInv' /\ syncGen \in Nat
    BY SyncStep DEF MatrixTyped, SyncInv
  <2>2. CASE Matrix!Happen \/ Matrix!Stop \/ UNCHANGED Matrix!vars
    BY <2>1, <2>2 DEF Matrix!Happen, Matrix!Stop, Matrix!vars, MatrixTyped
  <2>3. CASE Matrix!Start
    <3>1. PICK fresh : fresh = syncGen + 1
      OBVIOUS
    <3>2. fresh \in Matrix!Gens
      BY <2>1, <2>3, <3>1 DEF Matrix!Start, Matrix!Gens, Matrix!SyncAssumption
    <3>3. syncing' = [syncing EXCEPT ![fresh] = Matrix!Started]
      BY <2>3, <3>1 DEF Matrix!Start
    <3> QED
      BY <2>1, <3>2, <3>3, OutEnds, EndsMoves
  <2>4. CASE Matrix!Crash
    BY <2>1, <2>4, OutEnds DEF Matrix!Crash, MatrixTyped
  <2>5. ASSUME NEW g \in Matrix!Gens, Matrix!ClientStep(g) \/ Matrix!GivesUp(g) \/ Matrix!AskFails(g) PROVE MatrixTyped'
    BY <2>1, <2>5, ClientEnds
  <2> QED
    BY <2>2, <2>3, <2>4, <2>5 DEF Matrix!Next
<1> QED
  BY <1>1, <1>2, PTL DEF Matrix!Spec

LEMMA MatrixShapes == MatrixTyped => Matrix!TypeInv
<1> SUFFICES ASSUME MatrixTyped PROVE Matrix!TypeInv
  OBVIOUS
<1>1. room \in 0..MaxEvents
  BY DEF MatrixTyped, SyncInv
<1>2. ASSUME NEW g \in Matrix!Gens PROVE syncing[g].since \in 0..room \cup {Matrix!NoSince}
  <2>1. PICK c \in Syncer : c = syncing[g]
    BY DEF MatrixTyped, SyncInv
  <2>2. c.since \in Nat /\ (c.since # Matrix!NoSince => c.since <= room) /\ room \in Nat
    BY <2>1 DEF MatrixTyped, SyncInv, Synced, Syncer
  <2> QED
    BY <2>1, <2>2
<1> QED
  BY <1>1, <1>2 DEF Matrix!TypeInv, MatrixTyped, Ends

----------------------------------------------------------------------------
(***************************************************************************)
(* The log ring.  Accounted adds up what a window has shown; here the sums *)
(* are a function, at[k] being the line the window stands at after k       *)
(* items: an item that is a line is the next one, a report moves the       *)
(* window on by what it reports.  A window that is open, the lines under   *)
(* way to it and the one in the task's hand make one chain from where it   *)
(* was opened to the task's cursor.                                        *)
(***************************************************************************)
Item == [kind : {"line", "dropped"}, n : Nat]

Weight(i) == IF i.kind = "line" THEN 1 ELSE i.n
Follows(i, a, b) == b = a + Weight(i) /\ (i.kind = "line" => i.n = b)

Chain(s, a, b) ==
    \E at \in [0..Len(s) -> Nat] :
        /\ at[0] = a /\ at[Len(s)] = b
        /\ \A k \in 1..Len(s) : Follows(s[k], at[k - 1], at[k])

LogReader == [on : BOOLEAN, open : BOOLEAN, joined : Nat, pos : Nat,
              hand : Seq(Item), pipe : Seq(Item), seen : Seq(Item)]

Told(d, top) ==
    /\ d.pos <= top /\ Len(d.hand) <= 1
    /\ \E b, c \in Nat :
          /\ Chain(d.seen, d.joined, b)
          /\ d.open => Chain(d.pipe, b, c) /\ Chain(d.hand, c, d.pos)

LogInv ==
    /\ written \in Nat
    /\ windows \in [Readers -> LogReader]
    /\ \A r \in Readers : Told(windows[r], written)

LEMMA NoChain == \A a \in Nat : Chain(<<>>, a, a)
<1> SUFFICES ASSUME NEW a \in Nat PROVE Chain(<<>>, a, a)
  OBVIOUS
<1>1. Len(<<>>) = 0
  BY EmptySeq
<1>2. PICK at \in [0..0 -> Nat] : at[0] = a
  <2>1. [k \in 0..0 |-> a] \in [0..0 -> Nat] /\ [k \in 0..0 |-> a][0] = a
    OBVIOUS
  <2> QED
    BY <2>1
<1>3. \A k \in 1..0 : Follows(<<>>[k], at[k - 1], at[k])
  OBVIOUS
<1> QED
  BY <1>1, <1>2, <1>3 DEF Chain

LEMMA EmptyChain ==
    ASSUME NEW a \in Nat, NEW b \in Nat, Chain(<<>>, a, b)
    PROVE  a = b
BY EmptySeq DEF Chain

LEMMA ChainLonger ==
    ASSUME NEW s \in Seq(Item), NEW i \in Item, NEW a \in Nat, NEW b \in Nat, NEW c \in Nat,
           Chain(s, a, b), Follows(i, b, c)
    PROVE  Chain(Append(s, i), a, c)
<1>1. PICK at \in [0..Len(s) -> Nat] : /\ at[0] = a /\ at[Len(s)] = b
                                       /\ \A k \in 1..Len(s) : Follows(s[k], at[k - 1], at[k])
  BY DEF Chain
<1>2. PICK n \in Nat : n = Len(s)
  BY LenProperties
<1>3. PICK t \in Seq(Item) : /\ t = Append(s, i) /\ Len(t) = n + 1 /\ t[n + 1] = i
                             /\ \A k \in 1..n : t[k] = s[k]
  BY <1>2, AppendProperties
<1>4. PICK at2 : at2 = [k \in 0..(n + 1) |-> IF k = n + 1 THEN c ELSE at[k]]
  OBVIOUS
<1>5. at2 \in [0..(n + 1) -> Nat]
  <2> SUFFICES ASSUME NEW k \in 0..(n + 1), k # n + 1 PROVE at[k] \in Nat
    BY <1>4
  <2>1. k \in 0..n
    BY <1>2
  <2> QED
    BY <2>1, <1>2
<1>6. /\ at2[0] = a /\ at2[n + 1] = c /\ at2[n] = b
  BY <1>1, <1>2, <1>4
<1>7. ASSUME NEW k \in 1..(n + 1) PROVE Follows(t[k], at2[k - 1], at2[k])
  <2>1. CASE k = n + 1
    BY <2>1, <1>2, <1>3, <1>6
  <2>2. CASE k # n + 1
    <3>1. k \in 1..n /\ k - 1 \in 0..(n + 1) /\ k \in 0..(n + 1) /\ k - 1 # n + 1
      BY <2>2, <1>2
    <3>2. at2[k] = at[k] /\ at2[k - 1] = at[k - 1] /\ t[k] = s[k]
      BY <3>1, <2>2, <1>3, <1>4
    <3> QED
      BY <3>1, <3>2, <1>1, <1>2
  <2> QED
    BY <2>1, <2>2
<1> QED
  BY <1>3, <1>5, <1>6, <1>7 DEF Chain

LEMMA ChainShorter ==
    ASSUME NEW s \in Seq(Item), s # <<>>, NEW a \in Nat, NEW c \in Nat, Chain(s, a, c)
    PROVE  \E b \in Nat : Follows(Head(s), a, b) /\ Chain(Tail(s), b, c)
<1>1. PICK at \in [0..Len(s) -> Nat] : /\ at[0] = a /\ at[Len(s)] = c
                                       /\ \A k \in 1..Len(s) : Follows(s[k], at[k - 1], at[k])
  BY DEF Chain
<1>2. PICK n \in Nat : n + 1 = Len(s)
  <2>1. Len(s) \in Nat /\ Len(s) # 0
    BY LenProperties, EmptySeq
  <2>2. Len(s) - 1 \in Nat /\ (Len(s) - 1) + 1 = Len(s)
    BY <2>1
  <2> QED
    BY <2>2
<1>3. PICK t \in Seq(Item) : t = Tail(s) /\ Len(t) = n /\ \A k \in 1..n : t[k] = s[k + 1]
  <2>1. Tail(s) \in Seq(Item) /\ Len(Tail(s)) = Len(s) - 1 /\ \A k \in 1..Len(Tail(s)) : Tail(s)[k] = s[k + 1]
    BY HeadTailProperties
  <2>2. n = (n + 1) - 1
    OBVIOUS
  <2>3. Len(Tail(s)) = n
    BY <2>1, <2>2, <1>2
  <2> QED
    BY <2>1, <2>3
<1>4. Head(s) = s[1]
  OBVIOUS
<1>5. PICK at2 : at2 = [k \in 0..n |-> at[k + 1]]
  OBVIOUS
<1>6. at2 \in [0..n -> Nat] /\ at2[0] = at[1] /\ at2[n] = c /\ at[1] \in Nat
  <2>1. \A k \in 0..n : k + 1 \in 0..Len(s)
    BY <1>2
  <2>2. \A k \in 0..n : at[k + 1] \in Nat
    BY <2>1
  <2>3. 0 \in 0..n /\ n \in 0..n /\ 0 + 1 = 1
    OBVIOUS
  <2> QED
    BY <2>2, <2>3, <1>1, <1>2, <1>5
<1>7. ASSUME NEW k \in 1..n PROVE Follows(t[k], at2[k - 1], at2[k])
  <2>1. k - 1 \in 0..n /\ k \in 0..n /\ k + 1 \in 1..Len(s) /\ (k - 1) + 1 = k /\ (k + 1) - 1 = k
    BY <1>2
  <2>2. at2[k - 1] = at[k] /\ at2[k] = at[k + 1] /\ t[k] = s[k + 1]
    BY <2>1, <1>3, <1>5
  <2>3. Follows(s[k + 1], at[(k + 1) - 1], at[k + 1])
    BY <2>1, <1>1
  <2> QED
    BY <2>1, <2>2, <2>3
<1>8. Follows(Head(s), a, at[1])
  <2>1. 1 \in 1..Len(s) /\ 1 - 1 = 0
    BY <1>2
  <2>2. Follows(s[1], at[1 - 1], at[1])
    BY <2>1, <1>1
  <2> QED
    BY <2>1, <2>2, <1>1, <1>4
<1>9. Chain(t, at[1], c)
  BY <1>3, <1>6, <1>7 DEF Chain
<1> QED
  BY <1>3, <1>6, <1>8, <1>9

LEMMA ReaderTold ==
    ASSUME LogInv, NEW r \in Readers, NEW d \in LogReader, windows' = [windows EXCEPT ![r] = d],
           written' = written, Told(d, written)
    PROVE  LogInv'
BY DEF LogInv

LEMMA RecvStep ==
    ASSUME Log!RingAssumption, LogInv, NEW r \in Readers, Log!Recv(r)
    PROVE  LogInv'
<1>1. PICK old \in LogReader : old = windows[r]
  BY DEF LogInv
<1>2. /\ old.hand = <<>> /\ old.pos < written /\ written' = written
      /\ windows' = [windows EXCEPT ![r] = IF written - old.pos > Capacity THEN Log!Lag(r) ELSE Log!NextLine(r)]
  BY <1>1 DEF Log!Recv
<1>3. old.pos \in Nat /\ written \in Nat /\ Capacity \in Nat /\ Told(old, written)
  BY <1>1 DEF LogInv, LogReader, Log!RingAssumption
<1>4. PICK to \in Nat, item \in Item :
          /\ Follows(item, old.pos, to) /\ to <= written
          /\ windows' = [windows EXCEPT ![r] = [old EXCEPT !.pos = to, !.hand = <<item>>]]
  <2>1. CASE written - old.pos > Capacity
    <3>1. PICK lost \in Nat, to \in Nat :
              lost = written - Capacity - old.pos /\ to = written - Capacity
      BY <2>1, <1>3
    <3>2. Log!Dropped(lost) \in Item /\ Follows(Log!Dropped(lost), old.pos, to)
      BY <3>1, <1>3 DEF Log!Dropped, Item, Follows, Weight
    <3>3. windows' = [windows EXCEPT ![r] = [old EXCEPT !.pos = to, !.hand = <<Log!Dropped(lost)>>]]
      BY <2>1, <3>1, <1>1, <1>2 DEF Log!Lag
    <3>4. to <= written
      BY <3>1, <1>3
    <3> QED
      BY <3>2, <3>3, <3>4
  <2>2. CASE ~(written - old.pos > Capacity)
    <3>1. PICK to \in Nat : to = old.pos + 1
      BY <1>3
    <3>2. Log!Line(to) \in Item /\ Follows(Log!Line(to), old.pos, to)
      BY <3>1 DEF Log!Line, Item, Follows, Weight
    <3>3. windows' = [windows EXCEPT ![r] = [old EXCEPT !.pos = to, !.hand = <<Log!Line(to)>>]]
      BY <2>2, <3>1, <1>1, <1>2 DEF Log!NextLine
    <3>4. to <= written
      BY <3>1, <1>2, <1>3
    <3> QED
      BY <3>2, <3>3, <3>4
  <2> QED
    BY <2>1, <2>2
<1>5. PICK d : d = [old EXCEPT !.pos = to, !.hand = <<item>>]
  OBVIOUS
<1>6. /\ <<item>> \in Seq(Item) /\ Len(<<item>>) = 1 /\ <<item>> = Append(<<>>, item) /\ <<>> \in Seq(Item)
  OBVIOUS
<1>7. /\ d \in LogReader /\ d.pos = to /\ d.hand = <<item>> /\ d.pipe = old.pipe /\ d.seen = old.seen
      /\ d.joined = old.joined /\ d.open = old.open
  BY <1>5, <1>6 DEF LogReader
<1>8. Told(d, written)
  <2>1. PICK b \in Nat, c \in Nat :
            /\ Chain(old.seen, old.joined, b)
            /\ old.open => Chain(old.pipe, b, c) /\ Chain(old.hand, c, old.pos)
    BY <1>3 DEF Told
  <2>2. ASSUME old.open PROVE Chain(<<item>>, c, to)
    <3>1. Chain(<<>>, c, old.pos) /\ c = old.pos
      BY <2>1, <2>2, <1>2, <1>3, EmptyChain
    <3> QED
      BY <3>1, <1>3, <1>4, <1>6, ChainLonger
  <2> QED
    BY <2>1, <2>2, <1>4, <1>6, <1>7 DEF Told
<1> QED
  BY <1>2, <1>4, <1>5, <1>7, <1>8, ReaderTold

LEMMA PassStep ==
    ASSUME LogInv, NEW r \in Readers, Log!Pass(r)
    PROVE  LogInv'
<1>1. PICK old \in LogReader : old = windows[r]
  BY DEF LogInv
<1>2. PICK item, pipe : item = old.hand[1] /\ pipe = Append(old.pipe, item)
  OBVIOUS
<1>3. old.hand \in Seq(Item) /\ old.pipe \in Seq(Item) /\ old.pos \in Nat /\ Told(old, written)
  BY <1>1 DEF LogInv, LogReader
<1>4. old.open /\ old.hand # <<>> /\ written' = written
  BY <1>1 DEF Log!Pass
<1>5. old.hand = <<item>> /\ item \in Item
  <2>1. PICK n \in Nat : n = Len(old.hand)
    BY <1>3, LenProperties
  <2>2. n # 0 /\ n <= 1
    BY <2>1, <1>3, <1>4, EmptySeq DEF Told
  <2>3. n = 1
    BY <2>2
  <2>4. Len(old.hand) = 1
    BY <2>1, <2>3
  <2> QED
    BY <2>4, <1>2, <1>3
<1>6. pipe = old.pipe \o old.hand /\ pipe \in Seq(Item)
  BY <1>2, <1>3, <1>5
<1>7. PICK d : d = [old EXCEPT !.hand = <<>>, !.pipe = pipe]
  OBVIOUS
<1>8. windows' = [windows EXCEPT ![r] = d]
  BY <1>1, <1>6, <1>7 DEF Log!Pass, LogInv
<1>9. /\ d \in LogReader /\ d.pos = old.pos /\ d.hand = <<>> /\ d.pipe = pipe /\ d.seen = old.seen
      /\ d.joined = old.joined /\ d.open = old.open
  BY <1>6, <1>7, EmptySeq DEF LogReader
<1>10. Told(d, written)
  <2>1. PICK b \in Nat, c \in Nat :
            /\ Chain(old.seen, old.joined, b) /\ Chain(old.pipe, b, c) /\ Chain(old.hand, c, old.pos)
    BY <1>3, <1>4 DEF Told
  <2>2. PICK e \in Nat : Follows(item, c, e) /\ Chain(Tail(old.hand), e, old.pos)
    <3>1. Head(old.hand) = item
      BY <1>5
    <3> QED
      BY <3>1, <2>1, <1>3, <1>4, ChainShorter
  <2>3. Tail(old.hand) = <<>>
    BY <1>5
  <2>4. e = old.pos
    BY <2>2, <2>3, <1>3, EmptyChain
  <2>5. Chain(pipe, b, old.pos)
    BY <2>1, <2>2, <2>4, <1>2, <1>3, <1>5, ChainLonger
  <2>6. Chain(<<>>, old.pos, old.pos) /\ Len(<<>>) <= 1
    BY <1>3, NoChain, EmptySeq
  <2>7. d.pos <= written
    BY <1>3, <1>9 DEF Told
  <2> QED
    BY <2>1, <2>5, <2>6, <2>7, <1>3, <1>9 DEF Told
<1> QED
  BY <1>4, <1>8, <1>9, <1>10, ReaderTold

LEMMA ShowStep ==
    ASSUME LogInv, NEW r \in Readers, Log!Show(r)
    PROVE  LogInv'
<1>1. PICK old \in LogReader : old = windows[r]
  BY DEF LogInv
<1>2. PICK item, rest, told : /\ item = Head(old.pipe) /\ rest = Tail(old.pipe)
                              /\ told = Append(old.seen, item)
  OBVIOUS
<1>3. /\ old.pipe \in Seq(Item) /\ old.seen \in Seq(Item) /\ old.joined \in Nat
      /\ Told(old, written)
  BY <1>1 DEF LogInv, LogReader
<1>4. old.open /\ old.pipe # <<>> /\ written' = written
  BY <1>1 DEF Log!Show
<1>5. item \in Item /\ rest \in Seq(Item) /\ told \in Seq(Item)
  BY <1>2, <1>3, <1>4
<1>6. PICK d : d = [old EXCEPT !.pipe = rest, !.seen = told]
  OBVIOUS
<1>7. windows' = [windows EXCEPT ![r] = d]
  BY <1>1, <1>2, <1>6 DEF Log!Show, LogInv
<1>8. /\ d \in LogReader /\ d.pos = old.pos /\ d.hand = old.hand /\ d.pipe = rest /\ d.seen = told
      /\ d.joined = old.joined /\ d.open = old.open
  BY <1>5, <1>6 DEF LogReader
<1>9. Told(d, written)
  <2>1. PICK b \in Nat, c \in Nat :
            /\ Chain(old.seen, old.joined, b) /\ Chain(old.pipe, b, c) /\ Chain(old.hand, c, old.pos)
    BY <1>3, <1>4 DEF Told
  <2>2. PICK e \in Nat : Follows(item, b, e) /\ Chain(rest, e, c)
    BY <2>1, <1>2, <1>3, <1>4, ChainShorter
  <2>3. Chain(told, old.joined, e)
    BY <2>1, <2>2, <1>2, <1>3, <1>5, ChainLonger
  <2> QED
    BY <2>1, <2>2, <2>3, <1>3, <1>8 DEF Told
<1> QED
  BY <1>4, <1>7, <1>8, <1>9, ReaderTold

LEMMA EndStep ==
    ASSUME LogInv, NEW r \in Readers, Log!Close(r) \/ Log!PassFails(r) \/ Log!Subscribe(r)
    PROVE  LogInv'
<1>1. PICK old \in LogReader : old = windows[r]
  BY DEF LogInv
<1>2. /\ old.pos \in Nat /\ written \in Nat /\ old.hand \in Seq(Item) /\ Told(old, written)
      /\ <<>> \in Seq(Item) /\ Len(<<>>) = 0 /\ 0 <= 1
  BY <1>1, EmptySeq DEF LogInv, LogReader
<1>3. CASE Log!Close(r)
  <2>1. PICK d : d = [old EXCEPT !.open = FALSE, !.pipe = <<>>]
    OBVIOUS
  <2>2. windows' = [windows EXCEPT ![r] = d] /\ written' = written
    BY <2>1, <1>1, <1>3 DEF Log!Close, LogInv
  <2>3. /\ d \in LogReader /\ ~d.open /\ d.pos = old.pos /\ d.hand = old.hand /\ d.seen = old.seen
        /\ d.joined = old.joined
    BY <2>1, <1>2 DEF LogReader
  <2>4. Told(d, written)
    BY <2>3, <1>2 DEF Told
  <2> QED
    BY <2>2, <2>3, <2>4, ReaderTold
<1>4. CASE Log!PassFails(r)
  <2>1. PICK d : d = [old EXCEPT !.hand = <<>>, !.on = (old.hand[1].kind = "dropped")]
    OBVIOUS
  <2>2. windows' = [windows EXCEPT ![r] = d] /\ written' = written /\ ~old.open
    BY <2>1, <1>1, <1>4 DEF Log!PassFails, LogInv
  <2>3. /\ d \in LogReader /\ d.open = old.open /\ d.pos = old.pos /\ d.hand = <<>> /\ d.seen = old.seen
        /\ d.joined = old.joined
    BY <2>1, <1>2 DEF LogReader
  <2>4. Told(d, written)
    BY <2>2, <2>3, <1>2 DEF Told
  <2> QED
    BY <2>2, <2>3, <2>4, ReaderTold
<1>5. CASE Log!Subscribe(r)
  <2>1. PICK d : d = [Log!Off EXCEPT !.on = TRUE, !.open = TRUE, !.joined = written, !.pos = written]
    OBVIOUS
  <2>2. windows' = [windows EXCEPT ![r] = d] /\ written' = written
    BY <2>1, <1>5 DEF Log!Subscribe
  <2>3. /\ d \in LogReader /\ d.pos = written /\ d.hand = <<>> /\ d.pipe = <<>> /\ d.seen = <<>>
        /\ d.joined = written
    BY <2>1, <1>2 DEF Log!Off, LogReader
  <2>4. Chain(<<>>, written, written) /\ written <= written
    BY <1>2, NoChain
  <2>5. Told(d, written)
    BY <2>3, <2>4, <1>2 DEF Told
  <2> QED
    BY <2>2, <2>3, <2>5, ReaderTold
<1> QED
  BY <1>3, <1>4, <1>5

LEMMA LogStep ==
    ASSUME Log!RingAssumption
    PROVE  LogInv /\ [Log!Next]_(Log!vars) => LogInv'
<1> SUFFICES ASSUME LogInv, [Log!Next]_(Log!vars) PROVE LogInv'
  OBVIOUS
<1>1. CASE Log!Write
  <2>1. written' = written + 1 /\ windows' = windows /\ written \in Nat
    BY <1>1 DEF Log!Write, LogInv
  <2>2. ASSUME NEW r \in Readers PROVE Told(windows[r], written + 1)
    <3>1. Told(windows[r], written) /\ windows[r].pos \in Nat
      BY DEF LogInv, LogReader
    <3>2. windows[r].pos <= written + 1
      BY <2>1, <3>1 DEF Told
    <3> QED
      BY <3>1, <3>2 DEF Told
  <2> QED
    BY <2>1, <2>2 DEF LogInv
<1>2. CASE Log!WriteUnheard \/ UNCHANGED Log!vars
  BY <1>2 DEF Log!WriteUnheard, Log!vars, LogInv
<1>3. ASSUME NEW r \in Readers, Log!Subscribe(r) \/ Log!Close(r) \/ Log!ReaderStep(r) PROVE LogInv'
  BY <1>3, RecvStep, PassStep, ShowStep, EndStep DEF Log!ReaderStep
<1> QED
  BY <1>1, <1>2, <1>3 DEF Log!Next

LEMMA StandingRun ==
    ASSUME NEW s \in Seq(Item)
    PROVE  \E r \in [0..Len(s) -> Nat] :
              /\ r[0] = 0 /\ r[Len(s)] = Log!Standing(s)
              /\ \A k \in 1..Len(s) : r[k] = r[k - 1] + Weight(s[k])
<1>1. PICK n \in Nat : n = Len(s) /\ DOMAIN s = 1..n /\ \A k \in 1..n : s[k] \in Item
  OBVIOUS
<1>2. PICK step \in [Nat \X (1..n) -> Nat] :
          \A a \in Nat, k \in 1..n : step[<<a, k>>] = a + Weight(s[k])
  <2> DEFINE step == [q \in Nat \X (1..n) |-> q[1] + Weight(s[q[2]])]
  <2>1. step \in [Nat \X (1..n) -> Nat]
    BY <1>1 DEF Item, Weight
  <2>2. \A a \in Nat, k \in 1..n : step[<<a, k>>] = a + Weight(s[k])
    OBVIOUS
  <2> HIDE DEF step
  <2> QED
    BY <2>1, <2>2
<1> DEFINE Q(J) == J = [S \in SUBSET (1..n) |->
                           IF S = {} THEN 0 ELSE LET x == Top(S) IN J[S \ {x}] + Weight(s[x])]
<1>3. PICK J : J = CHOOSE I : Q(I)
  OBVIOUS
<1>4. Log!Standing(s) = J[1..n]
  BY <1>1, <1>3 DEF Log!Standing, Weight, Log!FoldLeft, Log!MapThenFoldSet, Log!Max, Top
<1>5. 0 \in Nat
  BY EmptySeq
<1>6. Q(J)
  <2>1. PICK I \in [SUBSET (1..n) -> Nat] : Iterates(I, n, 0, step)
    BY <1>5, FoldExists
  <2>2. ASSUME NEW S \in SUBSET (1..n), S # {}
        PROVE  step[<<I[S \ {Top(S)}], Top(S)>>] = I[S \ {Top(S)}] + Weight(s[Top(S)])
    <3>1. I[S \ {Top(S)}] \in Nat /\ Top(S) \in 1..n
      BY <2>2, TopIn
    <3> QED
      BY <1>2, <3>1
  <2>3. Q(I)
    BY <2>1, <2>2 DEF Iterates
  <2> HIDE DEF Q
  <2> QED
    BY <1>3, <2>3
<1>7. Steps(J, Nat, n, 0, step)
  <2>1. J[{}] = 0
    BY <1>6
  <2>2. ASSUME NEW S \in SUBSET (1..n), S # {}, J[S \ {Top(S)}] \in Nat
        PROVE  J[S] = step[<<J[S \ {Top(S)}], Top(S)>>]
    <3>1. J[S] = J[S \ {Top(S)}] + Weight(s[Top(S)])
      BY <1>6, <2>2
    <3> QED
      BY <1>2, <2>2, <3>1, TopIn
  <2> QED
    BY <2>1, <2>2 DEF Steps
<1> HIDE DEF Q
<1>8. PICK r \in [0..n -> Nat] : Run(r, n, 0, step, J)
  BY <1>5, <1>7, FoldRun
<1>9. ASSUME NEW k \in 1..n PROVE r[k] = r[k - 1] + Weight(s[k])
  <2>1. k - 1 \in 0..n
    OBVIOUS
  <2>2. r[k - 1] \in Nat /\ r[k] = step[<<r[k - 1], k>>]
    BY <1>8, <2>1 DEF Run
  <2> QED
    BY <1>2, <2>2
<1> QED
  BY <1>1, <1>4, <1>8, <1>9 DEF Run

(* What Accounted adds up is where the chain stands. *)
LEMMA ChainStanding ==
    ASSUME NEW s \in Seq(Item), NEW a \in Nat, NEW b \in Nat, Chain(s, a, b),
           NEW k \in 1..Len(s), s[k].kind = "line"
    PROVE  s[k].n = a + Log!Standing(SubSeq(s, 1, k))
<1>1. PICK n \in Nat : n = Len(s)
  OBVIOUS
<1>2. PICK at \in [0..n -> Nat] : /\ at[0] = a
                                 /\ \A i \in 1..n : Follows(s[i], at[i - 1], at[i])
  BY <1>1 DEF Chain
<1>3. k \in Nat /\ k \in 1..n /\ k \in 0..k /\ \A i \in 1..k : i \in 1..n /\ s[i] \in Item
  BY <1>1
<1>4. PICK e \in Seq(Item) : e = SubSeq(s, 1, k) /\ Len(e) = k /\ \A i \in 1..k : e[i] = s[i]
  BY <1>1, <1>3
<1>5. PICK r \in [0..k -> Nat] : /\ r[0] = 0 /\ r[k] = Log!Standing(e)
                                /\ \A i \in 1..k : r[i] = r[i - 1] + Weight(e[i])
  <2>1. PICK m \in Nat : m = Len(e) /\ m = k
    BY <1>3, <1>4
  <2>2. PICK r \in [0..m -> Nat] : /\ r[0] = 0 /\ r[m] = Log!Standing(e)
                                  /\ \A i \in 1..m : r[i] = r[i - 1] + Weight(e[i])
    BY <2>1, StandingRun
  <2> QED
    BY <2>1, <2>2
<1> DEFINE T == {i \in 0..k : at[i] = a + r[i]}
<1>6. 0 \in T
  BY <1>2, <1>3, <1>5
<1>7. ASSUME NEW i \in 0..k, i \in T, i < k PROVE i + 1 \in T
  <2>1. /\ i + 1 \in 1..k /\ (i + 1) - 1 = i /\ i + 1 \in 0..k /\ i + 1 \in 1..n
        /\ i \in 0..n /\ i + 1 \in 0..n
    <3> HIDE DEF T
    <3> QED
      BY <1>3, <1>7
  <2>2. Follows(s[i + 1], at[(i + 1) - 1], at[i + 1])
    BY <1>2, <2>1
  <2>3. at[i + 1] = at[i] + Weight(s[i + 1])
    BY <2>1, <2>2 DEF Follows
  <2>4. r[(i + 1)] = r[(i + 1) - 1] + Weight(e[i + 1]) /\ e[i + 1] = s[i + 1]
    BY <1>4, <1>5, <2>1
  <2>5. PICK w \in Nat : w = Weight(s[i + 1])
    <3>1. s[i + 1] \in Item
      BY <1>3, <2>1
    <3> QED
      BY <3>1 DEF Item, Weight
  <2>6. at[i] = a + r[i] /\ r[i] \in Nat /\ at[i + 1] = at[i] + w /\ r[i + 1] = r[i] + w
    BY <1>7, <2>1, <2>3, <2>4, <2>5
  <2> QED
    BY <2>1, <2>6
<1>8. \A i \in 0..k : i \in T
  <2> HIDE DEF T
  <2> QED
    BY <1>3, <1>6, <1>7, Upto
<1>9. at[k] = a + Log!Standing(e)
  BY <1>3, <1>5, <1>8
<1>10. s[k].n = at[k]
  BY <1>2, <1>3 DEF Follows
<1> QED
  BY <1>4, <1>9, <1>10

LEMMA CountsAccounted == LogInv => Log!Accounted
<1> SUFFICES ASSUME LogInv, NEW r \in Readers, NEW k \in DOMAIN windows[r].seen,
                    windows[r].seen[k].kind = "line"
             PROVE  windows[r].seen[k].n = windows[r].joined + Log!Standing(SubSeq(windows[r].seen, 1, k))
  BY DEF Log!Accounted
<1>1. PICK s \in Seq(Item), a \in Nat, b \in Nat :
          s = windows[r].seen /\ a = windows[r].joined /\ Chain(s, a, b)
  <2>1. windows[r] \in LogReader /\ Told(windows[r], written)
    BY DEF LogInv
  <2>2. windows[r].seen \in Seq(Item) /\ windows[r].joined \in Nat
    BY <2>1 DEF LogReader
  <2>3. PICK b \in Nat : Chain(windows[r].seen, windows[r].joined, b)
    BY <2>1 DEF Told
  <2> QED
    BY <2>2, <2>3
<1>2. k \in 1..Len(s)
  BY <1>1
<1> QED
  BY <1>1, <1>2, ChainStanding

(* What the shapes of the state say besides: the channel to a window is    *)
(* never overfull, and who has a line in hand is listening.                *)
Piped(d) == d.joined <= d.pos /\ Len(d.pipe) <= Pipe /\ (d.hand # <<>> => d.on)

LogTyped == LogInv /\ written <= MaxLines /\ \A r \in Readers : Piped(windows[r])

LEMMA LogReaderPiped ==
    ASSUME Log!RingAssumption, LogTyped, NEW r \in Readers, Log!Subscribe(r) \/ Log!Close(r) \/ Log!ReaderStep(r)
    PROVE  written' = written /\ \E d : windows' = [windows EXCEPT ![r] = d] /\ Piped(d)
<1>1. PICK old \in LogReader : old = windows[r] /\ Piped(old) /\ Told(old, written) /\ written \in Nat
  BY DEF LogTyped, LogInv
<1>2. /\ old.pos \in Nat /\ old.joined \in Nat /\ old.hand \in Seq(Item) /\ old.pipe \in Seq(Item)
      /\ Pipe \in Nat /\ Capacity \in Nat /\ <<>> \in Seq(Item) /\ Len(<<>>) = 0
  BY <1>1, EmptySeq DEF LogReader, Log!RingAssumption
<1>3. CASE Log!Subscribe(r)
  <2>1. PICK d : d = [Log!Off EXCEPT !.on = TRUE, !.open = TRUE, !.joined = written, !.pos = written]
    OBVIOUS
  <2>2. written' = written /\ windows' = [windows EXCEPT ![r] = d]
    BY <2>1, <1>3 DEF Log!Subscribe
  <2>3. d.joined = written /\ d.pos = written /\ d.hand = <<>> /\ d.pipe = <<>>
    BY <2>1 DEF Log!Off
  <2>4. Piped(d)
    BY <2>3, <1>1, <1>2 DEF Piped
  <2> QED
    BY <2>2, <2>4
<1>4. CASE Log!Close(r)
  <2>1. PICK d : d = [old EXCEPT !.open = FALSE, !.pipe = <<>>]
    OBVIOUS
  <2>2. written' = written /\ windows' = [windows EXCEPT ![r] = d]
    BY <2>1, <1>1, <1>4 DEF Log!Close, LogTyped, LogInv
  <2>3. d.joined = old.joined /\ d.pos = old.pos /\ d.hand = old.hand /\ d.on = old.on /\ d.pipe = <<>>
    BY <2>1 DEF LogReader
  <2>4. Piped(d)
    BY <2>3, <1>1, <1>2 DEF Piped
  <2> QED
    BY <2>2, <2>4
<1>5. CASE Log!PassFails(r)
  <2>1. PICK d : d = [old EXCEPT !.hand = <<>>, !.on = (old.hand[1].kind = "dropped")]
    OBVIOUS
  <2>2. written' = written /\ windows' = [windows EXCEPT ![r] = d]
    BY <2>1, <1>1, <1>5 DEF Log!PassFails, LogTyped, LogInv
  <2>3. d.joined = old.joined /\ d.pos = old.pos /\ d.hand = <<>> /\ d.pipe = old.pipe
    BY <2>1 DEF LogReader
  <2>4. Piped(d)
    BY <2>3, <1>1 DEF Piped
  <2> QED
    BY <2>2, <2>4
<1>6. CASE Log!Pass(r)
  <2>1. PICK pipe : pipe = old.pipe \o old.hand
    OBVIOUS
  <2>2. PICK d : d = [old EXCEPT !.hand = <<>>, !.pipe = pipe]
    OBVIOUS
  <2>3. written' = written /\ windows' = [windows EXCEPT ![r] = d] /\ Len(old.pipe) < Pipe
    BY <2>1, <2>2, <1>1, <1>6 DEF Log!Pass, LogTyped, LogInv
  <2>4. d.joined = old.joined /\ d.pos = old.pos /\ d.hand = <<>> /\ d.pipe = pipe
    BY <2>2 DEF LogReader
  <2>5. Len(pipe) <= Pipe
    <3>1. PICK n \in Nat, m \in Nat : n = Len(old.pipe) /\ m = Len(old.hand) /\ Len(pipe) = n + m
      <4>1. Len(old.pipe \o old.hand) = Len(old.pipe) + Len(old.hand)
        BY <1>2, ConcatProperties
      <4>2. Len(old.pipe) \in Nat /\ Len(old.hand) \in Nat
        BY <1>2, LenProperties
      <4> QED
        BY <2>1, <4>1, <4>2
    <3>2. m <= 1 /\ n < Pipe /\ Pipe \in Nat
      BY <3>1, <2>3, <1>1, <1>2 DEF Told
    <3>3. n + m <= Pipe
      BY <3>2
    <3> QED
      BY <3>1, <3>3
  <2>6. Piped(d)
    BY <2>4, <2>5, <1>1 DEF Piped
  <2> QED
    BY <2>3, <2>6
<1>7. CASE Log!Show(r)
  <2>1. PICK rest, told : rest = Tail(old.pipe) /\ told = Append(old.seen, Head(old.pipe))
    OBVIOUS
  <2>2. PICK d : d = [old EXCEPT !.pipe = rest, !.seen = told]
    OBVIOUS
  <2>3. written' = written /\ windows' = [windows EXCEPT ![r] = d] /\ old.pipe # <<>>
    BY <2>1, <2>2, <1>1, <1>7 DEF Log!Show, LogTyped, LogInv
  <2>4. d.joined = old.joined /\ d.pos = old.pos /\ d.hand = old.hand /\ d.on = old.on /\ d.pipe = rest
    BY <2>2 DEF LogReader
  <2>5. Len(rest) <= Pipe
    <3>1. Len(rest) = Len(old.pipe) - 1 /\ Len(old.pipe) \in Nat
      BY <2>1, <2>3, <1>2
    <3> QED
      BY <3>1, <1>1, <1>2 DEF Piped
  <2>6. Piped(d)
    BY <2>4, <2>5, <1>1 DEF Piped
  <2> QED
    BY <2>3, <2>6
<1>8. CASE Log!Recv(r)
  <2>1. PICK to, hand : /\ windows' = [windows EXCEPT ![r] = [old EXCEPT !.pos = to, !.hand = hand]]
                        /\ to \in Nat /\ to >= old.pos /\ old.on /\ written' = written
    <3>1. old.on /\ written' = written /\ old.pos < written
      BY <1>1, <1>8 DEF Log!Recv
    <3>2. CASE written - old.pos > Capacity
      <4>1. PICK to \in Nat : to = written - Capacity /\ to >= old.pos
        BY <3>1, <3>2, <1>1, <1>2
      <4>2. PICK hand : hand = <<Log!Dropped(written - Capacity - old.pos)>>
        OBVIOUS
      <4>3. windows' = [windows EXCEPT ![r] = [old EXCEPT !.pos = to, !.hand = hand]]
        BY <3>2, <4>1, <4>2, <1>1, <1>8 DEF Log!Recv, Log!Lag
      <4> QED
        BY <3>1, <4>1, <4>3
    <3>3. CASE ~(written - old.pos > Capacity)
      <4>1. PICK to \in Nat : to = old.pos + 1 /\ to >= old.pos
        BY <1>2
      <4>2. PICK hand : hand = <<Log!Line(old.pos + 1)>>
        OBVIOUS
      <4>3. windows' = [windows EXCEPT ![r] = [old EXCEPT !.pos = to, !.hand = hand]]
        BY <3>3, <4>1, <4>2, <1>1, <1>8 DEF Log!Recv, Log!NextLine
      <4> QED
        BY <3>1, <4>1, <4>3
    <3> QED
      BY <3>2, <3>3
  <2>2. PICK d : d = [old EXCEPT !.pos = to, !.hand = hand]
    OBVIOUS
  <2>3. d.joined = old.joined /\ d.pos = to /\ d.on = old.on /\ d.pipe = old.pipe
    BY <2>2 DEF LogReader
  <2>4. Piped(d)
    BY <2>1, <2>3, <1>1, <1>2 DEF Piped
  <2> QED
    BY <2>1, <2>2, <2>4
<1> QED
  BY <1>3, <1>4, <1>5, <1>6, <1>7, <1>8 DEF Log!ReaderStep

LEMMA LogLines == ASSUME Log!RingAssumption PROVE Log!Spec => []LogTyped
<1>1. Log!Init => LogTyped
  <2> SUFFICES ASSUME Log!Init PROVE LogTyped
    OBVIOUS
  <2>1. <<>> \in Seq(Item) /\ Len(<<>>) = 0 /\ Chain(<<>>, 0, 0) /\ 0 <= 0 /\ 0 <= 1 /\ 0 \in Nat
    BY EmptySeq, NoChain
  <2>2. /\ Log!Off \in LogReader /\ Log!Off.pos = 0 /\ Log!Off.hand = <<>> /\ Log!Off.pipe = <<>>
        /\ Log!Off.seen = <<>> /\ Log!Off.joined = 0
    BY <2>1 DEF Log!Off, LogReader
  <2>3. Told(Log!Off, 0)
    BY <2>1, <2>2 DEF Told
  <2>4. LogInv
    BY <2>1, <2>2, <2>3 DEF Log!Init, LogInv
  <2>5. Piped(Log!Off) /\ 0 <= MaxLines
    BY <2>1, <2>2 DEF Piped, Log!RingAssumption
  <2> QED
    BY <2>4, <2>5 DEF Log!Init, LogTyped
<1>2. LogTyped /\ [Log!Next]_(Log!vars) => LogTyped'
  <2> SUFFICES ASSUME LogTyped, [Log!Next]_(Log!vars) PROVE LogTyped'
    OBVIOUS
  <2>1. LogInv'
    BY LogStep DEF LogTyped
  <2>2. CASE Log!Write
    <3>1. written < MaxLines /\ written' = written + 1 /\ windows' = windows /\ written \in Nat
      BY <2>2 DEF Log!Write, LogTyped, LogInv
    <3>2. written' <= MaxLines
      BY <3>1 DEF Log!RingAssumption
    <3> QED
      BY <2>1, <3>1, <3>2 DEF LogTyped
  <2>3. CASE Log!WriteUnheard \/ UNCHANGED Log!vars
    BY <2>1, <2>3 DEF Log!WriteUnheard, Log!vars, LogTyped
  <2>4. ASSUME NEW r \in Readers, Log!Subscribe(r) \/ Log!Close(r) \/ Log!ReaderStep(r)
        PROVE  LogTyped'
    BY <2>1, <2>4, LogReaderPiped DEF LogTyped, LogInv
  <2> QED
    BY <2>2, <2>3, <2>4 DEF Log!Next
<1> QED
  BY <1>1, <1>2, PTL DEF Log!Spec

LEMMA LogShapes == Log!RingAssumption /\ LogTyped => Log!TypeInv
<1> SUFFICES ASSUME Log!RingAssumption, LogTyped PROVE Log!TypeInv
  OBVIOUS
<1>1. written \in 0..MaxLines
  BY DEF LogTyped, LogInv, Log!RingAssumption
<1> QED
  BY <1>1 DEF LogTyped, LogInv, Told, Piped, Log!TypeInv

LEMMA ChainRises ==
    ASSUME NEW s \in Seq(Item), NEW a \in Nat, NEW b \in Nat, Chain(s, a, b)
    PROVE  a <= b
<1>1. PICK n \in Nat : n = Len(s) /\ \A k \in 1..n : s[k] \in Item
  OBVIOUS
<1>2. PICK at \in [0..n -> Nat] : at[0] = a /\ at[n] = b /\ \A k \in 1..n : Follows(s[k], at[k - 1], at[k])
  BY <1>1 DEF Chain
<1> DEFINE T == {k \in 0..n : a <= at[k]}
<1>3. 0 \in T
  BY <1>2
<1>4. ASSUME NEW k \in 0..n, k \in T, k < n PROVE k + 1 \in T
  <2>1. k + 1 \in 1..n /\ (k + 1) - 1 = k /\ k + 1 \in 0..n
    <3> HIDE DEF T
    <3> QED
      BY <1>4
  <2>2. Follows(s[k + 1], at[(k + 1) - 1], at[k + 1]) /\ s[k + 1] \in Item
    BY <1>1, <1>2, <2>1
  <2>3. PICK w \in Nat : w = Weight(s[k + 1])
    BY <2>2 DEF Item, Weight
  <2>4. at[k + 1] = at[k] + w /\ at[k] \in Nat
    BY <1>2, <2>1, <2>2, <2>3 DEF Follows
  <2> QED
    BY <1>4, <2>1, <2>4
<1>5. \A k \in 0..n : k \in T
  <2> HIDE DEF T
  <2> QED
    BY <1>3, <1>4, Upto
<1> QED
  BY <1>2, <1>5

----------------------------------------------------------------------------
(***************************************************************************)
(* The dispatches of the Discord gateway.  What Discord has sent is what   *)
(* the loop has taken and what is on the socket: the messages there are    *)
(* items that weigh what they add, so that a chain counts them, as it does *)
(* the lines of the log.                                                   *)
(***************************************************************************)
Kinds == {"ready", "event", "ack", "beat"}
Dispatches(kind) == IF kind \in {"ready", "event"} THEN 1 ELSE 0
OnSocket(kind) == [kind |-> "dropped", n |-> Dispatches(kind)]
Weighed(s) == [i \in DOMAIN s |-> OnSocket(s[i])]

LEMMA SocketItems ==
    /\ \A kind : OnSocket(kind) \in Item /\ Weight(OnSocket(kind)) = Dispatches(kind)
    /\ \A kind : \A a \in Nat : Follows(OnSocket(kind), a, a + Dispatches(kind))
    /\ \A kind : Dispatches(kind) \in {0, 1}
BY DEF OnSocket, Item, Dispatches, Weight, Follows

LEMMA WeighedItems == ASSUME NEW s \in Seq(Kinds) PROVE Weighed(s) \in Seq(Item)
<1>1. PICK n \in Nat : n = Len(s) /\ DOMAIN s = 1..n
  OBVIOUS
<1>2. \A k \in 1..n : OnSocket(s[k]) \in Item
  BY SocketItems
<1>3. Weighed(s) \in [1..n -> Item]
  BY <1>1, <1>2 DEF Weighed
<1> QED
  BY <1>3

LEMMA WeighedMore ==
    ASSUME NEW s \in Seq(Kinds), NEW kind \in Kinds
    PROVE  Weighed(Append(s, kind)) = Append(Weighed(s), OnSocket(kind))
<1>1. PICK n \in Nat, t \in Seq(Kinds), w \in Seq(Item), v \in Seq(Item), i \in Item :
          /\ n = Len(s) /\ t = Append(s, kind) /\ w = Weighed(s) /\ v = Weighed(t) /\ i = OnSocket(kind)
  <2>1. Len(s) \in Nat /\ Append(s, kind) \in Seq(Kinds)
    BY LenProperties, AppendProperties
  <2>2. Weighed(s) \in Seq(Item) /\ Weighed(Append(s, kind)) \in Seq(Item) /\ OnSocket(kind) \in Item
    BY <2>1, WeighedItems, SocketItems
  <2> QED
    BY <2>1, <2>2
<1>2. /\ DOMAIN s = 1..n /\ DOMAIN t = 1..(n + 1)
      /\ (\A k \in 1..n : t[k] = s[k]) /\ t[n + 1] = kind
  BY <1>1, AppendAt
<1>3. /\ DOMAIN w = 1..n /\ \A k \in 1..n : w[k] = OnSocket(s[k])
      /\ DOMAIN v = 1..(n + 1) /\ \A k \in 1..(n + 1) : v[k] = OnSocket(t[k])
  BY <1>1, <1>2 DEF Weighed
<1>4. Len(w) = n
  BY <1>1, <1>3, LenProperties
<1>5. PICK u \in Seq(Item) : u = Append(w, i)
  BY <1>1, AppendProperties
<1>6. DOMAIN u = 1..(n + 1) /\ (\A k \in 1..n : u[k] = w[k]) /\ u[n + 1] = i
  BY <1>4, <1>5, AppendAt
<1>7. \A k \in 1..(n + 1) : u[k] = v[k]
  <2> SUFFICES ASSUME NEW k \in 1..(n + 1) PROVE u[k] = v[k]
    OBVIOUS
  <2>1. k = n + 1 \/ k \in 1..n
    OBVIOUS
  <2> QED
    BY <2>1, <1>1, <1>2, <1>3, <1>6
<1>8. u = v
  BY <1>3, <1>6, <1>7
<1> QED
  BY <1>1, <1>5, <1>8

LEMMA WeighedLess ==
    ASSUME NEW s \in Seq(Kinds), s # <<>>
    PROVE  /\ Weighed(s) # <<>> /\ Head(Weighed(s)) = OnSocket(Head(s)) /\ Head(s) \in Kinds
           /\ Tail(s) \in Seq(Kinds) /\ Weighed(Tail(s)) = Tail(Weighed(s))
           /\ Len(Tail(s)) \in Nat /\ Len(s) \in Nat /\ Len(Tail(s)) <= Len(s)
<1>1. PICK n \in Nat : /\ n + 1 = Len(s) /\ Tail(s) \in Seq(Kinds) /\ Len(Tail(s)) = n
                      /\ DOMAIN s = 1..(n + 1) /\ DOMAIN Tail(s) = 1..n
                      /\ \A k \in 1..n : Tail(s)[k] = s[k + 1]
  BY TailAt
<1>2. PICK t \in Seq(Kinds), w \in Seq(Item), v \in Seq(Item) :
          t = Tail(s) /\ w = Weighed(s) /\ v = Weighed(t)
  BY <1>1, WeighedItems
<1>3. /\ DOMAIN w = 1..(n + 1) /\ \A k \in 1..(n + 1) : w[k] = OnSocket(s[k])
      /\ DOMAIN v = 1..n /\ \A k \in 1..n : v[k] = OnSocket(t[k])
  BY <1>1, <1>2 DEF Weighed
<1>4. 1 \in 1..(n + 1) /\ s[1] \in Kinds /\ Head(s) = s[1] /\ Head(w) = w[1]
  <2>1. 1 \in 1..(n + 1)
    OBVIOUS
  <2> QED
    BY <2>1, <1>1
<1>5. w # <<>>
  <2>1. DOMAIN <<>> = {}
    OBVIOUS
  <2> QED
    BY <2>1, <1>3, <1>4
<1>6. PICK m \in Nat : /\ m + 1 = Len(w) /\ Len(Tail(w)) = m
                      /\ DOMAIN w = 1..(m + 1) /\ DOMAIN Tail(w) = 1..m
                      /\ \A k \in 1..m : Tail(w)[k] = w[k + 1]
  BY <1>5, TailAt
<1>7. m = n
  <2>1. Len(w) = n + 1
    BY <1>3, LenProperties
  <2> QED
    BY <2>1, <1>6
<1>8. \A k \in 1..n : k + 1 \in 1..(n + 1)
  OBVIOUS
<1>9. \A k \in 1..n : Tail(w)[k] = v[k]
  BY <1>1, <1>2, <1>3, <1>6, <1>7, <1>8
<1>10. PICK u \in Seq(Item) : u = Tail(w) /\ DOMAIN u = 1..n
  BY <1>5, <1>6, <1>7, HeadTailProperties
<1>11. u = v
  BY <1>3, <1>9, <1>10
<1> QED
  BY <1>1, <1>2, <1>3, <1>4, <1>5, <1>10, <1>11

(* The socket is empty until a connection is live. *)
GatewayTyped ==
    /\ Gateway!TypeInv
    /\ phase = "live" => timer # 0
    /\ phase = "open" => inbound = <<>>
    /\ taken \in Nat /\ sent \in Nat /\ Chain(Weighed(inbound), taken, sent)

(* The messages after one is read. *)
LEMMA SocketRead ==
    ASSUME Gateway!GatewayAssumption, GatewayTyped, NEW kind, Gateway!Receive(kind),
           taken' = taken + Dispatches(kind), sent' = sent
    PROVE  /\ kind \in Kinds /\ phase = "live"
           /\ inbound' \in Seq(Kinds) /\ Len(inbound') <= MaxQueue
           /\ taken' \in Nat /\ sent' \in Nat /\ taken' <= sent' /\ Chain(Weighed(inbound'), taken', sent')
<1>1. /\ inbound # <<>> /\ kind = Head(inbound) /\ inbound' = Tail(inbound) /\ phase = "live"
      /\ inbound \in Seq(Kinds) /\ Len(inbound) <= MaxQueue /\ taken \in Nat /\ sent \in Nat
  BY DEF GatewayTyped, Gateway!Receive, Gateway!Selecting, Gateway!TypeInv, Kinds
<1>2. /\ kind \in Kinds /\ inbound' \in Seq(Kinds)
      /\ Weighed(inbound) # <<>> /\ Head(Weighed(inbound)) = OnSocket(kind)
      /\ Weighed(inbound') = Tail(Weighed(inbound))
      /\ Len(inbound') \in Nat /\ Len(inbound) \in Nat /\ Len(inbound') <= Len(inbound)
  BY <1>1, WeighedLess
<1>3. Weighed(inbound) \in Seq(Item)
  BY <1>1, WeighedItems
<1>4. PICK b \in Nat : Follows(OnSocket(kind), taken, b) /\ Chain(Weighed(inbound'), b, sent)
  <2>1. Chain(Weighed(inbound), taken, sent)
    BY DEF GatewayTyped
  <2>2. PICK b \in Nat : Follows(Head(Weighed(inbound)), taken, b) /\ Chain(Tail(Weighed(inbound)), b, sent)
    BY <2>1, <1>1, <1>2, <1>3, ChainShorter
  <2> QED
    BY <2>2, <1>2
<1>5. b = taken'
  BY <1>4, SocketItems DEF Follows
<1>6. Weighed(inbound') \in Seq(Item)
  BY <1>2, WeighedItems
<1>7. b <= sent
  BY <1>1, <1>4, <1>6, ChainRises
<1>8. Len(inbound') <= MaxQueue
  BY <1>1, <1>2 DEF Gateway!GatewayAssumption
<1> QED
  BY <1>1, <1>2, <1>4, <1>5, <1>7, <1>8

LEMMA SocketPushed ==
    ASSUME Gateway!GatewayAssumption, GatewayTyped, NEW kind \in Kinds, Gateway!Push(kind)
    PROVE  GatewayTyped'
<1>1. /\ phase = "live" /\ Len(inbound) < MaxQueue /\ inbound' = Append(inbound, kind)
      /\ sent = 0 <=> kind = "ready"
      /\ kind = "event" => sent < MaxSeq
      /\ sent' = sent + Dispatches(kind)
      /\ UNCHANGED <<phase, cancelled, connected, lastSeq, busy, timer, due, silence, taken>>
      /\ inbound \in Seq(Kinds) /\ taken \in Nat /\ sent \in Nat /\ taken <= sent /\ sent <= MaxSeq
      /\ MaxQueue \in Nat /\ MaxSeq \in Nat /\ MaxSeq # 0
  BY SocketItems
     DEF GatewayTyped, Gateway!Push, Gateway!beat, Gateway!TypeInv, Kinds, Dispatches,
         Gateway!GatewayAssumption
<1>2. PICK n \in Nat : n = Len(inbound) /\ n < MaxQueue
  BY <1>1, LenProperties
<1>3. inbound' \in Seq(Kinds) /\ Len(inbound') = n + 1
  BY <1>1, <1>2, AppendAt
<1>4. sent' \in Nat /\ taken' <= sent' /\ sent' <= MaxSeq
  BY <1>1 DEF Dispatches, Kinds
<1>5. Chain(Weighed(inbound'), taken', sent')
  <2>1. /\ Chain(Weighed(inbound), taken, sent) /\ Weighed(inbound) \in Seq(Item)
        /\ OnSocket(kind) \in Item /\ Follows(OnSocket(kind), sent, sent')
    BY <1>1, WeighedItems, SocketItems DEF GatewayTyped
  <2>2. Weighed(inbound') = Append(Weighed(inbound), OnSocket(kind))
    BY <1>1, WeighedMore
  <2> QED
    BY <2>1, <2>2, <1>1, <1>4, ChainLonger
<1>6. Len(inbound') <= MaxQueue
  BY <1>1, <1>2, <1>3
<1> QED
  BY <1>1, <1>3, <1>4, <1>5, <1>6 DEF GatewayTyped, Gateway!TypeInv, Kinds

LEMMA GatewayTypedStep ==
    ASSUME Gateway!GatewayAssumption
    PROVE  GatewayTyped /\ [Gateway!Next]_(Gateway!vars) => GatewayTyped'
<1> SUFFICES ASSUME GatewayTyped, [Gateway!Next]_(Gateway!vars) PROVE GatewayTyped'
  OBVIOUS
<1>0. /\ Period \in Nat /\ Period # 0 /\ Patience \in Nat /\ MaxHandler \in Nat /\ MaxQueue \in Nat
      /\ MaxSeq \in Nat
  BY DEF Gateway!GatewayAssumption
<1>1. CASE Gateway!Fetch \/ Gateway!Leave \/ Gateway!Break \/ Gateway!Cancel \/ UNCHANGED Gateway!vars
  <2>1. /\ UNCHANGED <<busy, timer, due, silence, lastSeq, inbound, sent, taken>>
        /\ phase' = phase \/ phase' \in {"down", "ended"}
        /\ cancelled' \in {cancelled, TRUE} /\ connected' \in {connected, FALSE}
        /\ (phase' = phase /\ connected' = connected) \/ phase = "fetching" \/ connected' = FALSE
    BY <1>1
       DEF Gateway!Fetch, Gateway!Leave, Gateway!Break, Gateway!Cancel, Gateway!vars,
           Gateway!beat, Gateway!session
  <2>2. cancelled \in BOOLEAN /\ connected \in BOOLEAN /\ (connected => phase = "live" /\ taken > 0)
    BY DEF GatewayTyped, Gateway!TypeInv
  <2>3. cancelled' \in BOOLEAN /\ connected' \in BOOLEAN
    BY <2>1, <2>2
  <2>4. connected' => phase' = "live" /\ taken' > 0
    BY <2>1, <2>2
  <2> QED
    BY <2>1, <2>3, <2>4 DEF GatewayTyped, Gateway!TypeInv
<1>2. CASE Gateway!Dial
  <2>1. /\ phase' = "open" /\ inbound' = <<>> /\ sent' = 0 /\ taken' = 0 /\ due' = 0 /\ ~connected
        /\ UNCHANGED <<cancelled, connected, busy, timer, silence>>
    BY <1>2 DEF Gateway!Dial, GatewayTyped, Gateway!TypeInv
  <2>2. Chain(Weighed(<<>>), 0, 0) /\ <<>> \in Seq(Kinds) /\ Len(<<>>) = 0
    <3>1. Weighed(<<>>) = <<>>
      BY DEF Weighed
    <3> QED
      BY <3>1, NoChain, EmptySeq
  <2>3. Gateway!TypeInv'
    BY <1>0, <2>1, <2>2 DEF GatewayTyped, Gateway!TypeInv, Kinds
  <2> QED
    BY <2>1, <2>2, <2>3 DEF GatewayTyped
<1>3. CASE Gateway!Hello
  BY <1>0, <1>3 DEF Gateway!Hello, Gateway!session, GatewayTyped, Gateway!TypeInv
<1>4. CASE Gateway!SendBeat
  <2>1. /\ due \in 0..2 /\ due > 0 /\ due' = due - 1 /\ silence' = 0
        /\ UNCHANGED <<phase, cancelled, connected, busy, timer, lastSeq, inbound, sent, taken>>
    BY <1>4 DEF Gateway!SendBeat, Gateway!session, GatewayTyped, Gateway!TypeInv
  <2>2. due' \in 0..2 /\ silence' \in 0..(Patience + 1)
    BY <1>0, <2>1
  <2> QED
    BY <2>1, <2>2 DEF GatewayTyped, Gateway!TypeInv
<1>5. CASE Gateway!Tick
  <2>1. /\ phase = "live" /\ busy' = (IF busy > 0 THEN busy - 1 ELSE 0)
        /\ timer' = (IF timer = 1 THEN Period ELSE timer - 1) /\ timer # 0
        /\ busy \in 0..MaxHandler /\ timer \in 0..Period /\ due \in 0..2 /\ silence \in 0..(Patience + 1)
        /\ UNCHANGED <<phase, cancelled, connected, lastSeq, inbound, sent, taken>>
    BY <1>5 DEF Gateway!Tick, Gateway!session, GatewayTyped, Gateway!TypeInv
  <2>2. busy' \in 0..MaxHandler /\ timer' \in 0..Period /\ timer' # 0
    BY <1>0, <2>1
  <2>3. due' \in 0..2 /\ silence' \in 0..(Patience + 1)
    BY <1>0, <1>5, <2>1 DEF Gateway!Tick, Gateway!Lesser
  <2> QED
    BY <2>1, <2>2, <2>3 DEF GatewayTyped, Gateway!TypeInv
<1>6. CASE Gateway!Dispatch
  <2>1. PICK kind \in {"ready", "event"} :
            /\ Gateway!Receive(kind) /\ taken' = taken + 1
            /\ connected' = (connected \/ kind = "ready")
            /\ busy' \in IF kind = "event" THEN 0..MaxHandler ELSE {0}
            /\ UNCHANGED <<phase, cancelled, timer, due, silence, sent>>
    BY <1>6 DEF Gateway!Dispatch, Gateway!beat
  <2>2. /\ phase = "live" /\ inbound' \in Seq(Kinds) /\ Len(inbound') <= MaxQueue
        /\ taken' \in Nat /\ sent' \in Nat /\ taken' <= sent' /\ Chain(Weighed(inbound'), taken', sent')
    BY <2>1, SocketRead DEF Dispatches
  <2>3. busy' \in 0..MaxHandler /\ connected' \in BOOLEAN /\ taken' > 0
    BY <1>0, <2>1 DEF GatewayTyped, Gateway!TypeInv
  <2> QED
    BY <2>1, <2>2, <2>3 DEF GatewayTyped, Gateway!TypeInv, Kinds
<1>7. CASE Gateway!Ack \/ Gateway!Asked
  <2>1. PICK kind \in {"ack", "beat"} :
            /\ Gateway!Receive(kind) /\ silence' \in {silence, 0}
            /\ UNCHANGED <<phase, cancelled, connected, busy, timer, due, sent, taken>>
    BY <1>7 DEF Gateway!Ack, Gateway!Asked, Gateway!beat
  <2>2. taken' = taken + Dispatches(kind)
    BY <2>1 DEF Dispatches, GatewayTyped
  <2>3. /\ phase = "live" /\ inbound' \in Seq(Kinds) /\ Len(inbound') <= MaxQueue
        /\ taken' \in Nat /\ sent' \in Nat /\ taken' <= sent' /\ Chain(Weighed(inbound'), taken', sent')
    BY <2>1, <2>2, SocketRead
  <2>4. silence' \in 0..(Patience + 1)
    BY <1>0, <2>1 DEF GatewayTyped, Gateway!TypeInv
  <2> QED
    BY <2>1, <2>3, <2>4 DEF GatewayTyped, Gateway!TypeInv, Kinds
<1>8. ASSUME NEW kind \in Kinds, Gateway!Push(kind) PROVE GatewayTyped'
  BY <1>8, SocketPushed
<1> QED
  BY <1>1, <1>2, <1>3, <1>4, <1>5, <1>6, <1>7, <1>8 DEF Gateway!Next, Kinds

LEMMA GatewayTypes == ASSUME Gateway!GatewayAssumption PROVE Gateway!Spec => []GatewayTyped
<1>1. Gateway!Init => GatewayTyped
  <2> SUFFICES ASSUME Gateway!Init PROVE GatewayTyped
    OBVIOUS
  <2>1. Chain(Weighed(<<>>), 0, 0) /\ <<>> \in Seq(Kinds) /\ Len(<<>>) = 0
    <3>1. Weighed(<<>>) = <<>>
      BY DEF Weighed
    <3> QED
      BY <3>1, NoChain, EmptySeq
  <2>2. /\ 0 \in 0..MaxHandler /\ 0 \in 0..Period /\ 0 \in 0..2 /\ 0 \in 0..(Patience + 1)
        /\ 0 <= 0 /\ 0 <= MaxSeq /\ 0 <= MaxQueue /\ FALSE \in BOOLEAN
    BY DEF Gateway!GatewayAssumption
  <2>3. /\ cancelled = FALSE /\ connected = FALSE /\ phase = "fetching" /\ inbound = <<>>
        /\ busy = 0 /\ timer = 0 /\ due = 0 /\ silence = 0 /\ taken = 0 /\ sent = 0
    BY DEF Gateway!Init
  <2>4. {cancelled, connected} \subseteq BOOLEAN /\ ~connected
    BY <2>3
  <2>5. Gateway!TypeInv
    BY <2>1, <2>2, <2>3, <2>4 DEF Gateway!TypeInv, Kinds
  <2> QED
    BY <2>1, <2>3, <2>5 DEF GatewayTyped
<1> QED
  BY <1>1, GatewayTypedStep, PTL DEF Gateway!Spec

(* A gateway client whose handlers take no time has the shape of one whose *)
(* handlers may.                                                           *)
LEMMA PromptShapes == ASSUME Gateway!TypeInv, BeatsTimed PROVE Prompt!TypeInv
<1>1. busy \in 0..0
  BY DEF BeatsTimed
<1> QED
  BY <1>1 DEF Gateway!TypeInv, Prompt!TypeInv

----------------------------------------------------------------------------
(***************************************************************************)
(* The behaviours of Parts, in which the parts that do not run rest.       *)
(***************************************************************************)
LEMMA StoreRuns == Spec => Store!Spec
<1>1. Init => Store!Init
  BY DEF Init
<1>2. [Next]_vars => [Store!Next]_(Store!vars)
  BY DEF Next, Runs, vars, storeVars, Store!vars
<1> QED
  BY <1>1, <1>2, PTL DEF Spec, Store!Spec

LEMMA TelegramRuns == Spec => Telegram!Spec
<1>1. Init => Telegram!Init
  BY DEF Init
<1>2. [Next]_vars => [Telegram!Next]_(Telegram!vars)
  BY DEF Next, Runs, vars, telegramVars, Telegram!vars
<1> QED
  BY <1>1, <1>2, PTL DEF Spec, Telegram!Spec

LEMMA MatrixRuns == Spec => Matrix!Spec
<1>1. Init => Matrix!Init
  BY DEF Init
<1>2. [Next]_vars => [Matrix!Next]_(Matrix!vars)
  BY DEF Next, Runs, vars, matrixVars, Matrix!vars
<1> QED
  BY <1>1, <1>2, PTL DEF Spec, Matrix!Spec

LEMMA LogRuns == Spec => Log!Spec
<1>1. Init => Log!Init
  BY DEF Init
<1>2. [Next]_vars => [Log!Next]_(Log!vars)
  BY DEF Next, Runs, vars, logVars, Log!vars
<1> QED
  BY <1>1, <1>2, PTL DEF Spec, Log!Spec

(* Where handlers take no time, the gateway's steps are steps of it still. *)
LEMMA PromptSteps ==
    ASSUME Gateway!GatewayAssumption, [Prompt!Next]_(Prompt!vars)
    PROVE  [Gateway!Next]_(Gateway!vars) /\ (busy = 0 => busy' = 0)
<1>1. MaxHandler \in Nat
  BY DEF Gateway!GatewayAssumption
<1>2. CASE Prompt!Dispatch
  <2>1. PICK kind \in {"ready", "event"} :
            /\ Prompt!Receive(kind)
            /\ lastSeq' = Prompt!SeqAfter(kind) /\ taken' = taken + 1
            /\ connected' = (connected \/ kind = "ready")
            /\ busy' = 0
            /\ UNCHANGED <<phase, cancelled, Prompt!beat, sent>>
    BY <1>2 DEF Prompt!Dispatch
  <2>2. busy' \in IF kind = "event" THEN 0..MaxHandler ELSE {0}
    BY <1>1, <2>1
  <2>3. Gateway!Dispatch
    BY <2>1, <2>2 DEF Prompt!Receive, Gateway!Receive, Prompt!Selecting, Gateway!Selecting,
         Prompt!SeqAfter, Gateway!SeqAfter, Prompt!beat, Gateway!beat, Gateway!Dispatch
  <2> QED
    BY <2>1, <2>3 DEF Gateway!Next
<1>3. CASE Prompt!Tick
  BY <1>3
     DEF Prompt!Tick, Gateway!Tick, Prompt!Selecting, Gateway!Selecting, Prompt!Wakes,
         Gateway!Wakes, Prompt!Lesser, Gateway!Lesser, Prompt!session, Gateway!session,
         Gateway!Next
<1>4. CASE Prompt!SendBeat \/ Prompt!Ack \/ Prompt!Asked \/ Prompt!Break
  BY <1>4
     DEF Prompt!SendBeat, Gateway!SendBeat, Prompt!Ack, Gateway!Ack, Prompt!Asked,
         Gateway!Asked, Prompt!Break, Gateway!Break, Prompt!Receive, Gateway!Receive,
         Prompt!Selecting, Gateway!Selecting, Prompt!SeqAfter, Gateway!SeqAfter,
         Prompt!beat, Gateway!beat, Prompt!session, Gateway!session, Gateway!Next
<1>5. CASE \/ Prompt!Fetch \/ Prompt!Dial \/ Prompt!Leave \/ Prompt!Hello \/ Prompt!Cancel
           \/ \E kind \in {"ready", "event", "ack", "beat"} : Prompt!Push(kind)
  BY <1>5
     DEF Prompt!Fetch, Gateway!Fetch, Prompt!Dial, Gateway!Dial, Prompt!Leave,
         Gateway!Leave, Prompt!Hello, Gateway!Hello, Prompt!Cancel, Gateway!Cancel,
         Prompt!Push, Gateway!Push, Prompt!beat, Gateway!beat, Prompt!session,
         Gateway!session, Gateway!Next
<1>6. CASE UNCHANGED Prompt!vars
  BY <1>6
     DEF Prompt!vars, Gateway!vars, Prompt!beat, Gateway!beat, Prompt!session,
         Gateway!session
<1> QED
  BY <1>2, <1>3, <1>4, <1>5, <1>6 DEF Prompt!Next

LEMMA GatewaySteps == Gateway!GatewayAssumption => ([Next]_vars => [Gateway!Next]_(Gateway!vars))
<1> SUFFICES ASSUME Gateway!GatewayAssumption, [Next]_vars PROVE [Gateway!Next]_(Gateway!vars)
  OBVIOUS
<1>1. CASE Prompt!Next
  BY <1>1, PromptSteps
<1>2. CASE ~Prompt!Next
  BY <1>2 DEF Next, Runs, vars, gatewayVars, Gateway!vars, Gateway!beat, Gateway!session
<1> QED
  BY <1>1, <1>2

LEMMA GatewayRuns == Spec => Gateway!Spec
<1>1. Init => Gateway!Init
  BY DEF Init
<1>2. [Next]_vars => [Gateway!Next]_(Gateway!vars)
  BY PartAssumptions, GatewaySteps
<1> QED
  BY <1>1, <1>2, PTL DEF Spec, Gateway!Spec

(* The handlers of the part that is prompt. *)
LEMMA PromptBeats == Spec => [](chosen = "prompt gateway" => BeatsTimed)
<1> DEFINE Timed == chosen = "prompt gateway" => BeatsTimed
<1>1. Init => Timed
  BY DEF Init, Gateway!Init, BeatsTimed
<1>2. Timed /\ [Next]_vars => Timed'
  <2> SUFFICES ASSUME Timed, [Next]_vars, chosen' = "prompt gateway" PROVE BeatsTimed'
    OBVIOUS
  <2>1. chosen = "prompt gateway" /\ [Prompt!Next]_(Prompt!vars)
    BY DEF Next, Runs, vars, gatewayVars, Prompt!vars, Prompt!beat, Prompt!session
  <2>2. BeatsTimed /\ busy = 0
    BY <2>1 DEF BeatsTimed
  <2>3. Gateway!GatewayAssumption
    BY PartAssumptions
  <2>4. [Gateway!Next]_(Gateway!vars) /\ busy' = 0
    BY <2>1, <2>2, <2>3, PromptSteps
  <2> QED
    BY <2>2, <2>3, <2>4, BeatsStep
<1> QED
  BY <1>1, <1>2, PTL DEF Spec

LEMMA GroupsRun == Spec /\ chosen = "bridges" => Groups!Spec
<1>1. chosen = "bridges" /\ Init => Groups!Init
  BY DEF Init
<1>2. chosen = "bridges" /\ [Next]_vars => (chosen = "bridges")' /\ [Groups!Next]_(Groups!vars)
  BY DEF Next, Runs, vars, groupVars, Groups!vars
<1> QED
  BY <1>1, <1>2, PTL DEF Spec, Groups!Spec

LEMMA GroupsIdle == Spec /\ ~(chosen = "bridges") => []GroupsRest
<1>1. ~(chosen = "bridges") /\ Init => GroupsRest
  BY DEF Init
<1>2. ~(chosen = "bridges") /\ GroupsRest /\ [Next]_vars => ~(chosen = "bridges")' /\ GroupsRest'
  BY DEF Next, Runs, vars, groupVars, GroupsRest
<1> QED
  BY <1>1, <1>2, PTL DEF Spec

(* A recalled message is never forwarded again, for every retention at     *)
(* least as long as the platforms hand out old events, every set of        *)
(* messages and every order of restarts and cleanups                       *)
(* (MessageStore::prune, prune_recalled).                                  *)
THEOREM NothingResurrected == Spec => NoResurrection
BY PartAssumptions, StoreRuns, StoreResurrectsNothing, PTL DEF NoResurrection

(* For every list of bridges and every choice of configured platforms, a   *)
(* copy is made only where the filter knows the bot's own id: the ready    *)
(* flag waits for all of them (set_*_self_id, check_ready).                *)
THEOREM CopiesKnown == Spec => []CopiesRecognised
<1>1. GroupsRest => Groups!CopiesRecognised
  BY DEF GroupsRest, Groups!CopiesRecognised
<1>2. Groups!Spec => []Groups!CopiesRecognised
  BY PartAssumptions, GroupsKnowCopies
<1> QED
  BY <1>1, <1>2, GroupsRun, GroupsIdle, PTL DEF CopiesRecognised

(* A message goes where one of the configured bridges joins its channel    *)
(* to, and when no two bridges name the same channel what goes one way     *)
(* goes the other (the lookup maps of Bridges::new).                       *)
THEOREM RoutesFollowConfig == Spec => []RoutedAsConfigured
<1>1. GroupsRest => Groups!RoutedAsConfigured
  BY DEF GroupsRest, Groups!RoutedAsConfigured, Groups!WithinBridge,
         Groups!BidirectionalIfDisjoint, Groups!Bidirectional
<1>2. Groups!Spec => []Groups!RoutedAsConfigured
  BY PartAssumptions, GroupsFollowConfig
<1> QED
  BY <1>1, <1>2, GroupsRun, GroupsIdle, PTL DEF RoutedAsConfigured

(* With a bridge that names every configured platform, the bot is ready    *)
(* once the last of them has reported its id, in whatever order.           *)
THEOREM ReadyInTheEnd == Spec => []ReadyIfNamed
<1>1. GroupsRest => Groups!ReadyIfNamed
  BY DEF GroupsRest, Groups!ReadyIfNamed, Groups!ReadyWhenIdentified, Groups!Useful,
         Groups!Senders
<1>2. Groups!Spec => []Groups!ReadyIfNamed
  BY PartAssumptions, GroupsReady
<1> QED
  BY <1>1, <1>2, GroupsRun, GroupsIdle, PTL DEF ReadyIfNamed

(* Every heartbeat reports the last dispatch of its own connection; and    *)
(* with a period Discord allows, it hears one in time where handlers take  *)
(* no time, whatever is dispatched, acknowledged, asked for or broken off  *)
(* (the inner loop of the Discord client and its keepalive task).          *)
THEOREM HeartbeatsKept == Spec => []HeartbeatsRight
<1>1. Gateway!Spec => []Gateway!HeartbeatsRight
  BY PartAssumptions, GatewayHeartbeats
<1>2. Gateway!HeartbeatsRight /\ (chosen = "prompt gateway" => BeatsTimed) => HeartbeatsRight
  <2>1. Gateway!HeartbeatsRight => Prompt!SeqReported
    BY DEF Gateway!HeartbeatsRight, Gateway!SeqReported, Prompt!SeqReported
  <2>2. BeatsTimed => Prompt!HeartbeatInTime
    BY PartAssumptions DEF Gateway!GatewayAssumption, BeatsTimed, Prompt!HeartbeatInTime
  <2> QED
    BY <2>1, <2>2 DEF HeartbeatsRight, Prompt!HeartbeatsRight
<1> QED
  BY <1>1, <1>2, GatewayRuns, PromptBeats, PTL

(* Whatever crashes, stops, lost answers and second clients do: no update  *)
(* is confirmed to Telegram before a handler has finished with it, between *)
(* the first event it was shown and its cursor a Matrix client has left    *)
(* out nothing but what the server did, and no client handles an event     *)
(* twice or out of order (the two run loops, offset and since token).      *)
THEOREM CursorsKept == Spec => []CursorHonest
<1>1. Telegram!Spec => []Telegram!CursorHonest
  BY PartAssumptions, TelegramUpdates
<1>2. Matrix!Spec => []Matrix!CursorHonest
  BY PartAssumptions, MatrixEvents
<1> QED
  BY <1>1, <1>2, TelegramRuns, MatrixRuns, PTL DEF CursorHonest

(* However slow a window and however small the ring: what a window has     *)
(* shown are the lines since it was opened, each once and in order, with   *)
(* the number of the missing ones where some are missing (the broadcast    *)
(* ring, the task that reads it and the bounded channel).                  *)
THEOREM LinesAccounted == Spec => []Accounted
<1>1. LogTyped => Log!Accounted
  BY CountsAccounted DEF LogTyped
<1>2. Log!Spec => []LogTyped
  BY PartAssumptions, LogLines
<1> QED
  BY <1>1, <1>2, LogRuns, PTL DEF Accounted

(* Every part keeps the shape of its state, and what its bounds promise:   *)
(* an offset within what has arrived, a batch no longer than the server    *)
(* gives, one event to a transaction id, a heartbeat's ticks within their  *)
(* period, a slot that holds a runtime nobody has dropped.                 *)
THEOREM ShapesKept == Spec => []TypeInv
<1>1. /\ Gateway!GatewayAssumption /\ Telegram!PollAssumption /\ Matrix!SyncAssumption
      /\ Transactions!MatrixSendAssumption /\ Sending!SendersAssumption /\ Cq!CqAssumption
      /\ Bot!ControllerAssumption /\ WindowConfigs \subseteq Configs /\ Log!RingAssumption
      /\ Store!RetentionAssumption
  BY PartAssumptions
<1>2. Spec => []Gateway!TypeInv
  <2>1. GatewayTyped => Gateway!TypeInv
    BY DEF GatewayTyped
  <2> QED
    BY <1>1, <2>1, GatewayTypes, GatewayRuns, PTL
<1>3. Spec => [](chosen = "prompt gateway" => Prompt!TypeInv)
  <2>1. GatewayTyped /\ BeatsTimed => Prompt!TypeInv
    BY PromptShapes DEF GatewayTyped
  <2> QED
    BY <1>1, <2>1, GatewayTypes, GatewayRuns, PromptBeats, PTL
<1>4. Spec => []Telegram!TypeInv
  BY <1>1, TelegramTypes, TelegramShapes, TelegramRuns, PTL
<1>5. Spec => []Matrix!TypeInv
  BY <1>1, MatrixTypes, MatrixShapes, MatrixRuns, PTL
<1>6. Spec => []Transactions!TypeInv
  BY <1>1, TransactionsType, TransactionShapes, TransactionsRun, PTL
<1>7. Spec => [](chosen = "send" => Sending!TypeInv)
  <2>1. SendingInv => Sending!TypeInv
    BY <1>1, SendingMeant
  <2>2. Sending!Spec => []SendingInv
    BY <1>1, SendingSafe
  <2>3. ~(chosen = "send") /\ [Next]_vars => ~(chosen = "send")'
    BY DEF Next, Runs, vars
  <2> QED
    BY <2>1, <2>2, <2>3, SendRun, PTL DEF Spec
<1>8. Spec => [](chosen = "codes" => Cq!TypeInv)
  <2>1. CodesInv => Cq!TypeInv
    BY <1>1, CodesTyped
  <2>2. Cq!Spec => []CodesInv
    BY <1>1, CodesSafe
  <2>3. ~(chosen = "codes") /\ [Next]_vars => ~(chosen = "codes")'
    BY DEF Next, Runs, vars
  <2> QED
    BY <2>1, <2>2, <2>3, CodesRun, PTL DEF Spec
<1>9. Spec => []Bot!BotTypeInv
  <2>1. BotSafe => Bot!BotTypeInv
    BY DEF BotSafe
  <2> QED
    BY <2>1, FrontEndsSafe, PTL
<1>10. Spec => [](chosen = "gui" => Window!GuiTypeInv)
  <2>1. Window!Spec => []Window!GuiTypeInv
    BY <1>1, WindowShapes
  <2>2. ~(chosen = "gui") /\ [Next]_vars => ~(chosen = "gui")'
    BY DEF Next, Runs, vars
  <2>3. chosen = "gui" => chosen \notin {"webui", "cli"}
    OBVIOUS
  <2> QED
    BY <2>1, <2>2, <2>3, WindowRuns, PTL DEF Spec
<1>11. Spec => []Log!TypeInv
  <2>1. LogTyped => Log!TypeInv
    BY <1>1, LogShapes
  <2> QED
    BY <1>1, <2>1, LogLines, LogRuns, PTL
<1>12. Spec => [](chosen = "bridges" => Groups!TypeInv)
  <2>1. Groups!Spec => []Groups!TypeInv
    BY GroupsTyped
  <2>2. ~(chosen = "bridges") /\ [Next]_vars => ~(chosen = "bridges")'
    BY DEF Next, Runs, vars
  <2> QED
    BY <2>1, <2>2, GroupsRun, PTL DEF Spec
<1>13. Spec => []Store!TypeInv
  BY <1>1, StoreTyped, StoreRuns, PTL
<1>14. /\ OneBot!TypeInv /\ Gateway!TypeInv /\ (chosen = "prompt gateway" => Prompt!TypeInv)
       /\ Telegram!TypeInv /\ Matrix!TypeInv /\ Transactions!TypeInv
       /\ (chosen = "send" => Sending!TypeInv) /\ (chosen = "codes" => Cq!TypeInv)
       /\ Bot!BotTypeInv /\ (chosen = "gui" => Window!GuiTypeInv) /\ Log!TypeInv
       /\ (chosen = "bridges" => Groups!TypeInv) /\ Store!TypeInv
       => TypeInv
  BY DEF TypeInv
<1> QED
  BY <1>2, <1>3, <1>4, <1>5, <1>6, <1>7, <1>8, <1>9, <1>10, <1>11, <1>12, <1>13, <1>14,
     TypeInvariant, PTL
=============================================================================
