---------------------------- MODULE BridgeProofs ----------------------------
(***************************************************************************)
(* The type invariant of Bridge for every list of senders and every bound: *)
(* TypeOK, and Shape, which says that the fields a handler reads are set   *)
(* at the steps that read them.                                            *)
(*                                                                         *)
(* On it rests Ownership: the bridge never forwards, deletes or hushes     *)
(* what is not its own.  The bot never echoes itself, it only deletes      *)
(* copies of the message a recall names, and the suppression of its own    *)
(* deletions never hides a person's.                                       *)
(*                                                                         *)
(* Last, Bridge implements Mirror.                                         *)
(***************************************************************************)
EXTENDS Bridge, SequenceTheorems, TLAPS

LEMMA PlatsArePlatforms == Plats \subseteq Platform
BY BridgeAssumption DEF Plats

LEMMA BoundsNat == MaxGen \in Nat /\ MaxExtra \in Nat
BY BridgeAssumption

LEMMA SendersSeq == Senders \in Seq(Plats) /\ (Plats # {} => Senders # <<>>)
<1>1. Senders \in Seq(Platform)
  BY BridgeAssumption
<1>2. \A i \in 1..Len(Senders) : Senders[i] \in Plats
  BY <1>1 DEF Plats
<1> QED
  BY <1>1, <1>2 DEF Plats

(* A message posted or created on a platform of the bridge has an id. *)
LEMMA NewEndpoint ==
    ASSUME NEW p \in Plats, NEW i \in Nat
    PROVE  <<p, i>> \in Endpoint
BY PlatsArePlatforms DEF Endpoint

----------------------------------------------------------------------------
(* Types of the store operators.                                           *)

LEMMA RelatedType ==
    ASSUME NEW rs \in SUBSET Row(Groups), NEW g, NEW e
    PROVE  Related(rs, g, e) \ {e} \subseteq Endpoint
BY DEF Related, Reach, Ends, Row

LEMMA QueryType ==
    ASSUME NEW rs \in SUBSET Row(Groups), NEW g, NEW e
    PROVE  Query(rs, g, e) \subseteq Endpoint
BY DEF Query, Touching, Ends, Row

LEMMA InsertType ==
    ASSUME NEW rs \in SUBSET Row(Groups), NEW i \in Nat,
           NEW src \in Endpoint, NEW dst \in Endpoint
    PROVE  Insert(rs, i, Group, src, dst) \in SUBSET Row(Groups)
BY BridgeAssumption DEF Insert, Row

----------------------------------------------------------------------------
(* Pieces of actions several steps of the type proof share.                *)

LEMMA IdleTask == Idle \in Task /\ Gone \in Task
<1>1. <<>> \in Seq(Plats)
  OBVIOUS
<1> QED
  BY <1>1 DEF Idle, Gone, Task, PCs

LEMMA TailSeq ==
    ASSUME NEW S, NEW s \in Seq(S), s # <<>>
    PROVE  /\ Head(s) \in S
           /\ Tail(s) \in Seq(S)
           /\ Len(s) # 1 => Tail(s) # <<>>
<1>1. Head(s) \in S /\ Tail(s) \in Seq(S) /\ Len(Tail(s)) = Len(s) - 1 /\ Len(s) \in Nat
  BY HeadTailProperties, LenProperties
<1>2. Len(<<>>) = 0
  OBVIOUS
<1>3. Tail(s) = <<>> => Len(Tail(s)) = 0
  BY <1>2
<1> QED
  BY <1>1, <1>3

(* A step that gives one client a new task. *)
LEMMA SetTask ==
    ASSUME TypeInv, NEW c \in Clients, NEW t \in Task, Shape(t),
           task' = [task EXCEPT ![c] = t]
    PROVE  task' \in [Clients -> Task] /\ \A k \in Clients : Shape(task'[k])
<1>1. task \in [Clients -> Task] /\ \A k \in Clients : Shape(task[k])
  BY DEF TypeInv, TypeOK
<1>2. \A k \in Clients : task'[k] = IF k = c THEN t ELSE task[k]
  BY <1>1
<1> QED
  BY <1>1, <1>2

(* A step that only moves its program counter. *)
LEMMA Moves ==
    ASSUME TypeInv, NEW c \in Clients, NEW pc \in PCs, Goto(c, pc),
           pc \notin Resting => task[c].msg \in Endpoint,
           pc \in Fanning => task[c].left # <<>>,
           pc \in Holding => task[c].dst \in Endpoint
    PROVE  task' \in [Clients -> Task] /\ \A k \in Clients : Shape(task'[k])
<1> DEFINE t == [task[c] EXCEPT !.pc = pc]
<1>1. task[c] \in Task
  BY DEF TypeInv, TypeOK
<1>2. t \in Task /\ Shape(t)
  BY <1>1 DEF Task, Shape
<1>3. task' = [task EXCEPT ![c] = t]
  BY DEF Goto
<1> QED
  BY <1>2, <1>3, SetTask

LEMMA IdleShape == Shape(Idle) /\ Shape(Gone)
BY DEF Shape, Idle, Gone, Resting, Fanning, Holding

(* Going to the next target, or back to the event loop. *)
LEMMA NextTargetType ==
    ASSUME TypeInv, NEW c \in Clients, task[c].pc \in Fanning, NextTarget(c)
    PROVE  task' \in [Clients -> Task] /\ \A k \in Clients : Shape(task'[k])
<1> DEFINE t == task[c]
<1>1. t \in Task /\ t.left \in Seq(Plats) /\ t.left # <<>> /\ t.msg \in Endpoint
  BY DEF TypeInv, TypeOK, Shape, Task, Fanning, Resting
<1>2. Tail(t.left) \in Seq(Plats) /\ (Len(t.left) # 1 => Tail(t.left) # <<>>)
  BY <1>1, TailSeq
<1>3. CASE Len(t.left) = 1
  BY <1>3, IdleTask, IdleShape, SetTask DEF NextTarget
<1>4. CASE Len(t.left) # 1
  <2>1. Rest(t) \in Task /\ Shape(Rest(t))
    BY <1>1, <1>2, <1>4 DEF Rest, Task, PCs, Shape, Resting, Fanning, Holding
  <2>2. task' = [task EXCEPT ![c] = Rest(t)]
    BY <1>4 DEF NextTarget
  <2> QED
    BY <2>1, <2>2, SetTask
<1> QED
  BY <1>3, <1>4

(* Spending from a bound keeps the counters natural numbers. *)
LEMMA SpendType ==
    ASSUME TypeOK, NEW what \in Bounds, NEW max, Spend(what, max)
    PROVE  used' \in [Bounds -> Nat]
BY DEF TypeOK, ControlOK, Spend

(* Appending one event to one platform's log. *)
LEMMA LogType ==
    ASSUME TypeOK, NEW p \in Plats, NEW kind \in {"create", "delete"},
           NEW m \in Endpoint, NEW r \in Endpoint \cup {NoMsg}
    PROVE  [log EXCEPT ![p] = Append(@, Event(kind, m, r))] \in [Plats -> Seq(Events)]
<1>1. Event(kind, m, r) \in Events
  BY DEF Event, Events
<1>2. Append(log[p], Event(kind, m, r)) \in Seq(Events)
  BY <1>1, AppendProperties DEF TypeOK, PlatformOK
<1> QED
  BY <1>2 DEF TypeOK, PlatformOK

----------------------------------------------------------------------------
(* The type invariant, group of actions by group of actions.               *)

LEMMA InitType == Init => TypeInv
<1> SUFFICES ASSUME Init PROVE TypeInv
  OBVIOUS
<1>1. PlatformOK
  BY DEF Init, PlatformOK
<1>2. StoreOK
  BY DEF Init, StoreOK
<1>3. MemoryOK
  BY DEF Init, MemoryOK
<1>4. ControlOK /\ GhostsOK
  <2>1. gen \in 0..MaxGen
    BY BoundsNat DEF Init
  <2>2. running \in BOOLEAN
    BY Zenon DEF Init
  <2>3. used \in [Bounds -> Nat] /\ GhostsOK
    BY DEF Init, GhostsOK
  <2> QED
    BY <2>1, <2>2, <2>3 DEF ControlOK
<1>5. pos \in [Clients -> Nat] /\ task \in [Clients -> Task] /\ \A c \in Clients : Shape(task[c])
  BY IdleTask, IdleShape DEF Init
<1> QED
  BY <1>1, <1>2, <1>3, <1>4, <1>5 DEF TypeInv, TypeOK

LEMMA UsersType ==
    ASSUME TypeInv, Users
    PROVE  TypeInv'
<1> USE DEF TypeInv
<1>1. ASSUME NEW p \in Plats, NEW r \in Endpoint \cup {NoMsg}, Post(p, r)
      PROVE  TypeInv'
  <2>1. next[p] \in Nat
    BY DEF TypeOK, PlatformOK
  <2>2. <<p, next[p] + 1>> \in Endpoint
    BY <2>1, NewEndpoint
  <2>3. PlatformOK'
    BY <1>1, <2>1, <2>2, LogType DEF TypeOK, PlatformOK, Post
  <2>4. used' \in [Bounds -> Nat]
    BY <1>1, SpendType DEF Post, Bounds
  <2> QED
    BY <1>1, <2>3, <2>4 DEF Post, TypeOK, StoreOK, MemoryOK, ControlOK, GhostsOK,
                            store, flags, control, ghosts
<1>2. ASSUME NEW m \in live, Delete(m)
      PROVE  TypeInv'
  <2>1. m \in Endpoint /\ m[1] \in Plats
    BY PlatsArePlatforms DEF TypeOK, PlatformOK, Endpoint
  <2>2. PlatformOK'
    BY <1>2, <2>1, LogType DEF TypeOK, PlatformOK, Delete
  <2>3. used' \in [Bounds -> Nat]
    BY <1>2, SpendType DEF Delete, Bounds
  <2> QED
    BY <1>2, <2>2, <2>3 DEF Delete, TypeOK, StoreOK, MemoryOK, ControlOK, GhostsOK,
                            store, flags, control, ghosts
<1>3. Posters \subseteq Plats
  BY BridgeAssumption
<1>4. ASSUME NEW p \in Posters PROVE {<<p, i>> : i \in 1..next[p]} \subseteq Endpoint
  BY <1>3, NewEndpoint DEF TypeOK, PlatformOK
<1> QED
  BY <1>1, <1>2, <1>3, <1>4 DEF Users

(* Steps that touch nothing but one client's position and memory. *)
LEMMA HearingType ==
    ASSUME TypeInv, NEW c \in Clients, Identify(c) \/ IgnoreCreate(c) \/ MissEvents(c)
    PROVE  TypeInv'
<1> USE DEF TypeInv
<1>1. c[1] \in Gens /\ c[2] \in Plats
  BY DEF Clients
<1>2. \A p \in Plats : Len(log[p]) \in Nat
  BY LenProperties DEF TypeOK, PlatformOK
<1>3. CASE Identify(c)
  <2>1. FirstRead(c[2]) \subseteq Nat
    BY <1>1, <1>2, PlatsArePlatforms DEF FirstRead, Platform
  <2>2. pos' \in [Clients -> Nat]
    BY <1>3, <2>1 DEF Identify, TypeOK
  <2>3. known' \in [Gens -> SUBSET Plats]
    BY <1>1, <1>3 DEF Identify, TypeOK, MemoryOK
  <2>4. ready' \in [Gens -> BOOLEAN]
    <3>1. ready' = [ready EXCEPT ![c[1]] = ready[c[1]] \/ Plats \subseteq known'[c[1]]]
      BY <1>3 DEF Identify, AllKnown
    <3>2. (ready[c[1]] \/ Plats \subseteq known'[c[1]]) \in BOOLEAN
      BY Zenon
    <3> QED
      BY <3>1, <3>2 DEF TypeOK, MemoryOK
  <2> QED
    BY <1>3, <2>2, <2>3, <2>4 DEF Identify, TypeOK, PlatformOK, StoreOK, MemoryOK, ControlOK,
                                  GhostsOK, platform, store, control, ghosts
<1>4. CASE IgnoreCreate(c)
  <2>1. pos' \in [Clients -> Nat]
    BY <1>4 DEF IgnoreCreate, Take, TypeOK
  <2> QED
    BY <1>4, <2>1 DEF IgnoreCreate, TypeOK, PlatformOK, StoreOK, MemoryOK, ControlOK, GhostsOK,
                      platform, store, flags, control, ghosts
<1>5. CASE MissEvents(c)
  <2>1. pos' \in [Clients -> Nat]
    BY <1>1, <1>2, <1>5 DEF MissEvents, TypeOK
  <2>2. used' \in [Bounds -> Nat]
    BY <1>5, SpendType DEF MissEvents, Bounds
  <2> QED
    BY <1>5, <2>1, <2>2 DEF MissEvents, TypeOK, PlatformOK, StoreOK, MemoryOK, ControlOK, GhostsOK,
                            platform, store, flags, control, ghosts
<1> QED
  BY <1>3, <1>4, <1>5

(* What a client hears is an event of the log. *)
LEMMA HeardType ==
    ASSUME TypeInv, NEW c \in Clients, Hears(c)
    PROVE  Heard(c) \in Events /\ pos[c] + 1 \in DOMAIN log[c[2]]
<1>1. c[2] \in Plats
  BY DEF Clients
<1>2. log[c[2]] \in Seq(Events) /\ pos[c] \in Nat
  BY <1>1 DEF TypeInv, TypeOK, PlatformOK
<1>3. Len(log[c[2]]) \in Nat /\ DOMAIN log[c[2]] = 1..Len(log[c[2]])
      /\ log[c[2]] \in [1..Len(log[c[2]]) -> Events]
  BY <1>2, LenProperties
<1>4. pos[c] + 1 \in 1..Len(log[c[2]])
  BY <1>2, <1>3 DEF Hears
<1> QED
  BY <1>3, <1>4 DEF Heard

(* The steps of forward that leave the platforms and the store alone. *)
LEMMA FanoutType ==
    ASSUME TypeInv, NEW c \in Clients,
           \/ BeginForward(c) \/ SkipOwn(c) \/ StopForward(c) \/ SendTo(c) \/ KeepCopy(c)
           \/ EndsForGood(c)
    PROVE  TypeInv'
<1> USE DEF TypeInv
<1>0. task[c] \in Task /\ Shape(task[c])
  BY DEF TypeOK
<1>1. CASE BeginForward(c)
  <2> DEFINE m == Heard(c).msg
             t == [Idle EXCEPT !.pc = "fanout", !.msg = m, !.left = Senders,
                               !.reply = ReplyRecord(Heard(c).replied)]
  <2>1. Heard(c) \in Events
    BY <1>1, HeardType DEF BeginForward
  <2>2. m \in Endpoint
    BY <2>1 DEF Events
  <2>3. ReplyRecord(Heard(c).replied) \subseteq Endpoint
    BY QueryType DEF ReplyRecord, TypeOK, StoreOK
  <2>4. Senders \in Seq(Plats) /\ Senders # <<>>
    BY SendersSeq DEF Clients
  <2>5. t \in Task /\ Shape(t)
    BY <2>2, <2>3, <2>4 DEF Idle, Task, PCs, Shape, Resting, Fanning, Holding
  <2>6. task' = [task EXCEPT ![c] = t] /\ pos' = [pos EXCEPT ![c] = pos[c] + 1]
    BY <1>1 DEF BeginForward, Take
  <2> HIDE DEF t
  <2>7. task' \in [Clients -> Task] /\ \A k \in Clients : Shape(task'[k])
    BY <2>5, <2>6, SetTask
  <2>8. pos' \in [Clients -> Nat]
    BY <2>6 DEF TypeOK
  <2> QED
    BY <1>1, <2>7, <2>8 DEF BeginForward, TypeOK, PlatformOK, StoreOK, MemoryOK, ControlOK,
                            GhostsOK, platform, store, flags, control, ghosts
<1>2. ASSUME task' \in [Clients -> Task], \A k \in Clients : Shape(task'[k]),
             UNCHANGED <<platform, pos, store, suppressed, flags, control, used, ghosts>>
      PROVE  TypeInv'
  BY <1>2 DEF TypeOK, PlatformOK, StoreOK, MemoryOK, ControlOK, GhostsOK,
              platform, store, flags, control, ghosts
<1>3. CASE SkipOwn(c)
  BY <1>2, <1>3, NextTargetType DEF SkipOwn, At, Fanning
<1>4. CASE StopForward(c)
  BY <1>2, <1>4, IdleTask, IdleShape, SetTask DEF StopForward
<1>5. CASE SendTo(c)
  BY <1>0, <1>2, <1>5, Moves DEF SendTo, At, PCs, Shape, Resting, Fanning, Holding
<1>6. CASE KeepCopy(c)
  BY <1>0, <1>2, <1>6, Moves DEF KeepCopy, At, PCs, Shape, Resting, Fanning, Holding
<1>7. CASE EndsForGood(c)
  <2>1. task' \in [Clients -> Task] /\ \A k \in Clients : Shape(task'[k])
    BY <1>7, IdleTask, IdleShape, SetTask DEF EndsForGood
  <2>2. used' \in [Bounds -> Nat]
    BY <1>7, SpendType DEF EndsForGood, Bounds
  <2> QED
    BY <1>7, <2>1, <2>2 DEF EndsForGood, TypeOK, PlatformOK, StoreOK, MemoryOK, ControlOK, GhostsOK,
                            platform, store, flags, control, ghosts
<1> QED
  BY <1>1, <1>3, <1>4, <1>5, <1>6, <1>7

(* A send that fails, or whose answer is lost. *)
LEMMA FailureType ==
    ASSUME TypeInv, NEW c \in Clients, SendFails(c) \/ AnswerLost(c) \/ AnswerUnread(c)
    PROVE  TypeInv'
<1> USE DEF TypeInv
<1>1. task' \in [Clients -> Task] /\ \A k \in Clients : Shape(task'[k])
  BY NextTargetType DEF SendFails, AnswerLost, AnswerUnread, At, Fanning
<1>2. used' \in [Bounds -> Nat]
  <2>1. used' = used \/ Spend("faults", MaxFaults)
    BY DEF SendFails, AnswerLost, AnswerUnread
  <2> QED
    BY <2>1, SpendType DEF Bounds, TypeOK, ControlOK
<1>3. CASE SendFails(c)
  BY <1>1, <1>2, <1>3 DEF SendFails, TypeOK, PlatformOK, StoreOK, MemoryOK, ControlOK, GhostsOK,
                          platform, store, flags, control, ghosts
<1>4. CASE AnswerLost(c) \/ AnswerUnread(c)
  <2>1. task[c].dst \in Endpoint
    BY <1>4 DEF AnswerLost, AnswerUnread, At, Shape, Holding
  <2> QED
    BY <1>1, <1>2, <1>4, <2>1 DEF AnswerLost, AnswerUnread, TypeOK, PlatformOK, StoreOK, MemoryOK,
                                  ControlOK, GhostsOK, platform, store, flags, control
<1> QED
  BY <1>3, <1>4

(* The events an album of n messages leaves in the log. *)
LEMMA AlbumEvents ==
    ASSUME NEW p \in Plats, NEW k \in Nat, NEW n \in Nat
    PROVE  [i \in 1..n |-> Event("create", <<p, k + i>>, NoMsg)] \in Seq(Events)
<1>1. \A i \in 1..n : Event("create", <<p, k + i>>, NoMsg) \in Events
  BY NewEndpoint DEF Event, Events
<1>2. [i \in 1..n |-> Event("create", <<p, k + i>>, NoMsg)] \in [1..n -> Events]
  BY <1>1
<1> QED
  BY <1>2

LEMMA LandingType ==
    ASSUME TypeInv, NEW c \in Clients, SendLands(c)
    PROVE  TypeInv'
<1> USE DEF TypeInv
<1> DEFINE m == task[c].msg
           p == Head(task[c].left)
           New(n) == {<<p, i>> : i \in (next[p] + 1)..(next[p] + n)}
           echo(n) == [i \in 1..n |-> Event("create", <<p, next[p] + i>>, NoMsg)]
           t == [task[c] EXCEPT !.pc = "landed", !.dst = <<p, next[p] + 1>>]
<1>1. task[c] \in Task /\ task[c].left \in Seq(Plats) /\ task[c].left # <<>> /\ m \in Endpoint
  BY DEF SendLands, At, TypeOK, Task, Shape, Resting, Fanning
<1>2. p \in Plats
  BY <1>1, TailSeq
<1>3. next[p] \in Nat /\ log[p] \in Seq(Events)
  BY <1>2 DEF TypeOK, PlatformOK
<1>4. PICK n \in Parts(p) :
        /\ next' = [next EXCEPT ![p] = next[p] + n]
        /\ live' = live \cup New(n)
        /\ copyOf' = copyOf \cup {<<d, m>> : d \in New(n)}
        /\ log' = IF p \in Echoes THEN [log EXCEPT ![p] = log[p] \o echo(n)] ELSE log
        /\ late' = IF IsMarked(m) THEN late \cup New(n) ELSE late
  BY DEF SendLands
<1>5. n \in Nat
  BY BoundsNat DEF Parts
<1>6. New(n) \subseteq Plats \X Nat /\ New(n) \subseteq Endpoint
  BY <1>2, <1>3, <1>5, NewEndpoint
<1>7. PlatformOK'
  <2>1. next' \in [Plats -> Nat]
    BY <1>2, <1>3, <1>4, <1>5 DEF TypeOK, PlatformOK
  <2>2. log[p] \o echo(n) \in Seq(Events)
    BY <1>2, <1>3, <1>5, AlbumEvents, ConcatProperties
  <2>3. log' \in [Plats -> Seq(Events)]
    BY <1>2, <1>4, <2>2 DEF TypeOK, PlatformOK
  <2>4. live' \subseteq Plats \X Nat /\ copyOf' \subseteq Endpoint \X Endpoint
    BY <1>1, <1>4, <1>6 DEF TypeOK, PlatformOK
  <2> QED
    BY <2>1, <2>3, <2>4 DEF PlatformOK
<1>8. late' \subseteq Endpoint
  BY <1>4, <1>6 DEF TypeOK, GhostsOK
<1>9. task' \in [Clients -> Task] /\ \A k \in Clients : Shape(task'[k])
  <2>1. <<p, next[p] + 1>> \in Endpoint
    BY <1>2, <1>3, NewEndpoint
  <2>2. t \in Task /\ Shape(t)
    BY <1>1, <2>1 DEF Task, PCs, Shape, Resting, Fanning, Holding
  <2>3. task' = [task EXCEPT ![c] = t]
    BY DEF SendLands
  <2> QED
    BY <2>2, <2>3, SetTask
<1> QED
  BY <1>7, <1>8, <1>9 DEF SendLands, TypeOK, StoreOK, MemoryOK, ControlOK, GhostsOK,
                          store, flags, control

(* delete_message, whatever comes of it. *)
LEMMA DeletionType ==
    ASSUME TypeInv, NEW c \in Clients, task[c].dst \in Endpoint, Deletion(c)
    PROVE  /\ PlatformOK' /\ GhostsOK'
           /\ suppressed' \in [Gens -> SUBSET Endpoint]
           /\ used' \in [Bounds -> Nat]
<1> USE DEF TypeInv
<1> DEFINE d == task[c].dst
<1>1. ASSUME Removed(d), UNCHANGED <<next, copyOf>> PROVE PlatformOK'
  <2>1. d \in live => d[1] \in Plats
    BY DEF TypeOK, PlatformOK
  <2>2. log' \in [Plats -> Seq(Events)]
    BY <1>1, <2>1, LogType DEF Removed, TypeOK, PlatformOK
  <2> QED
    BY <1>1, <2>2 DEF Removed, TypeOK, PlatformOK
<1>2. ASSUME Unsuppress(c) PROVE suppressed' \in [Gens -> SUBSET Endpoint]
  BY <1>2 DEF Unsuppress, TypeOK, MemoryOK
<1>3. ASSUME Spend("faults", MaxFaults) PROVE used' \in [Bounds -> Nat]
  BY <1>3, SpendType DEF Bounds
<1>4. ASSUME Refused(d), UNCHANGED <<next, copyOf, late, unrouted>> PROVE PlatformOK' /\ GhostsOK'
  BY <1>4 DEF Refused, TypeOK, PlatformOK, GhostsOK
<1>5. PlatformOK' /\ GhostsOK'
  <2>1. (Removed(d) /\ UNCHANGED refused) \/ Refused(d)
    BY DEF Deletion
  <2>2. UNCHANGED <<next, copyOf, late, unrouted>>
    BY DEF Deletion
  <2>3. CASE Removed(d) /\ UNCHANGED refused
    BY <1>1, <2>2, <2>3 DEF TypeOK, GhostsOK
  <2> QED
    BY <1>4, <2>1, <2>2, <2>3
<1>6. suppressed' \in [Gens -> SUBSET Endpoint]
  <2>1. Unsuppress(c) \/ UNCHANGED suppressed
    BY DEF Deletion
  <2> QED
    BY <1>2, <2>1 DEF TypeOK, MemoryOK
<1>7. used' \in [Bounds -> Nat]
  <2>1. Spend("faults", MaxFaults) \/ UNCHANGED used
    BY DEF Deletion
  <2> QED
    BY <1>3, <2>1 DEF TypeOK, ControlOK
<1> QED
  BY <1>5, <1>6, <1>7

(* The end of a send: undo the copy if need be, write the route. *)
LEMMA RoutingType ==
    ASSUME TypeInv, NEW c \in Clients, UndoCopy(c) \/ CleanUp(c) \/ InsertRoute(c)
    PROVE  TypeInv'
<1> USE DEF TypeInv
<1>0. c[1] \in Gens /\ task[c] \in Task /\ Shape(task[c])
  BY DEF Clients, TypeOK
<1>1. task[c].dst \in Endpoint /\ task[c].msg \in Endpoint /\ task[c].left # <<>>
  BY <1>0 DEF UndoCopy, CleanUp, InsertRoute, At, Shape, Resting, Fanning, Holding
<1>2. CASE UndoCopy(c)
  <2>1. suppressed' \in [Gens -> SUBSET Endpoint]
    BY <1>0, <1>1, <1>2 DEF UndoCopy, Suppress, TypeOK, MemoryOK
  <2>2. task' \in [Clients -> Task] /\ \A k \in Clients : Shape(task'[k])
    BY <1>1, <1>2, Moves DEF UndoCopy, PCs
  <2> QED
    BY <1>2, <2>1, <2>2 DEF UndoCopy, TypeOK, PlatformOK, StoreOK, MemoryOK, ControlOK,
                            GhostsOK, platform, store, flags, control, ghosts
<1>3. CASE CleanUp(c)
  <2>1. task' \in [Clients -> Task] /\ \A k \in Clients : Shape(task'[k])
    BY <1>1, <1>3, Moves DEF CleanUp, PCs
  <2>2. /\ PlatformOK' /\ GhostsOK'
        /\ suppressed' \in [Gens -> SUBSET Endpoint] /\ used' \in [Bounds -> Nat]
    BY <1>1, <1>3, DeletionType DEF CleanUp
  <2> QED
    BY <1>3, <2>1, <2>2 DEF CleanUp, TypeOK, StoreOK, MemoryOK, ControlOK, store, flags, control
<1>4. CASE InsertRoute(c)
  <2>1. rows' \subseteq Row(Groups) /\ nextRow' \in Nat
    BY <1>1, <1>4, InsertType DEF InsertRoute, TypeOK, StoreOK
  <2>2. task' \in [Clients -> Task] /\ \A k \in Clients : Shape(task'[k])
    BY <1>4, NextTargetType DEF InsertRoute, At, Fanning
  <2> QED
    BY <1>4, <2>1, <2>2 DEF InsertRoute, TypeOK, PlatformOK, StoreOK, MemoryOK, ControlOK,
                            GhostsOK, platform, flags, control, ghosts
<1> QED
  BY <1>2, <1>3, <1>4

(* A recall's next step: the next copy to delete, or none left. *)
LEMMA RecallingType ==
    ASSUME NEW t \in Task, t.msg \in Endpoint, NEW S \in SUBSET Endpoint
    PROVE  Recalling(t, S) \in Task /\ Shape(Recalling(t, S))
<1>1. CASE S = {}
  BY <1>1, IdleTask, IdleShape DEF Recalling
<1>2. CASE S # {}
  BY <1>2 DEF Recalling, Task, PCs, Shape, Resting, Fanning, Holding
<1> QED
  BY <1>1, <1>2

LEMMA RecallType ==
    ASSUME TypeInv, NEW c \in Clients, RecallSteps(c)
    PROVE  TypeInv'
<1> USE DEF TypeInv
<1>0. c[1] \in Gens /\ task[c] \in Task /\ Shape(task[c])
  BY DEF Clients, TypeOK
<1>1. CASE HandleDelete(c)
  <2> DEFINE m == Heard(c).msg
             t == [Idle EXCEPT !.pc = "marking", !.msg = m]
  <2>1. m \in Endpoint
    BY <1>1, HeardType DEF HandleDelete, Events
  <2>2. t \in Task /\ Shape(t)
    BY <2>1, IdleTask DEF Idle, Task, PCs, Shape, Resting, Fanning, Holding
  <2> HIDE DEF t
  <2>3. task' \in [Clients -> Task] /\ \A k \in Clients : Shape(task'[k])
    <3>1. CASE Recallable(c, m)
      BY <1>1, <2>2, <3>1, SetTask DEF HandleDelete, t
    <3>2. CASE ~Recallable(c, m)
      BY <1>1, <3>2 DEF HandleDelete, TypeOK
    <3> QED
      BY <3>1, <3>2
  <2>4. suppressed' \in [Gens -> SUBSET Endpoint]
    BY <1>0, <1>1 DEF HandleDelete, TypeOK, MemoryOK
  <2>5. pos' \in [Clients -> Nat]
    BY <1>1 DEF HandleDelete, Take, TypeOK
  <2> QED
    BY <1>1, <2>3, <2>4, <2>5 DEF HandleDelete, TypeOK, PlatformOK, StoreOK, MemoryOK,
                                  ControlOK, GhostsOK, platform, store, flags, control, ghosts
<1>2. CASE Mark(c)
  <2>1. task[c].msg \in Endpoint
    BY <1>0, <1>2 DEF Mark, At, Shape, Resting
  <2>2. recalled' \subseteq Groups \X Endpoint
    BY <1>2, <2>1, BridgeAssumption DEF Mark, MarkRecalled, TypeOK, StoreOK
  <2>3. task' \in [Clients -> Task] /\ \A k \in Clients : Shape(task'[k])
    BY <1>2, <2>1, Moves DEF Mark, PCs, Fanning, Holding
  <2> QED
    BY <1>2, <2>2, <2>3 DEF Mark, TypeOK, PlatformOK, StoreOK, MemoryOK, ControlOK, GhostsOK,
                            platform, flags, control, ghosts
<1>3. CASE LookUp(c)
  <2>1. task[c].msg \in Endpoint
    BY <1>0, <1>3 DEF LookUp, At, Shape, Resting
  <2>2. Linked(task[c].msg) \subseteq Endpoint
    BY RelatedType DEF Linked, TypeOK, StoreOK
  <2>3. task' \in [Clients -> Task] /\ \A k \in Clients : Shape(task'[k])
    BY <1>0, <1>3, <2>1, <2>2, RecallingType, SetTask DEF LookUp
  <2> QED
    BY <1>3, <2>3 DEF LookUp, TypeOK, PlatformOK, StoreOK, MemoryOK, ControlOK, GhostsOK,
                      platform, store, flags, control, ghosts
<1>4. CASE RecallCopy(c)
  <2>1. PICK d \in task[c].todo :
          /\ Suppress(c[1], d)
          /\ task' = [task EXCEPT ![c] = [task[c] EXCEPT !.pc = "deleting", !.dst = d,
                                                         !.todo = task[c].todo \ {d}]]
    BY <1>4 DEF RecallCopy
  <2> DEFINE t == [task[c] EXCEPT !.pc = "deleting", !.dst = d, !.todo = task[c].todo \ {d}]
  <2>2. task[c].msg \in Endpoint /\ d \in Endpoint
    BY <1>0, <1>4 DEF RecallCopy, At, Shape, Resting, Task
  <2>3. t \in Task /\ Shape(t)
    BY <1>0, <2>2 DEF Task, PCs, Shape, Resting, Fanning, Holding
  <2>4. task' \in [Clients -> Task] /\ \A k \in Clients : Shape(task'[k])
    BY <2>1, <2>3, SetTask
  <2>5. suppressed' \in [Gens -> SUBSET Endpoint]
    BY <1>0, <2>1, <2>2 DEF Suppress, TypeOK, MemoryOK
  <2> QED
    BY <1>4, <2>4, <2>5 DEF RecallCopy, TypeOK, PlatformOK, StoreOK, MemoryOK, ControlOK,
                            GhostsOK, platform, store, flags, control, ghosts
<1>5. CASE DeleteCopy(c)
  <2>1. task[c].msg \in Endpoint /\ task[c].dst \in Endpoint /\ task[c].todo \subseteq Endpoint
    BY <1>0, <1>5 DEF DeleteCopy, At, Shape, Resting, Holding, Task
  <2>2. task' \in [Clients -> Task] /\ \A k \in Clients : Shape(task'[k])
    BY <1>0, <1>5, <2>1, RecallingType, SetTask DEF DeleteCopy
  <2>3. /\ PlatformOK' /\ GhostsOK'
        /\ suppressed' \in [Gens -> SUBSET Endpoint] /\ used' \in [Bounds -> Nat]
    BY <1>5, <2>1, DeletionType DEF DeleteCopy
  <2> QED
    BY <1>5, <2>2, <2>3 DEF DeleteCopy, TypeOK, StoreOK, MemoryOK, ControlOK, store, flags, control
<1> QED
  BY <1>1, <1>2, <1>3, <1>4, <1>5 DEF RecallSteps

LEMMA ControllerType ==
    ASSUME TypeInv, Controller
    PROVE  TypeInv'
<1> USE DEF TypeInv
<1>1. CASE Start
  <2>1. gen' \in 0..MaxGen /\ used' \in [Bounds -> Nat]
    BY <1>1, BoundsNat DEF Start, TypeOK, ControlOK
  <2>2. running' \in BOOLEAN
    BY <1>1, Zenon DEF Start
  <2>3. task' \in [Clients -> Task] /\ \A c \in Clients : Shape(task'[c])
    BY <1>1, IdleTask, IdleShape DEF Start, TypeOK
  <2> QED
    BY <1>1, <2>1, <2>2, <2>3 DEF Start, TypeOK, PlatformOK, StoreOK, MemoryOK, ControlOK,
                                  GhostsOK, platform, store, flags, ghosts
<1>2. CASE Stop
  <2>1. running' \in BOOLEAN
    BY <1>2, Zenon DEF Stop
  <2> QED
    BY <1>2, <2>1 DEF Stop, TypeOK, PlatformOK, StoreOK, MemoryOK, ControlOK, GhostsOK,
                      platform, store, flags, ghosts
<1>3. CASE CleanupTick
  <2>1. gen \in 0..MaxGen
    BY DEF TypeOK, ControlOK
  <2>2. suppressed' \in [Gens -> SUBSET Endpoint]
    <3>1. PICK S \in SUBSET suppressed[gen] : suppressed' = [suppressed EXCEPT ![gen] = S]
      BY <1>3 DEF CleanupTick
    <3>2. gen \in Gens => S \in SUBSET Endpoint
      BY DEF TypeOK, MemoryOK
    <3> QED
      BY <3>1, <3>2 DEF TypeOK, MemoryOK
  <2> QED
    BY <1>3, <2>2 DEF CleanupTick, TypeOK, PlatformOK, StoreOK, MemoryOK, ControlOK, GhostsOK,
                      platform, store, flags, control, ghosts
<1>4. CASE Crash
  <2>1. running' \in BOOLEAN
    BY <1>4, Zenon DEF Crash
  <2>2. used' \in [Bounds -> Nat]
    BY <1>4, SpendType DEF Crash, Bounds
  <2>3. task' \in [Clients -> Task] /\ \A c \in Clients : Shape(task'[c])
    BY <1>4, IdleTask, IdleShape DEF Crash
  <2>4. unrouted' \subseteq Endpoint
    <3>1. ASSUME NEW k \in Clients, task[k].pc \in {"landed", "cleaning", "inserting"}
          PROVE  task[k].dst \in Endpoint
      BY <3>1 DEF Shape, Holding
    <3> QED
      BY <1>4, <3>1 DEF Crash, TypeOK, GhostsOK
  <2>5. MemoryOK'
    <3>1. suppressed' \in [Gens -> SUBSET Endpoint] /\ known' \in [Gens -> SUBSET Plats]
      BY <1>4 DEF Crash
    <3>2. ready' \in [Gens -> BOOLEAN]
      BY <1>4 DEF Crash
    <3> QED
      BY <3>1, <3>2 DEF MemoryOK
  <2> QED
    BY <1>4, <2>1, <2>2, <2>3, <2>4, <2>5 DEF Crash, TypeOK, PlatformOK, StoreOK, ControlOK,
                                              GhostsOK, platform, store
<1> QED
  BY <1>1, <1>2, <1>3, <1>4 DEF Controller

LEMMA TypeStep == TypeInv /\ [Next]_vars => TypeInv'
<1> SUFFICES ASSUME TypeInv, [Next]_vars PROVE TypeInv'
  OBVIOUS
<1>1. ASSUME NEW c \in Clients, ClientStep(c) \/ ClientFault(c) PROVE TypeInv'
  BY <1>1, HearingType, FanoutType, FailureType, LandingType, RoutingType, RecallType
     DEF ClientStep, ClientFault, Forwarding
<1>2. ASSUME UNCHANGED vars PROVE TypeInv'
  BY <1>2 DEF vars, TypeInv, TypeOK, PlatformOK, StoreOK, MemoryOK, ControlOK, GhostsOK,
              platform, store, flags, control, ghosts
<1> QED
  BY <1>1, <1>2, UsersType, ControllerType DEF Next

(* The state keeps its type, and no handler reads a field it did not set. *)
THEOREM TypeInvariant == Spec => []TypeInv
BY InitType, TypeStep, PTL DEF Spec

----------------------------------------------------------------------------
(* Who owns which id, and what follows.                                    *)

LEMMA InitOwnership == Init => Ownership
<1> SUFFICES ASSUME Init PROVE Ownership
  OBVIOUS
<1>1. IdsCreated /\ NoEcho /\ OneSource /\ RoutesTrue
  BY DEF Init, IdsCreated, NoEcho, OneSource, RoutesTrue
<1>2. SuppressedCopies
  BY DEF Init, SuppressedCopies
<1>3. TasksTrue
  BY DEF Init, TasksTrue, Truthful, Gone, Idle, Resting, Holding
<1> QED
  BY <1>1, <1>2, <1>3 DEF Ownership

----------------------------------------------------------------------------
(* Steps that create no message.                                           *)

LEMMA SameIds ==
    ASSUME UNCHANGED <<next, copyOf>>
    PROVE  /\ \A m : Created(m) => Created(m)'
           /\ Copies' = Copies
           /\ \A t : Truthful(t) => Truthful(t)'
BY DEF Created, Copies, Truthful

LEMMA IdleTruthful == Truthful(Idle)' /\ Truthful(Gone)'
BY DEF Truthful, Idle, Gone, Resting, Holding

(* One client gets a new task that tells the truth. *)
LEMMA SetTaskTruth ==
    ASSUME TypeInv, TasksTrue, NEW c \in Clients, NEW u,
           task' = [task EXCEPT ![c] = u], Truthful(u)',
           \A t : Truthful(t) => Truthful(t)'
    PROVE  TasksTrue'
<1>1. \A k \in Clients : task'[k] = IF k = c THEN u ELSE task[k]
  BY DEF TypeInv, TypeOK
<1>2. \A k \in Clients : Truthful(task[k])'
  BY <1>1 DEF TasksTrue, Truthful
<1> QED
  BY <1>2 DEF TasksTrue

(* The handler steps that only move on within what they hold. *)
LEMMA MoveTruth ==
    ASSUME TypeInv, TasksTrue, UNCHANGED <<next, copyOf>>,
           NEW c \in Clients, NEW pc \in PCs, Goto(c, pc),
           task[c].pc \notin Resting,
           pc \in Holding => task[c].pc \in Holding
    PROVE  TasksTrue'
<1> DEFINE u == [task[c] EXCEPT !.pc = pc]
<1>1. task[c] \in Task /\ Truthful(task[c])
  BY DEF TypeInv, TypeOK, TasksTrue
<1>2. u.pc = pc /\ u.msg = task[c].msg /\ u.dst = task[c].dst /\ u.todo = task[c].todo
  BY <1>1 DEF Task
<1>3. Truthful(u)
  BY <1>1, <1>2 DEF Truthful
<1>4. task' = [task EXCEPT ![c] = u]
  BY DEF Goto
<1> QED
  BY <1>3, <1>4, SameIds, SetTaskTruth

LEMMA NextTargetTruth ==
    ASSUME TypeInv, TasksTrue, UNCHANGED <<next, copyOf>>,
           NEW c \in Clients, task[c].pc \in Fanning, NextTarget(c)
    PROVE  TasksTrue'
<1>1. task[c] \in Task /\ Truthful(task[c])
  BY DEF TypeInv, TypeOK, TasksTrue
<1>2. Truthful(Rest(task[c]))
  BY <1>1 DEF Rest, Task, Truthful, Resting, Fanning, Holding
<1>3. Truthful(Idle)
  BY DEF Truthful, Idle, Resting, Holding
<1>4. task' = [task EXCEPT ![c] = Idle] \/ task' = [task EXCEPT ![c] = Rest(task[c])]
  BY DEF NextTarget
<1> QED
  BY <1>2, <1>3, <1>4, SameIds, SetTaskTruth

(* When no message is created, logged or removed and no route is written,  *)
(* only the suppressions and the tasks can go wrong.                       *)
LEMMA QuietStep ==
    ASSUME Ownership, UNCHANGED <<next, live, copyOf, log, rows>>, SuppressedCopies', TasksTrue'
    PROVE  Ownership'
<1>1. IdsCreated'
  BY DEF Ownership, IdsCreated, Created
<1>2. NoEcho' /\ OneSource' /\ RoutesTrue'
  BY DEF Ownership, NoEcho, OneSource, RoutesTrue, Copies
<1> QED
  BY <1>1, <1>2 DEF Ownership

LEMMA SameSuppressed ==
    ASSUME Ownership, UNCHANGED <<suppressed, copyOf>>
    PROVE  SuppressedCopies'
BY DEF Ownership, SuppressedCopies, Copies

(* What a client hears names a message that exists or existed. *)
LEMMA HeardCreated ==
    ASSUME TypeInv, Ownership, NEW c \in Clients, Hears(c)
    PROVE  Created(Heard(c).msg)
BY HeardType DEF Ownership, IdsCreated, Heard, Clients

LEMMA HearingOwnership ==
    ASSUME TypeInv, Ownership, NEW c \in Clients, Identify(c) \/ IgnoreCreate(c) \/ MissEvents(c)
    PROVE  Ownership'
<1>1. UNCHANGED <<next, live, copyOf, log, rows, suppressed, task>>
  BY DEF Identify, IgnoreCreate, MissEvents, platform, store
<1>2. TasksTrue'
  BY <1>1, SameIds DEF Ownership, TasksTrue, Truthful
<1> QED
  BY <1>1, <1>2, QuietStep, SameSuppressed

LEMMA FanoutOwnership ==
    ASSUME TypeInv, Ownership, NEW c \in Clients,
           \/ BeginForward(c) \/ SkipOwn(c) \/ StopForward(c) \/ SendTo(c) \/ KeepCopy(c)
           \/ SendFails(c) \/ AnswerLost(c) \/ AnswerUnread(c) \/ EndsForGood(c)
    PROVE  Ownership'
<1> USE DEF Ownership
<1>1. UNCHANGED <<next, live, copyOf, log, rows, suppressed>>
  BY DEF BeginForward, SkipOwn, StopForward, SendTo, KeepCopy, SendFails, AnswerLost, AnswerUnread,
         EndsForGood, platform, store
<1>2. CASE BeginForward(c)
  <2> DEFINE m == Heard(c).msg
             u == [Idle EXCEPT !.pc = "fanout", !.msg = m, !.left = Senders,
                               !.reply = ReplyRecord(Heard(c).replied)]
  <2>1. Created(m) /\ m \notin Copies
    BY <1>2, HeardCreated DEF BeginForward, Dropped, FromSelf
  <2>2. u.pc = "fanout" /\ u.msg = m /\ u.todo = {}
    BY DEF Idle
  <2>3. task' = [task EXCEPT ![c] = u]
    BY <1>2 DEF BeginForward
  <2> HIDE DEF u
  <2>4. Truthful(u)
    BY <2>1, <2>2 DEF Truthful, Resting, Holding
  <2>5. TasksTrue'
    BY <1>1, <2>3, <2>4, SameIds, SetTaskTruth
  <2> QED
    BY <1>1, <2>5, QuietStep, SameSuppressed
<1>3. CASE SkipOwn(c) \/ SendFails(c) \/ AnswerLost(c) \/ AnswerUnread(c)
  BY <1>1, <1>3, NextTargetTruth, QuietStep, SameSuppressed
     DEF SkipOwn, SendFails, AnswerLost, AnswerUnread, At, Fanning
<1>4. CASE StopForward(c)
  BY <1>1, <1>4, IdleTruthful, SameIds, SetTaskTruth, QuietStep, SameSuppressed DEF StopForward
<1>7. CASE EndsForGood(c)
  BY <1>1, <1>7, IdleTruthful, SameIds, SetTaskTruth, QuietStep, SameSuppressed DEF EndsForGood
<1>5. CASE SendTo(c)
  BY <1>1, <1>5, MoveTruth, QuietStep, SameSuppressed DEF SendTo, At, PCs, Resting, Holding
<1>6. CASE KeepCopy(c)
  BY <1>1, <1>6, MoveTruth, QuietStep, SameSuppressed DEF KeepCopy, At, PCs, Resting, Holding
<1> QED
  BY <1>2, <1>3, <1>4, <1>5, <1>6, <1>7

----------------------------------------------------------------------------
(* An event about a message that exists keeps the log about such messages. *)

Made(nx, m) == m[1] \in Plats /\ m[2] \in 1..nx[m[1]]

LEMMA CreatedIsMade == \A m : (Created(m) <=> Made(next, m))
BY DEF Created, Made

LEMMA LaterMade ==
    ASSUME NEW nx \in [Plats -> Nat], NEW ny \in [Plats -> Nat],
           \A q \in Plats : nx[q] <= ny[q]
    PROVE  \A m : Made(nx, m) => Made(ny, m)
<1> SUFFICES ASSUME NEW m, Made(nx, m) PROVE Made(ny, m)
  OBVIOUS
<1>1. m[1] \in Plats /\ nx[m[1]] \in Nat /\ ny[m[1]] \in Nat /\ nx[m[1]] <= ny[m[1]]
  BY DEF Made
<1> QED
  BY <1>1 DEF Made

(* IdsCreated, over a given state of the platforms. *)
Consistent(nx, lv, co, lg) ==
    /\ \A m \in lv : Made(nx, m)
    /\ \A x \in co : Made(nx, x[1]) /\ Made(nx, x[2])
    /\ \A p \in Plats : \A i \in DOMAIN lg[p] : Made(nx, lg[p][i].msg)

LEMMA IdsAreConsistent ==
    /\ IdsCreated <=> Consistent(next, live, copyOf, log)
    /\ IdsCreated' <=> Consistent(next', live', copyOf', log')
BY DEF IdsCreated, Created, Consistent, Made

LEMMA LogGrows ==
    ASSUME NEW nx \in [Plats -> Nat], NEW ny \in [Plats -> Nat],
           \A m : Made(nx, m) => Made(ny, m),
           NEW lg \in [Plats -> Seq(Events)],
           \A p \in Plats : \A i \in DOMAIN lg[p] : Made(nx, lg[p][i].msg),
           NEW q \in Plats, NEW s \in Seq(Events), \A i \in DOMAIN s : Made(ny, s[i].msg),
           NEW lh, lh = [lg EXCEPT ![q] = lg[q] \o s]
    PROVE  \A p \in Plats : \A i \in DOMAIN lh[p] : Made(ny, lh[p][i].msg)
<1>1. SUFFICES ASSUME NEW p \in Plats, NEW i \in DOMAIN lh[p] PROVE Made(ny, lh[p][i].msg)
  OBVIOUS
<1>2. CASE p # q
  <2>1. lh[p] = lg[p]
    BY <1>2
  <2> QED
    BY <2>1
<1>3. CASE p = q
  <2>1. lh[p] = lg[p] \o s /\ lg[p] \in Seq(Events)
    BY <1>3
  <2>2. \/ i \in DOMAIN lg[p] /\ lh[p][i] = lg[p][i]
        \/ i - Len(lg[p]) \in DOMAIN s /\ lh[p][i] = s[i - Len(lg[p])]
    BY <2>1, ConcatProperties, LenProperties
  <2> QED
    BY <2>2
<1> QED
  BY <1>2, <1>3

LEMMA LogAppends ==
    ASSUME NEW nx \in [Plats -> Nat], NEW ny \in [Plats -> Nat],
           \A m : Made(nx, m) => Made(ny, m),
           NEW lg \in [Plats -> Seq(Events)],
           \A p \in Plats : \A i \in DOMAIN lg[p] : Made(nx, lg[p][i].msg),
           NEW q \in Plats, NEW e \in Events, Made(ny, e.msg),
           NEW lh, lh = [lg EXCEPT ![q] = Append(lg[q], e)]
    PROVE  \A p \in Plats : \A i \in DOMAIN lh[p] : Made(ny, lh[p][i].msg)
<1>1. lg[q] \in Seq(Events)
  OBVIOUS
<1>2. Append(lg[q], e) = lg[q] \o <<e>>
  BY <1>1, AppendIsConcat
<1>3. <<e>> \in Seq(Events) /\ \A i \in DOMAIN <<e>> : <<e>>[i] = e
  OBVIOUS
<1> QED
  BY <1>2, <1>3, LogGrows

----------------------------------------------------------------------------
(* People post and remove messages.                                        *)

LEMMA UsersOwnership ==
    ASSUME TypeInv, Ownership, Users
    PROVE  Ownership'
<1>0. ASSUME \A m : Made(next, m) => Made(next', m), UNCHANGED <<copyOf, rows, suppressed, task>>, IdsCreated'
      PROVE  Ownership'
  <2>1. NoEcho' /\ OneSource' /\ RoutesTrue' /\ SuppressedCopies'
    BY <1>0 DEF Ownership, NoEcho, OneSource, RoutesTrue, SuppressedCopies, Copies
  <2>2. TasksTrue'
    <3>1. ASSUME NEW t, Truthful(t) PROVE Truthful(t)'
      BY <1>0, <3>1 DEF Truthful, Copies, Created, Made
    <3>2. \A c \in Clients : Truthful(task[c])
      BY DEF Ownership, TasksTrue
    <3> QED
      BY <1>0, <3>1, <3>2 DEF TasksTrue, Truthful, Copies, Created, Made
  <2> QED
    BY <1>0, <2>1, <2>2 DEF Ownership
<1>a. /\ next \in [Plats -> Nat] /\ log \in [Plats -> Seq(Events)]
      /\ Consistent(next, live, copyOf, log)
  BY IdsAreConsistent DEF TypeInv, TypeOK, PlatformOK, Ownership
<1>1. ASSUME NEW p \in Plats, NEW r \in Endpoint \cup {NoMsg}, Post(p, r)
      PROVE  Ownership'
  <2> DEFINE m == <<p, next[p] + 1>>
             e == Event("create", m, r)
  <2>2. next' = [next EXCEPT ![p] = next[p] + 1]
    BY <1>1 DEF Post
  <2>3. next' \in [Plats -> Nat] /\ \A q \in Plats : next[q] <= next'[q]
    BY <1>a, <2>2
  <2>4. \A x : Made(next, x) => Made(next', x)
    BY <1>a, <2>3, LaterMade
  <2>5. Made(next', m)
    BY <1>a, <2>2 DEF Made
  <2>6. \A q \in Plats : \A i \in DOMAIN log'[q] : Made(next', log'[q][i].msg)
    <3>1. e \in Events /\ e.msg = m
      BY <1>a, NewEndpoint DEF Event, Events
    <3>2. log' = [log EXCEPT ![p] = Append(log[p], e)]
      BY <1>1 DEF Post
    <3>3. Made(next', e.msg)
      BY <2>5, <3>1
    <3> HIDE DEF m, e
    <3> QED
      BY <1>a, <2>3, <2>4, <3>1, <3>2, <3>3, LogAppends DEF Consistent
  <2>7. live' = live \cup {m} /\ copyOf' = copyOf
    BY <1>1 DEF Post
  <2>8. Consistent(next', live', copyOf', log')
    BY <1>a, <2>4, <2>5, <2>6, <2>7 DEF Consistent
  <2> QED
    BY <1>0, <1>1, <2>4, <2>8, IdsAreConsistent DEF Post, store
<1>2. ASSUME NEW m \in live, Delete(m)
      PROVE  Ownership'
  <2> DEFINE e == Event("delete", m, NoMsg)
  <2>1. next' = next /\ copyOf' = copyOf /\ live' = live \ {m}
    BY <1>2 DEF Delete
  <2>2. m[1] \in Plats /\ m \in Endpoint
    BY PlatsArePlatforms DEF TypeInv, TypeOK, PlatformOK, Endpoint
  <2>3. e \in Events /\ e.msg = m /\ Made(next, m)
    BY <1>a, <2>2 DEF Consistent, Event, Events
  <2>4. log' = [log EXCEPT ![m[1]] = Append(log[m[1]], e)]
    BY <1>2 DEF Delete
  <2>5. \A q \in Plats : \A i \in DOMAIN log'[q] : Made(next, log'[q][i].msg)
    BY <1>a, <2>2, <2>3, <2>4, LogAppends DEF Consistent
  <2>6. Consistent(next', live', copyOf', log')
    BY <1>a, <2>1, <2>5 DEF Consistent
  <2> QED
    BY <1>0, <1>2, <2>1, <2>6, IdsAreConsistent DEF Delete, store
<1>3. Posters \subseteq Plats
  BY BridgeAssumption
<1>4. ASSUME NEW p \in Posters PROVE {<<p, i>> : i \in 1..next[p]} \subseteq Endpoint
  BY <1>3, NewEndpoint DEF TypeInv, TypeOK, PlatformOK
<1> QED
  BY <1>1, <1>2, <1>3, <1>4 DEF Users

----------------------------------------------------------------------------
(* A send lands: the ids are new, so the copies are no one else's.         *)

LEMMA FreshIds ==
    ASSUME NEW nx \in [Plats -> Nat], NEW p \in Plats, NEW n \in Nat,
           NEW d \in {<<p, i>> : i \in (nx[p] + 1)..(nx[p] + n)}
    PROVE  ~Made(nx, d) /\ Made([nx EXCEPT ![p] = nx[p] + n], d)
<1>1. PICK i \in (nx[p] + 1)..(nx[p] + n) : d = <<p, i>>
  OBVIOUS
<1>2. nx[p] \in Nat /\ i \in Nat /\ i >= 1 /\ i > nx[p] /\ i <= nx[p] + n
  BY <1>1
<1>3. d[1] = p /\ d[2] = i
  BY <1>1
<1>4. [nx EXCEPT ![p] = nx[p] + n][p] = nx[p] + n
  OBVIOUS
<1> QED
  BY <1>2, <1>3, <1>4 DEF Made

LEMMA CopiesAreCreated ==
    ASSUME Consistent(next, live, copyOf, log)
    PROVE  \A d \in Copies : Made(next, d)
BY DEF Consistent, Copies

(* The copies gain members that no handler, route or suppression is about. *)
LEMMA CopiesGrow ==
    ASSUME TypeInv, Ownership, NEW m, Made(next, m), m \notin Copies,
           NEW New, \A d \in New : ~Made(next, d),
           copyOf' = copyOf \cup {<<d, m>> : d \in New},
           \A x : Made(next, x) => Made(next', x),
           UNCHANGED <<rows, suppressed>>
    PROVE  /\ Copies' = Copies \cup New
           /\ NoEcho' /\ OneSource' /\ RoutesTrue' /\ SuppressedCopies'
           /\ \A t : Truthful(t) => Truthful(t)'
<1>1. Consistent(next, live, copyOf, log)
  BY IdsAreConsistent DEF Ownership
<1>2. \A d \in Copies : Made(next, d)
  BY <1>1, CopiesAreCreated
<1>3. Copies' = Copies \cup New
  <2>1. ASSUME NEW y \in Copies' PROVE y \in Copies \cup New
    <3>1. PICK x \in copyOf' : y = x[1]
      BY DEF Copies
    <3>2. CASE x \in copyOf
      BY <3>1, <3>2 DEF Copies
    <3>3. CASE x \in {<<d, m>> : d \in New}
      BY <3>1, <3>3
    <3> QED
      BY <3>2, <3>3
  <2>2. ASSUME NEW y \in Copies PROVE y \in Copies'
    BY DEF Copies
  <2>3. ASSUME NEW y \in New PROVE y \in Copies'
    <3>1. <<y, m>> \in copyOf' /\ <<y, m>>[1] = y
      OBVIOUS
    <3> QED
      BY <3>1 DEF Copies
  <2> QED
    BY <2>1, <2>2, <2>3
<1>4. NoEcho'
  BY <1>1, <1>3 DEF NoEcho, Consistent, Ownership
<1>5. OneSource'
  <2> SUFFICES ASSUME NEW x \in copyOf', NEW y \in copyOf', x[1] = y[1] PROVE x[2] = y[2]
    BY DEF OneSource
  <2>1. ASSUME NEW z \in copyOf'
        PROVE  (z \in copyOf /\ Made(next, z[1])) \/ (z[2] = m /\ ~Made(next, z[1]))
    <3>1. z \in copyOf \/ \E d \in New : z = <<d, m>>
      OBVIOUS
    <3> QED
      BY <1>1, <3>1 DEF Consistent
  <2> QED
    BY <2>1 DEF OneSource, Ownership
<1>6. RoutesTrue' /\ SuppressedCopies'
  BY <1>3 DEF RoutesTrue, SuppressedCopies, Ownership
<1>7. ASSUME NEW t, Truthful(t) PROVE Truthful(t)'
  BY <1>3, <1>7 DEF Truthful, Created, Made
<1> QED
  BY <1>3, <1>4, <1>5, <1>6, <1>7

LEMMA LandingOwnership ==
    ASSUME TypeInv, Ownership, NEW c \in Clients, SendLands(c)
    PROVE  Ownership'
<1> DEFINE m == task[c].msg
           p == Head(task[c].left)
           New(n) == {<<p, i>> : i \in (next[p] + 1)..(next[p] + n)}
           echo(n) == [i \in 1..n |-> Event("create", <<p, next[p] + i>>, NoMsg)]
           t == [task[c] EXCEPT !.pc = "landed", !.dst = <<p, next[p] + 1>>]
<1>1. /\ task[c] \in Task /\ task[c].left \in Seq(Plats) /\ task[c].left # <<>>
      /\ task[c].pc \notin Resting /\ Truthful(task[c])
  BY DEF SendLands, At, TypeInv, TypeOK, Task, Shape, Resting, Fanning, Ownership, TasksTrue
<1>2. p \in Plats
  BY <1>1, TailSeq
<1>3. /\ next \in [Plats -> Nat] /\ log \in [Plats -> Seq(Events)] /\ next[p] \in Nat
      /\ Consistent(next, live, copyOf, log)
  BY <1>2, IdsAreConsistent DEF TypeInv, TypeOK, PlatformOK, Ownership
<1>4. PICK n \in Parts(p) :
        /\ next' = [next EXCEPT ![p] = next[p] + n]
        /\ live' = live \cup New(n)
        /\ copyOf' = copyOf \cup {<<d, m>> : d \in New(n)}
        /\ log' = IF p \in Echoes THEN [log EXCEPT ![p] = log[p] \o echo(n)] ELSE log
  BY DEF SendLands
<1>5. n \in Nat /\ n >= 1
  BY BoundsNat DEF Parts
<1>6. Made(next, m) /\ m \notin Copies
  BY <1>1 DEF Truthful, Created, Made
<1>7. \A d \in New(n) : ~Made(next, d) /\ Made(next', d)
  BY <1>2, <1>3, <1>4, <1>5, FreshIds
<1>8. next' \in [Plats -> Nat] /\ \A x : Made(next, x) => Made(next', x)
  <2> HIDE DEF p
  <2>1. next' = [next EXCEPT ![p] = next[p] + n]
    BY <1>4
  <2>2. next' \in [Plats -> Nat] /\ \A q \in Plats : next[q] <= next'[q]
    BY <1>2, <1>3, <1>5, <2>1
  <2> QED
    BY <1>3, <2>2, LaterMade
<1>9. UNCHANGED <<rows, suppressed>>
  BY DEF SendLands, store
<1>10. /\ Copies' = Copies \cup New(n)
       /\ NoEcho' /\ OneSource' /\ RoutesTrue' /\ SuppressedCopies'
       /\ \A u : Truthful(u) => Truthful(u)'
  <2> DEFINE N == New(n)
  <2>1. \A d \in N : ~Made(next, d)
    BY <1>7
  <2>2. copyOf' = copyOf \cup {<<d, m>> : d \in N}
    BY <1>4
  <2> HIDE DEF N, m
  <2>3. Copies' = Copies \cup N /\ NoEcho' /\ OneSource' /\ RoutesTrue' /\ SuppressedCopies'
        /\ \A u : Truthful(u) => Truthful(u)'
    BY <1>6, <1>8, <1>9, <2>1, <2>2, CopiesGrow
  <2> QED
    BY <2>3 DEF N
<1>11. IdsCreated'
  <2>1. echo(n) \in Seq(Events)
    BY <1>2, <1>3, <1>5, AlbumEvents
  <2>2. \A i \in DOMAIN echo(n) : Made(next', echo(n)[i].msg)
    <3>1. ASSUME NEW i \in 1..n PROVE echo(n)[i].msg \in New(n)
      <4>1. echo(n)[i].msg = <<p, next[p] + i>>
        BY DEF Event
      <4> HIDE DEF p
      <4> QED
        BY <1>3, <1>5, <4>1, next[p] + i \in (next[p] + 1)..(next[p] + n)
    <3> QED
      BY <1>7, <3>1
  <2>3. \A q \in Plats : \A i \in DOMAIN log'[q] : Made(next', log'[q][i].msg)
    <3>1. CASE p \in Echoes
      <4> DEFINE s == echo(n)
      <4>1. s \in Seq(Events) /\ (\A i \in DOMAIN s : Made(next', s[i].msg))
            /\ log' = [log EXCEPT ![p] = log[p] \o s]
        BY <1>4, <2>1, <2>2, <3>1
      <4> HIDE DEF s, p
      <4> QED
        BY <1>2, <1>3, <1>8, <4>1, LogGrows DEF Consistent
    <3>2. CASE p \notin Echoes
      BY <1>3, <1>4, <1>8, <3>2 DEF Consistent
    <3> QED
      BY <3>1, <3>2
  <2>4. \A x \in live' : Made(next', x)
    BY <1>3, <1>4, <1>7, <1>8 DEF Consistent
  <2>5. \A x \in copyOf' : Made(next', x[1]) /\ Made(next', x[2])
    <3> HIDE DEF m, New
    <3>1. \A x \in {<<d, m>> : d \in New(n)} : Made(next', x[1]) /\ Made(next', x[2])
      BY <1>6, <1>7, <1>8
    <3> QED
      BY <1>3, <1>4, <1>8, <3>1 DEF Consistent
  <2> QED
    BY <2>3, <2>4, <2>5, IdsAreConsistent DEF Consistent
<1>12. TasksTrue'
  <2>1. <<p, next[p] + 1>> \in New(n)
    <3> HIDE DEF p
    <3> QED
      BY <1>3, <1>5, next[p] + 1 \in (next[p] + 1)..(next[p] + n)
  <2>2. PICK u : u = t
    OBVIOUS
  <2>3. Truthful(u)'
    <3>1. u.pc = "landed" /\ u.msg = m /\ u.todo = task[c].todo /\ u.dst = <<p, next[p] + 1>>
      BY <1>1, <2>2 DEF Task
    <3>2. Made(next', m) /\ m \notin Copies'
      BY <1>6, <1>7, <1>8, <1>10
    <3>3. <<u.dst, m>> \in copyOf'
      BY <1>4, <2>1, <3>1
    <3>4. \A d \in u.todo : <<d, m>> \in copyOf'
      BY <1>1, <1>4, <3>1 DEF Truthful
    <3> QED
      BY <3>1, <3>2, <3>3, <3>4 DEF Truthful, Created, Made, Resting, Holding
  <2>4. task' = [task EXCEPT ![c] = u]
    BY <2>2 DEF SendLands
  <2> QED
    BY <1>10, <2>3, <2>4, SetTaskTruth DEF Ownership
<1> QED
  BY <1>10, <1>11, <1>12 DEF Ownership

----------------------------------------------------------------------------
(* Undoing and recording a copy.                                           *)

LEMMA DeletionOwnership ==
    ASSUME TypeInv, Ownership, NEW c \in Clients, <<task[c].dst, task[c].msg>> \in copyOf, Deletion(c)
    PROVE  IdsCreated' /\ SuppressedCopies' /\ UNCHANGED <<next, copyOf>>
<1> DEFINE d == task[c].dst
<1>1. /\ next \in [Plats -> Nat] /\ log \in [Plats -> Seq(Events)]
      /\ Consistent(next, live, copyOf, log)
  BY IdsAreConsistent DEF TypeInv, TypeOK, PlatformOK, Ownership
<1>2. UNCHANGED <<next, copyOf>>
  BY DEF Deletion, Refused
<1>3. Made(next, d) /\ d \in Endpoint /\ d[1] \in Plats
  BY <1>1 DEF Consistent, Made, TypeInv, TypeOK, PlatformOK
<1>4. Removed(d) \/ UNCHANGED <<live, log>>
  BY DEF Deletion, Refused
<1>5. IdsCreated'
  <2>1. CASE Removed(d)
    <3> DEFINE e == Event("delete", d, NoMsg)
    <3>1. e \in Events /\ Made(next, e.msg)
      BY <1>3 DEF Event, Events
    <3>2. \/ log' = log
          \/ log' = [log EXCEPT ![d[1]] = Append(log[d[1]], e)]
      BY <2>1 DEF Removed
    <3>3. \A p \in Plats : \A i \in DOMAIN log'[p] : Made(next, log'[p][i].msg)
      <4>1. CASE log' = log
        BY <1>1, <4>1 DEF Consistent
      <4>2. CASE log' = [log EXCEPT ![d[1]] = Append(log[d[1]], e)]
        <5> DEFINE q == d[1]
        <5>1. q \in Plats
          BY <1>3
        <5> HIDE DEF e, q
        <5> QED
          BY <1>1, <3>1, <4>2, <5>1, LogAppends DEF Consistent, q
      <4> QED
        BY <3>2, <4>1, <4>2
    <3>4. live' \subseteq live
      BY <2>1 DEF Removed
    <3>5. Consistent(next', live', copyOf', log')
      BY <1>1, <1>2, <3>3, <3>4 DEF Consistent
    <3> QED
      BY <3>5, IdsAreConsistent
  <2>2. CASE UNCHANGED <<live, log>>
    BY <1>1, <1>2, <2>2, IdsAreConsistent
  <2> QED
    BY <1>4, <2>1, <2>2
<1>6. SuppressedCopies'
  <2>1. UNCHANGED suppressed \/ Unsuppress(c)
    BY DEF Deletion, Refused
  <2>2. \A g \in Gens : suppressed'[g] \subseteq suppressed[g]
    BY <2>1 DEF Unsuppress, TypeInv, TypeOK, MemoryOK
  <2> QED
    BY <1>2, <2>2 DEF SuppressedCopies, Ownership, Copies
<1> QED
  BY <1>2, <1>5, <1>6

LEMMA SuppressOwnership ==
    ASSUME TypeInv, Ownership, NEW g \in Gens, NEW d \in Copies, Suppress(g, d), UNCHANGED copyOf
    PROVE  SuppressedCopies'
<1>1. \A h \in Gens : suppressed'[h] \subseteq suppressed[h] \cup {d}
  BY DEF Suppress, TypeInv, TypeOK, MemoryOK
<1> QED
  BY <1>1 DEF SuppressedCopies, Ownership, Copies

LEMMA RoutingOwnership ==
    ASSUME TypeInv, Ownership, NEW c \in Clients, UndoCopy(c) \/ CleanUp(c) \/ InsertRoute(c)
    PROVE  Ownership'
<1>1. task[c] \in Task /\ Truthful(task[c]) /\ TasksTrue /\ c[1] \in Gens
  BY DEF Ownership, TasksTrue, TypeInv, TypeOK, Clients
<1>2. <<task[c].dst, task[c].msg>> \in copyOf /\ task[c].dst \in Copies
  <2>1. <<task[c].dst, task[c].msg>> \in copyOf
    BY <1>1 DEF UndoCopy, CleanUp, InsertRoute, At, Truthful, Holding
  <2>2. <<task[c].dst, task[c].msg>>[1] = task[c].dst
    OBVIOUS
  <2> QED
    BY <2>1, <2>2 DEF Copies
<1>3. CASE UndoCopy(c)
  <2>1. UNCHANGED <<next, live, copyOf, log, rows>>
    BY <1>3 DEF UndoCopy, platform, store
  <2>2. SuppressedCopies'
    BY <1>1, <1>2, <1>3, <2>1, SuppressOwnership DEF UndoCopy
  <2>3. TasksTrue'
    BY <1>1, <1>3, <2>1, MoveTruth DEF UndoCopy, At, PCs, Resting, Holding
  <2> QED
    BY <2>1, <2>2, <2>3, QuietStep
<1>4. CASE CleanUp(c)
  <2>1. IdsCreated' /\ SuppressedCopies' /\ UNCHANGED <<next, copyOf, rows>>
    BY <1>2, <1>4, DeletionOwnership DEF CleanUp, store
  <2>2. TasksTrue'
    BY <1>1, <1>4, <2>1, MoveTruth DEF CleanUp, At, PCs, Resting, Holding
  <2>3. NoEcho' /\ OneSource' /\ RoutesTrue'
    BY <2>1 DEF Ownership, NoEcho, OneSource, RoutesTrue, Copies
  <2> QED
    BY <2>1, <2>2, <2>3 DEF Ownership
<1>5. CASE InsertRoute(c)
  <2>1. UNCHANGED <<next, live, copyOf, log, suppressed>>
    BY <1>5 DEF InsertRoute, platform
  <2>2. RoutesTrue'
    <3>1. \A r \in rows' : r \in rows \/ (r.dst = task[c].dst /\ r.src = task[c].msg)
      BY <1>5 DEF InsertRoute, Insert
    <3> QED
      BY <1>2, <2>1, <3>1 DEF Ownership, RoutesTrue
  <2>3. TasksTrue'
    BY <1>1, <1>5, <2>1, NextTargetTruth DEF InsertRoute, At, Fanning
  <2>4. IdsCreated' /\ NoEcho' /\ OneSource' /\ SuppressedCopies'
    BY <2>1 DEF Ownership, IdsCreated, Created, NoEcho, OneSource, SuppressedCopies, Copies
  <2> QED
    BY <2>2, <2>3, <2>4 DEF Ownership
<1> QED
  BY <1>3, <1>4, <1>5

----------------------------------------------------------------------------
(* Recalling.  The walk over the routes stays with the copies of one       *)
(* message: the message and its copies are closed under the rows, because  *)
(* no copy is forwarded and every copy has one source.                     *)

LEMMA SourcesArePosted ==
    ASSUME Ownership, NEW m, IsSource(rows, Group, m)
    PROVE  Created(m) /\ m \notin Copies
<1>1. PICK r \in rows : r.src = m
  BY DEF IsSource
<1>2. <<r.dst, m>> \in copyOf /\ <<r.dst, m>>[2] = m
  BY <1>1 DEF Ownership, RoutesTrue
<1> QED
  BY <1>2 DEF Ownership, NoEcho, IdsCreated

LEMMA LinkedAreCopies ==
    ASSUME Ownership, NEW m, m \notin Copies
    PROVE  \A d \in Linked(m) : <<d, m>> \in copyOf
<1> DEFINE S == {x \in Reach(rows, m) : x = m \/ <<x, m>> \in copyOf}
<1>1. S \in SUBSET Reach(rows, m) /\ m \in S
  BY DEF Reach
<1>2. Closed(rows, Group, S)
  <2> SUFFICES ASSUME NEW r \in rows PROVE r.src \in S <=> r.dst \in S
    BY DEF Closed
  <2>1. r.src \in Reach(rows, m) /\ r.dst \in Reach(rows, m)
    BY DEF Reach, Ends
  <2>2. <<r.dst, r.src>> \in copyOf
    BY DEF Ownership, RoutesTrue
  <2>3. r.dst \in Copies /\ r.src \notin Copies
    <3>1. <<r.dst, r.src>>[1] = r.dst /\ <<r.dst, r.src>>[2] = r.src
      OBVIOUS
    <3> QED
      BY <2>2, <3>1 DEF Copies, Ownership, NoEcho
  <2>4. ASSUME r.src \in S PROVE r.dst \in S
    <3>1. <<r.src, m>> \notin copyOf
      <4>1. <<r.src, m>>[1] = r.src
        OBVIOUS
      <4> QED
        BY <2>3, <4>1 DEF Copies
    <3>2. r.src = m
      BY <2>4, <3>1
    <3> QED
      BY <2>1, <2>2, <3>2
  <2>5. ASSUME r.dst \in S PROVE r.src \in S
    <3>1. <<r.dst, m>> \in copyOf
      BY <2>3, <2>5
    <3>2. r.src = m
      <4>1. /\ <<r.dst, m>>[1] = <<r.dst, r.src>>[1]
            /\ <<r.dst, m>>[2] = m /\ <<r.dst, r.src>>[2] = r.src
        OBVIOUS
      <4> QED
        BY <2>2, <3>1, <4>1 DEF Ownership, OneSource
    <3> QED
      BY <1>1, <3>2
  <2> QED
    BY <2>4, <2>5
<1>3. \A d \in Related(rows, Group, m) : d \in S
  BY <1>1, <1>2 DEF Related
<1> QED
  BY <1>3 DEF Linked

LEMMA RecallingTruth ==
    ASSUME NEW t \in Task, Created(t.msg), t.msg \notin Copies,
           NEW S, \A d \in S : <<d, t.msg>> \in copyOf
    PROVE  Truthful(Recalling(t, S))
<1>1. CASE S = {}
  BY <1>1 DEF Recalling, Truthful, Idle, Resting, Holding
<1>2. CASE S # {}
  <2>1. /\ Recalling(t, S).pc = "recalling" /\ Recalling(t, S).msg = t.msg
        /\ Recalling(t, S).todo = S
    BY <1>2 DEF Recalling, Task
  <2> QED
    BY <2>1 DEF Truthful, Resting, Holding
<1> QED
  BY <1>1, <1>2

LEMMA RecallOwnership ==
    ASSUME TypeInv, Ownership, NEW c \in Clients, RecallSteps(c)
    PROVE  Ownership'
<1>1. task[c] \in Task /\ Truthful(task[c]) /\ TasksTrue /\ c[1] \in Gens
  BY DEF Ownership, TasksTrue, TypeInv, TypeOK, Clients
<1>2. CASE HandleDelete(c)
  <2> DEFINE m == Heard(c).msg
             u == [Idle EXCEPT !.pc = "marking", !.msg = m]
  <2>1. UNCHANGED <<next, live, copyOf, log, rows>>
    BY <1>2 DEF HandleDelete, platform, store
  <2>2. SuppressedCopies'
    <3>1. \A g \in Gens : suppressed'[g] \subseteq suppressed[g]
      BY <1>2 DEF HandleDelete, TypeInv, TypeOK, MemoryOK
    <3> QED
      BY <2>1, <3>1 DEF SuppressedCopies, Ownership, Copies
  <2>3. TasksTrue'
    <3>1. CASE task' = task
      BY <1>1, <2>1, <3>1, SameIds DEF TasksTrue, Truthful
    <3>2. CASE Recallable(c, m) /\ task' = [task EXCEPT ![c] = u]
      <4>1. Created(m) /\ m \notin Copies
        BY <3>2, SourcesArePosted DEF Recallable
      <4>2. u.pc = "marking" /\ u.msg = m /\ u.todo = {}
        BY DEF Idle
      <4> HIDE DEF u
      <4>3. Truthful(u)
        BY <4>1, <4>2 DEF Truthful, Resting, Holding
      <4> QED
        BY <1>1, <2>1, <3>2, <4>3, SameIds, SetTaskTruth
    <3> QED
      BY <1>2, <3>1, <3>2 DEF HandleDelete
  <2> QED
    BY <2>1, <2>2, <2>3, QuietStep
<1>3. CASE Mark(c)
  <2>1. UNCHANGED <<next, live, copyOf, log, rows, suppressed>>
    BY <1>3 DEF Mark, platform
  <2>2. TasksTrue'
    BY <1>1, <1>3, <2>1, MoveTruth DEF Mark, At, PCs, Resting, Holding
  <2> QED
    BY <2>1, <2>2, QuietStep, SameSuppressed
<1>4. CASE LookUp(c)
  <2> DEFINE u == Recalling(task[c], Linked(task[c].msg))
  <2>1. UNCHANGED <<next, live, copyOf, log, rows, suppressed>>
    BY <1>4 DEF LookUp, platform, store
  <2>2. Created(task[c].msg) /\ task[c].msg \notin Copies
    BY <1>1, <1>4 DEF LookUp, At, Truthful, Resting
  <2>3. Truthful(u)
    BY <1>1, <2>2, LinkedAreCopies, RecallingTruth
  <2>4. task' = [task EXCEPT ![c] = u]
    BY <1>4 DEF LookUp
  <2> HIDE DEF u
  <2>5. TasksTrue'
    BY <1>1, <2>1, <2>3, <2>4, SameIds, SetTaskTruth
  <2> QED
    BY <2>1, <2>5, QuietStep, SameSuppressed
<1>5. CASE RecallCopy(c)
  <2>1. PICK d \in task[c].todo :
          /\ Suppress(c[1], d)
          /\ task' = [task EXCEPT ![c] = [task[c] EXCEPT !.pc = "deleting", !.dst = d,
                                                          !.todo = task[c].todo \ {d}]]
    BY <1>5 DEF RecallCopy
  <2> DEFINE u == [task[c] EXCEPT !.pc = "deleting", !.dst = d, !.todo = task[c].todo \ {d}]
  <2>2. UNCHANGED <<next, live, copyOf, log, rows>>
    BY <1>5 DEF RecallCopy, platform, store
  <2>3. Created(task[c].msg) /\ task[c].msg \notin Copies /\ <<d, task[c].msg>> \in copyOf
    BY <1>1, <1>5 DEF RecallCopy, At, Truthful, Resting
  <2>4. SuppressedCopies'
    <3>1. <<d, task[c].msg>>[1] = d
      OBVIOUS
    <3>2. d \in Copies
      BY <2>3, <3>1 DEF Copies
    <3> QED
      BY <1>1, <2>1, <2>2, <3>2, SuppressOwnership
  <2>5. u.pc = "deleting" /\ u.msg = task[c].msg /\ u.dst = d /\ u.todo = task[c].todo \ {d}
    BY <1>1 DEF Task
  <2>6. task' = [task EXCEPT ![c] = u]
    BY <2>1
  <2> HIDE DEF u
  <2>7. Truthful(u)
    BY <1>1, <2>3, <2>5 DEF Truthful, Resting, Holding
  <2>8. TasksTrue'
    BY <1>1, <2>2, <2>6, <2>7, SameIds, SetTaskTruth
  <2> QED
    BY <2>2, <2>4, <2>8, QuietStep
<1>6. CASE DeleteCopy(c)
  <2> DEFINE u == Recalling(task[c], task[c].todo)
  <2>1. /\ Created(task[c].msg) /\ task[c].msg \notin Copies
        /\ <<task[c].dst, task[c].msg>> \in copyOf
        /\ \A d \in task[c].todo : <<d, task[c].msg>> \in copyOf
    BY <1>1, <1>6 DEF DeleteCopy, At, Truthful, Resting, Holding
  <2>2. IdsCreated' /\ SuppressedCopies' /\ UNCHANGED <<next, copyOf, rows>>
    BY <1>6, <2>1, DeletionOwnership DEF DeleteCopy, store
  <2>3. Truthful(u)
    BY <1>1, <2>1, RecallingTruth
  <2>4. task' = [task EXCEPT ![c] = u]
    BY <1>6 DEF DeleteCopy
  <2> HIDE DEF u
  <2>5. TasksTrue'
    BY <1>1, <2>2, <2>3, <2>4, SameIds, SetTaskTruth
  <2>6. NoEcho' /\ OneSource' /\ RoutesTrue'
    BY <2>2 DEF Ownership, NoEcho, OneSource, RoutesTrue, Copies
  <2> QED
    BY <2>2, <2>5, <2>6 DEF Ownership
<1> QED
  BY <1>2, <1>3, <1>4, <1>5, <1>6 DEF RecallSteps

----------------------------------------------------------------------------
(* The controller creates and deletes nothing.                             *)

LEMMA ControllerOwnership ==
    ASSUME TypeInv, Ownership, Controller
    PROVE  Ownership'
<1>1. UNCHANGED <<next, live, copyOf, log, rows>>
  BY DEF Controller, Start, Stop, CleanupTick, Crash, platform, store
<1>2. SuppressedCopies'
  <2>1. \A g \in Gens : suppressed'[g] \subseteq suppressed[g]
    <3>1. CASE Start \/ Stop
      BY <3>1 DEF Start, Stop
    <3>2. CASE CleanupTick
      BY <3>2 DEF CleanupTick, TypeInv, TypeOK, MemoryOK
    <3>3. CASE Crash
      BY <3>3 DEF Crash
    <3> QED
      BY <3>1, <3>2, <3>3 DEF Controller
  <2> QED
    BY <1>1, <2>1 DEF SuppressedCopies, Ownership, Copies
<1>3. TasksTrue'
  <2>1. \A c \in Clients : task'[c] \in {Idle, Gone, task[c]}
    BY DEF Controller, Start, Stop, CleanupTick, Crash
  <2>2. Truthful(Idle) /\ Truthful(Gone)
    BY DEF Truthful, Idle, Gone, Resting, Holding
  <2>3. \A c \in Clients : Truthful(task'[c])
    BY <2>1, <2>2 DEF Ownership, TasksTrue
  <2> QED
    BY <1>1, <2>3 DEF TasksTrue, Truthful, Created, Copies
<1> QED
  BY <1>1, <1>2, <1>3, QuietStep

LEMMA OwnershipStep == TypeInv /\ Ownership /\ [Next]_vars => Ownership'
<1> SUFFICES ASSUME TypeInv, Ownership, [Next]_vars PROVE Ownership'
  OBVIOUS
<1>1. ASSUME NEW c \in Clients, ClientStep(c) \/ ClientFault(c) PROVE Ownership'
  BY <1>1, HearingOwnership, FanoutOwnership, LandingOwnership, RoutingOwnership, RecallOwnership
     DEF ClientStep, ClientFault, Forwarding
<1>2. ASSUME UNCHANGED vars PROVE Ownership'
  <2>1. UNCHANGED <<next, live, copyOf, log, rows, suppressed, task>>
    BY <1>2 DEF vars, platform, store
  <2>2. TasksTrue'
    BY <2>1, SameIds DEF Ownership, TasksTrue, Truthful
  <2> QED
    BY <2>1, <2>2, QuietStep, SameSuppressed
<1> QED
  BY <1>1, <1>2, UsersOwnership, ControllerOwnership DEF Next

(* Ids, routes, suppressions and handlers tell the truth about which       *)
(* message is a copy of which, in every state (Bridge::forward and recall).*)
THEOREM OwnershipInvariant == Spec => []Ownership
<1>1. Init => Ownership
  BY InitOwnership
<1>2. TypeInv /\ Ownership /\ [Next]_vars => Ownership'
  BY OwnershipStep
<1> QED
  BY <1>1, <1>2, TypeInvariant, PTL DEF Spec

(* The bot never forwards a message of its own (the clients' filters).     *)
THEOREM NeverEchoes == Spec => []NoEcho
<1>1. Ownership => NoEcho
  BY DEF Ownership
<1> QED
  BY <1>1, OwnershipInvariant, PTL

(* recall and forward's late cleanup delete only copies of the message     *)
(* they were called for.                                                   *)
THEOREM NeverDeletesForeign == Spec => []NoForeignDelete
<1>1. Ownership => NoForeignDelete
  BY DEF Ownership, TasksTrue, Truthful, Holding, NoForeignDelete
<1> QED
  BY <1>1, OwnershipInvariant, PTL

(* suppressed_recalls never holds the source of a route, so no recall by a *)
(* person is taken for the echo of the bot's own.                          *)
THEOREM NeverSwallowsRecall == Spec => []SuppressionHarmless
<1>1. Ownership => SuppressionHarmless
  BY SourcesArePosted DEF Ownership, SuppressedCopies, SuppressionHarmless
<1> QED
  BY <1>1, OwnershipInvariant, PTL
----------------------------------------------------------------------------
(***************************************************************************)
(* Bridge implements Mirror.  What the ownership invariant does not say is *)
(* proved first: the bridge turns only against messages that were removed  *)
(* (OnlyWithdrawn), and everyone stays on the platform he belongs to       *)
(* (Homes), which also gives NoSelfCall.                                   *)
(***************************************************************************)
LEMMA InitWithdrawn == Init => OnlyWithdrawn /\ Homes
BY DEF Init, OnlyWithdrawn, Homes, At, Gone, Idle, Withdrawing, Resting

(* Where the events of a platform's log come from when s is appended. *)
LEMMA LogMembers ==
    ASSUME NEW lg \in [Plats -> Seq(Events)], NEW q \in Plats, NEW s \in Seq(Events),
           NEW lh, lh = [lg EXCEPT ![q] = lg[q] \o s],
           NEW p \in Plats, NEW i \in DOMAIN lh[p]
    PROVE  \/ i \in DOMAIN lg[p] /\ lh[p][i] = lg[p][i]
           \/ p = q /\ \E j \in DOMAIN s : lh[p][i] = s[j]
<1>1. CASE p # q
  <2>1. lh[p] = lg[p]
    BY <1>1
  <2> QED
    BY <2>1
<1>2. CASE p = q
  <2>1. lh[p] = lg[p] \o s /\ lg[p] \in Seq(Events)
    BY <1>2
  <2>2. \/ i \in DOMAIN lg[p] /\ lh[p][i] = lg[p][i]
        \/ i - Len(lg[p]) \in DOMAIN s /\ lh[p][i] = s[i - Len(lg[p])]
    BY <2>1, ConcatProperties, LenProperties
  <2> QED
    BY <1>2, <2>2
<1> QED
  BY <1>1, <1>2

(* Withdrawn, over a given state of the platforms. *)
Past(nx, lv, m) == Made(nx, m) /\ m \notin lv

LEMMA WithdrawnIsPast ==
    \A m : /\ Withdrawn(m) <=> Past(next, live, m)
           /\ Withdrawn(m)' <=> Past(next', live', m)
BY DEF Withdrawn, Created, Past, Made

(* What the events of a log must satisfy. *)
Sound(nx, lv, p, e) ==
    /\ e.kind = "delete" => Past(nx, lv, e.msg)
    /\ e.msg[1] = p

SoundLog(nx, lv, lg) == \A p \in Plats : \A i \in DOMAIN lg[p] : Sound(nx, lv, p, lg[p][i])

LEMMA SoundLogGrows ==
    ASSUME log \in [Plats -> Seq(Events)], SoundLog(next, live, log),
           \A m : Past(next, live, m) => Past(next', live', m),
           NEW q \in Plats, NEW s \in Seq(Events), \A j \in DOMAIN s : Sound(next', live', q, s[j]),
           log' = [log EXCEPT ![q] = log[q] \o s]
    PROVE  SoundLog(next', live', log')
<1>1. SUFFICES ASSUME NEW p \in Plats, NEW i \in DOMAIN log'[p]
               PROVE  Sound(next', live', p, log'[p][i])
  BY DEF SoundLog
<1>2. \/ i \in DOMAIN log[p] /\ log'[p][i] = log[p][i]
      \/ p = q /\ \E j \in DOMAIN s : log'[p][i] = s[j]
  BY LogMembers
<1>3. CASE i \in DOMAIN log[p] /\ log'[p][i] = log[p][i]
  <2>1. Sound(next, live, p, log[p][i])
    BY <1>3 DEF SoundLog
  <2> QED
    BY <1>3, <2>1 DEF Sound
<1>4. CASE p = q /\ \E j \in DOMAIN s : log'[p][i] = s[j]
  BY <1>4
<1> QED
  BY <1>2, <1>3, <1>4

LEMMA SoundLogAppends ==
    ASSUME log \in [Plats -> Seq(Events)], SoundLog(next, live, log),
           \A m : Past(next, live, m) => Past(next', live', m),
           NEW q \in Plats, NEW e \in Events, Sound(next', live', q, e),
           log' = [log EXCEPT ![q] = Append(log[q], e)]
    PROVE  SoundLog(next', live', log')
<1>1. log[q] \in Seq(Events)
  OBVIOUS
<1>2. Append(log[q], e) = log[q] \o <<e>>
  BY <1>1, AppendIsConcat
<1>3. <<e>> \in Seq(Events) /\ \A i \in DOMAIN <<e>> : <<e>>[i] = e
  OBVIOUS
<1>4. \A j \in DOMAIN <<e>> : Sound(next', live', q, <<e>>[j])
  BY <1>3
<1> QED
  BY <1>2, <1>3, <1>4, SoundLogGrows

(* The invariant over a given state of the platforms. *)
SoundMarks(nx, lv, marks) == \A x \in marks : Past(nx, lv, x[2])

SoundTask(nx, lv, c, t) ==
    /\ t.pc \in Withdrawing => Past(nx, lv, t.msg)
    /\ t.pc \notin Resting => t.msg[1] = c[2]
    /\ t.pc = "sending" => Head(t.left) # t.msg[1]

Elsewhere(co) == \A x \in co : x[1][1] # x[2][1]

Sane(nx, lv, lg, co, marks, ts) ==
    /\ SoundLog(nx, lv, lg) /\ SoundMarks(nx, lv, marks) /\ Elsewhere(co)
    /\ \A c \in Clients : SoundTask(nx, lv, c, ts[c])

LEMMA SaneIsInvariant ==
    /\ OnlyWithdrawn /\ Homes <=> Sane(next, live, log, copyOf, recalled, task)
    /\ (OnlyWithdrawn /\ Homes)' <=> Sane(next', live', log', copyOf', recalled', task')
BY WithdrawnIsPast
   DEF OnlyWithdrawn, Homes, At, Sane, SoundLog, Sound, SoundMarks, SoundTask, Elsewhere

----------------------------------------------------------------------------
(* The tasks.                                                              *)

SoundTasks(nx, lv, ts) == \A c \in Clients : SoundTask(nx, lv, c, ts[c])

LEMMA SetTaskSound ==
    ASSUME TypeInv, NEW ny, NEW lw, SoundTasks(next, live, task),
           \A m : Past(next, live, m) => Past(ny, lw, m),
           NEW c \in Clients, NEW u, SoundTask(ny, lw, c, u),
           task' = [task EXCEPT ![c] = u]
    PROVE  SoundTasks(ny, lw, task')
<1>1. \A k \in Clients : task'[k] = IF k = c THEN u ELSE task[k]
  BY DEF TypeInv, TypeOK
<1> QED
  BY <1>1 DEF SoundTasks, SoundTask

LEMMA RestingSound ==
    ASSUME NEW ny, NEW lw, NEW c
    PROVE  SoundTask(ny, lw, c, Idle) /\ SoundTask(ny, lw, c, Gone)
BY DEF SoundTask, Idle, Gone, Resting, Withdrawing

(* A handler that moves on within what it holds. *)
LEMMA MoveSound ==
    ASSUME TypeInv, SoundTasks(next, live, task),
           NEW ny, NEW lw, \A m : Past(next, live, m) => Past(ny, lw, m),
           NEW c \in Clients, NEW pc \in PCs, Goto(c, pc),
           task[c].pc \notin Resting,
           pc \in Withdrawing => Past(ny, lw, task[c].msg),
           pc = "sending" => Head(task[c].left) # task[c].msg[1]
    PROVE  SoundTasks(ny, lw, task')
<1> DEFINE u == [task[c] EXCEPT !.pc = pc]
<1>1. task[c] \in Task /\ SoundTask(next, live, c, task[c])
  BY DEF TypeInv, TypeOK, SoundTasks
<1>2. u.pc = pc /\ u.msg = task[c].msg /\ u.left = task[c].left
  BY <1>1 DEF Task
<1>3. SoundTask(ny, lw, c, u)
  BY <1>1, <1>2 DEF SoundTask
<1>4. task' = [task EXCEPT ![c] = u]
  BY DEF Goto
<1> QED
  BY <1>3, <1>4, SetTaskSound

LEMMA NextTargetSound ==
    ASSUME TypeInv, SoundTasks(next, live, task),
           NEW c \in Clients, task[c].pc \in Fanning, NextTarget(c)
    PROVE  SoundTasks(next, live, task')
<1>1. task[c] \in Task /\ SoundTask(next, live, c, task[c])
  BY DEF TypeInv, TypeOK, SoundTasks
<1>2. SoundTask(next, live, c, Rest(task[c]))
  BY <1>1 DEF Rest, Task, SoundTask, Resting, Fanning, Withdrawing
<1>3. task' = [task EXCEPT ![c] = Idle] \/ task' = [task EXCEPT ![c] = Rest(task[c])]
  BY DEF NextTarget
<1> QED
  BY <1>2, <1>3, RestingSound, SetTaskSound

(* A step that leaves the messages and the marks alone. *)
LEMMA QuietSane ==
    ASSUME OnlyWithdrawn, Homes, UNCHANGED <<next, live, copyOf, log, recalled>>,
           SoundTasks(next, live, task')
    PROVE  OnlyWithdrawn' /\ Homes'
<1>1. Sane(next, live, log, copyOf, recalled, task)
  BY SaneIsInvariant
<1>2. Sane(next', live', log', copyOf', recalled', task')
  BY <1>1 DEF Sane, SoundTasks
<1> QED
  BY <1>2, SaneIsInvariant

LEMMA TasksAreSound == OnlyWithdrawn /\ Homes => SoundTasks(next, live, task)
BY SaneIsInvariant DEF Sane, SoundTasks

----------------------------------------------------------------------------
(* Handlers that create and remove nothing.                                *)

LEMMA HearingSane ==
    ASSUME TypeInv, OnlyWithdrawn, Homes, NEW c \in Clients,
           Identify(c) \/ IgnoreCreate(c) \/ MissEvents(c)
    PROVE  OnlyWithdrawn' /\ Homes'
<1>1. UNCHANGED <<next, live, copyOf, log, recalled, task>>
  BY DEF Identify, IgnoreCreate, MissEvents, platform, store
<1> QED
  BY <1>1, TasksAreSound, QuietSane

(* What a client hears is about its own platform. *)
LEMMA HeardAtHome ==
    ASSUME TypeInv, OnlyWithdrawn, Homes, NEW c \in Clients, Hears(c)
    PROVE  /\ Heard(c).msg[1] = c[2]
           /\ Heard(c).kind = "delete" => Past(next, live, Heard(c).msg)
BY HeardType, WithdrawnIsPast DEF OnlyWithdrawn, Homes, Heard, Clients

LEMMA FanoutSane ==
    ASSUME TypeInv, OnlyWithdrawn, Homes, NEW c \in Clients,
           \/ BeginForward(c) \/ SkipOwn(c) \/ StopForward(c) \/ SendTo(c) \/ KeepCopy(c)
           \/ SendFails(c) \/ AnswerLost(c) \/ AnswerUnread(c) \/ InsertRoute(c) \/ EndsForGood(c)
    PROVE  OnlyWithdrawn' /\ Homes'
<1>1. UNCHANGED <<next, live, copyOf, log, recalled>>
  BY DEF BeginForward, SkipOwn, StopForward, SendTo, KeepCopy, SendFails, AnswerLost, AnswerUnread,
         InsertRoute, EndsForGood, platform, store
<1>2. SoundTasks(next, live, task)
  BY TasksAreSound
<1>3. SoundTasks(next, live, task')
  <2>1. CASE BeginForward(c)
    <3> DEFINE u == [Idle EXCEPT !.pc = "fanout", !.msg = Heard(c).msg, !.left = Senders,
                                 !.reply = ReplyRecord(Heard(c).replied)]
    <3>1. u.pc = "fanout" /\ u.msg = Heard(c).msg
      BY DEF Idle
    <3>2. task' = [task EXCEPT ![c] = u] /\ Heard(c).msg[1] = c[2]
      BY <2>1, HeardAtHome DEF BeginForward
    <3> HIDE DEF u
    <3>3. SoundTask(next, live, c, u)
      BY <3>1, <3>2 DEF SoundTask, Withdrawing
    <3> QED
      BY <1>2, <3>2, <3>3, SetTaskSound
  <2>2. CASE SkipOwn(c) \/ SendFails(c) \/ AnswerLost(c) \/ AnswerUnread(c) \/ InsertRoute(c)
    BY <1>2, <2>2, NextTargetSound
       DEF SkipOwn, SendFails, AnswerLost, AnswerUnread, InsertRoute, At, Fanning
  <2>3. CASE StopForward(c) \/ EndsForGood(c)
    BY <1>2, <2>3, RestingSound, SetTaskSound DEF StopForward, EndsForGood
  <2>4. CASE SendTo(c)
    BY <1>2, <2>4, MoveSound DEF SendTo, At, Own, PCs, Resting, Withdrawing
  <2>5. CASE KeepCopy(c)
    BY <1>2, <2>5, MoveSound DEF KeepCopy, At, PCs, Resting, Withdrawing
  <2> QED
    BY <2>1, <2>2, <2>3, <2>4, <2>5
<1> QED
  BY <1>1, <1>3, QuietSane

----------------------------------------------------------------------------
(* People post and remove messages.                                        *)

LEMMA UsersSane ==
    ASSUME TypeInv, Ownership, OnlyWithdrawn, Homes, Users
    PROVE  OnlyWithdrawn' /\ Homes'
<1>1. Sane(next, live, log, copyOf, recalled, task)
  BY SaneIsInvariant
<1>2. next \in [Plats -> Nat] /\ log \in [Plats -> Seq(Events)]
  BY DEF TypeInv, TypeOK, PlatformOK
<1>3. ASSUME \A m : Past(next, live, m) => Past(next', live', m),
             UNCHANGED <<copyOf, recalled, task>>, SoundLog(next', live', log')
      PROVE  OnlyWithdrawn' /\ Homes'
  <2>1. Sane(next', live', log', copyOf', recalled', task')
    BY <1>1, <1>3 DEF Sane, SoundMarks, SoundTask
  <2> QED
    BY <2>1, SaneIsInvariant
<1>4. ASSUME NEW p \in Plats, NEW r \in Endpoint \cup {NoMsg}, Post(p, r)
      PROVE  OnlyWithdrawn' /\ Homes'
  <2> DEFINE m == <<p, next[p] + 1>>
             e == Event("create", m, r)
  <2>1. next' = [next EXCEPT ![p] = next[p] + 1] /\ live' = live \cup {m}
    BY <1>4 DEF Post
  <2>2. \A x : Past(next, live, x) => Past(next', live', x)
    BY <1>2, <2>1 DEF Past, Made
  <2>3. e \in Events /\ Sound(next', live', p, e)
    BY <1>2, NewEndpoint DEF Event, Events, Sound
  <2>4. log' = [log EXCEPT ![p] = Append(log[p], e)]
    BY <1>4 DEF Post
  <2> HIDE DEF m, e
  <2>5. SoundLog(next', live', log')
    BY <1>1, <1>2, <2>2, <2>3, <2>4, SoundLogAppends DEF Sane
  <2> QED
    BY <1>3, <1>4, <2>2, <2>5 DEF Post, store
<1>5. ASSUME NEW m \in live, Delete(m)
      PROVE  OnlyWithdrawn' /\ Homes'
  <2> DEFINE e == Event("delete", m, NoMsg)
             q == m[1]
  <2>1. next' = next /\ live' = live \ {m}
    BY <1>5 DEF Delete
  <2>2. \A x : Past(next, live, x) => Past(next', live', x)
    BY <2>1 DEF Past
  <2>3. Made(next, m) /\ q \in Plats /\ m \in Endpoint
    BY PlatsArePlatforms DEF Ownership, IdsCreated, Created, Made, TypeInv, TypeOK, PlatformOK, Endpoint
  <2>4. e \in Events /\ Sound(next', live', q, e)
    BY <2>1, <2>3 DEF Event, Events, Sound, Past
  <2>5. log' = [log EXCEPT ![q] = Append(log[q], e)]
    BY <1>5 DEF Delete
  <2> HIDE DEF e, q
  <2>6. SoundLog(next', live', log')
    BY <1>1, <1>2, <2>2, <2>3, <2>4, <2>5, SoundLogAppends DEF Sane
  <2> QED
    BY <1>3, <1>5, <2>2, <2>6 DEF Delete, store
<1>6. Posters \subseteq Plats
  BY BridgeAssumption
<1>7. ASSUME NEW p \in Posters PROVE {<<p, i>> : i \in 1..next[p]} \subseteq Endpoint
  BY <1>6, NewEndpoint DEF TypeInv, TypeOK, PlatformOK
<1> QED
  BY <1>4, <1>5, <1>6, <1>7 DEF Users

----------------------------------------------------------------------------
(* A send lands on another platform.                                       *)

LEMMA LandingSane ==
    ASSUME TypeInv, Ownership, OnlyWithdrawn, Homes, NEW c \in Clients, SendLands(c)
    PROVE  OnlyWithdrawn' /\ Homes'
<1> DEFINE m == task[c].msg
           p == Head(task[c].left)
           New(n) == {<<p, i>> : i \in (next[p] + 1)..(next[p] + n)}
           echo(n) == [i \in 1..n |-> Event("create", <<p, next[p] + i>>, NoMsg)]
           t == [task[c] EXCEPT !.pc = "landed", !.dst = <<p, next[p] + 1>>]
<1>1. /\ task[c] \in Task /\ task[c].left \in Seq(Plats) /\ task[c].left # <<>>
      /\ task[c].pc = "sending" /\ SoundTask(next, live, c, task[c])
  BY TasksAreSound DEF SendLands, At, TypeInv, TypeOK, Task, Shape, Fanning, SoundTasks
<1>2. p \in Plats /\ p # m[1] /\ m[1] = c[2]
  BY <1>1, TailSeq DEF SoundTask, Resting
<1>3. /\ next \in [Plats -> Nat] /\ log \in [Plats -> Seq(Events)] /\ next[p] \in Nat
      /\ Sane(next, live, log, copyOf, recalled, task)
  BY <1>2, SaneIsInvariant DEF TypeInv, TypeOK, PlatformOK
<1>4. PICK n \in Parts(p) :
        /\ next' = [next EXCEPT ![p] = next[p] + n]
        /\ live' = live \cup New(n)
        /\ copyOf' = copyOf \cup {<<d, m>> : d \in New(n)}
        /\ log' = IF p \in Echoes THEN [log EXCEPT ![p] = log[p] \o echo(n)] ELSE log
  BY DEF SendLands
<1>5. n \in Nat /\ n >= 1
  BY BoundsNat DEF Parts
<1>6. \A d \in New(n) : ~Made(next, d) /\ d[1] = p
  <2>1. \A d \in New(n) : ~Made(next, d)
    BY <1>2, <1>3, <1>5, FreshIds
  <2>2. \A d \in New(n) : d[1] = p
    <3> HIDE DEF p
    <3> QED
      OBVIOUS
  <2> QED
    BY <2>1, <2>2
<1>7. \A x : Made(next, x) => Made(next', x)
  <2> HIDE DEF p
  <2>1. next' = [next EXCEPT ![p] = next[p] + n]
    BY <1>4
  <2>2. next' \in [Plats -> Nat] /\ \A q \in Plats : next[q] <= next'[q]
    BY <1>2, <1>3, <1>5, <2>1
  <2> QED
    BY <1>3, <2>2, LaterMade
<1>8. \A x : Past(next, live, x) => Past(next', live', x)
  BY <1>4, <1>6, <1>7 DEF Past
<1>9. SoundLog(next', live', log')
  <2>1. CASE p \in Echoes
    <3> DEFINE s == echo(n)
    <3>1. s \in Seq(Events)
      BY <1>2, <1>3, <1>5, AlbumEvents
    <3>2. \A j \in DOMAIN s : Sound(next', live', p, s[j])
      BY DEF Event, Sound
    <3>3. log' = [log EXCEPT ![p] = log[p] \o s]
      BY <1>4, <2>1
    <3> HIDE DEF s, p
    <3> QED
      BY <1>2, <1>3, <1>8, <3>1, <3>2, <3>3, SoundLogGrows DEF Sane
  <2>2. CASE p \notin Echoes
    BY <1>3, <1>4, <1>8, <2>2 DEF Sane, SoundLog, Sound
  <2> QED
    BY <2>1, <2>2
<1>10. Elsewhere(copyOf')
  <2> HIDE DEF m, p, New
  <2>1. \A x \in {<<d, m>> : d \in New(n)} : x[1][1] # x[2][1]
    BY <1>2, <1>6
  <2> QED
    BY <1>3, <1>4, <2>1 DEF Sane, Elsewhere
<1>11. recalled' = recalled /\ SoundMarks(next', live', recalled')
  BY <1>3, <1>8 DEF SendLands, store, Sane, SoundMarks
<1>12. SoundTasks(next', live', task')
  <2>1. PICK u : u = t
    OBVIOUS
  <2>2. u.pc = "landed" /\ u.msg = m
    BY <1>1, <2>1 DEF Task
  <2>3. SoundTask(next', live', c, u)
    BY <1>2, <2>2 DEF SoundTask, Withdrawing
  <2>4. task' = [task EXCEPT ![c] = u]
    BY <2>1 DEF SendLands
  <2> QED
    BY <1>8, <2>3, <2>4, TasksAreSound, SetTaskSound
<1>13. Sane(next', live', log', copyOf', recalled', task')
  BY <1>9, <1>10, <1>11, <1>12 DEF Sane, SoundTasks
<1> QED
  BY <1>13, SaneIsInvariant

----------------------------------------------------------------------------
(* The bot removes a copy.                                                 *)

LEMMA DeletionSane ==
    ASSUME TypeInv, Ownership, OnlyWithdrawn, Homes, NEW c \in Clients,
           <<task[c].dst, task[c].msg>> \in copyOf, Deletion(c)
    PROVE  /\ \A x : Past(next, live, x) => Past(next', live', x)
           /\ SoundLog(next', live', log')
           /\ UNCHANGED <<next, copyOf>>
<1> DEFINE d == task[c].dst
           e == Event("delete", d, NoMsg)
           q == d[1]
<1>1. UNCHANGED <<next, copyOf>>
  BY DEF Deletion, Refused
<1>2. log \in [Plats -> Seq(Events)] /\ SoundLog(next, live, log)
  BY SaneIsInvariant DEF TypeInv, TypeOK, PlatformOK, Sane
<1>3. Made(next, d) /\ q \in Plats /\ d \in Endpoint
  BY DEF Ownership, IdsCreated, Created, Made, TypeInv, TypeOK, PlatformOK
<1>4. Removed(d) \/ UNCHANGED <<live, log>>
  BY DEF Deletion, Refused
<1>5. \A x : Past(next, live, x) => Past(next', live', x)
  BY <1>1, <1>4 DEF Removed, Past
<1>6. CASE log' = log
  BY <1>1, <1>2, <1>5, <1>6 DEF SoundLog, Sound
<1>7. CASE log' # log
  <2>1. log' = [log EXCEPT ![q] = Append(log[q], e)] /\ live' = live \ {d}
    BY <1>4, <1>7 DEF Removed
  <2>2. e \in Events /\ Sound(next', live', q, e)
    BY <1>1, <1>3, <2>1 DEF Event, Events, Sound, Past
  <2> HIDE DEF e, q
  <2>3. SoundLog(next', live', log')
    BY <1>2, <1>3, <1>5, <2>1, <2>2, SoundLogAppends
  <2> QED
    BY <1>1, <1>5, <2>3
<1> QED
  BY <1>1, <1>5, <1>6, <1>7

LEMMA UndoSane ==
    ASSUME TypeInv, Ownership, OnlyWithdrawn, Homes, NEW c \in Clients, UndoCopy(c) \/ CleanUp(c)
    PROVE  OnlyWithdrawn' /\ Homes'
<1>1. SoundTasks(next, live, task) /\ Sane(next, live, log, copyOf, recalled, task)
  BY TasksAreSound, SaneIsInvariant
<1>2. CASE UndoCopy(c)
  <2>1. UNCHANGED <<next, live, copyOf, log, recalled>>
    BY <1>2 DEF UndoCopy, platform, store
  <2>2. Past(next, live, task[c].msg)
    <3>1. PICK x \in recalled : x = <<Group, task[c].msg>>
      BY <1>2 DEF UndoCopy, IsMarked, IsRecalled
    <3> QED
      BY <1>1, <3>1 DEF Sane, SoundMarks
  <2>3. SoundTasks(next, live, task')
    BY <1>1, <1>2, <2>2, MoveSound DEF UndoCopy, At, PCs, Resting
  <2> QED
    BY <2>1, <2>3, QuietSane
<1>3. CASE CleanUp(c)
  <2>1. <<task[c].dst, task[c].msg>> \in copyOf
    BY <1>3 DEF CleanUp, At, Ownership, TasksTrue, Truthful, Holding
  <2>2. /\ \A x : Past(next, live, x) => Past(next', live', x)
        /\ SoundLog(next', live', log') /\ copyOf' = copyOf /\ recalled' = recalled
    BY <1>3, <2>1, DeletionSane DEF CleanUp, store
  <2>3. SoundTasks(next', live', task')
    BY <1>1, <1>3, <2>2, MoveSound DEF CleanUp, At, PCs, Resting, Withdrawing
  <2>4. Sane(next', live', log', copyOf', recalled', task')
    BY <1>1, <2>2, <2>3 DEF Sane, SoundMarks, SoundTasks
  <2> QED
    BY <2>4, SaneIsInvariant
<1> QED
  BY <1>2, <1>3

LEMMA RecallingSound ==
    ASSUME NEW ny, NEW lw, NEW c, NEW t \in Task, NEW S,
           SoundTask(ny, lw, c, t), t.pc \in Withdrawing
    PROVE  SoundTask(ny, lw, c, Recalling(t, S))
<1>1. CASE S = {}
  BY <1>1, RestingSound DEF Recalling
<1>2. CASE S # {}
  <2>1. Recalling(t, S).pc = "recalling" /\ Recalling(t, S).msg = t.msg
    BY <1>2 DEF Recalling, Task
  <2> QED
    BY <2>1 DEF SoundTask, Withdrawing, Resting
<1> QED
  BY <1>1, <1>2

LEMMA RecallSane ==
    ASSUME TypeInv, Ownership, OnlyWithdrawn, Homes, NEW c \in Clients, RecallSteps(c)
    PROVE  OnlyWithdrawn' /\ Homes'
<1>1. /\ SoundTasks(next, live, task) /\ Sane(next, live, log, copyOf, recalled, task)
      /\ task[c] \in Task /\ SoundTask(next, live, c, task[c])
  BY TasksAreSound, SaneIsInvariant DEF TypeInv, TypeOK, SoundTasks
<1>2. CASE HandleDelete(c)
  <2> DEFINE u == [Idle EXCEPT !.pc = "marking", !.msg = Heard(c).msg]
  <2>1. UNCHANGED <<next, live, copyOf, log, recalled>>
    BY <1>2 DEF HandleDelete, platform, store
  <2>2. u.pc = "marking" /\ u.msg = Heard(c).msg
    BY DEF Idle
  <2>3. Heard(c).msg[1] = c[2] /\ Past(next, live, Heard(c).msg)
    BY <1>2, HeardAtHome DEF HandleDelete
  <2>4. task' = task \/ task' = [task EXCEPT ![c] = u]
    BY <1>2 DEF HandleDelete
  <2> HIDE DEF u
  <2>5. SoundTask(next, live, c, u)
    BY <2>2, <2>3 DEF SoundTask
  <2>6. SoundTasks(next, live, task')
    BY <1>1, <2>4, <2>5, SetTaskSound
  <2> QED
    BY <2>1, <2>6, QuietSane
<1>3. CASE Mark(c)
  <2>1. UNCHANGED <<next, live, copyOf, log>> /\ recalled' = recalled \cup {<<Group, task[c].msg>>}
    BY <1>3 DEF Mark, platform, MarkRecalled
  <2>2. Past(next, live, task[c].msg)
    BY <1>1, <1>3 DEF Mark, At, SoundTask, Withdrawing
  <2>3. SoundTasks(next, live, task')
    BY <1>1, <1>3, <2>2, MoveSound DEF Mark, At, PCs, Resting
  <2>4. SoundMarks(next, live, recalled')
    BY <1>1, <2>1, <2>2 DEF Sane, SoundMarks
  <2>5. Sane(next', live', log', copyOf', recalled', task')
    BY <1>1, <2>1, <2>3, <2>4 DEF Sane, SoundTasks
  <2> QED
    BY <2>5, SaneIsInvariant
<1>4. CASE LookUp(c)
  <2> DEFINE u == Recalling(task[c], Linked(task[c].msg))
  <2>1. UNCHANGED <<next, live, copyOf, log, recalled>>
    BY <1>4 DEF LookUp, platform, store
  <2>2. SoundTask(next, live, c, u)
    BY <1>1, <1>4, RecallingSound DEF LookUp, At, Withdrawing
  <2>3. task' = [task EXCEPT ![c] = u]
    BY <1>4 DEF LookUp
  <2> HIDE DEF u
  <2>4. SoundTasks(next, live, task')
    BY <1>1, <2>2, <2>3, SetTaskSound
  <2> QED
    BY <2>1, <2>4, QuietSane
<1>5. CASE RecallCopy(c)
  <2>1. PICK d \in task[c].todo :
          task' = [task EXCEPT ![c] = [task[c] EXCEPT !.pc = "deleting", !.dst = d,
                                                       !.todo = task[c].todo \ {d}]]
    BY <1>5 DEF RecallCopy
  <2> DEFINE u == [task[c] EXCEPT !.pc = "deleting", !.dst = d, !.todo = task[c].todo \ {d}]
  <2>2. UNCHANGED <<next, live, copyOf, log, recalled>>
    BY <1>5 DEF RecallCopy, platform, store
  <2>3. u.pc = "deleting" /\ u.msg = task[c].msg
    BY <1>1 DEF Task
  <2>4. task' = [task EXCEPT ![c] = u]
    BY <2>1
  <2> HIDE DEF u
  <2>5. SoundTask(next, live, c, u)
    BY <1>1, <1>5, <2>3 DEF RecallCopy, At, SoundTask, Withdrawing, Resting
  <2>6. SoundTasks(next, live, task')
    BY <1>1, <2>4, <2>5, SetTaskSound
  <2> QED
    BY <2>2, <2>6, QuietSane
<1>6. CASE DeleteCopy(c)
  <2> DEFINE u == Recalling(task[c], task[c].todo)
  <2>1. <<task[c].dst, task[c].msg>> \in copyOf
    BY <1>6 DEF DeleteCopy, At, Ownership, TasksTrue, Truthful, Holding
  <2>2. /\ \A x : Past(next, live, x) => Past(next', live', x)
        /\ SoundLog(next', live', log') /\ copyOf' = copyOf /\ recalled' = recalled
    BY <1>6, <2>1, DeletionSane DEF DeleteCopy, store
  <2>3. SoundTask(next', live', c, task[c])
    BY <1>1, <2>2 DEF SoundTask
  <2>4. SoundTask(next', live', c, u)
    BY <1>1, <1>6, <2>3, RecallingSound DEF DeleteCopy, At, Withdrawing
  <2>5. task' = [task EXCEPT ![c] = u]
    BY <1>6 DEF DeleteCopy
  <2> HIDE DEF u
  <2>6. SoundTasks(next', live', task')
    BY <1>1, <2>2, <2>4, <2>5, SetTaskSound
  <2>7. Sane(next', live', log', copyOf', recalled', task')
    BY <1>1, <2>2, <2>6 DEF Sane, SoundMarks, SoundTasks
  <2> QED
    BY <2>7, SaneIsInvariant
<1> QED
  BY <1>2, <1>3, <1>4, <1>5, <1>6 DEF RecallSteps

LEMMA ControllerSane ==
    ASSUME TypeInv, OnlyWithdrawn, Homes, Controller
    PROVE  OnlyWithdrawn' /\ Homes'
<1>1. UNCHANGED <<next, live, copyOf, log, recalled>>
  BY DEF Controller, Start, Stop, CleanupTick, Crash, platform, store
<1>2. \A c \in Clients : task'[c] \in {Idle, Gone, task[c]}
  BY DEF Controller, Start, Stop, CleanupTick, Crash
<1>3. SoundTasks(next, live, task')
  BY <1>2, TasksAreSound, RestingSound DEF SoundTasks
<1> QED
  BY <1>1, <1>3, QuietSane

LEMMA SaneStep == TypeInv /\ Ownership /\ OnlyWithdrawn /\ Homes /\ [Next]_vars => (OnlyWithdrawn /\ Homes)'
<1> SUFFICES ASSUME TypeInv, Ownership, OnlyWithdrawn, Homes, [Next]_vars
             PROVE  OnlyWithdrawn' /\ Homes'
  OBVIOUS
<1>1. ASSUME NEW c \in Clients, ClientStep(c) \/ ClientFault(c) PROVE OnlyWithdrawn' /\ Homes'
  BY <1>1, HearingSane, FanoutSane, LandingSane, UndoSane, RecallSane
     DEF ClientStep, ClientFault, Forwarding
<1>2. ASSUME UNCHANGED vars PROVE OnlyWithdrawn' /\ Homes'
  <2>1. UNCHANGED <<next, live, copyOf, log, recalled, task>>
    BY <1>2 DEF vars, platform, store
  <2> QED
    BY <2>1, TasksAreSound, QuietSane
<1> QED
  BY <1>1, <1>2, UsersSane, ControllerSane DEF Next

(* The bridge marks, recalls and undoes only what was removed, and every   *)
(* handler stays with the messages of its own client's platform.           *)
THEOREM OnlyWithdrawnInvariant == Spec => [](OnlyWithdrawn /\ Homes)
<1>1. Init => OnlyWithdrawn /\ Homes
  BY InitWithdrawn
<1>2. TypeInv /\ Ownership /\ OnlyWithdrawn /\ Homes /\ [Next]_vars => (OnlyWithdrawn /\ Homes)'
  BY SaneStep
<1> QED
  BY <1>1, <1>2, TypeInvariant, OwnershipInvariant, PTL DEF Spec

(* No handler of forward or recall calls the platform of its own client,   *)
(* so the QQ client never waits for an answer only it could read.          *)
THEOREM NeverCallsItself == Spec => []NoSelfCall
<1>1. Ownership /\ OnlyWithdrawn /\ Homes => NoSelfCall
  <2> SUFFICES ASSUME Ownership, Homes, NEW c \in Clients
               PROVE  /\ At(c, "sending") => Head(task[c].left) # c[2]
                      /\ task[c].pc \in {"cleaning", "deleting"} => task[c].dst[1] # c[2]
    BY DEF NoSelfCall
  <2>1. At(c, "sending") => Head(task[c].left) # c[2]
    BY DEF Homes, At, Resting
  <2>2. ASSUME task[c].pc \in {"cleaning", "deleting"} PROVE task[c].dst[1] # c[2]
    <3>1. <<task[c].dst, task[c].msg>> \in copyOf /\ task[c].msg[1] = c[2]
      BY <2>2 DEF Ownership, TasksTrue, Truthful, Holding, Homes, Resting
    <3> QED
      BY <3>1 DEF Homes
  <2> QED
    BY <2>1, <2>2
<1> QED
  BY <1>1, OwnershipInvariant, OnlyWithdrawnInvariant, PTL

----------------------------------------------------------------------------
(* Every step of Bridge is a step of Mirror, or changes nothing there.     *)

LEMMA InitMirrors == Init => Promise!Init
BY DEF Init, Promise!Init, Bounds

LEMMA UsersMirror ==
    ASSUME TypeInv, Users
    PROVE  Promise!Next
<1>1. next \in [Plats -> Nat] /\ used \in [Bounds -> Nat] /\ Posters \subseteq Plats
  BY BridgeAssumption DEF TypeInv, TypeOK, PlatformOK, ControlOK
<1>2. ASSUME NEW p \in Posters, NEW r, Post(p, r) PROVE Promise!Next
  <2>1. Promise!New(p, 1) = {<<p, next[p] + 1>>}
    BY <1>1 DEF Promise!New
  <2>2. used'["deletes"] = used["deletes"]
    BY <1>1, <1>2 DEF Post, Spend, Bounds
  <2>3. Promise!PersonPosts(p)
    BY <1>2, <2>1, <2>2 DEF Post, Promise!PersonPosts, Promise!Create
  <2> QED
    BY <1>1, <2>3 DEF Promise!Next
<1>3. ASSUME NEW m \in live, Delete(m) PROVE Promise!Next
  <2>1. used'["deletes"] = used["deletes"] + 1
    BY <1>1, <1>3 DEF Delete, Spend, Bounds
  <2>2. Promise!PersonRemoves(m)
    BY <1>3, <2>1 DEF Delete, Promise!PersonRemoves, Promise!Remove
  <2> QED
    BY <2>2 DEF Promise!Next
<1> QED
  BY <1>2, <1>3 DEF Users

LEMMA LandingMirrors ==
    ASSUME TypeInv, Ownership, OnlyWithdrawn, Homes, NEW c \in Clients, SendLands(c)
    PROVE  Promise!Next
<1> DEFINE m == task[c].msg
           p == Head(task[c].left)
<1>1. /\ task[c] \in Task /\ task[c].left \in Seq(Plats) /\ task[c].left # <<>>
      /\ task[c].pc = "sending" /\ m \in Endpoint
      /\ Created(m) /\ m \notin Copies /\ p # m[1]
  BY DEF SendLands, At, TypeInv, TypeOK, Task, Shape, Fanning, Resting,
         Ownership, TasksTrue, Truthful, Homes
<1>2. p \in Plats
  BY <1>1, TailSeq
<1>3. PICK n \in Parts(p) :
        /\ next' = [next EXCEPT ![p] = next[p] + n]
        /\ live' = live \cup Promise!New(p, n)
        /\ copyOf' = copyOf \cup {<<d, m>> : d \in Promise!New(p, n)}
  BY DEF SendLands, Promise!New
<1>4. n \in 1..(1 + MaxExtra)
  BY BoundsNat DEF Parts
<1>5. m[1] \in Plats /\ m[2] \in 1..next[m[1]] /\ m = <<m[1], m[2]>>
  BY <1>1 DEF Created, Endpoint
<1>6. Promise!BotCopies(m, p, n)
  <2>1. Promise!Existed(m) /\ ~Promise!IsCopy(m)
    BY <1>1, <1>5 DEF Promise!Existed, Promise!IsCopy, Copies
  <2>2. used' = used
    BY DEF SendLands
  <2> HIDE DEF m, p
  <2> QED
    BY <1>1, <1>3, <2>1, <2>2 DEF Promise!BotCopies, Promise!Create
<1> HIDE DEF m, p
<1>7. Promise!BotCopies(<<m[1], m[2]>>, p, n)
  BY <1>5, <1>6
<1> QED
  BY <1>2, <1>4, <1>5, <1>7 DEF Promise!Next

LEMMA DeletionMirrors ==
    ASSUME TypeInv, Ownership, OnlyWithdrawn, Homes, NEW c \in Clients, CleanUp(c) \/ DeleteCopy(c)
    PROVE  Promise!Next \/ UNCHANGED Promise!vars
<1> DEFINE x == <<task[c].dst, task[c].msg>>
<1>1. x \in copyOf /\ Withdrawn(task[c].msg) /\ Deletion(c)
  BY DEF CleanUp, DeleteCopy, At, Ownership, TasksTrue, Truthful, Holding, OnlyWithdrawn, Withdrawing
<1>2. UNCHANGED <<next, copyOf>>
  BY <1>1 DEF Deletion, Refused
<1>3. used'["deletes"] = used["deletes"]
  <2>1. used' = used \/ Spend("faults", MaxFaults)
    BY <1>1 DEF Deletion
  <2> QED
    BY <2>1 DEF Spend, TypeInv, TypeOK, ControlOK, Bounds
<1>4. live' = live \/ live' = live \ {task[c].dst}
  BY <1>1 DEF Deletion, Removed, Refused
<1>5. CASE live' = live
  BY <1>2, <1>3, <1>5 DEF Promise!vars
<1>6. CASE live' = live \ {task[c].dst}
  <2>1. Promise!BotRemoves(x)
    BY <1>1, <1>2, <1>3, <1>6
       DEF Promise!BotRemoves, Promise!Removed, Promise!Existed, Promise!Remove, Withdrawn, Created
  <2> QED
    BY <1>1, <2>1 DEF Promise!Next
<1> QED
  BY <1>4, <1>5, <1>6

LEMMA RestMirrors ==
    ASSUME TypeInv, UNCHANGED <<next, live, copyOf>>,
           used' = used \/ \E b \in Bounds \ {"deletes"} : \E max : Spend(b, max)
    PROVE  UNCHANGED Promise!vars
<1>1. used'["deletes"] = used["deletes"]
  BY DEF Spend, TypeInv, TypeOK, ControlOK, Bounds
<1> QED
  BY <1>1 DEF Promise!vars

LEMMA HandlersMirror ==
    ASSUME TypeInv, Ownership, OnlyWithdrawn, Homes, NEW c \in Clients,
           ClientStep(c) \/ ClientFault(c)
    PROVE  Promise!Next \/ UNCHANGED Promise!vars
<1>1. CASE SendLands(c)
  BY <1>1, LandingMirrors
<1>2. CASE CleanUp(c) \/ DeleteCopy(c)
  BY <1>2, DeletionMirrors
<1>3. CASE \/ Identify(c) \/ IgnoreCreate(c) \/ BeginForward(c) \/ SkipOwn(c) \/ StopForward(c)
           \/ SendTo(c) \/ KeepCopy(c) \/ UndoCopy(c) \/ InsertRoute(c)
           \/ HandleDelete(c) \/ Mark(c) \/ LookUp(c) \/ RecallCopy(c) \/ AnswerUnread(c)
  <2>1. UNCHANGED <<next, live, copyOf, used>>
    BY <1>3 DEF AnswerUnread, Identify, IgnoreCreate, BeginForward, SkipOwn, StopForward, SendTo, KeepCopy, UndoCopy,
                InsertRoute, HandleDelete, Mark, LookUp, RecallCopy, platform
  <2> QED
    BY <2>1, RestMirrors
<1>4. CASE ClientFault(c)
  <2>1. UNCHANGED <<next, live, copyOf>> /\ (used' = used \/ Spend("faults", MaxFaults))
    BY <1>4 DEF ClientFault, SendFails, AnswerLost, MissEvents, EndsForGood, platform
  <2> QED
    BY <2>1, RestMirrors DEF Bounds
<1> QED
  BY <1>1, <1>2, <1>3, <1>4 DEF ClientStep, Forwarding, RecallSteps

LEMMA ControllerMirrors ==
    ASSUME TypeInv, Controller
    PROVE  UNCHANGED Promise!vars
<1>1. UNCHANGED <<next, live, copyOf>>
  BY DEF Controller, Start, Stop, CleanupTick, Crash, platform
<1>2. used' = used \/ Spend("crashes", MaxCrashes)
  BY DEF Controller, Start, Stop, CleanupTick, Crash
<1> QED
  BY <1>1, <1>2, RestMirrors DEF Bounds

LEMMA StepMirrors ==
    TypeInv /\ Ownership /\ OnlyWithdrawn /\ Homes /\ [Next]_vars => [Promise!Next]_(Promise!vars)
<1> SUFFICES ASSUME TypeInv, Ownership, OnlyWithdrawn, Homes, [Next]_vars
             PROVE  Promise!Next \/ UNCHANGED Promise!vars
  OBVIOUS
<1>1. CASE UNCHANGED vars
  BY <1>1 DEF vars, platform, Promise!vars
<1> QED
  BY <1>1, UsersMirror, HandlersMirror, ControllerMirrors DEF Next

(* Bridge::forward, Bridge::recall, the clients' filters and the store do  *)
(* to the chats what Mirror says, and no more, in every interleaving, with *)
(* crashes, lost answers and overlapping generations.                      *)
THEOREM BridgeMirrors == Spec => KeepsPromise
<1>1. Init => Promise!Init
  BY InitMirrors
<1>2. TypeInv /\ Ownership /\ OnlyWithdrawn /\ Homes /\ [Next]_vars => [Promise!Next]_(Promise!vars)
  BY StepMirrors
<1> QED
  BY <1>1, <1>2, TypeInvariant, OwnershipInvariant, OnlyWithdrawnInvariant, PTL
     DEF Spec, KeepsPromise, Promise!Spec
=============================================================================
