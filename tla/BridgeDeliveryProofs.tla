------------------------- MODULE BridgeDeliveryProofs -------------------------
(***************************************************************************)
(* What becomes of the copies forward creates, for every list of senders   *)
(* and every bound: none is lost track of (RoutedOrInFlight), one that     *)
(* comes after the mark of its source is undone (LateCopyUndone), and the  *)
(* mark stops every fan-out at the target it is on (FanoutStops).          *)
(***************************************************************************)
EXTENDS BridgeProofs, FiniteSetTheorems

(***************************************************************************)
(* A generation that was not started has no handlers: Start puts idle      *)
(* tasks where nobody works.                                               *)
(***************************************************************************)
GensStarted == \A c \in Clients : c[1] > gen => task[c] = Gone

(* A step of a client is a step of its own handler. *)
LEMMA OneTask ==
    ASSUME TypeInv, NEW c \in Clients, ClientStep(c) \/ ClientFault(c)
    PROVE  /\ task[c].pc # "gone"
           /\ \A k \in Clients \ {c} : task'[k] = task[k]
           /\ UNCHANGED control
<1>1. task \in [Clients -> Task]
  BY DEF TypeInv, TypeOK
<1>2. CASE Identify(c) \/ IgnoreCreate(c) \/ MissEvents(c)
  BY <1>2 DEF Identify, IgnoreCreate, MissEvents, Hears
<1>3. CASE BeginForward(c) \/ HandleDelete(c)
  BY <1>1, <1>3 DEF BeginForward, HandleDelete, Hears
<1>4. CASE SkipOwn(c) \/ SendFails(c) \/ AnswerLost(c) \/ AnswerUnread(c) \/ InsertRoute(c)
  BY <1>1, <1>4 DEF SkipOwn, SendFails, AnswerLost, AnswerUnread, InsertRoute, NextTarget, At
<1>5. CASE StopForward(c) \/ SendTo(c) \/ KeepCopy(c) \/ UndoCopy(c) \/ CleanUp(c) \/ Mark(c)
           \/ EndsForGood(c)
  BY <1>1, <1>5 DEF StopForward, SendTo, KeepCopy, UndoCopy, CleanUp, Mark, EndsForGood, Goto, At
<1>6. CASE LookUp(c) \/ RecallCopy(c) \/ DeleteCopy(c) \/ SendLands(c)
  BY <1>1, <1>6 DEF LookUp, RecallCopy, DeleteCopy, SendLands, At
<1> QED
  BY <1>2, <1>3, <1>4, <1>5, <1>6 DEF ClientStep, ClientFault, Forwarding, RecallSteps

LEMMA StartedStep == TypeInv /\ GensStarted /\ [Next]_vars => GensStarted'
<1> SUFFICES ASSUME TypeInv, GensStarted, [Next]_vars PROVE GensStarted'
  OBVIOUS
<1>0. gen \in Nat /\ \A c \in Clients : c[1] \in Nat
  BY BoundsNat DEF TypeInv, TypeOK, ControlOK, Clients, Gens
<1>1. ASSUME NEW c \in Clients, ClientStep(c) \/ ClientFault(c) PROVE GensStarted'
  <2>1. task[c] # Gone
    BY <1>1, OneTask DEF Gone, Idle
  <2> QED
    BY <1>1, <2>1, OneTask DEF GensStarted, control
<1>2. CASE Users \/ UNCHANGED vars
  BY <1>2 DEF Users, Post, Delete, vars, GensStarted, control
<1>3. CASE Controller
  <2>1. CASE Start
    BY <1>0, <2>1 DEF Start, GensStarted
  <2>2. CASE Stop \/ CleanupTick \/ Crash
    BY <2>2 DEF Stop, CleanupTick, Crash, GensStarted, control
  <2> QED
    BY <1>3, <2>1, <2>2 DEF Controller
<1> QED
  BY <1>1, <1>2, <1>3 DEF Next

(* Only generations that run_bot has started have handlers.                *)
THEOREM StartedInvariant == Spec => []GensStarted
<1>1. Init => GensStarted
  BY DEF Init, GensStarted
<1> QED
  BY <1>1, StartedStep, TypeInvariant, PTL DEF Spec

----------------------------------------------------------------------------
(***************************************************************************)
(* RoutedOrInFlight is not inductive: it would let a handler that is still *)
(* before its send stand for a copy it will never record.  The handler     *)
(* must be past the send and before the insert.                            *)
(***************************************************************************)
Sent == {"landed", "cleaning", "inserting"}

Carries(t, x) == t.pc \in Sent /\ t.dst = x[1] /\ t.msg = x[2]

Tracked(x) ==
    \/ \E r \in rows : r.dst = x[1] /\ r.src = x[2]
    \/ \E c \in Clients : Carries(task[c], x)
    \/ x[1] \in unrouted

AllTracked == MaxExtra = 0 => \A x \in copyOf : Tracked(x)

(* A handler hands its copy on: to itself, to a row, or to unrouted. *)
HandsOn(c) ==
    \A x : Carries(task[c], x) =>
        \/ Carries(task[c], x)'
        \/ \E r \in rows' : r.dst = x[1] /\ r.src = x[2]
        \/ x[1] \in unrouted'

LEMMA TrackingLasts ==
    ASSUME rows \subseteq rows', unrouted \subseteq unrouted', \A c \in Clients : HandsOn(c)
    PROVE  \A x : Tracked(x) => Tracked(x)'
BY DEF Tracked, HandsOn

LEMMA OneHandsOn ==
    ASSUME AllTracked, UNCHANGED copyOf, rows \subseteq rows', unrouted \subseteq unrouted',
           NEW c \in Clients, \A k \in Clients \ {c} : task'[k] = task[k], HandsOn(c)
    PROVE  AllTracked'
<1>1. \A k \in Clients : HandsOn(k)
  BY DEF HandsOn, Carries
<1> QED
  BY <1>1, TrackingLasts DEF AllTracked

(* Handlers that hold no copy, and the one that moves on with it. *)
LEMMA HandlersTrack ==
    ASSUME TypeInv, AllTracked, NEW c \in Clients, ClientStep(c) \/ ClientFault(c), ~SendLands(c)
    PROVE  AllTracked'
<1>1. task[c] \in Task /\ task \in [Clients -> Task] /\ \A k \in Clients \ {c} : task'[k] = task[k]
  BY OneTask DEF TypeInv, TypeOK
<1>2. UNCHANGED copyOf /\ rows \subseteq rows' /\ unrouted \subseteq unrouted'
  BY DEF ClientStep, ClientFault, Forwarding, RecallSteps, Identify, IgnoreCreate,
         MissEvents, EndsForGood, BeginForward, SkipOwn, StopForward, SendTo, KeepCopy, UndoCopy,
         CleanUp, InsertRoute, HandleDelete, Mark, LookUp, RecallCopy, DeleteCopy,
         SendFails, AnswerLost, AnswerUnread, Deletion, Insert, platform, store, ghosts
<1>3. CASE task[c].pc \notin Sent
  BY <1>1, <1>2, <1>3, OneHandsOn DEF HandsOn, Carries
<1>4. CASE UndoCopy(c) \/ KeepCopy(c) \/ CleanUp(c)
  <2>1. /\ task'[c].pc \in Sent
        /\ task'[c].msg = task[c].msg /\ task'[c].dst = task[c].dst
    BY <1>1, <1>4 DEF UndoCopy, KeepCopy, CleanUp, Goto, Task, Sent
  <2> QED
    BY <1>1, <1>2, <2>1, OneHandsOn DEF HandsOn, Carries
<1>5. CASE InsertRoute(c)
  <2> DEFINE r == [id |-> nextRow, group |-> Group, src |-> task[c].msg, dst |-> task[c].dst]
  <2>1. r \in rows' /\ r.src = task[c].msg /\ r.dst = task[c].dst
    BY <1>5 DEF InsertRoute, Insert
  <2> HIDE DEF r
  <2> QED
    BY <1>1, <1>2, <2>1, OneHandsOn DEF HandsOn, Carries
<1>6. CASE AnswerLost(c) \/ AnswerUnread(c)
  <2>1. task[c].dst \in unrouted'
    BY <1>6 DEF AnswerLost, AnswerUnread
  <2> QED
    BY <1>1, <1>2, <2>1, OneHandsOn DEF HandsOn, Carries
<1>7. task[c].pc \in Sent => UndoCopy(c) \/ KeepCopy(c) \/ CleanUp(c) \/ InsertRoute(c) \/ AnswerLost(c) \/ AnswerUnread(c)
  BY DEF ClientStep, ClientFault, Forwarding, RecallSteps, Identify, IgnoreCreate,
         MissEvents, EndsForGood, BeginForward, SkipOwn, StopForward, SendTo, HandleDelete, Mark, LookUp,
         RecallCopy, DeleteCopy, SendFails, Hears, At, Sent
<1> QED
  BY <1>3, <1>4, <1>5, <1>6, <1>7

LEMMA LandingTracks ==
    ASSUME TypeInv, AllTracked, NEW c \in Clients, SendLands(c)
    PROVE  AllTracked'
<1> SUFFICES ASSUME MaxExtra = 0 PROVE \A x \in copyOf' : Tracked(x)'
  BY DEF AllTracked
<1> DEFINE m == task[c].msg
           d == <<Head(task[c].left), next[Head(task[c].left)] + 1>>
           u == [task[c] EXCEPT !.pc = "landed", !.dst = d]
<1>1. task[c] \in Task /\ task \in [Clients -> Task] /\ task[c].pc = "sending"
  BY DEF SendLands, At, TypeInv, TypeOK
<1>2. next[Head(task[c].left)] \in Nat
  BY <1>1, TailSeq DEF TypeInv, TypeOK, PlatformOK, Shape, Fanning, Task
<1>3. copyOf' = copyOf \cup {<<d, m>>}
  <2> DEFINE p == Head(task[c].left)
  <2>1. Parts(p) = {1}
    BY DEF Parts
  <2>2. {<<p, i>> : i \in (next[p] + 1)..(next[p] + 1)} = {d}
    BY <1>2
  <2> QED
    BY <2>1, <2>2 DEF SendLands
<1>4. task' = [task EXCEPT ![c] = u] /\ UNCHANGED <<rows, unrouted>>
  BY DEF SendLands, store
<1>5. u.pc = "landed" /\ u.dst = d /\ u.msg = m
  BY <1>1 DEF Task
<1> HIDE DEF d, m, u
<1>6. \A x : x = <<d, m>> => Carries(task[c], x)'
  BY <1>1, <1>4, <1>5 DEF Carries, Sent
<1>7. \A k \in Clients : HandsOn(k)
  BY <1>1, <1>4 DEF HandsOn, Carries, Sent
<1>8. \A x \in copyOf : Tracked(x)'
  BY <1>4, <1>7, TrackingLasts DEF AllTracked
<1> QED
  BY <1>3, <1>6, <1>8 DEF Tracked

LEMMA ControllerTracks ==
    ASSUME TypeInv, GensStarted, AllTracked, Controller
    PROVE  AllTracked'
<1>1. UNCHANGED <<copyOf, rows>> /\ unrouted \subseteq unrouted'
  BY DEF Controller, Start, Stop, CleanupTick, Crash, platform, store, ghosts
<1>2. \A c \in Clients : HandsOn(c)
  <2>1. CASE Start
    <3>1. gen + 1 > gen
      BY DEF TypeInv, TypeOK, ControlOK
    <3>2. \A c \in Clients : c[1] = gen + 1 => task[c].pc \notin Sent
      BY <3>1 DEF GensStarted, Gone, Idle, Sent
    <3> QED
      BY <2>1, <3>2 DEF Start, HandsOn, Carries
  <2>2. CASE Stop \/ CleanupTick
    BY <2>2 DEF Stop, CleanupTick, HandsOn
  <2>3. CASE Crash
    BY <2>3 DEF Crash, HandsOn, Carries, Sent
  <2> QED
    BY <2>1, <2>2, <2>3 DEF Controller
<1> QED
  BY <1>1, <1>2, TrackingLasts DEF AllTracked

LEMMA TrackingStep == TypeInv /\ GensStarted /\ AllTracked /\ [Next]_vars => AllTracked'
<1> SUFFICES ASSUME TypeInv, GensStarted, AllTracked, [Next]_vars PROVE AllTracked'
  OBVIOUS
<1>1. CASE Users \/ UNCHANGED vars
  BY <1>1 DEF Users, Post, Delete, vars, platform, store, ghosts, AllTracked, Tracked, Carries
<1> QED
  BY <1>1, HandlersTrack, LandingTracks, ControllerTracks DEF Next

(* A copy is in the store, in the hands of its handler, or its id never    *)
(* reached the bridge: forward loses none on the way from the send to the  *)
(* insert, the undone ones included.                                       *)
THEOREM NoneLost == Spec => []RoutedOrInFlight
<1>1. Init => AllTracked
  BY DEF Init, AllTracked
<1>2. AllTracked => RoutedOrInFlight
  BY DEF AllTracked, Tracked, Carries, RoutedOrInFlight
<1> QED
  BY <1>1, <1>2, TrackingStep, TypeInvariant, StartedInvariant, PTL DEF Spec

----------------------------------------------------------------------------
(***************************************************************************)
(* What any step does to the chats: new messages get fresh ids and one     *)
(* create event each, a copy is of a message that existed and is none      *)
(* itself, and what is gone stays gone.                                    *)
(***************************************************************************)
NewEvents(New, s) ==
    /\ \A j \in DOMAIN s : s[j].kind = "create" =>
          s[j].msg \in New /\ (s[j].replied = NoMsg \/ Made(next, s[j].replied))
    /\ \A i, j \in DOMAIN s :
          s[i].kind = "create" /\ s[j].kind = "create" /\ s[i].msg = s[j].msg => i = j

Grows(New) ==
    /\ \A m : Made(next, m) => Made(next', m)
    /\ \A d \in New : ~Made(next, d) /\ Made(next', d)
    /\ live' \subseteq live \cup New
    /\ \/ copyOf' = copyOf
       \/ \E m : Made(next, m) /\ m \notin Copies /\ copyOf' = copyOf \cup {<<d, m>> : d \in New}
    /\ \/ log' = log
       \/ \E q \in Plats : \E s \in Seq(Events) :
             log' = [log EXCEPT ![q] = log[q] \o s] /\ NewEvents(New, s)

LEMMA OneEventGrows ==
    ASSUME TypeInv, NEW New, NEW q \in Plats, NEW e \in Events, NewEvents(New, <<e>>),
           log' = [log EXCEPT ![q] = Append(log[q], e)]
    PROVE  \E s \in Seq(Events) : log' = [log EXCEPT ![q] = log[q] \o s] /\ NewEvents(New, s)
<1>1. Append(log[q], e) = log[q] \o <<e>>
  BY AppendIsConcat DEF TypeInv, TypeOK, PlatformOK
<1>2. log' = [log EXCEPT ![q] = log[q] \o <<e>>] /\ <<e>> \in Seq(Events)
  BY <1>1
<1> DEFINE one == <<e>>
<1>3. one \in Seq(Events) /\ log' = [log EXCEPT ![q] = log[q] \o one] /\ NewEvents(New, one)
  BY <1>2
<1> HIDE DEF one
<1> QED
  BY <1>3

LEMMA UsersGrow ==
    ASSUME TypeInv, Ownership, Users
    PROVE  \E New : Grows(New)
<1>1. next \in [Plats -> Nat] /\ Posters \subseteq Plats
  BY BridgeAssumption DEF TypeInv, TypeOK, PlatformOK
<1>2. ASSUME NEW p \in Posters, NEW r \in {<<p, i>> : i \in 1..next[p]} \cup {NoMsg}, Post(p, r)
      PROVE  \E New : Grows(New)
  <2> DEFINE m == <<p, next[p] + 1>>
             e == Event("create", m, r)
  <2>1. p \in Plats /\ next[p] \in Nat
    BY <1>1
  <2>2. next' = [next EXCEPT ![p] = next[p] + 1] /\ live' = live \cup {m} /\ copyOf' = copyOf
        /\ log' = [log EXCEPT ![p] = Append(log[p], e)]
    BY <1>2 DEF Post
  <2>3. \A x : Made(next, x) => Made(next', x)
    BY <1>1, <2>2 DEF Made
  <2>4. ~Made(next, m) /\ Made(next', m)
    BY <1>1, <2>1, <2>2 DEF Made
  <2>5. r \in Endpoint \cup {NoMsg} /\ (r = NoMsg \/ Made(next, r))
    BY <1>1, <2>1, NewEndpoint DEF Made
  <2>6. e \in Events
    BY <2>1, <2>5, NewEndpoint DEF Event, Events
  <2>7. NewEvents({m}, <<e>>)
    BY <2>5 DEF NewEvents, Event
  <2> HIDE DEF m, e
  <2>8. \E s \in Seq(Events) : log' = [log EXCEPT ![p] = log[p] \o s] /\ NewEvents({m}, s)
    BY <2>1, <2>2, <2>6, <2>7, OneEventGrows
  <2>9. Grows({m})
    BY <2>1, <2>2, <2>3, <2>4, <2>8 DEF Grows
  <2> QED
    BY <2>9
<1>3. ASSUME NEW m \in live, Delete(m)
      PROVE  \E New : Grows(New)
  <2> DEFINE e == Event("delete", m, NoMsg)
             q == m[1]
  <2>1. q \in Plats /\ m \in Endpoint
    BY PlatsArePlatforms DEF TypeInv, TypeOK, PlatformOK, Endpoint
  <2>2. e \in Events /\ NewEvents({}, <<e>>)
    BY <2>1 DEF Event, Events, NewEvents
  <2>3. /\ next' = next /\ live' \subseteq live /\ copyOf' = copyOf
        /\ log' = [log EXCEPT ![q] = Append(log[q], e)]
    BY <1>3 DEF Delete
  <2> HIDE DEF e, q
  <2>4. \E s \in Seq(Events) : log' = [log EXCEPT ![q] = log[q] \o s] /\ NewEvents({}, s)
    BY <2>1, <2>2, <2>3, OneEventGrows
  <2>5. Grows({})
    BY <2>1, <2>3, <2>4 DEF Grows
  <2> QED
    BY <2>5
<1> QED
  BY <1>2, <1>3 DEF Users

LEMMA LandingGrows ==
    ASSUME TypeInv, Ownership, NEW c \in Clients, SendLands(c)
    PROVE  \E New : Grows(New)
<1> DEFINE m == task[c].msg
           p == Head(task[c].left)
           New(n) == {<<p, i>> : i \in (next[p] + 1)..(next[p] + n)}
           echo(n) == [i \in 1..n |-> Event("create", <<p, next[p] + i>>, NoMsg)]
<1>1. /\ task[c] \in Task /\ task[c].left \in Seq(Plats) /\ task[c].left # <<>>
      /\ Made(next, m) /\ m \notin Copies
  BY CreatedIsMade DEF SendLands, At, TypeInv, TypeOK, Task, Shape, Fanning, Resting,
                       Ownership, TasksTrue, Truthful
<1>2. p \in Plats /\ next \in [Plats -> Nat] /\ next[p] \in Nat
  BY <1>1, TailSeq DEF TypeInv, TypeOK, PlatformOK
<1>3. PICK n \in Parts(p) :
        /\ next' = [next EXCEPT ![p] = next[p] + n]
        /\ live' = live \cup New(n)
        /\ copyOf' = copyOf \cup {<<d, m>> : d \in New(n)}
        /\ log' = IF p \in Echoes THEN [log EXCEPT ![p] = log[p] \o echo(n)] ELSE log
  BY DEF SendLands
<1>4. n \in Nat /\ n >= 1
  BY BoundsNat DEF Parts
<1>5. \A d \in New(n) : ~Made(next, d) /\ Made(next', d)
  BY <1>2, <1>3, <1>4, FreshIds
<1>6. \A x : Made(next, x) => Made(next', x)
  <2> HIDE DEF p
  <2>1. next' = [next EXCEPT ![p] = next[p] + n]
    BY <1>3
  <2>2. next' \in [Plats -> Nat] /\ \A q \in Plats : next[q] <= next'[q]
    BY <1>2, <1>4, <2>1
  <2> QED
    BY <1>2, <2>2, LaterMade
<1>7. echo(n) \in Seq(Events)
  BY <1>2, <1>4, AlbumEvents
<1>8. NewEvents(New(n), echo(n))
  <2> HIDE DEF p
  <2>1. \A j \in DOMAIN echo(n) : echo(n)[j].msg = <<p, next[p] + j>> /\ echo(n)[j].replied = NoMsg
    BY DEF Event
  <2>2. DOMAIN echo(n) = 1..n /\ \A j \in 1..n : next[p] + j \in (next[p] + 1)..(next[p] + n)
    BY <1>2, <1>4
  <2>3. \A j \in DOMAIN echo(n) : echo(n)[j].msg \in New(n)
    BY <2>1, <2>2
  <2>4. \A i, j \in DOMAIN echo(n) : echo(n)[i].msg = echo(n)[j].msg => i = j
    BY <1>2, <2>1, <2>2
  <2> HIDE DEF New, echo
  <2> QED
    BY <2>1, <2>3, <2>4 DEF NewEvents
<1>9. log' = log \/ log' = [log EXCEPT ![p] = log[p] \o echo(n)]
  BY <1>3
<1>10. live' \subseteq live \cup New(n) /\ copyOf' = copyOf \cup {<<d, m>> : d \in New(n)}
  BY <1>3
<1> HIDE DEF m, p, New, echo
<1>11. Grows(New(n))
  BY <1>1, <1>2, <1>5, <1>6, <1>7, <1>8, <1>9, <1>10 DEF Grows
<1> QED
  BY <1>11

LEMMA DeletionGrows ==
    ASSUME TypeInv, Ownership, NEW c \in Clients, CleanUp(c) \/ DeleteCopy(c)
    PROVE  \E New : Grows(New)
<1> DEFINE d == task[c].dst
           e == Event("delete", d, NoMsg)
           q == d[1]
<1>1. Deletion(c) /\ <<d, task[c].msg>> \in copyOf
  BY DEF CleanUp, DeleteCopy, At, Ownership, TasksTrue, Truthful, Holding
<1>2. UNCHANGED <<next, copyOf>> /\ (Removed(d) \/ UNCHANGED <<live, log>>)
  BY <1>1 DEF Deletion, Refused
<1>3. q \in Plats /\ d \in Endpoint
  BY <1>1, IdsAreConsistent DEF Consistent, Made, Ownership, TypeInv, TypeOK, PlatformOK
<1>4. e \in Events /\ NewEvents({}, <<e>>)
  BY <1>3 DEF Event, Events, NewEvents
<1>5. live' \subseteq live /\ (log' = log \/ log' = [log EXCEPT ![q] = Append(log[q], e)])
  BY <1>2 DEF Removed
<1> HIDE DEF d, e, q
<1>6. log' = log \/ \E s \in Seq(Events) : log' = [log EXCEPT ![q] = log[q] \o s] /\ NewEvents({}, s)
  BY <1>3, <1>4, <1>5, OneEventGrows
<1>7. Grows({})
  BY <1>2, <1>3, <1>5, <1>6 DEF Grows
<1> QED
  BY <1>7

LEMMA NothingGrows ==
    ASSUME UNCHANGED platform
    PROVE  Grows({})
BY DEF platform, Grows

LEMMA ChatsGrow == TypeInv /\ Ownership /\ [Next]_vars => \E New : Grows(New)
<1> SUFFICES ASSUME TypeInv, Ownership, [Next]_vars PROVE \E New : Grows(New)
  OBVIOUS
<1>1. CASE Controller \/ UNCHANGED vars
  BY <1>1, NothingGrows DEF Controller, Start, Stop, CleanupTick, Crash, vars
<1>2. ASSUME NEW c \in Clients, ClientStep(c) \/ ClientFault(c),
             ~SendLands(c), ~CleanUp(c), ~DeleteCopy(c)
      PROVE  \E New : Grows(New)
  <2>1. UNCHANGED platform
    BY <1>2
       DEF ClientStep, ClientFault, Forwarding, RecallSteps, Identify, IgnoreCreate,
           MissEvents, EndsForGood, BeginForward, SkipOwn, StopForward, SendTo, KeepCopy, UndoCopy,
           InsertRoute, HandleDelete, Mark, LookUp, RecallCopy, SendFails, AnswerLost, AnswerUnread
  <2> QED
    BY <2>1, NothingGrows
<1> QED
  BY <1>1, <1>2, UsersGrow, LandingGrows, DeletionGrows DEF Next

(* Of the messages that exist before a step, none comes to life.           *)
LEMMA NoneRevived ==
    ASSUME TypeInv, Ownership, [Next]_vars
    PROVE  \A d : Made(next, d) /\ d \notin live => d \notin live'
BY ChatsGrow DEF Grows

----------------------------------------------------------------------------
(***************************************************************************)
(* Late copies.  A source once marked stays marked, so the handler that    *)
(* brings a late copy home finds the mark and cannot keep the copy.        *)
(***************************************************************************)
LateMarked ==
    /\ late \subseteq Copies
    /\ \A x \in copyOf : x[1] \in late => IsMarked(x[2])

Unsettled(t, d) == t.pc \in {"landed", "cleaning"} /\ t.dst = d

LateHeld ==
    MaxExtra = 0 =>
    \A d \in late \cap live : d \in refused \cup unrouted \/ \E c \in Clients : Unsettled(task[c], d)

(* Only SendLands creates late copies, only Mark writes marks.             *)
LEMMA LateFrame ==
    ASSUME TypeInv, [Next]_vars
    PROVE  /\ recalled \subseteq recalled' /\ refused \subseteq refused' /\ unrouted \subseteq unrouted'
           /\ UNCHANGED <<late, copyOf>> \/ \E c \in Clients : SendLands(c)
<1>1. CASE Users \/ Controller \/ UNCHANGED vars
  BY <1>1
     DEF Users, Post, Delete, Controller, Start, Stop, CleanupTick, Crash, vars, platform,
         store, ghosts
<1>2. ASSUME NEW c \in Clients, SendLands(c)
      PROVE  recalled \subseteq recalled' /\ refused \subseteq refused' /\ unrouted \subseteq unrouted'
  BY <1>2 DEF SendLands, store
<1>3. ASSUME NEW c \in Clients, ClientStep(c) \/ ClientFault(c), ~SendLands(c)
      PROVE  /\ recalled \subseteq recalled' /\ refused \subseteq refused' /\ unrouted \subseteq unrouted'
             /\ UNCHANGED <<late, copyOf>>
  BY <1>3
     DEF ClientStep, ClientFault, Forwarding, RecallSteps, Identify, IgnoreCreate,
         MissEvents, EndsForGood, BeginForward, SkipOwn, StopForward, SendTo, KeepCopy, UndoCopy,
         CleanUp, InsertRoute, HandleDelete, Mark, LookUp, RecallCopy, DeleteCopy,
         SendFails, AnswerLost, AnswerUnread, Deletion, Refused, MarkRecalled, platform, store, ghosts
<1> QED
  BY <1>1, <1>2, <1>3 DEF Next

LEMMA CopiesAreMade == Ownership => \A x \in copyOf : Made(next, x[1]) /\ Made(next, x[2])
BY IdsAreConsistent DEF Ownership, Consistent

(* What a send creates when it is not an album: one message.               *)
LEMMA OneLands ==
    ASSUME TypeInv, Ownership, MaxExtra = 0, NEW c \in Clients, SendLands(c)
    PROVE  \E d : /\ ~Made(next, d) /\ d[1] = Head(task[c].left)
                  /\ copyOf' = copyOf \cup {<<d, task[c].msg>>}
                  /\ late' = IF IsMarked(task[c].msg) THEN late \cup {d} ELSE late
                  /\ live' = live \cup {d}
                  /\ task' = [task EXCEPT ![c] = [task[c] EXCEPT !.pc = "landed", !.dst = d]]
<1> DEFINE p == Head(task[c].left)
           d == <<p, next[p] + 1>>
<1>1. p \in Plats /\ next[p] \in Nat
  BY TailSeq DEF SendLands, At, TypeInv, TypeOK, PlatformOK, Shape, Fanning, Task
<1>2. Parts(p) = {1} /\ {<<p, i>> : i \in (next[p] + 1)..(next[p] + 1)} = {d}
  BY <1>1 DEF Parts
<1>3. ~Made(next, d)
  BY <1>1 DEF Made
<1>4. /\ copyOf' = copyOf \cup {<<d, task[c].msg>>}
      /\ late' = IF IsMarked(task[c].msg) THEN late \cup {d} ELSE late
      /\ live' = live \cup {d}
  <2> DEFINE N(n) == {<<p, i>> : i \in (next[p] + 1)..(next[p] + n)}
  <2>1. PICK n \in Parts(p) :
          /\ live' = live \cup N(n)
          /\ copyOf' = copyOf \cup {<<e, task[c].msg>> : e \in N(n)}
          /\ late' = IF IsMarked(task[c].msg) THEN late \cup N(n) ELSE late
    BY DEF SendLands
  <2>2. N(n) = {d}
    BY <1>2
  <2> HIDE DEF d, N
  <2> QED
    BY <2>1, <2>2
<1>5. task' = [task EXCEPT ![c] = [task[c] EXCEPT !.pc = "landed", !.dst = d]]
  BY DEF SendLands
<1>6. d[1] = p
  OBVIOUS
<1> HIDE DEF p, d
<1> QED
  BY <1>3, <1>4, <1>5, <1>6 DEF p

LEMMA MarkedStep == TypeInv /\ Ownership /\ LateMarked /\ [Next]_vars => LateMarked'
<1> SUFFICES ASSUME TypeInv, Ownership, LateMarked, [Next]_vars PROVE LateMarked'
  OBVIOUS
<1>1. recalled \subseteq recalled'
  BY LateFrame
<1>2. CASE UNCHANGED <<late, copyOf>>
  BY <1>1, <1>2 DEF LateMarked, Copies, IsMarked, IsRecalled
<1>3. ASSUME NEW c \in Clients, SendLands(c) PROVE LateMarked'
  <2> DEFINE New(n) == {<<Head(task[c].left), i>> :
                          i \in (next[Head(task[c].left)] + 1)..(next[Head(task[c].left)] + n)}
  <2>1. PICK n \in Parts(Head(task[c].left)) :
          /\ copyOf' = copyOf \cup {<<d, task[c].msg>> : d \in New(n)}
          /\ late' = IF IsMarked(task[c].msg) THEN late \cup New(n) ELSE late
    BY <1>3 DEF SendLands
  <2>2. \A d \in New(n) : ~Made(next, d)
    <3>1. Head(task[c].left) \in Plats /\ next \in [Plats -> Nat]
      BY <1>3, TailSeq DEF SendLands, At, TypeInv, TypeOK, PlatformOK, Shape, Fanning, Task
    <3>2. n \in Nat
      BY BoundsNat DEF Parts
    <3> QED
      BY <3>1, <3>2, FreshIds
  <2> DEFINE m == task[c].msg
             N == New(n)
  <2>3. /\ copyOf' = copyOf \cup {<<d, m>> : d \in N}
        /\ late' = IF IsMarked(m) THEN late \cup N ELSE late
        /\ \A d \in N : ~Made(next, d)
    BY <2>1, <2>2
  <2> HIDE DEF m, N, New
  <2>4. late' \subseteq Copies'
    <3>1. \A d \in N : <<d, m>> \in copyOf' /\ <<d, m>>[1] = d
      BY <2>3
    <3>2. N \subseteq Copies' /\ Copies \subseteq Copies'
      BY <2>3, <3>1 DEF Copies
    <3> QED
      BY <2>3, <3>2 DEF LateMarked
  <2>5. ASSUME NEW x \in copyOf', x[1] \in late' PROVE IsMarked(x[2])
    <3>1. CASE x \in copyOf
      <4>1. x[1] \in late
        BY <2>3, <2>5, <3>1, CopiesAreMade
      <4> QED
        BY <3>1, <4>1 DEF LateMarked
    <3>2. CASE \E d \in N : x = <<d, m>>
      <4>1. x[1] \notin late
        BY <2>3, <3>2, CopiesAreMade DEF LateMarked, Copies
      <4> QED
        BY <2>3, <2>5, <3>2, <4>1
    <3> QED
      BY <2>3, <3>1, <3>2
  <2> QED
    BY <1>1, <2>4, <2>5 DEF LateMarked, IsMarked, IsRecalled
<1> QED
  BY <1>2, <1>3, LateFrame

(* A client settles the late copy it holds, or goes on holding it.         *)
LEMMA HandlersSettle ==
    ASSUME TypeInv, Ownership, LateMarked, NEW c \in Clients, ClientStep(c) \/ ClientFault(c), ~SendLands(c),
           NEW d \in late, Unsettled(task[c], d)
    PROVE  Unsettled(task[c], d)' \/ d \notin live' \/ d \in refused' \cup unrouted'
<1>1. task[c] \in Task /\ task \in [Clients -> Task] /\ task[c].dst = d
  BY DEF TypeInv, TypeOK, Unsettled
<1>2. CASE KeepCopy(c)
  <2>1. /\ <<d, task[c].msg>> \in copyOf /\ <<d, task[c].msg>>[1] = d
        /\ <<d, task[c].msg>>[2] = task[c].msg
    BY <1>1, <1>2 DEF KeepCopy, At, Ownership, TasksTrue, Truthful, Holding
  <2> QED
    BY <1>2, <2>1 DEF KeepCopy, LateMarked
<1>3. CASE UndoCopy(c)
  <2>1. task'[c].pc = "cleaning" /\ task'[c].dst = d
    BY <1>1, <1>3 DEF UndoCopy, Goto, Task
  <2> QED
    BY <2>1 DEF Unsettled
<1>4. CASE CleanUp(c)
  BY <1>1, <1>4 DEF CleanUp, Deletion, Removed, Refused
<1>5. CASE AnswerLost(c) \/ AnswerUnread(c)
  BY <1>1, <1>5 DEF AnswerLost, AnswerUnread
<1>6. UndoCopy(c) \/ KeepCopy(c) \/ CleanUp(c) \/ AnswerLost(c) \/ AnswerUnread(c)
  BY DEF ClientStep, ClientFault, Forwarding, RecallSteps, Identify, IgnoreCreate,
         MissEvents, EndsForGood, BeginForward, SkipOwn, StopForward, SendTo, InsertRoute, HandleDelete,
         Mark, LookUp, RecallCopy, DeleteCopy, SendFails, Hears, At, Unsettled
<1> QED
  BY <1>2, <1>3, <1>4, <1>5, <1>6

LEMMA LateStep ==
    TypeInv /\ Ownership /\ GensStarted /\ LateMarked /\ LateHeld /\ [Next]_vars => LateHeld'
<1> SUFFICES ASSUME TypeInv, Ownership, GensStarted, LateMarked, LateHeld, [Next]_vars, MaxExtra = 0,
                    NEW d \in late' \cap live'
             PROVE  d \in refused' \cup unrouted' \/ \E c \in Clients : Unsettled(task[c], d)'
  BY DEF LateHeld, Unsettled
<1>1. ASSUME d \in late PROVE d \in live
  <2>1. Made(next, d)
    BY <1>1, CopiesAreMade DEF LateMarked, Copies
  <2> QED
    BY <2>1, NoneRevived
<1>2. ASSUME d \in late, \A c \in Clients : Unsettled(task[c], d) =>
                            Unsettled(task[c], d)' \/ d \in refused' \cup unrouted'
      PROVE  d \in refused' \cup unrouted' \/ \E c \in Clients : Unsettled(task[c], d)'
  BY <1>1, <1>2, LateFrame DEF LateHeld
<1>3. ASSUME NEW c \in Clients, SendLands(c)
      PROVE  d \in refused' \cup unrouted' \/ \E k \in Clients : Unsettled(task[k], d)'
  <2>1. PICK e : /\ ~Made(next, e)
                 /\ late' = IF IsMarked(task[c].msg) THEN late \cup {e} ELSE late
                 /\ task' = [task EXCEPT ![c] = [task[c] EXCEPT !.pc = "landed", !.dst = e]]
    BY <1>3, OneLands
  <2>2. task \in [Clients -> Task] /\ task[c].pc = "sending"
    BY <1>3 DEF TypeInv, TypeOK, SendLands, At
  <2>3. task'[c].pc = "landed" /\ task'[c].dst = e /\ \A k \in Clients \ {c} : task'[k] = task[k]
    BY <2>1, <2>2 DEF Task
  <2>4. CASE d = e
    BY <2>3, <2>4 DEF Unsettled
  <2>5. CASE d # e
    <3>1. d \in late
      BY <2>1, <2>5
    <3> QED
      BY <1>2, <2>2, <2>3, <3>1 DEF Unsettled
  <2> QED
    BY <2>4, <2>5
<1>4. ASSUME NEW c \in Clients, ClientStep(c) \/ ClientFault(c), ~SendLands(c)
      PROVE  d \in refused' \cup unrouted' \/ \E k \in Clients : Unsettled(task[k], d)'
  <2>1. d \in late
    BY <1>4
       DEF ClientStep, ClientFault, Forwarding, RecallSteps, Identify, IgnoreCreate,
           MissEvents, EndsForGood, BeginForward, SkipOwn, StopForward, SendTo, KeepCopy, UndoCopy,
           CleanUp, InsertRoute, HandleDelete, Mark, LookUp, RecallCopy, DeleteCopy,
           SendFails, AnswerLost, AnswerUnread, Deletion, Refused, ghosts
  <2>2. \A k \in Clients \ {c} : task'[k] = task[k]
    BY <1>4, OneTask
  <2> QED
    BY <1>2, <1>4, <2>1, <2>2, HandlersSettle DEF Unsettled
<1>5. CASE Users \/ Controller \/ UNCHANGED vars
  <2>1. d \in late
    BY <1>5 DEF Users, Post, Delete, Controller, Start, Stop, CleanupTick, Crash, vars, ghosts
  <2>2. CASE Start
    <3>1. \A c \in Clients : c[1] = gen + 1 => ~Unsettled(task[c], d)
      BY DEF GensStarted, Gone, Idle, Unsettled, TypeInv, TypeOK, ControlOK
    <3> QED
      BY <1>2, <2>1, <2>2, <3>1 DEF Start, Unsettled
  <2>3. CASE Crash
    BY <1>2, <2>1, <2>3 DEF Crash, Unsettled
  <2>4. CASE UNCHANGED task
    BY <1>2, <2>1, <2>4 DEF Unsettled
  <2> QED
    BY <1>5, <2>2, <2>3, <2>4 DEF Users, Post, Delete, Controller, Stop, CleanupTick, vars
<1> QED
  BY <1>3, <1>4, <1>5 DEF Next

(* A copy is late because its source was marked before it was created, and *)
(* it still is when the copy's handler looks: recall only adds marks.      *)
THEOREM LateMarkedInvariant == Spec => []LateMarked
<1>1. Init => LateMarked
  BY DEF Init, LateMarked
<1> QED
  BY <1>1, MarkedStep, TypeInvariant, OwnershipInvariant, PTL DEF Spec

(* A copy created after its source was marked does not outlive its         *)
(* handler: forward's second is_recalled check undoes it, unless the       *)
(* platform refuses the deletion or the copy's id was lost.                *)
THEOREM LateOnesUndone == Spec => []LateCopyUndone
<1>1. Init => LateHeld
  BY DEF Init, LateHeld
<1>2. LateMarked /\ LateHeld => LateCopyUndone
  BY DEF LateMarked, LateHeld, Unsettled, LateCopyUndone, Firsts
<1> QED
  BY <1>1, <1>2, LateStep, TypeInvariant, OwnershipInvariant, StartedInvariant,
     LateMarkedInvariant, PTL
     DEF Spec

----------------------------------------------------------------------------
(***************************************************************************)
(* The mark and the fan-outs of several generations.  FanoutStops counts   *)
(* late copies; a handler already at its send may add one, so it is        *)
(* counted before it does.  The handler that marks is not among them,      *)
(* which is why the sum stays below the number of generations.             *)
(***************************************************************************)
OwnMarks == \A x \in recalled : x[1] = Group

LateOf(m) == {d \in late : <<d, m>> \in copyOf}

SendingOf(m) == {g \in 1..gen : At(<<g, m[1]>>, "sending") /\ task[<<g, m[1]>>].msg = m}

Budget ==
    MaxExtra = 0 =>
    \A m : IsMarked(m) =>
        IsFiniteSet(LateOf(m)) /\ Cardinality(LateOf(m)) + Cardinality(SendingOf(m)) < gen

LEMMA GenRange ==
    /\ TypeInv => gen \in Nat /\ 1..gen \subseteq Gens
    /\ TypeInv' => gen' \in Nat /\ 1..gen' \subseteq Gens
BY BoundsNat DEF TypeInv, TypeOK, ControlOK, Gens

LEMMA SendingFinite ==
    ASSUME TypeInv, NEW m
    PROVE  IsFiniteSet(SendingOf(m)) /\ Cardinality(SendingOf(m)) \in Nat
<1>1. gen \in Nat
  BY GenRange
<1>2. IsFiniteSet(1..gen) /\ SendingOf(m) \in SUBSET (1..gen)
  BY <1>1, FS_Interval DEF SendingOf
<1> QED
  BY <1>2, FS_Subset, FS_CardinalityType

(* Marks are written by Mark, for the message of its handler.              *)
LEMMA NewMark ==
    ASSUME TypeInv, [Next]_vars, recalled' # recalled
    PROVE  \E c \in Clients : Mark(c)
<1>1. ASSUME NEW c \in Clients, ClientStep(c) \/ ClientFault(c), ~Mark(c) PROVE recalled' = recalled
  BY <1>1
     DEF ClientStep, ClientFault, Forwarding, RecallSteps, Identify, IgnoreCreate,
         MissEvents, EndsForGood, BeginForward, SkipOwn, StopForward, SendTo, SendLands, KeepCopy,
         UndoCopy, CleanUp, InsertRoute, HandleDelete, LookUp, RecallCopy, DeleteCopy,
         SendFails, AnswerLost, AnswerUnread, store
<1>2. CASE Users \/ Controller \/ UNCHANGED vars
  BY <1>2 DEF Users, Post, Delete, Controller, Start, Stop, CleanupTick, Crash, vars, store
<1> QED
  BY <1>1, <1>2 DEF Next

(* A handler comes to its send by SendTo, for a message without a mark.    *)
LEMMA NewSender ==
    ASSUME TypeInv, NEW c \in Clients, ClientStep(c) \/ ClientFault(c), task'[c].pc = "sending"
    PROVE  task'[c] = task[c] \/ (SendTo(c) /\ task'[c].msg = task[c].msg)
<1>1. task[c] \in Task /\ task \in [Clients -> Task]
  BY DEF TypeInv, TypeOK
<1>2. CASE Identify(c) \/ IgnoreCreate(c) \/ MissEvents(c)
  BY <1>2 DEF Identify, IgnoreCreate, MissEvents
<1>3. CASE BeginForward(c) \/ HandleDelete(c)
  BY <1>1, <1>3 DEF BeginForward, HandleDelete, Idle
<1>4. CASE SkipOwn(c) \/ SendFails(c) \/ AnswerLost(c) \/ AnswerUnread(c) \/ InsertRoute(c)
  <2>1. Idle.pc # "sending" /\ Rest(task[c]).pc # "sending"
    BY <1>1 DEF Rest, Idle, Task
  <2>2. task'[c] = Idle \/ task'[c] = Rest(task[c])
    BY <1>1, <1>4 DEF SkipOwn, SendFails, AnswerLost, AnswerUnread, InsertRoute, NextTarget
  <2> QED
    BY <2>1, <2>2
<1>5. CASE StopForward(c) \/ KeepCopy(c) \/ UndoCopy(c) \/ CleanUp(c) \/ Mark(c) \/ EndsForGood(c)
  BY <1>1, <1>5 DEF StopForward, KeepCopy, UndoCopy, CleanUp, Mark, EndsForGood, Goto, Gone, Idle, Task
<1>6. CASE SendTo(c)
  BY <1>1, <1>6 DEF SendTo, Goto, Task
<1>7. CASE LookUp(c) \/ DeleteCopy(c)
  <2>1. \A S : Recalling(task[c], S).pc # "sending"
    BY <1>1 DEF Recalling, Idle, Task
  <2> QED
    BY <1>1, <1>7, <2>1 DEF LookUp, DeleteCopy
<1>8. CASE RecallCopy(c) \/ SendLands(c)
  BY <1>1, <1>8 DEF RecallCopy, SendLands, Task
<1> QED
  BY <1>2, <1>3, <1>4, <1>5, <1>6, <1>7, <1>8 DEF ClientStep, ClientFault, Forwarding, RecallSteps

(* No handler joins those at a send of a marked message.                   *)
LEMMA SendersFall ==
    ASSUME TypeInv, [Next]_vars, NEW m, IsMarked(m), m[1] \in Plats
    PROVE  SendingOf(m)' \subseteq SendingOf(m) /\ gen <= gen'
<1>0. gen \in Nat /\ 1..gen \subseteq Gens /\ gen' \in Nat /\ 1..gen' \subseteq Gens
  BY GenRange, TypeStep
<1> DEFINE k(g) == <<g, m[1]>>
<1>1. \A g \in Gens : k(g) \in Clients
  BY DEF Clients
<1>2. ASSUME UNCHANGED gen,
             \A g \in 1..gen : task'[k(g)].pc = "sending" /\ task'[k(g)].msg = m => task'[k(g)] = task[k(g)]
      PROVE  SendingOf(m)' \subseteq SendingOf(m) /\ gen <= gen'
  BY <1>0, <1>2 DEF SendingOf, At
<1>3. CASE Start
  <2>1. task'[k(gen + 1)].pc # "sending" /\ \A g \in 1..gen : task'[k(g)] = task[k(g)]
    BY <1>0, <1>1, <1>3 DEF Start, Idle
  <2>2. gen' = gen + 1
    BY <1>3 DEF Start
  <2> HIDE DEF k
  <2>3. \A g \in 1..gen' : task'[k(g)].pc = "sending" => g \in 1..gen /\ task'[k(g)] = task[k(g)]
    BY <1>0, <2>1, <2>2
  <2> QED
    BY <1>0, <2>2, <2>3 DEF SendingOf, At, k
<1>4. CASE Crash
  <2>1. \A g \in 1..gen : task'[k(g)].pc # "sending"
    BY <1>0, <1>1, <1>4 DEF Crash, Gone, Idle
  <2> QED
    BY <1>2, <1>4, <2>1 DEF Crash
<1>5. CASE Users \/ Stop \/ CleanupTick \/ UNCHANGED vars
  <2>1. UNCHANGED <<gen, task>>
    BY <1>5 DEF Users, Post, Delete, Stop, CleanupTick, vars, control
  <2> QED
    BY <1>2, <2>1
<1>6. ASSUME NEW c \in Clients, ClientStep(c) \/ ClientFault(c)
      PROVE  SendingOf(m)' \subseteq SendingOf(m) /\ gen <= gen'
  <2>1. \A x \in Clients \ {c} : task'[x] = task[x]
    BY <1>6, OneTask
  <2>2. gen' = gen
    BY <1>6, OneTask DEF control
  <2>3. task'[c].pc = "sending" /\ task'[c].msg = m => task'[c] = task[c]
    BY <1>6, NewSender DEF SendTo
  <2> QED
    BY <1>0, <1>1, <1>2, <2>1, <2>2, <2>3
<1> QED
  BY <1>3, <1>4, <1>5, <1>6 DEF Next, Controller

(* The late copies of a message grow by what its own handlers send.        *)
LEMMA LateGrow ==
    ASSUME TypeInv, Ownership, LateMarked, [Next]_vars, MaxExtra = 0, NEW m,
           \A c \in Clients : SendLands(c) => task[c].msg # m
    PROVE  LateOf(m)' = LateOf(m)
<1>1. CASE UNCHANGED <<late, copyOf>>
  BY <1>1 DEF LateOf
<1>2. ASSUME NEW c \in Clients, SendLands(c) PROVE LateOf(m)' = LateOf(m)
  <2>1. PICK d : /\ ~Made(next, d)
                 /\ copyOf' = copyOf \cup {<<d, task[c].msg>>}
                 /\ late' = IF IsMarked(task[c].msg) THEN late \cup {d} ELSE late
    BY <1>2, OneLands
  <2>2. task[c].msg # m
    BY <1>2
  <2>3. \A e : <<e, m>> \in copyOf => e # d
    BY <2>1, CopiesAreMade
  <2>4. \A e : <<e, m>> \in copyOf' <=> <<e, m>> \in copyOf
    BY <2>1, <2>2
  <2> QED
    BY <2>1, <2>3, <2>4 DEF LateOf
<1> QED
  BY <1>1, <1>2, LateFrame

LEMMA BudgetKept ==
    ASSUME TypeInv, Ownership, GensStarted, Homes, LateMarked, Budget, [Next]_vars, MaxExtra = 0,
           NEW m, IsMarked(m), m[1] \in Plats
    PROVE  IsFiniteSet(LateOf(m)') /\ Cardinality(LateOf(m)') + Cardinality(SendingOf(m)') < gen'
<1>1. /\ IsFiniteSet(LateOf(m)) /\ Cardinality(LateOf(m)) + Cardinality(SendingOf(m)) < gen
      /\ Cardinality(LateOf(m)) \in Nat
  BY FS_CardinalityType DEF Budget
<1>2. /\ IsFiniteSet(SendingOf(m)) /\ Cardinality(SendingOf(m)) \in Nat
      /\ gen \in Nat /\ gen' \in Nat
  BY SendingFinite, GenRange, TypeStep
<1>3. SendingOf(m)' \subseteq SendingOf(m) /\ gen <= gen'
  BY SendersFall
<1>4. IsFiniteSet(SendingOf(m)') /\ Cardinality(SendingOf(m)') \in Nat
      /\ Cardinality(SendingOf(m)') <= Cardinality(SendingOf(m))
  BY <1>2, <1>3, FS_Subset, FS_CardinalityType
<1>5. ASSUME NEW c \in Clients, SendLands(c), task[c].msg = m
      PROVE  IsFiniteSet(LateOf(m)') /\ Cardinality(LateOf(m)') + Cardinality(SendingOf(m)') < gen'
  <2>1. PICK d : /\ ~Made(next, d)
                 /\ copyOf' = copyOf \cup {<<d, m>>}
                 /\ late' = late \cup {d}
                 /\ task' = [task EXCEPT ![c] = [task[c] EXCEPT !.pc = "landed", !.dst = d]]
    BY <1>5, OneLands
  <2>2. \A e : <<e, m>> \in copyOf => e # d
    BY <2>1, CopiesAreMade
  <2>3. d \notin late
    BY <2>1, CopiesAreMade DEF LateMarked, Copies
  <2>4. LateOf(m)' = LateOf(m) \cup {d} /\ d \notin LateOf(m)
    BY <2>1, <2>2, <2>3 DEF LateOf
  <2>5. IsFiniteSet(LateOf(m)') /\ Cardinality(LateOf(m)') = Cardinality(LateOf(m)) + 1
    BY <1>1, <2>4, FS_AddElement
  <2> DEFINE g == c[1]
  <2>6. task[c].pc = "sending" /\ c = <<g, m[1]>> /\ task \in [Clients -> Task]
    BY <1>5 DEF SendLands, At, Homes, Resting, Clients, TypeInv, TypeOK
  <2>7. g \in Nat /\ g >= 1 /\ g <= gen
    BY <1>2, <2>6 DEF GensStarted, Gone, Idle, Clients, Gens
  <2>8. g \in SendingOf(m)
    BY <1>2, <1>5, <2>6, <2>7 DEF SendingOf, At
  <2>9. g \notin SendingOf(m)'
    <3>1. task'[c].pc = "landed"
      BY <2>1, <2>6 DEF Task
    <3> QED
      BY <2>6, <3>1 DEF SendingOf, At
  <2> HIDE DEF g
  <2>10. SendingOf(m)' \subseteq SendingOf(m) \ {g}
    BY <1>3, <2>9
  <2>11. IsFiniteSet(SendingOf(m) \ {g}) /\ Cardinality(SendingOf(m) \ {g}) = Cardinality(SendingOf(m)) - 1
    BY <1>2, <2>8, FS_RemoveElement
  <2>12. Cardinality(SendingOf(m)') <= Cardinality(SendingOf(m)) - 1
    BY <2>10, <2>11, FS_Subset
  <2> QED
    BY <1>1, <1>2, <1>3, <1>4, <2>5, <2>12
<1>6. CASE \A c \in Clients : SendLands(c) => task[c].msg # m
  BY <1>1, <1>2, <1>3, <1>4, <1>6, LateGrow
<1> QED
  BY <1>5, <1>6

(* The first mark finds no late copy, and its handler sends nothing.       *)
LEMMA BudgetBegins ==
    ASSUME TypeInv, Ownership, GensStarted, Homes, LateMarked, [Next]_vars, MaxExtra = 0,
           NEW m, ~IsMarked(m), IsMarked(m)'
    PROVE  IsFiniteSet(LateOf(m)') /\ Cardinality(LateOf(m)') + Cardinality(SendingOf(m)') < gen'
<1>1. PICK c \in Clients : Mark(c)
  BY NewMark DEF IsMarked, IsRecalled
<1>2. task[c].pc = "marking" /\ task \in [Clients -> Task] /\ task[c] \in Task
  BY <1>1 DEF Mark, At, TypeInv, TypeOK
<1>3. UNCHANGED <<late, copyOf, gen>> /\ recalled' = recalled \cup {<<Group, task[c].msg>>}
  BY <1>1 DEF Mark, MarkRecalled, platform, control, ghosts
<1>4. task[c].msg = m
  BY <1>3 DEF IsMarked, IsRecalled
<1>5. LateOf(m)' = {}
  BY <1>3 DEF LateOf, LateMarked
<1> DEFINE g == c[1]
<1>6. c = <<g, m[1]>> /\ task'[c].pc = "lookup"
  BY <1>1, <1>2, <1>4 DEF Homes, Resting, Clients, Mark, Goto, Task
<1>7. gen \in Nat /\ g \in Nat /\ g >= 1 /\ g <= gen
  BY <1>2, GenRange DEF GensStarted, Gone, Idle, Clients, Gens
<1>8. SendingOf(m)' \subseteq (1..gen) \ {g}
  BY <1>3, <1>6 DEF SendingOf, At
<1> HIDE DEF g
<1>9. IsFiniteSet((1..gen) \ {g}) /\ Cardinality((1..gen) \ {g}) = gen - 1
  <2>1. IsFiniteSet(1..gen) /\ Cardinality(1..gen) = gen
    BY <1>7, FS_Interval
  <2>2. g \in 1..gen
    BY <1>7
  <2> DEFINE S == 1..gen
  <2> HIDE DEF S
  <2>3. IsFiniteSet(S \ {g}) /\ Cardinality(S \ {g}) = Cardinality(S) - 1
    BY <2>1, <2>2, FS_RemoveElement DEF S
  <2> QED
    BY <2>1, <2>3 DEF S
<1>10. /\ IsFiniteSet(SendingOf(m)') /\ Cardinality(SendingOf(m)') <= gen - 1
       /\ Cardinality(SendingOf(m)') \in Nat
  BY <1>8, <1>9, FS_Subset, FS_CardinalityType
<1> QED
  BY <1>3, <1>5, <1>7, <1>10, FS_EmptySet

LEMMA BudgetStep ==
    TypeInv /\ Ownership /\ OnlyWithdrawn' /\ Homes /\ GensStarted /\ LateMarked /\ OwnMarks /\ Budget
    /\ [Next]_vars => OwnMarks' /\ Budget'
<1> SUFFICES ASSUME TypeInv, Ownership, OnlyWithdrawn', Homes, GensStarted, LateMarked, OwnMarks, Budget,
                    [Next]_vars
             PROVE  OwnMarks' /\ Budget'
  OBVIOUS
<1>1. OwnMarks'
  <2>1. recalled' = recalled \/ \E c \in Clients : recalled' = recalled \cup {<<Group, task[c].msg>>}
    BY NewMark DEF Mark, MarkRecalled
  <2> QED
    BY <2>1 DEF OwnMarks
<1>2. ASSUME MaxExtra = 0, NEW m, IsMarked(m)'
      PROVE  IsFiniteSet(LateOf(m)') /\ Cardinality(LateOf(m)') + Cardinality(SendingOf(m)') < gen'
  <2>1. m[1] \in Plats
    <3>1. <<Group, m>> \in recalled' /\ <<Group, m>>[2] = m
      BY <1>2 DEF IsMarked, IsRecalled
    <3> QED
      BY <3>1 DEF OnlyWithdrawn, Withdrawn, Created
  <2> QED
    BY <1>2, <2>1, BudgetKept, BudgetBegins
<1>3. Budget'
  BY <1>2 DEF Budget
<1> QED
  BY <1>1, <1>3

(* Marks are the bot's own group's; and of a marked message the late copies *)
(* and the handlers already sending another make fewer than generations.   *)
THEOREM MarksInvariant == Spec => [](OwnMarks /\ Budget)
<1>1. Init => OwnMarks /\ Budget
  BY DEF Init, OwnMarks, Budget, IsMarked, IsRecalled
<1> QED
  BY <1>1, BudgetStep, TypeInvariant, OwnershipInvariant, OnlyWithdrawnInvariant,
     StartedInvariant, LateMarkedInvariant, PTL
     DEF Spec

(* Once a message is marked the clients of fewer than gen generations      *)
(* create a copy of it: forward looks for the mark before every target.    *)
THEOREM MarkStopsFanout == Spec => []FanoutStops
<1>1. TypeInv /\ OwnMarks /\ Budget => FanoutStops
  <2> SUFFICES ASSUME TypeInv, OwnMarks, Budget, MaxExtra = 0, NEW x \in recalled
               PROVE  Cardinality(LateOf(x[2])) < gen
    BY DEF FanoutStops, LateOf
  <2>1. IsMarked(x[2])
    BY DEF OwnMarks, IsMarked, IsRecalled, TypeInv, TypeOK, StoreOK
  <2>2. /\ IsFiniteSet(LateOf(x[2]))
        /\ Cardinality(LateOf(x[2])) + Cardinality(SendingOf(x[2])) < gen
    BY <2>1 DEF Budget
  <2>3. gen \in Nat /\ Cardinality(SendingOf(x[2])) \in Nat /\ Cardinality(LateOf(x[2])) \in Nat
    BY <2>2, GenRange, SendingFinite, FS_CardinalityType
  <2> QED
    BY <2>2, <2>3
<1> QED
  BY <1>1, TypeInvariant, MarksInvariant, PTL
=============================================================================
