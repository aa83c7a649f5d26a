-------------------------- MODULE BridgeRecallProofs --------------------------
(***************************************************************************)
(* What the bridge owes people, for every list of senders and every bound: *)
(* a recall reaches every routed copy (RecallReaches), a client forwards a *)
(* message once (OneCopyPerRun), and a reply threads under the message it  *)
(* answers (ReplyThreads).                                                 *)
(***************************************************************************)
EXTENDS BridgeDeliveryProofs

(***************************************************************************)
(* Recalls.  With two generations a forward of one may write its route     *)
(* after the recall of the other has looked the routes up, and a crash may *)
(* fall between the mark and the deletions (run recall_race): what follows *)
(* is about one generation that has not crashed, where a client's events   *)
(* queue behind its handlers.                                              *)
(***************************************************************************)
OneRun == gen <= 1 /\ used["crashes"] = 0

(* A recall of m that has still to delete d, or is deleting it. *)
Pursues(t, m, d) ==
    /\ t.msg = m
    /\ \/ t.pc = "lookup"
       \/ t.pc \in {"recalling", "deleting"} /\ d \in t.todo
       \/ t.pc = "deleting" /\ d = t.dst

Standing(d) == d \in live /\ d \notin refused

(* A routed copy of a marked message stands only while it is pursued, and  *)
(* no route is about to be written for one that stands.                    *)
RoutesPursued ==
    \A r \in rows : r.group = Group /\ IsMarked(r.src) /\ Standing(r.dst) =>
        \E c \in Clients : Pursues(task[c], r.src, r.dst)

InsertsUndone == \A c \in Clients : At(c, "inserting") /\ IsMarked(task[c].msg) => ~Standing(task[c].dst)

Pursuit == OneRun => RoutesPursued /\ InsertsUndone

(* Generations are only added.                                             *)
LEMMA GenGrows ==
    ASSUME TypeInv, [Next]_vars
    PROVE  gen <= gen'
<1>1. ASSUME NEW c \in Clients, ClientStep(c) \/ ClientFault(c) PROVE gen' = gen
  BY <1>1, OneTask DEF control
<1>2. ASSUME Users \/ Stop \/ CleanupTick \/ Crash \/ UNCHANGED vars PROVE gen' = gen
  BY <1>2 DEF Users, Post, Delete, Stop, CleanupTick, Crash, vars, control
<1>3. Start => gen' = gen + 1
  BY DEF Start
<1> QED
  BY GenRange, <1>1, <1>2, <1>3 DEF Next, Controller

LEMMA OneRunBefore ==
    ASSUME TypeInv, [Next]_vars, OneRun'
    PROVE  OneRun /\ ~Crash
<1>1. gen \in Nat /\ used \in [Bounds -> Nat]
  BY GenRange DEF TypeInv, TypeOK, ControlOK
<1>2. ~Crash
  BY <1>1 DEF Crash, Spend, OneRun, Bounds
<1>3. gen <= gen'
  BY GenGrows
<1>4. used["crashes"] <= used'["crashes"]
  <2>1. used' = used \/ \E b \in Bounds : \E max : Spend(b, max)
    <3>1. ASSUME NEW c \in Clients, ClientStep(c) \/ ClientFault(c) PROVE used' = used \/ Spend("faults", MaxFaults)
      BY <3>1
         DEF ClientStep, ClientFault, Forwarding, RecallSteps, Identify, IgnoreCreate,
             MissEvents, EndsForGood, BeginForward, SkipOwn, StopForward, SendTo, SendLands, KeepCopy,
             UndoCopy, CleanUp, InsertRoute, HandleDelete, Mark, LookUp, RecallCopy,
             DeleteCopy, SendFails, AnswerLost, AnswerUnread, Deletion
    <3> QED
      BY <3>1
         DEF Next, Users, Post, Delete, Controller, Start, Stop, CleanupTick, Crash, vars,
             Bounds
  <2> QED
    BY <1>1, <2>1 DEF Spend, Bounds
<1> QED
  BY <1>1, <1>2, <1>3, <1>4, TypeStep DEF OneRun, TypeInv, TypeOK, ControlOK, Bounds

(* Every route leads from the recalled message to one of its Linked.       *)
LEMMA RoutedAreLinked ==
    ASSUME TypeInv, Ownership, Homes, NEW r \in rows, r.group = Group
    PROVE  r.dst \in Linked(r.src)
<1>1. r.dst \in Reach(rows, r.src)
  BY DEF Reach, Ends
<1>2. \A S \in SUBSET Reach(rows, r.src) : r.src \in S /\ Closed(rows, Group, S) => r.dst \in S
  BY DEF Closed
<1>3. r.dst \in Related(rows, Group, r.src)
  BY <1>1, <1>2 DEF Related
<1>4. <<r.dst, r.src>> \in copyOf
  BY DEF Ownership, RoutesTrue
<1>5. r.dst # r.src /\ r.dst[1] \in Plats
  BY <1>4, CopiesAreMade DEF Homes, Made
<1> QED
  BY <1>3, <1>5 DEF Linked

(* A recall deletes what it pursues, or goes on pursuing it.               *)
LEMMA HandlersPursue ==
    ASSUME TypeInv, Ownership, Homes, NEW c \in Clients, ClientStep(c) \/ ClientFault(c),
           NEW r \in rows, r.group = Group, Pursues(task[c], r.src, r.dst)
    PROVE  Pursues(task[c], r.src, r.dst)' \/ ~Standing(r.dst)'
<1> DEFINE m == r.src
           d == r.dst
<1>1. task[c] \in Task /\ task \in [Clients -> Task] /\ task[c].msg = m
  BY DEF TypeInv, TypeOK, Pursues
<1>2. ASSUME NEW S, d \in S
      PROVE  Recalling(task[c], S).pc = "recalling" /\ Recalling(task[c], S).msg = m /\ Recalling(task[c], S).todo = S
  BY <1>1, <1>2 DEF Recalling, Task
<1>3. CASE LookUp(c)
  <2>1. d \in Linked(task[c].msg)
    BY <1>1, RoutedAreLinked
  <2>2. task'[c] = Recalling(task[c], Linked(task[c].msg))
    BY <1>1, <1>3 DEF LookUp
  <2> QED
    BY <1>2, <2>1, <2>2 DEF Pursues
<1>4. CASE RecallCopy(c)
  <2>1. PICK e \in task[c].todo :
          task' = [task EXCEPT ![c] = [task[c] EXCEPT !.pc = "deleting", !.dst = e,
                                                       !.todo = task[c].todo \ {e}]]
    BY <1>4 DEF RecallCopy
  <2>2. /\ task'[c].pc = "deleting" /\ task'[c].msg = m /\ task'[c].dst = e
        /\ task'[c].todo = task[c].todo \ {e}
    BY <1>1, <2>1 DEF Task
  <2>3. d \in task[c].todo
    BY <1>4 DEF RecallCopy, At, Pursues
  <2> QED
    BY <2>2, <2>3 DEF Pursues
<1>5. CASE DeleteCopy(c)
  <2>1. CASE d \in task[c].todo
    <3>1. task'[c] = Recalling(task[c], task[c].todo)
      BY <1>1, <1>5 DEF DeleteCopy
    <3> QED
      BY <1>2, <2>1, <3>1 DEF Pursues
  <2>2. CASE d \notin task[c].todo
    <3>1. task[c].dst = d
      BY <1>5, <2>2 DEF DeleteCopy, At, Pursues
    <3> QED
      BY <1>5, <3>1 DEF DeleteCopy, Deletion, Removed, Refused, Standing
  <2> QED
    BY <2>1, <2>2
<1>6. LookUp(c) \/ RecallCopy(c) \/ DeleteCopy(c)
      \/ (task' = task /\ (Identify(c) \/ IgnoreCreate(c) \/ MissEvents(c)))
  BY DEF ClientStep, ClientFault, Forwarding, RecallSteps, Identify, IgnoreCreate,
         MissEvents, EndsForGood, BeginForward, SkipOwn, StopForward, SendTo, SendLands, KeepCopy,
         UndoCopy, CleanUp, InsertRoute, HandleDelete, Mark, SendFails, AnswerLost, AnswerUnread, Hears,
         At, Pursues
<1> QED
  BY <1>3, <1>4, <1>5, <1>6 DEF Pursues

(* A handler comes to its insert with a source that is not marked, or with *)
(* a copy it has just undone.                                              *)
LEMMA NewInserter ==
    ASSUME TypeInv, NEW c \in Clients, ClientStep(c) \/ ClientFault(c), task'[c].pc = "inserting"
    PROVE  \/ task'[c] = task[c]
           \/ /\ KeepCopy(c) \/ CleanUp(c)
              /\ task'[c].msg = task[c].msg /\ task'[c].dst = task[c].dst
<1>1. task[c] \in Task /\ task \in [Clients -> Task]
  BY DEF TypeInv, TypeOK
<1>2. CASE Identify(c) \/ IgnoreCreate(c) \/ MissEvents(c)
  BY <1>2 DEF Identify, IgnoreCreate, MissEvents
<1>3. CASE BeginForward(c) \/ HandleDelete(c)
  BY <1>1, <1>3 DEF BeginForward, HandleDelete, Idle
<1>4. CASE SkipOwn(c) \/ SendFails(c) \/ AnswerLost(c) \/ AnswerUnread(c) \/ InsertRoute(c)
  <2>1. Idle.pc # "inserting" /\ Rest(task[c]).pc # "inserting"
    BY <1>1 DEF Rest, Idle, Task
  <2>2. task'[c] = Idle \/ task'[c] = Rest(task[c])
    BY <1>1, <1>4 DEF SkipOwn, SendFails, AnswerLost, AnswerUnread, InsertRoute, NextTarget
  <2> QED
    BY <2>1, <2>2
<1>5. CASE StopForward(c) \/ SendTo(c) \/ UndoCopy(c) \/ Mark(c) \/ EndsForGood(c)
  BY <1>1, <1>5 DEF StopForward, SendTo, UndoCopy, Mark, EndsForGood, Goto, Gone, Idle, Task
<1>6. CASE KeepCopy(c) \/ CleanUp(c)
  BY <1>1, <1>6 DEF KeepCopy, CleanUp, Goto, Task
<1>7. CASE LookUp(c) \/ DeleteCopy(c)
  <2>1. \A S : Recalling(task[c], S).pc # "inserting"
    BY <1>1 DEF Recalling, Idle, Task
  <2> QED
    BY <1>1, <1>7, <2>1 DEF LookUp, DeleteCopy
<1>8. CASE RecallCopy(c) \/ SendLands(c)
  BY <1>1, <1>8 DEF RecallCopy, SendLands, Task
<1> QED
  BY <1>2, <1>3, <1>4, <1>5, <1>6, <1>7, <1>8 DEF ClientStep, ClientFault, Forwarding, RecallSteps

(* Two handlers of one message are one handler, in a single run.           *)
LEMMA SameHandler ==
    ASSUME TypeInv, GensStarted, Homes, OneRun, NEW c \in Clients, NEW k \in Clients,
           task[c].pc \notin Resting, task[k].pc \notin Resting, task[c].msg = task[k].msg
    PROVE  c = k
<1>1. c[2] = k[2]
  BY DEF Homes
<1>2. ASSUME NEW x \in Clients, task[x].pc \notin Resting PROVE x[1] = 1
  <2>1. x[1] <= gen /\ x[1] \in Nat /\ x[1] >= 1
    BY <1>2, GenRange DEF GensStarted, Gone, Idle, Resting, Clients, Gens
  <2> QED
    BY <2>1, GenRange DEF OneRun
<1> QED
  BY <1>1, <1>2 DEF Clients

(* What does not stand any more does not stand again.                      *)
LEMMA FallenStay ==
    ASSUME TypeInv, Ownership, [Next]_vars, NEW d, Made(next, d), ~Standing(d)
    PROVE  ~Standing(d)'
BY NoneRevived, LateFrame DEF Standing

LEMMA InsertsStep ==
    ASSUME TypeInv, Ownership, GensStarted, Homes, OneRun, InsertsUndone, [Next]_vars
    PROVE  InsertsUndone'
<1> SUFFICES ASSUME NEW k \in Clients, task'[k].pc = "inserting", IsMarked(task[k].msg)'
             PROVE  ~Standing(task[k].dst)'
  BY DEF InsertsUndone, At
<1>1. ASSUME task'[k] = task[k] PROVE ~Standing(task[k].dst)'
  <2>1. task[k].pc = "inserting"
    BY <1>1
  <2>2. Made(next, task[k].dst)
    BY <2>1, CopiesAreMade DEF Ownership, TasksTrue, Truthful, Holding
  <2>3. CASE IsMarked(task[k].msg)
    <3>1. ~Standing(task[k].dst)
      BY <2>1, <2>3 DEF InsertsUndone, At
    <3> QED
      BY <1>1, <2>2, <3>1, FallenStay DEF Standing
  <2>4. CASE ~IsMarked(task[k].msg)
    <3>1. PICK c \in Clients : Mark(c)
      BY <1>1, <2>4, NewMark DEF IsMarked, IsRecalled
    <3>2. task[c].pc = "marking" /\ task[c].msg = task[k].msg
      BY <1>1, <2>4, <3>1 DEF Mark, At, MarkRecalled, IsMarked, IsRecalled
    <3> QED
      BY <2>1, <3>2, SameHandler DEF Resting
  <2> QED
    BY <2>3, <2>4
<1>2. ASSUME ClientStep(k) \/ ClientFault(k), task'[k] # task[k]
      PROVE  ~Standing(task[k].dst)'
  <2>1. (KeepCopy(k) \/ CleanUp(k)) /\ task'[k].msg = task[k].msg /\ task'[k].dst = task[k].dst
    BY <1>2, NewInserter
  <2>2. CASE KeepCopy(k)
    BY <2>1, <2>2 DEF KeepCopy, store, IsMarked, IsRecalled
  <2>3. CASE CleanUp(k)
    BY <2>1, <2>3 DEF CleanUp, Deletion, Removed, Refused, Standing
  <2> QED
    BY <2>1, <2>2, <2>3
<1>3. ASSUME NEW c \in Clients, ClientStep(c) \/ ClientFault(c) PROVE ~Standing(task[k].dst)'
  <2>1. k # c => task'[k] = task[k]
    BY <1>3, OneTask
  <2> QED
    BY <1>1, <1>2, <1>3, <2>1
<1>4. CASE Start
  BY <1>1, <1>4 DEF Start, Idle
<1>5. CASE Users \/ Stop \/ CleanupTick \/ UNCHANGED vars
  BY <1>1, <1>5 DEF Users, Post, Delete, Stop, CleanupTick, vars
<1>6. CASE Crash
  BY <1>6 DEF Crash, Gone, Idle
<1> QED
  BY <1>3, <1>4, <1>5, <1>6 DEF Next, Controller

(* A new row comes from InsertRoute.                                       *)
LEMMA NewRow ==
    ASSUME TypeInv, [Next]_vars, NEW r \in rows', r \notin rows
    PROVE  \E c \in Clients : InsertRoute(c) /\ r.src = task[c].msg /\ r.dst = task[c].dst
<1>1. ASSUME NEW c \in Clients, ClientStep(c) \/ ClientFault(c), ~InsertRoute(c) PROVE rows' = rows
  BY <1>1
     DEF ClientStep, ClientFault, Forwarding, RecallSteps, Identify, IgnoreCreate,
         MissEvents, EndsForGood, BeginForward, SkipOwn, StopForward, SendTo, SendLands, KeepCopy,
         UndoCopy, CleanUp, HandleDelete, Mark, LookUp, RecallCopy, DeleteCopy, SendFails,
         AnswerLost, AnswerUnread, store
<1>2. CASE Users \/ Controller \/ UNCHANGED vars
  BY <1>2 DEF Users, Post, Delete, Controller, Start, Stop, CleanupTick, Crash, vars, store
<1> QED
  BY <1>1, <1>2 DEF Next, InsertRoute, Insert

LEMMA RoutesStep ==
    ASSUME TypeInv, Ownership, GensStarted, Homes, OneRun, ~Crash, RoutesPursued, InsertsUndone, [Next]_vars
    PROVE  RoutesPursued'
<1> SUFFICES ASSUME NEW r \in rows', r.group = Group, IsMarked(r.src)', Standing(r.dst)'
             PROVE  \E c \in Clients : Pursues(task[c], r.src, r.dst)'
  BY DEF RoutesPursued, Pursues
<1>1. CASE r \notin rows
  <2>1. PICK c \in Clients : InsertRoute(c) /\ r.src = task[c].msg /\ r.dst = task[c].dst
    BY <1>1, NewRow
  <2>2. UNCHANGED <<recalled, live, refused>> /\ task[c].pc = "inserting"
    BY <2>1 DEF InsertRoute, At, platform, ghosts
  <2> QED
    BY <2>1, <2>2 DEF InsertsUndone, At, Standing, IsMarked, IsRecalled
<1>2. CASE r \in rows
  <2>1. Made(next, r.dst) /\ Standing(r.dst)
    <3>1. Made(next, r.dst)
      BY <1>2, CopiesAreMade DEF Ownership, RoutesTrue
    <3> QED
      BY <3>1, FallenStay
  <2>2. CASE ~IsMarked(r.src)
    <3>1. PICK c \in Clients : Mark(c)
      BY <2>2, NewMark DEF IsMarked, IsRecalled
    <3>2. task[c] \in Task /\ task \in [Clients -> Task]
      BY DEF TypeInv, TypeOK
    <3>3. task[c].msg = r.src
      BY <2>2, <3>1 DEF Mark, MarkRecalled, IsMarked, IsRecalled
    <3>4. task'[c].pc = "lookup" /\ task'[c].msg = r.src
      BY <3>1, <3>2, <3>3 DEF Mark, Goto, Task
    <3> QED
      BY <3>4 DEF Pursues
  <2>3. CASE IsMarked(r.src)
    <3>1. PICK k \in Clients : Pursues(task[k], r.src, r.dst)
      BY <1>2, <2>1, <2>3 DEF RoutesPursued
    <3>2. ASSUME task'[k] = task[k] PROVE Pursues(task[k], r.src, r.dst)'
      BY <3>1, <3>2 DEF Pursues
    <3>3. ASSUME NEW c \in Clients, ClientStep(c) \/ ClientFault(c)
          PROVE  Pursues(task[k], r.src, r.dst)'
      <4>1. k # c => task'[k] = task[k]
        BY <3>3, OneTask
      <4>2. k = c => Pursues(task[k], r.src, r.dst)'
        BY <1>2, <3>1, <3>3, HandlersPursue
      <4> QED
        BY <3>2, <4>1, <4>2
    <3>4. CASE Start
      <4>1. k[1] # gen + 1
        BY <3>1, GenRange DEF GensStarted, Gone, Idle, Pursues
      <4> QED
        BY <3>2, <3>4, <4>1 DEF Start
    <3>5. CASE Users \/ Stop \/ CleanupTick \/ UNCHANGED vars
      BY <3>2, <3>5 DEF Users, Post, Delete, Stop, CleanupTick, vars
    <3> QED
      BY <3>3, <3>4, <3>5 DEF Next, Controller
  <2> QED
    BY <2>2, <2>3
<1> QED
  BY <1>1, <1>2

LEMMA PursuitStep ==
    TypeInv /\ Ownership /\ GensStarted /\ Homes /\ Pursuit /\ [Next]_vars => Pursuit'
BY OneRunBefore, InsertsStep, RoutesStep DEF Pursuit

(* While the bot has been started once and has not crashed, a marked       *)
(* message without a handler has no routed copy left standing but those    *)
(* whose deletion a platform refused (Bridge::recall).                     *)
THEOREM RecallReachesRoutes == Spec => [](gen <= 1 /\ used["crashes"] = 0 => RecallReaches)
<1>1. Init => Pursuit
  BY DEF Init, Pursuit, RoutesPursued, InsertsUndone, IsMarked, IsRecalled
<1>2. TypeInv /\ OwnMarks /\ Pursuit => (gen <= 1 /\ used["crashes"] = 0 => RecallReaches)
  <2> SUFFICES ASSUME TypeInv, OwnMarks, RoutesPursued, NEW x \in recalled, ~Busy(x[2]),
                      NEW r \in rows, r.group = Group, r.src = x[2], r.dst \in live, r.dst \notin refused
               PROVE  FALSE
    BY DEF Pursuit, OneRun, RecallReaches, Settled
  <2>1. IsMarked(x[2])
    BY DEF OwnMarks, IsMarked, IsRecalled, TypeInv, TypeOK, StoreOK
  <2>2. \E c \in Clients : Pursues(task[c], x[2], r.dst)
    BY <2>1 DEF RoutesPursued, Standing
  <2> QED
    BY <2>2 DEF Pursues, Busy
<1> QED
  BY <1>1, <1>2, PursuitStep, TypeInvariant, OwnershipInvariant, OnlyWithdrawnInvariant,
     StartedInvariant, MarksInvariant, PTL
     DEF Spec

----------------------------------------------------------------------------
(***************************************************************************)
(* What any step does to the logs: they grow at the end, and the create    *)
(* events that come are about messages that did not exist.                 *)
(***************************************************************************)
IsCreate(e) == e.kind = "create"

(* Every message has one create event, and answers one that exists.        *)
CreatesOnce ==
    \A p \in Plats : \A i, j \in DOMAIN log[p] :
        IsCreate(log[p][i]) /\ IsCreate(log[p][j]) /\ log[p][i].msg = log[p][j].msg => i = j

RepliesMade ==
    \A p \in Plats : \A i \in DOMAIN log[p] :
        IsCreate(log[p][i]) => log[p][i].replied = NoMsg \/ Made(next, log[p][i].replied)

LEMMA LogParts ==
    ASSUME NEW lg \in [Plats -> Seq(Events)], NEW q \in Plats, NEW s \in Seq(Events),
           NEW lh, lh = [lg EXCEPT ![q] = lg[q] \o s], NEW p \in Plats
    PROVE  /\ \A i \in DOMAIN lg[p] : i \in DOMAIN lh[p] /\ lh[p][i] = lg[p][i]
           /\ \A i \in DOMAIN lh[p] \ DOMAIN lg[p] :
                 p = q /\ i - Len(lg[q]) \in DOMAIN s /\ lh[p][i] = s[i - Len(lg[q])]
<1>1. CASE p # q
  BY <1>1
<1>2. CASE p = q
  <2>1. lh[p] = lg[p] \o s /\ lg[p] \in Seq(Events)
    BY <1>2
  <2> QED
    BY <1>2, <2>1, ConcatProperties, LenProperties
<1> QED
  BY <1>1, <1>2

LEMMA LogsGrow ==
    ASSUME TypeInv, Ownership, [Next]_vars
    PROVE  /\ \A p \in Plats : \A i \in DOMAIN log[p] : i \in DOMAIN log'[p] /\ log'[p][i] = log[p][i]
           /\ \A p \in Plats : \A i \in DOMAIN log'[p] \ DOMAIN log[p] : IsCreate(log'[p][i]) =>
                 /\ ~Made(next, log'[p][i].msg)
                 /\ log'[p][i].replied = NoMsg \/ Made(next, log'[p][i].replied)
           /\ \A p \in Plats : \A i, j \in DOMAIN log'[p] \ DOMAIN log[p] :
                 IsCreate(log'[p][i]) /\ IsCreate(log'[p][j]) /\ log'[p][i].msg = log'[p][j].msg => i = j
<1>1. PICK New : Grows(New)
  BY ChatsGrow
<1>2. CASE log' = log
  BY <1>2
<1>3. CASE \E q \in Plats : \E s \in Seq(Events) :
             log' = [log EXCEPT ![q] = log[q] \o s] /\ NewEvents(New, s)
  <2>1. PICK q \in Plats, s \in Seq(Events) :
          log' = [log EXCEPT ![q] = log[q] \o s] /\ NewEvents(New, s)
    BY <1>3
  <2>2. log \in [Plats -> Seq(Events)]
    BY DEF TypeInv, TypeOK, PlatformOK
  <2>3. /\ \A p \in Plats : \A i \in DOMAIN log[p] : i \in DOMAIN log'[p] /\ log'[p][i] = log[p][i]
        /\ \A p \in Plats : \A i \in DOMAIN log'[p] \ DOMAIN log[p] :
              p = q /\ i - Len(log[q]) \in DOMAIN s /\ log'[p][i] = s[i - Len(log[q])]
    BY <2>1, <2>2, LogParts
  <2>4. \A d \in New : ~Made(next, d)
    BY <1>1 DEF Grows
  <2>5. \A p \in Plats : \A i \in DOMAIN log'[p] \ DOMAIN log[p] : IsCreate(log'[p][i]) =>
                 /\ ~Made(next, log'[p][i].msg)
                 /\ log'[p][i].replied = NoMsg \/ Made(next, log'[p][i].replied)
    BY <2>1, <2>3, <2>4 DEF NewEvents, IsCreate
  <2>6. ASSUME NEW p \in Plats, NEW i \in DOMAIN log'[p] \ DOMAIN log[p], NEW j \in DOMAIN log'[p] \ DOMAIN log[p],
               IsCreate(log'[p][i]), IsCreate(log'[p][j]), log'[p][i].msg = log'[p][j].msg
        PROVE  i = j
    <3>1. i - Len(log[q]) = j - Len(log[q])
      BY <2>1, <2>3, <2>6 DEF NewEvents, IsCreate
    <3>2. i \in Int /\ j \in Int /\ Len(log[q]) \in Int
      <4>1. log' \in [Plats -> Seq(Events)]
        BY TypeStep DEF TypeInv, TypeOK, PlatformOK
      <4> QED
        BY <2>2, <4>1, LenProperties
    <3> QED
      BY <3>1, <3>2
  <2> QED
    BY <2>3, <2>5, <2>6
<1> QED
  BY <1>1, <1>2, <1>3 DEF Grows

LEMMA OldEventsMade ==
    ASSUME Ownership
    PROVE  \A p \in Plats : \A i \in DOMAIN log[p] : Made(next, log[p][i].msg)
BY IdsAreConsistent DEF Ownership, Consistent

LEMMA CreatesStep ==
    TypeInv /\ Ownership /\ CreatesOnce /\ RepliesMade /\ [Next]_vars => CreatesOnce' /\ RepliesMade'
<1> SUFFICES ASSUME TypeInv, Ownership, CreatesOnce, RepliesMade, [Next]_vars
             PROVE  CreatesOnce' /\ RepliesMade'
  OBVIOUS
<1>1. CreatesOnce'
  <2> SUFFICES ASSUME NEW p \in Plats, NEW i \in DOMAIN log'[p], NEW j \in DOMAIN log'[p],
                      IsCreate(log'[p][i]), IsCreate(log'[p][j]), log'[p][i].msg = log'[p][j].msg
               PROVE  i = j
    BY DEF CreatesOnce, IsCreate
  <2>1. CASE i \in DOMAIN log[p] /\ j \in DOMAIN log[p]
    BY <2>1, LogsGrow DEF CreatesOnce
  <2>2. CASE i \in DOMAIN log[p] /\ j \notin DOMAIN log[p]
    BY <2>2, LogsGrow, OldEventsMade
  <2>3. CASE i \notin DOMAIN log[p] /\ j \in DOMAIN log[p]
    BY <2>3, LogsGrow, OldEventsMade
  <2>4. CASE i \notin DOMAIN log[p] /\ j \notin DOMAIN log[p]
    BY <2>4, LogsGrow
  <2> QED
    BY <2>1, <2>2, <2>3, <2>4
<1>2. RepliesMade'
  <2>1. \A m : Made(next, m) => Made(next', m)
    BY ChatsGrow DEF Grows
  <2> SUFFICES ASSUME NEW p \in Plats, NEW i \in DOMAIN log'[p], IsCreate(log'[p][i])
               PROVE  log'[p][i].replied = NoMsg \/ Made(next', log'[p][i].replied)
    BY DEF RepliesMade, IsCreate, Made
  <2>2. CASE i \in DOMAIN log[p]
    BY <2>1, <2>2, LogsGrow DEF RepliesMade
  <2>3. CASE i \notin DOMAIN log[p]
    BY <2>1, <2>3, LogsGrow
  <2> QED
    BY <2>2, <2>3
<1> QED
  BY <1>1, <1>2

(* The event loops see each message created once, with the message it      *)
(* replies to already there.                                               *)
THEOREM CreatesInvariant == Spec => [](CreatesOnce /\ RepliesMade)
<1>1. Init => CreatesOnce /\ RepliesMade
  BY DEF Init, CreatesOnce, RepliesMade
<1> QED
  BY <1>1, CreatesStep, TypeInvariant, OwnershipInvariant, PTL DEF Spec

----------------------------------------------------------------------------
(***************************************************************************)
(* A client reads forward only.  A handler works for a client that has     *)
(* identified itself, so Identify moves only a client that has read        *)
(* nothing.                                                                *)
(***************************************************************************)
Unread ==
    \A c \in Clients :
        /\ c[1] > gen => pos[c] = 0
        /\ task[c].pc = "gone" \/ c[2] \in known[c[1]] \/ (task[c].pc = "idle" /\ pos[c] = 0)

(* A client reads and remembers for itself.                                *)
LEMMA OneReads ==
    ASSUME TypeInv, NEW c \in Clients, ClientStep(c) \/ ClientFault(c)
    PROVE  /\ \A k \in Clients \ {c} : pos'[k] = pos[k]
           /\ Identify(c) \/ pos[c] <= pos'[c]
           /\ \/ Identify(c)
              \/ known' = known /\ (c[2] \in known[c[1]] \/ task[c].pc # "idle" \/ task'[c].pc = "gone")
<1>1. pos \in [Clients -> Nat]
  BY DEF TypeInv, TypeOK
<1>2. CASE Identify(c)
  BY <1>1, <1>2 DEF Identify
<1>3. CASE IgnoreCreate(c) \/ BeginForward(c) \/ HandleDelete(c)
  BY <1>1, <1>3 DEF IgnoreCreate, BeginForward, HandleDelete, Take, Hears, flags
<1>4. CASE MissEvents(c)
  <2>1. PICK k \in (pos[c] + 1)..Len(log[c[2]]) : pos' = [pos EXCEPT ![c] = k]
    BY <1>4 DEF MissEvents
  <2>2. Len(log[c[2]]) \in Nat
    BY LenProperties DEF TypeInv, TypeOK, PlatformOK, Clients
  <2>3. c[2] \in known[c[1]] /\ known' = known
    BY <1>4 DEF MissEvents, Hears, flags
  <2> QED
    BY <1>1, <2>1, <2>2, <2>3
<1>5. CASE \/ SkipOwn(c) \/ StopForward(c) \/ SendTo(c) \/ SendLands(c) \/ KeepCopy(c)
           \/ UndoCopy(c)
           \/ CleanUp(c) \/ InsertRoute(c) \/ Mark(c) \/ LookUp(c) \/ RecallCopy(c)
           \/ DeleteCopy(c)
           \/ SendFails(c) \/ AnswerLost(c) \/ AnswerUnread(c)
  <2>1. pos' = pos /\ known' = known /\ task[c].pc # "idle"
    BY <1>5
       DEF SkipOwn, StopForward, SendTo, SendLands, KeepCopy, UndoCopy, CleanUp,
           InsertRoute, Mark, LookUp, RecallCopy, DeleteCopy, SendFails, AnswerLost, AnswerUnread, At,
           flags
  <2> QED
    BY <1>1, <2>1
<1>6. CASE EndsForGood(c)
  <2>1. pos' = pos /\ known' = known /\ task'[c].pc = "gone"
    BY <1>6 DEF EndsForGood, Gone, Idle, flags, TypeInv, TypeOK
  <2> QED
    BY <1>1, <2>1
<1> QED
  BY <1>2, <1>3, <1>4, <1>5, <1>6 DEF ClientStep, ClientFault, Forwarding, RecallSteps

LEMMA UnreadStep ==
    TypeInv /\ GensStarted /\ Unread /\ [Next]_vars => Unread' /\ \A c \in Clients : pos[c] <= pos'[c]
<1> SUFFICES ASSUME TypeInv, GensStarted, Unread, [Next]_vars
             PROVE  Unread' /\ \A c \in Clients : pos[c] <= pos'[c]
  OBVIOUS
<1>1. /\ pos \in [Clients -> Nat] /\ known \in [Gens -> SUBSET Plats] /\ gen \in Nat
      /\ task \in [Clients -> Task] /\ \A c \in Clients : c[1] \in Gens /\ c[1] \in Nat /\ c[2] \in Plats
  BY GenRange DEF TypeInv, TypeOK, MemoryOK, Clients, Gens
<1>2. ASSUME NEW c \in Clients, ClientStep(c) \/ ClientFault(c)
      PROVE  Unread' /\ \A k \in Clients : pos[k] <= pos'[k]
  <2>1. /\ \A k \in Clients \ {c} : task'[k] = task[k] /\ pos'[k] = pos[k]
        /\ gen' = gen /\ task[c].pc # "gone"
    BY <1>2, OneTask, OneReads DEF control
  <2>2. c[1] <= gen
    BY <1>1, <2>1 DEF GensStarted, Gone, Idle
  <2>3. CASE Identify(c)
    <3>1. pos[c] = 0 /\ task' = task /\ known' = [known EXCEPT ![c[1]] = known[c[1]] \cup {c[2]}]
      BY <2>1, <2>3 DEF Identify, Unread
    <3>2. pos'[c] \in Nat
      BY <1>2, TypeStep DEF Next, TypeInv, TypeOK
    <3>3. \A k \in Clients : known[k[1]] \subseteq known'[k[1]]
      BY <1>1, <3>1
    <3>4. c[2] \in known'[c[1]]
      BY <1>1, <3>1
    <3> QED
      BY <1>1, <2>1, <2>2, <3>1, <3>2, <3>3, <3>4 DEF Unread
  <2>4. CASE ~Identify(c)
    <3>1. known' = known /\ pos[c] <= pos'[c] /\ (c[2] \in known[c[1]] \/ task'[c].pc = "gone")
      BY <1>2, <2>1, <2>4, OneReads DEF Unread
    <3> QED
      BY <1>1, <2>1, <2>2, <3>1 DEF Unread
  <2> QED
    BY <2>3, <2>4
<1>3. CASE Users \/ Stop \/ CleanupTick \/ UNCHANGED vars
  <2>1. UNCHANGED <<pos, task, known, gen>>
    BY <1>3 DEF Users, Post, Delete, Stop, CleanupTick, vars, flags, control
  <2> QED
    BY <1>1, <2>1 DEF Unread
<1>4. CASE Start
  <2>1. UNCHANGED <<pos, known>> /\ gen' = gen + 1
    BY <1>4 DEF Start, flags
  <2>2. \A c \in Clients : c[1] = gen + 1 => task'[c].pc = "idle" /\ pos[c] = 0
    BY <1>1, <1>4 DEF Start, Idle, Unread
  <2>3. \A c \in Clients : c[1] # gen + 1 => task'[c] = task[c]
    BY <1>4 DEF Start
  <2> QED
    BY <1>1, <2>1, <2>2, <2>3 DEF Unread
<1>5. CASE Crash
  <2>1. UNCHANGED <<pos, gen>> /\ \A c \in Clients : task'[c].pc = "gone"
    BY <1>5 DEF Crash, Gone, Idle
  <2> QED
    BY <1>1, <2>1 DEF Unread
<1> QED
  BY <1>2, <1>3, <1>4, <1>5 DEF Next, Controller

(* A client that works has identified itself, and one that has not has read *)
(* nothing: Identify never moves a client back behind what it has read.    *)
THEOREM UnreadInvariant == Spec => []Unread
<1>1. Init => Unread
  BY DEF Init, Unread, Gone, Idle
<1> QED
  BY <1>1, UnreadStep, TypeInvariant, StartedInvariant, PTL DEF Spec

----------------------------------------------------------------------------
(***************************************************************************)
(* Counting copies.  A generation has passed a target when its client has  *)
(* read the message and the target is no longer ahead of its handler: no   *)
(* copy there comes from it any more, and each copy there is one           *)
(* generation's passing.                                                   *)
(***************************************************************************)
Elems(s) == {s[i] : i \in DOMAIN s}

(* The targets a forward may still create a copy on. *)
Ahead(t) == IF t.pc \in Sent THEN Elems(Tail(t.left)) ELSE Elems(t.left)

TargetsDistinct ==
    \A c \in Clients : \A i, j \in DOMAIN task[c].left : task[c].left[i] = task[c].left[j] => i = j

HasRead(c, m) == \E i \in DOMAIN log[c[2]] : i <= pos[c] /\ IsCreate(log[c[2]][i]) /\ log[c[2]][i].msg = m

ForwardsRead == \A c \in Clients : task[c].pc \in Fanning => HasRead(c, task[c].msg)

Passed(c, m, p) == HasRead(c, m) /\ (task[c].msg = m => p \notin Ahead(task[c]))

PassedBy(m, p) == {g \in 1..gen : Passed(<<g, m[1]>>, m, p)}

CopiesOn(m, p) == {d \in Copies : d[1] = p /\ <<d, m>> \in copyOf}

Counted ==
    MaxExtra = 0 =>
    \A m : m[1] \in Plats => \A p \in Plats :
        IsFiniteSet(CopiesOn(m, p)) /\ Cardinality(CopiesOn(m, p)) <= Cardinality(PassedBy(m, p))

LEMMA TailElems ==
    ASSUME NEW s \in Seq(Plats), s # <<>>, \A i, j \in DOMAIN s : s[i] = s[j] => i = j
    PROVE  /\ Elems(Tail(s)) \subseteq Elems(s)
           /\ Head(s) \in Elems(s) /\ Head(s) \notin Elems(Tail(s))
           /\ \A i, j \in DOMAIN Tail(s) : Tail(s)[i] = Tail(s)[j] => i = j
<1>1. /\ Len(s) \in Nat /\ Len(s) >= 1 /\ DOMAIN s = 1..Len(s) /\ Head(s) = s[1]
      /\ DOMAIN Tail(s) = 1..(Len(s) - 1) /\ \A i \in 1..(Len(s) - 1) : Tail(s)[i] = s[i + 1]
  <2>1. Len(s) \in Nat /\ DOMAIN s = 1..Len(s) /\ Len(s) # 0
    BY LenProperties, EmptySeq
  <2>2. Tail(s) \in Seq(Plats) /\ Len(Tail(s)) = Len(s) - 1 /\ \A i \in 1..Len(Tail(s)) : Tail(s)[i] = s[i + 1]
        /\ Head(s) = s[1]
    BY HeadTailProperties
  <2> QED
    BY <2>1, <2>2, LenProperties
<1>2. \A i \in 1..(Len(s) - 1) : i + 1 \in 1..Len(s) /\ i + 1 # 1
  BY <1>1
<1> QED
  BY <1>1, <1>2 DEF Elems

(* What is ahead of a handler only shrinks, unless it begins a forward.    *)
LEMMA AheadShrinks ==
    ASSUME TypeInv, TargetsDistinct, NEW c \in Clients, ClientStep(c) \/ ClientFault(c), ~BeginForward(c)
    PROVE  /\ \A p \in Ahead(task[c])' : p \in Ahead(task[c]) /\ task'[c].msg = task[c].msg
           /\ \A i, j \in DOMAIN task'[c].left : task'[c].left[i] = task'[c].left[j] => i = j
           /\ task'[c].pc \in Fanning => task[c].pc \in Fanning /\ task'[c].msg = task[c].msg
<1> DEFINE t == task[c]
           u == task'[c]
           Fine == /\ \A p \in Ahead(u) : p \in Ahead(t) /\ u.msg = t.msg
                   /\ \A i, j \in DOMAIN u.left : u.left[i] = u.left[j] => i = j
                   /\ u.pc \in Fanning => t.pc \in Fanning /\ u.msg = t.msg
<1>1. t \in Task /\ task \in [Clients -> Task] /\ t.left \in Seq(Plats)
      /\ (t.pc \in Fanning => t.left # <<>>)
  BY DEF TypeInv, TypeOK, Task, Shape
<1>2. \A i, j \in DOMAIN t.left : t.left[i] = t.left[j] => i = j
  BY DEF TargetsDistinct
<1>3. ASSUME t.pc \in Fanning
      PROVE  /\ Elems(Tail(t.left)) \subseteq Elems(t.left)
             /\ \A i, j \in DOMAIN Tail(t.left) : Tail(t.left)[i] = Tail(t.left)[j] => i = j
  BY <1>1, <1>2, <1>3, TailElems
<1>4. ASSUME u.left = <<>>, u.pc \notin Fanning PROVE Fine
  BY <1>4 DEF Ahead, Elems, Sent, Fanning
<1>5. Idle.left = <<>> /\ Idle.pc \notin Fanning
  BY DEF Idle, Fanning
<1>6. CASE task' = task
  BY <1>2, <1>6
<1>7. CASE HandleDelete(c)
  <2>1. u = t \/ u = [Idle EXCEPT !.pc = "marking", !.msg = Heard(c).msg]
    BY <1>1, <1>7 DEF HandleDelete
  <2>2. CASE u = [Idle EXCEPT !.pc = "marking", !.msg = Heard(c).msg]
    <3>1. u.left = <<>> /\ u.pc \notin Fanning
      BY <2>2 DEF Idle, Fanning
    <3> QED
      BY <1>4, <3>1
  <2> QED
    BY <1>2, <2>1, <2>2
<1>8. CASE SkipOwn(c) \/ SendFails(c) \/ AnswerLost(c) \/ AnswerUnread(c) \/ InsertRoute(c)
  <2>1. u = Idle \/ u = Rest(t)
    BY <1>1, <1>8 DEF SkipOwn, SendFails, AnswerLost, AnswerUnread, InsertRoute, NextTarget
  <2>2. t.pc \in Fanning
    BY <1>8 DEF SkipOwn, SendFails, AnswerLost, AnswerUnread, InsertRoute, At, Fanning
  <2>3. CASE u = Rest(t)
    <3>1. u.left = Tail(t.left) /\ u.pc = "fanout" /\ u.msg = t.msg
      BY <1>1, <2>3 DEF Rest, Task
    <3>2. Ahead(u) = Elems(Tail(t.left)) /\ Ahead(u) \subseteq Ahead(t)
      BY <1>3, <2>2, <3>1 DEF Ahead, Sent
    <3> QED
      BY <1>3, <2>2, <3>1, <3>2
  <2> QED
    BY <1>4, <1>5, <2>1, <2>3
<1>9. CASE StopForward(c) \/ EndsForGood(c)
  <2>1. u = Idle \/ u = Gone
    BY <1>1, <1>9 DEF StopForward, EndsForGood
  <2>2. Gone.left = <<>> /\ Gone.pc \notin Fanning
    BY DEF Gone, Idle, Fanning
  <2> QED
    BY <1>4, <1>5, <2>1, <2>2
<1>10. CASE SendTo(c) \/ SendLands(c) \/ KeepCopy(c) \/ UndoCopy(c) \/ CleanUp(c)
  <2>1. t.pc \in Fanning
    <3>1. t.pc \in {"fanout", "sending", "landed", "cleaning"}
      BY <1>10 DEF SendTo, SendLands, KeepCopy, UndoCopy, CleanUp, At
    <3> QED
      BY <3>1 DEF Fanning
  <2>2. u.left = t.left /\ u.msg = t.msg /\ u.pc \in {"sending"} \cup Sent
    <3>1. CASE SendLands(c)
      BY <1>1, <3>1 DEF SendLands, Task, Sent
    <3>2. CASE SendTo(c) \/ KeepCopy(c) \/ UndoCopy(c) \/ CleanUp(c)
      BY <1>1, <3>2 DEF SendTo, KeepCopy, UndoCopy, CleanUp, Goto, Task, Sent
    <3> QED
      BY <1>10, <3>1, <3>2
  <2>3. u.pc = "sending" => t.pc \notin Sent
    <3>1. CASE SendLands(c)
      BY <3>1 DEF SendLands, At, Sent
    <3>2. CASE SendTo(c)
      BY <3>2 DEF SendTo, At, Sent
    <3>3. CASE KeepCopy(c) \/ UndoCopy(c) \/ CleanUp(c)
      BY <1>1, <3>3 DEF KeepCopy, UndoCopy, CleanUp, Goto, Task
    <3> QED
      BY <1>10, <3>1, <3>2, <3>3
  <2>4. Ahead(u) \subseteq Ahead(t)
    BY <1>3, <2>1, <2>2, <2>3 DEF Ahead
  <2> QED
    BY <1>2, <2>1, <2>2, <2>4
<1>11. CASE Mark(c) \/ RecallCopy(c)
  <2>1. u.left = t.left /\ u.msg = t.msg /\ u.pc \notin Fanning
    <3>1. CASE Mark(c)
      BY <1>1, <3>1 DEF Mark, Goto, Task, Fanning
    <3>2. CASE RecallCopy(c)
      <4>1. PICK e \in task[c].todo :
              task' = [task EXCEPT ![c] = [task[c] EXCEPT !.pc = "deleting", !.dst = e,
                                                           !.todo = task[c].todo \ {e}]]
        BY <3>2 DEF RecallCopy
      <4> QED
        BY <1>1, <4>1 DEF Task, Fanning
    <3> QED
      BY <1>11, <3>1, <3>2
  <2>2. t.pc \notin Fanning
    <3>1. t.pc \in {"marking", "recalling"}
      BY <1>11 DEF Mark, RecallCopy, At
    <3> QED
      BY <3>1 DEF Fanning
  <2> QED
    BY <1>2, <2>1, <2>2 DEF Ahead, Sent, Fanning
<1>12. CASE LookUp(c) \/ DeleteCopy(c)
  <2>1. PICK S : u = Recalling(t, S)
    BY <1>1, <1>12 DEF LookUp, DeleteCopy
  <2>2. t.pc \notin Fanning
    BY <1>12 DEF LookUp, DeleteCopy, At, Fanning
  <2>3. u = Idle \/ (u.left = t.left /\ u.msg = t.msg /\ u.pc = "recalling")
    BY <1>1, <2>1 DEF Recalling, Task
  <2>4. CASE u.left = t.left /\ u.msg = t.msg /\ u.pc = "recalling"
    BY <1>2, <2>2, <2>4 DEF Ahead, Sent, Fanning
  <2> QED
    BY <1>4, <1>5, <2>3, <2>4
<1>13. Fine
  BY <1>6, <1>7, <1>8, <1>9, <1>10, <1>11, <1>12
     DEF ClientStep, ClientFault, Forwarding, RecallSteps, Identify, IgnoreCreate, MissEvents
<1> QED
  BY <1>13 DEF Ahead

(* Every task of a later state comes from its own step, Start or a crash.  *)
LEMMA TaskMoves ==
    ASSUME TypeInv, [Next]_vars, NEW k \in Clients
    PROVE  task'[k] \in {task[k], Idle, Gone} \/ ClientStep(k) \/ ClientFault(k)
<1>1. ASSUME NEW c \in Clients, ClientStep(c) \/ ClientFault(c), c # k PROVE task'[k] = task[k]
  BY <1>1, OneTask
<1>2. CASE Users \/ Controller \/ UNCHANGED vars
  BY <1>2 DEF Users, Post, Delete, Controller, Start, Stop, CleanupTick, Crash, vars
<1> QED
  BY <1>1, <1>2 DEF Next

(* forward begins with every sender ahead and its message just read.       *)
LEMMA ForwardBegins ==
    ASSUME TypeInv, NEW c \in Clients, BeginForward(c)
    PROVE  /\ task'[c].msg = Heard(c).msg /\ task'[c].left = Senders /\ task'[c].pc = "fanout"
           /\ task'[c].reply = ReplyRecord(Heard(c).replied)
           /\ pos[c] + 1 \in DOMAIN log[c[2]] /\ Heard(c) = log[c[2]][pos[c] + 1] /\ IsCreate(Heard(c))
           /\ pos'[c] = pos[c] + 1 /\ pos[c] \in Nat /\ log' = log
<1>1. pos \in [Clients -> Nat] /\ task \in [Clients -> Task]
  BY DEF TypeInv, TypeOK
<1>2. Hears(c) /\ Heard(c).kind = "create" /\ log' = log /\ pos' = [pos EXCEPT ![c] = pos[c] + 1]
      /\ task' = [task EXCEPT ![c] = [Idle EXCEPT !.pc = "fanout", !.msg = Heard(c).msg, !.left = Senders,
                                                  !.reply = ReplyRecord(Heard(c).replied)]]
  BY DEF BeginForward, Take, platform
<1>3. /\ task'[c].msg = Heard(c).msg /\ task'[c].left = Senders /\ task'[c].pc = "fanout"
      /\ task'[c].reply = ReplyRecord(Heard(c).replied)
  BY <1>1, <1>2 DEF Idle
<1> QED
  BY <1>1, <1>2, <1>3, HeardType DEF Heard, IsCreate

(* What a client has read it has read for good.                            *)
LEMMA ReadLasts ==
    ASSUME TypeInv, Ownership, GensStarted, Unread, [Next]_vars, NEW c \in Clients, NEW m, HasRead(c, m)
    PROVE  HasRead(c, m)'
<1>1. PICK i \in DOMAIN log[c[2]] : i <= pos[c] /\ IsCreate(log[c[2]][i]) /\ log[c[2]][i].msg = m
  BY DEF HasRead
<1>2. c[2] \in Plats /\ pos[c] \in Nat /\ i \in Nat
  BY LenProperties DEF Clients, TypeInv, TypeOK, PlatformOK
<1>3. pos[c] <= pos'[c] /\ pos'[c] \in Nat
  BY UnreadStep, TypeStep DEF TypeInv, TypeOK
<1>4. i \in DOMAIN log'[c[2]] /\ log'[c[2]][i] = log[c[2]][i]
  BY <1>1, <1>2, LogsGrow
<1>5. i <= pos'[c]
  BY <1>1, <1>2, <1>3
<1> QED
  BY <1>1, <1>4, <1>5 DEF HasRead, IsCreate

LEMMA ReadingStep ==
    TypeInv /\ Ownership /\ GensStarted /\ Unread /\ TargetsDistinct /\ ForwardsRead /\ [Next]_vars
      => TargetsDistinct' /\ ForwardsRead'
<1> SUFFICES ASSUME TypeInv, Ownership, GensStarted, Unread, TargetsDistinct, ForwardsRead, [Next]_vars,
                    NEW c \in Clients, NEW m, m = task'[c].msg
             PROVE  /\ \A i, j \in DOMAIN task'[c].left : task'[c].left[i] = task'[c].left[j] => i = j
                    /\ task'[c].pc \in Fanning => HasRead(c, m)'
  BY DEF TargetsDistinct, ForwardsRead, HasRead
<1>1. CASE task'[c] \in {Idle, Gone}
  BY <1>1 DEF Idle, Gone, Fanning
<1>2. HasRead(c, m) => HasRead(c, m)'
  BY ReadLasts
<1>3. CASE task'[c] = task[c]
  BY <1>2, <1>3 DEF TargetsDistinct, ForwardsRead
<1>4. CASE BeginForward(c)
  <2>1. \E i \in DOMAIN log'[c[2]] : i <= pos'[c] /\ IsCreate(log'[c[2]][i]) /\ log'[c[2]][i].msg = m
    BY <1>4, ForwardBegins
  <2>2. HasRead(c, m)'
    BY <2>1 DEF HasRead, IsCreate
  <2> QED
    BY <1>4, <2>2, ForwardBegins, BridgeAssumption
<1>5. CASE (ClientStep(c) \/ ClientFault(c)) /\ ~BeginForward(c)
  <2>1. task'[c].pc \in Fanning => task[c].pc \in Fanning /\ task'[c].msg = task[c].msg
    BY <1>5, AheadShrinks
  <2>2. \A i, j \in DOMAIN task'[c].left : task'[c].left[i] = task'[c].left[j] => i = j
    BY <1>5, AheadShrinks
  <2> QED
    BY <1>2, <2>1, <2>2 DEF ForwardsRead
<1> QED
  BY <1>1, <1>3, <1>4, <1>5, TaskMoves

(* A generation past a target does not come back to it.                    *)
LEMMA PassedLasts ==
    ASSUME TypeInv, Ownership, GensStarted, Unread, CreatesOnce, TargetsDistinct, [Next]_vars,
           NEW c \in Clients, NEW m, NEW p, Passed(c, m, p)
    PROVE  Passed(c, m, p)'
<1>1. HasRead(c, m) /\ HasRead(c, m)'
  BY ReadLasts DEF Passed
<1> SUFFICES ASSUME task'[c].msg = m, p \in Ahead(task'[c]) PROVE FALSE
  BY <1>1 DEF Passed, Ahead
<1>2. CASE task'[c] \in {Idle, Gone}
  BY <1>2 DEF Idle, Gone, Ahead, Elems, Sent
<1>3. CASE task'[c] = task[c]
  BY <1>3 DEF Passed
<1>4. CASE BeginForward(c)
  <2>1. PICK i \in DOMAIN log[c[2]] :
            i <= pos[c] /\ IsCreate(log[c[2]][i]) /\ log[c[2]][i].msg = m
    BY <1>1 DEF HasRead
  <2>2. c[2] \in Plats /\ i \in Nat
    BY LenProperties DEF Clients, TypeInv, TypeOK, PlatformOK
  <2>3. i = pos[c] + 1
    BY <1>4, <2>1, <2>2, ForwardBegins DEF CreatesOnce
  <2> QED
    BY <1>4, <2>1, <2>2, <2>3, ForwardBegins
<1>5. CASE (ClientStep(c) \/ ClientFault(c)) /\ ~BeginForward(c)
  BY <1>5, AheadShrinks DEF Passed, Ahead
<1> QED
  BY <1>2, <1>3, <1>4, <1>5, TaskMoves

LEMMA PassingFinite ==
    /\ TypeInv => \A m, p : IsFiniteSet(PassedBy(m, p)) /\ Cardinality(PassedBy(m, p)) \in Nat
                            /\ Cardinality(PassedBy(m, p)) <= gen
    /\ TypeInv' => \A m, p : IsFiniteSet(PassedBy(m, p)') /\ Cardinality(PassedBy(m, p)') \in Nat
<1>1. ASSUME NEW n \in Nat, NEW S \in SUBSET (1..n)
      PROVE  IsFiniteSet(S) /\ Cardinality(S) \in Nat /\ Cardinality(S) <= n
  <2>1. IsFiniteSet(1..n) /\ Cardinality(1..n) = n
    BY FS_Interval
  <2> QED
    BY <2>1, FS_Subset, FS_CardinalityType
<1> QED
  BY <1>1, GenRange DEF PassedBy

LEMMA PassingGrows ==
    ASSUME TypeInv, Ownership, GensStarted, Unread, CreatesOnce, TargetsDistinct, [Next]_vars,
           NEW m, m[1] \in Plats, NEW p
    PROVE  PassedBy(m, p) \subseteq PassedBy(m, p)'
<1>1. gen \in Nat /\ gen' \in Nat /\ gen <= gen' /\ 1..gen \subseteq Gens
  BY GenRange, GenGrows, TypeStep
<1>2. ASSUME NEW g \in 1..gen, Passed(<<g, m[1]>>, m, p)
      PROVE  Passed(<<g, m[1]>>, m, p)' /\ g \in 1..gen'
  <2>1. <<g, m[1]>> \in Clients
    BY <1>1 DEF Clients
  <2> QED
    BY <1>1, <1>2, <2>1, PassedLasts
<1> QED
  BY <1>2 DEF PassedBy

(* The send that lands is the passing of its generation.                   *)
LEMMA LandingPasses ==
    ASSUME TypeInv, Ownership, Homes, GensStarted, Unread, TargetsDistinct, ForwardsRead,
           NEW c \in Clients, SendLands(c), NEW m, m = task[c].msg, NEW p, p = Head(task[c].left)
    PROVE  /\ c = <<c[1], m[1]>> /\ c[1] \in 1..gen
           /\ ~Passed(c, m, p)
           /\ Passed(c, m, p)'
<1>1. /\ task[c] \in Task /\ task \in [Clients -> Task] /\ task[c].pc = "sending"
      /\ task[c].left \in Seq(Plats) /\ task[c].left # <<>>
  BY DEF SendLands, At, TypeInv, TypeOK, Task, Shape, Fanning
<1>2. task[c].msg[1] = c[2] /\ c[1] \in Nat /\ c[1] >= 1 /\ c[1] <= gen
  BY <1>1, GenRange DEF Homes, GensStarted, Gone, Idle, Resting, Clients, Gens
<1>3. c = <<c[1], m[1]>> /\ c[1] \in 1..gen
  BY <1>2, GenRange DEF Clients
<1>4. p \in Elems(task[c].left) /\ p \notin Elems(Tail(task[c].left))
  BY <1>1, TailElems DEF TargetsDistinct
<1>5. task'[c].left = task[c].left /\ task'[c].pc = "landed" /\ task'[c].msg = m
  BY <1>1 DEF SendLands, Task
<1>6. ~Passed(c, m, p)
  BY <1>1, <1>4 DEF Passed, Ahead, Sent
<1>7. HasRead(c, m)'
  <2>1. HasRead(c, m) /\ [Next]_vars
    BY <1>1 DEF ForwardsRead, Fanning, Next, ClientStep, Forwarding
  <2> QED
    BY <2>1, ReadLasts
<1>8. Ahead(task'[c]) = Elems(Tail(task[c].left))
  BY <1>5 DEF Ahead, Sent
<1>9. Passed(c, m, p)'
  BY <1>4, <1>7, <1>8 DEF Passed, Ahead
<1> QED
  BY <1>3, <1>6, <1>9

LEMMA CountedStep ==
    TypeInv /\ Ownership /\ Homes /\ GensStarted /\ Unread /\ CreatesOnce /\ TargetsDistinct /\ ForwardsRead
      /\ Counted /\ [Next]_vars => Counted'
<1> SUFFICES ASSUME TypeInv, Ownership, Homes, GensStarted, Unread, CreatesOnce, TargetsDistinct, ForwardsRead,
                    Counted, [Next]_vars, MaxExtra = 0, NEW m, m[1] \in Plats, NEW p \in Plats
             PROVE  IsFiniteSet(CopiesOn(m, p)') /\ Cardinality(CopiesOn(m, p)') <= Cardinality(PassedBy(m, p)')
  BY DEF Counted
<1> DEFINE P == PassedBy(m, p)
           Q == PassedBy(m, p)'
           K == CopiesOn(m, p)
<1>1. /\ IsFiniteSet(K) /\ Cardinality(K) \in Nat /\ Cardinality(K) <= Cardinality(P)
      /\ IsFiniteSet(P) /\ Cardinality(P) \in Nat
      /\ IsFiniteSet(Q) /\ Cardinality(Q) \in Nat
  BY TypeStep, PassingFinite, FS_CardinalityType DEF Counted
<1>2. P \subseteq Q
  BY PassingGrows
<1>3. Cardinality(P) <= Cardinality(Q)
  BY <1>1, <1>2, FS_Subset
<1>4. CASE CopiesOn(m, p)' = K
  BY <1>1, <1>3, <1>4
<1>5. ASSUME NEW c \in Clients, SendLands(c), CopiesOn(m, p)' # K
      PROVE  IsFiniteSet(CopiesOn(m, p)') /\ Cardinality(CopiesOn(m, p)') <= Cardinality(Q)
  <2>1. PICK d : /\ d[1] = Head(task[c].left)
                 /\ copyOf' = copyOf \cup {<<d, task[c].msg>>}
    BY <1>5, OneLands
  <2>2. task[c].msg = m /\ d[1] = p /\ CopiesOn(m, p)' = K \cup {d}
    BY <1>5, <2>1 DEF CopiesOn, Copies
  <2>3. /\ c = <<c[1], m[1]>> /\ c[1] \in 1..gen
        /\ ~Passed(c, m, p) /\ Passed(c, m, p)'
    BY <1>5, <2>1, <2>2, LandingPasses
  <2>4. gen \in Nat /\ gen' \in Nat /\ gen <= gen'
    BY GenRange, GenGrows, TypeStep
  <2>5. c[1] \in Q /\ c[1] \notin P
    BY <2>3, <2>4 DEF PassedBy
  <2>6. IsFiniteSet(K \cup {d}) /\ Cardinality(K \cup {d}) <= Cardinality(K) + 1
    <3>1. /\ IsFiniteSet(K \cup {d})
          /\ Cardinality(K \cup {d}) = IF d \in K THEN Cardinality(K) ELSE Cardinality(K) + 1
      BY <1>1, FS_AddElement
    <3> QED
      BY <1>1, <3>1
  <2>7. IsFiniteSet(P \cup {c[1]}) /\ Cardinality(P \cup {c[1]}) = Cardinality(P) + 1
    BY <1>1, <2>5, FS_AddElement
  <2>8. P \cup {c[1]} \in SUBSET Q
    BY <1>2, <2>5
  <2>9. Cardinality(P \cup {c[1]}) <= Cardinality(Q)
    BY <1>1, <2>8, FS_Subset
  <2>10. Cardinality(K \cup {d}) \in Nat
    BY <2>6, FS_CardinalityType
  <2> QED
    BY <1>1, <2>2, <2>6, <2>7, <2>9, <2>10
<1>6. CASE UNCHANGED copyOf
  BY <1>4, <1>6 DEF CopiesOn, Copies
<1> QED
  BY <1>4, <1>5, <1>6, LateFrame

(* A start of the bot forwards a message to each other platform at most    *)
(* once, whatever fails on the way, and however the reads of overlapping   *)
(* generations interleave (Bridge::forward).                               *)
THEOREM NeverSentTwice == Spec => []OneCopyPerRun
<1>1. Init => TargetsDistinct /\ ForwardsRead /\ Counted
  <2> SUFFICES ASSUME Init PROVE TargetsDistinct /\ ForwardsRead /\ Counted
    OBVIOUS
  <2>1. TargetsDistinct /\ ForwardsRead
    BY DEF Init, Gone, Idle, TargetsDistinct, ForwardsRead, Fanning
  <2>2. gen = 0 /\ \A m, p : CopiesOn(m, p) = {} /\ PassedBy(m, p) = {}
    BY DEF Init, CopiesOn, PassedBy, Copies
  <2> QED
    BY <2>1, <2>2, FS_EmptySet DEF Counted
<1>2. TypeInv /\ Ownership /\ Counted => OneCopyPerRun
  <2> SUFFICES ASSUME TypeInv, Ownership, Counted, MaxExtra = 0, NEW x \in copyOf, NEW p \in Plats
               PROVE  Cardinality(CopiesOn(x[2], p)) <= gen
    BY DEF OneCopyPerRun, CopiesOn
  <2>1. x[2][1] \in Plats
    BY CopiesAreMade DEF Made
  <2>2. /\ IsFiniteSet(CopiesOn(x[2], p)) /\ Cardinality(CopiesOn(x[2], p)) <= Cardinality(PassedBy(x[2], p))
        /\ Cardinality(PassedBy(x[2], p)) <= gen /\ Cardinality(PassedBy(x[2], p)) \in Nat
    BY <2>1, PassingFinite DEF Counted
  <2>3. Cardinality(CopiesOn(x[2], p)) \in Nat /\ gen \in Nat
    BY <2>2, GenRange, FS_CardinalityType
  <2> QED
    BY <2>2, <2>3
<1> QED
  BY <1>1, <1>2, ReadingStep, CountedStep, TypeInvariant, OwnershipInvariant,
     OnlyWithdrawnInvariant, StartedInvariant, CreatesInvariant, UnreadInvariant, PTL
     DEF Spec

----------------------------------------------------------------------------
(***************************************************************************)
(* Replies.  Both ends of a route have the origin of its source, so every  *)
(* id in a reply record stands for the message that was answered: a copy   *)
(* of it, or what it is a copy of.                                         *)
(***************************************************************************)
Threaded(m, e) == Made(next, e) /\ \A r \in RepliedTo(m) : Made(next, r) /\ Origin(e) = Origin(r)

Threads ==
    \A c \in Clients : task[c].pc \notin Resting => \A e \in task[c].reply : Threaded(task[c].msg, e)

LEMMA OriginIs ==
    /\ TypeInv /\ Ownership =>
          (\A d, s : <<d, s>> \in copyOf => Origin(d) = s) /\ (\A d : d \notin Copies => Origin(d) = d)
    /\ TypeInv' /\ Ownership' =>
          (\A d, s : <<d, s>> \in copyOf' => Origin(d)' = s) /\ (\A d : d \notin Copies' => Origin(d)' = d)
<1> DEFINE Org(co, m) ==
             IF m \in {x[1] : x \in co} THEN CHOOSE s \in {x[2] : x \in co} : <<m, s>> \in co ELSE m
<1>1. ASSUME NEW co \in SUBSET (Endpoint \X Endpoint), \A x, y \in co : x[1] = y[1] => x[2] = y[2]
      PROVE  /\ \A d, s : <<d, s>> \in co => Org(co, d) = s
             /\ \A d : d \notin {x[1] : x \in co} => Org(co, d) = d
  <2>1. ASSUME NEW d, NEW s, <<d, s>> \in co PROVE Org(co, d) = s
    <3> DEFINE x0 == <<d, s>>
    <3>1. x0 \in co /\ x0[1] = d /\ x0[2] = s
      BY <2>1
    <3>2. d \in {x[1] : x \in co} /\ s \in {x[2] : x \in co}
      BY <3>1
    <3>3. \A t : <<d, t>> \in co => t = s
      BY <1>1, <3>1
    <3> QED
      BY <2>1, <3>2, <3>3
  <2> QED
    BY <2>1
<1>2. \A m : Org(copyOf, m) = Origin(m)
  BY DEF Origin, Copies
<1>3. \A m : Org(copyOf', m) = Origin(m)'
  BY DEF Origin, Copies
<1> HIDE DEF Org
<1> QED
  BY <1>1, <1>2, <1>3 DEF TypeInv, TypeOK, PlatformOK, Ownership, OneSource, Copies

(* What exists keeps its origin, and what it answers.                      *)
LEMMA OriginKept ==
    ASSUME TypeInv, Ownership, [Next]_vars, NEW e, Made(next, e)
    PROVE  Origin(e)' = Origin(e)
<1>1. TypeInv' /\ Ownership'
  BY TypeStep, OwnershipStep
<1>2. copyOf \subseteq copyOf' /\ (e \in Copies' => e \in Copies)
  BY ChatsGrow DEF Grows, Copies
<1>3. CASE e \in Copies
  <2>1. PICK x \in copyOf : x[1] = e
    BY <1>3 DEF Copies
  <2>2. <<e, x[2]>> \in copyOf
    BY <2>1 DEF TypeInv, TypeOK, PlatformOK
  <2>3. Origin(e) = x[2]
    BY <2>2, OriginIs
  <2>4. Origin(e)' = x[2]
    BY <1>1, <1>2, <2>2, OriginIs
  <2> QED
    BY <2>3, <2>4
<1>4. CASE e \notin Copies
  BY <1>1, <1>2, <1>4, OriginIs
<1> QED
  BY <1>3, <1>4

LEMMA AnswersKept ==
    ASSUME TypeInv, Ownership, [Next]_vars, NEW m, Made(next, m)
    PROVE  RepliedTo(m)' = RepliedTo(m)
<1> DEFINE p == m[1]
           I == {j \in DOMAIN log[p] : log[p][j].kind = "create" /\ log[p][j].msg = m}
           J == {j \in DOMAIN log'[p] : log'[p][j].kind = "create" /\ log'[p][j].msg = m}
<1>1. p \in Plats
  BY DEF Made
<1>2. I = J /\ \A i \in I : log'[p][i] = log[p][i]
  BY <1>1, LogsGrow DEF IsCreate
<1>3. RepliedTo(m) = {e.replied : e \in {log[p][i] : i \in I}}
  BY DEF RepliedTo
<1>4. RepliedTo(m)' = {e.replied : e \in {log'[p][i] : i \in J}}
  BY DEF RepliedTo
<1> HIDE DEF I, J
<1> QED
  BY <1>2, <1>3, <1>4

LEMMA ThreadLasts ==
    ASSUME TypeInv, Ownership, [Next]_vars, NEW m, Made(next, m), NEW e, Threaded(m, e)
    PROVE  Threaded(m, e)'
<1>1. \A x : Made(next, x) => Made(next', x)
  BY ChatsGrow DEF Grows
<1>2. RepliedTo(m)' = RepliedTo(m) /\ Origin(e)' = Origin(e)
  BY AnswersKept, OriginKept DEF Threaded
<1>3. \A r \in RepliedTo(m) : Made(next', r) /\ Origin(e)' = Origin(r)'
  BY <1>1, <1>2, OriginKept DEF Threaded
<1>4. Made(next', e)
  BY <1>1 DEF Threaded
<1> QED
  BY <1>2, <1>3, <1>4 DEF Threaded, Made

(* The record forward looks up stands for the message its own one answers. *)
LEMMA RecordsThread ==
    ASSUME TypeInv, Ownership, Homes, CreatesOnce, NEW c \in Clients, BeginForward(c),
           NEW e \in ReplyRecord(Heard(c).replied)
    PROVE  Threaded(Heard(c).msg, e)
<1> DEFINE m == Heard(c).msg
           r == Heard(c).replied
<1>1. /\ pos[c] + 1 \in DOMAIN log[c[2]] /\ Heard(c) = log[c[2]][pos[c] + 1] /\ IsCreate(Heard(c))
      /\ c[2] \in Plats
  BY ForwardBegins DEF Clients
<1>2. PICK h \in rows : e \in Ends(h) /\ r \in Ends(h)
  BY DEF ReplyRecord, Query, Touching
<1>3. <<h.dst, h.src>> \in copyOf
  BY DEF Ownership, RoutesTrue
<1>4. h.src \notin Copies /\ Made(next, h.src) /\ Made(next, h.dst)
  BY <1>3, CopiesAreMade DEF Ownership, NoEcho
<1>5. Origin(h.src) = h.src /\ Origin(h.dst) = h.src
  BY <1>3, <1>4, OriginIs
<1>6. RepliedTo(m) = {r}
  <2> DEFINE k == pos[c] + 1
             I == {j \in DOMAIN log[c[2]] : log[c[2]][j].kind = "create" /\ log[c[2]][j].msg = m}
  <2>1. m[1] = c[2]
    BY <1>1 DEF Homes
  <2>2. I = {k}
    BY <1>1 DEF CreatesOnce, IsCreate
  <2>3. RepliedTo(m) = {a.replied : a \in {log[c[2]][i] : i \in I}}
    BY <2>1 DEF RepliedTo
  <2> HIDE DEF I
  <2> QED
    BY <1>1, <2>2, <2>3
<1> QED
  BY <1>2, <1>4, <1>5, <1>6 DEF Threaded, Ends

(* A handler keeps its message, and at most what it found for the reply.   *)
LEMMA ReplyKept ==
    ASSUME TypeInv, NEW c \in Clients, ClientStep(c) \/ ClientFault(c), ~BeginForward(c)
    PROVE  \/ task'[c].reply = {}
           \/ task'[c].reply = task[c].reply /\ task'[c].msg = task[c].msg
              /\ (task[c].pc \notin Resting \/ task' = task)
<1> DEFINE t == task[c]
           u == task'[c]
           Same == u.reply = t.reply /\ u.msg = t.msg
<1>1. t \in Task /\ task \in [Clients -> Task]
  BY DEF TypeInv, TypeOK
<1>2. Idle.reply = {}
  BY DEF Idle
<1>3. CASE Identify(c) \/ IgnoreCreate(c) \/ MissEvents(c)
  BY <1>3 DEF Identify, IgnoreCreate, MissEvents
<1>4. CASE HandleDelete(c)
  <2>1. task' = task \/ u = [Idle EXCEPT !.pc = "marking", !.msg = Heard(c).msg]
    BY <1>1, <1>4 DEF HandleDelete
  <2> QED
    BY <2>1 DEF Idle
<1>5. CASE SkipOwn(c) \/ SendFails(c) \/ AnswerLost(c) \/ AnswerUnread(c) \/ InsertRoute(c)
  <2>1. u = Idle \/ u = Rest(t)
    BY <1>1, <1>5 DEF SkipOwn, SendFails, AnswerLost, AnswerUnread, InsertRoute, NextTarget
  <2>2. t.pc \in Fanning
    BY <1>5 DEF SkipOwn, SendFails, AnswerLost, AnswerUnread, InsertRoute, At, Fanning
  <2>3. u = Rest(t) => Same
    BY <1>1 DEF Rest, Task
  <2> QED
    BY <1>2, <2>1, <2>2, <2>3 DEF Fanning, Resting
<1>6. CASE StopForward(c) \/ EndsForGood(c)
  BY <1>1, <1>2, <1>6 DEF StopForward, EndsForGood, Gone, Idle
<1>7. CASE SendTo(c) \/ KeepCopy(c) \/ UndoCopy(c) \/ CleanUp(c) \/ Mark(c)
  BY <1>1, <1>7 DEF SendTo, KeepCopy, UndoCopy, CleanUp, Mark, Goto, At, Task, Resting
<1>8. CASE SendLands(c)
  BY <1>1, <1>8 DEF SendLands, At, Task, Resting
<1>9. CASE RecallCopy(c)
  <2>1. PICK e \in task[c].todo :
          task' = [task EXCEPT ![c] = [task[c] EXCEPT !.pc = "deleting", !.dst = e,
                                                       !.todo = task[c].todo \ {e}]]
    BY <1>9 DEF RecallCopy
  <2> QED
    BY <1>1, <1>9, <2>1 DEF RecallCopy, At, Task, Resting
<1>10. CASE LookUp(c) \/ DeleteCopy(c)
  <2>1. PICK S : u = Recalling(t, S)
    BY <1>1, <1>10 DEF LookUp, DeleteCopy
  <2>2. u = Idle \/ Same
    BY <1>1, <2>1 DEF Recalling, Task
  <2> QED
    BY <1>2, <1>10, <2>2 DEF LookUp, DeleteCopy, At, Resting
<1> QED
  BY <1>3, <1>4, <1>5, <1>6, <1>7, <1>8, <1>9, <1>10
     DEF ClientStep, ClientFault, Forwarding, RecallSteps

LEMMA ThreadsStep ==
    TypeInv /\ Ownership /\ Homes /\ CreatesOnce /\ Threads /\ [Next]_vars => Threads'
<1> SUFFICES ASSUME TypeInv, Ownership, Homes, CreatesOnce, Threads, [Next]_vars,
                    NEW c \in Clients, task'[c].pc \notin Resting, NEW e \in task'[c].reply,
                    NEW m, m = task'[c].msg
             PROVE  Threaded(m, e)'
  BY DEF Threads, Threaded, Made
<1>1. CASE task'[c] \in {Idle, Gone}
  BY <1>1 DEF Idle, Gone
<1>2. task[c].pc \notin Resting => Made(next, task[c].msg)
  BY CreatedIsMade DEF Ownership, TasksTrue, Truthful
<1>3. CASE task'[c] = task[c]
  BY <1>2, <1>3, ThreadLasts DEF Threads
<1>4. CASE BeginForward(c)
  <2>1. m = Heard(c).msg /\ e \in ReplyRecord(Heard(c).replied) /\ c[2] \in Plats
    BY <1>4, ForwardBegins DEF Clients
  <2>2. Made(next, m)
    BY <1>4, <2>1, ForwardBegins, OldEventsMade
  <2>3. Threaded(m, e)
    BY <1>4, <2>1, RecordsThread
  <2> QED
    BY <2>2, <2>3, ThreadLasts
<1>5. CASE (ClientStep(c) \/ ClientFault(c)) /\ ~BeginForward(c)
  BY <1>2, <1>5, ReplyKept, ThreadLasts DEF Threads
<1> QED
  BY <1>1, <1>3, <1>4, <1>5, TaskMoves

(* The id a reply is sent under stands for the message that is answered,   *)
(* whatever was routed or recalled since it was looked up (forward's       *)
(* ReplyRecord and ReplyRecord::id_on).                                    *)
THEOREM RepliesThread == Spec => []ReplyThreads
<1>1. Init => Threads
  BY DEF Init, Threads, Gone, Idle, Resting
<1>2. Threads => ReplyThreads
  BY DEF Threads, Threaded, ReplyThreads, ReplyTarget, IdOn, At, Resting
<1> QED
  BY <1>1, <1>2, ThreadsStep, TypeInvariant, OwnershipInvariant, OnlyWithdrawnInvariant,
     CreatesInvariant, PTL
     DEF Spec
=============================================================================
