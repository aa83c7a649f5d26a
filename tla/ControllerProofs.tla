-------------------------- MODULE ControllerProofs --------------------------
(***************************************************************************)
(* The bot's life, for every set of configurations, any number of starts   *)
(* and any number of requests: with each of the three front ends one       *)
(* generation runs at most (OneRunning) and no platform is shown as        *)
(* connected without a client that is, or was until its handler panicked   *)
(* (NoFalseConnected); with the GUI and                                    *)
(* the CLI a running bot's QQ runtime is never dropped (RuntimeKept).      *)
(*                                                                         *)
(* The first part is about the controller's operations, whoever calls      *)
(* them; then each front end adds what it knows of its own tasks.          *)
(***************************************************************************)
EXTENDS Parts, Integers, SequenceTheorems, TLAPS

States == {"none", "begun", "dropped", "open", "up", "down", "ended", "panicked"}

BotSafe == Bot!BotTypeInv /\ Bot!OneRunning /\ Bot!NoFalseConnected

(* A generation whose QQ runtime start has returned and nobody has put     *)
(* anywhere yet.                                                           *)
InHand(g) == g \in 1..Len(started) /\ clients[g]["QQ"] = "begun" /\ slot # g

(* The same after a step. *)
StillInHand(g) == g \in 1..Len(started') /\ clients'[g]["QQ"] = "begun" /\ slot' # g

LEMMA Typed ==
    ASSUME Bot!ControllerAssumption, Bot!BotTypeInv
    PROVE  /\ Len(started) \in 0..MaxGen /\ MaxGen \in Nat
           /\ \A g \in Bot!Gens : clients[g] \in [Bot!Plats -> States] /\ DOMAIN clients[g] = Bot!Plats
           /\ clients \in [Bot!Gens -> [Bot!Plats -> States]]
           /\ 1..Len(started) \subseteq Bot!Gens
<1>1. Len(started) \in Nat
  BY LenProperties DEF Bot!BotTypeInv
<1> QED
  BY <1>1 DEF Bot!ControllerAssumption, Bot!BotTypeInv, States, Bot!Gens

LEMMA StartSafe ==
    ASSUME Bot!ControllerAssumption, BotSafe, NEW c \in Configs, Bot!StartBot(c)
    PROVE  /\ BotSafe'
           /\ handle' = Bot!NewGen /\ Len(started') = Bot!NewGen /\ slot' = slot
           /\ Bot!NewGen \notin 1..Len(started)
           /\ clients'[Bot!NewGen]["QQ"] = IF "QQ" \in c.plats THEN "begun" ELSE "none"
           /\ \A g \in 1..Len(started) : clients'[g] = clients[g]
<1>1. /\ handle = 0 /\ Bot!NewGen \in Bot!Gens /\ started' = Append(started, c) /\ handle' = Bot!NewGen
      /\ clients' = [clients EXCEPT ![Bot!NewGen] = Bot!Spawned(c)] /\ shown' = {}
      /\ UNCHANGED <<config, stopped, slot>>
  BY DEF Bot!StartBot, Bot!NotRunning
<1>2. Bot!NewGen = Len(started) + 1 /\ Len(started) \in 0..MaxGen
  BY Typed DEF BotSafe, Bot!NewGen
<1>3. started' \in Seq(Configs) /\ Len(started') = Bot!NewGen
  BY <1>1, <1>2 DEF BotSafe, Bot!BotTypeInv
<1>4. /\ Bot!Spawned(c) \in [Bot!Plats -> States]
      /\ Bot!Spawned(c)["QQ"] = IF "QQ" \in c.plats THEN "begun" ELSE "none"
  BY DEF Bot!Spawned, States, Bot!Plats
<1>5. /\ clients' \in [Bot!Gens -> [Bot!Plats -> States]] /\ clients'[Bot!NewGen] = Bot!Spawned(c)
      /\ \A g \in Bot!Gens \ {Bot!NewGen} : clients'[g] = clients[g]
  BY <1>1, <1>4, Typed DEF BotSafe
<1>6. /\ Len(started') <= MaxGen /\ handle' \in 0..Len(started') /\ stopped' \subseteq 1..Len(started')
      /\ slot' \in 0..Len(started')
  BY <1>1, <1>2, <1>3 DEF BotSafe, Bot!BotTypeInv, Bot!Gens
<1>7. \A g \in Bot!Gens : g > Len(started') => clients'[g] = Bot!NoClients
  BY <1>2, <1>3, <1>5 DEF BotSafe, Bot!BotTypeInv, Bot!Gens
<1>8. slot' # 0 => clients'[slot']["QQ"] = "begun"
  BY <1>1, <1>2, <1>5 DEF BotSafe, Bot!BotTypeInv, Bot!Gens
<1>9. Bot!BotTypeInv'
  BY <1>1, <1>3, <1>5, <1>6, <1>7, <1>8 DEF BotSafe, Bot!BotTypeInv, States
<1>10. Bot!OneRunning'
  BY <1>1, <1>2, <1>3 DEF BotSafe, Bot!BotTypeInv, Bot!OneRunning
<1>11. Bot!NoFalseConnected'
  BY <1>1 DEF Bot!NoFalseConnected
<1>12. \A g \in 1..Len(started) : clients'[g] = clients[g]
  <2>1. \A g \in 1..Len(started) : g \in Bot!Gens /\ g # Bot!NewGen
    BY <1>2, Typed DEF BotSafe
  <2> QED
    BY <1>5, <2>1
<1> QED
  BY <1>1, <1>2, <1>3, <1>4, <1>5, <1>9, <1>10, <1>11, <1>12 DEF BotSafe

(* The operations that touch neither clients nor generations. *)
LEMMA RestSafe ==
    ASSUME BotSafe,
           Bot!StartFails \/ Bot!AlreadyRunning \/ UNCHANGED Bot!botVars \/ \E c \in Configs : Bot!UpdateConfig(c)
    PROVE  BotSafe' /\ UNCHANGED <<handle, started, stopped, clients, slot>>
<1>1. /\ UNCHANGED <<handle, started, stopped, clients, slot>>
      /\ config' = config \/ config' \in Configs
      /\ shown' = shown \/ shown' = {}
  BY DEF Bot!StartFails, Bot!AlreadyRunning, Bot!botVars, Bot!UpdateConfig
<1>2. Bot!BotTypeInv'
  BY <1>1 DEF BotSafe, Bot!BotTypeInv
<1> QED
  BY <1>1, <1>2 DEF BotSafe, Bot!OneRunning, Bot!NoFalseConnected, Bot!LeftFlag

LEMMA StopSafe ==
    ASSUME BotSafe, Bot!StopBot
    PROVE  BotSafe' /\ handle' = 0 /\ UNCHANGED <<started, clients, slot>>
<1>1. /\ stopped' = IF handle = 0 THEN stopped ELSE stopped \cup {handle}
      /\ handle' = 0 /\ UNCHANGED <<config, started, clients, shown, slot>>
  BY DEF Bot!StopBot
<1>2. Len(started) \in Nat
  BY LenProperties DEF BotSafe, Bot!BotTypeInv
<1>3. handle \in 0..Len(started) /\ stopped \subseteq 1..Len(started)
  BY DEF BotSafe, Bot!BotTypeInv
<1>4. handle' \in 0..Len(started') /\ stopped' \subseteq 1..Len(started')
  BY <1>1, <1>2, <1>3
<1>5. Bot!BotTypeInv'
  BY <1>1, <1>4 DEF BotSafe, Bot!BotTypeInv
<1>6. Bot!OneRunning'
  BY <1>1, <1>2, <1>3 DEF BotSafe, Bot!OneRunning
<1> QED
  BY <1>1, <1>5, <1>6 DEF BotSafe, Bot!NoFalseConnected, Bot!LeftFlag

(* Whatever is put into the slot, or nothing; what was there is dropped. *)
LEMMA SlotSafe ==
    ASSUME Bot!ControllerAssumption, BotSafe, Bot!ClearSlot \/ \E h : Bot!PutRuntime(h) /\ InHand(h)
    PROVE  /\ BotSafe' /\ UNCHANGED <<handle, started>>
           /\ \A g \in Bot!Gens : clients'[g] = clients[g] \/ (g = slot /\ clients'[g] = [clients[g] EXCEPT !["QQ"] = "dropped"])
           /\ Bot!ClearSlot \/ Bot!PutRuntime(slot')
<1>1. /\ clients' = Bot!Dropping(slot) /\ UNCHANGED <<config, handle, started, stopped, shown>>
      /\ slot' = 0 \/ (InHand(slot') /\ Bot!PutRuntime(slot'))
      /\ Bot!ClearSlot \/ Bot!PutRuntime(slot')
  BY DEF Bot!ClearSlot, Bot!PutRuntime
<1>2. /\ clients \in [Bot!Gens -> [Bot!Plats -> States]] /\ slot \in 0..Len(started) /\ 1..Len(started) \subseteq Bot!Gens
      /\ Len(started) \in Nat /\ "QQ" \in Bot!Plats
  BY Typed DEF BotSafe, Bot!BotTypeInv, Bot!Plats
<1>3. /\ clients' \in [Bot!Gens -> [Bot!Plats -> States]]
      /\ \A g \in Bot!Gens : clients'[g] = clients[g] \/ (g = slot /\ clients'[g] = [clients[g] EXCEPT !["QQ"] = "dropped"])
  BY <1>1, <1>2 DEF Bot!Dropping, States
<1>4. \A g \in Bot!Gens : \A p \in Bot!Plats :
          clients[g][p] \in {"up", "panicked"} => clients'[g][p] = clients[g][p]
  <2>1. slot # 0 => clients[slot]["QQ"] = "begun"
    BY DEF BotSafe, Bot!BotTypeInv
  <2> QED
    BY <1>2, <1>3, <2>1 DEF Bot!Gens
<1>5. \A g \in Bot!Gens : g > Len(started) => clients'[g] = Bot!NoClients
  BY <1>2, <1>3 DEF BotSafe, Bot!BotTypeInv
<1>6. slot' \in 0..Len(started) /\ (slot' # 0 => clients'[slot']["QQ"] = "begun")
  BY <1>1, <1>2, <1>3 DEF InHand
<1>7. Bot!BotTypeInv'
  BY <1>1, <1>3, <1>5, <1>6 DEF BotSafe, Bot!BotTypeInv, States
<1>8. Bot!OneRunning'
  BY <1>1 DEF BotSafe, Bot!OneRunning
<1>9. Bot!NoFalseConnected'
  BY <1>1, <1>4 DEF BotSafe, Bot!BotTypeInv, Bot!NoFalseConnected, Bot!LeftFlag
<1> QED
  BY <1>1, <1>3, <1>7, <1>8, <1>9 DEF BotSafe

(* NapCat connects: the runtime leaves the slot. *)
LEMMA TakeSafe ==
    ASSUME Bot!ControllerAssumption, BotSafe, Bot!TakeRuntime
    PROVE  /\ BotSafe' /\ UNCHANGED <<handle, started>> /\ slot' = 0 /\ slot # 0
           /\ \A g \in Bot!Gens : clients'[g] = clients[g] \/ (g = slot /\ clients'[g]["QQ"] = "open")
<1>1. /\ slot # 0 /\ clients' = [clients EXCEPT ![slot]["QQ"] = "open"] /\ slot' = 0
      /\ UNCHANGED <<config, handle, started, stopped, shown>>
  BY DEF Bot!TakeRuntime
<1>2. /\ clients \in [Bot!Gens -> [Bot!Plats -> States]] /\ slot \in Bot!Gens /\ slot \in 1..Len(started)
      /\ Len(started) \in Nat /\ "QQ" \in Bot!Plats
  BY <1>1, Typed DEF BotSafe, Bot!BotTypeInv, Bot!Plats
<1>3. /\ clients' \in [Bot!Gens -> [Bot!Plats -> States]] /\ clients'[slot]["QQ"] = "open"
      /\ \A g \in Bot!Gens \ {slot} : clients'[g] = clients[g]
      /\ \A p \in Bot!Plats \ {"QQ"} : clients'[slot][p] = clients[slot][p]
  BY <1>1, <1>2 DEF States
<1>4. \A g \in Bot!Gens : \A p \in Bot!Plats :
          clients[g][p] \in {"up", "panicked"} => clients'[g][p] = clients[g][p]
  <2>1. clients[slot]["QQ"] = "begun"
    BY <1>1 DEF BotSafe, Bot!BotTypeInv
  <2> QED
    BY <1>3, <2>1
<1>5. \A g \in Bot!Gens : g > Len(started) => clients'[g] = Bot!NoClients
  BY <1>2, <1>3 DEF BotSafe, Bot!BotTypeInv
<1>6. Bot!BotTypeInv'
  BY <1>1, <1>2, <1>3, <1>5 DEF BotSafe, Bot!BotTypeInv, States
<1>7. Bot!OneRunning'
  BY <1>1 DEF BotSafe, Bot!OneRunning
<1>8. Bot!NoFalseConnected'
  BY <1>1, <1>4 DEF BotSafe, Bot!BotTypeInv, Bot!NoFalseConnected, Bot!LeftFlag
<1> QED
  BY <1>1, <1>3, <1>6, <1>7, <1>8 DEF BotSafe

(* How a client moves: the runtime that waits does not, and the flag goes  *)
(* up with the client and down with it.                                    *)
LEMMA Way ==
    ASSUME NEW g \in Bot!Gens, NEW p \in Bot!Plats, Bot!ClientStep(g, p)
    PROVE  \E to \in {"up", "open", "down", "ended", "panicked"} :
              /\ Bot!Moves(g, p, to)
              /\ clients[g][p] \in {"begun", "open", "up", "down"}
              /\ p = "QQ" => clients[g][p] \in {"open", "up"}
              /\ \/ to = "up" /\ shown' = shown \cup {p}
                 \/ p = "QQ" /\ to = "panicked" /\ shown' = shown
                 \/ clients[g][p] # "up" /\ shown' = shown
                 \/ shown' = shown \ {p}
<1>1. CASE Bot!Identifies(g, p)
  BY <1>1 DEF Bot!Identifies
<1>2. CASE Bot!GivesUp(g, p)
  BY <1>2 DEF Bot!GivesUp
<1>3. CASE p = "Discord" /\ (Bot!Fetches(g) \/ Bot!Dials(g) \/ Bot!DialFails(g))
  BY <1>3 DEF Bot!Fetches, Bot!Dials, Bot!DialFails
<1>4. CASE Bot!LosesConnection(g, p)
  BY <1>4 DEF Bot!LosesConnection
<1>5. CASE Bot!Leaves(g, p)
  BY <1>5 DEF Bot!Leaves
<1>6. CASE p = "QQ" /\ Bot!Panics(g)
  BY <1>6 DEF Bot!Panics
<1> QED
  BY <1>1, <1>2, <1>3, <1>4, <1>5, <1>6 DEF Bot!ClientStep

LEMMA ClientsSafe ==
    ASSUME Bot!ControllerAssumption, BotSafe, NEW g \in Bot!Gens, NEW p \in Bot!Plats, Bot!ClientStep(g, p)
    PROVE  /\ BotSafe' /\ UNCHANGED <<handle, started, slot>>
           /\ \A h \in Bot!Gens : \/ clients'[h]["QQ"] = clients[h]["QQ"]
                                  \/ clients[h]["QQ"] \in {"open", "up"} /\ clients'[h]["QQ"] # "dropped"
<1>1. PICK to \in {"up", "open", "down", "ended", "panicked"} :
              /\ Bot!Moves(g, p, to)
              /\ clients[g][p] \in {"begun", "open", "up", "down"}
              /\ p = "QQ" => clients[g][p] \in {"open", "up"}
              /\ \/ to = "up" /\ shown' = shown \cup {p}
                 \/ p = "QQ" /\ to = "panicked" /\ shown' = shown
                 \/ clients[g][p] # "up" /\ shown' = shown
                 \/ shown' = shown \ {p}
  BY Way
<1>2. /\ clients' = [clients EXCEPT ![g][p] = to]
      /\ UNCHANGED <<config, handle, started, stopped, slot>>
  BY <1>1 DEF Bot!Moves
<1>3. /\ clients \in [Bot!Gens -> [Bot!Plats -> States]]
      /\ 1..Len(started) \subseteq Bot!Gens /\ "QQ" \in Bot!Plats
  BY Typed DEF BotSafe, Bot!Plats
<1>4. /\ clients' \in [Bot!Gens -> [Bot!Plats -> States]] /\ clients'[g][p] = to
      /\ \A h \in Bot!Gens \ {g} : clients'[h] = clients[h]
      /\ \A q \in Bot!Plats \ {p} : clients'[g][q] = clients[g][q]
  BY <1>2, <1>3 DEF States
<1>5. \A h \in Bot!Gens : \/ clients'[h]["QQ"] = clients[h]["QQ"]
                          \/ clients[h]["QQ"] \in {"open", "up"} /\ clients'[h]["QQ"] # "dropped"
  BY <1>1, <1>3, <1>4
<1>6. slot # 0 => clients'[slot]["QQ"] = "begun"
  BY <1>3, <1>5, Typed DEF BotSafe, Bot!BotTypeInv
<1>7. \A h \in Bot!Gens : h > Len(started) => clients'[h] = Bot!NoClients
  <2>1. clients[g] # Bot!NoClients
    BY <1>1 DEF Bot!NoClients
  <2> QED
    BY <1>4, <2>1 DEF BotSafe, Bot!BotTypeInv
<1>8. shown' \subseteq Bot!Plats
  BY <1>1 DEF BotSafe, Bot!BotTypeInv
<1>9. Bot!BotTypeInv'
  BY <1>2, <1>4, <1>6, <1>7, <1>8 DEF BotSafe, Bot!BotTypeInv, States
<1>10. Bot!OneRunning'
  BY <1>2 DEF BotSafe, Bot!OneRunning
<1>11. Bot!NoFalseConnected'
  <2> SUFFICES ASSUME NEW q \in shown'
               PROVE  \E h \in Bot!Gens : clients'[h][q] = "up" \/ (q = "QQ" /\ clients'[h][q] = "panicked")
    BY DEF Bot!NoFalseConnected, Bot!LeftFlag
  <2>0. q \in shown =>
          \E h \in Bot!Gens : clients[h][q] = "up" \/ (q = "QQ" /\ clients[h][q] = "panicked")
    BY DEF BotSafe, Bot!NoFalseConnected, Bot!LeftFlag
  <2>1. CASE q = p
    BY <1>1, <1>4, <2>0, <2>1
  <2>2. CASE q # p
    BY <1>1, <1>4, <1>8, <2>0, <2>2
  <2> QED
    BY <2>1, <2>2
<1> QED
  BY <1>2, <1>5, <1>9, <1>10, <1>11 DEF BotSafe

(* A runtime in hand stays there, whatever else is done - put into the     *)
(* slot, that is another one.                                              *)
Quiet == Bot!StartFails \/ Bot!AlreadyRunning \/ UNCHANGED Bot!botVars \/ \E c \in Configs : Bot!UpdateConfig(c)

LEMMA HandsKept ==
    ASSUME Bot!ControllerAssumption, BotSafe, NEW g, InHand(g),
               \/ Quiet \/ Bot!StopBot \/ Bot!ClearSlot \/ Bot!TakeRuntime
               \/ \E c \in Configs : Bot!StartBot(c)
               \/ \E h : Bot!PutRuntime(h) /\ InHand(h) /\ h # g
               \/ \E h \in Bot!Gens : \E p \in Bot!Plats : Bot!ClientStep(h, p)
    PROVE  StillInHand(g)
<1>1. /\ g \in Bot!Gens /\ g \in 1..Len(started) /\ clients[g]["QQ"] = "begun" /\ slot # g /\ g # 0
      /\ Len(started) \in Nat
  BY Typed DEF InHand, BotSafe
<1>2. CASE Quiet \/ Bot!StopBot
  BY <1>1, <1>2, RestSafe, StopSafe DEF Quiet, StillInHand
<1>3. CASE \E c \in Configs : Bot!StartBot(c)
  <2>1. Bot!NewGen = Len(started) + 1
    BY DEF Bot!NewGen
  <2>2. Len(started') = Bot!NewGen /\ slot' = slot /\ clients'[g] = clients[g]
    BY <1>1, <1>3, StartSafe
  <2> QED
    BY <1>1, <2>1, <2>2 DEF StillInHand
<1>4. CASE Bot!ClearSlot \/ \E h : Bot!PutRuntime(h) /\ InHand(h) /\ h # g
  <2>1. /\ UNCHANGED started
        /\ clients'[g] = clients[g] \/ g = slot
    BY <1>1, <1>4, SlotSafe
  <2>2. slot' # g
    BY <1>1, <1>4 DEF Bot!ClearSlot, Bot!PutRuntime
  <2> QED
    BY <1>1, <2>1, <2>2 DEF StillInHand
<1>5. CASE Bot!TakeRuntime
  BY <1>1, <1>5, TakeSafe DEF StillInHand
<1>6. CASE \E h \in Bot!Gens : \E p \in Bot!Plats : Bot!ClientStep(h, p)
  <2>1. UNCHANGED <<started, slot>> /\ clients'[g]["QQ"] = clients[g]["QQ"]
    BY <1>1, <1>6, ClientsSafe
  <2> QED
    BY <1>1, <2>1 DEF StillInHand
<1> QED
  BY <1>2, <1>3, <1>4, <1>5, <1>6

LEMMA InitSafe ==
    ASSUME Bot!ControllerAssumption, NEW c \in Configs, Bot!BotInit(c)
    PROVE  BotSafe
<1>1. Len(<<>>) = 0 /\ \A S : <<>> \in Seq(S)
  BY EmptySeq
<1>2. /\ config = c /\ handle = 0 /\ started = <<>> /\ stopped = {} /\ shown = {} /\ slot = 0
      /\ clients = [g \in Bot!Gens |-> Bot!NoClients]
  BY DEF Bot!BotInit
<1>3. clients \in [Bot!Gens -> [Bot!Plats -> States]] /\ \A g \in Bot!Gens : clients[g] = Bot!NoClients
  BY <1>2 DEF Bot!NoClients, States
<1> QED
  BY <1>1, <1>2, <1>3
     DEF Bot!ControllerAssumption, BotSafe, Bot!BotTypeInv, Bot!OneRunning,
         Bot!NoFalseConnected, Bot!LeftFlag, States

----------------------------------------------------------------------------
(***************************************************************************)
(* The WebUI.  OneRunning and NoFalseConnected rest on the slot: it holds  *)
(* a runtime nobody else has, because each start returns one of its own    *)
(* and the request that got it puts it there once.                         *)
(***************************************************************************)
WebRequest ==
    {Web!NoReq} \cup [at : {"start", "update"}, cfg : Configs]
                \cup [at : {"put"}, gen : Bot!Gens] \cup [at : {"clear"}]

WebTasks ==
    /\ req \in [Slots -> WebRequest]
    /\ \A r \in Slots : req[r].at = "put" => InHand(req[r].gen)
    /\ \A r, s \in Slots : /\ req[r].at = "put" /\ req[s].at = "put"
                           /\ req[r].gen = req[s].gen
                           => r = s

LEMMA WebOperations ==
    /\ Web!Gens = Bot!Gens /\ Web!Plats = Bot!Plats
    /\ Web!NewGen = Bot!NewGen /\ Web!botVars = Bot!botVars
    /\ \A c : (Web!StartBot(c) <=> Bot!StartBot(c)) /\ (Web!UpdateConfig(c) <=> Bot!UpdateConfig(c))
    /\ (Web!StartFails <=> Bot!StartFails) /\ (Web!AlreadyRunning <=> Bot!AlreadyRunning)
    /\ (Web!StopBot <=> Bot!StopBot) /\ (Web!ClearSlot <=> Bot!ClearSlot)
    /\ (Web!TakeRuntime <=> Bot!TakeRuntime)
    /\ \A g : Web!PutRuntime(g) <=> Bot!PutRuntime(g)
    /\ \A g, p : Web!ClientStep(g, p) <=> Bot!ClientStep(g, p)
<1>1. /\ Web!Gens = Bot!Gens /\ Web!Plats = Bot!Plats /\ Web!NewGen = Bot!NewGen
      /\ Web!botVars = Bot!botVars /\ Web!NotRunning = Bot!NotRunning
  BY DEF Web!Gens, Bot!Gens, Web!Plats, Bot!Plats, Web!NewGen, Bot!NewGen, Web!botVars,
         Bot!botVars, Web!NotRunning, Bot!NotRunning
<1>2. \A c : Web!Spawned(c) = Bot!Spawned(c)
  BY <1>1 DEF Web!Spawned, Bot!Spawned
<1>3. \A c : (Web!StartBot(c) <=> Bot!StartBot(c)) /\ (Web!UpdateConfig(c) <=> Bot!UpdateConfig(c))
  BY <1>1, <1>2 DEF Web!StartBot, Bot!StartBot, Web!UpdateConfig, Bot!UpdateConfig
<1>4. /\ (Web!StartFails <=> Bot!StartFails) /\ (Web!AlreadyRunning <=> Bot!AlreadyRunning)
      /\ (Web!StopBot <=> Bot!StopBot)
  BY <1>1
     DEF Web!StartFails, Bot!StartFails, Web!AlreadyRunning, Bot!AlreadyRunning,
         Web!StopBot, Bot!StopBot, Bot!botVars, Web!botVars
<1>5. /\ (Web!ClearSlot <=> Bot!ClearSlot) /\ \A g : Web!PutRuntime(g) <=> Bot!PutRuntime(g)
  BY DEF Web!ClearSlot, Bot!ClearSlot, Web!PutRuntime, Bot!PutRuntime, Web!Dropping, Bot!Dropping
<1>6. Web!TakeRuntime <=> Bot!TakeRuntime
  BY <1>1 DEF Web!TakeRuntime, Bot!TakeRuntime, Web!NapCatFree, Bot!NapCatFree
<1>7. \A g, p : Web!ClientStep(g, p) <=> Bot!ClientStep(g, p)
  BY DEF Web!ClientStep, Bot!ClientStep, Web!Identifies, Bot!Identifies, Web!GivesUp,
         Bot!GivesUp, Web!Fetches, Bot!Fetches, Web!Dials, Bot!Dials, Web!DialFails,
         Bot!DialFails, Web!LosesConnection, Bot!LosesConnection, Web!Leaves, Bot!Leaves,
         Web!Panics, Bot!Panics, Web!Moves, Bot!Moves
<1> QED
  BY <1>1, <1>3, <1>4, <1>5, <1>6, <1>7

LEMMA WebMoves ==
    ASSUME WebTasks, NEW r \in Slots, NEW then \in WebRequest, req' = [req EXCEPT ![r] = then],
           then.at = "put" => /\ StillInHand(then.gen)
                              /\ \A s \in Slots : req[s].at = "put" => req[s].gen # then.gen,
           \A s \in Slots : s # r /\ req[s].at = "put" => StillInHand(req[s].gen)
    PROVE  WebTasks'
<1>1. /\ req' \in [Slots -> WebRequest] /\ req'[r] = then
      /\ \A s \in Slots \ {r} : req'[s] = req[s]
  BY DEF WebTasks
<1>2. \A s \in Slots : req'[s].at = "put" => StillInHand(req'[s].gen)
  BY <1>1
<1>3. \A s, t \in Slots : req'[s].at = "put" /\ req'[t].at = "put" /\ req'[s].gen = req'[t].gen => s = t
  BY <1>1 DEF WebTasks
<1> QED
  BY <1>1, <1>2, <1>3 DEF WebTasks, InHand, StillInHand

LEMMA WebRequests ==
    /\ Web!NoReq \in WebRequest /\ Web!NoReq.at = "none"
    /\ \A c \in Configs : \A at \in {"start", "update"} : [at |-> at, cfg |-> c] \in WebRequest
    /\ \A g \in Bot!Gens : [at |-> "put", gen |-> g] \in WebRequest
    /\ [at |-> "clear"] \in WebRequest
    /\ \A q \in WebRequest : /\ q.at \in {"start", "update"} => q.cfg \in Configs
                             /\ q.at = "put" => q.gen \in Bot!Gens
BY DEF WebRequest, Web!NoReq

LEMMA WebRequestStep ==
    ASSUME Bot!ControllerAssumption, BotSafe, WebTasks, NEW r \in Slots,
               \/ Web!ReadConfig(r) \/ Web!Stop(r) \/ Web!RequestStep(r)
               \/ \E c \in Configs : Web!WriteFile(r, c)
    PROVE  BotSafe' /\ WebTasks'
<1> DEFINE Kept == \A s \in Slots : s # r /\ req[s].at = "put" => StillInHand(req[s].gen)
<1>1. /\ \A s \in Slots : req[s] \in WebRequest /\ (req[s].at = "put" => InHand(req[s].gen))
      /\ config \in Configs
  BY DEF WebTasks, BotSafe, Bot!BotTypeInv
<1>2. CASE Web!ReadConfig(r)
  <2>1. req' = [req EXCEPT ![r] = [at |-> "start", cfg |-> config]] /\ UNCHANGED Bot!botVars
    BY <1>2 DEF Web!ReadConfig, Web!At, Web!botVars, Bot!botVars
  <2>2. BotSafe' /\ Kept
    BY <1>1, <2>1, RestSafe, HandsKept DEF Quiet
  <2> QED
    BY <1>1, <2>1, <2>2, WebMoves, WebRequests
<1>3. CASE Web!Stop(r)
  <2>1. req' = [req EXCEPT ![r] = [at |-> "clear"]] /\ Bot!StopBot
    BY <1>3, WebOperations DEF Web!Stop, Web!At
  <2>2. BotSafe' /\ Kept
    BY <1>1, <2>1, StopSafe, HandsKept
  <2> QED
    BY <2>1, <2>2, WebMoves, WebRequests
<1>4. ASSUME NEW c \in Configs, Web!WriteFile(r, c) PROVE BotSafe' /\ WebTasks'
  <2>1. req' = [req EXCEPT ![r] = [at |-> "update", cfg |-> c]] /\ UNCHANGED Bot!botVars
    BY <1>4 DEF Web!WriteFile, Web!At, Web!botVars, Bot!botVars
  <2>2. BotSafe' /\ Kept
    BY <1>1, <2>1, RestSafe, HandsKept DEF Quiet
  <2> QED
    BY <2>1, <2>2, WebMoves, WebRequests
<1>5. CASE Web!Start(r)
  <2> DEFINE c == req[r].cfg
  <2>1. /\ req[r].at = "start" /\ Bot!StartBot(c)
        /\ req' = [req EXCEPT ![r] = IF "QQ" \in c.plats THEN [at |-> "put", gen |-> Bot!NewGen] ELSE Web!NoReq]
    BY <1>5, WebOperations DEF Web!Start, Web!At
  <2>2. c \in Configs
    BY <1>1, <2>1, WebRequests
  <2>3. BotSafe' /\ Kept
    BY <1>1, <2>1, <2>2, StartSafe, HandsKept
  <2>4. CASE "QQ" \in c.plats
    <3>1. Bot!NewGen \in Bot!Gens
      BY <2>1 DEF Bot!StartBot
    <3>2. /\ clients'[Bot!NewGen]["QQ"] = "begun" /\ Len(started') = Bot!NewGen /\ Bot!NewGen \notin 1..Len(started)
          /\ slot' = slot
      BY <2>1, <2>2, <2>4, StartSafe
    <3>3. slot # Bot!NewGen
      <4>1. Bot!NewGen = Len(started) + 1 /\ slot \in 0..Len(started) /\ Len(started) \in Nat
        BY Typed DEF Bot!NewGen, BotSafe, Bot!BotTypeInv
      <4> QED
        BY <4>1
    <3>4. StillInHand(Bot!NewGen)
      BY <3>1, <3>2, <3>3 DEF StillInHand, Bot!Gens
    <3>5. \A s \in Slots : req[s].at = "put" => req[s].gen # Bot!NewGen
      BY <1>1, <3>2 DEF InHand
    <3> DEFINE then == [at |-> "put", gen |-> Bot!NewGen]
    <3>6. then \in WebRequest /\ then.gen = Bot!NewGen /\ req' = [req EXCEPT ![r] = then]
      BY <2>1, <2>4, <3>1, WebRequests
    <3> HIDE DEF then
    <3>7. WebTasks'
      BY <2>3, <3>4, <3>5, <3>6, WebMoves
    <3> QED
      BY <2>3, <3>7
  <2>5. CASE "QQ" \notin c.plats
    <3>1. req' = [req EXCEPT ![r] = Web!NoReq]
      BY <2>1, <2>5
    <3> QED
      BY <2>3, <3>1, WebMoves, WebRequests
  <2> QED
    BY <2>4, <2>5
<1>6. CASE Web!StartRefused(r)
  <2>1. req' = [req EXCEPT ![r] = Web!NoReq] /\ (Bot!AlreadyRunning \/ Bot!StartFails)
    BY <1>6, WebOperations DEF Web!StartRefused, Web!At
  <2>2. BotSafe' /\ Kept
    BY <1>1, <2>1, RestSafe, HandsKept DEF Quiet
  <2> QED
    BY <2>1, <2>2, WebMoves, WebRequests
<1>7. CASE Web!Put(r)
  <2>1. /\ req[r].at = "put" /\ Bot!PutRuntime(req[r].gen) /\ InHand(req[r].gen)
        /\ req' = [req EXCEPT ![r] = Web!NoReq]
    BY <1>1, <1>7, WebOperations DEF Web!Put, Web!At
  <2>2. \A s \in Slots : s # r /\ req[s].at = "put" => req[s].gen # req[r].gen
    BY <2>1 DEF WebTasks
  <2>3. BotSafe' /\ Kept
    BY <1>1, <2>1, <2>2, SlotSafe, HandsKept
  <2> QED
    BY <2>1, <2>3, WebMoves, WebRequests
<1>8. CASE Web!Clear(r)
  <2>1. req' = [req EXCEPT ![r] = Web!NoReq] /\ Bot!ClearSlot
    BY <1>8, WebOperations DEF Web!Clear, Web!At
  <2>2. BotSafe' /\ Kept
    BY <1>1, <2>1, SlotSafe, HandsKept
  <2> QED
    BY <2>1, <2>2, WebMoves, WebRequests
<1>9. CASE Web!Update(r)
  <2>1. /\ req[r].at = "update" /\ req' = [req EXCEPT ![r] = Web!NoReq]
        /\ Bot!UpdateConfig(req[r].cfg)
    BY <1>9, WebOperations DEF Web!Update, Web!At
  <2>2. req[r].cfg \in Configs
    BY <1>1, <2>1, WebRequests
  <2>3. BotSafe' /\ Kept
    BY <1>1, <2>1, <2>2, RestSafe, HandsKept DEF Quiet
  <2> QED
    BY <2>1, <2>3, WebMoves, WebRequests
<1> QED
  BY <1>2, <1>3, <1>4, <1>5, <1>6, <1>7, <1>8, <1>9 DEF Web!RequestStep

LEMMA WebStep ==
    Bot!ControllerAssumption /\ BotSafe /\ WebTasks /\ [Web!Next]_(Web!vars) => BotSafe' /\ WebTasks'
<1> SUFFICES ASSUME Bot!ControllerAssumption, BotSafe, WebTasks, [Web!Next]_(Web!vars) PROVE BotSafe' /\ WebTasks'
  OBVIOUS
<1>1. ASSUME UNCHANGED req,
             Quiet \/ Bot!TakeRuntime \/ \E g \in Bot!Gens : \E p \in Bot!Plats : Bot!ClientStep(g, p)
      PROVE  BotSafe' /\ WebTasks'
  <2>1. BotSafe'
    BY <1>1, RestSafe, TakeSafe, ClientsSafe DEF Quiet
  <2>2. \A s \in Slots : req[s].at = "put" => StillInHand(req[s].gen)
    BY <1>1, HandsKept DEF WebTasks
  <2> QED
    BY <1>1, <2>1, <2>2 DEF WebTasks, InHand, StillInHand
<1>2. CASE UNCHANGED Web!vars
  BY <1>1, <1>2 DEF Web!vars, Web!botVars, Bot!botVars, Quiet
<1>3. CASE Web!NapCatConnects \/ Web!Clients
  BY <1>1, <1>3, WebOperations DEF Web!NapCatConnects, Web!Clients
<1> QED
  BY <1>2, <1>3, WebRequestStep DEF Web!Next

LEMMA WebInvariant == ASSUME Bot!ControllerAssumption PROVE Web!Spec => [](BotSafe /\ WebTasks)
<1>1. Web!Init => BotSafe /\ WebTasks
  <2> SUFFICES ASSUME Web!Init PROVE BotSafe /\ WebTasks
    OBVIOUS
  <2>1. PICK c \in Configs : Bot!BotInit(c)
    BY DEF Web!Init, Web!BotInit, Bot!BotInit, Web!NoClients, Bot!NoClients, Web!Gens,
           Bot!Gens, Web!Plats, Bot!Plats
  <2>2. BotSafe
    BY <2>1, InitSafe
  <2>3. WebTasks
    BY WebRequests DEF Web!Init, WebTasks
  <2> QED
    BY <2>2, <2>3
<1> QED
  BY <1>1, WebStep, PTL DEF Web!Spec

----------------------------------------------------------------------------
(***************************************************************************)
(* The running bot's runtime.  It is dropped only when the slot it is in   *)
(* is overwritten or cleared.                                              *)
(***************************************************************************)
LEMMA RuntimeStep ==
    ASSUME Bot!ControllerAssumption, BotSafe, Bot!RuntimeKept,
               \/ Quiet \/ Bot!StopBot \/ Bot!TakeRuntime
               \/ \E c \in Configs : Bot!StartBot(c)
               \/ (handle = 0 \/ slot # handle) /\ (Bot!ClearSlot \/ \E h : Bot!PutRuntime(h) /\ InHand(h))
               \/ \E h \in Bot!Gens : \E p \in Bot!Plats : Bot!ClientStep(h, p)
    PROVE  Bot!RuntimeKept'
<1>1. handle # 0 => handle \in Bot!Gens
  BY Typed DEF BotSafe, Bot!BotTypeInv
<1>2. CASE Quiet \/ Bot!StopBot
  BY <1>2, RestSafe, StopSafe DEF Quiet, Bot!RuntimeKept
<1>3. CASE Bot!TakeRuntime
  BY <1>1, <1>3, TakeSafe DEF Bot!RuntimeKept
<1>4. ASSUME NEW c \in Configs, Bot!StartBot(c) PROVE Bot!RuntimeKept'
  BY <1>4, StartSafe DEF Bot!RuntimeKept
<1>5. CASE (handle = 0 \/ slot # handle) /\ (Bot!ClearSlot \/ \E h : Bot!PutRuntime(h) /\ InHand(h))
  BY <1>1, <1>5, SlotSafe DEF Bot!RuntimeKept
<1>6. CASE \E h \in Bot!Gens : \E p \in Bot!Plats : Bot!ClientStep(h, p)
  BY <1>1, <1>6, ClientsSafe DEF Bot!RuntimeKept
<1> QED
  BY <1>2, <1>3, <1>4, <1>5, <1>6

----------------------------------------------------------------------------
(***************************************************************************)
(* The GUI.  bot_action_pending keeps toggles apart, so the task that got  *)
(* a runtime from start puts it away before anything stops that bot, and   *)
(* the slot is cleared only once the bot is stopped.                       *)
(***************************************************************************)
Job == [at : {"config", "stop", "started", "stopped"}] \cup [at : {"start"}, cfg : Configs]
       \cup [at : {"put"}, gen : Bot!Gens]

Save == {Window!None} \cup [at : {"write", "update"}, cfg : Configs]

Boot == {Window!None} \cup [at : {"read", "status"}] \cup [at : {"update"}, cfg : Configs]
        \cup [at : {"shown"}, running : BOOLEAN]

JobOK(j) ==
    /\ j.at = "put" => InHand(j.gen) /\ j.gen = handle
    /\ j.at = "stopped" => handle = 0

Toggles ==
    /\ clicked <=> jobs # {}
    /\ jobs \subseteq Job /\ \A j \in jobs : JobOK(j)
    /\ \A j, k \in jobs : j = k

Saving ==
    /\ saving \in [Saves -> Save] /\ boot \in Boot /\ disk \in Configs
    /\ seen \in BOOLEAN /\ polled \subseteq BOOLEAN

LEMMA WindowOperations ==
    /\ Window!Gens = Bot!Gens /\ Window!Plats = Bot!Plats
    /\ Window!NewGen = Bot!NewGen /\ Window!botVars = Bot!botVars
    /\ \A c : (Window!StartBot(c) <=> Bot!StartBot(c)) /\ (Window!UpdateConfig(c) <=> Bot!UpdateConfig(c))
    /\ (Window!StartFails <=> Bot!StartFails) /\ (Window!AlreadyRunning <=> Bot!AlreadyRunning)
    /\ (Window!StopBot <=> Bot!StopBot) /\ (Window!ClearSlot <=> Bot!ClearSlot)
    /\ (Window!TakeRuntime <=> Bot!TakeRuntime)
    /\ \A g : Window!PutRuntime(g) <=> Bot!PutRuntime(g)
    /\ \A g, p : Window!ClientStep(g, p) <=> Bot!ClientStep(g, p)
<1>1. /\ Window!Gens = Bot!Gens /\ Window!Plats = Bot!Plats /\ Window!NewGen = Bot!NewGen
      /\ Window!botVars = Bot!botVars /\ Window!NotRunning = Bot!NotRunning
  BY DEF Window!Gens, Bot!Gens, Window!Plats, Bot!Plats, Window!NewGen, Bot!NewGen,
         Window!botVars, Bot!botVars, Window!NotRunning, Bot!NotRunning
<1>2. \A c : Window!Spawned(c) = Bot!Spawned(c)
  BY <1>1 DEF Window!Spawned, Bot!Spawned
<1>3. \A c : (Window!StartBot(c) <=> Bot!StartBot(c)) /\ (Window!UpdateConfig(c) <=> Bot!UpdateConfig(c))
  BY <1>1, <1>2 DEF Window!StartBot, Bot!StartBot, Window!UpdateConfig, Bot!UpdateConfig
<1>4. /\ (Window!StartFails <=> Bot!StartFails) /\ (Window!AlreadyRunning <=> Bot!AlreadyRunning)
      /\ (Window!StopBot <=> Bot!StopBot)
  BY <1>1
     DEF Window!StartFails, Bot!StartFails, Window!AlreadyRunning, Bot!AlreadyRunning,
         Window!StopBot, Bot!StopBot, Bot!botVars, Window!botVars
<1>5. /\ (Window!ClearSlot <=> Bot!ClearSlot) /\ \A g : Window!PutRuntime(g) <=> Bot!PutRuntime(g)
  BY DEF Window!ClearSlot, Bot!ClearSlot, Window!PutRuntime, Bot!PutRuntime,
         Window!Dropping, Bot!Dropping
<1>6. Window!TakeRuntime <=> Bot!TakeRuntime
  BY <1>1 DEF Window!TakeRuntime, Bot!TakeRuntime, Window!NapCatFree, Bot!NapCatFree
<1>7. \A g, p : Window!ClientStep(g, p) <=> Bot!ClientStep(g, p)
  BY DEF Window!ClientStep, Bot!ClientStep, Window!Identifies, Bot!Identifies,
         Window!GivesUp, Bot!GivesUp, Window!Fetches, Bot!Fetches, Window!Dials, Bot!Dials,
         Window!DialFails, Bot!DialFails, Window!LosesConnection, Bot!LosesConnection,
         Window!Leaves, Bot!Leaves, Window!Panics, Bot!Panics, Window!Moves, Bot!Moves
<1> QED
  BY <1>1, <1>3, <1>4, <1>5, <1>6, <1>7

LEMMA WindowRecords ==
    /\ Window!None \in Save /\ Window!None \in Boot
    /\ \A at \in {"config", "stop", "started", "stopped"} : [at |-> at] \in Job /\ [at |-> at].at = at
    /\ \A c \in Configs : [at |-> "start", cfg |-> c] \in Job /\ [at |-> "start", cfg |-> c].at = "start"
    /\ \A g \in Bot!Gens : [at |-> "put", gen |-> g] \in Job /\ [at |-> "put", gen |-> g].gen = g
    /\ \A j \in Job : (j.at = "start" => j.cfg \in Configs) /\ (j.at = "put" => j.gen \in Bot!Gens)
    /\ \A s \in Save : s.at \in {"write", "update"} => /\ s.cfg \in Configs
                                                       /\ [s EXCEPT !.at = "update"] \in Save
    /\ \A b \in Boot : (b.at = "update" => b.cfg \in Configs) /\ (b.at = "shown" => b.running \in BOOLEAN)
BY DEF Job, Save, Boot, Window!None

LEMMA OneJob ==
    ASSUME Toggles, NEW j \in jobs, NEW then \in Job, jobs' = (jobs \ {j}) \cup {then}, UNCHANGED clicked,
           then.at = "put" => StillInHand(then.gen) /\ then.gen = handle',
           then.at = "stopped" => handle' = 0
    PROVE  Toggles'
<1>1. jobs = {j} /\ clicked
  BY DEF Toggles
<1>2. jobs' = {then}
  BY <1>1
<1> QED
  BY <1>1, <1>2 DEF Toggles, JobOK, InHand, StillInHand

LEMMA JobsWait ==
    ASSUME Bot!ControllerAssumption, BotSafe, Toggles, UNCHANGED <<jobs, clicked>>,
               Quiet \/ Bot!TakeRuntime \/ \E h \in Bot!Gens : \E p \in Bot!Plats : Bot!ClientStep(h, p)
    PROVE  Toggles'
<1>1. handle' = handle
  BY RestSafe, TakeSafe, ClientsSafe DEF Quiet
<1>2. \A j \in jobs : j.at = "put" => StillInHand(j.gen)
  BY HandsKept DEF Toggles, JobOK
<1> QED
  BY <1>1, <1>2 DEF Toggles, JobOK, InHand, StillInHand

LEMMA JobsStep ==
    ASSUME Bot!ControllerAssumption, BotSafe, Bot!RuntimeKept, Toggles, NEW j \in jobs,
               \/ Window!ReadConfig(j) \/ Window!Start(j) \/ Window!StartRefused(j)
               \/ Window!Put(j) \/ Window!Stop(j)
               \/ Window!BotStarted(j) \/ Window!BotStopped(j)
    PROVE  BotSafe' /\ Bot!RuntimeKept' /\ Toggles'
<1>1. jobs = {j} /\ j \in Job /\ JobOK(j) /\ config \in Configs
  BY DEF Toggles, BotSafe, Bot!BotTypeInv
<1>2. CASE Window!ReadConfig(j)
  <2> DEFINE then == [at |-> "start", cfg |-> config]
  <2>1. jobs' = (jobs \ {j}) \cup {then} /\ UNCHANGED clicked /\ UNCHANGED Bot!botVars
    BY <1>2 DEF Window!ReadConfig, Window!Goes, Window!gui, Window!botVars, Bot!botVars
  <2>2. then \in Job /\ then.at = "start"
    BY <1>1, WindowRecords
  <2> HIDE DEF then
  <2>3. Toggles'
    BY <2>1, <2>2, OneJob
  <2> QED
    BY <2>1, <2>3, RestSafe, RuntimeStep DEF Quiet
<1>3. CASE Window!Start(j)
  <2> DEFINE c == j.cfg
             then == IF "QQ" \in c.plats THEN [at |-> "put", gen |-> Bot!NewGen] ELSE [at |-> "started"]
  <2>1. j.at = "start" /\ jobs' = (jobs \ {j}) \cup {then} /\ UNCHANGED clicked /\ Bot!StartBot(c)
    BY <1>3, WindowOperations DEF Window!Start, Window!Goes, Window!gui
  <2>2. c \in Configs
    BY <1>1, <2>1, WindowRecords
  <2>3. /\ Bot!NewGen \in Bot!Gens /\ handle' = Bot!NewGen /\ Len(started') = Bot!NewGen
        /\ slot' = slot
        /\ clients'[Bot!NewGen]["QQ"] = IF "QQ" \in c.plats THEN "begun" ELSE "none"
    BY <2>1, <2>2, StartSafe DEF Bot!StartBot
  <2>4. slot # Bot!NewGen
    <3>1. Bot!NewGen = Len(started) + 1 /\ slot \in 0..Len(started) /\ Len(started) \in Nat
      BY Typed DEF Bot!NewGen, BotSafe, Bot!BotTypeInv
    <3> QED
      BY <3>1
  <2>5. "QQ" \in c.plats => StillInHand(Bot!NewGen)
    BY <2>3, <2>4 DEF StillInHand, Bot!Gens
  <2>6. /\ then \in Job
        /\ then.at = "put" => "QQ" \in c.plats /\ then.gen = Bot!NewGen
        /\ then.at # "stopped"
    BY <2>3, WindowRecords
  <2> HIDE DEF then, c
  <2>7. Toggles'
    BY <2>1, <2>3, <2>5, <2>6, OneJob
  <2> QED
    BY <2>1, <2>2, <2>7, StartSafe, RuntimeStep
<1>4. CASE Window!StartRefused(j)
  <2> DEFINE then == [at |-> "started"]
  <2>1. jobs' = (jobs \ {j}) \cup {then} /\ UNCHANGED clicked /\ (Bot!AlreadyRunning \/ Bot!StartFails)
    BY <1>4, WindowOperations DEF Window!StartRefused, Window!Goes, Window!gui
  <2>2. then \in Job /\ then.at = "started"
    BY WindowRecords
  <2> HIDE DEF then
  <2>3. Toggles'
    BY <2>1, <2>2, OneJob
  <2> QED
    BY <2>1, <2>3, RestSafe, RuntimeStep DEF Quiet
<1>5. CASE Window!Put(j)
  <2> DEFINE then == [at |-> "started"]
  <2>1. /\ j.at = "put" /\ jobs' = (jobs \ {j}) \cup {then} /\ UNCHANGED clicked
        /\ Bot!PutRuntime(j.gen)
    BY <1>5, WindowOperations DEF Window!Put, Window!Goes, Window!gui
  <2>2. then \in Job /\ then.at = "started"
    BY WindowRecords
  <2> HIDE DEF then
  <2>3. Toggles'
    BY <2>1, <2>2, OneJob
  <2>4. InHand(j.gen) /\ j.gen = handle /\ slot # handle
    BY <1>1, <2>1 DEF JobOK, InHand
  <2> QED
    BY <2>1, <2>3, <2>4, SlotSafe, RuntimeStep
<1>6. CASE Window!Stop(j)
  <2> DEFINE then == [at |-> "stopped"]
  <2>1. jobs' = (jobs \ {j}) \cup {then} /\ UNCHANGED clicked /\ Bot!StopBot
    BY <1>6, WindowOperations DEF Window!Stop, Window!Goes, Window!gui
  <2>2. then \in Job /\ then.at = "stopped"
    BY WindowRecords
  <2> HIDE DEF then
  <2>3. Toggles'
    BY <2>1, <2>2, StopSafe, OneJob
  <2> QED
    BY <2>1, <2>3, StopSafe, RuntimeStep
<1>7. CASE Window!BotStarted(j)
  <2>1. jobs' = jobs \ {j} /\ clicked' = FALSE /\ UNCHANGED Bot!botVars
    BY <1>7 DEF Window!BotStarted, Window!Ends, Window!botVars, Bot!botVars
  <2>2. Toggles'
    BY <1>1, <2>1 DEF Toggles
  <2> QED
    BY <2>1, <2>2, RestSafe, RuntimeStep DEF Quiet
<1>8. CASE Window!BotStopped(j)
  <2>1. j.at = "stopped" /\ jobs' = jobs \ {j} /\ clicked' = FALSE /\ Bot!ClearSlot
    BY <1>8, WindowOperations DEF Window!BotStopped, Window!Ends
  <2>2. Toggles'
    BY <1>1, <2>1 DEF Toggles
  <2>3. handle = 0
    BY <1>1, <2>1 DEF JobOK
  <2> QED
    BY <2>1, <2>2, <2>3, SlotSafe, RuntimeStep
<1> QED
  BY <1>2, <1>3, <1>4, <1>5, <1>6, <1>7, <1>8

(* The click, the status and the configuration. *)
LEMMA WindowStep ==
    /\ Bot!ControllerAssumption /\ WindowConfigs \subseteq Configs
    /\ BotSafe /\ Bot!RuntimeKept /\ Toggles /\ Saving /\ [Window!Next]_(Window!vars)
    => BotSafe' /\ Bot!RuntimeKept' /\ Toggles' /\ Saving'
<1> SUFFICES ASSUME Bot!ControllerAssumption, WindowConfigs \subseteq Configs,
                    BotSafe, Bot!RuntimeKept, Toggles, Saving, [Window!Next]_(Window!vars)
             PROVE  BotSafe' /\ Bot!RuntimeKept' /\ Toggles' /\ Saving'
  OBVIOUS
<1>1. ASSUME UNCHANGED <<jobs, clicked>>,
             Quiet \/ Bot!TakeRuntime \/ \E g \in Bot!Gens : \E p \in Bot!Plats : Bot!ClientStep(g, p)
      PROVE  BotSafe' /\ Bot!RuntimeKept' /\ Toggles'
  BY <1>1, RestSafe, TakeSafe, ClientsSafe, RuntimeStep, JobsWait DEF Quiet
<1>2. CASE Window!ToggleBot
  <2>1. /\ ~clicked /\ clicked' = TRUE
        /\ jobs' = jobs \cup {[at |-> IF seen THEN "stop" ELSE "config"]}
        /\ UNCHANGED Bot!botVars /\ UNCHANGED <<disk, seen, polled, saving, boot>>
    BY <1>2 DEF Window!ToggleBot, Window!MayToggle, Window!botVars, Bot!botVars
  <2>2. PICK at \in {"stop", "config"} : jobs' = {[at |-> at]}
    BY <2>1 DEF Toggles, Saving
  <2>3. [at |-> at] \in Job /\ [at |-> at].at \notin {"put", "stopped"}
    BY WindowRecords
  <2>4. Toggles'
    BY <2>1, <2>2, <2>3 DEF Toggles, JobOK
  <2> QED
    BY <2>1, <2>4, RestSafe, RuntimeStep DEF Quiet, Saving
<1>3. ASSUME NEW j \in jobs,
             \/ Window!ReadConfig(j) \/ Window!Start(j) \/ Window!StartRefused(j)
             \/ Window!Put(j) \/ Window!Stop(j)
             \/ Window!BotStarted(j) \/ Window!BotStopped(j)
      PROVE  BotSafe' /\ Bot!RuntimeKept' /\ Toggles' /\ Saving'
  <2>1. UNCHANGED <<disk, seen, polled, saving, boot>>
    BY <1>3 DEF Window!ReadConfig, Window!Start, Window!StartRefused, Window!Put, Window!Stop,
                Window!BotStarted, Window!BotStopped, Window!Goes, Window!Ends, Window!gui
  <2> QED
    BY <1>3, <2>1, JobsStep DEF Saving
<1>4. CASE Window!BootReads \/ Window!BootUpdates \/ Window!BootAsks \/ Window!InitComplete
  <2>1. UNCHANGED <<jobs, clicked, disk, saving, polled>>
    BY <1>4
       DEF Window!BootReads, Window!BootUpdates, Window!BootAsks, Window!InitComplete,
           Window!gui
  <2>2. UNCHANGED Bot!botVars \/ \E c \in Configs : Bot!UpdateConfig(c)
    BY <1>4, WindowOperations, WindowRecords
       DEF Window!BootReads, Window!BootUpdates, Window!BootAsks, Window!InitComplete,
           Window!botVars, Bot!botVars, Saving
  <2>3. boot' \in Boot /\ seen' \in BOOLEAN
    <3>1. CASE Window!BootReads
      BY <3>1 DEF Window!BootReads, Window!gui, Saving, Boot
    <3>2. CASE Window!BootUpdates
      BY <3>2 DEF Window!BootUpdates, Window!gui, Saving, Boot
    <3>3. CASE Window!BootAsks
      <4>1. Window!IsUp \in BOOLEAN
        BY DEF Window!IsUp
      <4> QED
        BY <3>3, <4>1 DEF Window!BootAsks, Window!gui, Saving, Boot
    <3>4. CASE Window!InitComplete
      BY <3>4, WindowRecords DEF Window!InitComplete, Saving
    <3> QED
      BY <1>4, <3>1, <3>2, <3>3, <3>4
  <2> QED
    BY <1>1, <2>1, <2>2, <2>3 DEF Quiet, Saving
<1>5. CASE Window!Poll \/ Window!StatusUpdated
  <2>1. UNCHANGED <<jobs, clicked, disk, saving, boot>> /\ UNCHANGED Bot!botVars
    BY <1>5 DEF Window!Poll, Window!StatusUpdated, Window!tasks, Window!botVars, Bot!botVars
  <2>2. polled' \subseteq BOOLEAN /\ seen' \in BOOLEAN
    BY <1>5 DEF Window!Poll, Window!StatusUpdated, Window!IsUp, Saving
  <2> QED
    BY <1>1, <2>1, <2>2 DEF Quiet, Saving
<1>6. ASSUME NEW s \in Saves,
             \/ \E c \in Configs : Window!SaveConfig(s, c)
             \/ Window!WriteFile(s) \/ Window!WriteFails(s) \/ Window!SaveUpdates(s)
      PROVE  BotSafe' /\ Bot!RuntimeKept' /\ Toggles' /\ Saving'
  <2>1. UNCHANGED <<jobs, clicked, boot, seen, polled>>
    BY <1>6
       DEF Window!SaveConfig, Window!WriteFile, Window!WriteFails, Window!SaveUpdates,
           Window!gui
  <2>2. saving \in [Saves -> Save] /\ saving[s] \in Save
    BY DEF Saving
  <2>3. UNCHANGED Bot!botVars \/ \E c \in Configs : Bot!UpdateConfig(c)
    BY <1>6, <2>2, WindowOperations, WindowRecords
       DEF Window!SaveConfig, Window!WriteFile, Window!WriteFails, Window!SaveUpdates,
           Window!botVars, Bot!botVars
  <2>4. disk' \in Configs
    BY <1>6, <2>2, WindowRecords
       DEF Window!SaveConfig, Window!WriteFile, Window!WriteFails, Window!SaveUpdates, Saving
  <2>5. saving' \in [Saves -> Save]
    <3>1. \E u \in Save : saving' = [saving EXCEPT ![s] = u]
      <4>1. CASE \E c \in Configs : Window!SaveConfig(s, c)
        BY <4>1 DEF Window!SaveConfig, Save
      <4>2. CASE Window!WriteFile(s)
        <5>1. /\ saving' = [saving EXCEPT ![s] = [saving[s] EXCEPT !.at = "update"]]
              /\ saving[s].at = "write"
          BY <2>2, <4>2 DEF Window!WriteFile
        <5> QED
          BY <2>2, <5>1, WindowRecords
      <4>3. CASE Window!WriteFails(s) \/ Window!SaveUpdates(s)
        BY <4>3, WindowRecords DEF Window!WriteFails, Window!SaveUpdates
      <4> QED
        BY <1>6, <4>1, <4>2, <4>3
    <3> QED
      BY <2>2, <3>1
  <2> QED
    BY <1>1, <2>1, <2>3, <2>4, <2>5 DEF Quiet, Saving
<1>7. CASE Window!NapCatConnects \/ \E g \in Bot!Gens : \E p \in Bot!Plats : Window!Client(g, p)
  <2>1. UNCHANGED <<jobs, clicked, disk, saving, boot, seen, polled>>
        /\ (Bot!TakeRuntime \/ \E g \in Bot!Gens : \E p \in Bot!Plats : Bot!ClientStep(g, p))
    BY <1>7, WindowOperations DEF Window!NapCatConnects, Window!Client, Window!gui, Window!tasks
  <2> QED
    BY <1>1, <2>1 DEF Saving
<1>8. CASE UNCHANGED Window!vars
  BY <1>1, <1>8
     DEF Window!vars, Window!gui, Window!tasks, Window!botVars, Bot!botVars, Quiet, Saving
<1> QED
  BY <1>2, <1>3, <1>4, <1>5, <1>6, <1>7, <1>8, WindowOperations
     DEF Window!Next, Window!JobStep, Window!BootStep

LEMMA WindowInvariant ==
    ASSUME Bot!ControllerAssumption, WindowConfigs \subseteq Configs
    PROVE  Window!Spec => [](BotSafe /\ Bot!RuntimeKept /\ Toggles /\ Saving)
<1>1. Window!Init => BotSafe /\ Bot!RuntimeKept /\ Toggles /\ Saving
  <2> SUFFICES ASSUME Window!Init PROVE BotSafe /\ Bot!RuntimeKept /\ Toggles /\ Saving
    OBVIOUS
  <2>1. PICK c \in Configs : Bot!BotInit(c) /\ disk = c
    BY DEF Window!Init, Window!BotInit, Bot!BotInit, Window!NoClients, Bot!NoClients,
           Window!Gens, Bot!Gens, Window!Plats, Bot!Plats
  <2>2. BotSafe /\ Bot!RuntimeKept
    BY <2>1, InitSafe DEF Bot!BotInit, Bot!RuntimeKept
  <2>3. Toggles
    BY DEF Window!Init, Toggles
  <2>4. Saving
    BY <2>1, WindowRecords DEF Window!Init, Saving, Boot
  <2> QED
    BY <2>2, <2>3, <2>4
<1> QED
  BY <1>1, WindowStep, PTL DEF Window!Spec

(* Whatever configuration the window's tasks carry, they have from its       *)
(* editor, from the file or from the controller, which have it from there.   *)
Drawn ==
    /\ config \in WindowConfigs /\ disk \in WindowConfigs /\ started \in Seq(WindowConfigs)
    /\ \A j \in jobs : j.at = "start" => j.cfg \in WindowConfigs
    /\ \A s \in Saves : saving[s].at \in {"write", "update"} => saving[s].cfg \in WindowConfigs
    /\ boot.at = "update" => boot.cfg \in WindowConfigs

LEMMA DrawnBegins == Window!Init => Drawn
<1> SUFFICES ASSUME Window!Init PROVE Drawn
  OBVIOUS
<1>1. config \in WindowConfigs /\ disk \in WindowConfigs /\ started = <<>>
  BY DEF Window!Init, Window!BotInit
<1>2. started \in Seq(WindowConfigs)
  BY <1>1, EmptySeq
<1>3. jobs = {} /\ boot.at = "read" /\ \A s \in Saves : saving[s].at = "none"
  BY DEF Window!Init, Window!None
<1> QED
  BY <1>1, <1>2, <1>3 DEF Drawn

LEMMA JobsDrawn ==
    ASSUME Drawn, NEW j \in jobs,
           \/ Window!ReadConfig(j) \/ Window!Start(j) \/ Window!StartRefused(j)
           \/ Window!Put(j) \/ Window!Stop(j)
           \/ Window!BotStarted(j) \/ Window!BotStopped(j)
    PROVE  Drawn'
<1>1. UNCHANGED <<disk, saving, boot>>
  BY DEF Window!ReadConfig, Window!Start, Window!StartRefused, Window!Put, Window!Stop,
         Window!BotStarted, Window!BotStopped, Window!Goes, Window!Ends
<1>2. CASE Window!ReadConfig(j)
  <2>1. UNCHANGED <<config, started>> /\ jobs' = (jobs \ {j}) \cup {[at |-> "start", cfg |-> config]}
    BY <1>2 DEF Window!ReadConfig, Window!Goes, Window!botVars
  <2> QED
    BY <1>1, <2>1 DEF Drawn
<1>3. CASE Window!Start(j)
  <2>1. PICK c : c = j.cfg
    OBVIOUS
  <2>2. PICK then : /\ then = IF "QQ" \in c.plats THEN [at |-> "put", gen |-> Window!NewGen] ELSE [at |-> "started"]
                    /\ jobs' = (jobs \ {j}) \cup {then} /\ j.at = "start"
    BY <1>3, <2>1 DEF Window!Start, Window!Goes
  <2>3. then.at # "start"
    BY <2>2
  <2>4. config' = config /\ started' = Append(started, c)
    BY <1>3, <2>1 DEF Window!Start, Window!StartBot
  <2>5. c \in WindowConfigs
    BY <2>1, <2>2 DEF Drawn
  <2>6. Append(started, c) \in Seq(WindowConfigs)
    BY <2>5, AppendProperties DEF Drawn
  <2> QED
    BY <1>1, <2>2, <2>3, <2>4, <2>6 DEF Drawn
<1>4. CASE \/ Window!StartRefused(j) \/ Window!Put(j) \/ Window!Stop(j)
           \/ Window!BotStarted(j) \/ Window!BotStopped(j)
  <2>1. UNCHANGED <<config, started>>
    BY <1>4
       DEF Window!StartRefused, Window!Put, Window!Stop, Window!BotStarted, Window!BotStopped,
           Window!AlreadyRunning, Window!StartFails, Window!PutRuntime, Window!StopBot,
           Window!ClearSlot, Window!botVars
  <2>2. \A k \in jobs' : k \in jobs \/ k.at # "start"
    BY <1>4
       DEF Window!StartRefused, Window!Put, Window!Stop, Window!BotStarted, Window!BotStopped,
           Window!Goes, Window!Ends
  <2> QED
    BY <1>1, <2>1, <2>2 DEF Drawn
<1> QED
  BY <1>2, <1>3, <1>4

LEMMA SavesDrawn ==
    ASSUME Drawn, Saving, NEW s \in Saves,
           \/ \E c \in WindowConfigs : Window!SaveConfig(s, c)
           \/ Window!WriteFile(s) \/ Window!WriteFails(s) \/ Window!SaveUpdates(s)
    PROVE  Drawn'
<1>1. UNCHANGED <<jobs, boot, started>> /\ saving \in [Saves -> Save]
  BY DEF Window!SaveConfig, Window!WriteFile, Window!WriteFails, Window!SaveUpdates,
         Window!UpdateConfig, Window!botVars, Saving
<1>2. PICK u \in Save : u = saving[s]
  BY <1>1
<1>3. u.at \in {"write", "update"} => u.cfg \in WindowConfigs
  BY <1>2 DEF Drawn
<1>4. ASSUME NEW v, saving' = [saving EXCEPT ![s] = v],
             v.at \in {"write", "update"} => v.cfg \in WindowConfigs,
             config' \in WindowConfigs, disk' \in WindowConfigs
      PROVE  Drawn'
  <2>1. saving'[s] = v /\ \A r \in Saves : r # s => saving'[r] = saving[r]
    BY <1>1, <1>4
  <2> QED
    BY <1>1, <1>4, <2>1 DEF Drawn
<1>5. CASE \E c \in WindowConfigs : Window!SaveConfig(s, c)
  <2>1. PICK c \in WindowConfigs : Window!SaveConfig(s, c)
    BY <1>5
  <2>2. PICK v : v = [at |-> "write", cfg |-> c]
    OBVIOUS
  <2>3. saving' = [saving EXCEPT ![s] = v] /\ UNCHANGED <<config, disk>> /\ v.cfg = c
    BY <2>1, <2>2 DEF Window!SaveConfig, Window!botVars
  <2> QED
    BY <1>4, <2>3 DEF Drawn
<1>6. CASE Window!WriteFile(s)
  <2>1. PICK v : v = [u EXCEPT !.at = "update"]
    OBVIOUS
  <2>2. saving' = [saving EXCEPT ![s] = v] /\ u.at = "write" /\ disk' = u.cfg /\ config' = config
    BY <1>1, <1>2, <1>6, <2>1 DEF Window!WriteFile, Window!botVars
  <2>3. v.cfg = u.cfg
    BY <2>1, <2>2 DEF Save, Window!None
  <2> QED
    BY <1>3, <1>4, <2>2, <2>3 DEF Drawn
<1>7. CASE Window!WriteFails(s)
  <2>1. saving' = [saving EXCEPT ![s] = Window!None] /\ UNCHANGED <<config, disk>>
    BY <1>7 DEF Window!WriteFails, Window!botVars
  <2>2. Window!None.at = "none"
    BY DEF Window!None
  <2> QED
    BY <1>4, <2>1, <2>2 DEF Drawn
<1>8. CASE Window!SaveUpdates(s)
  <2>1. saving' = [saving EXCEPT ![s] = Window!None] /\ u.at = "update" /\ config' = u.cfg /\ disk' = disk
    BY <1>2, <1>8 DEF Window!SaveUpdates, Window!UpdateConfig
  <2>2. Window!None.at = "none"
    BY DEF Window!None
  <2> QED
    BY <1>3, <1>4, <2>1, <2>2 DEF Drawn
<1> QED
  BY <1>5, <1>6, <1>7, <1>8

LEMMA DrawnStep ==
    ASSUME Drawn, Saving, [Window!Next]_(Window!vars)
    PROVE  Drawn'
<1>1. CASE Window!ToggleBot
  <2>1. UNCHANGED <<config, started, disk, saving, boot>>
        /\ jobs' = jobs \cup {[at |-> IF seen THEN "stop" ELSE "config"]}
    BY <1>1 DEF Window!ToggleBot, Window!botVars
  <2> QED
    BY <2>1 DEF Drawn
<1>2. ASSUME NEW j \in jobs,
             \/ Window!ReadConfig(j) \/ Window!Start(j) \/ Window!StartRefused(j)
             \/ Window!Put(j) \/ Window!Stop(j)
             \/ Window!BotStarted(j) \/ Window!BotStopped(j)
      PROVE  Drawn'
  BY <1>2, JobsDrawn
<1>3. CASE Window!BootStep
  <2>1. UNCHANGED <<started, disk, jobs, saving>>
    BY <1>3
       DEF Window!BootStep, Window!BootReads, Window!BootUpdates, Window!BootAsks,
           Window!InitComplete, Window!UpdateConfig, Window!botVars
  <2>2. config' \in WindowConfigs
    BY <1>3
       DEF Window!BootStep, Window!BootReads, Window!BootUpdates, Window!BootAsks,
           Window!InitComplete, Window!UpdateConfig, Window!botVars, Drawn
  <2>3. boot'.at = "update" => boot'.cfg \in WindowConfigs
    BY <1>3
       DEF Window!BootStep, Window!BootReads, Window!BootUpdates, Window!BootAsks,
           Window!InitComplete, Window!None, Drawn
  <2> QED
    BY <2>1, <2>2, <2>3 DEF Drawn
<1>4. CASE Window!Poll \/ Window!StatusUpdated \/ UNCHANGED Window!vars
  <2>1. UNCHANGED <<config, started, disk, jobs, saving, boot>>
    BY <1>4 DEF Window!Poll, Window!StatusUpdated, Window!vars, Window!tasks, Window!botVars
  <2> QED
    BY <2>1 DEF Drawn
<1>5. ASSUME NEW s \in Saves,
             \/ \E c \in WindowConfigs : Window!SaveConfig(s, c)
             \/ Window!WriteFile(s) \/ Window!WriteFails(s) \/ Window!SaveUpdates(s)
      PROVE  Drawn'
  BY <1>5, SavesDrawn
<1>6. CASE Window!NapCatConnects \/ \E g \in Window!Gens : \E p \in Window!Plats : Window!Client(g, p)
  <2>1. UNCHANGED <<disk, jobs, saving, boot>>
    BY <1>6 DEF Window!NapCatConnects, Window!Client, Window!tasks
  <2>2. UNCHANGED <<config, started>>
    BY <1>6
       DEF Window!NapCatConnects, Window!Client, Window!TakeRuntime, Window!ClientStep,
           Window!Identifies, Window!GivesUp, Window!Fetches, Window!Dials, Window!DialFails,
           Window!LosesConnection, Window!Leaves, Window!Panics, Window!Moves
  <2> QED
    BY <2>1, <2>2 DEF Drawn
<1> QED
  BY <1>1, <1>2, <1>3, <1>4, <1>5, <1>6 DEF Window!Next, Window!JobStep

LEMMA WindowShapes ==
    ASSUME Bot!ControllerAssumption, WindowConfigs \subseteq Configs
    PROVE  Window!Spec => []Window!GuiTypeInv
<1>1. BotSafe /\ Toggles /\ Saving /\ Drawn => Window!GuiTypeInv
  <2> SUFFICES ASSUME BotSafe, Toggles, Saving, Drawn PROVE Window!GuiTypeInv
    OBVIOUS
  <2>1. Window!Gens = Bot!Gens /\ Window!Plats = Bot!Plats /\ Window!NoClients = Bot!NoClients
    BY DEF Window!Gens, Bot!Gens, Window!Plats, Bot!Plats, Window!NoClients, Bot!NoClients
  <2>2. Window!BotTypeInv
    BY <2>1 DEF BotSafe, Bot!BotTypeInv, Window!BotTypeInv, Drawn
  <2> QED
    BY <2>2 DEF Window!GuiTypeInv, Toggles, Saving
<1>2. Saving /\ Drawn /\ [Window!Next]_(Window!vars) => Drawn'
  BY DrawnStep
<1> QED
  BY <1>1, <1>2, DrawnBegins, WindowInvariant, PTL DEF Window!Spec

----------------------------------------------------------------------------
(***************************************************************************)
(* The CLI starts the bot once and stops it once, so its slot is never     *)
(* overwritten.                                                            *)
(***************************************************************************)
ConsoleTasks ==
    /\ \A g \in Bot!Gens : clients[g]["QQ"] # "dropped"
    /\ cli = "starting" => slot = 0
    /\ cli = "putting" => slot = 0 /\ InHand(handle)

LEMMA ConsoleOperations ==
    /\ Console!Gens = Bot!Gens /\ Console!Plats = Bot!Plats
    /\ Console!NewGen = Bot!NewGen /\ Console!botVars = Bot!botVars
    /\ \A c : (Console!StartBot(c) <=> Bot!StartBot(c)) /\ (Console!UpdateConfig(c) <=> Bot!UpdateConfig(c))
    /\ (Console!StartFails <=> Bot!StartFails) /\ (Console!AlreadyRunning <=> Bot!AlreadyRunning)
    /\ (Console!StopBot <=> Bot!StopBot) /\ (Console!ClearSlot <=> Bot!ClearSlot)
    /\ (Console!TakeRuntime <=> Bot!TakeRuntime)
    /\ \A g : Console!PutRuntime(g) <=> Bot!PutRuntime(g)
    /\ \A g, p : Console!ClientStep(g, p) <=> Bot!ClientStep(g, p)
<1>1. /\ Console!Gens = Bot!Gens /\ Console!Plats = Bot!Plats /\ Console!NewGen = Bot!NewGen
      /\ Console!botVars = Bot!botVars /\ Console!NotRunning = Bot!NotRunning
  BY DEF Console!Gens, Bot!Gens, Console!Plats, Bot!Plats, Console!NewGen, Bot!NewGen,
         Console!botVars, Bot!botVars, Console!NotRunning, Bot!NotRunning
<1>2. \A c : Console!Spawned(c) = Bot!Spawned(c)
  BY <1>1 DEF Console!Spawned, Bot!Spawned
<1>3. \A c : (Console!StartBot(c) <=> Bot!StartBot(c)) /\ (Console!UpdateConfig(c) <=> Bot!UpdateConfig(c))
  BY <1>1, <1>2 DEF Console!StartBot, Bot!StartBot, Console!UpdateConfig, Bot!UpdateConfig
<1>4. /\ (Console!StartFails <=> Bot!StartFails) /\ (Console!AlreadyRunning <=> Bot!AlreadyRunning)
      /\ (Console!StopBot <=> Bot!StopBot)
  BY <1>1
     DEF Console!StartFails, Bot!StartFails, Console!AlreadyRunning, Bot!AlreadyRunning,
         Console!StopBot, Bot!StopBot, Bot!botVars, Console!botVars
<1>5. /\ (Console!ClearSlot <=> Bot!ClearSlot) /\ \A g : Console!PutRuntime(g) <=> Bot!PutRuntime(g)
  BY DEF Console!ClearSlot, Bot!ClearSlot, Console!PutRuntime, Bot!PutRuntime,
         Console!Dropping, Bot!Dropping
<1>6. Console!TakeRuntime <=> Bot!TakeRuntime
  BY <1>1 DEF Console!TakeRuntime, Bot!TakeRuntime, Console!NapCatFree, Bot!NapCatFree
<1>7. \A g, p : Console!ClientStep(g, p) <=> Bot!ClientStep(g, p)
  BY DEF Console!ClientStep, Bot!ClientStep, Console!Identifies, Bot!Identifies,
         Console!GivesUp, Bot!GivesUp, Console!Fetches, Bot!Fetches, Console!Dials,
         Bot!Dials, Console!DialFails, Bot!DialFails, Console!LosesConnection,
         Bot!LosesConnection, Console!Leaves, Bot!Leaves, Console!Panics, Bot!Panics, Console!Moves, Bot!Moves
<1> QED
  BY <1>1, <1>3, <1>4, <1>5, <1>6, <1>7

LEMMA ConsoleStep ==
    Bot!ControllerAssumption /\ BotSafe /\ ConsoleTasks /\ [Console!Next]_(Console!vars) => BotSafe' /\ ConsoleTasks'
<1> SUFFICES ASSUME Bot!ControllerAssumption, BotSafe, ConsoleTasks, [Console!Next]_(Console!vars)
             PROVE  BotSafe' /\ ConsoleTasks'
  OBVIOUS
<1>1. config \in Configs /\ (handle # 0 => handle \in Bot!Gens)
  BY Typed DEF BotSafe, Bot!BotTypeInv
<1>2. CASE Console!Start
  <2>1. /\ cli = "starting" /\ Bot!StartBot(config)
        /\ cli' = IF "QQ" \in config.plats THEN "putting" ELSE "idle"
    BY <1>2, ConsoleOperations DEF Console!Start
  <2>2. /\ BotSafe' /\ handle' = Bot!NewGen /\ Len(started') = Bot!NewGen /\ slot' = slot /\ Bot!NewGen \in Bot!Gens
        /\ clients'[Bot!NewGen]["QQ"] = IF "QQ" \in config.plats THEN "begun" ELSE "none"
        /\ clients' = [clients EXCEPT ![Bot!NewGen] = Bot!Spawned(config)]
    BY <1>1, <2>1, StartSafe DEF Bot!StartBot
  <2>3. \A g \in Bot!Gens : clients'[g]["QQ"] # "dropped"
    <3>1. clients \in [Bot!Gens -> [Bot!Plats -> States]]
      BY Typed DEF BotSafe
    <3>2. \A g \in Bot!Gens : g = Bot!NewGen \/ clients'[g] = clients[g]
      BY <2>2, <3>1
    <3> QED
      BY <2>2, <3>2 DEF ConsoleTasks
  <2>4. cli' = "putting" => slot' = 0 /\ handle' \in 1..Len(started') /\ clients'[handle']["QQ"] = "begun"
    BY <2>1, <2>2 DEF ConsoleTasks, Bot!Gens
  <2> QED
    BY <2>1, <2>2, <2>3, <2>4 DEF ConsoleTasks, InHand, Bot!Gens
<1>3. CASE Console!Serve
  <2>1. cli = "putting" /\ cli' = "serving" /\ Bot!PutRuntime(handle)
    BY <1>3, ConsoleOperations DEF Console!Serve
  <2>2. InHand(handle) /\ slot = 0
    BY <2>1 DEF ConsoleTasks
  <2>3. clients' = clients
    BY <2>1, <2>2 DEF Bot!PutRuntime, Bot!Dropping
  <2>4. BotSafe'
    BY <2>1, <2>2, SlotSafe
  <2> QED
    BY <2>1, <2>3, <2>4 DEF ConsoleTasks
<1>4. CASE Console!Fails
  <2>1. cli' = "over" /\ Bot!StartFails
    BY <1>4, ConsoleOperations DEF Console!Fails
  <2> QED
    BY <2>1, RestSafe DEF ConsoleTasks
<1>5. CASE Console!NapCatConnects
  <2>1. cli = "serving" /\ cli' = cli /\ Bot!TakeRuntime
    BY <1>5, ConsoleOperations DEF Console!NapCatConnects
  <2> QED
    BY <2>1, TakeSafe DEF ConsoleTasks
<1>6. CASE Console!CtrlC
  <2>1. cli' = "over" /\ Bot!StopBot
    BY <1>6, ConsoleOperations DEF Console!CtrlC
  <2> QED
    BY <2>1, StopSafe DEF ConsoleTasks
<1>7. ASSUME NEW g \in Bot!Gens, NEW p \in Bot!Plats, Console!Client(g, p)
      PROVE  BotSafe' /\ ConsoleTasks'
  <2>1. cli' = cli /\ Bot!ClientStep(g, p)
    BY <1>7, ConsoleOperations DEF Console!Client
  <2>2. BotSafe' /\ UNCHANGED <<handle, slot>> /\ \A h \in Bot!Gens : clients'[h]["QQ"] # "dropped"
    BY <2>1, ClientsSafe DEF ConsoleTasks
  <2>3. cli = "putting" => StillInHand(handle)
    BY <2>1, HandsKept DEF ConsoleTasks
  <2> QED
    BY <2>1, <2>2, <2>3 DEF ConsoleTasks, InHand, StillInHand
<1>8. CASE Console!NapCatReturns \/ UNCHANGED Console!vars
  <2>1. UNCHANGED Bot!botVars /\ (cli' = cli)
    BY <1>8 DEF Console!NapCatReturns, Console!vars, Console!botVars, Bot!botVars
  <2>2. BotSafe' /\ UNCHANGED <<handle, started, clients, slot>>
    BY <2>1, RestSafe
  <2> QED
    BY <2>1, <2>2 DEF ConsoleTasks, InHand
<1> QED
  BY <1>2, <1>3, <1>4, <1>5, <1>6, <1>7, <1>8, ConsoleOperations DEF Console!Next

LEMMA ConsoleInvariant ==
    ASSUME Bot!ControllerAssumption PROVE Console!Spec => [](BotSafe /\ ConsoleTasks)
<1>1. Console!Init => BotSafe /\ ConsoleTasks
  <2> SUFFICES ASSUME Console!Init PROVE BotSafe /\ ConsoleTasks
    OBVIOUS
  <2>1. PICK c \in Configs : Bot!BotInit(c)
    BY DEF Console!Init, Console!BotInit, Bot!BotInit, Console!NoClients, Bot!NoClients,
           Console!Gens, Bot!Gens, Console!Plats, Bot!Plats
  <2>2. BotSafe
    BY <2>1, InitSafe
  <2>3. ConsoleTasks
    BY <2>1 DEF Console!Init, Bot!BotInit, Bot!NoClients, Bot!Plats, ConsoleTasks
  <2> QED
    BY <2>2, <2>3
<1> QED
  BY <1>1, ConsoleStep, PTL DEF Console!Spec

----------------------------------------------------------------------------
(***************************************************************************)
(* The three front ends together.  A process that runs another part leaves *)
(* the controller where it begins, as a window that does nothing would.    *)
(***************************************************************************)
LEMMA WebRuns == Spec /\ chosen = "webui" => Web!Spec
<1>1. Init => Web!Init
  BY DEF Init
<1>2. chosen = "webui" /\ [Next]_vars => (chosen = "webui")' /\ [Web!Next]_(Web!vars)
  BY DEF Next, Runs, vars, botVars, webVars, FrontEnds, Web!vars, Web!botVars
<1> QED
  BY <1>1, <1>2, PTL DEF Spec, Web!Spec

LEMMA ConsoleRuns == Spec /\ chosen = "cli" => Console!Spec
<1>1. Init => Console!Init
  BY DEF Init
<1>2. chosen = "cli" /\ [Next]_vars => (chosen = "cli")' /\ [Console!Next]_(Console!vars)
  BY DEF Next, Runs, vars, botVars, consoleVars, FrontEnds, Console!vars, Console!botVars
<1> QED
  BY <1>1, <1>2, PTL DEF Spec, Console!Spec

LEMMA WindowRuns == Spec /\ chosen \notin {"webui", "cli"} => Window!Spec
<1>1. Init => Window!Init
  BY DEF Init
<1>2. chosen \notin {"webui", "cli"} /\ [Next]_vars
      => (chosen \notin {"webui", "cli"})' /\ [Window!Next]_(Window!vars)
  BY DEF Next, Runs, vars, botVars, windowVars, FrontEnds,
         Window!vars, Window!botVars, Window!gui, Window!tasks
<1> QED
  BY <1>1, <1>2, PTL DEF Spec, Window!Spec

LEMMA FrontEndsSafe == Spec => [](BotSafe /\ (chosen # "webui" => Bot!RuntimeKept))
<1>1. Bot!ControllerAssumption /\ WindowConfigs \subseteq Configs
  BY PartAssumptions
<1>2. Web!Spec => []BotSafe
  BY <1>1, WebInvariant, PTL
<1>3. Console!Spec => [](BotSafe /\ Bot!RuntimeKept)
  <2>1. BotSafe /\ ConsoleTasks => Bot!RuntimeKept
    BY <1>1, Typed DEF BotSafe, Bot!BotTypeInv, ConsoleTasks, Bot!RuntimeKept
  <2> QED
    BY <1>1, <2>1, ConsoleInvariant, PTL
<1>4. Window!Spec => [](BotSafe /\ Bot!RuntimeKept)
  BY <1>1, WindowInvariant, PTL
<1>5. /\ chosen \notin {"webui", "cli"} <=> ~(chosen = "webui" \/ chosen = "cli")
      /\ chosen # "webui" <=> ~(chosen = "webui")
  OBVIOUS
<1>6. chosen = "webui" /\ [Next]_vars => (chosen = "webui")'
  BY DEF Next, Runs, vars
<1> QED
  BY <1>2, <1>3, <1>4, <1>5, <1>6, WebRuns, ConsoleRuns, WindowRuns, PTL DEF Spec

(* Whatever the windows of the WebUI, the GUI's toggle and the CLI ask for *)
(* at the same time, at most one generation is started and not cancelled:  *)
(* BotController::start and stop decide under the inner lock.              *)
THEOREM OneBotRuns == Spec => []OneRunning
<1>1. BotSafe => OneRunning
  BY DEF BotSafe, OneRunning
<1> QED
  BY <1>1, FrontEndsSafe, PTL

(* The four flags the clients of all generations share never show a        *)
(* platform no client is connected to.                                     *)
THEOREM FlagsTrue == Spec => []NoFalseConnected
<1>1. BotSafe => NoFalseConnected
  BY DEF BotSafe, NoFalseConnected
<1> QED
  BY <1>1, FrontEndsSafe, PTL

(* bot_action_pending keeps the GUI's toggles apart and the CLI starts the *)
(* bot once: the runtime of the bot that runs is never overwritten in the  *)
(* slot nor cleared out of it.                                             *)
THEOREM RuntimeStays == Spec => []RuntimeKept
<1>1. (chosen # "webui" => Bot!RuntimeKept) => RuntimeKept
  BY DEF RuntimeKept
<1> QED
  BY <1>1, FrontEndsSafe, PTL
=============================================================================
