--------------------------------- MODULE Gui ---------------------------------
(***************************************************************************)
(* The GUI (src/src/bin/gui.rs): one event loop that handles messages one  *)
(* at a time, and tasks that run beside it and end in a message.  What the *)
(* user may do depends on a status polled every three seconds.             *)
(***************************************************************************)
EXTENDS Controller

CONSTANTS Saves      \* bound: saves under way at once

VARIABLES
    disk,        \* anemone-bot.toml
    running,     \* status.running as last reported to the event loop
    polled,      \* a status on its way there
    pending,     \* bot_action_pending
    jobs,        \* the tasks of toggles under way
    saving,      \* save -> its task
    boot         \* the task that loads the configuration at start

tasks == <<jobs, saving, boot>>
gui == <<running, polled, pending>>
vars == <<botVars, disk, gui, tasks>>

None == [at |-> "none"]

Init ==
    /\ \E c \in Configs : BotInit(c) /\ disk = c
    /\ running = FALSE /\ polled = {} /\ pending = FALSE
    /\ jobs = {} /\ saving = [s \in Saves |-> None]
    /\ boot = [at |-> "read"]

IsUp == handle # 0

----------------------------------------------------------------------------
(* The toggle.                                                             *)

(* Mutant: a click while an action is under way starts another. *)
MayToggleAlways == TRUE

MayToggle == ~pending

(* The label and the action are taken from the polled status. *)
ToggleBot ==
    /\ MayToggle
    /\ pending' = TRUE
    /\ jobs' = jobs \cup {[at |-> IF running THEN "stop" ELSE "config"]}
    /\ UNCHANGED <<botVars, disk, running, polled, saving, boot>>

(* Job j goes on to "then". *)
Goes(j, here, then) ==
    /\ j.at = here /\ jobs' = (jobs \ {j}) \cup {then}
    /\ UNCHANGED <<disk, gui, saving, boot>>

ReadConfig(j) == Goes(j, "config", [at |-> "start", cfg |-> config]) /\ UNCHANGED botVars

Start(j) ==
    /\ Goes(j, "start", IF "QQ" \in j.cfg.plats THEN [at |-> "put", gen |-> NewGen]
                                                ELSE [at |-> "started"])
    /\ StartBot(j.cfg)

StartRefused(j) == Goes(j, "start", [at |-> "started"]) /\ (AlreadyRunning \/ StartFails)

Put(j) == Goes(j, "put", [at |-> "started"]) /\ PutRuntime(j.gen)

Stop(j) == Goes(j, "stop", [at |-> "stopped"]) /\ StopBot

(* The messages in which the task ends. *)
Ends(j, here) ==
    /\ j.at = here /\ jobs' = jobs \ {j}
    /\ UNCHANGED <<disk, running, polled, saving, boot>>

(* Mutant: only a start that succeeded gives the button back. *)
BotStartedForGood(j) ==
    /\ Ends(j, "started")
    /\ pending' = ~IsUp
    /\ UNCHANGED botVars

BotStarted(j) == Ends(j, "started") /\ pending' = FALSE /\ UNCHANGED botVars

(* Mutant: the runtime of a stopped bot stays in its slot. *)
BotStoppedKeeping(j) == Ends(j, "stopped") /\ pending' = FALSE /\ UNCHANGED botVars

BotStopped(j) == Ends(j, "stopped") /\ pending' = FALSE /\ ClearSlot

JobStep ==
    \E j \in jobs :
        \/ ReadConfig(j) \/ Start(j) \/ StartRefused(j) \/ Put(j) \/ Stop(j)
        \/ BotStarted(j) \/ BotStopped(j)

----------------------------------------------------------------------------
(* Status: asked by a task, shown when its message is handled.             *)

(* Mutant: a window that shows a running bot no longer asks.               *)
PollStopped ==
    /\ polled = {} /\ ~running /\ polled' = {IsUp}
    /\ UNCHANGED <<botVars, disk, running, pending, tasks>>

Poll ==
    /\ polled = {} /\ polled' = {IsUp}
    /\ UNCHANGED <<botVars, disk, running, pending, tasks>>

StatusUpdated ==
    /\ polled # {} /\ polled' = {}
    /\ running' \in polled
    /\ UNCHANGED <<botVars, disk, pending, tasks>>

----------------------------------------------------------------------------
(* The configuration.                                                      *)

MaySave == ~running

SaveConfig(s, c) ==
    /\ MaySave /\ saving[s] = None
    /\ saving' = [saving EXCEPT ![s] = [at |-> "write", cfg |-> c]]
    /\ UNCHANGED <<botVars, disk, gui, jobs, boot>>

WriteFile(s) ==
    /\ saving[s].at = "write"
    /\ disk' = saving[s].cfg
    /\ saving' = [saving EXCEPT ![s].at = "update"]
    /\ UNCHANGED <<botVars, gui, jobs, boot>>

WriteFails(s) ==
    /\ saving[s].at = "write"
    /\ saving' = [saving EXCEPT ![s] = None]
    /\ UNCHANGED <<botVars, disk, gui, jobs, boot>>

SaveUpdates(s) ==
    /\ saving[s].at = "update"
    /\ UpdateConfig(saving[s].cfg)
    /\ saving' = [saving EXCEPT ![s] = None]
    /\ UNCHANGED <<disk, gui, jobs, boot>>

BootReads ==
    /\ boot.at = "read" /\ boot' = [at |-> "update", cfg |-> disk]
    /\ UNCHANGED <<botVars, disk, gui, jobs, saving>>

BootUpdates ==
    /\ boot.at = "update" /\ boot' = [at |-> "status"]
    /\ UpdateConfig(boot.cfg)
    /\ UNCHANGED <<disk, gui, jobs, saving>>

BootAsks ==
    /\ boot.at = "status" /\ boot' = [at |-> "shown", running |-> IsUp]
    /\ UNCHANGED <<botVars, disk, gui, jobs, saving>>

InitComplete ==
    /\ boot.at = "shown" /\ boot' = None
    /\ running' = boot.running
    /\ UNCHANGED <<botVars, disk, polled, pending, jobs, saving>>

BootStep == BootReads \/ BootUpdates \/ BootAsks \/ InitComplete

----------------------------------------------------------------------------
NapCatConnects == TakeRuntime /\ UNCHANGED <<disk, gui, tasks>>

Client(g, p) == ClientStep(g, p) /\ UNCHANGED <<disk, gui, tasks>>

Next ==
    \/ ToggleBot \/ JobStep \/ BootStep
    \/ Poll \/ StatusUpdated
    \/ \E s \in Saves :
          \/ \E c \in Configs : SaveConfig(s, c)
          \/ WriteFile(s) \/ WriteFails(s) \/ SaveUpdates(s)
    \/ NapCatConnects
    \/ \E g \in Gens : \E p \in Plats : Client(g, p)

Spec == Init /\ [][Next]_vars

----------------------------------------------------------------------------
(* The button is blocked exactly while a task of it, or its message, is    *)
(* under way: two toggles never run side by side.                          *)
GuiTypeInv ==
    /\ BotTypeInv
    /\ pending <=> jobs # {}
    /\ \A j, k \in jobs : j = k
    /\ running \in BOOLEAN /\ polled \subseteq BOOLEAN

(* Every click is answered: the button comes back.                         *)
ButtonReturns == pending ~> ~pending

(* Once the bot stays started, or stays stopped, the window says so.       *)
StatusSettles == (<>[]IsUp => <>[]running) /\ (<>[]~IsUp => <>[]~running)

(* The window keeps up with the bot: both of the above.                     *)
WindowSettles == ButtonReturns /\ StatusSettles
=============================================================================
