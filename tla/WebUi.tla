-------------------------------- MODULE WebUi --------------------------------
(***************************************************************************)
(* The WebUI (src/src/bin/webui.rs): HTTP handlers on a multi-threaded     *)
(* runtime.  Each request is a task; start, stop and save each take two    *)
(* locks one after the other, so requests interleave between them.  Any    *)
(* number of browser windows may ask for anything at any time.             *)
(***************************************************************************)
EXTENDS Controller

CONSTANTS Slots   \* bound: requests under way at once

VARIABLES
    disk,      \* anemone-bot.toml
    req        \* request -> the lock it is about to take, and its locals

vars == <<botVars, disk, req>>

NoReq == [at |-> "none"]

Init ==
    /\ \E c \in Configs : BotInit(c) /\ disk = c
    /\ req = [r \in Slots |-> NoReq]

(* Some request before the state "at", and the state it goes to. *)
At(r, here, then) == req[r].at = here /\ req' = [req EXCEPT ![r] = then]

(* start_bot: controller.start reads the configuration, then takes inner,  *)
(* then the runtime goes into the slot.                                    *)
ReadConfig(r) ==
    /\ At(r, "none", [at |-> "start", cfg |-> config])
    /\ UNCHANGED <<botVars, disk>>

Start(r) ==
    /\ At(r, "start", IF "QQ" \in req[r].cfg.plats THEN [at |-> "put", gen |-> NewGen] ELSE NoReq)
    /\ StartBot(req[r].cfg)
    /\ UNCHANGED disk

StartRefused(r) ==
    /\ At(r, "start", NoReq)
    /\ AlreadyRunning \/ StartFails
    /\ UNCHANGED disk

Put(r) ==
    /\ At(r, "put", NoReq)
    /\ PutRuntime(req[r].gen)
    /\ UNCHANGED disk

(* stop_bot: cancel, then clear the slot. *)
Stop(r) == At(r, "none", [at |-> "clear"]) /\ StopBot /\ UNCHANGED disk

Clear(r) == At(r, "clear", NoReq) /\ ClearSlot /\ UNCHANGED disk

(* save_config: the file, then the controller's copy.  A body that does    *)
(* not parse changes nothing.                                              *)
WriteFile(r, c) ==
    /\ At(r, "none", [at |-> "update", cfg |-> c])
    /\ disk' = c
    /\ UNCHANGED botVars

Update(r) ==
    /\ At(r, "update", NoReq)
    /\ UpdateConfig(req[r].cfg)
    /\ UNCHANGED disk

(* ws_handler and onebot_ws_handler; without a runtime, 503. *)
NapCatConnects == TakeRuntime /\ UNCHANGED <<disk, req>>

Clients == \E g \in Gens : \E p \in Plats : ClientStep(g, p) /\ UNCHANGED <<disk, req>>

RequestStep(r) == Start(r) \/ StartRefused(r) \/ Put(r) \/ Clear(r) \/ Update(r)

Next ==
    \/ \E r \in Slots :
          \/ ReadConfig(r) \/ Stop(r) \/ RequestStep(r)
          \/ \E c \in Configs : WriteFile(r, c)
    \/ NapCatConnects
    \/ Clients

Spec == Init /\ [][Next]_vars
=============================================================================
