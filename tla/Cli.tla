--------------------------------- MODULE Cli ---------------------------------
(***************************************************************************)
(* run_cli (src/src/bot_controller.rs): the bot is started once, the       *)
(* WebSocket endpoint served until ctrl+c, the bot stopped.                *)
(***************************************************************************)
EXTENDS Controller

VARIABLES
    phase,      \* "starting", "serving", "idle" (no QQ) or "over"
    panicked    \* a WebSocket handler has panicked

vars == <<botVars, phase, panicked>>

Init ==
    /\ \E c \in Configs : BotInit(c)
    /\ phase = "starting" /\ panicked = FALSE

(* start, and with a runtime the slot and the listener. *)
Start ==
    /\ phase = "starting"
    /\ StartBot(config)
    /\ phase' = IF "QQ" \in config.plats THEN "putting" ELSE "idle"
    /\ UNCHANGED panicked

Serve ==
    /\ phase = "putting" /\ phase' = "serving"
    /\ PutRuntime(handle)
    /\ UNCHANGED panicked

Fails == phase = "starting" /\ StartFails /\ phase' = "over" /\ UNCHANGED panicked

(* ws_handler takes the runtime and expects it to be there. *)
NapCatConnects == phase = "serving" /\ TakeRuntime /\ UNCHANGED <<phase, panicked>>

NapCatReturns ==
    /\ phase = "serving" /\ slot = 0 /\ NapCatFree
    /\ panicked' = TRUE
    /\ UNCHANGED <<botVars, phase>>

CtrlC ==
    /\ phase \in {"serving", "idle"} /\ phase' = "over"
    /\ StopBot
    /\ UNCHANGED panicked

Client(g, p) == ClientStep(g, p) /\ UNCHANGED <<phase, panicked>>

Next ==
    \/ Start \/ Serve \/ Fails \/ NapCatConnects \/ NapCatReturns \/ CtrlC
    \/ \E g \in Gens : \E p \in Plats : Client(g, p)

Spec == Init /\ [][Next]_vars
=============================================================================
