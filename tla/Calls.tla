-------------------------------- MODULE Calls --------------------------------
(***************************************************************************)
(* What the OneBot API promises its callers (QQSender, and through it      *)
(* Bridge): a call is carried out once at most, possibly after its caller  *)
(* gave up; a call that returns an id returns the id of what it created    *)
(* itself; a call that fails may or may not have been carried out.         *)
(***************************************************************************)
EXTENDS Naturals

CONSTANTS Requests,     \* the calls
          Deletions     \* those that report success whatever NapCat answered

VARIABLES status,   \* call -> "idle", "open", "ok" or "error"
          made,     \* call -> how often NapCat carried it out
          names     \* call -> the calls whose outcome its result names

cvars == <<status, made, names>>

CInit ==
    /\ status = [c \in Requests |-> "idle"]
    /\ made = [c \in Requests |-> 0]
    /\ names = [c \in Requests |-> {}]

Begin(c) ==
    /\ status[c] = "idle"
    /\ status' = [status EXCEPT ![c] = "open"]
    /\ UNCHANGED <<made, names>>

Effect(c) ==
    /\ status[c] # "idle" /\ made[c] = 0
    /\ made' = [made EXCEPT ![c] = 1]
    /\ UNCHANGED <<status, names>>

Succeed(c) ==
    /\ status[c] = "open"
    /\ c \in Deletions \/ made[c] = 1
    /\ status' = [status EXCEPT ![c] = "ok"]
    /\ names' = [names EXCEPT ![c] = {c}]
    /\ UNCHANGED made

Fail(c) ==
    /\ status[c] = "open"
    /\ status' = [status EXCEPT ![c] = "error"]
    /\ UNCHANGED <<made, names>>

CNext == \E c \in Requests : Begin(c) \/ Effect(c) \/ Succeed(c) \/ Fail(c)

CSpec == CInit /\ [][CNext]_cvars
=============================================================================
