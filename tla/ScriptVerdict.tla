--------------------------- MODULE ScriptVerdict ---------------------------
(***************************************************************************)
(* What ConnectBlock expects of the script check queue, with no thread in  *)
(* it: a control is opened, checks are handed over, and one answer comes   *)
(* back, which is TRUE exactly when every check handed over passes.        *)
(* CheckQueue.tla implements it.                                           *)
(***************************************************************************)
CONSTANTS
    Checks,     \* the script checks (CScriptCheck objects)
    Failing     \* those whose operator() returns false

VARIABLES
    phase,      \* "closed" | "open": whether a CCheckQueueControl exists
    added,      \* the checks handed over to the present (or last) control
    verdict     \* what its Wait() returned

vars == <<phase, added, verdict>>

Init ==
    /\ phase = "closed"
    /\ added = {}
    /\ verdict = TRUE

Open ==
    /\ phase = "closed"
    /\ phase' = "open"
    /\ added' = {}
    /\ UNCHANGED verdict

Add ==
    /\ phase = "open"
    /\ \E S \in SUBSET (Checks \ added) : added' = added \cup S
    /\ UNCHANGED <<phase, verdict>>

Answer ==
    /\ phase = "open"
    /\ phase' = "closed"
    /\ verdict' = (added \cap Failing = {})
    /\ UNCHANGED added

Next == Open \/ Add \/ Answer

Spec == Init /\ [][Next]_vars
=============================================================================
