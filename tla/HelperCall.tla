----------------------------- MODULE HelperCall -----------------------------
(***************************************************************************)
(* What a call of process::run, keyed or cleanup promises its caller: it   *)
(* either refuses to start or has one child, it never returns while that   *)
(* child lives or is a zombie, and it returns success only for a child     *)
(* that exited with success of its own accord and whose messages were all  *)
(* passed on.  Host uses this contract; Supervisor implements it.          *)
(***************************************************************************)
VARIABLES
    call,    \* "idle", "running", then "ok" or "error"
    child,   \* "none", "running", "success", "failure", then "reaped"
    told     \* whether everything the child has said was passed on

callVars == <<call, child, told>>

CallInit == call = "idle" /\ child = "none" /\ told = TRUE

Refuse ==
    /\ call = "idle"
    /\ call' = "error"
    /\ UNCHANGED <<child, told>>

Start ==
    /\ call = "idle"
    /\ call' = "running" /\ child' = "running"
    /\ UNCHANGED told

\* The child, or a process that holds its stderr, says something; the call
\* passes it on.
Talk ==
    /\ call = "running"
    /\ told' \in BOOLEAN
    /\ UNCHANGED <<call, child>>

Exit ==
    /\ child = "running"
    /\ child' \in {"success", "failure"}
    /\ UNCHANGED <<call, told>>

Succeed ==
    /\ call = "running" /\ child = "success"
    /\ call' = "ok" /\ child' = "reaped" /\ told' = TRUE

\* The call gives up once the child is dead, of itself or killed.
Fail ==
    /\ call = "running" /\ child \in {"success", "failure"}
    /\ call' = "error" /\ child' = "reaped" /\ told' \in BOOLEAN

CallNext ==
    Refuse \/ Start \/ Talk \/ Exit \/ Succeed \/ Fail

CallSpec == CallInit /\ [][CallNext]_callVars
=============================================================================
