------------------------------- MODULE MCCrew --------------------------------
(***************************************************************************)
(* Death at any step, of two invocations at a time: those of one crew run  *)
(* and may be killed, the others are never started.                        *)
(***************************************************************************)
EXTENDS MCCombo

CONSTANT u2

VARIABLE crew

Crews == {{u1, u2}, {u1, v1}, {u1, e1}, {e1, e2}, {e1, e3}}

CrewDone == \A p \in crew :
    IF p \in Ops THEN pc[p] \in {"exit", "killed"} ELSE epc[p] \in {"exit", "killed"}

\* A name that nobody of the crew looks at is free.
CrewInit ==
    /\ ComboInit /\ crew \in Crews
    /\ v1 \notin crew => ~Exists(VERIFY_MAP)
    /\ u1 \notin crew => ~Exists(ROOT_MAP)
CrewNext ==
    /\ \/ \E p \in crew : StepOf(p) \/ KillOf(p)
       \/ CrewDone /\ UNCHANGED comboVars
    /\ UNCHANGED crew
CrewSpec == CrewInit /\ [][CrewNext]_<<comboVars, crew>>
=============================================================================
