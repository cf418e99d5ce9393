------------------------------- MODULE MCCombo -------------------------------
(* Enrollments beside each other and beside the other commands. *)
EXTENDS Combo, TLC

CONSTANTS u1, v1, e1, e2, e3, d1, d2, d3, r1, r2

\* e1 and e2 enroll the device r2 from one directory, e3 from another one.
MCDirOf == [p \in Procs |-> CASE p \in Ops -> d1 [] p = e3 -> d3 [] OTHER -> d2]
MCRootOf == [p \in Procs |-> IF p \in Ops THEN r1 ELSE r2]
=============================================================================
