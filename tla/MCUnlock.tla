------------------------------ MODULE MCUnlock ------------------------------
(* Two unlocks and one verify of the same enrolled disk, in any order. *)
EXTENDS UnlockInv, TLC

CONSTANTS u1, u2, v1, d1, r1

MCDirOf == [p \in Procs |-> d1]
MCRootOf == [p \in Procs |-> r1]

\* The two unlocks are interchangeable.
MCSymmetry == Permutations({u1, u2})
=============================================================================
