------------------------------- MODULE Turns -------------------------------
(***************************************************************************)
(* What unlocks and verifications promise each other and the boot: they    *)
(* take turns; in its turn an unlock first withdraws the record of an      *)
(* earlier one, then opens the root volume if it is closed, and publishes  *)
(* a record only of a volume that it opened itself.  A verification        *)
(* touches neither.  A command returns success for an unlock exactly when  *)
(* the record is its own.  Unlock implements this.                         *)
(***************************************************************************)
CONSTANTS Commands, Unlockers, Nobody, Stranger

VARIABLES
    turn,    \* the command whose turn it is
    record,  \* whose record is published
    root,    \* who opened the root volume
    outcome  \* what each command has returned

turnVars == <<turn, record, root, outcome>>

TurnsInit ==
    /\ turn = Nobody
    /\ record \in {Nobody, Stranger} /\ root \in {Nobody, Stranger}
    /\ outcome = [p \in Commands |-> "none"]

\* Who comes while another has its turn, or cannot begin, fails.
Refused(p) ==
    /\ turn # p /\ outcome[p] = "none"
    /\ outcome' = [outcome EXCEPT ![p] = "error"]
    /\ UNCHANGED <<turn, record, root>>

Begins(p) ==
    /\ turn = Nobody /\ outcome[p] = "none"
    /\ turn' = p
    /\ UNCHANGED <<record, root, outcome>>

Withdraws(p) ==
    /\ turn = p /\ p \in Unlockers /\ root # p
    /\ record' = Nobody
    /\ UNCHANGED <<turn, root, outcome>>

OpensRoot(p) ==
    /\ turn = p /\ p \in Unlockers
    /\ record = Nobody /\ root = Nobody
    /\ root' = p
    /\ UNCHANGED <<turn, record, outcome>>

Publishes(p) ==
    /\ turn = p /\ p \in Unlockers
    /\ record = Nobody /\ root = p
    /\ record' = p
    /\ UNCHANGED <<turn, root, outcome>>

Returns(p, result) ==
    /\ turn = p
    /\ p \in Unlockers => (result = "ok" <=> record = p)
    /\ turn' = Nobody
    /\ outcome' = [outcome EXCEPT ![p] = result]
    /\ UNCHANGED <<record, root>>

TurnOf(p) ==
    \/ Refused(p) \/ Begins(p) \/ Withdraws(p) \/ OpensRoot(p) \/ Publishes(p)
    \/ \E result \in {"ok", "error"} : Returns(p, result)

TurnsNext == \E p \in Commands : TurnOf(p)

TurnsSpec == TurnsInit /\ [][TurnsNext]_turnVars
=============================================================================
