---------------------------- MODULE ServiceProofs ----------------------------
(***************************************************************************)
(* The deadlines of an unlock against the limits of the unit, for every    *)
(* choice of limits that keeps the budget of Service.                      *)
(***************************************************************************)
EXTENDS Service, TLAPS

\* The phase that the signal met is the one in which the clock passed it,
\* and only a call to libfido2, a detach or a rename is followed by another.
SignalInv ==
    /\ at = "none" <=> clock <= stop
    /\ pc \in {"start", "device", "capsule", "open", "assert", "detach", "publish", "rename"} =>
          at = "none"
    /\ pc = "return" => at \in {"none", "rename"}
    /\ pc = "pin" => at \in {"none", "open"}
    /\ pc = "attach" => at \in {"none", "detach"}
    /\ pc = "drop" => at \in {"none", "open", "assert", "detach"}

\* How much time has passed when a phase begins.
BudgetInv ==
    /\ pc \in {"start", "device"} => clock = 0
    /\ pc = "capsule" => clock <= DEVICE
    /\ pc = "open" => clock <= DEVICE + CAPSULE
    /\ pc = "pin" => clock <= DEVICE + CAPSULE + FIDO
    /\ pc = "assert" => clock <= DEVICE + CAPSULE + FIDO + PIN
    /\ pc = "drop" /\ stop = START => clock + DETACH <= Never
    /\ pc = "drop" /\ at = "detach" => clock <= stop + DETACH
    /\ pc = "return" => clock <= stop + RENAME

CapsuleInv ==
    /\ pc \in {"start", "device", "attach", "publish", "rename", "return"} => capsule = "shut"
    /\ pc = "over" => capsule # "open"

\* The record comes with the return, and only after a look that saw no signal.
RecordInv ==
    /\ record # NoRecord =>
          /\ pc = "return" \/ (pc = "over" /\ result = "ok")
          /\ at \in {"none", "rename", "return"}
          /\ record <= stop + RENAME /\ capsule = "shut"
    /\ pc = "return" \/ result = "ok" => record # NoRecord
    /\ result # "none" => pc = "over"

\* A run that goes on keeps the first two parts; one that was killed, the last.
IInv ==
    /\ TypeOK
    /\ pc # "killed" => SignalInv /\ BudgetInv
    /\ CapsuleInv
    /\ RecordInv
    /\ pc = "killed" => stop # START /\ at \in {"open", "assert"}

USE ServiceAssumption, BudgetAssumption

-----------------------------------------------------------------------------
\* What the fields of Limit are.
LEMMA Limits ==
    /\ Phases = {"start", "device", "capsule", "open", "pin", "assert", "detach",
                 "attach", "publish", "rename", "return", "drop"}
    /\ Limit["start"] = 0 /\ Limit["device"] = DEVICE /\ Limit["capsule"] = CAPSULE
    /\ Limit["open"] = FIDO /\ Limit["pin"] = PIN /\ Limit["assert"] = FIDO
    /\ Limit["detach"] = DETACH /\ Limit["attach"] = KEYED /\ Limit["publish"] = WRITE
    /\ Limit["rename"] = RENAME /\ Limit["return"] = RENAME /\ Limit["drop"] = DETACH
    /\ START \in Nat /\ STOP \in Nat /\ Never \in Nat
BY DEF Limit, Phases, Never

\* The limits compared, as the steps need them.
LEMMA Budget ==
    /\ DEVICE + CAPSULE + FIDO + DETACH <= Never
    /\ DEVICE + CAPSULE + FIDO + PIN + FIDO + DETACH <= Never
    /\ START + DETACH + DETACH <= Never /\ START + DETACH <= Never
    /\ DETACH <= STOP /\ RENAME + RENAME <= STOP
BY DEF Never

LEMMA InitInv == Init => IInv
BY Limits DEF Init, IInv, TypeOK, SignalInv, BudgetInv, CapsuleInv, RecordInv, Never, NoRecord

\* Every phase ends no later than its limit, and before systemd kills.
LEMMA PhaseEnds ==
    ASSUME IInv, NEW p \in Phases, NEW t \in 0 .. Never, End(p, t)
    PROVE  /\ stop' = stop /\ stop' \in 0 .. START /\ clock' \in 0 .. Never
           /\ at' \in Phases \cup {"none"}
           /\ clock' = t /\ clock <= clock' /\ clock' <= clock + Limit[p]
           /\ at' = "none" <=> clock' <= stop'
           /\ at # "none" => at' = at
           /\ at = "none" /\ at' # "none" => at' = p
<1>1. pc = p /\ pc # "killed"
  BY Limits DEF End
<1>2. at = "none" <=> clock <= stop
  BY <1>1 DEF IInv, SignalInv
<1>3. stop \in 0 .. START /\ clock \in 0 .. Never /\ at \in Phases \cup {"none"}
  BY DEF IInv, TypeOK
<1>4. "none" \notin Phases
  BY Limits
<1> QED
  BY <1>1, <1>2, <1>3, <1>4, Limits DEF End

LEMMA StartInv == IInv /\ Start => IInv'
<1> SUFFICES ASSUME IInv, NEW t \in 0 .. Never, End("start", t),
                    (InTime(t) /\ Proceed("device")) \/ Fail(FALSE)
             PROVE  IInv'
  BY DEF Start
<1> QED
  BY PhaseEnds, Limits
     DEF End, InTime, Proceed, Fail, IInv, TypeOK, SignalInv, BudgetInv, CapsuleInv, RecordInv

LEMMA DeviceInv == IInv /\ Device => IInv'
<1> SUFFICES ASSUME IInv, NEW t \in 0 .. Never, End("device", t), Seen(t),
                    \/ pc' = "capsule" /\ capsule' = "open" /\ UNCHANGED <<record, result>>
                    \/ Fail(FALSE)
             PROVE  IInv'
  BY DEF Device
<1> QED
  BY PhaseEnds, Limits
     DEF End, Seen, Fail, IInv, TypeOK, SignalInv, BudgetInv, CapsuleInv, RecordInv

LEMMA CapsuleStepInv == IInv /\ Capsule => IInv'
<1> SUFFICES ASSUME IInv, NEW t \in 0 .. Never, End("capsule", t),
                    (InTime(t) /\ Proceed("open")) \/ (Seen(t) /\ Fail(TRUE))
             PROVE  IInv'
  BY DEF Capsule
<1> QED
  BY PhaseEnds, Limits, Budget
     DEF End, InTime, Seen, Proceed, Fail, IInv, TypeOK, SignalInv, BudgetInv, CapsuleInv, RecordInv

LEMMA OpenInv == IInv /\ Open => IInv'
<1> SUFFICES ASSUME IInv, NEW t \in 0 .. Never, End("open", t), Proceed("pin") \/ Fail(TRUE)
             PROVE  IInv'
  BY DEF Open
<1> QED
  BY PhaseEnds, Limits, Budget
     DEF End, Proceed, Fail, IInv, TypeOK, SignalInv, BudgetInv, CapsuleInv, RecordInv

LEMMA PinInv == IInv /\ Pin => IInv'
<1> SUFFICES ASSUME IInv, NEW t \in 0 .. Never, End("pin", t),
                    (InTime(t) /\ Proceed("assert")) \/ (Seen(t) /\ Fail(TRUE))
             PROVE  IInv'
  BY DEF Pin
<1> QED
  BY PhaseEnds, Limits, Budget
     DEF End, InTime, Seen, Proceed, Fail, IInv, TypeOK, SignalInv, BudgetInv, CapsuleInv, RecordInv

LEMMA AssertInv == IInv /\ Assert => IInv'
<1> SUFFICES ASSUME IInv, NEW t \in 0 .. Never, End("assert", t),
                    (InTime(t) /\ Proceed("detach")) \/ Fail(TRUE)
             PROVE  IInv'
  BY DEF Assert
<1> QED
  BY PhaseEnds, Limits, Budget
     DEF End, InTime, Proceed, Fail, IInv, TypeOK, SignalInv, BudgetInv, CapsuleInv, RecordInv

LEMMA DetachInv == IInv /\ Detach => IInv'
<1> SUFFICES ASSUME IInv, NEW t \in 0 .. Never, End("detach", t),
                    \/ pc' = "attach" /\ capsule' = "shut" /\ UNCHANGED <<record, result>>
                    \/ Fail(TRUE)
             PROVE  IInv'
  BY DEF Detach
<1> QED
  BY PhaseEnds, Limits, Budget
     DEF End, Fail, IInv, TypeOK, SignalInv, BudgetInv, CapsuleInv, RecordInv

LEMMA AttachInv == IInv /\ Attach => IInv'
<1> SUFFICES ASSUME IInv, NEW t \in 0 .. Never, End("attach", t),
                    (InTime(t) /\ Proceed("publish")) \/ (Seen(t) /\ Fail(FALSE))
             PROVE  IInv'
  BY DEF Attach
<1> QED
  BY PhaseEnds, Limits
     DEF End, InTime, Seen, Proceed, Fail, IInv, TypeOK, SignalInv, BudgetInv, CapsuleInv, RecordInv

LEMMA PublishInv == IInv /\ Publish => IInv'
<1> SUFFICES ASSUME IInv, NEW t \in 0 .. Never, End("publish", t),
                    (InTime(t) /\ Proceed("rename")) \/ Fail(FALSE)
             PROVE  IInv'
  BY DEF Publish
<1> QED
  BY PhaseEnds, Limits
     DEF End, InTime, Proceed, Fail, IInv, TypeOK, SignalInv, BudgetInv, CapsuleInv, RecordInv

\* When the rename begins no signal has come, so it is over in time.
LEMMA RenameInv == IInv /\ Rename => IInv'
<1> SUFFICES ASSUME IInv, NEW t \in 0 .. Never, End("rename", t),
                    \/ pc' = "return" /\ record' = t /\ UNCHANGED <<capsule, result>>
                    \/ Fail(FALSE)
             PROVE  IInv'
  BY DEF Rename
<1> QED
  BY PhaseEnds, Limits
     DEF End, Fail, IInv, TypeOK, SignalInv, BudgetInv, CapsuleInv, RecordInv, NoRecord

LEMMA ReturnInv == IInv /\ Return => IInv'
<1> SUFFICES ASSUME IInv, NEW t \in 0 .. Never, End("return", t),
                    pc' = "over", result' = "ok", UNCHANGED <<capsule, record>>
             PROVE  IInv'
  BY DEF Return
<1> QED
  BY PhaseEnds, Limits
     DEF End, IInv, TypeOK, SignalInv, BudgetInv, CapsuleInv, RecordInv

LEMMA DropInv == IInv /\ Drop => IInv'
<1> SUFFICES ASSUME IInv, NEW t \in 0 .. Never, End("drop", t), UNCHANGED record,
                    pc' = "over", result' = "error", capsule' \in {"shut", "reported"}
             PROVE  IInv'
  BY DEF Drop
<1> QED
  BY PhaseEnds, Limits DEF End, IInv, TypeOK, SignalInv, BudgetInv, CapsuleInv, RecordInv

\* Only a call to libfido2 lasts long enough to be killed, or a drop that
\* comes late because of one, and neither when the unit's time ran out.
LEMMA KillInv == IInv /\ Kill => IInv'
<1> SUFFICES ASSUME IInv, Kill
             PROVE  IInv'
  OBVIOUS
<1> USE DEF Kill, IInv, TypeOK, SignalInv, BudgetInv
<1>1. pc \in {"open", "assert"} \/ (pc = "drop" /\ at \in {"open", "assert"})
  <2>1. pc # "detach"
    BY Limits, Budget
  <2>2. pc # "publish" /\ pc # "rename" /\ pc # "return"
    BY Limits, Budget
  <2>3. pc = "drop" => at # "none"
    BY Limits, Budget
  <2>4. pc = "drop" => at # "detach"
    BY Limits
  <2> QED
    BY <2>1, <2>2, <2>3, <2>4 DEF Deaf
<1>2. stop # START
  BY <1>1, Limits, Budget DEF Never
<1>3. TypeOK'
  BY Limits DEF Deaf, Never
<1>4. CapsuleInv' /\ RecordInv'
  BY <1>1 DEF CapsuleInv, RecordInv
<1> QED
  BY <1>1, <1>2, <1>3, <1>4

LEMMA NextInv == IInv /\ [Next]_vars => IInv'
<1> SUFFICES ASSUME IInv, [Next]_vars
             PROVE  IInv'
  OBVIOUS
<1>1. CASE Over \/ UNCHANGED vars
  BY <1>1, Limits DEF Over, vars, IInv, TypeOK, SignalInv, BudgetInv, CapsuleInv, RecordInv, Never
<1> QED
  BY <1>1, StartInv, DeviceInv, CapsuleStepInv, OpenInv, PinInv, AssertInv, DetachInv,
     AttachInv, PublishInv, RenameInv, ReturnInv, DropInv, KillInv DEF Next

-----------------------------------------------------------------------------
(***************************************************************************)
(* What a phase of unlock::run may find of the clock, the signal and the   *)
(* capsule when it begins holds throughout.                                *)
(***************************************************************************)
THEOREM Invariant == Spec => []IInv
BY InitInv, NextInv, PTL DEF Spec

(***************************************************************************)
(* The unit's own time limit is never followed by a kill, and a run that   *)
(* has ended left no capsule open without a report (nixos-module.nix,      *)
(* TimeoutStartSec).                                                       *)
(***************************************************************************)
THEOREM TimeLimitHandled == Spec => []TimeoutIsHandled
<1>1. IInv => TimeoutIsHandled
  BY DEF IInv, CapsuleInv, TimeoutIsHandled
<1> QED
  BY <1>1, Invariant, PTL

(***************************************************************************)
(* A kill after an earlier stop means that the stop met a call to libfido2 *)
(* (fido.rs, open and derive).                                             *)
(***************************************************************************)
THEOREM KillNeedsTheKey == Spec => []KilledOnlyAtTheKey
<1>1. IInv => KilledOnlyAtTheKey
  BY DEF IInv, KilledOnlyAtTheKey
<1> QED
  BY <1>1, Invariant, PTL

(***************************************************************************)
(* A stop before the last look leaves no record, and one after it neither  *)
(* a half-done success nor a kill (common.rs, atomic_write).               *)
(***************************************************************************)
THEOREM StopHeeded == Spec => []StopIsHeeded
<1>1. IInv => StopIsHeeded
  BY DEF IInv, RecordInv, StopIsHeeded
<1> QED
  BY <1>1, Invariant, PTL
=============================================================================
