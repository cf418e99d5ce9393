------------------------------ MODULE EnrollInv ------------------------------
(***************************************************************************)
(* The inductive invariant of the enrollments in Combo, in parts, for any  *)
(* number of them beside any unlocks and verifications, with deaths at any *)
(* step.  A killed enrollment leaves its helper and its files behind, so   *)
(* the parts about these do not ask whether the enrollment is alive.       *)
(***************************************************************************)
EXTENDS Combo

\* What a waiting enrollment has asked its helper for.
VerbAt ==
    [format_wait |-> "format", attach_wait |-> "attach", close_wait |-> "detach",
     seal_wait |-> "seal", reattach_wait |-> "attach_ro", reclose_wait |-> "detach",
     drop_wait |-> "detach"]

\* The steps between two events of an enrollment.
Filling == {"format", "format_wait", "attach", "attach_wait", "write", "close", "close_wait",
            "seal", "seal_wait"}
Verifying == {"reattach", "reattach_wait", "verify"}
Verified == {"reclose", "reclose_wait", "manifest"}
Published == {"prompt", "add"}
Added == {"ram_cleanup", "recheck", "sync"}

OurCapsule(e) == capsule[DirOf[e]].by = e
Stage(e) == capsule[DirOf[e]].stage
Writable(e) == mapper[CAPSULE_MAP].by = e /\ mapper[CAPSULE_MAP].rw
Runs(e, verb) == child[e] = "running" /\ helper[e].verb = verb

\* An enrollment has a helper while it waits for it, or was killed then.
CallInv(e) ==
    /\ helper[e].name = CAPSULE_MAP
    /\ child[e] # "none" => epc[e] \in DOMAIN VerbAt \cup {"killed"}
    /\ epc[e] \in DOMAIN VerbAt => helper[e].verb = VerbAt[epc[e]]

\* What a helper may still do to the capsule, and has done once it succeeded.
EffectInv(e) ==
    /\ Runs(e, "format") => OurCapsule(e) /\ Stage(e) \in {"empty", "formatted"}
    /\ Runs(e, "attach") => OurCapsule(e) /\ Stage(e) # "absent"
    /\ Runs(e, "seal") => OurCapsule(e) /\ Stage(e) # "absent" /\ ~Writable(e)
    /\ child[e] = "ok" /\ helper[e].verb = "detach" => mapper[CAPSULE_MAP].by # e
    /\ child[e] = "ok" /\ helper[e].verb = "seal" => Stage(e) = "sealed"

\* How far the files are at each step.
StepInv(e) ==
    /\ epc[e] \in Filling \cup Verifying \cup Verified \cup Published \cup Added =>
          OurCapsule(e) /\ Stage(e) # "absent"
    /\ epc[e] = "format" => Stage(e) # "sealed"
    /\ epc[e] \in {"attach_wait", "write", "close", "close_wait"} => e \in owned
    /\ epc[e] = "seal" => ~Writable(e)
    /\ epc[e] \in Verifying \cup Verified \cup Published \cup Added => Stage(e) = "sealed"
    /\ epc[e] \in Filling \cup Verifying \cup Verified => manifest[DirOf[e]] = Nobody
    /\ epc[e] \in Published \cup Added => manifest[DirOf[e]] = e
    /\ epc[e] \in Added => slot[RootOf[e]] = derive(e, e)

\* A capsule that can be written is open to the enrollment that made it.
WritableInv ==
    \A e \in Procs : Writable(e) =>
        e \in Enrollers /\ epc[e] # "start" /\ OurCapsule(e) /\ Stage(e) = "formatted"

\* The helpers of the other commands open the capsule for reading only.
ReaderInv ==
    \A p \in Ops : helper[p].name = CAPSULE_MAP => helper[p].verb # "attach"

CapsuleFirst == \A d \in Dirs : capsule[d].stage = "absent" => manifest[d] = Nobody

\* In one directory only the capsule of e holds a secret of an enrollment, and at the end
\* its own.
SecretInv(e) ==
    OneDirectory(e) =>
        /\ \A d \in Dirs : d # DirOf[e] => capsule[d].secret \notin Enrollers
        /\ epc[e] \in Verified \cup Published \cup Added => capsule[DirOf[e]].secret = e

EndInv(e) ==
    eret[e] = "ok" =>
        /\ Stage(e) = "sealed" /\ manifest[DirOf[e]] = e
        /\ slot[RootOf[e]] = derive(e, e) /\ e \in durable
        /\ OneDirectory(e) => capsule[DirOf[e]].secret = e

\* What the slot of e stands on, also when e is no longer alive.
SlotInv(e) ==
    slot[RootOf[e]].m = e =>
        /\ Stage(e) = "sealed" /\ manifest[DirOf[e]] = e
        /\ slot[RootOf[e]] = derive(e, e)
        /\ OneDirectory(e) => capsule[DirOf[e]].secret = e

LocalEnrollInv(e) ==
    /\ CallInv(e) /\ EffectInv(e) /\ StepInv(e)
    /\ SecretInv(e) /\ SlotInv(e) /\ EndInv(e)

EInv ==
    /\ ComboTypeOK
    /\ \A e \in Enrollers : LocalEnrollInv(e)
    /\ WritableInv /\ ReaderInv /\ CapsuleFirst

\* What an enrollment maps or mounts is known to a guard that will undo it, or
\* to the error it logged; at the end nothing is left to the guards.
LeakInv(e) ==
    /\ mapper[CAPSULE_MAP].by = e \/ Runs(e, "attach") \/ Runs(e, "attach_ro") =>
          e \in owned \cup ereported
    /\ ram[e] # "none" => e \in ramHeld \cup ereported
    /\ epc[e] \in {"drop_ram", "exit"} => e \notin owned \/ e \in ereported
    /\ epc[e] = "exit" => ram[e] = "none" \/ e \in ereported
=============================================================================
