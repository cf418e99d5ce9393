------------------------------ MODULE ComboInv ------------------------------
(***************************************************************************)
(* The inductive invariant of the unlocks and verifications in Combo, in   *)
(* parts.  Beside enrollments, which take no lock, and after deaths, whose *)
(* helpers go on, the names are no longer only ours (OursOK of UnlockInv); *)
(* what each invocation knows of its own resources is.                     *)
(***************************************************************************)
EXTENDS EnrollInv, UnlockInv

Alive(p) == pc[p] # "killed"

\* A helper is alive only while its invocation waits for it, or was killed
\* then; none detaches the root volume, and only an unlock's attaches it.
AskedOK(p) ==
    /\ child[p] # "none" =>
         \/ ~Alive(p)
         \/ Asked(p, "attach_capsule_wait", {"attach_ro"}, CAPSULE_MAP)
         \/ Asked(p, "detach_capsule_wait", {"detach"}, CAPSULE_MAP)
         \/ Asked(p, "c_capsule_wait", {"detach"}, CAPSULE_MAP)
         \/ Asked(p, "attach_data_wait", {"attach", "attach_ro"}, DataMap(p))
         \/ Asked(p, "c_verify_wait", {"detach"}, VERIFY_MAP)
    /\ helper[p].name = ROOT_MAP => p \in Unlockers /\ helper[p].verb # "detach"

\* What a helper has done once it succeeded, and what was done before it ran.
DoneOK(p) ==
    /\ child[p] = "ok" /\ helper[p].verb = "detach" => mapper[helper[p].name].by # p
    /\ child[p] = "ok" /\ helper[p].name = ROOT_MAP => Exists(ROOT_MAP)
    /\ child[p] # "none" /\ helper[p].verb \in {"attach", "attach_ro"}
       /\ helper[p].name # CAPSULE_MAP => mapper[CAPSULE_MAP].by # p

\* While an unlock is under way the root volume is its own, or was opened by
\* the helper of one that was killed, after the name was found free.
RootOurs(p) ==
    p \in Unlockers /\ pc[p] \in Opened \cup {"check_capsule", "preflight", "wait_key"} =>
        mapper[ROOT_MAP].by \in {Nobody, p} \cup Dead

RootIsOpen(p) ==
    p \in Unlockers /\ pc[p] \in Cleaning \cup {"publish"} /\ ret[p] = "none" =>
        mapper[ROOT_MAP].by \in {p} \cup Dead

\* The record outlives the death of the unlock that published it.
RecordOK(p) ==
    marker = p =>
        /\ p \in Unlockers /\ ret[p] = "ok" /\ ram[p] = "none" /\ child[p] = "none"
        /\ mapper[CAPSULE_MAP].by # p
        /\ mapper[ROOT_MAP].by \in {p} \cup Dead

\* A killed invocation has no memory.
Forgotten(p) ==
    ~Alive(p) => p \notin pin /\ fido[p] = Nobody /\ tpm[p] = Nobody /\ final_key[p] = NoKey

LocalBesideInv(p) ==
    /\ AskedOK(p) /\ DoneOK(p) /\ Cleared(p) /\ RecordOK(p) /\ Forgotten(p)
    /\ Alive(p) => ResOK(p) /\ RetOK(p) /\ PassOK(p) /\ SecretsOK(p)
    /\ RootOurs(p) /\ RootIsOpen(p)

(***************************************************************************)
(* The conjunction is inductive beside EInv: every step of every command   *)
(* and helper, and every death, keeps it (unlock.rs, Resources).           *)
(***************************************************************************)
BesideInv == LockInv /\ \A p \in Ops : LocalBesideInv(p)
=============================================================================
