----------------------------- MODULE UnlockInv -----------------------------
(***************************************************************************)
(* The inductive invariant of Unlock, in parts.  The safety properties say *)
(* what holds when an invocation has returned or published; the parts say  *)
(* what each step of the way there has already established.                *)
(***************************************************************************)
EXTENDS Unlock

\* Where Resources exists; before that an invocation holds only the lock.
Opened == Holding \cup Cleaning \cup {"publish", "ram_drop"}
Unopened == {"start", "clear"} \cup Early

\* The lock serializes everything between its acquisition and its release.
LockInv == \A p \in Ops : pc[p] \in Critical => lock = p

\* A helper is alive only while its invocation waits for it, and does what
\* that wait is for; what it reported is still so when its invocation looks.
Asked(p, l, verbs, n) == pc[p] = l /\ helper[p].verb \in verbs /\ helper[p].name = n
HelperOK(p) ==
    /\ child[p] # "none" =>
         /\ p \in Ops
         /\ \/ Asked(p, "attach_capsule_wait", {"attach_ro"}, CAPSULE_MAP)
            \/ Asked(p, "detach_capsule_wait", {"detach"}, CAPSULE_MAP)
            \/ Asked(p, "c_capsule_wait", {"detach"}, CAPSULE_MAP)
            \/ Asked(p, "attach_data_wait", {"attach", "attach_ro"}, DataMap(p))
            \/ Asked(p, "c_verify_wait", {"detach"}, VERIFY_MAP)
    /\ child[p] = "ok" => MappedAsAsked(p)

\* Once a name was seen free under the lock, only its own invocation maps it.
OursOK(p) ==
    /\ pc[p] \in Opened \cup {"check_capsule", "preflight", "wait_key"} =>
         mapper[DataMap(p)].by \in {Nobody, p}
    /\ pc[p] \in Opened \cup {"preflight", "wait_key"} =>
         mapper[CAPSULE_MAP].by \in {Nobody, p}
    /\ pc[p] = "release" /\ Owns(p, "capsule_owned") => mapper[CAPSULE_MAP].by \in {Nobody, p}
    /\ pc[p] = "release" /\ Owns(p, "verify_owned") => mapper[VERIFY_MAP].by \in {Nobody, p}

\* What exists is recorded in Resources, or was logged as left behind.
ResOK(p) ==
    /\ pc[p] \in Unopened => res[p] = {} /\ ram[p] = "none" /\ p \notin scratch
    /\ ~Owns(p, "capsule_owned") => mapper[CAPSULE_MAP].by # p
    /\ ~Owns(p, "verify_owned") => mapper[VERIFY_MAP].by # p
    /\ Owns(p, "verify_owned") => p \in Verifiers
    /\ p \in scratch => Owns(p, "scratch")
    /\ ram[p] # "none" => Owns(p, "secret") \/ p \in reported
    /\ pc[p] = "attach_capsule_wait" => Owns(p, "capsule_owned")
    /\ pc[p] = "attach_data_wait" /\ p \in Verifiers => Owns(p, "verify_owned")

\* How far run() has come, told by what it is going to return.
RetOK(p) ==
    /\ ret[p] = "none" => p \notin reported
    /\ pc[p] \in Unopened \cup Holding \cup {"publish"} => ret[p] = "none"
    /\ pc[p] \in {"ram_drop", "release", "exit"} => ret[p] # "none"
    /\ \/ pc[p] \in {"scratch", "attach_data", "attach_data_wait", "publish"}
       \/ pc[p] \in Cleaning /\ ret[p] = "none"
       \/ ret[p] = "ok"
       => ~Owns(p, "capsule_owned")

\* An unlock that is about to publish has opened the root volume itself.
RootOpened(p) ==
    pc[p] \in Cleaning \cup {"publish"} /\ ret[p] = "none" /\ p \in Unlockers =>
        mapper[ROOT_MAP].by = p

\* A cleanup pass without errors so far has released what it has passed.
PassOK(p) ==
    /\ p \notin errors =>
         /\ pc[p] \in {"c_verify", "c_verify_wait", "c_ram", "c_scratch", "c_end"} =>
              ~Owns(p, "capsule_owned")
         /\ pc[p] \in {"c_ram", "c_scratch", "c_end"} => ~Owns(p, "verify_owned")
         /\ pc[p] \in {"c_scratch", "c_end"} /\ Owns(p, "secret") => ram[p] = "none"
         /\ pc[p] = "c_end" => ~Owns(p, "scratch")
    /\ pc[p] = "publish" => ram[p] = "none"
    /\ pc[p] \in {"ram_drop", "release", "exit"} /\ p \notin reported =>
         ~Owns(p, "capsule_owned") /\ ~Owns(p, "verify_owned") /\ ~Owns(p, "scratch")
    /\ pc[p] \in {"release", "exit"} /\ p \notin reported => ram[p] = "none"

\* The record belongs to an unlock that has succeeded.
MarkerOK(p) ==
    marker = p =>
        p \in Unlockers /\ ret[p] = "ok" /\ mapper[ROOT_MAP].by = p /\ ram[p] = "none"

\* No unlock is under way beside the record of an earlier one.
Cleared(p) ==
    /\ pc[p] = "clear" => p \in Unlockers
    /\ p \in Unlockers /\ pc[p] \in Critical \ {"clear", "release"} /\ ret[p] # "ok" =>
         marker = Nobody

\* The lock is held on the way only, the root volume is not opened before the
\* record is withdrawn, and a success that is not yet returned has its record.
TurnOK(p) ==
    /\ lock = p => pc[p] \in Critical
    /\ pc[p] \in {"start", "clear"} => mapper[ROOT_MAP].by # p
    /\ pc[p] \in Critical /\ p \in Unlockers /\ ret[p] = "ok" => marker = p
TurnInv == \A p \in Ops : TurnOK(p)

\* Each secret lives between two steps of run().
SecretsOK(p) ==
    /\ p \in pin => pc[p] = "derive"
    /\ fido[p] # Nobody => pc[p] \in {"read_t", "detach_capsule", "detach_capsule_wait"}
    /\ tpm[p] # Nobody => pc[p] \in {"detach_capsule", "detach_capsule_wait"}
    /\ final_key[p] # NoKey => pc[p] \in {"scratch", "attach_data"}
    /\ helper[p].verb \in {"attach", "attach_ro"} =>
         pc[p] \in {"attach_capsule_wait", "attach_data_wait"}

LocalInv(p) ==
    /\ OursOK(p) /\ ResOK(p) /\ RetOK(p) /\ RootOpened(p)
    /\ PassOK(p) /\ MarkerOK(p) /\ Cleared(p) /\ SecretsOK(p)

(***************************************************************************)
(* The conjunction is inductive: it holds at boot and every step of every  *)
(* invocation, helper and signal keeps it (unlock.rs, Resources).          *)
(***************************************************************************)
IInv ==
    /\ TypeOK /\ LockInv /\ TurnInv
    /\ \A p \in Procs : HelperOK(p)
    /\ \A p \in Ops : LocalInv(p)
=============================================================================
