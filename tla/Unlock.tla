------------------------------- MODULE Unlock -------------------------------
(***************************************************************************)
(* The unlock and verify commands: run() of unlock.rs with its Resources,  *)
(* one action per step between two points where another process, a helper  *)
(* or a signal can be seen.  Several invocations may run at once.          *)
(*                                                                         *)
(* Every question mark of the code is an alternative that ends in Abort    *)
(* (the locals made so far are dropped, then Resources) or in AbortEarly   *)
(* (there is no Resources yet, only the lock).                             *)
(***************************************************************************)
EXTENDS Host

CONSTANTS Unlockers, Verifiers

ASSUME OpsAssumption ==
    /\ Unlockers \cup Verifiers \subseteq Procs
    /\ Unlockers \cap Verifiers = {}

Ops == Unlockers \cup Verifiers

VARIABLES
    lock,      \* the holder of operation.lock
    marker,    \* the invocation whose record /run/luks-combo-unlock/unlocked holds
    scratch,   \* the invocations whose /run/luks-check- file exists
    pc,        \* the next step of each invocation
    res,       \* its Resources
    decoded,   \* the manifest it has decoded, by its credential
    pin,       \* the invocations with a PIN in memory
    fido,      \* the FIDO secret each has in memory
    tpm,       \* the TPM secret each has in memory
    final_key, \* the final key each has in memory
    ret,       \* what its run() has decided to return
    errors,    \* the invocations whose present cleanup pass has collected errors
    reported   \* the invocations that logged an error of a cleanup in Drop

memVars == <<decoded, pin, fido, tpm, final_key>>
opVars == <<lock, marker, scratch, pc, res, memVars, ret, errors, reported>>
vars == <<hostVars, opVars>>

Early == {"check_data", "check_capsule", "preflight", "wait_key"}
Holding == {"attach_capsule", "attach_capsule_wait", "ram", "pin", "derive",
            "read_t", "detach_capsule", "detach_capsule_wait", "scratch",
            "attach_data", "attach_data_wait"}
Cleaning == {"c_capsule", "c_capsule_wait", "c_verify", "c_verify_wait",
             "c_ram", "c_scratch", "c_end"}
Critical == {"clear"} \cup Early \cup Holding \cup Cleaning
            \cup {"publish", "ram_drop", "release"}
Labels == Critical \cup {"start", "exit", "killed"}

\* Resources: what cleanup() would release.
Resources == {"capsule_owned", "verify_owned", "scratch", "secret"}

MemTypeOK ==
    /\ decoded \in [Ops -> Token] /\ fido \in [Ops -> Token] /\ tpm \in [Ops -> Token]
    /\ pin \subseteq Ops /\ final_key \in [Ops -> Key]

OpTypeOK ==
    /\ lock \in Ops \cup {Nobody}
    /\ marker \in Ops \cup {Nobody, Stranger}
    /\ scratch \subseteq Ops
    /\ pc \in [Ops -> Labels]
    /\ res \in [Ops -> SUBSET Resources]
    /\ MemTypeOK
    /\ ret \in [Ops -> {"none", "ok", "error"}]
    /\ errors \subseteq Ops /\ reported \subseteq Ops

(* Every variable of the machine and of the commands stays in its domain. *)
TypeOK == HostTypeOK /\ OpTypeOK

OpInit ==
    /\ lock = Nobody
    /\ marker \in {Nobody, Stranger}
    /\ scratch = {}
    /\ pc = [p \in Ops |-> "start"]
    /\ res = [p \in Ops |-> {}]
    /\ decoded = [p \in Ops |-> Nobody] /\ pin = {}
    /\ fido = [p \in Ops |-> Nobody] /\ tpm = [p \in Ops |-> Nobody]
    /\ final_key = [p \in Ops |-> NoKey]
    /\ ret = [p \in Ops |-> "none"]
    /\ errors = {} /\ reported = {}

Init == HostInit /\ OpInit

-----------------------------------------------------------------------------
At(p, l) == pc[p] = l
Goto(p, l) == pc' = [pc EXCEPT ![p] = l]
\* Mutant: a verification under the name of the root volume.
DataMapRoot(p) == ROOT_MAP
DataMap(p) == IF p \in Verifiers THEN VERIFY_MAP ELSE ROOT_MAP

\* Frames: what a step leaves alone.
DiskFrame == UNCHANGED <<capsule, manifest, slot>>
ResultFrame == UNCHANGED <<ret, errors, reported>>

Forget(p) ==
    /\ decoded' = [decoded EXCEPT ![p] = Nobody] /\ pin' = pin \ {p}
    /\ fido' = [fido EXCEPT ![p] = Nobody] /\ tpm' = [tpm EXCEPT ![p] = Nobody]
    /\ final_key' = [final_key EXCEPT ![p] = NoKey]

Owns(p, r) == r \in res[p]
Take(p, r) == res' = [res EXCEPT ![p] = res[p] \cup {r}]
Give(p, r) == res' = [res EXCEPT ![p] = res[p] \ {r}]

AbortEarly(p) ==
    /\ Goto(p, "release")
    /\ Forget(p)
    /\ ret' = [ret EXCEPT ![p] = "error"]
    /\ UNCHANGED <<errors, reported>>

AbortLogging(p, logged) ==
    /\ Goto(p, "c_capsule")
    /\ Forget(p)
    /\ ret' = [ret EXCEPT ![p] = "error"]
    /\ errors' = errors \ {p}
    /\ reported' = reported \cup logged

Abort(p) == AbortLogging(p, {})

(***************************************************************************)
(* Configuration, the private directory and the lock file come first.  The *)
(* flock does not wait: an invocation that finds it taken fails at once.   *)
(***************************************************************************)
AcquireLock(p) ==
    /\ At(p, "start")
    /\ \/ /\ lock = Nobody
          /\ lock' = p
          /\ Goto(p, IF p \in Verifiers THEN "check_data" ELSE "clear")
          /\ UNCHANGED ret
       \/ /\ Goto(p, "exit")
          /\ ret' = [ret EXCEPT ![p] = "error"]
          /\ UNCHANGED lock
    /\ UNCHANGED <<hostVars, marker, scratch, res, memVars, errors, reported>>

\* Mutant: a record that cannot be removed is ignored.
ClearMarkerIgnoring(p) ==
    /\ At(p, "clear")
    /\ marker' \in {marker, Nobody}
    /\ Goto(p, "check_data")
    /\ UNCHANGED memVars /\ ResultFrame
    /\ UNCHANGED <<hostVars, lock, scratch, res>>

\* Only unlock removes the record of an earlier success, under the lock.
ClearMarker(p) ==
    /\ At(p, "clear")
    /\ \/ /\ marker' = Nobody
          /\ Goto(p, "check_data")
          /\ UNCHANGED memVars /\ ResultFrame
       \/ AbortEarly(p) /\ UNCHANGED marker
    /\ UNCHANGED <<hostVars, lock, scratch, res>>

\* Mutant: a preexisting mapping is not refused.
CheckNothing(p, l, n, next) ==
    /\ At(p, l)
    /\ Goto(p, next) /\ UNCHANGED memVars /\ ResultFrame
    /\ UNCHANGED <<hostVars, lock, marker, scratch, res>>

\* The loop that refuses preexisting mappings, one name at a time.
CheckMapping(p, l, n, next) ==
    /\ At(p, l)
    /\ \/ ~Exists(n) /\ Goto(p, next) /\ UNCHANGED memVars /\ ResultFrame
       \/ Exists(n) /\ AbortEarly(p)
    /\ UNCHANGED <<hostVars, lock, marker, scratch, res>>

CheckMappings(p) ==
    \/ CheckMapping(p, "check_data", DataMap(p), "check_capsule")
    \/ CheckMapping(p, "check_capsule", CAPSULE_MAP, "preflight")

\* The manifest must be the one whose digest the configuration pins, which is
\* what enrolling this directory printed, and slot 4 must be in use.
Preflight(p) ==
    /\ At(p, "preflight")
    /\ \/ /\ manifest[DirOf[p]] = DirOf[p]
          /\ slot[RootOf[p]] # NoKey
          /\ decoded' = [decoded EXCEPT ![p] = manifest[DirOf[p]]]
          /\ UNCHANGED <<pin, fido, tpm, final_key>>
          /\ Goto(p, "wait_key") /\ ResultFrame
       \/ AbortEarly(p)
    /\ UNCHANGED <<hostVars, lock, marker, scratch, res>>

\* device() accepts a single matching key, then the capsule file is inspected.
\* A key found ends the wait even when the signal flag is already set.
WaitKey(p) ==
    /\ At(p, "wait_key")
    /\ \/ /\ capsule[DirOf[p]].stage # "absent"
          /\ Goto(p, "attach_capsule") /\ UNCHANGED memVars /\ ResultFrame
       \/ AbortEarly(p)
    /\ UNCHANGED <<hostVars, lock, marker, scratch, res>>

\* Ownership is recorded before the helper runs, so that a helper that is
\* killed half way is still cleaned up after.
AttachCapsule(p) ==
    /\ At(p, "attach_capsule")
    /\ Take(p, "capsule_owned")
    /\ \/ /\ ~Cancelled(p)
          /\ Spawn(p, "attach_ro", CAPSULE_MAP, NoKey)
          /\ Goto(p, "attach_capsule_wait") /\ UNCHANGED memVars /\ ResultFrame
       \/ Abort(p) /\ UNCHANGED helperVars
    /\ DiskFrame /\ UNCHANGED <<mapper, interrupted, ram, lock, marker, scratch>>

AttachCapsuleReturns(p) ==
    /\ At(p, "attach_capsule_wait")
    /\ Reap(p)
    /\ \/ /\ HelperSucceeded(p) /\ ~Cancelled(p)
          /\ Goto(p, "ram") /\ UNCHANGED memVars /\ ResultFrame
       \/ Abort(p)
    /\ DiskFrame /\ UNCHANGED <<mapper, interrupted, ram, lock, marker, scratch, res>>

MakeRam(p) ==
    /\ At(p, "ram")
    /\ \/ /\ RamNew(p)
          /\ Take(p, "secret")
          /\ Goto(p, "pin") /\ UNCHANGED memVars /\ ResultFrame
       \/ \E left \in {"none", "dir"} :
            /\ RamNewFails(p, left)
            /\ AbortLogging(p, IF left = "none" THEN {} ELSE {p}) /\ UNCHANGED res
    /\ DiskFrame /\ UNCHANGED <<mapper, helperVars, interrupted, lock, marker, scratch>>

\* Opening the security key and reading the PIN at the terminal.
ReadPin(p) ==
    /\ At(p, "pin")
    /\ \/ /\ ~Cancelled(p)
          /\ pin' = pin \cup {p} /\ UNCHANGED <<decoded, fido, tpm, final_key>>
          /\ Goto(p, "derive") /\ ResultFrame
       \/ Abort(p)
    /\ UNCHANGED <<hostVars, lock, marker, scratch, res>>

\* Mutant: the PIN is kept until run() returns.
DeriveFKeepingPin(p) ==
    /\ At(p, "derive")
    /\ \/ /\ ~Cancelled(p)
          /\ fido' = [fido EXCEPT ![p] = decoded[p]]
          /\ UNCHANGED <<decoded, pin, tpm, final_key>>
          /\ Goto(p, "read_t") /\ ResultFrame
       \/ Abort(p)
    /\ UNCHANGED <<hostVars, lock, marker, scratch, res>>

\* The assertion yields the FIDO secret of the manifest's credential; the PIN
\* and the device are dropped before the TPM secret is read.
DeriveF(p) ==
    /\ At(p, "derive")
    /\ \/ /\ ~Cancelled(p)
          /\ fido' = [fido EXCEPT ![p] = decoded[p]] /\ pin' = pin \ {p}
          /\ UNCHANGED <<decoded, tpm, final_key>>
          /\ Goto(p, "read_t") /\ ResultFrame
       \/ Abort(p)
    /\ UNCHANGED <<hostVars, lock, marker, scratch, res>>

ReadT(p) ==
    /\ At(p, "read_t")
    /\ \/ /\ Exists(CAPSULE_MAP)
          /\ tpm' = [tpm EXCEPT ![p] = MappedSecret]
          /\ UNCHANGED <<decoded, pin, fido, final_key>>
          /\ Goto(p, "detach_capsule") /\ ResultFrame
       \/ Abort(p)
    /\ UNCHANGED <<hostVars, lock, marker, scratch, res>>

\* Cleanup calls are not cancellable.
DetachCapsule(p) ==
    /\ At(p, "detach_capsule")
    /\ \/ /\ Spawn(p, "detach", CAPSULE_MAP, NoKey)
          /\ Goto(p, "detach_capsule_wait") /\ UNCHANGED memVars /\ ResultFrame
       \/ Abort(p) /\ UNCHANGED helperVars
    /\ DiskFrame /\ UNCHANGED <<mapper, interrupted, ram, lock, marker, scratch, res>>

\* Once detached, both factors are turned into the key and dropped.
DetachCapsuleReturns(p) ==
    /\ At(p, "detach_capsule_wait")
    /\ Reap(p)
    /\ \/ /\ HelperSucceeded(p)
          /\ Give(p, "capsule_owned")
          /\ \/ /\ final_key' = [final_key EXCEPT ![p] = derive(tpm[p], fido[p])]
                /\ tpm' = [tpm EXCEPT ![p] = Nobody]
                /\ fido' = [fido EXCEPT ![p] = Nobody]
                /\ UNCHANGED <<decoded, pin>>
                /\ Goto(p, IF p \in Verifiers THEN "scratch" ELSE "attach_data")
                /\ ResultFrame
             \/ Abort(p)
       \/ Abort(p) /\ UNCHANGED res
    /\ DiskFrame /\ UNCHANGED <<mapper, interrupted, ram, lock, marker, scratch>>

\* Mutant: the file is recorded once it has its size.
MakeScratchLate(p) ==
    /\ At(p, "scratch")
    /\ \/ /\ scratch' = scratch \cup {p}
          /\ \/ Take(p, "scratch") /\ Goto(p, "attach_data") /\ UNCHANGED memVars /\ ResultFrame
             \/ Abort(p) /\ UNCHANGED res
       \/ Abort(p) /\ UNCHANGED <<scratch, res>>
    /\ UNCHANGED <<hostVars, lock, marker>>

\* The file is recorded as soon as it exists: sizing it may still fail.
MakeScratch(p) ==
    /\ At(p, "scratch")
    /\ \/ /\ scratch' = scratch \cup {p}
          /\ Take(p, "scratch")
          /\ \/ Goto(p, "attach_data") /\ UNCHANGED memVars /\ ResultFrame
             \/ Abort(p)
       \/ Abort(p) /\ UNCHANGED <<scratch, res>>
    /\ UNCHANGED <<hostVars, lock, marker>>

\* The key goes to an unlinked ramfs file, our copy of it is erased, and the
\* helper gets the file as its standard input.
AttachData(p) ==
    /\ At(p, "attach_data")
    /\ IF p \in Verifiers THEN Take(p, "verify_owned") ELSE UNCHANGED res
    /\ \/ /\ ~Cancelled(p)
          /\ Spawn(p, IF p \in Verifiers THEN "attach_ro" ELSE "attach",
                   DataMap(p), final_key[p])
          /\ final_key' = [final_key EXCEPT ![p] = NoKey]
          /\ UNCHANGED <<decoded, pin, fido, tpm>>
          /\ Goto(p, "attach_data_wait") /\ ResultFrame
       \/ Abort(p) /\ UNCHANGED helperVars
    /\ DiskFrame /\ UNCHANGED <<mapper, interrupted, ram, lock, marker, scratch>>

\* On success the explicit cleanup starts; ret is still "none" during it.
AttachDataReturns(p) ==
    /\ At(p, "attach_data_wait")
    /\ Reap(p)
    /\ \/ /\ HelperSucceeded(p) /\ ~Cancelled(p)
          /\ Goto(p, "c_capsule")
          /\ errors' = errors \ {p}
          /\ UNCHANGED <<memVars, ret, reported>>
       \/ Abort(p)
    /\ DiskFrame /\ UNCHANGED <<mapper, interrupted, ram, lock, marker, scratch, res>>

-----------------------------------------------------------------------------
(***************************************************************************)
(* Resources::cleanup, run once from run() and again from Drop: it tries   *)
(* every resource and collects the errors.  ret tells the two apart.       *)
(***************************************************************************)
CleanupDetach(p, l, wait, r, n, next) ==
    /\ At(p, l)
    /\ \/ Owns(p, r) /\ Spawn(p, "detach", n, NoKey) /\ Goto(p, wait) /\ UNCHANGED errors
       \/ /\ Owns(p, r)   \* the helper could not be started
          /\ errors' = errors \cup {p}
          /\ Goto(p, next) /\ UNCHANGED helperVars
       \/ ~Owns(p, r) /\ Goto(p, next) /\ UNCHANGED <<helperVars, errors>>
    /\ DiskFrame
    /\ UNCHANGED <<mapper, interrupted, ram, lock, marker, scratch, res, memVars, ret, reported>>

\* Mutant: a helper that failed to detach is not reported.
CleanupDetachedQuietly(p, l, r, next) ==
    /\ At(p, l)
    /\ Reap(p)
    /\ Goto(p, next)
    /\ UNCHANGED errors
    /\ IF HelperSucceeded(p) THEN Give(p, r) ELSE UNCHANGED res
    /\ DiskFrame
    /\ UNCHANGED <<mapper, interrupted, ram, lock, marker, scratch, memVars, ret, reported>>

CleanupDetached(p, l, r, next) ==
    /\ At(p, l)
    /\ Reap(p)
    /\ Goto(p, next)
    /\ \/ HelperSucceeded(p) /\ Give(p, r) /\ UNCHANGED errors
       \/ errors' = errors \cup {p} /\ UNCHANGED res
    /\ DiskFrame
    /\ UNCHANGED <<mapper, interrupted, ram, lock, marker, scratch, memVars, ret, reported>>

CleanupMappings(p) ==
    \/ CleanupDetach(p, "c_capsule", "c_capsule_wait", "capsule_owned", CAPSULE_MAP,
                     "c_verify")
    \/ CleanupDetached(p, "c_capsule_wait", "capsule_owned", "c_verify")
    \/ CleanupDetach(p, "c_verify", "c_verify_wait", "verify_owned", VERIFY_MAP,
                     "c_ram")
    \/ CleanupDetached(p, "c_verify_wait", "verify_owned", "c_ram")

CleanupRam(p) ==
    /\ At(p, "c_ram")
    /\ Goto(p, "c_scratch")
    /\ \/ Owns(p, "secret") /\ RamCleanup(p) /\ UNCHANGED errors
       \/ Owns(p, "secret") /\ RamCleanupFails(p) /\ errors' = errors \cup {p}
       \/ ~Owns(p, "secret") /\ UNCHANGED <<ram, errors>>
    /\ DiskFrame
    /\ UNCHANGED <<mapper, helperVars, interrupted, lock, marker, scratch, res, memVars, ret, reported>>

\* Mutant: the file is given up before its removal can fail.
CleanupScratchTaken(p) ==
    /\ At(p, "c_scratch")
    /\ Goto(p, "c_end")
    /\ \/ /\ Owns(p, "scratch")
          /\ Give(p, "scratch")
          /\ \/ scratch' = scratch \ {p} /\ UNCHANGED errors
             \/ errors' = errors \cup {p} /\ UNCHANGED scratch
       \/ ~Owns(p, "scratch") /\ UNCHANGED <<scratch, res, errors>>
    /\ UNCHANGED <<hostVars, lock, marker, memVars, ret, reported>>

CleanupScratch(p) ==
    /\ At(p, "c_scratch")
    /\ Goto(p, "c_end")
    /\ \/ /\ Owns(p, "scratch")
          /\ scratch' = scratch \ {p}
          /\ Give(p, "scratch")
          /\ UNCHANGED errors
       \/ /\ Owns(p, "scratch")
          /\ errors' = errors \cup {p}
          /\ UNCHANGED <<scratch, res>>
       \/ ~Owns(p, "scratch") /\ UNCHANGED <<scratch, res, errors>>
    /\ UNCHANGED <<hostVars, lock, marker, memVars, ret, reported>>

\* Mutant: run() publishes whatever its cleanup reports.
CleanupIgnored(p) ==
    /\ At(p, "c_end")
    /\ \/ /\ ret[p] = "none"
          /\ Goto(p, "publish") /\ UNCHANGED <<memVars, ret, errors, reported>>
       \/ /\ ret[p] # "none"
          /\ Goto(p, "ram_drop")
          /\ reported' = reported \cup (errors \cap {p})
          /\ UNCHANGED <<memVars, ret, errors>>
    /\ UNCHANGED <<hostVars, lock, marker, scratch, res>>

\* run() goes on only after a cleanup without errors; otherwise, and after
\* run() has returned, Drop makes another pass and logs what it cannot undo.
CleanupReturns(p) ==
    /\ At(p, "c_end")
    /\ \/ /\ ret[p] = "none" /\ p \notin errors
          /\ Goto(p, "publish") /\ UNCHANGED <<memVars, ret, errors, reported>>
       \/ /\ ret[p] = "none" /\ p \in errors
          /\ Abort(p)
       \/ /\ ret[p] # "none"
          /\ Goto(p, "ram_drop")
          /\ reported' = reported \cup (errors \cap {p})
          /\ UNCHANGED <<memVars, ret, errors>>
    /\ UNCHANGED <<hostVars, lock, marker, scratch, res>>

\* unlock writes its record; atomic_write checks the signal flag just before
\* the rename.  verify only logs.
Publish(p) ==
    /\ At(p, "publish")
    /\ \/ /\ p \in Unlockers => ~Cancelled(p)
          /\ marker' = IF p \in Unlockers THEN p ELSE marker
          /\ Goto(p, "c_capsule")
          /\ Forget(p)
          /\ ret' = [ret EXCEPT ![p] = "ok"]
          /\ errors' = errors \ {p}
          /\ UNCHANGED reported
       \/ p \in Unlockers /\ Abort(p) /\ UNCHANGED marker
    /\ UNCHANGED <<hostVars, lock, scratch, res>>

\* Dropping Resources drops its RamSecret, whose own Drop cleans up again.
DropRam(p) ==
    /\ At(p, "ram_drop")
    /\ Goto(p, "release")
    /\ \/ Owns(p, "secret") /\ RamCleanup(p) /\ UNCHANGED reported
       \/ Owns(p, "secret") /\ RamCleanupFails(p) /\ reported' = reported \cup {p}
       \/ ~Owns(p, "secret") /\ UNCHANGED <<ram, reported>>
    /\ DiskFrame
    /\ UNCHANGED <<mapper, helperVars, interrupted, lock, marker, scratch, res, memVars, ret, errors>>

\* The lock file was opened before everything else and is closed last.
Release(p) ==
    /\ At(p, "release")
    /\ lock' = Nobody
    /\ Goto(p, "exit")
    /\ UNCHANGED <<hostVars, marker, scratch, res, memVars, ret, errors, reported>>

-----------------------------------------------------------------------------
OpStep(p) ==
    \/ AcquireLock(p) \/ ClearMarker(p) \/ CheckMappings(p) \/ Preflight(p)
    \/ WaitKey(p) \/ AttachCapsule(p) \/ AttachCapsuleReturns(p) \/ MakeRam(p)
    \/ ReadPin(p) \/ DeriveF(p) \/ ReadT(p) \/ DetachCapsule(p)
    \/ DetachCapsuleReturns(p) \/ MakeScratch(p) \/ AttachData(p)
    \/ AttachDataReturns(p) \/ CleanupMappings(p) \/ CleanupRam(p)
    \/ CleanupScratch(p) \/ CleanupReturns(p) \/ Publish(p) \/ DropRam(p)
    \/ Release(p)

\* What happens to an invocation from outside: a signal, its helper's doings.
Outside(p) == (Interrupt(p) \/ HelperStep(p)) /\ UNCHANGED opVars

(***************************************************************************)
(* SIGKILL: nothing is cleaned up but the lock, which the kernel releases. *)
(* The child is not killed with its parent and may still act.              *)
(***************************************************************************)
Kill(p) ==
    /\ pc[p] \in Critical
    /\ Goto(p, "killed")
    /\ lock' = Nobody
    /\ Forget(p)
    /\ UNCHANGED <<hostVars, marker, scratch, res, ret, errors, reported>>

Finished == \A p \in Ops : pc[p] \in {"exit", "killed"}

Next ==
    \/ \E p \in Ops : OpStep(p) \/ Outside(p)
    \/ Finished /\ UNCHANGED vars
Spec == Init /\ [][Next]_vars

(***************************************************************************)
(* Every wait of the program has a deadline (the helpers', the security    *)
(* key's, the PIN's), so each invocation keeps taking steps.  Nothing is   *)
(* assumed of the helpers and the signals.                                 *)
(***************************************************************************)
FairSpec == Spec /\ \A p \in Ops : WF_vars(OpStep(p))

-----------------------------------------------------------------------------
Active(p) == pc[p] \notin {"exit", "killed"}

(***************************************************************************)
(* "Each resource is ours": a name an invocation would detach is free or   *)
(* was created by that invocation itself, whatever other invocations and   *)
(* half-finished helpers have done meanwhile (unlock.rs, Resources).       *)
(***************************************************************************)
OwnedIsOurs ==
    \A p \in Ops : Active(p) =>
        /\ Owns(p, "capsule_owned") => mapper[CAPSULE_MAP].by \in {Nobody, p}
        /\ Owns(p, "verify_owned") => mapper[VERIFY_MAP].by \in {Nobody, p}

(***************************************************************************)
(* An invocation that has returned without logging a cleanup error has     *)
(* left nothing behind: no capsule or verification mapping, no ramfs       *)
(* mount, no scratch file, on every path through the question marks, the   *)
(* deadlines and the signals (unlock.rs, cleanup and Drop).                *)
(***************************************************************************)
NothingLeaks ==
    \A p \in Ops : At(p, "exit") /\ p \notin reported =>
        /\ mapper[CAPSULE_MAP].by # p
        /\ mapper[VERIFY_MAP].by # p
        /\ ram[p] = "none"
        /\ p \notin scratch

\* Whose helpers may go on with nobody to wait for them.
Dead == {p \in Unlockers : pc[p] = "killed"}

(***************************************************************************)
(* The record is true: it names an unlock only while the root volume is    *)
(* open, after everything temporary was released, and never one that fails *)
(* ("Failure does not publish success", SECURITY.md).  The volume was      *)
(* opened by that unlock itself; or another was killed, and the helper it  *)
(* left behind came first: to the helper of this one that is a success.    *)
(***************************************************************************)
RecordIsTrue ==
    \A p \in Ops : marker = p =>
        /\ p \in Unlockers
        /\ mapper[ROOT_MAP].by \in {p} \cup Dead
        /\ mapper[CAPSULE_MAP].by # p
        /\ ram[p] = "none"
        /\ ret[p] # "error"

(***************************************************************************)
(* No unlock fails beside a record of an earlier success: once it has      *)
(* removed the record, under the lock, there is none until it publishes    *)
(* its own (unlock.rs, removal of MARKER).                                 *)
(***************************************************************************)
NoStaleRecord ==
    \A p \in Unlockers :
        pc[p] \in Critical \ {"clear", "release"} /\ ret[p] # "ok" => marker = Nobody

(***************************************************************************)
(* The mapping that exposes the TPM secret is gone before the helper that  *)
(* opens the data volume is alive (unlock.rs, detach before keyed).        *)
(***************************************************************************)
CapsuleShutBeforeData ==
    \A p \in Ops : child[p] # "none" /\ helper[p].verb \in {"attach", "attach_ro"}
                    /\ helper[p].name # CAPSULE_MAP
        => mapper[CAPSULE_MAP].by # p

(***************************************************************************)
(* The PIN is erased before the TPM secret is read, and while a helper     *)
(* attaches a device no secret is left in the memory of the program        *)
(* (unlock.rs, the order of its drops).                                    *)
(***************************************************************************)
SecretsApart ==
    \A p \in Ops :
        /\ ~(p \in pin /\ tpm[p] # Nobody)
        /\ helper[p].verb \in {"attach", "attach_ro"} =>
             p \notin pin /\ tpm[p] = Nobody /\ fido[p] = Nobody /\ final_key[p] = NoKey

\* What Turns is about: the lock, the record, who opened the root volume, and
\* what the commands that have returned have said.
Returned == [p \in Ops |-> IF At(p, "exit") THEN ret[p] ELSE "none"]
Turn ==
    INSTANCE Turns WITH
        Commands <- Ops,
        turn <- lock,
        record <- marker,
        root <- mapper[ROOT_MAP].by,
        outcome <- Returned

(***************************************************************************)
(* The commands implement Turns: the lock orders all that is done to the   *)
(* record and to the root volume, also by helpers, so that a record is     *)
(* withdrawn before and published after the volume is opened, by the same  *)
(* unlock, and an unlock returns success exactly when the record is its    *)
(* own (unlock.rs, flock, removal of MARKER, keyed, atomic_write).         *)
(***************************************************************************)
TakesTurns == Turn!TurnsSpec

(* Every invocation returns, whatever its helpers do: the deadlines of     *)
(* process::run bound each wait (process.rs, run_inner).                   *)
EveryRunReturns == \A p \in Ops : <>At(p, "exit")

(***************************************************************************)
(* What the message of main.rs tells the user of a failed unlock, that the *)
(* next prompt asks for a recovery key: the root volume is still locked.   *)
(***************************************************************************)
FailedUnlockLeavesRootLocked ==
    \A p \in Unlockers : At(p, "exit") /\ ret[p] = "error" => mapper[ROOT_MAP].by # p
=============================================================================
