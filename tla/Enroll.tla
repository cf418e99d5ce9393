------------------------------- MODULE Enroll -------------------------------
(***************************************************************************)
(* The enroll command: run() of enroll.rs with its Mapping guard, and the  *)
(* LUKS header operations of disk.rs.  It takes no lock.  The secrets of   *)
(* an enrollment carry its own token: the TPM secret t, the credential of  *)
(* the manifest, and the key of the capsule it formats.                    *)
(***************************************************************************)
EXTENDS Host

CONSTANT Enrollers
ASSUME EnrollersAssumption == Enrollers \subseteq Procs

VARIABLES
    epc,        \* the next step of each enrollment
    owned,      \* Mapping.owned: those that must detach the capsule mapping
    ramHeld,    \* those whose RamSecret exists
    eret,       \* what its run() returned
    ereported,  \* those that logged an error of a Drop
    durable     \* the enrollments whose state directory was synced at the end

enrollVars == <<epc, owned, ramHeld, eret, ereported, durable>>

EnrollLabels ==
    {"start", "disk", "mapping", "key", "ram", "create", "format", "format_wait",
     "attach", "attach_wait", "write", "close", "close_wait", "seal", "seal_wait",
     "reattach", "reattach_wait", "verify", "reclose", "reclose_wait", "manifest",
     "prompt", "add", "ram_cleanup", "recheck", "sync",
     "drop", "drop_wait", "drop_ram", "exit", "killed"}

EnrollTypeOK ==
    /\ epc \in [Enrollers -> EnrollLabels]
    /\ owned \subseteq Enrollers /\ ramHeld \subseteq Enrollers
    /\ eret \in [Enrollers -> {"none", "ok", "error"}]
    /\ ereported \subseteq Enrollers /\ durable \subseteq Enrollers

EnrollInit ==
    /\ epc = [e \in Enrollers |-> "start"]
    /\ owned = {} /\ ramHeld = {}
    /\ eret = [e \in Enrollers |-> "none"]
    /\ ereported = {} /\ durable = {}

-----------------------------------------------------------------------------
EAt(e, l) == epc[e] = l
EGoto(e, l) == epc' = [epc EXCEPT ![e] = l]

EKeep == UNCHANGED <<eret, ereported, durable>>
\* run() returns an error: Mapping is dropped first, then RamSecret.
EAbort(e) ==
    /\ EGoto(e, "drop")
    /\ eret' = [eret EXCEPT ![e] = "error"]
    /\ UNCHANGED <<ereported, durable>>

\* A step that only reads the machine: it goes on when it may, or fails.
Check(e, l, may, next) ==
    /\ EAt(e, l)
    /\ (may /\ EGoto(e, next) /\ EKeep) \/ EAbort(e)
    /\ UNCHANGED <<hostVars, owned, ramHeld>>

(***************************************************************************)
(* Nothing is enrolled in this directory, slot 4 is free, the capsule name *)
(* is free; then the key, the PIN and two touches at the security key.     *)
(***************************************************************************)
Checks(e) ==
    \/ Check(e, "start", /\ manifest[DirOf[e]] = Nobody
                         /\ capsule[DirOf[e]].stage = "absent", "disk")
    \/ Check(e, "disk", slot[RootOf[e]] = NoKey, "mapping")
    \/ Check(e, "mapping", ~Exists(CAPSULE_MAP), "key")
    \/ Check(e, "key", ~Cancelled(e), "ram")

EMakeRam(e) ==
    /\ EAt(e, "ram")
    /\ \/ /\ RamNew(e)
          /\ ramHeld' = ramHeld \cup {e}
          /\ EGoto(e, "create") /\ EKeep
       \/ \E left \in {"none", "dir"} :
            /\ RamNewFails(e, left)
            /\ EGoto(e, "drop")
            /\ eret' = [eret EXCEPT ![e] = "error"]
            /\ ereported' = IF left = "none" THEN ereported ELSE ereported \cup {e}
            /\ UNCHANGED <<ramHeld, durable>>
    /\ UNCHANGED <<mapper, helperVars, interrupted, capsule, manifest, slot, owned>>

\* Mutant: create instead of create_new.
CreateCapsuleAnyway(e) ==
    /\ EAt(e, "create")
    /\ \/ /\ capsule' = [capsule EXCEPT ![DirOf[e]] =
                            [by |-> e, stage |-> "empty", secret |-> Nobody]]
          /\ (EGoto(e, "format") /\ EKeep) \/ EAbort(e)
       \/ EAbort(e) /\ UNCHANGED capsule
    /\ UNCHANGED <<mapper, helperVars, interrupted, ram, manifest, slot, owned, ramHeld>>

\* create_new refuses a file that appeared since the first check; sizing the
\* new file may fail and leaves it there.
CreateCapsule(e) ==
    /\ EAt(e, "create")
    /\ \/ /\ capsule[DirOf[e]].stage = "absent"
          /\ capsule' = [capsule EXCEPT ![DirOf[e]] =
                            [by |-> e, stage |-> "empty", secret |-> Nobody]]
          /\ (EGoto(e, "format") /\ EKeep) \/ EAbort(e)
       \/ EAbort(e) /\ UNCHANGED capsule
    /\ UNCHANGED <<mapper, helperVars, interrupted, ram, manifest, slot, owned, ramHeld>>

\* process::keyed or run: the call is refused or the helper starts ...
Call(e, l, verb, name, wait) ==
    /\ EAt(e, l)
    /\ \/ ~Cancelled(e) /\ Spawn(e, verb, name, NoKey) /\ EGoto(e, wait) /\ EKeep
       \/ EAbort(e) /\ UNCHANGED helperVars
    /\ UNCHANGED <<mapper, interrupted, ram, capsule, manifest, slot, ramHeld>>

\* ... and it returns success only after the helper did.
Return(e, l, next) ==
    /\ EAt(e, l)
    /\ Reap(e)
    /\ (HelperSucceeded(e) /\ ~Cancelled(e) /\ EGoto(e, next) /\ EKeep) \/ EAbort(e)
    /\ UNCHANGED <<mapper, interrupted, ram, capsule, manifest, slot, owned, ramHeld>>

FormatCapsule(e) ==
    \/ Call(e, "format", "format", CAPSULE_MAP, "format_wait") /\ UNCHANGED owned
    \/ Return(e, "format_wait", "attach")

\* Mapping is set to owned before the helper runs, both times.
AttachCapsuleMap(e) ==
    \/ /\ Call(e, "attach", "attach", CAPSULE_MAP, "attach_wait")
       /\ owned' = owned \cup {e}
    \/ Return(e, "attach_wait", "write")
    \/ /\ Call(e, "reattach", "attach_ro", CAPSULE_MAP, "reattach_wait")
       /\ owned' = owned \cup {e}
    \/ Return(e, "reattach_wait", "verify")

\* The device behind the name is opened for writing, whoever mapped it.
WriteSecret(e) ==
    LET m == mapper[CAPSULE_MAP]
    IN  /\ EAt(e, "write")
        /\ \/ /\ m.rw
              /\ capsule' = IF m.by \in Procs
                            THEN [capsule EXCEPT ![DirOf[m.by]].secret = e]
                            ELSE capsule
              /\ (EGoto(e, "close") /\ EKeep) \/ EAbort(e)
           \/ EAbort(e) /\ UNCHANGED capsule
        /\ UNCHANGED <<mapper, helperVars, interrupted, ram, manifest, slot, owned, ramHeld>>

\* Mapping::close detaches what it owns and gives ownership up on success.
CloseMapping(e, l, wait, next) ==
    \/ /\ EAt(e, l)
       /\ \/ e \in owned /\ Spawn(e, "detach", CAPSULE_MAP, NoKey) /\ EGoto(e, wait) /\ EKeep
          \/ e \in owned /\ EAbort(e) /\ UNCHANGED helperVars
          \/ e \notin owned /\ EGoto(e, next) /\ EKeep /\ UNCHANGED helperVars
       /\ UNCHANGED <<mapper, interrupted, ram, capsule, manifest, slot, owned, ramHeld>>
    \/ /\ EAt(e, wait)
       /\ Reap(e)
       /\ \/ /\ HelperSucceeded(e)
             /\ owned' = owned \ {e}
             /\ EGoto(e, next) /\ EKeep
          \/ EAbort(e) /\ UNCHANGED owned
       /\ UNCHANGED <<mapper, interrupted, ram, capsule, manifest, slot, ramHeld>>

CloseMappings(e) ==
    \/ CloseMapping(e, "close", "close_wait", "seal")
    \/ CloseMapping(e, "reclose", "reclose_wait", "manifest")

\* systemd-cryptenroll binds the capsule to the TPM and wipes its other slots.
SealCapsule(e) ==
    \/ Call(e, "seal", "seal", CAPSULE_MAP, "seal_wait") /\ UNCHANGED owned
    \/ Return(e, "seal_wait", "reattach")

\* What the TPM opened must hash to what was written.
VerifySecret(e) ==
    Check(e, "verify", Exists(CAPSULE_MAP) /\ MappedSecret = e, "reclose")

\* Mutant: the manifest gets the wrong record.
WriteManifestKey(e) ==
    /\ EAt(e, "manifest")
    /\ \/ /\ ~Cancelled(e)
          /\ manifest' = [manifest EXCEPT ![DirOf[e]] = derive(e, e)]
          /\ EGoto(e, "prompt") /\ EKeep
       \/ EAbort(e) /\ UNCHANGED manifest
    /\ UNCHANGED <<mapper, helperVars, interrupted, ram, capsule, slot, owned, ramHeld>>
\* Mutant: a failure to write it is ignored.
WriteManifestIgnoring(e) ==
    /\ EAt(e, "manifest")
    /\ EGoto(e, "prompt") /\ EKeep
    /\ manifest' \in {manifest, [manifest EXCEPT ![DirOf[e]] = e]}
    /\ UNCHANGED <<mapper, helperVars, interrupted, ram, capsule, slot, owned, ramHeld>>

\* atomic_write renames over the name, after a last look at the signal flag.
WriteManifest(e) ==
    /\ EAt(e, "manifest")
    /\ \/ /\ ~Cancelled(e)
          /\ manifest' = [manifest EXCEPT ![DirOf[e]] = e]
          /\ EGoto(e, "prompt") /\ EKeep
       \/ EAbort(e) /\ UNCHANGED manifest
    /\ UNCHANGED <<mapper, helperVars, interrupted, ram, capsule, slot, owned, ramHeld>>

Prompt(e) == Check(e, "prompt", ~Cancelled(e), "add")

\* Mutant: the TPM secret is erased before the key is derived from it.
AddSlotErased(e) ==
    /\ EAt(e, "add")
    /\ \/ /\ slot[RootOf[e]] = NoKey
          /\ slot' = [slot EXCEPT ![RootOf[e]] = derive(Nobody, e)]
          /\ EGoto(e, "ram_cleanup") /\ EKeep
       \/ EAbort(e) /\ UNCHANGED slot
    /\ UNCHANGED <<mapper, helperVars, interrupted, ram, capsule, manifest, owned, ramHeld>>
\* disk::add checks the header again and then adds slot 4, which the library
\* refuses when the slot is in use.
AddSlot(e) ==
    /\ EAt(e, "add")
    /\ \/ /\ slot[RootOf[e]] = NoKey
          /\ slot' = [slot EXCEPT ![RootOf[e]] = derive(e, e)]
          /\ EGoto(e, "ram_cleanup") /\ EKeep
       \/ EAbort(e) /\ UNCHANGED slot
    /\ UNCHANGED <<mapper, helperVars, interrupted, ram, capsule, manifest, owned, ramHeld>>

ECleanupRam(e) ==
    /\ EAt(e, "ram_cleanup")
    /\ \/ RamCleanup(e) /\ EGoto(e, "recheck") /\ EKeep
       \/ RamCleanupFails(e) /\ EAbort(e)
    /\ UNCHANGED <<mapper, helperVars, interrupted, capsule, manifest, slot, owned, ramHeld>>

Recheck(e) == Check(e, "recheck", slot[RootOf[e]] # NoKey, "sync")

\* The directory is synced last; only then does the command succeed.
Sync(e) ==
    /\ EAt(e, "sync")
    /\ \/ /\ durable' = durable \cup {e}
          /\ EGoto(e, "drop")
          /\ eret' = [eret EXCEPT ![e] = "ok"]
          /\ UNCHANGED ereported
       \/ EAbort(e)
    /\ UNCHANGED <<hostVars, owned, ramHeld>>

\* Mutant: Mapping without a Drop.
DropNothing(e) ==
    /\ EAt(e, "drop")
    /\ EGoto(e, "drop_ram")
    /\ UNCHANGED <<hostVars, owned, ramHeld, eret, ereported, durable>>

\* Drop of Mapping: close(), an error is logged.
DropMapping(e) ==
    \/ /\ EAt(e, "drop")
       /\ \/ /\ e \in owned /\ Spawn(e, "detach", CAPSULE_MAP, NoKey)
             /\ EGoto(e, "drop_wait") /\ UNCHANGED ereported
          \/ /\ e \in owned
             /\ ereported' = ereported \cup {e}
             /\ EGoto(e, "drop_ram") /\ UNCHANGED helperVars
          \/ e \notin owned /\ EGoto(e, "drop_ram") /\ UNCHANGED <<helperVars, ereported>>
       /\ UNCHANGED <<mapper, interrupted, ram, capsule, manifest, slot, owned, ramHeld,
                      eret, durable>>
    \/ /\ EAt(e, "drop_wait")
       /\ Reap(e)
       /\ EGoto(e, "drop_ram")
       /\ \/ HelperSucceeded(e) /\ owned' = owned \ {e} /\ UNCHANGED ereported
          \/ ereported' = ereported \cup {e} /\ UNCHANGED owned
       /\ UNCHANGED <<mapper, interrupted, ram, capsule, manifest, slot, ramHeld, eret, durable>>

DropRamSecret(e) ==
    /\ EAt(e, "drop_ram")
    /\ EGoto(e, "exit")
    /\ \/ e \in ramHeld /\ RamCleanup(e) /\ UNCHANGED ereported
       \/ e \in ramHeld /\ RamCleanupFails(e) /\ ereported' = ereported \cup {e}
       \/ e \notin ramHeld /\ UNCHANGED <<ram, ereported>>
    /\ UNCHANGED <<mapper, helperVars, interrupted, capsule, manifest, slot, owned, ramHeld,
                   eret, durable>>

EnrollStep(e) ==
    \/ Checks(e) \/ EMakeRam(e) \/ CreateCapsule(e) \/ FormatCapsule(e)
    \/ AttachCapsuleMap(e) \/ WriteSecret(e) \/ CloseMappings(e) \/ SealCapsule(e)
    \/ VerifySecret(e) \/ WriteManifest(e) \/ Prompt(e) \/ AddSlot(e)
    \/ ECleanupRam(e) \/ Recheck(e) \/ Sync(e) \/ DropMapping(e) \/ DropRamSecret(e)

-----------------------------------------------------------------------------
(***************************************************************************)
(* cryptsetup luksFormat and systemd-cryptenroll, from how they are used:  *)
(* they work on the capsule file itself.                                   *)
(***************************************************************************)
HelperFormats(e) ==
    /\ child[e] = "running" /\ helper[e].verb = "format"
    /\ capsule' = [capsule EXCEPT ![DirOf[e]].stage = "formatted"]
    /\ child' = [child EXCEPT ![e] = "ok"]
    /\ UNCHANGED <<mapper, helper, interrupted, ram, manifest, slot>>

HelperSeals(e) ==
    /\ child[e] = "running" /\ helper[e].verb = "seal"
    /\ capsule[DirOf[e]].stage = "formatted"
    /\ capsule' = [capsule EXCEPT ![DirOf[e]].stage = "sealed"]
    /\ child' = [child EXCEPT ![e] = "ok"]
    /\ UNCHANGED <<mapper, helper, interrupted, ram, manifest, slot>>

EnrollOutside(e) ==
    /\ Interrupt(e) \/ HelperStep(e) \/ HelperFormats(e) \/ HelperSeals(e)
    /\ UNCHANGED enrollVars

\* SIGKILL or the end of the session, at any step of the command.
EnrollKill(e) ==
    /\ epc[e] \notin {"exit", "killed"}
    /\ EGoto(e, "killed")
    /\ UNCHANGED <<hostVars, owned, ramHeld, eret, ereported, durable>>
=============================================================================
