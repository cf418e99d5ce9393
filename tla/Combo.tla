-------------------------------- MODULE Combo --------------------------------
(***************************************************************************)
(* All three commands on one machine: unlock and verify exclude each other *)
(* by the operation lock, enroll runs beside them and beside itself.       *)
(***************************************************************************)
EXTENDS Unlock, Enroll

\* An invocation runs one command; its token is not a directory's.
ASSUME CommandsAssumption == Enrollers \cap Ops = {} /\ Procs \cap Dirs = {}

comboVars == <<vars, enrollVars>>

ComboInit == HostInit /\ OpInit /\ EnrollInit

ComboFinished == Finished /\ \A e \in Enrollers : epc[e] \in {"exit", "killed"}

\* One step of one invocation, of its helper, or of a signal to it ...
StepOf(p) ==
    \/ p \in Ops /\ (OpStep(p) \/ Outside(p)) /\ UNCHANGED enrollVars
    \/ p \in Enrollers /\ (EnrollStep(p) \/ EnrollOutside(p)) /\ UNCHANGED opVars
\* ... and its death.
KillOf(p) ==
    \/ p \in Ops /\ Kill(p) /\ UNCHANGED enrollVars
    \/ p \in Enrollers /\ EnrollKill(p) /\ UNCHANGED opVars

ComboNext ==
    \/ \E p \in Ops \cup Enrollers : StepOf(p)
    \/ ComboFinished /\ UNCHANGED comboVars

ComboSpec == ComboInit /\ [][ComboNext]_comboVars

\* The same with deaths at any step.
ComboKillNext == ComboNext \/ \E p \in Ops \cup Enrollers : KillOf(p)
ComboKillSpec == ComboInit /\ [][ComboKillNext]_comboVars

ComboFairSpec ==
    /\ ComboSpec
    /\ \A p \in Ops : WF_comboVars(OpStep(p) /\ UNCHANGED enrollVars)
    /\ \A e \in Enrollers : WF_comboVars(EnrollStep(e) /\ UNCHANGED opVars)

ComboTypeOK == TypeOK /\ EnrollTypeOK

-----------------------------------------------------------------------------
(***************************************************************************)
(* "Never overwrite an existing credential, capsule or keyslot"            *)
(* (enroll.rs): a finished manifest, a sealed capsule and a used slot 4    *)
(* stay as they are, whoever enrolls in the same directory or for the same *)
(* device at the same time.                                                *)
(***************************************************************************)
NeverOverwrites ==
    [][/\ \A d \in Dirs :
            /\ manifest[d] # Nobody => manifest'[d] = manifest[d]
            /\ capsule[d].stage = "sealed" => capsule'[d] = capsule[d]
       /\ \A r \in Roots : slot[r] # NoKey => slot'[r] = slot[r]]_comboVars

\* Slot 4 holds the key that the sealed capsule and the manifest of the
\* directory yield ...
HasKey(e) ==
    /\ capsule[DirOf[e]].stage = "sealed"
    /\ slot[RootOf[e]] = derive(capsule[DirOf[e]].secret, manifest[DirOf[e]])

\* ... and the directory is synced, so that this is all an unlock needs.
CanUnlock(e) == HasKey(e) /\ e \in durable

\* No enrollment was started for another directory than that of e.
OneDirectory(e) == \A f \in Enrollers : EAt(f, "start") \/ DirOf[f] = DirOf[e]

(***************************************************************************)
(* An enrollment that succeeds can be unlocked with (README.md, "verifies  *)
(* TPM unsealing"; enroll.rs, the verification of the capsule).            *)
(***************************************************************************)
EnrolledCanUnlock == \A e \in Enrollers : eret[e] = "ok" => CanUnlock(e)

(***************************************************************************)
(* The same for enrollments beside which none was started for another      *)
(* directory: neither an unlock, nor a verification, nor the death of an   *)
(* earlier enrollment of the same directory and what its helper still does *)
(* can make an enrollment succeed with a capsule, a manifest and a slot    *)
(* that do not belong together (enroll.rs).                                *)
(***************************************************************************)
OneDirectoryCanUnlock ==
    \A e \in Enrollers :
        eret[e] = "ok" /\ OneDirectory(e) => CanUnlock(e)

(***************************************************************************)
(* A key is added to slot 4 only once the manifest and the sealed capsule  *)
(* it is derived from are in place, so that an enrollment interrupted or   *)
(* killed anywhere leaves no slot whose key its own directory does not     *)
(* yield.  The exception is finding 3: beside an enrollment for another    *)
(* directory the capsule may hold the secret of that one (enroll.rs).      *)
(***************************************************************************)
SlotCanBeDerived ==
    \A e \in Enrollers : slot[RootOf[e]].m = e =>
        /\ manifest[DirOf[e]] = e /\ capsule[DirOf[e]].stage = "sealed"
        /\ OneDirectory(e) => HasKey(e)

(***************************************************************************)
(* An enrollment that returned without logging an error of a Drop left     *)
(* neither the capsule mapped nor its ramfs mounted (enroll.rs, Mapping).  *)
(***************************************************************************)
EnrollLeaksNothing ==
    \A e \in Enrollers : EAt(e, "exit") /\ e \notin ereported =>
        mapper[CAPSULE_MAP].by # e /\ ram[e] = "none"

(***************************************************************************)
(* Every command returns, whatever its helpers and the other commands do   *)
(* (unlock.rs and enroll.rs; every call of a helper has a deadline).       *)
(***************************************************************************)
EveryCommandReturns == EveryRunReturns /\ \A e \in Enrollers : <>EAt(e, "exit")
=============================================================================
