---------------------------- MODULE EnrollProofs ----------------------------
(***************************************************************************)
(* The safety of the three commands beside each other, for any number of   *)
(* invocations, any directories and devices, and deaths at any step: first *)
(* that of the enrollments, then that of the unlocks and verifications.    *)
(***************************************************************************)
EXTENDS ComboInv, UnlockProofs

LEMMA Tokens ==
    /\ Enrollers \subseteq Procs /\ Enrollers \subseteq Token
    /\ \A p \in Procs : DirOf[p] \in Dirs /\ RootOf[p] \in Roots
    /\ \A e \in Enrollers : e # Nobody /\ e # Stranger /\ e \notin Ops /\ e \notin Dirs
    /\ \A e \in Enrollers : derive(e, e) \in Key /\ derive(e, e) # NoKey /\ derive(e, e).m = e
    /\ CAPSULE_MAP \in Names /\ NoKey \in Key /\ NoHelper \in Helper
BY ConfigAssumption, SentinelAssumption, EnrollersAssumption, CommandsAssumption
   DEF Token, derive, Key, NoKey, Names, NoHelper, Helper, Verbs, CAPSULE_MAP

(***************************************************************************)
(* What a step of one enrollment does beyond its own variables.            *)
(***************************************************************************)
DiskStep(e) ==
    \/ UNCHANGED <<capsule, manifest, slot>>
    \/ /\ EAt(e, "create") /\ Stage(e) = "absent"
       /\ capsule' = [capsule EXCEPT ![DirOf[e]] =
                         [by |-> e, stage |-> "empty", secret |-> Nobody]]
       /\ UNCHANGED <<manifest, slot>>
    \/ /\ EAt(e, "write")
       /\ \E p \in Procs :
            Writable(p) /\ capsule' = [capsule EXCEPT ![DirOf[p]].secret = e]
       /\ UNCHANGED <<manifest, slot>>
    \/ /\ EAt(e, "manifest")
       /\ manifest' = [manifest EXCEPT ![DirOf[e]] = e]
       /\ UNCHANGED <<capsule, slot>>
    \/ /\ EAt(e, "add") /\ slot[RootOf[e]] = NoKey
       /\ slot' = [slot EXCEPT ![RootOf[e]] = derive(e, e)]
       /\ UNCHANGED <<capsule, manifest>>

HelperStepOf(e) ==
    \/ UNCHANGED helperVars
    \/ Reap(e)
    \/ \E v \in {"attach", "attach_ro", "detach", "format", "seal"} : Spawn(e, v, CAPSULE_MAP, NoKey)

LEMMA EnrollEffect ==
    ASSUME ComboTypeOK, NEW e \in Enrollers, EnrollStep(e)
    PROVE  /\ UNCHANGED <<mapper, interrupted>> /\ DiskStep(e) /\ HelperStepOf(e)
           /\ ram' \in [Procs -> {"none", "dir", "mounted"}]
           /\ \E l \in EnrollLabels : epc' = [epc EXCEPT ![e] = l]
           /\ \E r \in {"none", "ok", "error"} : eret' = [eret EXCEPT ![e] = r]
           /\ owned' \in {owned, owned \cup {e}, owned \ {e}}
           /\ ramHeld' \subseteq Enrollers /\ ereported' \subseteq Enrollers
           /\ durable' \in {durable, durable \cup {e}}
<1> USE Tokens DEF ComboTypeOK, TypeOK, HostTypeOK, EnrollTypeOK, EnrollLabels, EAt, EGoto, EKeep,
        EAbort, Check, Call, Return, DiskStep, HelperStepOf, hostVars, helperVars, Stage
<1>1. CASE Checks(e)  BY <1>1 DEF Checks
<1>2. CASE EMakeRam(e)  BY <1>2 DEF EMakeRam, RamNew, RamNewFails
<1>3. CASE CreateCapsule(e)  BY <1>3 DEF CreateCapsule
<1>4. CASE FormatCapsule(e)  BY <1>4 DEF FormatCapsule
<1>5. CASE AttachCapsuleMap(e)  BY <1>5 DEF AttachCapsuleMap
<1>6. CASE WriteSecret(e)
  <2>1. DiskStep(e)
    <3>1. CASE UNCHANGED capsule  BY <1>6, <3>1 DEF WriteSecret
    <3>2. CASE /\ mapper[CAPSULE_MAP].by \in Procs /\ mapper[CAPSULE_MAP].rw
               /\ capsule' = [capsule EXCEPT ![DirOf[mapper[CAPSULE_MAP].by]].secret = e]
      <4>1. Writable(mapper[CAPSULE_MAP].by)  BY <3>2 DEF Writable
      <4> QED  BY <1>6, <3>2, <4>1 DEF WriteSecret
    <3> QED  BY <1>6, <3>1, <3>2 DEF WriteSecret
  <2> QED  BY <1>6, <2>1 DEF WriteSecret
<1>7. CASE CloseMappings(e)  BY <1>7 DEF CloseMappings, CloseMapping
<1>8. CASE SealCapsule(e)  BY <1>8 DEF SealCapsule
<1>9. CASE VerifySecret(e)  BY <1>9 DEF VerifySecret
<1>10. CASE WriteManifest(e)  BY <1>10 DEF WriteManifest
<1>11. CASE Prompt(e)  BY <1>11 DEF Prompt
<1>12. CASE AddSlot(e)  BY <1>12 DEF AddSlot
<1>13. CASE ECleanupRam(e)  BY <1>13 DEF ECleanupRam, RamCleanup, RamCleanupFails
<1>14. CASE Recheck(e)  BY <1>14 DEF Recheck
<1>15. CASE Sync(e)  BY <1>15 DEF Sync
<1>16. CASE DropMapping(e)  BY <1>16 DEF DropMapping
<1>17. CASE DropRamSecret(e)  BY <1>17 DEF DropRamSecret, RamCleanup, RamCleanupFails
<1> QED
  BY <1>1, <1>2, <1>3, <1>4, <1>5, <1>6, <1>7, <1>8, <1>9, <1>10, <1>11, <1>12, <1>13, <1>14,
     <1>15, <1>16, <1>17 DEF EnrollStep

\* What is written to the disk is of the right type.
LEMMA DiskTypes ==
    ASSUME ComboTypeOK, NEW e \in Enrollers, DiskStep(e)
    PROVE  capsule' \in [Dirs -> Capsule] /\ manifest' \in [Dirs -> Token] /\ slot' \in [Roots -> Key]
<1> DEFINE new == [by |-> e, stage |-> "empty", secret |-> Nobody]
<1>1. capsule \in [Dirs -> Capsule] /\ manifest \in [Dirs -> Token] /\ slot \in [Roots -> Key]
  BY DEF ComboTypeOK, TypeOK, HostTypeOK
<1>2. new \in Capsule /\ e \in Token /\ derive(e, e) \in Key
  BY Tokens DEF Capsule, Token
<1>3. DirOf[e] \in Dirs /\ RootOf[e] \in Roots /\ \A p \in Procs : DirOf[p] \in Dirs
  BY Tokens
<1>4. CASE capsule' = [capsule EXCEPT ![DirOf[e]] = new] /\ UNCHANGED <<manifest, slot>>
  <2> HIDE DEF new
  <2> QED  BY <1>1, <1>2, <1>3, <1>4
<1>5. CASE /\ \E p \in Procs : capsule' = [capsule EXCEPT ![DirOf[p]].secret = e]
           /\ UNCHANGED <<manifest, slot>>
  <2>1. PICK p \in Procs : capsule' = [capsule EXCEPT ![DirOf[p]].secret = e]
    BY <1>5
  <2>2. [capsule[DirOf[p]] EXCEPT !.secret = e] \in Capsule
    BY <1>1, <1>2, <1>3 DEF Capsule
  <2> QED  BY <1>1, <1>3, <1>5, <2>1, <2>2
<1>6. CASE manifest' = [manifest EXCEPT ![DirOf[e]] = e] /\ UNCHANGED <<capsule, slot>>
  BY <1>1, <1>2, <1>3, <1>6
<1>7. CASE slot' = [slot EXCEPT ![RootOf[e]] = derive(e, e)] /\ UNCHANGED <<capsule, manifest>>
  BY <1>1, <1>2, <1>3, <1>7
<1> QED  BY <1>1, <1>4, <1>5, <1>6, <1>7 DEF DiskStep

LEMMA EnrollTypes ==
    ASSUME ComboTypeOK, NEW e \in Enrollers, EnrollStep(e), UNCHANGED opVars
    PROVE  ComboTypeOK'
<1> USE Tokens
<1>1. OpTypeOK'
  BY DEF ComboTypeOK, TypeOK, OpTypeOK, MemTypeOK, opVars, memVars
<1>2. EnrollTypeOK'
  <2> USE DEF ComboTypeOK, EnrollTypeOK
  <2>1. epc' \in [Enrollers -> EnrollLabels] /\ eret' \in [Enrollers -> {"none", "ok", "error"}]
    BY EnrollEffect
  <2>2. owned' \subseteq Enrollers /\ durable' \subseteq Enrollers
    BY EnrollEffect
  <2> QED  BY <2>1, <2>2, EnrollEffect
<1>3. HostTypeOK'
  <2> USE DEF ComboTypeOK, TypeOK, HostTypeOK
  <2>1. mapper' \in [Names -> Mapping] /\ interrupted' \subseteq Procs
        /\ ram' \in [Procs -> {"none", "dir", "mounted"}]
    BY EnrollEffect
  <2>2. HelperTypeOK'
    <3>1. HelperTypeOK  BY DEF HelperTypeOK
    <3>2. CASE \E v \in {"attach", "attach_ro", "detach", "format", "seal"} :
                  Spawn(e, v, CAPSULE_MAP, NoKey)
      BY <3>1, <3>2, SpawnType DEF Verbs
    <3> QED  BY <3>1, <3>2, ReapType, EnrollEffect DEF HelperStepOf, HelperTypeOK, helperVars
  <2>3. capsule' \in [Dirs -> Capsule] /\ manifest' \in [Dirs -> Token] /\ slot' \in [Roots -> Key]
    BY EnrollEffect, DiskTypes DEF DiskStep
  <2> QED  BY <2>1, <2>2, <2>3 DEF HelperTypeOK
<1> QED  BY <1>1, <1>2, <1>3 DEF ComboTypeOK, TypeOK

(***************************************************************************)
(* What was written stays: a step of an enrollment creates a capsule where *)
(* there is none, changes the secret of one that is being filled, and      *)
(* writes only its own manifest and a slot that is free.                   *)
(***************************************************************************)
LEMMA DiskKept ==
    ASSUME EInv, NEW e \in Enrollers, EnrollStep(e)
    PROVE  /\ \A d \in Dirs :
                /\ capsule[d].stage # "absent" =>
                      capsule'[d].by = capsule[d].by /\ capsule'[d].stage = capsule[d].stage
                /\ capsule[d].stage = "sealed" => capsule'[d] = capsule[d]
                /\ capsule'[d].stage = "absent" => capsule[d].stage = "absent"
                /\ manifest'[d] # manifest[d] =>
                      manifest[d] = Nobody /\ capsule[d].by = e /\ capsule[d].stage = "sealed"
                      /\ manifest'[d] = e /\ d = DirOf[e] /\ epc[e] = "manifest"
           /\ \A r \in Roots : slot'[r] # slot[r] =>
                slot[r] = NoKey /\ slot'[r] = derive(e, e) /\ epc[e] = "add" /\ r = RootOf[e]
<1> USE Tokens DEF ComboTypeOK, TypeOK, HostTypeOK
<1>1. ComboTypeOK /\ LocalEnrollInv(e) /\ WritableInv
  BY DEF EInv
<1>2. DiskStep(e)  BY <1>1, EnrollEffect
<1>3. CASE UNCHANGED <<capsule, manifest, slot>>  BY <1>3
<1>4. CASE /\ EAt(e, "create") /\ Stage(e) = "absent"
           /\ capsule' = [capsule EXCEPT ![DirOf[e]] =
                             [by |-> e, stage |-> "empty", secret |-> Nobody]]
           /\ UNCHANGED <<manifest, slot>>
  BY <1>1, <1>4 DEF Stage
<1>5. CASE /\ EAt(e, "write")
           /\ \E p \in Procs :
                Writable(p) /\ capsule' = [capsule EXCEPT ![DirOf[p]].secret = e]
           /\ UNCHANGED <<manifest, slot>>
  BY <1>1, <1>5 DEF WritableInv, Stage, Capsule
<1>6. CASE /\ EAt(e, "manifest")
           /\ manifest' = [manifest EXCEPT ![DirOf[e]] = e]
           /\ UNCHANGED <<capsule, slot>>
  BY <1>1, <1>6 DEF LocalEnrollInv, StepInv, Verified, OurCapsule, Stage, EAt
<1>7. CASE /\ EAt(e, "add") /\ slot[RootOf[e]] = NoKey
           /\ slot' = [slot EXCEPT ![RootOf[e]] = derive(e, e)]
           /\ UNCHANGED <<capsule, manifest>>
  BY <1>1, <1>7 DEF EAt
<1> QED  BY <1>2, <1>3, <1>4, <1>5, <1>6, <1>7 DEF DiskStep

\* What an enrollment does leaves the others where they are.
LEMMA EnrollOthers ==
    ASSUME ComboTypeOK, NEW e \in Enrollers, EnrollStep(e)
    PROVE  /\ mapper' = mapper
           /\ \A q \in Procs : q # e => helper'[q] = helper[q] /\ child'[q] = child[q]
           /\ \A f \in Enrollers : f # e =>
                /\ epc'[f] = epc[f] /\ eret'[f] = eret[f]
                /\ (f \in owned' <=> f \in owned) /\ (f \in durable' <=> f \in durable)
<1> USE Tokens, EnrollEffect DEF ComboTypeOK, TypeOK, HostTypeOK, EnrollTypeOK
<1>1. \A q \in Procs : q # e => helper'[q] = helper[q] /\ child'[q] = child[q]
  BY DEF HelperStepOf, Reap, Spawn, helperVars
<1>2. \A f \in Enrollers : f # e => epc'[f] = epc[f] /\ eret'[f] = eret[f]
  OBVIOUS
<1> QED  BY <1>1, <1>2

(***************************************************************************)
(* The part of the enrollment that takes the step.                         *)
(***************************************************************************)
LEMMA ActorEnroll ==
    ASSUME EInv, NEW e \in Enrollers, EnrollStep(e)
    PROVE  CallInv(e)' /\ EffectInv(e)' /\ StepInv(e)'
<1> USE Tokens DEF EnrollLabels, EAt, EGoto, EKeep, EAbort, Check, Call, Return, hostVars, helperVars,
        VerbAt, Filling, Verifying, Verified, Published, Added, OurCapsule, Stage, Writable, Runs,
        CallInv, EffectInv, StepInv, Spawn, Reap, HelperSucceeded, NoHelper
<1>1. /\ epc \in [Enrollers -> EnrollLabels] /\ owned \subseteq Enrollers
      /\ helper \in [Procs -> Helper] /\ child \in [Procs -> {"none", "running", "ok", "failed"}]
      /\ capsule \in [Dirs -> Capsule] /\ manifest \in [Dirs -> Token] /\ slot \in [Roots -> Key]
      /\ CallInv(e) /\ EffectInv(e) /\ StepInv(e)
  BY DEF EInv, LocalEnrollInv, ComboTypeOK, TypeOK, HostTypeOK, EnrollTypeOK
<1>2. CASE Checks(e)  BY <1>1, <1>2 DEF Checks
<1>3. CASE EMakeRam(e)  BY <1>1, <1>3 DEF EMakeRam
<1>4. CASE CreateCapsule(e)
  BY <1>1, <1>4 DEF CreateCapsule, EInv, CapsuleFirst
<1>5. CASE FormatCapsule(e)  BY <1>1, <1>5 DEF FormatCapsule, Capsule
<1>6. CASE AttachCapsuleMap(e)  BY <1>1, <1>6 DEF AttachCapsuleMap
<1>7. CASE WriteSecret(e)  BY <1>1, <1>7, DiskKept DEF WriteSecret
<1>8. CASE CloseMappings(e)  BY <1>1, <1>8 DEF CloseMappings, CloseMapping
<1>9. CASE SealCapsule(e)  BY <1>1, <1>9 DEF SealCapsule
<1>10. CASE VerifySecret(e)  BY <1>1, <1>10 DEF VerifySecret
<1>11. CASE WriteManifest(e)  BY <1>1, <1>11 DEF WriteManifest
<1>12. CASE Prompt(e)  BY <1>1, <1>12 DEF Prompt
<1>13. CASE AddSlot(e)  BY <1>1, <1>13 DEF AddSlot
<1>14. CASE ECleanupRam(e)  BY <1>1, <1>14 DEF ECleanupRam
<1>15. CASE Recheck(e)  BY <1>1, <1>15 DEF Recheck
<1>16. CASE Sync(e)  BY <1>1, <1>16 DEF Sync
<1>17. CASE DropMapping(e)  BY <1>1, <1>17 DEF DropMapping
<1>18. CASE DropRamSecret(e)  BY <1>1, <1>18 DEF DropRamSecret
<1> QED
  BY <1>2, <1>3, <1>4, <1>5, <1>6, <1>7, <1>8, <1>9, <1>10, <1>11, <1>12, <1>13, <1>14, <1>15,
     <1>16, <1>17, <1>18 DEF EnrollStep

\* The parts of the other enrollments, and those about all of them.
LEMMA OtherEnroll ==
    ASSUME EInv, NEW e \in Enrollers, EnrollStep(e), NEW f \in Enrollers, f # e
    PROVE  CallInv(f)' /\ EffectInv(f)' /\ StepInv(f)'
<1> USE Tokens
<1>1. /\ CallInv(f) /\ EffectInv(f) /\ StepInv(f) /\ f \in Procs
      /\ DirOf[f] \in Dirs /\ RootOf[f] \in Roots
  BY DEF EInv, LocalEnrollInv
<1>2. /\ mapper' = mapper /\ helper'[f] = helper[f] /\ child'[f] = child[f] /\ epc'[f] = epc[f]
      /\ (f \in owned' <=> f \in owned)
  BY <1>1, EnrollOthers DEF EInv
<1>3. CallInv(f)'  BY <1>1, <1>2 DEF CallInv
<1>4. EffectInv(f)'
  BY <1>1, <1>2, DiskKept DEF EffectInv, Runs, OurCapsule, Stage, Writable
<1>5. StepInv(f)'
  BY <1>1, <1>2, DiskKept
     DEF StepInv, OurCapsule, Stage, Writable, Filling, Verifying, Verified, Published, Added
<1> QED  BY <1>3, <1>4, <1>5

LEMMA EnrollShared ==
    ASSUME EInv, NEW e \in Enrollers, EnrollStep(e)
    PROVE  WritableInv' /\ ReaderInv' /\ CapsuleFirst'
<1> USE Tokens
<1>1. ComboTypeOK /\ WritableInv /\ ReaderInv /\ CapsuleFirst /\ StepInv(e)
  BY DEF EInv, LocalEnrollInv
<1>2. mapper' = mapper  BY <1>1, EnrollOthers
<1>3. \A f \in Enrollers : epc[f] # "start" => epc'[f] # "start"
  <2>1. epc'[e] # "start"
    BY <1>1
       DEF ComboTypeOK, EnrollTypeOK, EnrollStep, Checks, EMakeRam, CreateCapsule, FormatCapsule,
       AttachCapsuleMap, WriteSecret, CloseMappings, CloseMapping, SealCapsule, VerifySecret,
       WriteManifest, Prompt, AddSlot, ECleanupRam, Recheck, Sync, DropMapping, DropRamSecret,
       Check, Call, Return, EGoto, EAbort
  <2> QED  BY <2>1, <1>1, EnrollOthers
<1>4. WritableInv'
  BY <1>1, <1>2, <1>3, DiskKept DEF WritableInv, Writable, OurCapsule, Stage
<1>5. ReaderInv'
  BY <1>1, EnrollOthers, OpsAssumption DEF ReaderInv, Ops
<1>6. CapsuleFirst'
  BY <1>1, DiskKept DEF CapsuleFirst
<1> QED  BY <1>4, <1>5, <1>6

\* Once an enrollment was started it stays so.
LEMMA Started ==
    ASSUME EInv, NEW e \in Enrollers, EnrollStep(e), NEW f \in Enrollers, OneDirectory(f)'
    PROVE  OneDirectory(f) /\ (DirOf[e] = DirOf[f])
<1>1. ComboTypeOK  BY DEF EInv
<1>2. epc'[e] # "start"
  BY <1>1
     DEF ComboTypeOK, EnrollTypeOK, EnrollStep, Checks, EMakeRam, CreateCapsule, FormatCapsule,
     AttachCapsuleMap, WriteSecret, CloseMappings, CloseMapping, SealCapsule, VerifySecret,
     WriteManifest, Prompt, AddSlot, ECleanupRam, Recheck, Sync, DropMapping, DropRamSecret,
     Check, Call, Return, EGoto, EAbort
<1> QED  BY <1>1, <1>2, EnrollOthers DEF OneDirectory, EAt

(***************************************************************************)
(* In one directory only its own enrollments write, so that a secret seen  *)
(* through the mapping is that of the capsule.                             *)
(***************************************************************************)
LEMMA EnrollSecrets ==
    ASSUME EInv, NEW e \in Enrollers, EnrollStep(e), NEW f \in Enrollers
    PROVE  SecretInv(f)'
<1> USE Tokens
<1> SUFFICES ASSUME OneDirectory(f)'
             PROVE  /\ \A d \in Dirs : d # DirOf[f] => capsule'[d].secret \notin Enrollers
                    /\ epc'[f] \in Verified \cup Published \cup Added =>
                          capsule'[DirOf[f]].secret = f
  BY DEF SecretInv
<1>1. /\ ComboTypeOK /\ WritableInv /\ OneDirectory(f) /\ DirOf[e] = DirOf[f]
      /\ SecretInv(f) /\ StepInv(f) /\ CallInv(f)
      /\ capsule \in [Dirs -> Capsule]
  BY Started DEF EInv, LocalEnrollInv, ComboTypeOK, TypeOK, HostTypeOK
<1>2. \A d \in Dirs : d # DirOf[f] => capsule'[d].secret \notin Enrollers
  <2>1. \A p \in Procs : Writable(p) => DirOf[p] = DirOf[f]
    BY <1>1 DEF WritableInv, OneDirectory, EAt
  <2>2. \A d \in Dirs : d # DirOf[f] => capsule'[d] = capsule[d]
    <3>1. \/ capsule' = capsule
          \/ capsule' = [capsule EXCEPT ![DirOf[e]] =
                            [by |-> e, stage |-> "empty", secret |-> Nobody]]
          \/ \E p \in Procs :
                Writable(p) /\ capsule' = [capsule EXCEPT ![DirOf[p]].secret = e]
      BY <1>1, EnrollEffect DEF DiskStep
    <3>2. CASE \E p \in Procs :
                 Writable(p) /\ capsule' = [capsule EXCEPT ![DirOf[p]].secret = e]
      BY <1>1, <2>1, <3>2
    <3> QED  BY <1>1, <3>1, <3>2
  <2> QED  BY <1>1, <2>2 DEF SecretInv
<1>3. ASSUME epc'[f] \in Verified \cup Published \cup Added
      PROVE  capsule'[DirOf[f]].secret = f
  <2>1. CASE epc[f] \in Verified \cup Published \cup Added
    BY <1>1, <2>1, DiskKept DEF SecretInv, StepInv, Stage
  <2>2. CASE epc[f] \notin Verified \cup Published \cup Added
    <3>1. e = f
      BY <1>1, <1>3, <2>2, EnrollOthers
    <3>2. VerifySecret(e) /\ epc'[e] # "drop"
      BY <1>1, <1>3, <2>2, <3>1
         DEF ComboTypeOK, EnrollTypeOK, EnrollStep, Checks, EMakeRam, CreateCapsule, FormatCapsule,
         AttachCapsuleMap, WriteSecret, CloseMappings, CloseMapping, SealCapsule, VerifySecret,
         WriteManifest, Prompt, AddSlot, ECleanupRam, Recheck, Sync, DropMapping, DropRamSecret,
         Check, Call, Return, EGoto, EAbort, EAt, Verified, Published, Added
    <3>3. MappedSecret = e /\ UNCHANGED capsule
      BY <1>1, <3>2
         DEF VerifySecret, Check, EAbort, EGoto, hostVars, ComboTypeOK, EnrollTypeOK
    <3>4. capsule[DirOf[f]].secret = f
      BY <1>1, <3>1, <3>3 DEF MappedSecret, SecretInv
    <3> QED  BY <3>3, <3>4
  <2> QED  BY <2>1, <2>2
<1> QED  BY <1>2, <1>3

\* A slot is added when manifest and capsule are there; they stay.
LEMMA EnrollSlots ==
    ASSUME EInv, NEW e \in Enrollers, EnrollStep(e), NEW f \in Enrollers
    PROVE  SlotInv(f)'
<1> USE Tokens
<1>1. /\ ComboTypeOK /\ SlotInv(f) /\ StepInv(f) /\ SecretInv(f)
  BY DEF EInv, LocalEnrollInv
<1> SUFFICES ASSUME slot'[RootOf[f]].m = f
             PROVE  SlotInv(f)'
  BY DEF SlotInv
<1>2. CASE slot[RootOf[f]].m = f
  BY <1>1, <1>2, DiskKept, Started DEF SlotInv, Stage
<1>3. CASE slot[RootOf[f]].m # f
  <2>1. epc[f] = "add" /\ slot'[RootOf[f]] = derive(f, f)
    BY <1>1, <1>3, DiskKept
  <2> QED
    BY <1>1, <2>1, DiskKept, Started
       DEF SlotInv, Stage, StepInv, SecretInv, Published
<1> QED  BY <1>2, <1>3

LEMMA EnrollEnds ==
    ASSUME EInv, NEW e \in Enrollers, EnrollStep(e), NEW f \in Enrollers
    PROVE  EndInv(f)'
<1> USE Tokens
<1>1. /\ ComboTypeOK /\ EndInv(f) /\ StepInv(f) /\ SecretInv(f)
  BY DEF EInv, LocalEnrollInv
<1> SUFFICES ASSUME eret'[f] = "ok"
             PROVE  EndInv(f)'
  BY DEF EndInv
<1>2. CASE eret[f] = "ok"
  BY <1>1, <1>2, DiskKept, EnrollEffect, Started DEF EndInv, Stage
<1>3. CASE eret[f] # "ok"
  <2>1. e = f
    BY <1>1, <1>3, EnrollOthers
  <2>2. Sync(e) /\ f \in durable' /\ epc[f] = "sync"
    BY <1>1, <1>3, <2>1
       DEF ComboTypeOK, EnrollTypeOK, EnrollStep, Checks, EMakeRam, CreateCapsule, FormatCapsule,
       AttachCapsuleMap, WriteSecret, CloseMappings, CloseMapping, SealCapsule, VerifySecret,
       WriteManifest, Prompt, AddSlot, ECleanupRam, Recheck, Sync, DropMapping, DropRamSecret,
       Check, Call, Return, EGoto, EAbort, EAt, EKeep
  <2> QED
    BY <1>1, <2>1, <2>2, Started
       DEF EndInv, Stage, Sync, hostVars, StepInv, SecretInv, Added
<1> QED  BY <1>2, <1>3

LEMMA EnrollStepInv ==
    ASSUME EInv, NEW e \in Enrollers, EnrollStep(e), UNCHANGED opVars
    PROVE  EInv'
<1>1. ComboTypeOK'  BY EnrollTypes DEF EInv
<1>2. \A f \in Enrollers : LocalEnrollInv(f)'
  BY ActorEnroll, OtherEnroll, EnrollSecrets, EnrollSlots, EnrollEnds DEF LocalEnrollInv
<1> QED  BY <1>1, <1>2, EnrollShared DEF EInv

-----------------------------------------------------------------------------
(***************************************************************************)
(* The helpers.  One of them maps or unmaps a name, or works on the        *)
(* capsule of its enrollment.                                              *)
(***************************************************************************)
LEMMA HelperTypes ==
    ASSUME HostTypeOK, NEW p \in Procs, HelperStep(p) \/ Interrupt(p)
    PROVE  HostTypeOK'
<1> USE DEF HostTypeOK, helperVars
<1>1. CASE HelperAttaches(p)
  <2>1. [by |-> p, rw |-> helper[p].verb = "attach"] \in Mapping /\ helper[p].name \in Names
    BY DEF Mapping, Helper
  <2> QED  BY <1>1, <2>1 DEF HelperAttaches
<1>2. CASE HelperDetaches(p)
  <2>1. Unmapped \in Mapping /\ helper[p].name \in Names
    BY DEF Mapping, Helper, Unmapped
  <2> QED  BY <1>2, <2>1 DEF HelperDetaches
<1>3. CASE HelperFinishes(p)  BY <1>3 DEF HelperFinishes
<1>4. CASE HelperFails(p)  BY <1>4 DEF HelperFails
<1>5. CASE Interrupt(p)  BY <1>5 DEF Interrupt
<1> QED  BY <1>1, <1>2, <1>3, <1>4, <1>5 DEF HelperStep

\* A name is mapped by a helper that is alive and was asked to.
LEMMA HelperEffect ==
    ASSUME HostTypeOK, NEW p \in Procs, HelperStep(p) \/ Interrupt(p)
    PROVE  /\ UNCHANGED <<helper, ram, capsule, manifest, slot>>
           /\ \A q \in Procs : q # p => child'[q] = child[q]
           /\ child'[p] # child[p] => child[p] = "running" /\ child'[p] \in {"ok", "failed"}
           /\ child'[p] = "ok" /\ child[p] # "ok" => MappedAsAsked(p) /\ mapper' = mapper
           /\ mapper'[CAPSULE_MAP] # mapper[CAPSULE_MAP] =>
                /\ helper[p].name = CAPSULE_MAP /\ child[p] = "running" /\ child' = child
                /\ \/ mapper'[CAPSULE_MAP] = Unmapped
                   \/ /\ mapper'[CAPSULE_MAP].by = p
                      /\ mapper'[CAPSULE_MAP].rw <=> helper[p].verb = "attach"
                      /\ helper[p].verb \in {"attach", "attach_ro"} /\ KeyFits(p)
<1> USE DEF HostTypeOK, helperVars, Helper
<1>0. CAPSULE_MAP \in Names  BY DEF Names
<1>1. CASE HelperAttaches(p)  BY <1>0, <1>1 DEF HelperAttaches
<1>2. CASE HelperDetaches(p)  BY <1>0, <1>2 DEF HelperDetaches
<1>3. CASE HelperFinishes(p)  BY <1>3 DEF HelperFinishes
<1>4. CASE HelperFails(p)  BY <1>4 DEF HelperFails
<1>5. CASE Interrupt(p)  BY <1>5 DEF Interrupt
<1> QED  BY <1>1, <1>2, <1>3, <1>4, <1>5 DEF HelperStep

\* The helper of any invocation, as far as it is systemd-cryptsetup.
LEMMA HelperInv ==
    ASSUME EInv, NEW p \in Procs, p \in Ops \cup Enrollers, HelperStep(p) \/ Interrupt(p),
           UNCHANGED enrollVars, OpTypeOK'
    PROVE  EInv'
<1> USE Tokens DEF enrollVars
<1>1. /\ ComboTypeOK /\ HostTypeOK /\ WritableInv /\ ReaderInv /\ CapsuleFirst
      /\ \A e \in Enrollers : /\ CallInv(e) /\ EffectInv(e) /\ StepInv(e)
                            /\ SecretInv(e) /\ SlotInv(e) /\ EndInv(e)
  BY DEF EInv, LocalEnrollInv, ComboTypeOK, TypeOK
<1>2. ComboTypeOK'
  BY <1>1, HelperTypes DEF ComboTypeOK, TypeOK, EnrollTypeOK
<1>3. UNCHANGED <<helper, ram, capsule, manifest, slot, epc, owned, eret, durable>>
  BY <1>1, HelperEffect
<1>4. ASSUME NEW e \in Enrollers
      PROVE  /\ CallInv(e)' /\ EffectInv(e)' /\ StepInv(e)'
             /\ SecretInv(e)' /\ SlotInv(e)' /\ EndInv(e)'
  <2> USE <1>3
  <2>1. CallInv(e)'  BY <1>1, HelperEffect DEF CallInv
  <2>2. mapper'[CAPSULE_MAP].by = e /\ mapper[CAPSULE_MAP].by # e =>
           p = e /\ child[e] = "running" /\ helper[e].verb \in {"attach", "attach_ro"}
    BY <1>1, HelperEffect DEF Unmapped
  <2>3. Writable(e)' /\ ~Writable(e) => p = e /\ Runs(e, "attach")
    BY <1>1, HelperEffect DEF Writable, Unmapped, Runs
  <2>4. EffectInv(e)'
    <3>1. child'[e] = "ok" /\ child[e] # "ok" /\ helper[e].verb = "detach" =>
             mapper'[CAPSULE_MAP].by # e
      BY <1>1, HelperEffect DEF MappedAsAsked, Exists, CallInv
    <3>2. child'[e] = "ok" /\ child[e] # "ok" => helper[e].verb # "seal"
      BY <1>1, HelperEffect DEF MappedAsAsked
    <3>3. child'[e] = "running" => child[e] = "running"
      BY <1>1, HelperEffect
    <3>4. child[e] = "ok" => child'[e] = "ok"
      BY <1>1, HelperEffect
    <3>5. child[e] = "ok" /\ helper[e].verb = "detach" => mapper'[CAPSULE_MAP].by # e
      BY <1>1, <2>2 DEF EffectInv
    <3> QED
      BY <1>1, <2>3, <3>1, <3>2, <3>3, <3>4, <3>5 DEF EffectInv, Runs, OurCapsule, Stage
  <2>5. StepInv(e)'
    BY <1>1, <2>3
       DEF StepInv, CallInv, Runs, OurCapsule, Stage, VerbAt, Filling, Verifying, Verified,
           Published, Added
  <2>6. SecretInv(e)' /\ SlotInv(e)' /\ EndInv(e)'
    BY <1>1 DEF SecretInv, SlotInv, EndInv, OneDirectory, EAt, Stage
  <2> QED  BY <2>1, <2>4, <2>5, <2>6
<1>5. WritableInv'
  <2> SUFFICES ASSUME NEW q \in Procs, Writable(q)'
               PROVE  q \in Enrollers /\ epc[q] # "start" /\ OurCapsule(q) /\ Stage(q) = "formatted"
    BY <1>3 DEF WritableInv, OurCapsule, Stage
  <2>1. CASE Writable(q)  BY <1>1, <2>1 DEF WritableInv
  <2>2. CASE ~Writable(q)
    <3>1. q = p /\ child[p] = "running" /\ helper[p].verb = "attach" /\ KeyFits(p)
          /\ helper[p].name = CAPSULE_MAP
      BY <1>1, <2>2, HelperEffect, SentinelAssumption DEF Writable, Unmapped
    <3>2. p \in Enrollers
      BY <1>1, <3>1 DEF ReaderInv
    <3> QED
      BY <1>1, <3>1, <3>2 DEF KeyFits, CallInv, EffectInv, Runs, OurCapsule, Stage, VerbAt
  <2> QED  BY <2>1, <2>2
<1>6. ReaderInv' /\ CapsuleFirst'
  BY <1>1, <1>3 DEF ReaderInv, CapsuleFirst
<1> QED  BY <1>2, <1>4, <1>5, <1>6 DEF EInv, LocalEnrollInv

\* cryptsetup luksFormat and systemd-cryptenroll finish their work, on a
\* capsule that is not open for writing when it is sealed.
LEMMA WorkInv ==
    ASSUME EInv, NEW e \in Enrollers, HelperFormats(e) \/ HelperSeals(e),
           UNCHANGED <<opVars, enrollVars>>
    PROVE  EInv'
<1> USE Tokens DEF enrollVars
<1>1. /\ ComboTypeOK /\ HostTypeOK /\ WritableInv /\ ReaderInv /\ CapsuleFirst
      /\ \A f \in Enrollers : /\ CallInv(f) /\ EffectInv(f) /\ StepInv(f)
                            /\ SecretInv(f) /\ SlotInv(f) /\ EndInv(f)
  BY DEF EInv, LocalEnrollInv, ComboTypeOK, TypeOK
<1>2. PICK stage \in {"formatted", "sealed"} :
        /\ capsule' = [capsule EXCEPT ![DirOf[e]].stage = stage]
        /\ child' = [child EXCEPT ![e] = "ok"] /\ child[e] = "running"
        /\ helper[e].verb = IF stage = "formatted" THEN "format" ELSE "seal"
        /\ stage = "sealed" => Stage(e) = "formatted"
        /\ UNCHANGED <<mapper, helper, interrupted, ram, manifest, slot>>
  BY DEF HelperFormats, HelperSeals, Stage
<1>3. OurCapsule(e) /\ Stage(e) \notin {"absent", "sealed"} /\ (stage = "sealed" => ~Writable(e))
  BY <1>1, <1>2 DEF EffectInv, Runs
<1>4. \A d \in Dirs : /\ d # DirOf[e] => capsule'[d] = capsule[d]
                     /\ capsule'[d].by = capsule[d].by /\ capsule'[d].secret = capsule[d].secret
                     /\ capsule'[DirOf[e]].stage = stage
  BY <1>1, <1>2 DEF HostTypeOK, Capsule
<1>5. \A f \in Enrollers : OurCapsule(f) /\ f # e => DirOf[f] # DirOf[e]
  BY <1>3 DEF OurCapsule
<1>6. ComboTypeOK'
  <2>1. capsule' \in [Dirs -> Capsule]
    <3>1. capsule \in [Dirs -> Capsule] /\ DirOf[e] \in Dirs
      BY <1>1 DEF HostTypeOK
    <3>2. capsule[DirOf[e]] \in Capsule
      BY <3>1
    <3>3. [capsule[DirOf[e]] EXCEPT !.stage = stage] \in Capsule
      BY <3>2 DEF Capsule
    <3> QED  BY <1>2, <3>1, <3>3
  <2>2. HostTypeOK'
    BY <1>1, <1>2, <2>1 DEF HostTypeOK
  <2> QED
    BY <1>1, <2>2 DEF ComboTypeOK, TypeOK, OpTypeOK, MemTypeOK, EnrollTypeOK, opVars, memVars
<1>7. ASSUME NEW f \in Enrollers
      PROVE  /\ CallInv(f)' /\ EffectInv(f)' /\ StepInv(f)'
             /\ SecretInv(f)' /\ SlotInv(f)' /\ EndInv(f)'
  <2>1. /\ CallInv(f) /\ EffectInv(f) /\ StepInv(f)
        /\ SecretInv(f) /\ SlotInv(f) /\ EndInv(f)
        /\ f \in Procs /\ DirOf[f] \in Dirs
        /\ child'[f] = IF f = e THEN "ok" ELSE child[f]
    BY <1>1, <1>2 DEF HostTypeOK
  <2>2. CallInv(f)'
    BY <1>2, <2>1 DEF CallInv
  <2>3. EffectInv(f)'
    BY <1>2, <1>3, <1>4, <1>5, <2>1 DEF EffectInv, Runs, OurCapsule, Stage, Writable
  <2>4. StepInv(f)'
    BY <1>1, <1>2, <1>3, <1>4, <1>5, <2>1
       DEF StepInv, CallInv, VerbAt, OurCapsule, Stage, Writable, Filling, Verifying, Verified,
           Published, Added
  <2>5. SecretInv(f)' /\ SlotInv(f)' /\ EndInv(f)'
    BY <1>2, <1>3, <1>4, <2>1 DEF SecretInv, SlotInv, EndInv, OneDirectory, EAt, Stage
  <2> QED  BY <2>2, <2>3, <2>4, <2>5
<1>8. WritableInv' /\ ReaderInv' /\ CapsuleFirst'
  <2>1. WritableInv'
    BY <1>1, <1>2, <1>3, <1>4 DEF WritableInv, Writable, OurCapsule, Stage
  <2>2. ReaderInv' /\ CapsuleFirst'
    BY <1>1, <1>2, <1>4 DEF ReaderInv, CapsuleFirst
  <2> QED  BY <2>1, <2>2
<1> QED  BY <1>6, <1>7, <1>8 DEF EInv, LocalEnrollInv

-----------------------------------------------------------------------------
(***************************************************************************)
(* Unlocks, verifications and deaths: they leave the disk and the helpers  *)
(* of enrollments alone.                                                   *)
(***************************************************************************)
LEMMA ReaderStep ==
    ASSUME TypeOK, ReaderInv, NEW p \in Ops, OpStep(p)
    PROVE  ReaderInv'
<1> USE Domains DEF TypeOK, HostTypeOK, ReaderInv, Spawn, Reap, NoHelper, hostVars, helperVars, DataMap,
        CAPSULE_MAP, VERIFY_MAP, ROOT_MAP
<1>1. CASE AcquireLock(p)  BY <1>1 DEF AcquireLock
<1>2. CASE ClearMarker(p)  BY <1>2 DEF ClearMarker
<1>3. CASE CheckMappings(p)  BY <1>3 DEF CheckMappings, CheckMapping
<1>4. CASE Preflight(p)  BY <1>4 DEF Preflight
<1>5. CASE WaitKey(p)  BY <1>5 DEF WaitKey
<1>6. CASE AttachCapsule(p)  BY <1>6 DEF AttachCapsule
<1>7. CASE AttachCapsuleReturns(p)  BY <1>7 DEF AttachCapsuleReturns
<1>8. CASE MakeRam(p)  BY <1>8 DEF MakeRam
<1>9. CASE ReadPin(p)  BY <1>9 DEF ReadPin
<1>10. CASE DeriveF(p)  BY <1>10 DEF DeriveF
<1>11. CASE ReadT(p)  BY <1>11 DEF ReadT
<1>12. CASE DetachCapsule(p)  BY <1>12 DEF DetachCapsule
<1>13. CASE DetachCapsuleReturns(p)  BY <1>13 DEF DetachCapsuleReturns
<1>14. CASE MakeScratch(p)  BY <1>14 DEF MakeScratch
<1>15. CASE AttachData(p)  BY <1>15 DEF AttachData
<1>16. CASE AttachDataReturns(p)  BY <1>16 DEF AttachDataReturns
<1>17. CASE CleanupMappings(p)  BY <1>17 DEF CleanupMappings, CleanupDetach, CleanupDetached
<1>18. CASE CleanupRam(p)  BY <1>18 DEF CleanupRam
<1>19. CASE CleanupScratch(p)  BY <1>19 DEF CleanupScratch
<1>20. CASE CleanupReturns(p)  BY <1>20 DEF CleanupReturns
<1>21. CASE Publish(p)  BY <1>21 DEF Publish
<1>22. CASE DropRam(p)  BY <1>22 DEF DropRam
<1>23. CASE Release(p)  BY <1>23 DEF Release
<1> QED
  BY <1>1, <1>2, <1>3, <1>4, <1>5, <1>6, <1>7, <1>8, <1>9, <1>10, <1>11, <1>12, <1>13, <1>14, <1>15,
     <1>16, <1>17, <1>18, <1>19, <1>20, <1>21, <1>22, <1>23 DEF OpStep

\* What an enrollment's part depends on.
LEMMA EnrollKept ==
    ASSUME EInv, UNCHANGED <<mapper, capsule, manifest, slot, owned, eret, durable>>,
           \A f \in Enrollers : helper'[f] = helper[f] /\ child'[f] = child[f],
           \A f \in Enrollers : epc'[f] \in {epc[f], "killed"}
    PROVE  /\ \A f \in Enrollers : LocalEnrollInv(f)'
           /\ WritableInv' /\ CapsuleFirst'
<1> USE Tokens
<1>1. ASSUME NEW f \in Enrollers
      PROVE  LocalEnrollInv(f)'
  <2>1. /\ CallInv(f) /\ EffectInv(f) /\ StepInv(f)
        /\ SecretInv(f) /\ SlotInv(f) /\ EndInv(f)
    BY DEF EInv, LocalEnrollInv
  <2>2. CallInv(f)' /\ EffectInv(f)'
    BY <2>1 DEF CallInv, EffectInv, Runs, OurCapsule, Stage, Writable, VerbAt
  <2>3. StepInv(f)'
    BY <2>1
       DEF StepInv, OurCapsule, Stage, Writable, Filling, Verifying, Verified, Published, Added
  <2>4. OneDirectory(f)' => OneDirectory(f)
    BY DEF OneDirectory, EAt
  <2>5. SecretInv(f)' /\ SlotInv(f)' /\ EndInv(f)'
    BY <2>1, <2>4 DEF SecretInv, SlotInv, EndInv, Stage, Verified, Published, Added
  <2> QED  BY <2>2, <2>3, <2>5 DEF LocalEnrollInv
<1>2. WritableInv'
  BY DEF EInv, WritableInv, Writable, OurCapsule, Stage
<1>3. CapsuleFirst'
  BY DEF EInv, CapsuleFirst
<1> QED  BY <1>1, <1>2, <1>3

LEMMA KillType ==
    ASSUME TypeOK, NEW p \in Ops, Kill(p)
    PROVE  TypeOK' /\ UNCHANGED hostVars
<1>1. MemTypeOK'
  BY ForgetType DEF TypeOK, OpTypeOK, Kill
<1>2. UNCHANGED hostVars
  BY DEF Kill
<1>3. HostTypeOK'
  BY <1>2 DEF hostVars, helperVars, TypeOK, HostTypeOK
<1>4. OpTypeOK'
  BY <1>1 DEF TypeOK, OpTypeOK, Kill, Goto, Labels
<1> QED  BY <1>2, <1>3, <1>4 DEF TypeOK

LEMMA OpsInv ==
    ASSUME EInv, NEW p \in Ops, OpStep(p) \/ Kill(p), UNCHANGED enrollVars
    PROVE  EInv'
<1> USE Tokens DEF enrollVars
<1>1. ComboTypeOK /\ TypeOK /\ ReaderInv /\ p \in Procs
  BY OpsAssumption DEF EInv, ComboTypeOK, Ops
<1>2. TypeOK' /\ UNCHANGED <<mapper, capsule, manifest, slot>>
  BY <1>1, TypeStep, HostStep, KillType DEF hostVars
<1>3. \A f \in Enrollers : helper'[f] = helper[f] /\ child'[f] = child[f]
  BY <1>1, OthersStep, KillType DEF hostVars, helperVars
<1>4. ReaderInv'
  BY <1>1, ReaderStep, KillType DEF ReaderInv, hostVars, helperVars
<1>5. ComboTypeOK'
  BY <1>1, <1>2 DEF ComboTypeOK, EnrollTypeOK
<1> QED  BY <1>2, <1>3, <1>4, <1>5, EnrollKept DEF EInv

LEMMA EnrollKillInv ==
    ASSUME EInv, NEW e \in Enrollers, EnrollKill(e), UNCHANGED opVars
    PROVE  EInv'
<1> USE Tokens DEF EnrollKill, EGoto, hostVars, helperVars
<1>1. ComboTypeOK'
  BY DEF EInv, ComboTypeOK, TypeOK, HostTypeOK, OpTypeOK, MemTypeOK, EnrollTypeOK, EnrollLabels,
         opVars, memVars
<1>2. ReaderInv'
  BY DEF EInv, ReaderInv
<1>3. \A f \in Enrollers : epc'[f] \in {epc[f], "killed"}
  BY DEF EInv, ComboTypeOK, EnrollTypeOK
<1> QED  BY <1>1, <1>2, <1>3, EnrollKept DEF EInv

LEMMA NothingWritable == HostInit => \A p \in Procs : ~Writable(p)
<1> SUFFICES ASSUME HostInit, NEW p \in Procs
             PROVE  ~Writable(p)
  OBVIOUS
<1>1. mapper[CAPSULE_MAP] \in {Unmapped, [by |-> Stranger, rw |-> TRUE]}
  BY Tokens DEF HostInit
<1>2. p # Stranger
  BY SentinelAssumption
<1> QED  BY <1>1, <1>2 DEF Writable, Unmapped

LEMMA ComboInitInv == ComboInit => EInv
<1> SUFFICES ASSUME ComboInit
             PROVE  EInv
  OBVIOUS
<1> USE Tokens DEF ComboInit, EnrollInit, HostInit
<1>1. ComboTypeOK
  <2>1. TypeOK
    BY InitInv DEF Init, IInv
  <2> QED  BY <2>1 DEF ComboTypeOK, EnrollTypeOK, EnrollLabels
<1>2. \A d \in Dirs : capsule[d].secret \in Dirs \cup {Nobody}
  BY DEF NoCapsule
<1>3. \A p \in Procs : ~Writable(p)
  BY NothingWritable
<1>4. ASSUME NEW e \in Enrollers
      PROVE  LocalEnrollInv(e)
  <2>1. CallInv(e) /\ EffectInv(e)
    BY DEF CallInv, EffectInv, Runs, NoHelper, VerbAt
  <2>2. StepInv(e)
    BY DEF StepInv, Filling, Verifying, Verified, Published, Added
  <2>3. SecretInv(e) /\ EndInv(e)
    BY <1>2 DEF SecretInv, EndInv, Verified, Published, Added
  <2>4. SlotInv(e)
    <3>1. slot[RootOf[e]].m \in Dirs \cup {Nobody}
      BY DEF derive, NoKey
    <3> QED  BY <3>1 DEF SlotInv
  <2> QED  BY <2>1, <2>2, <2>3, <2>4 DEF LocalEnrollInv
<1>5. WritableInv /\ ReaderInv
  BY <1>3, OpsAssumption DEF WritableInv, ReaderInv, NoHelper, Ops
<1>6. CapsuleFirst
  BY DEF CapsuleFirst, NoCapsule
<1> QED  BY <1>1, <1>4, <1>5, <1>6 DEF EInv

LEMMA ComboNextInv == EInv /\ [ComboKillNext]_comboVars => EInv'
<1> SUFFICES ASSUME EInv, [ComboKillNext]_comboVars
             PROVE  EInv'
  OBVIOUS
<1> USE Tokens
<1>1. CASE UNCHANGED comboVars
  <2>1. ComboTypeOK' /\ ReaderInv'
    BY <1>1
       DEF EInv, ComboTypeOK, TypeOK, HostTypeOK, OpTypeOK, MemTypeOK, EnrollTypeOK, ReaderInv,
           comboVars, vars, hostVars, helperVars, opVars, memVars, enrollVars
  <2> QED
    BY <1>1, <2>1, EnrollKept
       DEF EInv, comboVars, vars, hostVars, helperVars, opVars, memVars, enrollVars
<1>2. ASSUME NEW p \in Ops, OpStep(p) \/ Kill(p), UNCHANGED enrollVars
      PROVE  EInv'
  BY <1>2, OpsInv
<1>3. ASSUME NEW p \in Ops, Outside(p), UNCHANGED enrollVars
      PROVE  EInv'
  <2>1. OpTypeOK'
    BY <1>3 DEF EInv, ComboTypeOK, TypeOK, OpTypeOK, MemTypeOK, Outside, opVars, memVars
  <2> QED  BY <1>3, <2>1, HelperInv, OpsAssumption DEF Outside, Ops
<1>4. ASSUME NEW e \in Enrollers, EnrollStep(e), UNCHANGED opVars
      PROVE  EInv'
  BY <1>4, EnrollStepInv
<1>5. ASSUME NEW e \in Enrollers, EnrollOutside(e), UNCHANGED opVars
      PROVE  EInv'
  <2>1. OpTypeOK'
    BY <1>5 DEF EInv, ComboTypeOK, TypeOK, OpTypeOK, MemTypeOK, opVars, memVars
  <2> QED  BY <1>5, <2>1, HelperInv, WorkInv DEF EnrollOutside
<1>6. ASSUME NEW e \in Enrollers, EnrollKill(e), UNCHANGED opVars
      PROVE  EInv'
  BY <1>6, EnrollKillInv
<1> QED
  BY <1>1, <1>2, <1>3, <1>4, <1>5, <1>6 DEF ComboKillNext, ComboNext, StepOf, KillOf

-----------------------------------------------------------------------------
(***************************************************************************)
(* What each step of an enrollment has established, beside any commands    *)
(* and through any deaths (enroll.rs, run).                                *)
(***************************************************************************)
THEOREM EnrollInvariant == ComboKillSpec => []EInv
BY ComboInitInv, ComboNextInv, PTL DEF ComboKillSpec

(***************************************************************************)
(* Slot 4 never holds a key that the enrollment's own directory does not   *)
(* yield, through deaths at any step, unless an enrollment was started for *)
(* another directory; and even then the manifest and a sealed capsule are  *)
(* there (enroll.rs, the order of capsule, manifest and slot).             *)
(***************************************************************************)
THEOREM SlotDerivable == ComboKillSpec => []SlotCanBeDerived
<1>1. EInv => SlotCanBeDerived
  BY DEF EInv, LocalEnrollInv, SlotInv, SlotCanBeDerived, HasKey, Stage
<1> QED
  BY <1>1, EnrollInvariant, PTL

(***************************************************************************)
(* An enrollment that succeeds can be unlocked with unless another one was *)
(* started for another directory (enroll.rs, the verification).            *)
(***************************************************************************)
THEOREM SuccessCanUnlock == ComboKillSpec => []OneDirectoryCanUnlock
<1>1. EInv => OneDirectoryCanUnlock
  BY DEF EInv, LocalEnrollInv, EndInv, OneDirectoryCanUnlock, CanUnlock, HasKey, Stage
<1> QED
  BY <1>1, EnrollInvariant, PTL

(***************************************************************************)
(* Nothing that was enrolled is written over (enroll.rs, create_new and    *)
(* the first checks; disk.rs, add).                                        *)
(***************************************************************************)
THEOREM OverwritesNothing == ComboKillSpec => NeverOverwrites
<1> DEFINE Kept ==
      /\ \A d \in Dirs :
            /\ manifest[d] # Nobody => manifest'[d] = manifest[d]
            /\ capsule[d].stage = "sealed" => capsule'[d] = capsule[d]
      /\ \A r \in Roots : slot[r] # NoKey => slot'[r] = slot[r]
<1>1. EInv /\ [ComboKillNext]_comboVars => [Kept]_comboVars
  <2> SUFFICES ASSUME EInv, ComboKillNext
               PROVE  Kept \/ UNCHANGED comboVars
    OBVIOUS
  <2> USE Tokens
  <2>1. ASSUME NEW e \in Enrollers, EnrollStep(e)
        PROVE  Kept
    BY <2>1, DiskKept
  <2>2. ASSUME NEW e \in Enrollers, HelperFormats(e) \/ HelperSeals(e)
        PROVE  Kept
    <3>1. EffectInv(e) /\ capsule \in [Dirs -> Capsule]
      BY DEF EInv, LocalEnrollInv, ComboTypeOK, TypeOK, HostTypeOK
    <3> QED  BY <2>2, <3>1 DEF HelperFormats, HelperSeals, EffectInv, Runs, Stage
  <2>3. ASSUME NEW p \in Procs, HelperStep(p) \/ Interrupt(p)
        PROVE  Kept
    BY <2>3
       DEF HelperStep, HelperAttaches, HelperDetaches, HelperFinishes, HelperFails, Interrupt
  <2>4. ASSUME NEW p \in Ops, OpStep(p) \/ Kill(p)
        PROVE  Kept
    BY <2>4, HostStep, KillType DEF EInv, ComboTypeOK, hostVars
  <2>5. ASSUME NEW e \in Enrollers, EnrollKill(e)
        PROVE  Kept
    BY <2>5 DEF EnrollKill, hostVars
  <2> QED
    BY <2>1, <2>2, <2>3, <2>4, <2>5, OpsAssumption
       DEF ComboKillNext, ComboNext, StepOf, KillOf, EnrollOutside, Outside, Ops
<1> QED
  BY <1>1, EnrollInvariant, PTL DEF ComboKillSpec, NeverOverwrites
-----------------------------------------------------------------------------
(***************************************************************************)
(* What an enrollment maps and mounts, and the guards that undo it.        *)
(***************************************************************************)
LEMMA GuardsOthers ==
    ASSUME ComboTypeOK, NEW e \in Enrollers, EnrollStep(e), NEW f \in Procs, f # e
    PROVE  /\ ram'[f] = ram[f] /\ (f \in ramHeld' <=> f \in ramHeld)
           /\ (f \in ereported' <=> f \in ereported)
<1> USE Tokens DEF ComboTypeOK, TypeOK, HostTypeOK, EnrollTypeOK, EKeep, EAbort, Check, Call, Return,
        RamNew, RamNewFails, RamCleanup, RamCleanupFails, hostVars
<1>1. CASE Checks(e)  BY <1>1 DEF Checks
<1>2. CASE EMakeRam(e)  BY <1>2 DEF EMakeRam
<1>3. CASE CreateCapsule(e)  BY <1>3 DEF CreateCapsule
<1>4. CASE FormatCapsule(e)  BY <1>4 DEF FormatCapsule
<1>5. CASE AttachCapsuleMap(e)  BY <1>5 DEF AttachCapsuleMap
<1>6. CASE WriteSecret(e)  BY <1>6 DEF WriteSecret
<1>7. CASE CloseMappings(e)  BY <1>7 DEF CloseMappings, CloseMapping
<1>8. CASE SealCapsule(e)  BY <1>8 DEF SealCapsule
<1>9. CASE VerifySecret(e)  BY <1>9 DEF VerifySecret
<1>10. CASE WriteManifest(e)  BY <1>10 DEF WriteManifest
<1>11. CASE Prompt(e)  BY <1>11 DEF Prompt
<1>12. CASE AddSlot(e)  BY <1>12 DEF AddSlot
<1>13. CASE ECleanupRam(e)  BY <1>13 DEF ECleanupRam
<1>14. CASE Recheck(e)  BY <1>14 DEF Recheck
<1>15. CASE Sync(e)  BY <1>15 DEF Sync
<1>16. CASE DropMapping(e)  BY <1>16 DEF DropMapping
<1>17. CASE DropRamSecret(e)  BY <1>17 DEF DropRamSecret
<1> QED
  BY <1>1, <1>2, <1>3, <1>4, <1>5, <1>6, <1>7, <1>8, <1>9, <1>10, <1>11, <1>12, <1>13, <1>14,
     <1>15, <1>16, <1>17 DEF EnrollStep

LEMMA GuardsActor ==
    ASSUME EInv, NEW e \in Enrollers, LeakInv(e), EnrollStep(e)
    PROVE  LeakInv(e)'
<1> USE Tokens DEF EnrollLabels, EAt, EGoto, EKeep, EAbort, Check, Call, Return, hostVars, helperVars,
        VerbAt, Runs, LeakInv, Spawn, Reap, HelperSucceeded, NoHelper,
        RamNew, RamNewFails, RamCleanup, RamCleanupFails
<1>1. /\ epc \in [Enrollers -> EnrollLabels] /\ owned \subseteq Enrollers
      /\ ramHeld \subseteq Enrollers /\ ereported \subseteq Enrollers
      /\ helper \in [Procs -> Helper] /\ child \in [Procs -> {"none", "running", "ok", "failed"}]
      /\ ram \in [Procs -> {"none", "dir", "mounted"}]
  BY DEF EInv, ComboTypeOK, TypeOK, HostTypeOK, EnrollTypeOK
<1>2. /\ epc[e] \in DOMAIN VerbAt => helper[e].verb = VerbAt[epc[e]]
      /\ child[e] = "ok" /\ helper[e].verb = "detach" => mapper[CAPSULE_MAP].by # e
  BY DEF EInv, LocalEnrollInv, CallInv, EffectInv
<1>3. CASE Checks(e)  BY <1>1, <1>3 DEF Checks
<1>4. CASE EMakeRam(e)  BY <1>1, <1>4 DEF EMakeRam
<1>5. CASE CreateCapsule(e)  BY <1>1, <1>5 DEF CreateCapsule
<1>6. CASE FormatCapsule(e)  BY <1>1, <1>6 DEF FormatCapsule
<1>7. CASE AttachCapsuleMap(e)  BY <1>1, <1>7 DEF AttachCapsuleMap
<1>8. CASE WriteSecret(e)  BY <1>1, <1>8 DEF WriteSecret
<1>9. CASE CloseMappings(e)  BY <1>1, <1>2, <1>9 DEF CloseMappings, CloseMapping
<1>10. CASE SealCapsule(e)  BY <1>1, <1>10 DEF SealCapsule
<1>11. CASE VerifySecret(e)  BY <1>1, <1>11 DEF VerifySecret
<1>12. CASE WriteManifest(e)  BY <1>1, <1>12 DEF WriteManifest
<1>13. CASE Prompt(e)  BY <1>1, <1>13 DEF Prompt
<1>14. CASE AddSlot(e)  BY <1>1, <1>14 DEF AddSlot
<1>15. CASE ECleanupRam(e)  BY <1>1, <1>15 DEF ECleanupRam
<1>16. CASE Recheck(e)  BY <1>1, <1>16 DEF Recheck
<1>17. CASE Sync(e)  BY <1>1, <1>17 DEF Sync
<1>18. CASE DropMapping(e)  BY <1>1, <1>2, <1>18 DEF DropMapping
<1>19. CASE DropRamSecret(e)  BY <1>1, <1>19 DEF DropRamSecret
<1> QED
  BY <1>3, <1>4, <1>5, <1>6, <1>7, <1>8, <1>9, <1>10, <1>11, <1>12, <1>13, <1>14, <1>15, <1>16,
     <1>17, <1>18, <1>19 DEF EnrollStep

\* What an enrollment's guards depend on.
LEMMA GuardsKept ==
    ASSUME NEW f \in Enrollers, LeakInv(f), mapper' = mapper, helper'[f] = helper[f],
           child'[f] = child[f], ram'[f] = ram[f], epc'[f] \in {epc[f], "killed"},
           f \in owned' <=> f \in owned, f \in ramHeld' <=> f \in ramHeld,
           f \in ereported' <=> f \in ereported
    PROVE  LeakInv(f)'
BY DEF LeakInv, Runs

\* A helper maps only what it was started for; its end changes nothing.
LEMMA GuardsHelper ==
    ASSUME EInv, NEW p \in Procs, HelperStep(p) \/ Interrupt(p), UNCHANGED enrollVars,
           NEW f \in Enrollers, LeakInv(f)
    PROVE  LeakInv(f)'
<1> USE Tokens DEF enrollVars
<1>1. HostTypeOK  BY DEF EInv, ComboTypeOK, TypeOK
<1>2. UNCHANGED <<helper, ram>> /\ (Runs(f, "attach")' => Runs(f, "attach"))
      /\ (Runs(f, "attach_ro")' => Runs(f, "attach_ro"))
  BY <1>1, HelperEffect DEF Runs
<1>3. mapper'[CAPSULE_MAP].by = f /\ mapper[CAPSULE_MAP].by # f =>
          Runs(f, "attach") \/ Runs(f, "attach_ro")
  BY <1>1, HelperEffect, SentinelAssumption DEF Runs, Unmapped
<1> QED  BY <1>2, <1>3 DEF LeakInv

GuardsInv == \A e \in Enrollers : LeakInv(e)

LEMMA GuardsNext == EInv /\ GuardsInv /\ [ComboKillNext]_comboVars => GuardsInv'
<1> SUFFICES ASSUME EInv, GuardsInv, [ComboKillNext]_comboVars, NEW f \in Enrollers
             PROVE  LeakInv(f)'
  BY DEF GuardsInv
<1> USE Tokens
<1>1. LeakInv(f) /\ ComboTypeOK /\ TypeOK
  BY DEF GuardsInv, EInv, ComboTypeOK
<1>2. CASE UNCHANGED comboVars
  BY <1>1, <1>2, GuardsKept DEF comboVars, vars, hostVars, helperVars, enrollVars
<1>3. ASSUME NEW p \in Ops, OpStep(p) \/ Kill(p), UNCHANGED enrollVars
      PROVE  LeakInv(f)'
  <2>1. /\ mapper' = mapper /\ helper'[f] = helper[f] /\ child'[f] = child[f]
        /\ ram'[f] = ram[f]
    BY <1>1, <1>3, OthersStep DEF Kill, hostVars, helperVars
  <2> QED  BY <1>1, <1>3, <2>1, GuardsKept DEF enrollVars
<1>4. ASSUME NEW p \in Procs, HelperStep(p) \/ Interrupt(p), UNCHANGED enrollVars
      PROVE  LeakInv(f)'
  BY <1>1, <1>4, GuardsHelper
<1>5. ASSUME NEW e \in Enrollers, EnrollStep(e)
      PROVE  LeakInv(f)'
  <2>1. CASE f = e  BY <1>1, <1>5, <2>1, GuardsActor
  <2>2. CASE f # e
    BY <1>1, <1>5, <2>2, GuardsOthers, EnrollOthers, GuardsKept
  <2> QED  BY <2>1, <2>2
<1>6. ASSUME NEW e \in Enrollers, HelperFormats(e) \/ HelperSeals(e), UNCHANGED enrollVars
      PROVE  LeakInv(f)'
  BY <1>1, <1>6
     DEF HelperFormats, HelperSeals, LeakInv, Runs, enrollVars, TypeOK, HostTypeOK
<1>7. ASSUME NEW e \in Enrollers, EnrollKill(e)
      PROVE  LeakInv(f)'
  BY <1>1, <1>7, GuardsKept
     DEF EnrollKill, EGoto, hostVars, helperVars, ComboTypeOK, EnrollTypeOK
<1> QED
  BY <1>2, <1>3, <1>4, <1>5, <1>6, <1>7, OpsAssumption
     DEF ComboKillNext, ComboNext, StepOf, KillOf, EnrollOutside, Outside, Ops

(***************************************************************************)
(* An enrollment that returns without an error of a Drop leaves neither    *)
(* the capsule mapped nor its ramfs mounted, though it takes no lock and a *)
(* helper killed at its deadline may have acted (enroll.rs, Mapping).      *)
(***************************************************************************)
THEOREM NothingIsLeft == ComboKillSpec => []EnrollLeaksNothing
<1>1. ComboInit => GuardsInv
  <2> SUFFICES ASSUME ComboInit, NEW e \in Enrollers
               PROVE  LeakInv(e)
    BY DEF GuardsInv
  <2>1. mapper[CAPSULE_MAP] \in {Unmapped, [by |-> Stranger, rw |-> TRUE]}
    BY Tokens DEF ComboInit, HostInit
  <2>2. e # Nobody /\ e # Stranger
    BY Tokens
  <2>3. mapper[CAPSULE_MAP].by # e
    BY <2>1, <2>2 DEF Unmapped
  <2>4. child[e] = "none" /\ ram[e] = "none" /\ epc[e] = "start"
    BY Tokens DEF ComboInit, HostInit, EnrollInit
  <2> QED  BY <2>3, <2>4 DEF LeakInv, Runs
<1>2. GuardsInv => EnrollLeaksNothing
  BY DEF GuardsInv, LeakInv, EnrollLeaksNothing, EAt
<1> QED
  BY <1>1, <1>2, GuardsNext, EnrollInvariant, PTL DEF ComboKillSpec

(***************************************************************************)
(* Every variable of the three commands stays in its domain, through any   *)
(* deaths (enroll.rs and unlock.rs).                                       *)
(***************************************************************************)
THEOREM ComboTypeCorrect == ComboKillSpec => []ComboTypeOK
<1>1. EInv => ComboTypeOK  BY DEF EInv
<1> QED  BY <1>1, EnrollInvariant, PTL

-----------------------------------------------------------------------------
(***************************************************************************)
(* Unlocks and verifications beside enrollments and through deaths.  What  *)
(* each knows of its own resources needs no lock; that the root volume is  *)
(* its own, or was opened for an unlock that is dead, needs the lock.      *)
(***************************************************************************)
\* Nobody comes back from the dead.
LEMMA StaysDead ==
    ASSUME TypeOK, NEW p \in Ops, OpStep(p)
    PROVE  Dead \subseteq Dead'
<1>1. ASSUME NEW r \in Unlockers, Alive(r)' PROVE Alive(r)
  <2>1. r \in Ops /\ r \in Procs  BY Domains DEF Ops
  <2>2. CASE r # p  BY <1>1, <2>1, <2>2, OthersStep DEF Alive
  <2>3. CASE r = p
    BY <2>3
       DEF OpStep, At, Alive, CheckMappings, CheckMapping, CleanupMappings, CleanupDetach,
           CleanupDetached, AcquireLock, ClearMarker, Preflight, WaitKey, AttachCapsule,
           AttachCapsuleReturns, MakeRam, ReadPin, DeriveF, ReadT, DetachCapsule,
           DetachCapsuleReturns, MakeScratch, AttachData, AttachDataReturns, CleanupRam,
           CleanupScratch, CleanupReturns, Publish, DropRam, Release
  <2> QED  BY <2>2, <2>3
<1> QED  BY <1>1 DEF Dead, Alive

\* The step of an invocation keeps its own part.
LEMMA ActorBeside ==
    ASSUME TypeOK, NEW p \in Ops, OpStep(p), LocalBesideInv(p), pc[p] \in Critical => lock = p
    PROVE  LocalBesideInv(p)'
<1> USE Domains, HostTypes, OpsAssumption DEF TypeOK, HostTypeOK, OpTypeOK, MemTypeOK, NoHelper,
        LocalBesideInv, AskedOK, DoneOK, RecordOK, Forgotten, Alive, Asked, Ops, CheckMapping,
        CleanupDetach, CleanupDetached, Abort, AbortLogging, AbortEarly, Goto, At, DiskFrame,
        ResultFrame, hostVars, Take, Give, Owns, RamNew, RamNewFails, RamCleanup, RamCleanupFails,
        HelperSucceeded, Exists, memVars, helperVars, Forget, Spawn, Reap, ResOK, RetOK, RootOurs,
        RootIsOpen, PassOK, Cleared, SecretsOK, Opened, Unopened, Critical, Early, Holding,
        Cleaning, DataMap, ROOT_MAP, CAPSULE_MAP, VERIFY_MAP
<1>1. Dead \subseteq Dead'  BY StaysDead
<1>2. CASE AcquireLock(p)  BY <1>1, <1>2 DEF AcquireLock
<1>3. CASE ClearMarker(p)  BY <1>1, <1>3 DEF ClearMarker
<1>4. CASE CheckMappings(p)  BY <1>1, <1>4 DEF CheckMappings
<1>5. CASE Preflight(p)  BY <1>1, <1>5 DEF Preflight
<1>6. CASE WaitKey(p)  BY <1>1, <1>6 DEF WaitKey
<1>7. CASE AttachCapsule(p)  BY <1>1, <1>7 DEF AttachCapsule
<1>8. CASE AttachCapsuleReturns(p)  BY <1>1, <1>8 DEF AttachCapsuleReturns
<1>9. CASE MakeRam(p)  BY <1>1, <1>9 DEF MakeRam
<1>10. CASE ReadPin(p)  BY <1>1, <1>10 DEF ReadPin
<1>11. CASE DeriveF(p)  BY <1>1, <1>11 DEF DeriveF
<1>12. CASE ReadT(p)  BY <1>1, <1>12 DEF ReadT
<1>13. CASE DetachCapsule(p)  BY <1>1, <1>13 DEF DetachCapsule
<1>14. CASE DetachCapsuleReturns(p)  BY <1>1, <1>14 DEF DetachCapsuleReturns
<1>15. CASE MakeScratch(p)  BY <1>1, <1>15 DEF MakeScratch
<1>16. CASE AttachData(p)  BY <1>1, <1>16 DEF AttachData
<1>17. CASE AttachDataReturns(p)  BY <1>1, <1>17 DEF AttachDataReturns
<1>18. CASE CleanupMappings(p)  BY <1>1, <1>18 DEF CleanupMappings
<1>19. CASE CleanupRam(p)  BY <1>1, <1>19 DEF CleanupRam
<1>20. CASE CleanupScratch(p)  BY <1>1, <1>20 DEF CleanupScratch
<1>21. CASE CleanupReturns(p)  BY <1>1, <1>21 DEF CleanupReturns
<1>22. CASE Publish(p)  BY <1>1, <1>22 DEF Publish
<1>23. CASE DropRam(p)  BY <1>1, <1>23 DEF DropRam
<1>24. CASE Release(p)  BY <1>1, <1>24 DEF Release
<1> QED
  BY <1>2, <1>3, <1>4, <1>5, <1>6, <1>7, <1>8, <1>9, <1>10, <1>11, <1>12, <1>13, <1>14, <1>15,
     <1>16, <1>17, <1>18, <1>19, <1>20, <1>21, <1>22, <1>23, <1>24 DEF OpStep

\* What an invocation's part depends on.
LEMMA BesideKept ==
    ASSUME NEW q \in Ops, LocalBesideInv(q), mapper' = mapper,
           helper'[q] = helper[q], child'[q] = child[q], ram'[q] = ram[q],
           pc'[q] = pc[q], res'[q] = res[q], ret'[q] = ret[q],
           q \in errors' <=> q \in errors, q \in reported' <=> q \in reported,
           q \in scratch' <=> q \in scratch, q \in pin' <=> q \in pin,
           final_key'[q] = final_key[q], tpm'[q] = tpm[q], fido'[q] = fido[q],
           Dead \subseteq Dead',
           marker' = q => marker = q,
           pc[q] \in Critical => marker' \in {marker, Nobody}
    PROVE  LocalBesideInv(q)'
<1>1. (AskedOK(q) /\ DoneOK(q))'
  BY DEF LocalBesideInv, AskedOK, DoneOK, Asked, Alive, Exists
<1>2. (Cleared(q) /\ RecordOK(q) /\ Forgotten(q))'
  BY DEF LocalBesideInv, Cleared, RecordOK, Forgotten, Alive
<1>3. (Alive(q) => ResOK(q) /\ RetOK(q))'
  BY DEF LocalBesideInv, ResOK, RetOK, Owns, Alive
<1>4. (Alive(q) => PassOK(q) /\ SecretsOK(q))'
  BY DEF LocalBesideInv, PassOK, SecretsOK, Owns, Alive
<1>5. (RootOurs(q) /\ RootIsOpen(q))'
  BY DEF LocalBesideInv, RootOurs, RootIsOpen
<1> QED  BY <1>1, <1>2, <1>3, <1>4, <1>5 DEF LocalBesideInv

\* So it keeps the parts of the others.
LEMMA OthersBeside ==
    ASSUME TypeOK, BesideInv, NEW p \in Ops, OpStep(p), NEW q \in Ops, q # p
    PROVE  LocalBesideInv(q)'
<1>1. LocalBesideInv(q) /\ Cleared(p) /\ q \in Procs
      /\ (pc[p] \in Critical => lock = p) /\ (pc[q] \in Critical => lock = q)
  BY Domains DEF BesideInv, LockInv, LocalBesideInv
<1>2. marker' # marker => lock = p /\ marker' \in {Nobody, p}
  BY <1>1, LockStep
<1>3. Dead \subseteq Dead'  BY StaysDead
<1>4. (marker' = q => marker = q) /\ (pc[q] \in Critical => marker' \in {marker, Nobody})
  BY <1>1, <1>2, Domains
<1> QED  BY <1>1, <1>3, <1>4, OthersStep, BesideKept

LEMMA OpStepBeside ==
    ASSUME TypeOK, BesideInv, NEW p \in Ops, OpStep(p)
    PROVE  BesideInv'
<1>1. LocalBesideInv(p) /\ Cleared(p) /\ (pc[p] \in Critical => lock = p)
  BY DEF BesideInv, LockInv, LocalBesideInv
<1>2. \A q \in Ops : LocalBesideInv(q)'  BY <1>1, ActorBeside, OthersBeside
<1>3. LockInv'
  <2> SUFFICES ASSUME NEW q \in Ops, pc'[q] \in Critical
               PROVE  lock' = q
    BY DEF LockInv
  <2>1. CASE q = p  BY <1>1, <2>1, LockStep
  <2>2. CASE q # p
    <3>1. lock = q  BY <2>2, OthersStep, Domains DEF BesideInv, LockInv
    <3> QED  BY <1>1, <2>2, <3>1, LockStep, Domains
  <2> QED  BY <2>1, <2>2
<1> QED  BY <1>2, <1>3 DEF BesideInv

\* A death releases the lock and leaves the helper to itself.
LEMMA KillBeside ==
    ASSUME TypeOK, BesideInv, NEW p \in Ops, Kill(p)
    PROVE  BesideInv'
<1> USE DEF TypeOK, OpTypeOK, MemTypeOK, Kill, Goto, Forget
<1>1. UNCHANGED <<mapper, helper, child, ram, marker, scratch, res, ret, errors, reported>>
  BY DEF hostVars, helperVars
<1>2. \A q \in Ops : q # p => pc[q] \notin Critical
  BY DEF BesideInv, LockInv
<1>3. LockInv'
  BY <1>2 DEF LockInv, Critical, Early, Holding, Cleaning
<1>4. Dead \subseteq Dead'
  BY Domains DEF Dead, Ops
<1>5. LocalBesideInv(p)'
  <2>1. pc'[p] = "killed" /\ AskedOK(p) /\ DoneOK(p) /\ RecordOK(p)
    BY DEF BesideInv, LocalBesideInv
  <2>2. AskedOK(p)' /\ DoneOK(p)'
    BY <1>1, <2>1 DEF AskedOK, DoneOK, Alive, Exists
  <2>3. Forgotten(p)'  BY DEF Forgotten
  <2>4. Cleared(p)' /\ RecordOK(p)'
    BY <1>1, <1>4, <2>1 DEF Cleared, RecordOK, Critical, Early, Holding, Cleaning
  <2>5. RootOurs(p)' /\ RootIsOpen(p)'
    BY <2>1 DEF RootOurs, RootIsOpen, Opened, Holding, Cleaning
  <2> QED  BY <2>1, <2>2, <2>3, <2>4, <2>5 DEF LocalBesideInv, Alive
<1>6. ASSUME NEW q \in Ops, q # p
      PROVE  LocalBesideInv(q)'
  <2>1. LocalBesideInv(q)  BY DEF BesideInv
  <2>2. /\ pc'[q] = pc[q] /\ (q \in pin' <=> q \in pin) /\ final_key'[q] = final_key[q]
        /\ tpm'[q] = tpm[q] /\ fido'[q] = fido[q]
    BY <1>6
  <2> QED  BY <1>1, <1>4, <2>1, <2>2, BesideKept
<1> QED  BY <1>3, <1>5, <1>6 DEF BesideInv

\* A helper changes only the name it was started for.
LEMMA NameEffect ==
    ASSUME HostTypeOK, NEW p \in Procs, HelperStep(p) \/ Interrupt(p), NEW n \in Names,
           mapper'[n] # mapper[n]
    PROVE  /\ helper[p].name = n /\ child[p] = "running"
           /\ \/ mapper'[n].by = Nobody /\ helper[p].verb = "detach"
              \/ ~Exists(n) /\ mapper'[n].by = p /\ helper[p].verb \in {"attach", "attach_ro"}
<1> USE DEF HostTypeOK
<1>1. CASE HelperAttaches(p)  BY <1>1 DEF HelperAttaches
<1>2. CASE HelperDetaches(p)  BY <1>2 DEF HelperDetaches, Unmapped
<1>3. CASE HelperFinishes(p)  BY <1>3 DEF HelperFinishes
<1>4. CASE HelperFails(p)  BY <1>4 DEF HelperFails
<1>5. CASE Interrupt(p)  BY <1>5 DEF Interrupt
<1> QED  BY <1>1, <1>2, <1>3, <1>4, <1>5 DEF HelperStep

\* The root volume is opened by the helper of an unlock, and stays open.
LEMMA RootEffect ==
    ASSUME EInv, BesideInv, NEW p \in Ops \cup Enrollers, HelperStep(p) \/ Interrupt(p),
           mapper'[ROOT_MAP] # mapper[ROOT_MAP]
    PROVE  p \in Unlockers /\ mapper'[ROOT_MAP].by = p /\ ~Exists(ROOT_MAP)
           /\ (~Alive(p) \/ lock = p)
<1> USE Tokens, OpsAssumption
<1>1. HostTypeOK /\ p \in Procs /\ ROOT_MAP \in Names
  BY DEF EInv, ComboTypeOK, TypeOK, Ops, Names
<1>2. helper[p].name = ROOT_MAP /\ child[p] = "running"
  BY <1>1, NameEffect
<1>3. p \in Ops
  BY <1>2 DEF EInv, LocalEnrollInv, CallInv, CAPSULE_MAP, ROOT_MAP
<1>4. AskedOK(p) /\ (pc[p] \in Critical => lock = p)
  BY <1>3 DEF BesideInv, LocalBesideInv, LockInv
<1>5. p \in Unlockers /\ helper[p].verb # "detach"
  BY <1>2, <1>4 DEF AskedOK
<1>6. ~Alive(p) \/ pc[p] \in Critical
  BY <1>2, <1>4 DEF AskedOK, Asked, Critical, Holding, Cleaning
<1> QED  BY <1>1, <1>4, <1>5, <1>6, NameEffect

\* The helper of any command, and a signal.
LEMMA HelperBeside ==
    ASSUME EInv, BesideInv, NEW p \in Ops \cup Enrollers, HelperStep(p) \/ Interrupt(p),
           UNCHANGED opVars, NEW q \in Ops
    PROVE  LocalBesideInv(q)'
<1> USE Tokens, OpsAssumption DEF opVars, memVars
<1>1. /\ HostTypeOK /\ LocalBesideInv(q) /\ p \in Procs /\ q \in Procs
      /\ CAPSULE_MAP \in Names /\ VERIFY_MAP \in Names /\ ROOT_MAP \in Names
  BY DEF EInv, ComboTypeOK, TypeOK, Ops, Names, BesideInv
<1>2. /\ UNCHANGED <<helper, ram>> /\ (child'[q] # "none" => child[q] # "none")
      /\ (child[q] # "none" => child'[q] # "none")
      /\ (child'[q] = "ok" /\ child[q] # "ok" => p = q /\ MappedAsAsked(q) /\ mapper' = mapper)
  BY <1>1, HelperEffect DEF HostTypeOK
<1>3. \A n \in Names : mapper'[n].by = q /\ mapper[n].by # q =>
        p = q /\ helper[q].name = n /\ child[q] # "none" /\ child[q] # "ok"
        /\ helper[q].verb \in {"attach", "attach_ro"}
  BY <1>1, NameEffect, Domains
<1>4. Exists(ROOT_MAP) => mapper'[ROOT_MAP] = mapper[ROOT_MAP]
  BY RootEffect
<1>5. Dead' = Dead  BY DEF Dead
<1>6. AskedOK(q)'
  BY <1>1, <1>2 DEF LocalBesideInv, AskedOK, Asked, Alive
<1>7. DoneOK(q)'
  BY <1>1, <1>2, <1>3, <1>4, Domains DEF LocalBesideInv, AskedOK, DoneOK, MappedAsAsked, Exists,
     HostTypeOK, Helper, Verbs
<1>8. Cleared(q)' /\ Forgotten(q)'
  BY <1>1 DEF LocalBesideInv, Cleared, Forgotten, Alive
<1>9. RecordOK(q)'
  <2> SUFFICES ASSUME marker = q
               PROVE  RecordOK(q)'
    BY DEF RecordOK
  <2>1. RecordOK(q) /\ Exists(ROOT_MAP)
    BY <1>1, Domains, SentinelAssumption DEF LocalBesideInv, RecordOK, Exists, Dead, Unmapped
  <2> QED  BY <1>1, <1>2, <1>3, <1>4, <1>5, <2>1, Domains DEF RecordOK
<1>10. (Alive(q) => ResOK(q) /\ RetOK(q) /\ PassOK(q) /\ SecretsOK(q))'
  BY <1>1, <1>2, <1>3
     DEF LocalBesideInv, AskedOK, Asked, Alive, ResOK, RetOK, PassOK, SecretsOK, Owns, DataMap,
         Unopened, Early, CAPSULE_MAP, VERIFY_MAP, ROOT_MAP, Ops
<1>11. RootOurs(q)' /\ RootIsOpen(q)'
  <2>1. RootOurs(q) /\ RootIsOpen(q) /\ (pc[q] \in Critical => lock = q)
    BY <1>1 DEF LocalBesideInv, BesideInv, LockInv
  <2>2. pc[q] \in Opened \cup {"check_capsule", "preflight", "wait_key"} => pc[q] \in Critical
    BY DEF Opened, Critical, Early, Holding, Cleaning
  <2>3. mapper'[ROOT_MAP] # mapper[ROOT_MAP] =>
          /\ p \in Unlockers /\ mapper'[ROOT_MAP].by = p /\ mapper[ROOT_MAP].by = Nobody
          /\ p \in Dead \/ lock = p
    BY RootEffect DEF Exists, Dead, Alive
  <2>4. RootOurs(q)'
    BY <1>5, <2>1, <2>2, <2>3 DEF RootOurs
  <2>5. RootIsOpen(q)'
    BY <1>5, <2>1, <2>3, Domains, SentinelAssumption DEF RootIsOpen, Dead
  <2> QED  BY <2>4, <2>5
<1> QED  BY <1>6, <1>7, <1>8, <1>9, <1>10, <1>11 DEF LocalBesideInv

\* Enrollments, their helpers' other work and their deaths.
LEMMA EnrollBeside ==
    ASSUME EInv, BesideInv, NEW e \in Enrollers, UNCHANGED opVars,
           EnrollStep(e) \/ HelperFormats(e) \/ HelperSeals(e) \/ EnrollKill(e)
    PROVE  BesideInv'
<1> USE Tokens, OpsAssumption DEF opVars, memVars
<1>1. ComboTypeOK  BY DEF EInv
<1>2. ASSUME NEW q \in Ops
      PROVE  LocalBesideInv(q)'
  <2>1. q \in Procs /\ q # e /\ LocalBesideInv(q)
    BY DEF Ops, BesideInv
  <2>2. mapper' = mapper /\ helper'[q] = helper[q] /\ child'[q] = child[q] /\ ram'[q] = ram[q]
    BY <1>1, <2>1, EnrollOthers, GuardsOthers
       DEF HelperFormats, HelperSeals, EnrollKill, hostVars, helperVars, ComboTypeOK, TypeOK,
           HostTypeOK
  <2>3. Dead \subseteq Dead'
    BY DEF Dead
  <2> QED  BY <2>1, <2>2, <2>3, BesideKept
<1>3. LockInv'  BY DEF BesideInv, LockInv
<1> QED  BY <1>2, <1>3 DEF BesideInv

LEMMA BesideInit == ComboInit => BesideInv
<1> SUFFICES ASSUME ComboInit
             PROVE  BesideInv
  OBVIOUS
<1>1. IInv  BY InitInv DEF ComboInit, Init
<1>2. LockInv  BY <1>1 DEF IInv
<1>3. ASSUME NEW p \in Ops
      PROVE  LocalBesideInv(p)
  <2>1. LocalInv(p)  BY <1>1 DEF IInv
  <2>2. /\ child[p] = "none" /\ helper[p] = NoHelper /\ pc[p] = "start" /\ marker # p
    BY Domains, SentinelAssumption, OpsAssumption
       DEF ComboInit, HostInit, OpInit, Ops
  <2>3. AskedOK(p) /\ DoneOK(p) /\ RecordOK(p) /\ Forgotten(p)
    BY <2>2 DEF AskedOK, DoneOK, RecordOK, Forgotten, Alive, NoHelper, CAPSULE_MAP, ROOT_MAP
  <2>4. RootOurs(p) /\ RootIsOpen(p)
    BY <2>2 DEF RootOurs, RootIsOpen, Opened, Holding, Cleaning
  <2> QED  BY <2>1, <2>3, <2>4 DEF LocalInv, LocalBesideInv
<1> QED  BY <1>2, <1>3 DEF BesideInv

LEMMA BesideNext == EInv /\ BesideInv /\ [ComboKillNext]_comboVars => BesideInv'
<1> SUFFICES ASSUME EInv, BesideInv, [ComboKillNext]_comboVars
             PROVE  BesideInv'
  OBVIOUS
<1> USE Tokens, OpsAssumption
<1>1. TypeOK  BY DEF EInv, ComboTypeOK
<1>2. CASE UNCHANGED comboVars
  <2> USE <1>2 DEF comboVars, vars, hostVars, helperVars, opVars, memVars, enrollVars
  <2>1. ASSUME NEW q \in Ops
        PROVE  LocalBesideInv(q)'
    <3>1. Dead \subseteq Dead'  BY DEF Dead
    <3>2. LocalBesideInv(q)  BY DEF BesideInv
    <3> QED  BY <3>1, <3>2, BesideKept
  <2> QED  BY <2>1 DEF BesideInv, LockInv
<1>3. ASSUME NEW p \in Ops, OpStep(p) \/ Kill(p)
      PROVE  BesideInv'
  BY <1>1, <1>3, OpStepBeside, KillBeside
<1>4. ASSUME NEW p \in Ops \cup Enrollers, HelperStep(p) \/ Interrupt(p), UNCHANGED opVars
      PROVE  BesideInv'
  <2>1. \A q \in Ops : LocalBesideInv(q)'  BY <1>4, HelperBeside
  <2>2. LockInv'  BY <1>4 DEF BesideInv, LockInv, opVars
  <2> QED  BY <2>1, <2>2 DEF BesideInv
<1>5. ASSUME NEW e \in Enrollers, UNCHANGED opVars,
             EnrollStep(e) \/ HelperFormats(e) \/ HelperSeals(e) \/ EnrollKill(e)
      PROVE  BesideInv'
  BY <1>5, EnrollBeside
<1> QED
  BY <1>2, <1>3, <1>4, <1>5 DEF ComboKillNext, ComboNext, StepOf, KillOf, EnrollOutside, Outside

(***************************************************************************)
(* What each step of an unlock or a verification has established of its    *)
(* own resources, beside any commands and through any deaths (unlock.rs,   *)
(* run and Resources).                                                     *)
(***************************************************************************)
THEOREM BesideInvariant == ComboKillSpec => [](EInv /\ BesideInv)
<1>1. ComboInit => EInv /\ BesideInv  BY ComboInitInv, BesideInit
<1>2. EInv /\ BesideInv /\ [ComboKillNext]_comboVars => (EInv /\ BesideInv)'
  BY ComboNextInv, BesideNext
<1> QED  BY <1>1, <1>2, PTL DEF ComboKillSpec

(***************************************************************************)
(* An unlock or a verification that returned in silence left nothing       *)
(* behind, though enrollments map and detach the same name without a lock  *)
(* and the helpers of killed commands go on (unlock.rs, cleanup and Drop). *)
(***************************************************************************)
THEOREM CleanupBeside == ComboKillSpec => []NothingLeaks
<1>1. BesideInv => NothingLeaks
  BY DEF BesideInv, LocalBesideInv, NothingLeaks, ResOK, PassOK, At, Alive
<1> QED  BY <1>1, BesideInvariant, PTL

(***************************************************************************)
(* No unlock fails beside the record of an earlier one, which may have     *)
(* been killed after it published (unlock.rs, removal of MARKER).          *)
(***************************************************************************)
THEOREM RecordFreshBeside == ComboKillSpec => []NoStaleRecord
<1>1. BesideInv => NoStaleRecord
  BY DEF BesideInv, LocalBesideInv, NoStaleRecord, Cleared, Ops
<1> QED  BY <1>1, BesideInvariant, PTL

(***************************************************************************)
(* The TPM secret is not exposed by an invocation whose helper opens the   *)
(* data volume, not even when it is killed then (unlock.rs, the order of   *)
(* detach and keyed).                                                      *)
(***************************************************************************)
THEOREM CapsuleShutBeside == ComboKillSpec => []CapsuleShutBeforeData
<1>1. BesideInv => CapsuleShutBeforeData
  BY DEF BesideInv, LocalBesideInv, CapsuleShutBeforeData, DoneOK
<1> QED  BY <1>1, BesideInvariant, PTL

(***************************************************************************)
(* The PIN and the TPM secret are never in memory together, and no secret  *)
(* is while a device is attached, by a killed invocation's helper too      *)
(* (unlock.rs, the order of the drops).                                    *)
(***************************************************************************)
THEOREM SecretsApartBeside == ComboKillSpec => []SecretsApart
<1>1. BesideInv => SecretsApart
  BY DEF BesideInv, LocalBesideInv, SecretsApart, SecretsOK, Forgotten
<1> QED  BY <1>1, BesideInvariant, PTL

(***************************************************************************)
(* The record of any number of unlocks is true through deaths at any step, *)
(* beside any verifications and enrollments: it outlives the death of its  *)
(* unlock, and if the helper of another that was killed has opened the     *)
(* root volume first, that volume stays open (unlock.rs, publication).     *)
(***************************************************************************)
THEOREM RecordBeside == ComboKillSpec => []RecordIsTrue
<1>1. BesideInv => RecordIsTrue
  BY DEF BesideInv, LocalBesideInv, RecordIsTrue, RecordOK
<1> QED  BY <1>1, BesideInvariant, PTL

\* Without deaths nobody is killed.
NobodyKilled == \A p \in Ops : Alive(p)

LEMMA NoDeath ==
    ASSUME EInv, NobodyKilled, [ComboNext]_comboVars
    PROVE  NobodyKilled'
<1>1. TypeOK  BY DEF EInv, ComboTypeOK
<1>2. ASSUME NEW p \in Ops, OpStep(p)
      PROVE  NobodyKilled'
  <2>1. pc'[p] # "killed"
    BY <1>1, <1>2
       DEF TypeOK, OpTypeOK, OpStep, Goto, AbortEarly, Abort, AbortLogging, CheckMappings,
           CheckMapping, CleanupMappings, CleanupDetach, CleanupDetached, AcquireLock, ClearMarker,
           Preflight, WaitKey, AttachCapsule, AttachCapsuleReturns, MakeRam, ReadPin, DeriveF,
           ReadT, DetachCapsule, DetachCapsuleReturns, MakeScratch, AttachData, AttachDataReturns,
           CleanupRam, CleanupScratch, CleanupReturns, Publish, DropRam, Release
  <2> QED  BY <1>1, <1>2, <2>1, OthersStep, Domains DEF NobodyKilled, Alive
<1>3. CASE UNCHANGED opVars  BY <1>3 DEF opVars, NobodyKilled, Alive
<1> QED
  BY <1>2, <1>3 DEF ComboNext, StepOf, Outside, comboVars, vars

LEMMA Undisturbed == ComboSpec => [](EInv /\ BesideInv /\ NobodyKilled)
<1>1. ComboInit => EInv /\ BesideInv /\ NobodyKilled
  BY ComboInitInv, BesideInit DEF NobodyKilled, Alive, ComboInit, OpInit
<1>2. [ComboNext]_comboVars => [ComboKillNext]_comboVars
  BY DEF ComboKillNext
<1>3. EInv /\ BesideInv /\ NobodyKilled /\ [ComboNext]_comboVars =>
        (EInv /\ BesideInv /\ NobodyKilled)'
  BY <1>2, ComboNextInv, BesideNext, NoDeath
<1> QED  BY <1>1, <1>3, PTL DEF ComboSpec

\* As long as nobody is killed the root volume is the recorded unlock's own.
RecordIsOwn == \A p \in Ops : marker = p => mapper[ROOT_MAP].by = p

(***************************************************************************)
(* A root volume whose unlock is on record was opened by that unlock's own *)
(* helper, beside any verifications and enrollments, unless some unlock    *)
(* was killed (unlock.rs, publication).                                    *)
(***************************************************************************)
THEOREM RecordSoundBeside == ComboSpec => []RecordIsOwn
<1>1. BesideInv /\ NobodyKilled => RecordIsOwn
  BY DEF BesideInv, LocalBesideInv, NobodyKilled, RecordIsOwn, RecordOK, Dead, Alive, Ops
<1> QED  BY <1>1, Undisturbed, PTL

\* What a helper, alive or of a dead enrollment, does to the root volume.
LEMMA RootWait ==
    ASSUME EInv, BesideInv, NobodyKilled, NEW p \in Ops \cup Enrollers,
           HelperStep(p) \/ Interrupt(p), mapper'[ROOT_MAP] # mapper[ROOT_MAP]
    PROVE  /\ p \in Unlockers /\ pc[p] = "attach_data_wait"
           /\ ~Exists(ROOT_MAP) /\ mapper'[ROOT_MAP].by = p
<1>1. p \in Unlockers /\ p \in Ops /\ mapper'[ROOT_MAP].by = p /\ ~Exists(ROOT_MAP)
  BY RootEffect DEF Ops
<1>2. helper[p].name = ROOT_MAP /\ child[p] = "running"
  BY <1>1, NameEffect, Domains DEF EInv, ComboTypeOK, TypeOK, Names
<1>3. AskedOK(p) /\ Alive(p)
  BY <1>1 DEF BesideInv, LocalBesideInv, NobodyKilled
<1> QED  BY <1>1, <1>2, <1>3 DEF AskedOK, Asked, CAPSULE_MAP, VERIFY_MAP, ROOT_MAP

\* The kinds of steps of ComboNext, told by what they do to the unlocks.
LEMMA ComboStep ==
    ASSUME EInv, [ComboNext]_comboVars
    PROVE  \/ \E p \in Ops : OpStep(p)
           \/ /\ UNCHANGED opVars
              /\ \/ mapper' = mapper
                 \/ \E p \in Ops \cup Enrollers : HelperStep(p) \/ Interrupt(p)
<1>1. ComboTypeOK  BY DEF EInv
<1>2. ASSUME NEW e \in Enrollers, UNCHANGED opVars,
             EnrollStep(e) \/ HelperFormats(e) \/ HelperSeals(e)
      PROVE  mapper' = mapper
  BY <1>1, <1>2, EnrollOthers DEF HelperFormats, HelperSeals
<1>3. CASE UNCHANGED comboVars
  BY <1>3 DEF comboVars, vars, hostVars
<1> QED  BY <1>2, <1>3 DEF ComboNext, StepOf, EnrollOutside, Outside

LEMMA TurnsKept ==
    ASSUME EInv, BesideInv, NobodyKilled, TurnInv, [ComboNext]_comboVars
    PROVE  TurnInv' /\ [Turn!TurnsNext]_Turn!turnVars
<1>1. TypeOK /\ LockInv
  BY DEF EInv, ComboTypeOK, BesideInv
<1>2. ASSUME NEW p \in Ops
      PROVE  Cleared(p) /\ RetOK(p) /\ RootOpened(p) /\ (marker = p => ret[p] = "ok")
  <2>1. Alive(p) /\ Dead = {}  BY <1>2 DEF NobodyKilled, Dead, Alive, Ops
  <2> QED  BY <1>2, <2>1 DEF BesideInv, LocalBesideInv, RecordOK, RootIsOpen, RootOpened
<1>3. ASSUME NEW p \in Ops, OpStep(p)
      PROVE  TurnInv' /\ (Turn!TurnOf(p) \/ UNCHANGED Turn!turnVars)
  BY <1>1, <1>2, <1>3, TurnStep, TakesTurn
<1>4. ASSUME UNCHANGED opVars, NEW p \in Ops \cup Enrollers, HelperStep(p) \/ Interrupt(p),
             mapper'[ROOT_MAP] # mapper[ROOT_MAP]
      PROVE  TurnInv' /\ p \in Ops /\ Turn!TurnOf(p)
  <2>1. /\ p \in Unlockers /\ p \in Ops /\ pc[p] = "attach_data_wait"
        /\ ~Exists(ROOT_MAP) /\ mapper'[ROOT_MAP].by = p
    BY <1>4, RootWait DEF Ops
  <2>2. TurnInv'
    BY <1>4, <2>1 DEF opVars, TurnInv, TurnOK
  <2>3. Turn!TurnOf(p) \/ UNCHANGED Turn!turnVars
    BY <1>1, <1>2, <1>4, <2>1, RootTurn
  <2>4. ~UNCHANGED Turn!turnVars
    BY <2>1, Domains DEF Exists, Turn!turnVars
  <2> QED  BY <2>1, <2>2, <2>3, <2>4
<1>5. ASSUME UNCHANGED opVars, mapper'[ROOT_MAP] = mapper[ROOT_MAP]
      PROVE  TurnInv' /\ UNCHANGED Turn!turnVars
  BY <1>5 DEF opVars, TurnInv, TurnOK, Returned, At, Turn!turnVars
<1> QED  BY <1>3, <1>4, <1>5, ComboStep DEF Turn!TurnsNext

(***************************************************************************)
(* Unlocks and verifications implement Turns beside any enrollments too,   *)
(* which take no lock but touch neither the record nor the root volume     *)
(* (enroll.rs; unlock.rs, flock, removal of MARKER, atomic_write).         *)
(***************************************************************************)
THEOREM TurnsBeside == ComboSpec => TakesTurns
<1>1. ComboInit => Turn!TurnsInit /\ TurnInv
  <2>1. ComboInit => Init  BY DEF ComboInit, Init
  <2> QED  BY <2>1, InitTurns, InitInv DEF IInv
<1>2. ComboSpec => []TurnInv
  <2>1. EInv /\ BesideInv /\ NobodyKilled /\ TurnInv /\ [ComboNext]_comboVars => TurnInv'
    BY TurnsKept
  <2> QED  BY <1>1, <2>1, Undisturbed, PTL DEF ComboSpec
<1>3. EInv /\ BesideInv /\ NobodyKilled /\ TurnInv /\ [ComboNext]_comboVars =>
        [Turn!TurnsNext]_Turn!turnVars
  BY TurnsKept
<1> QED  BY <1>1, <1>2, <1>3, Undisturbed, PTL DEF ComboSpec, TakesTurns, Turn!TurnsSpec
=============================================================================
