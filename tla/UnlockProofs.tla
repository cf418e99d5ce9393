---------------------------- MODULE UnlockProofs ----------------------------
(***************************************************************************)
(* The safety of Unlock for any number of invocations, directories and     *)
(* devices.                                                                *)
(***************************************************************************)
EXTENDS UnlockInv, TLAPS

\* The domains the steps assign from.
LEMMA Domains ==
    /\ NoKey \in Key /\ NoHelper \in Helper
    /\ Ops \subseteq Procs /\ Ops \subseteq Token
    /\ Nobody \in Token /\ Nobody \notin Ops /\ Stranger \notin Procs
    /\ \A x \in Token, y \in Token : derive(x, y) \in Key
BY OpsAssumption, SentinelAssumption
   DEF Ops, NoKey, Key, NoHelper, Helper, Token, derive, Verbs, Names

HelperTypeOK ==
    /\ helper \in [Procs -> Helper]
    /\ child \in [Procs -> {"none", "running", "ok", "failed"}]

LEMMA HostTypes ==
    ASSUME TypeOK
    PROVE  /\ HelperTypeOK
           /\ MemTypeOK
           /\ \A p \in Procs : manifest[DirOf[p]] \in Token
           /\ MappedSecret \in Token
BY ConfigAssumption
   DEF TypeOK, HostTypeOK, OpTypeOK, MappedSecret, Token, Capsule, HelperTypeOK

\* What a call and its return do to the helper of an invocation.
LEMMA SpawnType ==
    ASSUME HelperTypeOK, NEW p \in Procs, NEW v \in Verbs, NEW n \in Names,
           NEW k \in Key, Spawn(p, v, n, k)
    PROVE  HelperTypeOK'
<1> DEFINE h == [verb |-> v, name |-> n, key |-> k]
<1>1. h \in Helper BY DEF Helper
<1> HIDE DEF h
<1>2. helper' = [helper EXCEPT ![p] = h] BY DEF Spawn, h
<1>3. child' = [child EXCEPT ![p] = "running"] BY DEF Spawn
<1> QED BY <1>1, <1>2, <1>3 DEF HelperTypeOK

LEMMA ReapType ==
    ASSUME HelperTypeOK, NEW p \in Procs, Reap(p)
    PROVE  HelperTypeOK'
BY Domains DEF HelperTypeOK, Reap

\* Forgetting, and assigning one of the secrets.
LEMMA ForgetType ==
    ASSUME MemTypeOK, NEW p \in Ops, Forget(p)
    PROVE  MemTypeOK'
<1>1. (decoded \in [Ops -> Token] /\ fido \in [Ops -> Token])'
  BY Domains DEF MemTypeOK, Forget
<1>2. (tpm \in [Ops -> Token] /\ final_key \in [Ops -> Key])'
  BY Domains DEF MemTypeOK, Forget
<1>3. (pin \subseteq Ops)' BY DEF MemTypeOK, Forget
<1> QED BY <1>1, <1>2, <1>3 DEF MemTypeOK

LEMMA SecretType ==
    ASSUME MemTypeOK, NEW p \in Ops, NEW t \in Token, NEW k \in Key
    PROVE  /\ [decoded EXCEPT ![p] = t] \in [Ops -> Token]
           /\ [fido EXCEPT ![p] = t] \in [Ops -> Token]
           /\ [tpm EXCEPT ![p] = t] \in [Ops -> Token]
           /\ [final_key EXCEPT ![p] = k] \in [Ops -> Key]
BY DEF MemTypeOK

LEMMA KeptType ==
    /\ MemTypeOK /\ UNCHANGED memVars => MemTypeOK'
    /\ HelperTypeOK /\ UNCHANGED helperVars => HelperTypeOK'
BY DEF MemTypeOK, HelperTypeOK, memVars, helperVars

-----------------------------------------------------------------------------
LEMMA MemStep ==
    ASSUME TypeOK, NEW p \in Ops, OpStep(p)
    PROVE  MemTypeOK'
<1> USE Domains, HostTypes, ForgetType, KeptType DEF CheckMapping,
    CleanupDetach, CleanupDetached, Abort, AbortLogging, AbortEarly, Goto, At,
    DiskFrame, ResultFrame, hostVars, Take, Give, Owns, RamNew, RamNewFails,
    RamCleanup, RamCleanupFails, HelperSucceeded, Exists, MappedAsAsked
<1>1. CASE AcquireLock(p) BY <1>1 DEF AcquireLock
<1>2. CASE ClearMarker(p) BY <1>2 DEF ClearMarker
<1>3. CASE CheckMappings(p) BY <1>3 DEF CheckMappings
<1>4. CASE Preflight(p)
  <2>1. CASE Forget(p) \/ UNCHANGED memVars BY <2>1
  <2>2. CASE ~(Forget(p) \/ UNCHANGED memVars)
    <3>1. decoded' = [decoded EXCEPT ![p] = manifest[DirOf[p]]]
         /\ UNCHANGED <<pin, fido, tpm, final_key>>
      BY <1>4, <2>2, SecretType DEF Preflight, MemTypeOK
    <3> QED BY <3>1, SecretType DEF MemTypeOK, memVars
  <2> QED BY <2>1, <2>2
<1>5. CASE WaitKey(p) BY <1>5 DEF WaitKey
<1>6. CASE AttachCapsule(p) BY <1>6 DEF AttachCapsule
<1>7. CASE AttachCapsuleReturns(p) BY <1>7 DEF AttachCapsuleReturns
<1>8. CASE MakeRam(p) BY <1>8 DEF MakeRam
<1>9. CASE ReadPin(p)
  <2>1. CASE Forget(p) \/ UNCHANGED memVars BY <2>1
  <2>2. CASE ~(Forget(p) \/ UNCHANGED memVars)
    <3>1. pin' = pin \cup {p} /\ UNCHANGED <<decoded, fido, tpm, final_key>>
      BY <1>9, <2>2, SecretType DEF ReadPin, MemTypeOK
    <3> QED BY <3>1, SecretType DEF MemTypeOK, memVars
  <2> QED BY <2>1, <2>2
<1>10. CASE DeriveF(p)
  <2>1. CASE Forget(p) \/ UNCHANGED memVars BY <2>1
  <2>2. CASE ~(Forget(p) \/ UNCHANGED memVars)
    <3>1. fido' = [fido EXCEPT ![p] = decoded[p]] /\ decoded[p] \in Token
         /\ pin' = pin \ {p} /\ UNCHANGED <<decoded, tpm, final_key>>
      BY <1>10, <2>2, SecretType DEF DeriveF, MemTypeOK
    <3> QED BY <3>1, SecretType DEF MemTypeOK, memVars
  <2> QED BY <2>1, <2>2
<1>11. CASE ReadT(p)
  <2>1. CASE Forget(p) \/ UNCHANGED memVars BY <2>1
  <2>2. CASE ~(Forget(p) \/ UNCHANGED memVars)
    <3>1. tpm' = [tpm EXCEPT ![p] = MappedSecret]
         /\ UNCHANGED <<decoded, pin, fido, final_key>>
      BY <1>11, <2>2, SecretType DEF ReadT, MemTypeOK
    <3> QED BY <3>1, SecretType DEF MemTypeOK, memVars
  <2> QED BY <2>1, <2>2
<1>12. CASE DetachCapsule(p) BY <1>12 DEF DetachCapsule
<1>13. CASE DetachCapsuleReturns(p)
  <2>1. CASE Forget(p) \/ UNCHANGED memVars BY <2>1
  <2>2. CASE ~(Forget(p) \/ UNCHANGED memVars)
    <3>1. final_key' = [final_key EXCEPT ![p] = derive(tpm[p], fido[p])]
         /\ derive(tpm[p], fido[p]) \in Key
         /\ tpm' = [tpm EXCEPT ![p] = Nobody] /\ fido' = [fido EXCEPT ![p] = Nobody]
         /\ UNCHANGED <<decoded, pin>>
      BY <1>13, <2>2, SecretType DEF DetachCapsuleReturns, MemTypeOK
    <3> QED BY <3>1, SecretType DEF MemTypeOK, memVars
  <2> QED BY <2>1, <2>2
<1>14. CASE MakeScratch(p) BY <1>14 DEF MakeScratch
<1>15. CASE AttachData(p)
  <2>1. CASE Forget(p) \/ UNCHANGED memVars BY <2>1
  <2>2. CASE ~(Forget(p) \/ UNCHANGED memVars)
    <3>1. final_key' = [final_key EXCEPT ![p] = NoKey]
         /\ UNCHANGED <<decoded, pin, fido, tpm>>
      BY <1>15, <2>2, SecretType DEF AttachData, MemTypeOK
    <3> QED BY <3>1, SecretType DEF MemTypeOK, memVars
  <2> QED BY <2>1, <2>2
<1>16. CASE AttachDataReturns(p) BY <1>16 DEF AttachDataReturns
<1>17. CASE CleanupMappings(p) BY <1>17 DEF CleanupMappings
<1>18. CASE CleanupRam(p) BY <1>18 DEF CleanupRam
<1>19. CASE CleanupScratch(p) BY <1>19 DEF CleanupScratch
<1>20. CASE CleanupReturns(p) BY <1>20 DEF CleanupReturns
<1>21. CASE Publish(p) BY <1>21 DEF Publish
<1>22. CASE DropRam(p) BY <1>22 DEF DropRam
<1>23. CASE Release(p) BY <1>23 DEF Release
<1> QED BY <1>1, <1>2, <1>3, <1>4, <1>5, <1>6, <1>7, <1>8, <1>9, <1>10, <1>11,
    <1>12, <1>13, <1>14, <1>15, <1>16, <1>17, <1>18, <1>19, <1>20, <1>21,
    <1>22, <1>23 DEF OpStep

LEMMA OpTypeStep ==
    ASSUME TypeOK, NEW p \in Ops, OpStep(p)
    PROVE  OpTypeOK'
<1> USE Domains, MemStep DEF TypeOK, OpTypeOK, CheckMapping, CleanupDetach,
    CleanupDetached, Abort, AbortLogging, AbortEarly, Goto, At, DiskFrame,
    ResultFrame, hostVars, Take, Give, Owns, RamNew, RamNewFails, RamCleanup,
    RamCleanupFails, HelperSucceeded, Exists, MappedAsAsked, memVars,
    helperVars, Labels, Critical, Early, Holding, Cleaning, Resources
<1>1. CASE AcquireLock(p) BY <1>1 DEF AcquireLock
<1>2. CASE ClearMarker(p) BY <1>2 DEF ClearMarker
<1>3. CASE CheckMappings(p) BY <1>3 DEF CheckMappings
<1>4. CASE Preflight(p) BY <1>4 DEF Preflight
<1>5. CASE WaitKey(p) BY <1>5 DEF WaitKey
<1>6. CASE AttachCapsule(p) BY <1>6 DEF AttachCapsule
<1>7. CASE AttachCapsuleReturns(p) BY <1>7 DEF AttachCapsuleReturns
<1>8. CASE MakeRam(p) BY <1>8 DEF MakeRam
<1>9. CASE ReadPin(p) BY <1>9 DEF ReadPin
<1>10. CASE DeriveF(p) BY <1>10 DEF DeriveF
<1>11. CASE ReadT(p) BY <1>11 DEF ReadT
<1>12. CASE DetachCapsule(p) BY <1>12 DEF DetachCapsule
<1>13. CASE DetachCapsuleReturns(p) BY <1>13 DEF DetachCapsuleReturns
<1>14. CASE MakeScratch(p) BY <1>14 DEF MakeScratch
<1>15. CASE AttachData(p) BY <1>15 DEF AttachData
<1>16. CASE AttachDataReturns(p) BY <1>16 DEF AttachDataReturns
<1>17. CASE CleanupMappings(p) BY <1>17 DEF CleanupMappings
<1>18. CASE CleanupRam(p) BY <1>18 DEF CleanupRam
<1>19. CASE CleanupScratch(p) BY <1>19 DEF CleanupScratch
<1>20. CASE CleanupReturns(p) BY <1>20 DEF CleanupReturns
<1>21. CASE Publish(p) BY <1>21 DEF Publish
<1>22. CASE DropRam(p) BY <1>22 DEF DropRam
<1>23. CASE Release(p) BY <1>23 DEF Release
<1> QED BY <1>1, <1>2, <1>3, <1>4, <1>5, <1>6, <1>7, <1>8, <1>9, <1>10, <1>11,
    <1>12, <1>13, <1>14, <1>15, <1>16, <1>17, <1>18, <1>19, <1>20, <1>21,
    <1>22, <1>23 DEF OpStep

\* No step of an invocation touches the device mapper, the disks or a flag.
LEMMA HostStep ==
    ASSUME TypeOK, NEW p \in Ops, OpStep(p)
    PROVE  /\ UNCHANGED <<mapper, interrupted, capsule, manifest, slot>>
           /\ (ram \in [Procs -> {"none", "dir", "mounted"}])'
<1> USE Domains DEF TypeOK, HostTypeOK, CheckMapping, CleanupDetach,
    CleanupDetached, Abort, AbortLogging, AbortEarly, Goto, At, DiskFrame,
    ResultFrame, hostVars, Take, Give, Owns, RamNew, RamNewFails, RamCleanup,
    RamCleanupFails, HelperSucceeded, Exists, MappedAsAsked, helperVars
<1>1. CASE AcquireLock(p) BY <1>1 DEF AcquireLock
<1>2. CASE ClearMarker(p) BY <1>2 DEF ClearMarker
<1>3. CASE CheckMappings(p) BY <1>3 DEF CheckMappings
<1>4. CASE Preflight(p) BY <1>4 DEF Preflight
<1>5. CASE WaitKey(p) BY <1>5 DEF WaitKey
<1>6. CASE AttachCapsule(p) BY <1>6 DEF AttachCapsule
<1>7. CASE AttachCapsuleReturns(p) BY <1>7 DEF AttachCapsuleReturns
<1>8. CASE MakeRam(p) BY <1>8 DEF MakeRam
<1>9. CASE ReadPin(p) BY <1>9 DEF ReadPin
<1>10. CASE DeriveF(p) BY <1>10 DEF DeriveF
<1>11. CASE ReadT(p) BY <1>11 DEF ReadT
<1>12. CASE DetachCapsule(p) BY <1>12 DEF DetachCapsule
<1>13. CASE DetachCapsuleReturns(p) BY <1>13 DEF DetachCapsuleReturns
<1>14. CASE MakeScratch(p) BY <1>14 DEF MakeScratch
<1>15. CASE AttachData(p) BY <1>15 DEF AttachData
<1>16. CASE AttachDataReturns(p) BY <1>16 DEF AttachDataReturns
<1>17. CASE CleanupMappings(p) BY <1>17 DEF CleanupMappings
<1>18. CASE CleanupRam(p) BY <1>18 DEF CleanupRam
<1>19. CASE CleanupScratch(p) BY <1>19 DEF CleanupScratch
<1>20. CASE CleanupReturns(p) BY <1>20 DEF CleanupReturns
<1>21. CASE Publish(p) BY <1>21 DEF Publish
<1>22. CASE DropRam(p) BY <1>22 DEF DropRam
<1>23. CASE Release(p) BY <1>23 DEF Release
<1> QED BY <1>1, <1>2, <1>3, <1>4, <1>5, <1>6, <1>7, <1>8, <1>9, <1>10, <1>11,
    <1>12, <1>13, <1>14, <1>15, <1>16, <1>17, <1>18, <1>19, <1>20, <1>21,
    <1>22, <1>23 DEF OpStep

LEMMA HelperTypeStep ==
    ASSUME TypeOK, NEW p \in Ops, OpStep(p)
    PROVE  HelperTypeOK'
<1> USE Domains, HostTypes, SpawnType, ReapType, KeptType DEF MemTypeOK,
    CheckMapping, CleanupDetach, CleanupDetached, Abort, AbortLogging,
    AbortEarly, Goto, At, DiskFrame, ResultFrame, hostVars, Take, Give, Owns,
    RamNew, RamNewFails, RamCleanup, RamCleanupFails, HelperSucceeded, Exists,
    MappedAsAsked, memVars, DataMap, Verbs, Names, ROOT_MAP, CAPSULE_MAP,
    VERIFY_MAP
<1>1. CASE AcquireLock(p) BY <1>1 DEF AcquireLock
<1>2. CASE ClearMarker(p) BY <1>2 DEF ClearMarker
<1>3. CASE CheckMappings(p) BY <1>3 DEF CheckMappings
<1>4. CASE Preflight(p) BY <1>4 DEF Preflight
<1>5. CASE WaitKey(p) BY <1>5 DEF WaitKey
<1>6. CASE AttachCapsule(p) BY <1>6 DEF AttachCapsule
<1>7. CASE AttachCapsuleReturns(p) BY <1>7 DEF AttachCapsuleReturns
<1>8. CASE MakeRam(p) BY <1>8 DEF MakeRam
<1>9. CASE ReadPin(p) BY <1>9 DEF ReadPin
<1>10. CASE DeriveF(p) BY <1>10 DEF DeriveF
<1>11. CASE ReadT(p) BY <1>11 DEF ReadT
<1>12. CASE DetachCapsule(p) BY <1>12 DEF DetachCapsule
<1>13. CASE DetachCapsuleReturns(p) BY <1>13 DEF DetachCapsuleReturns
<1>14. CASE MakeScratch(p) BY <1>14 DEF MakeScratch
<1>15. CASE AttachData(p) BY <1>15 DEF AttachData
<1>16. CASE AttachDataReturns(p) BY <1>16 DEF AttachDataReturns
<1>17. CASE CleanupMappings(p) BY <1>17 DEF CleanupMappings
<1>18. CASE CleanupRam(p) BY <1>18 DEF CleanupRam
<1>19. CASE CleanupScratch(p) BY <1>19 DEF CleanupScratch
<1>20. CASE CleanupReturns(p) BY <1>20 DEF CleanupReturns
<1>21. CASE Publish(p) BY <1>21 DEF Publish
<1>22. CASE DropRam(p) BY <1>22 DEF DropRam
<1>23. CASE Release(p) BY <1>23 DEF Release
<1> QED BY <1>1, <1>2, <1>3, <1>4, <1>5, <1>6, <1>7, <1>8, <1>9, <1>10, <1>11,
    <1>12, <1>13, <1>14, <1>15, <1>16, <1>17, <1>18, <1>19, <1>20, <1>21,
    <1>22, <1>23 DEF OpStep

LEMMA TypeStep ==
    ASSUME TypeOK, NEW p \in Ops, OpStep(p)
    PROVE  TypeOK'
BY OpTypeStep, HostStep, HelperTypeStep DEF TypeOK, HostTypeOK, HelperTypeOK

-----------------------------------------------------------------------------
\* The step of an invocation keeps its own part of the invariant.
LEMMA ActorStep ==
    ASSUME TypeOK, NEW p \in Ops, OpStep(p), LocalInv(p), HelperOK(p),
           pc[p] \in Critical => lock = p
    PROVE  LocalInv(p)' /\ HelperOK(p)'
<1> USE Domains, HostTypes, OpsAssumption DEF TypeOK, HostTypeOK, OpTypeOK,
    MemTypeOK, NoHelper, LocalInv, HelperOK, Asked, Ops, CheckMapping,
    CleanupDetach, CleanupDetached, Abort, AbortLogging, AbortEarly, Goto, At,
    DiskFrame, ResultFrame, hostVars, Take, Give, Owns, RamNew, RamNewFails,
    RamCleanup, RamCleanupFails, HelperSucceeded, Exists, MappedAsAsked,
    memVars, helperVars, Forget, Spawn, Reap, OursOK, ResOK, RetOK, RootOpened, PassOK,
    MarkerOK, Cleared, SecretsOK, Opened, Unopened, Critical, Early, Holding, Cleaning,
    DataMap, ROOT_MAP, CAPSULE_MAP, VERIFY_MAP
<1>1. CASE AcquireLock(p) BY <1>1 DEF AcquireLock
<1>2. CASE ClearMarker(p) BY <1>2 DEF ClearMarker
<1>3. CASE CheckMappings(p) BY <1>3 DEF CheckMappings
<1>4. CASE Preflight(p) BY <1>4 DEF Preflight
<1>5. CASE WaitKey(p) BY <1>5 DEF WaitKey
<1>6. CASE AttachCapsule(p) BY <1>6 DEF AttachCapsule
<1>7. CASE AttachCapsuleReturns(p) BY <1>7 DEF AttachCapsuleReturns
<1>8. CASE MakeRam(p) BY <1>8 DEF MakeRam
<1>9. CASE ReadPin(p) BY <1>9 DEF ReadPin
<1>10. CASE DeriveF(p) BY <1>10 DEF DeriveF
<1>11. CASE ReadT(p) BY <1>11 DEF ReadT
<1>12. CASE DetachCapsule(p) BY <1>12 DEF DetachCapsule
<1>13. CASE DetachCapsuleReturns(p) BY <1>13 DEF DetachCapsuleReturns
<1>14. CASE MakeScratch(p) BY <1>14 DEF MakeScratch
<1>15. CASE AttachData(p) BY <1>15 DEF AttachData
<1>16. CASE AttachDataReturns(p) BY <1>16 DEF AttachDataReturns
<1>17. CASE CleanupMappings(p) BY <1>17 DEF CleanupMappings
<1>18. CASE CleanupRam(p) BY <1>18 DEF CleanupRam
<1>19. CASE CleanupScratch(p) BY <1>19 DEF CleanupScratch
<1>20. CASE CleanupReturns(p) BY <1>20 DEF CleanupReturns
<1>21. CASE Publish(p) BY <1>21 DEF Publish
<1>22. CASE DropRam(p) BY <1>22 DEF DropRam
<1>23. CASE Release(p) BY <1>23 DEF Release
<1> QED BY <1>1, <1>2, <1>3, <1>4, <1>5, <1>6, <1>7, <1>8, <1>9, <1>10, <1>11,
    <1>12, <1>13, <1>14, <1>15, <1>16, <1>17, <1>18, <1>19, <1>20, <1>21,
    <1>22, <1>23 DEF OpStep

\* It touches nothing of any other invocation.
LEMMA OthersStep ==
    ASSUME TypeOK, NEW p \in Ops, OpStep(p), NEW q \in Procs, q # p
    PROVE  /\ mapper' = mapper
           /\ helper'[q] = helper[q] /\ child'[q] = child[q] /\ ram'[q] = ram[q]
           /\ q \in Ops =>
                /\ pc'[q] = pc[q] /\ res'[q] = res[q] /\ ret'[q] = ret[q]
                /\ (q \in errors' <=> q \in errors)
                /\ (q \in reported' <=> q \in reported)
                /\ (q \in scratch' <=> q \in scratch)
                /\ (q \in pin' <=> q \in pin) /\ final_key'[q] = final_key[q]
                /\ tpm'[q] = tpm[q] /\ fido'[q] = fido[q]
<1> USE Domains DEF TypeOK, HostTypeOK, OpTypeOK, MemTypeOK, CheckMapping,
    CleanupDetach, CleanupDetached, Abort, AbortLogging, AbortEarly, Goto, At,
    DiskFrame, ResultFrame, hostVars, Take, Give, Owns, RamNew, RamNewFails,
    RamCleanup, RamCleanupFails, HelperSucceeded, Exists, MappedAsAsked,
    memVars, helperVars, Forget, Spawn, Reap
<1>1. CASE AcquireLock(p) BY <1>1 DEF AcquireLock
<1>2. CASE ClearMarker(p) BY <1>2 DEF ClearMarker
<1>3. CASE CheckMappings(p) BY <1>3 DEF CheckMappings
<1>4. CASE Preflight(p) BY <1>4 DEF Preflight
<1>5. CASE WaitKey(p) BY <1>5 DEF WaitKey
<1>6. CASE AttachCapsule(p) BY <1>6 DEF AttachCapsule
<1>7. CASE AttachCapsuleReturns(p) BY <1>7 DEF AttachCapsuleReturns
<1>8. CASE MakeRam(p) BY <1>8 DEF MakeRam
<1>9. CASE ReadPin(p) BY <1>9 DEF ReadPin
<1>10. CASE DeriveF(p) BY <1>10 DEF DeriveF
<1>11. CASE ReadT(p) BY <1>11 DEF ReadT
<1>12. CASE DetachCapsule(p) BY <1>12 DEF DetachCapsule
<1>13. CASE DetachCapsuleReturns(p) BY <1>13 DEF DetachCapsuleReturns
<1>14. CASE MakeScratch(p) BY <1>14 DEF MakeScratch
<1>15. CASE AttachData(p) BY <1>15 DEF AttachData
<1>16. CASE AttachDataReturns(p) BY <1>16 DEF AttachDataReturns
<1>17. CASE CleanupMappings(p) BY <1>17 DEF CleanupMappings
<1>18. CASE CleanupRam(p) BY <1>18 DEF CleanupRam
<1>19. CASE CleanupScratch(p) BY <1>19 DEF CleanupScratch
<1>20. CASE CleanupReturns(p) BY <1>20 DEF CleanupReturns
<1>21. CASE Publish(p) BY <1>21 DEF Publish
<1>22. CASE DropRam(p) BY <1>22 DEF DropRam
<1>23. CASE Release(p) BY <1>23 DEF Release
<1> QED BY <1>1, <1>2, <1>3, <1>4, <1>5, <1>6, <1>7, <1>8, <1>9, <1>10, <1>11,
    <1>12, <1>13, <1>14, <1>15, <1>16, <1>17, <1>18, <1>19, <1>20, <1>21,
    <1>22, <1>23 DEF OpStep

\* The lock and the record change only in three steps.
LEMMA LockStep ==
    ASSUME TypeOK, NEW p \in Ops, OpStep(p), Cleared(p),
           pc[p] \in Critical => lock = p
    PROVE  /\ pc'[p] \in Critical => lock' = p
           /\ lock' # lock => lock = Nobody \/ lock = p
           /\ marker' # marker => lock = p /\ marker' \in {Nobody, p}
           /\ marker' # marker => p \in Unlockers
<1> USE Domains, OpsAssumption DEF TypeOK, HostTypeOK, OpTypeOK, Ops, Cleared,
    CheckMapping, CleanupDetach, CleanupDetached, Abort,
    AbortLogging, AbortEarly, Goto, At, DiskFrame, ResultFrame, hostVars, Take,
    Give, Owns, RamNew, RamNewFails, RamCleanup, RamCleanupFails,
    HelperSucceeded, Exists, MappedAsAsked, memVars, helperVars, Critical,
    Early, Holding, Cleaning
<1>1. CASE AcquireLock(p) BY <1>1 DEF AcquireLock
<1>2. CASE ClearMarker(p) BY <1>2 DEF ClearMarker
<1>3. CASE CheckMappings(p) BY <1>3 DEF CheckMappings
<1>4. CASE Preflight(p) BY <1>4 DEF Preflight
<1>5. CASE WaitKey(p) BY <1>5 DEF WaitKey
<1>6. CASE AttachCapsule(p) BY <1>6 DEF AttachCapsule
<1>7. CASE AttachCapsuleReturns(p) BY <1>7 DEF AttachCapsuleReturns
<1>8. CASE MakeRam(p) BY <1>8 DEF MakeRam
<1>9. CASE ReadPin(p) BY <1>9 DEF ReadPin
<1>10. CASE DeriveF(p) BY <1>10 DEF DeriveF
<1>11. CASE ReadT(p) BY <1>11 DEF ReadT
<1>12. CASE DetachCapsule(p) BY <1>12 DEF DetachCapsule
<1>13. CASE DetachCapsuleReturns(p) BY <1>13 DEF DetachCapsuleReturns
<1>14. CASE MakeScratch(p) BY <1>14 DEF MakeScratch
<1>15. CASE AttachData(p) BY <1>15 DEF AttachData
<1>16. CASE AttachDataReturns(p) BY <1>16 DEF AttachDataReturns
<1>17. CASE CleanupMappings(p) BY <1>17 DEF CleanupMappings
<1>18. CASE CleanupRam(p) BY <1>18 DEF CleanupRam
<1>19. CASE CleanupScratch(p) BY <1>19 DEF CleanupScratch
<1>20. CASE CleanupReturns(p) BY <1>20 DEF CleanupReturns
<1>21. CASE Publish(p) BY <1>21 DEF Publish
<1>22. CASE DropRam(p) BY <1>22 DEF DropRam
<1>23. CASE Release(p) BY <1>23 DEF Release
<1> QED BY <1>1, <1>2, <1>3, <1>4, <1>5, <1>6, <1>7, <1>8, <1>9, <1>10, <1>11,
    <1>12, <1>13, <1>14, <1>15, <1>16, <1>17, <1>18, <1>19, <1>20, <1>21,
    <1>22, <1>23 DEF OpStep

\* All other steps are within a turn.
LEMMA QuietStep ==
    ASSUME TypeOK, NEW p \in Ops, OpStep(p),
           ~AcquireLock(p), ~ClearMarker(p), ~Publish(p), ~Release(p)
    PROVE  /\ UNCHANGED <<lock, marker>>
           /\ pc[p] \in Critical /\ pc'[p] \in Critical \ {"clear"}
           /\ ret'[p] = "ok" => ret[p] = "ok"
<1> USE Domains DEF TypeOK, OpTypeOK, CheckMapping, CleanupDetach, CleanupDetached, Abort,
    AbortLogging, AbortEarly, Goto, At, ResultFrame, Critical, Early, Holding, Cleaning
<1>3. CASE CheckMappings(p) BY <1>3 DEF CheckMappings
<1>4. CASE Preflight(p) BY <1>4 DEF Preflight
<1>5. CASE WaitKey(p) BY <1>5 DEF WaitKey
<1>6. CASE AttachCapsule(p) BY <1>6 DEF AttachCapsule
<1>7. CASE AttachCapsuleReturns(p) BY <1>7 DEF AttachCapsuleReturns
<1>8. CASE MakeRam(p) BY <1>8 DEF MakeRam
<1>9. CASE ReadPin(p) BY <1>9 DEF ReadPin
<1>10. CASE DeriveF(p) BY <1>10 DEF DeriveF
<1>11. CASE ReadT(p) BY <1>11 DEF ReadT
<1>12. CASE DetachCapsule(p) BY <1>12 DEF DetachCapsule
<1>13. CASE DetachCapsuleReturns(p) BY <1>13 DEF DetachCapsuleReturns
<1>14. CASE MakeScratch(p) BY <1>14 DEF MakeScratch
<1>15. CASE AttachData(p) BY <1>15 DEF AttachData
<1>16. CASE AttachDataReturns(p) BY <1>16 DEF AttachDataReturns
<1>17. CASE CleanupMappings(p) BY <1>17 DEF CleanupMappings
<1>18. CASE CleanupRam(p) BY <1>18 DEF CleanupRam
<1>19. CASE CleanupScratch(p) BY <1>19 DEF CleanupScratch
<1>20. CASE CleanupReturns(p) BY <1>20 DEF CleanupReturns
<1>22. CASE DropRam(p) BY <1>22 DEF DropRam
<1> QED BY <1>3, <1>4, <1>5, <1>6, <1>7, <1>8, <1>9, <1>10, <1>11,
    <1>12, <1>13, <1>14, <1>15, <1>16, <1>17, <1>18, <1>19, <1>20, <1>22 DEF OpStep

LEMMA TurnStep ==
    ASSUME TypeOK, LockInv, TurnInv, NEW p \in Ops, OpStep(p), Cleared(p), RetOK(p)
    PROVE  TurnInv'
<1>1. /\ TurnOK(p) /\ (pc[p] \in Critical => lock = p)
      /\ mapper' = mapper /\ p # Nobody
  BY HostStep, Domains DEF TurnInv, LockInv
<1>2. TurnOK(p)' /\ lock' \in {lock, p, Nobody}
  <2> USE <1>1, OpsAssumption DEF TypeOK, OpTypeOK, TurnOK, Goto, At, Ops
  <2>1. CASE AcquireLock(p)
    <3>1. /\ marker' = marker /\ pc[p] = "start" /\ lock # p /\ ret'[p] # "ok"
          /\ \/ lock' = p /\ pc'[p] \in {"check_data", "clear"}
             \/ lock' = lock /\ pc'[p] = "exit"
      BY <2>1 DEF AcquireLock, RetOK, Unopened, Critical, Early, Holding, Cleaning
    <3>2. {"check_data", "clear"} \subseteq Critical /\ "exit" \notin Critical
      BY DEF Critical, Early, Holding, Cleaning
    <3> QED BY <3>1, <3>2
  <2>2. CASE ClearMarker(p)
    <3>1. /\ lock' = lock /\ pc[p] = "clear" /\ ret'[p] # "ok"
          /\ pc'[p] \in {"check_data", "release"}
      BY <2>2 DEF ClearMarker, AbortEarly, ResultFrame, RetOK, Unopened
    <3>2. {"check_data", "release", "clear"} \subseteq Critical
      BY DEF Critical, Early, Holding, Cleaning
    <3> QED BY <3>1, <3>2
  <2>3. CASE Publish(p)
    BY <2>3 DEF Publish, Abort, AbortLogging, Critical, Early, Holding, Cleaning
  <2>4. CASE Release(p)
    BY <2>4 DEF Release, Critical, Early, Holding, Cleaning
  <2>5. CASE ~(AcquireLock(p) \/ ClearMarker(p) \/ Publish(p) \/ Release(p))
    <3>1. /\ UNCHANGED <<lock, marker>>
          /\ pc[p] \in Critical /\ pc'[p] \in Critical \ {"clear"}
          /\ ret'[p] = "ok" => ret[p] = "ok"
      BY <2>5, QuietStep
    <3>2. "start" \notin Critical  BY DEF Critical, Early, Holding, Cleaning
    <3> QED  BY <3>1, <3>2
  <2> QED BY <2>1, <2>2, <2>3, <2>4, <2>5
<1>3. ASSUME NEW q \in Ops, q # p PROVE TurnOK(q)'
  <2>1. TurnOK(q) /\ (pc[q] \in Critical => lock = q) /\ q # Nobody
    BY Domains DEF TurnInv, LockInv
  <2>2. pc'[q] = pc[q] /\ ret'[q] = ret[q]
    BY <1>3, OthersStep, Domains
  <2>3. marker' # marker => lock = p
    BY <1>1, LockStep
  <2> QED BY <1>1, <1>2, <1>3, <2>1, <2>2, <2>3 DEF TurnOK
<1> QED BY <1>2, <1>3 DEF TurnInv

\* A step of an invocation is one of Turns, or none.
LEMMA TakesTurn ==
    ASSUME TypeOK, LockInv, TurnInv, NEW p \in Ops, OpStep(p), Cleared(p), RetOK(p),
           RootOpened(p), marker = p => ret[p] = "ok"
    PROVE  Turn!TurnOf(p) \/ UNCHANGED Turn!turnVars
<1>1. /\ TurnOK(p) /\ (pc[p] \in Critical => lock = p) /\ p # Nobody
      /\ mapper' = mapper /\ ret[p] \in {"none", "ok", "error"}
  BY HostStep, Domains DEF TurnInv, LockInv, TypeOK, OpTypeOK
<1>2. \A q \in Ops : q # p => pc'[q] = pc[q] /\ ret'[q] = ret[q]
  BY OthersStep, Domains
<1>3. /\ pc'[p] # "exit" /\ pc[p] # "exit" => Returned' = Returned
      /\ pc'[p] = "exit" => Returned' = [Returned EXCEPT ![p] = ret'[p]]
  BY <1>2 DEF Returned, At
<1>4. pc[p] # "exit" => Returned[p] = "none"
  BY DEF Returned, At
<1> USE <1>1, <1>3, <1>4, OpsAssumption DEF TypeOK, OpTypeOK, TurnOK, Goto, At, Ops
<1>5. CASE AcquireLock(p)
  <2>1. CASE lock = Nobody /\ lock' = p
    BY <1>5, <2>1 DEF AcquireLock, hostVars, Turn!TurnOf, Turn!Begins
  <2>2. CASE lock' = lock
    BY <1>5, <2>2
       DEF AcquireLock, Turn!TurnOf, Turn!Refused, Critical, Early, Holding, Cleaning
  <2> QED BY <1>5, <2>1, <2>2 DEF AcquireLock
<1>6. CASE ClearMarker(p)
  BY <1>6 DEF ClearMarker, AbortEarly, Cleared, Critical, Turn!TurnOf, Turn!Withdraws,
              Turn!turnVars
<1>7. CASE Publish(p)
  BY <1>7 DEF Publish, Abort, AbortLogging, Cleared, RootOpened, RetOK, Critical,
              Turn!TurnOf, Turn!Publishes, Turn!turnVars
<1>8. CASE Release(p)
  <2>1. ret[p] # "none" /\ lock = p /\ (p \in Unlockers => (ret[p] = "ok" <=> marker = p))
    BY <1>8 DEF Release, RetOK, Critical
  <2>2. Turn!Returns(p, ret[p])
    BY <1>8, <2>1 DEF Release, Turn!Returns
  <2> QED BY <2>1, <2>2 DEF Turn!TurnOf
<1>9. CASE ~(AcquireLock(p) \/ ClearMarker(p) \/ Publish(p) \/ Release(p))
  <2>1. UNCHANGED <<lock, marker>> /\ pc[p] \in Critical /\ pc'[p] \in Critical
    BY <1>9, QuietStep
  <2>2. "exit" \notin Critical  BY DEF Critical, Early, Holding, Cleaning
  <2> QED BY <2>1, <2>2 DEF Turn!turnVars
<1> QED BY <1>5, <1>6, <1>7, <1>8, <1>9

\* So it keeps the parts of the others.
LEMMA OthersInv ==
    ASSUME IInv, NEW p \in Ops, OpStep(p), NEW q \in Procs, q # p
    PROVE  HelperOK(q)' /\ (q \in Ops => LocalInv(q)')
<1>1. LocalInv(p) /\ HelperOK(q) /\ (q \in Ops => LocalInv(q)) /\ TypeOK
      /\ (pc[p] \in Critical => lock = p) /\ (q \in Ops /\ pc[q] \in Critical => lock = q)
  BY DEF IInv, LockInv
<1>2. /\ mapper' = mapper /\ helper'[q] = helper[q] /\ child'[q] = child[q] /\ ram'[q] = ram[q]
      /\ q \in Ops => /\ pc'[q] = pc[q] /\ res'[q] = res[q] /\ ret'[q] = ret[q]
                      /\ (q \in errors' <=> q \in errors)
                      /\ (q \in reported' <=> q \in reported)
                      /\ (q \in scratch' <=> q \in scratch)
                      /\ (q \in pin' <=> q \in pin) /\ final_key'[q] = final_key[q]
                      /\ tpm'[q] = tpm[q] /\ fido'[q] = fido[q]
                /\ (q \in pin' <=> q \in pin) /\ final_key'[q] = final_key[q]
                /\ tpm'[q] = tpm[q] /\ fido'[q] = fido[q]
  BY <1>1, OthersStep
<1>3. marker' # marker => lock = p /\ marker' \in {Nobody, p}
  BY <1>1, LockStep DEF LocalInv
<1>4. HelperOK(q)'
  BY <1>1, <1>2 DEF HelperOK, Asked, MappedAsAsked, Exists
<1>5. ASSUME q \in Ops PROVE (OursOK(q) /\ ResOK(q))'
  BY <1>1, <1>2, <1>5 DEF LocalInv, OursOK, ResOK, Owns
<1>6. ASSUME q \in Ops PROVE (RetOK(q) /\ RootOpened(q) /\ PassOK(q))'
  BY <1>1, <1>2, <1>6 DEF LocalInv, RetOK, RootOpened, PassOK, Owns
<1>7. ASSUME q \in Ops PROVE (MarkerOK(q) /\ Cleared(q))'
  BY <1>1, <1>2, <1>3, <1>7, Domains DEF LocalInv, MarkerOK, Cleared
<1>8. ASSUME q \in Ops PROVE SecretsOK(q)'
  BY <1>1, <1>2, <1>8 DEF LocalInv, SecretsOK
<1> QED BY <1>4, <1>5, <1>6, <1>7, <1>8 DEF LocalInv

LEMMA OpStepInv ==
    ASSUME IInv, NEW p \in Ops, OpStep(p)
    PROVE  IInv'
<1>1. TypeOK /\ LocalInv(p) /\ HelperOK(p) /\ (pc[p] \in Critical => lock = p)
  BY Domains DEF IInv, LockInv
<1>0. Cleared(p) BY <1>1 DEF LocalInv
<1>2. TypeOK' BY <1>1, TypeStep
<1>3. LockInv'
  <2> SUFFICES ASSUME NEW q \in Ops, pc'[q] \in Critical PROVE lock' = q
    BY DEF LockInv
  <2>1. CASE q = p BY <2>1, <1>0, <1>1, LockStep
  <2>2. CASE q # p
    <3>1. pc[q] \in Critical BY <1>1, <2>2, OthersStep, Domains
    <3>2. lock = q BY <3>1 DEF IInv, LockInv
    <3> QED BY <3>2, <2>2, <1>0, <1>1, LockStep, Domains
  <2> QED BY <2>1, <2>2
<1>4. LocalInv(p)' /\ HelperOK(p)' BY <1>1, ActorStep
<1>5. \A q \in Procs : HelperOK(q)' BY <1>4, OthersInv
<1>6. \A q \in Ops : LocalInv(q)' BY <1>4, OthersInv, Domains
<1>7. TurnInv' BY <1>0, <1>1, TurnStep DEF IInv, LocalInv
<1> QED BY <1>2, <1>3, <1>5, <1>6, <1>7 DEF IInv

-----------------------------------------------------------------------------
\* Whose helper lives, and what it may do.
LEMMA Waiting ==
    ASSUME IInv, NEW p \in Ops, child[p] # "none"
    PROVE  /\ lock = p
           /\ pc[p] \in {"attach_capsule_wait", "detach_capsule_wait", "attach_data_wait",
                         "c_capsule_wait", "c_verify_wait"}
           /\ \A q \in Ops : q # p => pc[q] \notin Critical
           /\ \A q \in Procs : q # p => child[q] = "none"
<1>1. \A q \in Procs : child[q] # "none" =>
        /\ q \in Ops
        /\ pc[q] \in {"attach_capsule_wait", "detach_capsule_wait", "attach_data_wait",
                      "c_capsule_wait", "c_verify_wait"}
  BY DEF IInv, HelperOK, Asked
<1>2. \A q \in Ops : pc[q] \in Critical => lock = q BY DEF IInv, LockInv
<1> QED BY <1>1, <1>2, Domains DEF Critical, Holding, Cleaning

LEMMA HelperStepType ==
    ASSUME TypeOK, NEW p \in Ops, Outside(p)
    PROVE  TypeOK'
<1>1. OpTypeOK'
  BY DEF Outside, opVars, memVars, TypeOK, OpTypeOK, MemTypeOK
<1>2. HostTypeOK'
  <2> USE Domains DEF TypeOK, HostTypeOK, helperVars
  <2>1. CASE Interrupt(p) BY <2>1 DEF Interrupt
  <2>2. CASE HelperAttaches(p)
    <3>1. [by |-> p, rw |-> helper[p].verb = "attach"] \in Mapping
      BY DEF Mapping
    <3>2. mapper' \in [Names -> Mapping] BY <2>2, <3>1 DEF HelperAttaches
    <3> QED BY <2>2, <3>2 DEF HelperAttaches
  <2>3. CASE HelperDetaches(p)
    <3>1. Unmapped \in Mapping BY DEF Unmapped, Mapping
    <3> QED BY <2>3, <3>1 DEF HelperDetaches
  <2>4. CASE HelperFinishes(p) BY <2>4 DEF HelperFinishes
  <2>5. CASE HelperFails(p) BY <2>5 DEF HelperFails
  <2> QED BY <2>1, <2>2, <2>3, <2>4, <2>5 DEF Outside, HelperStep
<1> QED BY <1>1, <1>2 DEF TypeOK

\* A helper changes only a name its invocation asked for, and only while that
\* invocation holds the lock.
LEMMA MapperStep ==
    ASSUME IInv, NEW p \in Ops, Outside(p)
    PROVE  /\ mapper' # mapper => lock = p /\ child[p] = "running"
           /\ \A n \in Names : mapper'[n] # mapper[n] =>
                \/ ~Exists(n) /\ mapper'[n].by = p /\ helper[p].name = n
                   /\ helper[p].verb \in {"attach", "attach_ro"}
                \/ mapper'[n].by = Nobody /\ helper[p].name = n /\ helper[p].verb = "detach"
<1> USE DEF IInv, TypeOK, HostTypeOK
<1>1. CASE Interrupt(p) BY <1>1 DEF Interrupt
<1>2. CASE HelperAttaches(p) BY <1>2, Waiting DEF HelperAttaches
<1>3. CASE HelperDetaches(p) BY <1>3, Waiting DEF HelperDetaches, Unmapped
<1>4. CASE HelperFinishes(p) BY <1>4 DEF HelperFinishes
<1>5. CASE HelperFails(p) BY <1>5 DEF HelperFails
<1> QED BY <1>1, <1>2, <1>3, <1>4, <1>5 DEF Outside, HelperStep

LEMMA OutsideHelperOK ==
    ASSUME IInv, NEW p \in Ops, Outside(p), NEW q \in Procs
    PROVE  HelperOK(q)'
<1> USE Domains, Waiting DEF IInv, TypeOK, HostTypeOK, HelperOK, Asked, MappedAsAsked, Exists, Outside,
        opVars, helperVars
<1>1. CASE Interrupt(p) BY <1>1 DEF Interrupt
<1>2. CASE HelperAttaches(p) BY <1>2 DEF HelperAttaches
<1>3. CASE HelperDetaches(p) BY <1>3 DEF HelperDetaches
<1>4. CASE HelperFinishes(p) BY <1>4 DEF HelperFinishes
<1>5. CASE HelperFails(p) BY <1>5 DEF HelperFails
<1> QED BY <1>1, <1>2, <1>3, <1>4, <1>5 DEF Outside, HelperStep

LEMMA OutsideLocalInv ==
    ASSUME IInv, NEW p \in Ops, Outside(p), NEW q \in Ops
    PROVE  LocalInv(q)'
<1>1. TypeOK /\ LocalInv(q) /\ HelperOK(p) BY Domains DEF IInv
<1>2. UNCHANGED <<ram, helper, opVars>>
  BY DEF Outside, HelperStep, Interrupt, HelperAttaches, HelperDetaches, HelperFinishes,
         HelperFails, helperVars
<1>3. mapper' # mapper => child[p] = "running" /\ lock = p
                          /\ (q # p => pc[q] \notin Critical)
  BY MapperStep, Waiting
<1>4. \A n \in Names : mapper'[n] # mapper[n] =>
        \/ ~Exists(n) /\ mapper'[n].by = p /\ helper[p].name = n
           /\ helper[p].verb \in {"attach", "attach_ro"}
        \/ mapper'[n].by = Nobody /\ helper[p].name = n /\ helper[p].verb = "detach"
  BY MapperStep
<1>5. CAPSULE_MAP \in Names /\ VERIFY_MAP \in Names /\ ROOT_MAP \in Names
      /\ CAPSULE_MAP # ROOT_MAP /\ VERIFY_MAP # ROOT_MAP /\ CAPSULE_MAP # VERIFY_MAP
  BY DEF Names, CAPSULE_MAP, VERIFY_MAP, ROOT_MAP
<1>6. mapper' \in [Names -> Mapping] /\ mapper \in [Names -> Mapping]
  BY <1>1, HelperStepType DEF TypeOK, HostTypeOK
<1>7. mapper' = mapper \/ \E n \in Names : mapper'[n] # mapper[n]
  BY <1>6
<1>a. pc[q] \in Opened \cup {"check_capsule", "preflight", "wait_key", "release"}
      => pc[q] \in Critical
  BY DEF Opened, Critical, Early, Holding, Cleaning
<1>8. OursOK(q)'
  BY <1>1, <1>2, <1>3, <1>4, <1>5, <1>6, <1>a
     DEF LocalInv, OursOK, opVars, Owns, DataMap
<1>9. ResOK(q)'
  BY <1>1, <1>2, <1>3, <1>4, <1>5, <1>6, Domains
     DEF LocalInv, ResOK, opVars, Owns, HelperOK, Asked, DataMap, Unopened, Early
<1>10. (RetOK(q) /\ RootOpened(q))'
  BY <1>1, <1>2, <1>3, <1>4, <1>5, <1>6, Domains
     DEF LocalInv, RetOK, RootOpened, opVars, Owns, HelperOK, Asked, DataMap, Cleaning,
         Critical, Exists
<1>11. PassOK(q)' BY <1>1, <1>2 DEF LocalInv, PassOK, opVars, Owns
<1>12. (MarkerOK(q) /\ Cleared(q))'
  BY <1>1, <1>2, <1>3, <1>4, <1>5, <1>6, Domains
     DEF LocalInv, MarkerOK, Cleared, opVars, HelperOK, Asked, DataMap, Exists
<1>13. SecretsOK(q)' BY <1>1, <1>2 DEF LocalInv, SecretsOK, opVars, memVars
<1> QED BY <1>8, <1>9, <1>10, <1>11, <1>12, <1>13 DEF LocalInv

LEMMA OutsideInv ==
    ASSUME IInv, NEW p \in Ops, Outside(p)
    PROVE  IInv'
<1>1. TypeOK' BY HelperStepType DEF IInv
<1>2. LockInv' BY DEF IInv, LockInv, Outside, opVars
<1>3. \A q \in Procs : HelperOK(q)' BY OutsideHelperOK
<1>4. \A q \in Ops : LocalInv(q)' BY OutsideLocalInv
<1>5. TurnInv'
  <2> SUFFICES ASSUME NEW q \in Ops PROVE TurnOK(q)' BY DEF TurnInv
  <2>1. TurnOK(q) /\ UNCHANGED opVars BY DEF IInv, TurnInv, Outside
  <2>2. ROOT_MAP \in Names BY DEF Names
  <2>3. mapper'[ROOT_MAP].by = q /\ mapper[ROOT_MAP].by # q =>
          p = q /\ child[q] # "none"
    BY <2>2, MapperStep, Domains
  <2>4. pc[q] \in {"start", "clear"} => child[q] = "none"
    BY Waiting
  <2> QED BY <2>1, <2>3, <2>4 DEF TurnOK, opVars
<1> QED BY <1>1, <1>2, <1>3, <1>4, <1>5 DEF IInv

-----------------------------------------------------------------------------
LEMMA InitInv == Init => IInv
<1> SUFFICES ASSUME Init PROVE IInv OBVIOUS
<1> USE Domains, ConfigAssumption DEF Init, HostInit, OpInit
<1>1. /\ mapper \in [Names -> Mapping]
      /\ \A n \in Names, p \in Procs : mapper[n].by # p
  <2>1. Unmapped \in Mapping /\ [by |-> Stranger, rw |-> TRUE] \in Mapping
    BY DEF Unmapped, Mapping
  <2>2. \A n \in Names : mapper[n] = Unmapped \/ mapper[n] = [by |-> Stranger, rw |-> TRUE]
    OBVIOUS
  <2>3. mapper = [n \in Names |-> mapper[n]] OBVIOUS
  <2>4. ASSUME NEW n \in Names PROVE mapper[n] \in Mapping BY <2>1, <2>2
  <2>5. ASSUME NEW n \in Names, NEW p \in Procs PROVE mapper[n].by # p
    <3> HIDE DEF HostInit, Init
    <3>1. mapper[n].by = Nobody \/ mapper[n].by = Stranger BY <2>2 DEF Unmapped
    <3> QED BY <3>1, SentinelAssumption
  <2> HIDE DEF HostInit, Init
  <2> QED BY <2>3, <2>4, <2>5
<1>2. capsule \in [Dirs -> Capsule]
  <2>1. NoCapsule \in Capsule BY DEF NoCapsule, Capsule
  <2>2. \A d \in Dirs : [by |-> d, stage |-> "sealed", secret |-> d] \in Capsule
    BY DEF Capsule, Token
  <2> QED BY <2>1, <2>2
<1>3. manifest \in [Dirs -> Token] BY DEF Token
<1>4. slot \in [Roots -> Key]
  <2> DEFINE Finder(r) == CHOOSE p \in Procs : RootOf[p] = r /\ DirOf[p] \in Enrolled
             Boot(r) == IF \E p \in Procs : RootOf[p] = r /\ DirOf[p] \in Enrolled
                        THEN derive(DirOf[Finder(r)], DirOf[Finder(r)]) ELSE NoKey
  <2>1. ASSUME NEW r \in Roots PROVE Boot(r) \in Key
    <3>1. CASE \E p \in Procs : RootOf[p] = r /\ DirOf[p] \in Enrolled
      <4>1. Finder(r) \in Procs BY <3>1
      <4>2. DirOf[Finder(r)] \in Token BY <4>1 DEF Token
      <4> QED BY <3>1, <4>2
    <3>2. CASE ~\E p \in Procs : RootOf[p] = r /\ DirOf[p] \in Enrolled BY <3>2
    <3> QED BY <3>1, <3>2
  <2>2. slot = [r \in Roots |-> Boot(r)] OBVIOUS
  <2> HIDE DEF Boot, HostInit, Init
  <2> QED BY <2>1, <2>2
<1>5. HostTypeOK
  BY <1>1, <1>2, <1>3, <1>4 DEF HostTypeOK
<1>6. OpTypeOK
  BY DEF OpTypeOK, MemTypeOK, Labels, Token
<1>7. LockInv
  BY DEF LockInv, Critical, Early, Holding, Cleaning
<1>8. ASSUME NEW p \in Procs PROVE HelperOK(p)
  BY DEF HelperOK
<1>9. ASSUME NEW p \in Ops PROVE LocalInv(p)
  <2>1. /\ pc[p] = "start" /\ res[p] = {} /\ ret[p] = "none" /\ ram[p] = "none"
        /\ p \notin scratch /\ p \notin reported /\ p \notin pin /\ marker # p
        /\ fido[p] = Nobody /\ tpm[p] = Nobody /\ final_key[p] = NoKey
        /\ helper[p].verb = "none"
    BY SentinelAssumption DEF NoHelper
  <2>2. mapper[CAPSULE_MAP].by # p /\ mapper[VERIFY_MAP].by # p
    BY <1>1 DEF Names
  <2>3. OursOK(p) /\ ResOK(p)
    BY <2>1, <2>2
       DEF OursOK, ResOK, Owns, Opened, Unopened, Early, Holding, Cleaning
  <2>4. RetOK(p) /\ RootOpened(p) /\ PassOK(p)
    BY <2>1 DEF RetOK, RootOpened, PassOK, Owns, Unopened, Early, Holding, Cleaning
  <2>5. MarkerOK(p) /\ Cleared(p) /\ SecretsOK(p)
    BY <2>1 DEF MarkerOK, Cleared, SecretsOK, Critical, Early, Holding, Cleaning
  <2> QED BY <2>3, <2>4, <2>5 DEF LocalInv
<1>10. TurnInv
  BY <1>1, Domains DEF TurnInv, TurnOK, Names, Critical, Early, Holding, Cleaning
<1> QED BY <1>5, <1>6, <1>7, <1>8, <1>9, <1>10 DEF IInv, TypeOK

LEMMA StutterInv == IInv /\ UNCHANGED vars => IInv'
<1> SUFFICES ASSUME IInv, UNCHANGED vars PROVE IInv' OBVIOUS
<1> USE DEF IInv, vars, hostVars, helperVars, opVars, memVars
<1>1. TypeOK' BY DEF TypeOK, HostTypeOK, OpTypeOK, MemTypeOK
<1>2. LockInv' BY DEF LockInv
<1>3. \A p \in Procs : HelperOK(p)' BY DEF HelperOK, Asked, MappedAsAsked, Exists
<1>4. ASSUME NEW p \in Ops PROVE LocalInv(p)'
  BY <1>4
     DEF LocalInv, OursOK, ResOK, RetOK, RootOpened, PassOK, MarkerOK, Cleared, SecretsOK, Owns
<1>5. TurnInv' BY DEF TurnInv, TurnOK
<1> QED BY <1>1, <1>2, <1>3, <1>4, <1>5

LEMMA NextInv == IInv /\ [Next]_vars => IInv'
BY OpStepInv, OutsideInv, StutterInv DEF Next

(***************************************************************************)
(* The inductive invariant holds in every run of any number of unlock and  *)
(* verify invocations (unlock.rs, run and Resources).                      *)
(***************************************************************************)
THEOREM Invariant == Spec => []IInv
BY InitInv, NextInv, PTL DEF Spec

(* Every variable stays in its domain.                                     *)
THEOREM TypeCorrect == Spec => []TypeOK
<1>1. IInv => TypeOK BY DEF IInv
<1> QED BY <1>1, Invariant, PTL

(***************************************************************************)
(* What cleanup() detaches was created by the same invocation: the two     *)
(* checks under the lock suffice against every other unlock and verify     *)
(* (unlock.rs, the test of the names before Resources, and cleanup).       *)
(***************************************************************************)
THEOREM OnlyOursDetached == Spec => []OwnedIsOurs
<1>1. IInv => OwnedIsOurs
  <2> SUFFICES ASSUME IInv, NEW p \in Ops, Active(p)
               PROVE  /\ Owns(p, "capsule_owned") => mapper[CAPSULE_MAP].by \in {Nobody, p}
                      /\ Owns(p, "verify_owned") => mapper[VERIFY_MAP].by \in {Nobody, p}
    BY DEF OwnedIsOurs
  <2>1. pc[p] \in Unopened \cup Opened \cup {"release"}
    BY DEF IInv, TypeOK, OpTypeOK, Labels, Critical, Active, Unopened, Opened
  <2> QED BY <2>1 DEF IInv, LocalInv, OursOK, ResOK, Owns, DataMap
<1> QED BY <1>1, Invariant, PTL

(***************************************************************************)
(* Whatever failed on the way, an invocation that returned in silence left *)
(* nothing behind (unlock.rs, cleanup and Drop; secret.rs, cleanup).       *)
(***************************************************************************)
THEOREM CleanupComplete == Spec => []NothingLeaks
<1>1. IInv => NothingLeaks
  BY DEF IInv, LocalInv, NothingLeaks, ResOK, PassOK, At
<1> QED BY <1>1, Invariant, PTL

(***************************************************************************)
(* The published record names an unlock that succeeded, whose root mapping *)
(* exists and whose temporary mappings are gone (unlock.rs, publication).  *)
(***************************************************************************)
THEOREM RecordSound == Spec => []RecordIsTrue
<1>1. IInv => RecordIsTrue
  BY DEF IInv, LocalInv, RecordIsTrue, MarkerOK, RetOK, ResOK
<1> QED BY <1>1, Invariant, PTL

(***************************************************************************)
(* The record of an earlier unlock is gone before a later one can fail     *)
(* (unlock.rs, removal of MARKER).                                         *)
(***************************************************************************)
THEOREM RecordFresh == Spec => []NoStaleRecord
<1>1. IInv => NoStaleRecord
  BY DEF IInv, LocalInv, NoStaleRecord, Cleared, Ops
<1> QED BY <1>1, Invariant, PTL

(***************************************************************************)
(* The TPM secret is no longer exposed when the data volume is opened      *)
(* (unlock.rs, the order of detach and keyed).                             *)
(***************************************************************************)
THEOREM CapsuleShut == Spec => []CapsuleShutBeforeData
<1>1. IInv => CapsuleShutBeforeData
  BY Domains DEF IInv, LocalInv, CapsuleShutBeforeData, HelperOK, Asked, ResOK, RetOK
<1> QED BY <1>1, Invariant, PTL

(***************************************************************************)
(* The PIN and the TPM secret are never in memory together, and no secret  *)
(* is while a device is attached (unlock.rs, the order of the drops).      *)
(***************************************************************************)
THEOREM SecretsKeptApart == Spec => []SecretsApart
<1>1. IInv => SecretsApart
  BY DEF IInv, LocalInv, SecretsApart, SecretsOK
<1> QED BY <1>1, Invariant, PTL

-----------------------------------------------------------------------------
LEMMA InitTurns == Init => Turn!TurnsInit
<1> SUFFICES ASSUME Init PROVE Turn!TurnsInit OBVIOUS
<1>1. mapper[ROOT_MAP].by \in {Nobody, Stranger}
  <2>1. mapper[ROOT_MAP] \in {Unmapped, [by |-> Stranger, rw |-> TRUE]}
    BY DEF Init, HostInit, Names
  <2> QED BY <2>1 DEF Unmapped
<1>2. Returned = [p \in Ops |-> "none"]
  BY DEF Init, OpInit, Returned, At
<1> QED BY <1>1, <1>2 DEF Init, OpInit, Turn!TurnsInit

\* What a helper does to the root volume, it does in the turn of its unlock.
LEMMA RootTurn ==
    ASSUME TypeOK, LockInv, NEW p \in Ops, UNCHANGED opVars, Cleared(p), RetOK(p),
           mapper'[ROOT_MAP] # mapper[ROOT_MAP] =>
             /\ p \in Unlockers /\ pc[p] = "attach_data_wait"
             /\ ~Exists(ROOT_MAP) /\ mapper'[ROOT_MAP].by = p
    PROVE  Turn!TurnOf(p) \/ UNCHANGED Turn!turnVars
<1>1. UNCHANGED <<lock, marker, Returned>>
  BY DEF opVars, Returned, At
<1>2. CASE mapper'[ROOT_MAP] = mapper[ROOT_MAP]
  BY <1>1, <1>2 DEF Turn!turnVars
<1>3. CASE mapper'[ROOT_MAP] # mapper[ROOT_MAP]
  <2>1. lock = p /\ marker = Nobody
    BY <1>3 DEF LockInv, Cleared, RetOK, Critical, Holding
  <2> QED BY <1>1, <1>3, <2>1 DEF Exists, Turn!TurnOf, Turn!OpensRoot
<1> QED BY <1>2, <1>3

LEMMA NextTurns == IInv /\ [Next]_vars => [Turn!TurnsNext]_Turn!turnVars
<1> SUFFICES ASSUME IInv, [Next]_vars
             PROVE  (\E p \in Ops : Turn!TurnOf(p)) \/ UNCHANGED Turn!turnVars
  BY DEF Turn!TurnsNext
<1>1. ASSUME NEW p \in Ops, OpStep(p)
      PROVE  Turn!TurnOf(p) \/ UNCHANGED Turn!turnVars
  BY <1>1, TakesTurn DEF IInv, LocalInv, MarkerOK
<1>2. ASSUME NEW p \in Ops, Outside(p)
      PROVE  Turn!TurnOf(p) \/ UNCHANGED Turn!turnVars
  <2>1. TypeOK /\ LockInv /\ HelperOK(p) /\ Cleared(p) /\ RetOK(p) /\ UNCHANGED opVars
    BY <1>2, Domains DEF IInv, LocalInv, Outside
  <2>2. ASSUME mapper'[ROOT_MAP] # mapper[ROOT_MAP]
        PROVE  /\ p \in Unlockers /\ pc[p] = "attach_data_wait"
               /\ ~Exists(ROOT_MAP) /\ mapper'[ROOT_MAP].by = p
    <3>1. ROOT_MAP \in Names /\ child[p] = "running" /\ helper[p].name = ROOT_MAP
      BY <1>2, <2>2, MapperStep DEF Names
    <3>2. p \in Unlockers /\ pc[p] = "attach_data_wait" /\ helper[p].verb # "detach"
      BY <2>1, <3>1
         DEF HelperOK, Asked, DataMap, CAPSULE_MAP, VERIFY_MAP, ROOT_MAP, Ops
    <3> QED BY <1>2, <2>2, <3>1, <3>2, MapperStep
  <2> QED BY <2>1, <2>2, RootTurn
<1>3. CASE UNCHANGED vars
  BY <1>3 DEF vars, hostVars, opVars, Returned, At, Turn!turnVars
<1> QED BY <1>1, <1>2, <1>3 DEF Next

(***************************************************************************)
(* Any number of unlocks and verifications implement Turns: what is done   *)
(* to the record and to the root volume is done by one unlock at a time,   *)
(* in that order (unlock.rs, flock, removal of MARKER, atomic_write).      *)
(***************************************************************************)
THEOREM ImplementsTurns == Spec => TakesTurns
<1>1. Init => Turn!TurnsInit BY InitTurns
<1>2. IInv /\ [Next]_vars => [Turn!TurnsNext]_Turn!turnVars BY NextTurns
<1> QED BY <1>1, <1>2, Invariant, PTL DEF Spec, TakesTurns, Turn!TurnsSpec
=============================================================================
