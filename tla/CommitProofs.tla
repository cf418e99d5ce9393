---------------------------- MODULE CommitProofs ----------------------------
(***************************************************************************)
(* The recovery key, the manifest and the durability of a successful       *)
(* enrollment, for every number of enrollments and losses of power, every  *)
(* size of the prompt's buffer and everything its helper may print.        *)
(***************************************************************************)
EXTENDS Commit, TLAPS

(* The buffer holds what was taken of the first line. *)
Read ==
    /\ used <= taken /\ taken <= Len(printed)
    /\ \A i \in 1 .. used : pin[i] = printed[i] /\ printed[i] \notin {"nl", "nul"}
    /\ ~ended => taken = used
    /\ ended => taken = used + 1 /\ printed[used + 1] = "nl" /\ pin[used + 1] = "nul"

PromptInv ==
    /\ ppc \in {"idle", "start", "top", "read", "wait", "ok", "error"}
    /\ pin \in [1 .. N -> Bytes] /\ used \in 0 .. N - 1 /\ taken \in Nat
    /\ printed \in Seq(Bytes) /\ ended \in BOOLEAN
    /\ ppc \in {"idle", "start"} =>
         /\ pin = Zero /\ used = 0 /\ ~ended /\ printed = <<>> /\ taken = 0
         /\ asker = "none" /\ ~reaped
    /\ ppc \in {"top", "read", "wait", "ok"} => Read /\ asker # "none"
    /\ ppc = "read" => ~ended
    /\ ppc = "wait" => ended
    /\ ppc = "ok" => ended /\ asker = "success" /\ reaped /\ used > 0 /\ ValidUtf8(Key)
    /\ ppc = "error" => pin = Zero /\ asker # "running" /\ (asker # "none" => reaped)

Busy == {"create", "write", "sync", "rename", "unlink", "prompt", "add", "finish"}
FileTypes ==
    /\ cpc \in Busy \cup {"off", "begin", "ok", "error"}
    /\ gen \in 0 .. Gens /\ cid \in [1 .. Gens -> Nat]
    /\ cached \in [FileNames -> 0 .. Gens] /\ stored \in [FileNames -> 0 .. Gens]
    /\ data \in [1 .. Gens -> Nat] /\ synced \subseteq 1 .. Gens
    /\ succeeded \subseteq 1 .. Gens /\ slot \in 0 .. Gens

(* What the disk holds for certain is still in the cache, and a manifest   *)
(* that has its name is whole and on the disk.                             *)
DiskInv ==
    /\ \A f \in {"manifest.bin", "tpm.luks"} : stored[f] \in {0, cached[f]}
    /\ LET m == cached["manifest.bin"]
       IN  m # 0 => m \in synced /\ data[m] = Whole(m)

(* What an enrollment has made so far. *)
ProgressInv ==
    /\ cpc \in Busy \cup {"begin"} => gen # 0 /\ boot = "none"
    /\ cpc \in Busy =>
         /\ succeeded = {} /\ cached["tpm.luks"] = gen
         /\ bounded(cid[gen], CID_MAX)
    /\ cpc \in {"create", "write", "sync", "rename", "unlink"} => cached["manifest.bin"] = 0
    /\ cpc \in {"sync", "rename"} => data[gen] = Whole(gen)
    /\ cpc = "rename" => gen \in synced
    /\ cpc \in {"prompt", "add", "finish"} => cached["manifest.bin"] = gen
    /\ cpc = "finish" => slot = gen
    /\ cpc \in {"begin", "create", "write", "sync", "rename", "unlink"} => ppc = "idle"

(* Success is on the disk. *)
SuccessInv ==
    \A g \in succeeded :
        /\ cached["manifest.bin"] = g /\ stored["manifest.bin"] = g
        /\ cached["tpm.luks"] = g /\ stored["tpm.luks"] = g
        /\ slot = g /\ bounded(cid[g], CID_MAX) /\ boot # "refused"

IInv == PromptInv /\ FileTypes /\ DiskInv /\ ProgressInv /\ SuccessInv

USE PromptAssumption, CommitAssumption

-----------------------------------------------------------------------------
(* The prompt by itself. *)

LEMMA ZeroType == Zero \in [1 .. N -> Bytes] /\ 0 \in 0 .. N - 1
BY DEF Zero, Bytes

LEMMA EmptyType == <<>> \in Seq(Bytes) /\ Len(<<>>) = 0
OBVIOUS

LEMMA PromptInitInv == PromptInit => PromptInv
<1> SUFFICES ASSUME PromptInit PROVE PromptInv
  OBVIOUS
<1>1. /\ ppc = "idle" /\ pin = Zero /\ used = 0 /\ ended = FALSE /\ printed = <<>>
      /\ taken = 0 /\ asker = "none" /\ reaped = FALSE
  BY DEF PromptInit
<1>2. printed \in Seq(Bytes) /\ pin \in [1 .. N -> Bytes] /\ used \in 0 .. N - 1
  BY <1>1, ZeroType, EmptyType
<1> QED
  BY <1>1, <1>2 DEF PromptInv

LEMMA NewProcessInv == NewProcess => PromptInv'
<1> SUFFICES ASSUME NewProcess PROVE PromptInv'
  OBVIOUS
<1>1. /\ ppc' = "idle" /\ pin' = Zero /\ used' = 0 /\ ended' = FALSE /\ printed' = <<>>
      /\ taken' = 0 /\ asker' = "none" /\ reaped' = FALSE
  BY DEF NewProcess
<1>2. printed' \in Seq(Bytes) /\ pin' \in [1 .. N -> Bytes] /\ used' \in 0 .. N - 1
  BY <1>1, ZeroType, EmptyType
<1> QED
  BY <1>1, <1>2 DEF PromptInv

LEMMA PromptFrame == PromptInv /\ UNCHANGED promptVars => PromptInv'
BY DEF PromptInv, promptVars, bufferVars, askerVars, Read, Key

LEMMA PromptFailInv == PromptFail => PromptInv'
<1> SUFFICES ASSUME PromptFail PROVE PromptInv'
  OBVIOUS
<1>1. /\ ppc' = "error" /\ pin' = Zero /\ used' = 0 /\ ended' = FALSE /\ printed' = <<>>
      /\ taken' = 0 /\ asker' # "running" /\ (asker' # "none" => reaped')
  BY DEF PromptFail
<1>2. printed' \in Seq(Bytes) /\ pin' \in [1 .. N -> Bytes] /\ used' \in 0 .. N - 1
  BY <1>1, ZeroType, EmptyType
<1> QED
  BY <1>1, <1>2 DEF PromptInv

LEMMA PromptCallInv == PromptInv /\ PromptCall => PromptInv'
<1> SUFFICES ASSUME PromptInv, PromptCall, ~PromptFail PROVE PromptInv'
  BY PromptFailInv
<1>1. used' = 0 /\ taken' = 0 /\ printed' = <<>> /\ ~ended' /\ ppc' = "top" /\ asker' = "running"
  BY DEF PromptInv, PromptCall, bufferVars
<1>2. Read'
  BY <1>1, EmptyType DEF Read
<1> QED
  BY <1>1, <1>2, ZeroType, EmptyType DEF PromptInv, PromptCall, bufferVars

LEMMA PromptTopInv == PromptInv /\ PromptTop => PromptInv'
<1> SUFFICES ASSUME PromptInv, PromptTop, ~PromptFail PROVE PromptInv'
  BY PromptFailInv
<1> QED
  BY DEF PromptInv, PromptTop, bufferVars, askerVars, Read

LEMMA PromptReadInv == PromptInv /\ PromptRead => PromptInv'
<1> SUFFICES ASSUME PromptInv, PromptRead, ~PromptFail PROVE PromptInv'
  BY PromptFailInv
<1> USE DEF PromptInv
<1>1. ppc = "read" /\ Read /\ asker # "none" /\ ~ended /\ taken = used
  BY DEF PromptRead, Read
<1>2. CASE ppc' = "top" /\ UNCHANGED <<bufferVars, askerVars>>
  BY <1>1, <1>2 DEF bufferVars, askerVars, Read
<1>3. CASE taken < Len(printed) /\ PromptByte(printed[taken + 1])
  <2> DEFINE b == printed[taken + 1]
  <2>1. b \in Bytes /\ taken + 1 \in 1 .. Len(printed)
    BY <1>3
  <2>2. /\ taken' = taken + 1 /\ UNCHANGED <<asker, reaped, printed>>
        /\ \/ b = "nl" /\ pin' = [pin EXCEPT ![used + 1] = "nul"] /\ ended' = TRUE
              /\ ppc' = "wait" /\ used' = used
           \/ b \notin {"nl", "nul"} /\ used < N - 1 /\ pin' = [pin EXCEPT ![used + 1] = b]
              /\ used' = used + 1 /\ ppc' = "top" /\ ended' = ended
    BY <1>3 DEF PromptByte
  <2> HIDE DEF b
  <2>3. used + 1 \in 1 .. N
    OBVIOUS
  <2>4. CASE /\ b = "nl" /\ pin' = [pin EXCEPT ![used + 1] = "nul"] /\ ended' = TRUE
             /\ ppc' = "wait" /\ used' = used
    <3>1. pin' \in [1 .. N -> Bytes]
      BY <2>4 DEF Bytes
    <3>2. pin'[used + 1] = "nul" /\ \A i \in 1 .. used : pin'[i] = pin[i]
      BY <2>3, <2>4
    <3>3. printed[used + 1] = "nl"
      BY <1>1, <2>4 DEF b
    <3>4. Read'
      BY <1>1, <2>1, <2>2, <2>4, <3>2, <3>3 DEF Read
    <3> QED
      BY <1>1, <2>2, <2>4, <3>1, <3>4
  <2>5. CASE /\ b \notin {"nl", "nul"} /\ used < N - 1 /\ pin' = [pin EXCEPT ![used + 1] = b]
             /\ used' = used + 1 /\ ppc' = "top" /\ ended' = ended
    <3>1. pin' \in [1 .. N -> Bytes]
      BY <2>1, <2>5
    <3>2. pin'[used + 1] = b /\ \A i \in 1 .. used : pin'[i] = pin[i]
      BY <2>3, <2>5
    <3>3. printed[used + 1] = b
      BY <1>1 DEF b
    <3>4. Read'
      BY <1>1, <2>1, <2>2, <2>5, <3>2, <3>3 DEF Read
    <3> QED
      BY <1>1, <2>2, <2>5, <3>1, <3>4
  <2> QED
    BY <2>2, <2>4, <2>5
<1> QED
  BY <1>2, <1>3 DEF PromptRead

LEMMA PromptWaitInv == PromptInv /\ PromptWait => PromptInv'
<1> SUFFICES ASSUME PromptInv, PromptWait, ~PromptFail PROVE PromptInv'
  BY PromptFailInv
<1>1. CASE asker = "running" /\ ppc' = "top" /\ UNCHANGED <<bufferVars, askerVars>>
  BY <1>1 DEF PromptInv, PromptWait, bufferVars, askerVars, Read
<1>2. CASE /\ asker = "success" /\ used > 0 /\ ValidUtf8(Key)
           /\ ppc' = "ok" /\ reaped' = TRUE
           /\ UNCHANGED <<bufferVars, asker, open, printed, taken>>
  <2>1. ValidUtf8(Key)'
    BY <1>2 DEF Key, ValidUtf8, bufferVars
  <2>2. ppc = "wait" /\ ended /\ Read
    BY DEF PromptInv, PromptWait
  <2>3. Read'
    BY <1>2, <2>2 DEF Read, bufferVars
  <2> QED
    BY <1>2, <2>1, <2>2, <2>3 DEF PromptInv, bufferVars
<1> QED
  BY <1>1, <1>2 DEF PromptWait

\* What the helper prints comes after what was taken.
LEMMA PromptOutsideInv == PromptInv /\ PromptOutside => PromptInv'
<1> SUFFICES ASSUME PromptInv, PromptOutside PROVE PromptInv'
  OBVIOUS
<1>1. ASSUME NEW b \in Bytes, AskerPrints(b) PROVE PromptInv'
  <2>1. printed \in Seq(Bytes) /\ printed' = Append(printed, b) /\ asker = "running"
    BY <1>1 DEF PromptInv, AskerPrints
  <2>2. /\ printed' \in Seq(Bytes) /\ Len(printed') = Len(printed) + 1
        /\ \A i \in 1 .. Len(printed) : printed'[i] = printed[i]
    BY <2>1
  <2>3. ppc \in {"top", "read", "wait"}
    BY <2>1 DEF PromptInv
  <2>4. Read'
    BY <1>1, <2>2, <2>3 DEF PromptInv, Read, AskerPrints, bufferVars
  <2> QED
    BY <1>1, <2>1, <2>2, <2>3, <2>4 DEF PromptInv, AskerPrints, bufferVars
<1>2. CASE AskerEnds
  <2>1. ppc \in {"top", "read", "wait"}
    BY <1>2 DEF PromptInv, AskerEnds
  <2> QED
    BY <1>2, <2>1 DEF PromptInv, AskerEnds, bufferVars, Read
<1>3. CASE PromptTick
  BY <1>3 DEF PromptInv, PromptTick, bufferVars, askerVars, Read
<1> QED
  BY <1>1, <1>2, <1>3 DEF PromptOutside

LEMMA PromptStepInv == PromptInv /\ PromptStep => PromptInv'
BY PromptCallInv, PromptTopInv, PromptReadInv, PromptWaitInv DEF PromptStep

LEMMA PromptKey == PromptInv => KeyIsWhatWasTyped
<1> SUFFICES ASSUME PromptInv, ppc = "ok"
             PROVE  /\ used \in 1 .. Len(printed) - 1
                    /\ printed[used + 1] = "nl" /\ pin[used + 1] = "nul"
                    /\ Key = SubSeq(printed, 1, used)
                    /\ \A i \in 1 .. used : printed[i] \notin {"nl", "nul"}
  BY DEF PromptInv, KeyIsWhatWasTyped
<1>1. /\ used \in 0 .. N - 1 /\ used > 0 /\ taken = used + 1 /\ taken <= Len(printed)
      /\ printed \in Seq(Bytes) /\ pin \in [1 .. N -> Bytes] /\ Read
  BY DEF PromptInv, Read
<1>2. Key = [i \in 1 .. used |-> pin[i]]
  BY <1>1 DEF Key
<1>3. SubSeq(printed, 1, used) = [i \in 1 .. used |-> printed[i]]
  BY <1>1
<1>4. Key = SubSeq(printed, 1, used)
  BY <1>1, <1>2, <1>3 DEF Read
<1> QED
  BY <1>1, <1>4 DEF PromptInv, Read

-----------------------------------------------------------------------------
(* The files. *)

LEMMA InitInv == CommitInit => IInv
<1> SUFFICES ASSUME CommitInit PROVE IInv
  OBVIOUS
<1>1. PromptInv
  BY PromptInitInv DEF CommitInit
<1>2. FileTypes /\ DiskInv
  BY DEF CommitInit, FileTypes, DiskInv, FileNames
<1>3. ProgressInv /\ SuccessInv
  BY DEF CommitInit, ProgressInv, SuccessInv, Busy
<1> QED
  BY <1>1, <1>2, <1>3 DEF IInv

\* The steps of atomic_write, of the capsule before it, and of the slot and the
\* sync after it.
LEMMA FileStepInv == IInv /\ FileStep => IInv'
<1> SUFFICES ASSUME IInv, FileStep PROVE IInv'
  OBVIOUS
<1> USE DEF IInv, Goto, GoOn, Busy
<1>1. /\ succeeded' = IF cpc' = "ok" THEN succeeded \cup {gen} ELSE succeeded
      /\ ppc' = IF cpc' = "prompt" THEN "start" ELSE ppc
      /\ UNCHANGED <<gen, boot, pin, used, ended, now, interrupted, asker, reaped, open, printed, taken>>
  BY DEF FileStep, bufferVars, askerVars
<1>2. CASE Begin
  <2>1. FileTypes'
    <3>1. cid' \in [1 .. Gens -> Nat]
      <4>1. cid \in [1 .. Gens -> Nat]
        BY DEF FileTypes
      <4>2. cid' = cid \/ \E size \in CidSizes : cid' = [cid EXCEPT ![gen] = size]
        BY <1>2 DEF Begin, Enrolled
      <4> QED
        BY <4>1, <4>2
    <3>2. cached' \in [FileNames -> 0 .. Gens]
      <4>1. cached \in [FileNames -> 0 .. Gens] /\ gen \in 0 .. Gens
        BY DEF FileTypes
      <4>2. cached' = cached \/ cached' = [cached EXCEPT !["tpm.luks"] = gen]
        BY <1>2 DEF Begin
      <4> QED
        BY <4>1, <4>2
    <3>3. UNCHANGED <<gen, stored, data, synced, slot, succeeded>> /\ cpc' \in {"create", "error"}
      BY <1>1, <1>2 DEF Begin
    <3> QED
      BY <3>1, <3>2, <3>3 DEF FileTypes
  <2>2. DiskInv'
    BY <1>1, <1>2 DEF FileTypes, Begin, Enrolled, FileNames, DiskInv, ProgressInv, Whole
  <2>4. ASSUME cpc' = "create" PROVE ProgressInv' /\ SuccessInv'
    <3>1. succeeded = {}
      BY <1>2, <2>4 DEF SuccessInv, Begin, FileTypes
    <3>2. cached'["tpm.luks"] = gen /\ cached'["manifest.bin"] = 0 /\ bounded(cid'[gen], CID_MAX)
      BY <1>2, <2>4 DEF Begin, Enrolled, FileTypes, FileNames, ProgressInv
    <3>3. succeeded' = {} /\ ppc' = ppc /\ cpc = "begin" /\ gen' = gen /\ boot' = boot
      BY <1>1, <1>2, <2>4, <3>1 DEF Begin
    <3>4. ProgressInv'
      BY <2>4, <3>2, <3>3 DEF ProgressInv
    <3> QED
      BY <3>3, <3>4 DEF SuccessInv
  <2>5. ASSUME cpc' = "error" PROVE ProgressInv' /\ SuccessInv'
    <3>1. /\ UNCHANGED <<cid, cached, stored, slot, boot>>
          /\ succeeded' = succeeded
      BY <1>1, <1>2, <2>5 DEF Begin
    <3> QED
      BY <2>5, <3>1 DEF ProgressInv, SuccessInv
  <2>3. PromptInv'
    BY <1>1, <1>2, PromptFrame DEF Begin, promptVars, bufferVars, askerVars
  <2> QED
    BY <1>2, <2>1, <2>2, <2>3, <2>4, <2>5 DEF Begin
<1>3. CASE CreateTemp /\ UNCHANGED cid
  <2>1. FileTypes'
    BY <1>1, <1>3 DEF FileTypes, CreateTemp, FileNames, ProgressInv
  <2>2. DiskInv' /\ ProgressInv' /\ SuccessInv'
    BY <1>1, <1>3 DEF FileTypes, CreateTemp, FileNames, DiskInv, ProgressInv, SuccessInv, Whole
  <2>3. PromptInv'
    BY <1>1, <1>3, PromptFrame DEF CreateTemp, promptVars, bufferVars, askerVars
  <2> QED
    BY <2>1, <2>2, <2>3
<1>4. CASE WriteTemp /\ UNCHANGED cid
  <2>1. gen \in 1 .. Gens /\ Whole(gen) \in Nat
    BY <1>4 DEF FileTypes, ProgressInv, WriteTemp, Whole, encode, HEADER
  <2>2. \E n \in Nat : data' = [data EXCEPT ![gen] = n] /\ (cpc' = "sync" => n = Whole(gen))
    BY <1>4, <2>1 DEF WriteTemp, Parts, HEADER
  <2>3. FileTypes'
    BY <1>1, <1>4, <2>1, <2>2 DEF FileTypes, WriteTemp
  <2>4. DiskInv' /\ ProgressInv' /\ SuccessInv'
    BY <1>1, <1>4, <2>1, <2>2 DEF FileTypes, WriteTemp, DiskInv, ProgressInv, SuccessInv, Whole
  <2>5. PromptInv'
    BY <1>1, <1>4, PromptFrame DEF WriteTemp, promptVars, bufferVars, askerVars
  <2> QED
    BY <2>3, <2>4, <2>5
<1>5. CASE SyncTemp /\ UNCHANGED cid
  <2>1. FileTypes'
    <3>1. gen \in 1 .. Gens
      BY <1>5 DEF FileTypes, ProgressInv, SyncTemp
    <3>2. synced' \subseteq 1 .. Gens
      BY <1>5, <3>1 DEF FileTypes, SyncTemp
    <3> QED
      BY <1>1, <1>5, <3>2 DEF FileTypes, SyncTemp
  <2>2. DiskInv' /\ ProgressInv' /\ SuccessInv'
    BY <1>1, <1>5 DEF FileTypes, SyncTemp, DiskInv, ProgressInv, SuccessInv, Whole
  <2>3. PromptInv'
    BY <1>1, <1>5, PromptFrame DEF SyncTemp, promptVars, bufferVars, askerVars
  <2> QED
    BY <2>1, <2>2, <2>3
<1>6. CASE RenameTemp /\ UNCHANGED cid
  <2>1. FileTypes'
    BY <1>1, <1>6 DEF FileTypes, RenameTemp, FileNames, ProgressInv
  <2>2. DiskInv' /\ ProgressInv' /\ SuccessInv'
    BY <1>1, <1>6 DEF FileTypes, RenameTemp, FileNames, DiskInv, ProgressInv, SuccessInv, Whole
  <2>3. PromptInv'
    BY <1>1, <1>6 DEF RenameTemp, PromptInv, ProgressInv, Read, Key
  <2> QED
    BY <2>1, <2>2, <2>3
<1>7. CASE UnlinkTemp /\ UNCHANGED cid
  <2>1. FileTypes'
    <3>1. cached' \in [FileNames -> 0 .. Gens]
      <4>1. cached \in [FileNames -> 0 .. Gens] /\ 0 \in 0 .. Gens
        BY DEF FileTypes
      <4>2. cached' \in {cached, [cached EXCEPT ![".pending"] = 0]}
        BY <1>7 DEF UnlinkTemp
      <4> HIDE DEF IInv
      <4> QED
        BY <4>1, <4>2
    <3>2. UNCHANGED <<gen, cid, stored, data, synced, slot, succeeded>> /\ cpc' = "error"
      BY <1>1, <1>7 DEF UnlinkTemp
    <3> QED
      BY <3>1, <3>2 DEF FileTypes
  <2>2. DiskInv' /\ ProgressInv' /\ SuccessInv'
    BY <1>1, <1>7 DEF FileTypes, UnlinkTemp, FileNames, DiskInv, ProgressInv, SuccessInv, Whole
  <2>3. PromptInv'
    BY <1>1, <1>7, PromptFrame DEF UnlinkTemp, promptVars, bufferVars, askerVars
  <2> QED
    BY <2>1, <2>2, <2>3
<1>8. CASE (AddSlot \/ Finish) /\ UNCHANGED cid
  <2>1. FileTypes'
    <3>1. gen \in 1 .. Gens
      BY <1>8 DEF FileTypes, ProgressInv, AddSlot, Finish
    <3>2. succeeded' \subseteq 1 .. Gens
      BY <1>1, <3>1 DEF FileTypes
    <3> QED
      BY <1>1, <1>8, <3>1, <3>2 DEF FileTypes, AddSlot, Finish, dirVars
  <2>2. DiskInv' /\ ProgressInv' /\ SuccessInv'
    BY <1>1, <1>8 DEF FileTypes, AddSlot, Finish, dirVars, DiskInv, ProgressInv, SuccessInv, Whole
  <2>3. PromptInv'
    BY <1>1, <1>8, PromptFrame DEF AddSlot, Finish, promptVars, bufferVars, askerVars
  <2> QED
    BY <2>1, <2>2, <2>3
<1> QED
  BY <1>2, <1>3, <1>4, <1>5, <1>6, <1>7, <1>8 DEF FileStep

\* A step that moves neither the files nor the slot, and ends no enrollment.
LEMMA FilesFrame ==
    ASSUME IInv, UNCHANGED <<gen, cid, dirVars, slot, succeeded, boot>>, cpc' = cpc,
           cpc \in {"begin", "create", "write", "sync", "rename", "unlink"} => ppc' = ppc
    PROVE  FileTypes' /\ DiskInv' /\ ProgressInv' /\ SuccessInv'
BY DEF IInv, FileTypes, DiskInv, ProgressInv, SuccessInv, dirVars, Whole

LEMMA AskInv == IInv /\ AskRecoveryKey => IInv'
<1> SUFFICES ASSUME IInv, AskRecoveryKey PROVE IInv'
  OBVIOUS
<1>1. cpc = "prompt" /\ cpc' \in {"add", "error", "prompt"}
  BY DEF AskRecoveryKey
<1>2. FileTypes' /\ DiskInv' /\ ProgressInv' /\ SuccessInv'
  BY <1>1 DEF IInv, AskRecoveryKey, FileTypes, DiskInv, ProgressInv, SuccessInv, dirVars,
              Whole, Busy
<1> QED
  BY <1>2, PromptStepInv DEF IInv, AskRecoveryKey

LEMMA OutsideInv == IInv /\ (PromptOutside \/ Signal) /\ UNCHANGED commitVars => IInv'
<1> SUFFICES ASSUME IInv, PromptOutside \/ Signal, UNCHANGED commitVars PROVE IInv'
  OBVIOUS
<1>1. ppc' = ppc
  BY DEF PromptOutside, AskerPrints, AskerEnds, PromptTick, Signal
<1>2. PromptInv'
  <2>1. CASE PromptOutside
    BY <2>1, PromptOutsideInv DEF IInv
  <2>2. CASE Signal
    BY <2>2 DEF IInv, PromptInv, Signal, bufferVars, askerVars, Read, Key
  <2> QED
    BY <2>1, <2>2
<1>3. FileTypes' /\ DiskInv' /\ ProgressInv' /\ SuccessInv'
  BY <1>1, FilesFrame DEF commitVars
<1> QED
  BY <1>2, <1>3 DEF IInv

LEMMA StartInv == IInv /\ StartEnroll => IInv'
<1> SUFFICES ASSUME IInv, StartEnroll PROVE IInv'
  OBVIOUS
<1>1. FileTypes' /\ DiskInv' /\ SuccessInv'
  BY DEF IInv, StartEnroll, FileTypes, DiskInv, SuccessInv, dirVars, Whole
<1>2. ProgressInv'
  BY DEF IInv, StartEnroll, FileTypes, ProgressInv, NewProcess, Busy
<1> QED
  BY <1>1, <1>2, NewProcessInv DEF IInv, StartEnroll

\* The manifest of the only success is accepted.
LEMMA SuccessUsable == ASSUME IInv, NEW g \in succeeded PROVE Usable
<1>1. /\ cached["manifest.bin"] = g /\ cached["tpm.luks"] = g /\ slot = g
      /\ bounded(cid[g], CID_MAX) /\ g \in 1 .. Gens
  BY DEF IInv, SuccessInv, FileTypes
<1>2. g \in Deployed
  <2>1. \A h \in succeeded : h = g
    BY <1>1 DEF IInv, SuccessInv
  <2> QED
    BY <1>1, <2>1 DEF Deployed
<1>3. data[g] = Whole(g)
  BY <1>1 DEF IInv, DiskInv
<1>4. cid[g] \in 1 .. 1024
  <2>1. cid[g] \in Nat
    BY <1>1 DEF IInv, FileTypes
  <2> QED
    BY <1>1, <2>1 DEF bounded, CID_MAX
<1>5. encode(cid[g]).field = cid[g] /\ Whole(g) = 142 + cid[g]
  <2>1. cid[g] % 65536 = cid[g]
    BY <1>4
  <2> QED
    BY <2>1 DEF encode, HEADER, Whole
<1>6. decodes(encode(cid[g]).field, data[g]) /\ read_trusted(g)
  <2>1. data[g] = 142 + cid[g] /\ data[g] <= 2048 /\ data[g] >= 143
    <3> DEFINE c == cid[g]
    <3>1. data[g] = 142 + c
      BY <1>3, <1>5
    <3>2. c \in 1 .. 1024
      BY <1>4
    <3> HIDE DEF c
    <3>3. 142 + c <= 2048 /\ 142 + c >= 143
      BY <3>2
    <3> QED
      BY <3>1, <3>3 DEF c
  <2>2. decodes(cid[g], data[g])
    BY <1>4, <2>1 DEF decodes, HEADER, CID_MAX
  <2> QED
    BY <1>5, <2>1, <2>2 DEF read_trusted, READ_LIMIT
<1> QED
  BY <1>1, <1>2, <1>3, <1>6 DEF Usable

LEMMA BootInv == IInv /\ Boot => IInv'
<1> SUFFICES ASSUME IInv, Boot PROVE IInv'
  OBVIOUS
<1>1. FileTypes' /\ DiskInv' /\ ProgressInv'
  BY DEF IInv, Boot, FileTypes, DiskInv, ProgressInv, dirVars, Whole, Busy
<1>2. SuccessInv'
  BY SuccessUsable DEF IInv, Boot, SuccessInv, dirVars
<1> QED
  BY <1>1, <1>2, PromptFrame DEF IInv, Boot

\* Whole and synced manifests keep their data, and their names.
LEMMA PowerLossInv == IInv /\ PowerLoss => IInv'
<1> SUFFICES ASSUME IInv, PowerLoss PROVE IInv'
  OBVIOUS
<1> USE DEF IInv, PowerLoss
<1>1. /\ cached' \in [FileNames -> 0 .. Gens] /\ stored' = cached'
      /\ \A f \in {"manifest.bin", "tpm.luks"} : cached'[f] \in {stored[f], cached[f]}
  BY DEF Survivors, FileNames
<1>2. /\ data' \in [1 .. Gens -> Nat]
      /\ \A m \in synced : data'[m] = data[m]
  <2>1. gen \in 1 .. Gens /\ \A n \in Parts(gen) \cup {data[gen]} : n \in Nat
    BY DEF FileTypes, Parts, HEADER
  <2> QED
    BY <2>1 DEF FileTypes
<1>3. FileTypes'
  <2>1. synced' \subseteq 1 .. Gens
    BY DEF FileTypes
  <2> QED
    BY <1>1, <1>2, <2>1 DEF FileTypes
<1>4. DiskInv'
  BY <1>1, <1>2 DEF DiskInv, Whole
<1>5. ProgressInv'
  BY DEF ProgressInv, Busy
<1>6. SuccessInv'
  BY <1>1 DEF SuccessInv
<1> QED
  BY <1>3, <1>4, <1>5, <1>6, NewProcessInv

LEMMA NextInv == IInv /\ [Next]_vars => IInv'
<1> SUFFICES ASSUME IInv, [Next]_vars PROVE IInv'
  OBVIOUS
<1>1. CASE EnrollStep
  BY <1>1, FileStepInv, AskInv DEF EnrollStep
<1>2. CASE (PromptOutside \/ Signal) /\ UNCHANGED commitVars
  BY <1>2, OutsideInv
<1>3. CASE StartEnroll \/ Boot \/ PowerLoss
  BY <1>3, StartInv, BootInv, PowerLossInv
<1>4. CASE UNCHANGED vars
  BY <1>4, PromptFrame, FilesFrame DEF vars, commitVars, promptVars, IInv
<1> QED
  BY <1>1, <1>2, <1>3, <1>4 DEF Next

(***************************************************************************)
(* The inductive invariant of the end of an enrollment, through any number *)
(* of enrollments, boots and losses of power (enroll.rs, common.rs).       *)
(***************************************************************************)
THEOREM Invariant == Spec => []IInv
BY InitInv, NextInv, PTL DEF Spec

(***************************************************************************)
(* For any size of the buffer and whatever its helper prints, the prompt   *)
(* returns the whole first line or nothing (process.rs, prompt).           *)
(***************************************************************************)
THEOREM KeyIsWhole == Spec => []KeyIsWhatWasTyped
<1>1. IInv => KeyIsWhatWasTyped
  BY PromptKey DEF IInv
<1> QED
  BY <1>1, Invariant, PTL

(***************************************************************************)
(* No loss of power leaves a part of a manifest under its name, for        *)
(* credentials of any length (common.rs, atomic_write).                    *)
(***************************************************************************)
THEOREM NeverTorn == Spec => []ManifestNeverTorn
<1>1. IInv => ManifestNeverTorn
  BY DEF IInv, DiskInv, ManifestNeverTorn
<1> QED
  BY <1>1, Invariant, PTL

(***************************************************************************)
(* A successful enrollment stays usable through any number of losses of    *)
(* power and of attempts to enroll again (enroll.rs, the last sync).       *)
(***************************************************************************)
THEOREM SuccessIsDurable == Spec => []SuccessSurvives
<1>1. IInv => SuccessSurvives
  BY DEF IInv, SuccessInv, SuccessSurvives
<1> QED
  BY <1>1, Invariant, PTL
=============================================================================
