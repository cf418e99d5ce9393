------------------------------- MODULE Commit -------------------------------
(***************************************************************************)
(* The end of an enrollment and what a boot finds of it: atomic_write of   *)
(* the manifest, the recovery key, keyslot 4, the sync of the state        *)
(* directory (enroll.rs), under loss of power, followed by an unlock's     *)
(* look at these files (unlock.rs) or by another enrollment.               *)
(*                                                                         *)
(* A directory entry reaches the disk when the directory is synced, or     *)
(* before, each for itself; the data of a file when it is synced, or any   *)
(* part of it before.  tpm.luks is synced by the tools that fill it, and   *)
(* adding a keyslot is durable when it returns.                            *)
(***************************************************************************)
EXTENDS Prompt, Manifest

CONSTANTS
    Gens,     \* bound: enrollments, 1 .. the number
    CidSizes  \* credential lengths a key may report

ASSUME CommitAssumption == Gens \in Nat /\ CidSizes \subseteq Nat

VARIABLES
    cpc,        \* where the program is, "off" between two runs of it
    gen,        \* the enrollment under way or the last one
    cid,        \* the credential length of each enrollment, 0 at first
    cached,     \* the directory: whose file each name is, 0 for none
    stored,     \* what of it is on the disk for certain
    data,       \* bytes of each enrollment's manifest in its file
    synced,     \* the manifests whose data is on the disk
    slot,       \* whose key keyslot 4 holds, 0 for nobody's
    succeeded,  \* the enrollments that returned with success
    boot        \* what the last unlock made of the state directory

dirVars == <<cached, stored, data, synced>>
commitVars == <<cpc, gen, cid, dirVars, slot, succeeded, boot>>
vars == <<commitVars, promptVars>>

FileNames == {"tpm.luks", "manifest.bin", ".pending"}
Whole(g) == encode(cid[g]).size

CommitTypeOK ==
    /\ PromptTypeOK
    /\ cpc \in {"off", "begin", "create", "write", "sync", "rename", "unlink", "prompt",
                "add", "finish", "ok", "error"}
    /\ gen \in 0 .. Gens /\ cid \in [1 .. Gens -> CidSizes \cup {0}]
    /\ {cached, stored} \subseteq [FileNames -> 0 .. Gens]
    /\ data \in [1 .. Gens -> Nat] /\ synced \subseteq 1 .. Gens
    /\ slot \in 0 .. Gens /\ succeeded \subseteq 1 .. Gens
    /\ boot \in {"none", "usable", "refused"}

CommitInit ==
    /\ PromptInit
    /\ cpc = "off" /\ gen = 0 /\ cid = [g \in 1 .. Gens |-> 0]
    /\ cached = [f \in FileNames |-> 0] /\ stored = cached
    /\ data = [g \in 1 .. Gens |-> 0] /\ synced = {}
    /\ slot = 0 /\ succeeded = {} /\ boot = "none"

-----------------------------------------------------------------------------
Goto(from, to) == cpc = from /\ cpc' = to
GoOn(from, to) == Goto(from, to) \/ Goto(from, "error")

\* The security key makes a credential, of a length that can be kept.
Enrolled ==
    \E size \in CidSizes : bounded(size, CID_MAX) /\ cid' = [cid EXCEPT ![gen] = size]

\* Nothing is enrolled here and slot 4 is free; the capsule is created.
Begin ==
    /\ \/ /\ Goto("begin", "create")
          /\ cached["manifest.bin"] = 0 /\ cached["tpm.luks"] = 0 /\ slot = 0
          /\ Enrolled
          /\ cached' = [cached EXCEPT !["tpm.luks"] = gen]
       \/ Goto("begin", "error") /\ UNCHANGED <<cid, cached>>
    /\ UNCHANGED <<stored, data, synced, slot>>

\* create_new under a fresh name ...
CreateTemp ==
    /\ GoOn("create", "write")
    /\ cached' = IF cpc' = "write" THEN [cached EXCEPT ![".pending"] = gen] ELSE cached
    /\ UNCHANGED <<stored, data, synced, slot>>

\* ... write_all, of which a part may be done when it fails ...
Parts(g) == {0, HEADER, HEADER + 1, Whole(g) - 1} \cap 0 .. Whole(g) - 1
WriteTemp ==
    /\ \/ Goto("write", "sync") /\ data' = [data EXCEPT ![gen] = Whole(gen)]
       \/ Goto("write", "unlink") /\ \E n \in Parts(gen) : data' = [data EXCEPT ![gen] = n]
    /\ UNCHANGED <<cached, stored, synced, slot>>

\* Mutant: the data is left to the page cache.
SyncNothing ==
    /\ Goto("sync", "rename")
    /\ UNCHANGED <<dirVars, slot>>

\* ... sync_all ...
SyncTemp ==
    /\ \/ Goto("sync", "rename") /\ synced' = synced \cup {gen}
       \/ Goto("sync", "unlink") /\ UNCHANGED synced
    /\ UNCHANGED <<cached, stored, data, slot>>

\* ... a last look at the flag, and the rename ...
RenameTemp ==
    /\ \/ /\ Goto("rename", "prompt") /\ ~interrupted
          /\ cached' = [cached EXCEPT !["manifest.bin"] = gen, ![".pending"] = 0]
       \/ Goto("rename", "unlink") /\ UNCHANGED cached
    /\ UNCHANGED <<stored, data, synced, slot>>

\* ... and on the way out of a failure the new file is removed, or stays.
UnlinkTemp ==
    /\ Goto("unlink", "error")
    /\ cached' \in {cached, [cached EXCEPT ![".pending"] = 0]}
    /\ UNCHANGED <<stored, data, synced, slot>>

\* disk::add: the header is looked at again; the key may not open it.
AddSlot ==
    /\ \/ Goto("add", "finish") /\ slot = 0 /\ slot' = gen
       \/ Goto("add", "error") /\ UNCHANGED slot
    /\ UNCHANGED dirVars

\* Mutant: the directory is not synced.
FinishUnsynced ==
    /\ GoOn("finish", "ok")
    /\ UNCHANGED <<dirVars, slot>>

\* The ramfs goes, the header is checked, and the directory is synced; each
\* may fail, and only then the enrollment has succeeded.
Finish ==
    /\ \/ Goto("finish", "ok") /\ stored' = cached
       \/ Goto("finish", "error") /\ UNCHANGED stored
    /\ UNCHANGED <<cached, data, synced, slot>>

FileStep ==
    /\ \/ Begin
       \/ /\ CreateTemp \/ WriteTemp \/ SyncTemp \/ RenameTemp \/ UnlinkTemp \/ AddSlot \/ Finish
          /\ UNCHANGED cid
    /\ succeeded' = IF cpc' = "ok" THEN succeeded \cup {gen} ELSE succeeded
    /\ ppc' = IF cpc' = "prompt" THEN "start" ELSE ppc
    /\ UNCHANGED <<gen, boot, bufferVars, now, interrupted, askerVars>>

\* The prompt, and what its result is followed by.
AskRecoveryKey ==
    /\ cpc = "prompt"
    /\ PromptStep
    /\ cpc' = CASE ppc' = "ok" -> "add" [] ppc' = "error" -> "error" [] OTHER -> "prompt"
    /\ UNCHANGED <<gen, cid, dirVars, slot, succeeded, boot>>

EnrollStep == FileStep \/ AskRecoveryKey

-----------------------------------------------------------------------------
\* A process starts with all of this anew, or ends with it.
NewProcess ==
    /\ ppc' = "idle" /\ pin' = Zero /\ used' = 0 /\ ended' = FALSE
    /\ now' = 0 /\ interrupted' = FALSE
    /\ asker' = "none" /\ reaped' = FALSE /\ open' = FALSE /\ printed' = <<>> /\ taken' = 0

\* The user starts an enrollment, or the machine boots and unlocks.
StartEnroll ==
    /\ cpc \in {"off", "ok", "error"} /\ gen < Gens
    /\ cpc' = "begin" /\ gen' = gen + 1 /\ boot' = "none"
    /\ NewProcess
    /\ UNCHANGED <<cid, dirVars, slot, succeeded>>

\* The configuration pins the digest that the last successful enrollment
\* printed, which only that manifest, whole, has.
Deployed == {g \in succeeded : \A h \in succeeded : h <= g}
read_trusted(g) == data[g] <= READ_LIMIT
Usable ==
    LET g == cached["manifest.bin"]
    IN  /\ g # 0 /\ read_trusted(g)
        /\ g \in Deployed /\ data[g] = Whole(g)
        /\ decodes(encode(cid[g]).field, data[g])
        /\ slot # 0 /\ cached["tpm.luks"] # 0

Boot ==
    /\ cpc \in {"off", "ok", "error"}
    /\ cpc' = "off"
    /\ boot' = IF Usable THEN "usable" ELSE "refused"
    /\ UNCHANGED <<gen, cid, dirVars, slot, succeeded, promptVars>>

\* What a directory entry may be after a loss of power: what is stored for
\* certain, what was in the cache, or a temporary file that was since removed.
Survivors(f) == {stored[f], cached[f]} \cup IF f = ".pending" THEN {0, gen} ELSE {}

PowerLoss ==
    /\ gen # 0 /\ cpc' = "off"
    /\ \E d \in [FileNames -> 0 .. Gens] :
         (\A f \in FileNames : d[f] \in Survivors(f)) /\ cached' = d /\ stored' = d
    /\ \/ gen \in synced /\ UNCHANGED data
       \/ /\ gen \notin synced
          /\ \E n \in Parts(gen) \cup {data[gen]} :
               n <= data[gen] /\ data' = [data EXCEPT ![gen] = n]
    /\ synced' = synced \cup {gen}
    /\ boot' = "none"
    /\ NewProcess
    /\ UNCHANGED <<gen, cid, slot, succeeded>>

Signal ==
    /\ cpc \notin {"off", "ok", "error"} /\ ~interrupted
    /\ interrupted' = TRUE
    /\ UNCHANGED <<commitVars, ppc, bufferVars, now, askerVars>>

Next ==
    \/ EnrollStep
    \/ (PromptOutside \/ Signal) /\ UNCHANGED commitVars
    \/ StartEnroll \/ Boot \/ PowerLoss

Spec == CommitInit /\ [][Next]_vars
FairSpec == Spec /\ WF_vars(EnrollStep) /\ WF_vars(PromptTick /\ UNCHANGED commitVars)

-----------------------------------------------------------------------------
(***************************************************************************)
(* The name manifest.bin never stands for a part of a manifest, whenever   *)
(* the power fails (common.rs, atomic_write).                              *)
(***************************************************************************)
ManifestNeverTorn ==
    cached["manifest.bin"] # 0 => data[cached["manifest.bin"]] = Whole(cached["manifest.bin"])

(***************************************************************************)
(* What an enrollment that returned with success has made stays usable     *)
(* through losses of power, signals and attempts to enroll again: manifest *)
(* and capsule are its own, keyslot 4 holds its key, and the unlock of any *)
(* later boot reads and accepts the manifest (enroll.rs, the sync of the   *)
(* state directory; unlock.rs, the checks of the manifest).                *)
(***************************************************************************)
SuccessSurvives ==
    \A g \in succeeded :
        /\ cached["manifest.bin"] = g /\ cached["tpm.luks"] = g /\ slot = g
        /\ boot # "refused"

(***************************************************************************)
(* An enrollment comes to its end though the helper that asks for the      *)
(* recovery key neither prints nor closes nor exits (process.rs, prompt).  *)
(***************************************************************************)
EnrollmentEnds == cpc = "begin" ~> cpc \in {"ok", "error", "off"}
=============================================================================
