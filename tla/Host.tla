-------------------------------- MODULE Host --------------------------------
(***************************************************************************)
(* The machine the commands of luks-combo-unlock run on: the device-mapper *)
(* names, the helper processes, the ramfs mounts of RamSecret, the files   *)
(* and the LUKS headers the commands read and write.  The modules of the   *)
(* commands extend this one and act on its variables through its           *)
(* operators.                                                              *)
(*                                                                         *)
(* A secret is represented by where it comes from: the token of a state    *)
(* directory enrolled before the model starts, or of the enrollment that   *)
(* generated it.  The final LUKS key binds the TPM secret and the manifest *)
(* (whose credential yields the FIDO secret), so it is the pair of both.   *)
(***************************************************************************)
EXTENDS Naturals

CONSTANTS
    Procs,      \* invocations of the program
    Dirs,       \* state directories
    Roots,      \* root devices
    DirOf,      \* the state_dir of each invocation's configuration
    RootOf,     \* the root_device of each invocation's configuration
    Enrolled,   \* the directories that already hold a finished enrollment
    Nobody,     \* no process, no secret
    Stranger    \* a program that is not ours

ASSUME ConfigAssumption ==
    /\ DirOf \in [Procs -> Dirs]
    /\ RootOf \in [Procs -> Roots]
    /\ Enrolled \subseteq Dirs
ASSUME SentinelAssumption ==
    /\ Nobody \notin Procs \cup Dirs \cup {Stranger}
    /\ Stranger \notin Procs

CAPSULE_MAP == "fde-combo"
VERIFY_MAP == "cryptroot-combo-check"
ROOT_MAP == "cryptroot"
Names == {CAPSULE_MAP, VERIFY_MAP, ROOT_MAP}

VARIABLES
    mapper,       \* /dev/mapper: who created each name, and whether writable
    helper,       \* what the child process of each invocation is to do
    child,        \* whether there is one, and how it ended
    interrupted,  \* the invocations whose flag the signal handler has set
    ram,          \* the ramfs directory under /run of each invocation
    capsule,      \* tpm.luks of each state directory
    manifest,     \* manifest.bin of each state directory
    slot          \* keyslot 4 of each root device

helperVars == <<helper, child>>
hostVars == <<mapper, helperVars, interrupted, ram, capsule, manifest, slot>>

Token == Procs \cup Dirs \cup {Nobody}
Key == [t : Token, m : Token]
NoKey == [t |-> Nobody, m |-> Nobody]
derive(t, m) == [t |-> t, m |-> m]

Mapping == [by : Procs \cup {Stranger, Nobody}, rw : BOOLEAN]
Unmapped == [by |-> Nobody, rw |-> FALSE]
Exists(n) == mapper[n].by # Nobody

Verbs == {"none", "attach", "attach_ro", "detach", "format", "seal"}
NoHelper == [verb |-> "none", name |-> CAPSULE_MAP, key |-> NoKey]
Helper == [verb : Verbs, name : Names, key : Key]

Capsule == [by : Token, stage : {"absent", "empty", "formatted", "sealed"}, secret : Token]
NoCapsule == [by |-> Nobody, stage |-> "absent", secret |-> Nobody]

HostTypeOK ==
    /\ mapper \in [Names -> Mapping]
    /\ helper \in [Procs -> Helper]
    /\ child \in [Procs -> {"none", "running", "ok", "failed"}]
    /\ interrupted \subseteq Procs
    /\ ram \in [Procs -> {"none", "dir", "mounted"}]
    /\ capsule \in [Dirs -> Capsule]
    /\ manifest \in [Dirs -> Token]
    /\ slot \in [Roots -> Key]

(***************************************************************************)
(* Boot finds the enrolled directories complete; any of the names may      *)
(* already be mapped by somebody else.                                     *)
(***************************************************************************)
HostInit ==
    /\ mapper \in [Names -> {Unmapped, [by |-> Stranger, rw |-> TRUE]}]
    /\ helper = [p \in Procs |-> NoHelper]
    /\ child = [p \in Procs |-> "none"]
    /\ interrupted = {}
    /\ ram = [p \in Procs |-> "none"]
    /\ capsule = [d \in Dirs |-> IF d \in Enrolled
                                 THEN [by |-> d, stage |-> "sealed", secret |-> d]
                                 ELSE NoCapsule]
    /\ manifest = [d \in Dirs |-> IF d \in Enrolled THEN d ELSE Nobody]
    /\ slot = [r \in Roots |->
                 IF \E p \in Procs : RootOf[p] = r /\ DirOf[p] \in Enrolled
                 THEN LET d == DirOf[CHOOSE p \in Procs :
                                        RootOf[p] = r /\ DirOf[p] \in Enrolled]
                      IN  derive(d, d)
                 ELSE NoKey]

-----------------------------------------------------------------------------
(***************************************************************************)
(* The contract of process::run, keyed and cleanup, which Supervisor       *)
(* establishes: a call spawns one child; it returns success only when the  *)
(* child exited with success; it may fail at any moment (the deadline, a   *)
(* signal, a failed child); and it never returns while the child lives.    *)
(***************************************************************************)
Spawn(p, verb, name, key) ==
    /\ helper' = [helper EXCEPT ![p] = [verb |-> verb, name |-> name, key |-> key]]
    /\ child' = [child EXCEPT ![p] = "running"]
\* Mutant: a wait without a deadline.
ReapWhenDone(p) ==
    /\ child[p] \in {"ok", "failed"}
    /\ helper' = [helper EXCEPT ![p] = NoHelper]
    /\ child' = [child EXCEPT ![p] = "none"]
Reap(p) ==
    /\ helper' = [helper EXCEPT ![p] = NoHelper]
    /\ child' = [child EXCEPT ![p] = "none"]

\* Mutant: the exit status is not looked at.
HelperEnded(p) == child[p] \in {"ok", "failed"}
HelperSucceeded(p) == child[p] = "ok"

\* cancelled(): the question mark after it returns early once the flag is set.
Cancelled(p) == p \in interrupted
\* The handler of signals 1, 2 and 15 only sets the flag.
Interrupt(p) ==
    /\ p \notin interrupted
    /\ interrupted' = interrupted \cup {p}
    /\ UNCHANGED <<mapper, helperVars, ram, capsule, manifest, slot>>

(***************************************************************************)
(* systemd-cryptsetup, from how the program uses it.  attach creates the   *)
(* name when it is free and the key fits; detach removes the name whoever  *)
(* created it.  Either may fail before or after its effect, and either may *)
(* report success when it finds nothing to do.                             *)
(***************************************************************************)
KeyFits(p) ==
    \/ /\ helper[p].name = CAPSULE_MAP
       /\ capsule[DirOf[p]].stage = IF helper[p].verb = "attach" THEN "formatted" ELSE "sealed"
    \/ /\ helper[p].name # CAPSULE_MAP
       /\ helper[p].key = slot[RootOf[p]]
       /\ helper[p].key # NoKey

HelperAttaches(p) ==
    /\ child[p] = "running"
    /\ helper[p].verb \in {"attach", "attach_ro"}
    /\ ~Exists(helper[p].name)
    /\ KeyFits(p)
    /\ mapper' = [mapper EXCEPT ![helper[p].name] =
                     [by |-> p, rw |-> helper[p].verb = "attach"]]
    /\ UNCHANGED <<helperVars, interrupted, ram, capsule, manifest, slot>>

HelperDetaches(p) ==
    /\ child[p] = "running"
    /\ helper[p].verb = "detach"
    /\ Exists(helper[p].name)
    /\ mapper' = [mapper EXCEPT ![helper[p].name] = Unmapped]
    /\ UNCHANGED <<helperVars, interrupted, ram, capsule, manifest, slot>>

MappedAsAsked(p) ==
    \/ helper[p].verb \in {"attach", "attach_ro"} /\ Exists(helper[p].name)
    \/ helper[p].verb = "detach" /\ ~Exists(helper[p].name)

HelperFinishes(p) ==
    /\ child[p] = "running"
    /\ MappedAsAsked(p)
    /\ child' = [child EXCEPT ![p] = "ok"]
    /\ UNCHANGED <<mapper, helper, interrupted, ram, capsule, manifest, slot>>

HelperFails(p) ==
    /\ child[p] = "running"
    /\ child' = [child EXCEPT ![p] = "failed"]
    /\ UNCHANGED <<mapper, helper, interrupted, ram, capsule, manifest, slot>>

HelperStep(p) ==
    HelperAttaches(p) \/ HelperDetaches(p) \/ HelperFinishes(p) \/ HelperFails(p)

-----------------------------------------------------------------------------
(***************************************************************************)
(* RamSecret.  new() makes the directory and then mounts; when the mount   *)
(* fails the value is dropped, which removes the directory or leaves it.   *)
(* cleanup() unmounts and removes the directory; each of the two may fail, *)
(* and a failure stops it there.                                           *)
(***************************************************************************)
RamNew(p) == ram' = [ram EXCEPT ![p] = "mounted"]
RamNewFails(p, left) == ram' = [ram EXCEPT ![p] = left]

RamCleanup(p) == ram' = [ram EXCEPT ![p] = "none"]
RamCleanupFails(p) ==
    /\ ram[p] # "none"
    /\ \E left \in {"dir", ram[p]} : ram' = [ram EXCEPT ![p] = left]

\* read_exact from /dev/mapper/fde-combo returns what the capsule of the
\* process that created the mapping holds.
MappedSecret ==
    LET by == mapper[CAPSULE_MAP].by
    IN  IF by \in Procs THEN capsule[DirOf[by]].secret ELSE Nobody
=============================================================================
