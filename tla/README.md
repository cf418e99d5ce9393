# A TLA+ development of luks-combo-unlock

luks-combo-unlock opens a LUKS root volume with a key derived from two factors:
a secret in a small LUKS container (the *capsule*) that the TPM opens, and the
HMAC secret of a FIDO2 security key.  It is a short sequential program, and
what is hard about it is not in any one statement:

* it holds resources that outlive it (device-mapper names, a ramfs mount, a
  scratch file, a keyslot, a record of success), in functions that can return
  early from dozens of places;
* what it does to them is done by helper processes, which it kills at a deadline
  without knowing how far they came;
* a signal, a second invocation, or SIGKILL may come between any two steps;
* a person types a PIN through a keypad that changes under the fingers, and a
  security key is pulled out or answers late;
* the power may fail, and systemd stops the command when its time is over.

These modules say what must hold in spite of that, TLC checks it on small
instances, and TLAPS proves every safety property that holds for every number of
invocations, directories, keys and limits.  Paths below are relative to the
repository's root; the code is in `src/`.

## 1. The system

| component | state it keeps | operations | talks to |
|---|---|---|---|
| `unlock.rs` | `operation.lock`, the record `/run/luks-combo-unlock/unlocked`, `Resources` | `run` (unlock, verify), `device`, `Resources::cleanup`, two `Drop`s | everything below |
| `enroll.rs` | `Mapping.owned`, the state directory (`tpm.luks`, `manifest.bin`) | `run`, `Mapping::close`, its `Drop` | everything below; takes no lock |
| `process.rs` | a child, its stderr pipe, `Formatter` | `run`, `keyed`, `cleanup`, `prompt` | systemd-cryptsetup, cryptsetup, systemd-cryptenroll, systemd-ask-password |
| `secret.rs` | locked memory, a ramfs under `/run` | `Secret`, `RamSecret::{new,file,cleanup}`, `Drop` | the kernel |
| `pin.rs` | the terminal's mode, the keypad, the PIN buffer | `read`, `Entry::input`, `Terminal::{open,restore}`, `permutation` | the user |
| `fido.rs` | a device handle | `open`, `enroll`, `derive` | libfido2 |
| `disk.rs` | none | `check`, `add` (keyslot 4) | libcryptsetup |
| `crypto.rs` | none | `random`, `hash`, `derive` | OpenSSL |
| `manifest.rs` | none | `encode`, `decode`, `challenge`, `validate_uuid` | |
| `common.rs` | the signal flag | `cancelled`, `harden`, `config` and `parse_config`, `private_dir`, `read_trusted`, `atomic_write` | |
| `main.rs` | none | argument parsing, the failure message | |
| `nixos-module.nix` | none | the initrd service: started once, stopped with SIGTERM after 300 s, killed after systemd's own 90 s more | systemd |

How they interact: `unlock` and `verify` share one code path under a
non-blocking `flock`; `enroll` shares the device-mapper name `fde-combo` and the
root header with them, and no lock.  Every blocking call to a helper goes
through `process::run_inner`.  Signals 1, 2 and 15 only set a flag, which is
looked at in the loops and before a `rename`; cleanup calls ignore it.  Rust's
`?` returns from anywhere, and the drops that follow (locals in reverse order,
`Resources` or `Mapping`, `RamSecret`, last the lock file) are the error handling.

What makes each part correct:

* **unlock, verify**: what they detach is theirs; what they leave behind they
  have logged; the record is true and is never stale beside a later failure;
  the capsule is shut before the data volume is opened; secrets leave the memory
  in time; every run ends.
* **enroll**: nothing that exists is overwritten; success means that the volume
  can be unlocked with what was enrolled; a slot is added last.
* **helper supervision**: no child outlives the call; success means that the
  child succeeded and that all it said was shown; every call ends.
* **PIN entry**: the PIN returned is the one that was meant; the buffer is a C
  string without leftovers; the terminal is restored.
* **keypad**: always a permutation, and every permutation equally likely.
* **security key**: a secret that is used is that of the enrolled credential and
  was confirmed by PIN and touch for this request; a wrong PIN costs one of the
  key's tries, not two.
* **end of an enrollment**: the recovery key is what was typed; the manifest is
  never torn; what was reported as enrolled survives a loss of power.
* **service**: when the time of the unit is over, the command ends by itself, with
  the capsule shut; a stop that comes before its last look at the flag leaves neither
  a record nor a success.

## 2. The modules

| module | models | kind |
|---|---|---|
| `Host` | device-mapper names, helpers, ramfs, files, headers; the contract of a helper call; systemd-cryptsetup | shared state and operators |
| `Unlock` | `unlock.rs` `run`, `Resources`, `Drop` | extends `Host`, implements `Turns`; `Spec`, `FairSpec`; its `Kill` is used by `Combo` |
| `Turns` | what unlocks and verifications promise each other and the boot | abstract specification |
| `UnlockInv`, `UnlockProofs` | the inductive invariant of `Unlock` and theorems | extend `Unlock` |
| `Enroll` | `enroll.rs` `run`, `Mapping`, `disk::add` | extends `Host` |
| `Combo` | the three commands beside each other, and their deaths | extends `Unlock`, `Enroll`; `ComboSpec`, `ComboKillSpec`, `ComboFairSpec` |
| `EnrollInv`, `ComboInv`, `EnrollProofs` | the inductive invariants of `Combo`, of the enrollments and of the unlocks beside them, and theorems | extend `Combo` |
| `HelperCall` | what a helper call promises | abstract specification |
| `Supervisor`, `SupervisorProofs` | `process.rs` `run_inner`, `Running`, `Formatter` | implements `HelperCall` |
| `Prompt` | `process.rs` `prompt` | extended by `Commit` |
| `Manifest` | `manifest.rs` `encode`, `decode`, by their lengths | operators |
| `Commit`, `CommitProofs` | `common.rs` `atomic_write`, the end of `enroll.rs`, the look of an unlock at the files, losses of power | extends `Prompt`, `Manifest` |
| `SecurityKey`, `SecurityKeyProofs` | `fido.rs`, `unlock.rs` `device`, security keys and libfido2 | |
| `Service`, `ServiceProofs` | the time of an unlock against the unit of `nixos-module.nix` | |
| `PinEntry`, `PinEntryProofs` | `pin.rs` `Terminal`, `Entry`, `read_with_timeout`, and the user | |
| `Shuffle`, `ShuffleProofs` | `pin.rs` `permutation` | |
| `MCUnlock`, `MCCombo`, `MCCrew` | constants of the runs; `MCCrew` chooses which invocations run | |

### Host

`mapper[n]` tells who created `/dev/mapper/n` (nobody, a stranger, or an
invocation) and whether it is writable.  `helper[p]` and `child[p]` are what the
child of invocation `p` was asked to do and how it fares.  `ram[p]` is the ramfs
of `p`, `interrupted` the invocations whose signal flag is set, `capsule[d]`,
`manifest[d]` and `slot[r]` the files of a state directory and keyslot 4 of a
root device.

A secret is represented by its origin: the enrollment that generated it, or the
directory that was enrolled before.  `derive(t, m)` is the pair of what it
binds, which is what an injective key derivation gives.  The FIDO secret is
represented by the manifest whose credential yields it.

`Spawn`, `Reap` and `HelperSucceeded` are the contract of a helper call.  `Reap`
may be taken whatever the child is doing, which is the deadline and the signal;
the effect of a killed helper has happened or has not, because `HelperAttaches`
and `HelperDetaches` are separate steps from `HelperFinishes` and `HelperFails`.
systemd-cryptsetup itself is external and modelled as weakly as the code relies
on it: it may fail before or after its effect, and reports success for a name
that is already as asked.

`RamNewFails` covers the ways `RamSecret::new` fails once the directory exists;
when `private_dir` fails before that, nothing is left, which is the same outcome
as a failed mount whose directory was removed.

### Unlock

One action per stretch of `run` between two points where the outside can
interfere.  `pc[p]` names the next one, `res[p]` is the set of what `Resources`
would release, `ret[p]` what `run` has decided to return (`"none"` while it is
still deciding: it tells the explicit `cleanup()` at the end of `run` from the
one in `Drop`).  `?` is an alternative that ends in `AbortEarly` before
`Resources` exists and in `Abort` after it.  `decoded`, `pin`, `fido`, `tpm` and
`final_key` are what the locals of `run` hold; they are there for the properties
about secrets in memory and for what key goes to the helper.

| code (`src/unlock.rs`) | actions |
|---|---|
| lock, record, preexisting names | `AcquireLock`, `ClearMarker`, `CheckMappings` |
| manifest and keyslot checks, `device` | `Preflight`, `WaitKey` |
| capsule attachment | `AttachCapsule`, `AttachCapsuleReturns` |
| ramfs, PIN, assertion, TPM secret | `MakeRam`, `ReadPin`, `DeriveF`, `ReadT` |
| detach, derive the key | `DetachCapsule`, `DetachCapsuleReturns` |
| scratch file of verify, data volume | `MakeScratch`, `AttachData`, `AttachDataReturns` |
| `Resources::cleanup`, from `run` and from `Drop` | `CleanupMappings`, `CleanupRam`, `CleanupScratch`, `CleanupReturns` |
| record, drops, unlock of the lock file | `Publish`, `DropRam`, `Release` |
| signals, helpers, SIGKILL | `Outside`, `Kill` |

`Turns` abstracts all this to whose turn it is, whose record is published, who opened
the root volume and what was returned.  `TakesTurns` is the refinement: the turn is
the lock, the opener of the root volume is the owner of `cryptroot`, and a command
that is still running has returned nothing.

`Kill` releases the lock, as the kernel does, and leaves the helper running: the
code sets no parent-death signal.  `WaitKey` stands for `device`, whose states are
in `SecurityKey`.

### Enroll and Combo

`Enroll` follows `enroll.rs` in the same style; `epc` is its program counter and
`owned` is `Mapping.owned`.  `Checks` are the four steps that only look (state
directory, header, name, and key with PIN and touches).  `CreateCapsule` is
`create_new`; `WriteSecret` writes through the name *whoever mapped it*, as
opening `/dev/mapper/fde-combo` does.  `Combo` interleaves any set of unlocks,
verifications and enrollments; nothing in the code orders them but the lock of
the first two.  With `ComboKillSpec` each may die at any step.

### HelperCall and Supervisor

`Supervisor` is one call of `run_inner`: the head of the loop, the bounded reads,
the second look at the flag, `try_wait`, and the drop of `Running` on every way
out.  Beside it the child and one heir that inherits its stderr; both write and
close when they like, the child exits with either status.  A byte is a newline
or stands for one of the phrases the `Formatter` looks for.  `said` is what was
really written, so that what was shown (`logged`) can be compared with it.
`HelperCall` is the promise the callers rely on, stated over `call`, `child` and
`told`; `KeepsContract` is the refinement.

### Prompt, Manifest and Commit

`Prompt` reads the recovery key one byte at a time into a buffer of `N` bytes.  A
byte is a newline, a zero, or one of the parts that UTF-8 tells apart, and the
helper prints, closes and exits as it likes.  Every early return is `PromptFail`:
the drops of `Running`, of the pipe and of the buffer, which is erased.

`Commit` is `enroll.rs` from the creation of the capsule's name on, once more, with
the disk's view of it.  `cached` is the state directory as programs see it, `stored`
what of it is on the disk for certain; `data` and `synced` are the same for the
contents of each manifest.  `PowerLoss` keeps for each directory entry either
version, whichever it likes, and of a manifest that was not synced any part
(`Parts` are the cuts that the codec tells apart).  `Boot` is an unlock's look at the
files: the digest of the configuration is taken to be that of the last enrollment
that returned with success, since that is the one that was printed.  Assumed of
the outside: a sync of the directory also keeps the directory itself in its
parent; the capsule's data and the keyslot are durable when the tools that write
them return.  A user who removes leftovers of a failed enrollment is not modelled.
`SECURITY.md:7` allows an interrupted enrollment to leave a slot, and a loss of power
between slot and last sync can leave one without its manifest; so `SlotCanBeDerived`
is stated of running and dying programs (`Combo`) and not of this module.

### SecurityKey

One command after another, the first ones enrolling until a manifest exists.  The
HID identity that the configuration names is that of a model of key, so several
keys may match; the node that `device` found is opened later and may be another
key by then.  The answer of libfido2 is what the open key signs now or any earlier
answer again, under any credential's name, whole or not, with or without
confirmation; what the code checks is what makes it worth anything.  An enrollment
writes the manifest and adds the slot in two steps, each of which may fail; one that
ends in between leaves a manifest without a slot, which ends every later command
before it comes to the key.  Salts and challenges are new numbers.  A verification does what an unlock does here.

### Service

The phases of an unlock, each lasting any time up to its limit, with the stop at
any moment.  A phase that looks at the flag ends at the signal; a call to libfido2, a
detach and the writes at the end do not look.  Time jumps from phase to phase in
ticks of five seconds.  Assumed of the outside: a call to libfido2 takes at most
the 90 s that its callers set as its time-out, what only reads the disk takes a
moment, and systemd kills 90 s after SIGTERM (its default, which the unit keeps).
The end of `atomic_write` is three phases: up to its look at the flag, the rename,
which does not look again, and the return.  So a stop between the look and the rename
finds the record published all the same, and `StopIsHeeded` says what holds of both
sides of the look.  `Unlock`, `Enroll` and `Commit` take look and rename as one step:
they have no clock, and nothing there tells a signal after the look from one after
the rename.
When a stop meets a call to libfido2 the kill may come first, and the capsule may
stay open: `KilledOnlyAtTheKey` says that nothing else leads there.

### PinEntry and Shuffle

`PinEntry` is the reader's loop, the terminal's queue, and a user who may be
`patient` (presses a key only after the screen was redrawn) or not.  Keys carry
when they were pressed relative to the mapping on the screen.  `wanted` is what
a patient user means.  The keypad of a redraw is any permutation; that
`permutation` yields those, each as likely as the others, is what `Shuffle`
shows.

### Mutants

A definition introduced by a comment that begins with "Mutant" is used by no
specification.  It is the definition below it with a slip the code could have
had (a record that is made too late, an ignored error, a missing flush), and it
is kept to show that each property fails when the code is wrong in that way;
`PROJECT.json` pairs them with the properties.

## 3. What is checked

Deadlock is checked in every run: a state in which every invocation has returned
(or was killed) stutters explicitly, and no other state may be stuck.

| run | instance | properties | what it shows |
|---|---|---|---|
| `unlock` | two unlocks and a verification of one disk, one directory | `IInv` (with `TypeOK`), `OwnedIsOurs`, `NothingLeaks`, `CapsuleShutBeforeData`, `SecretsApart`, `TakesTurns` | the cleanup, the lock and the secrets in memory, with every early return, deadline and signal |
| `killed` | two unlocks, an unlock and a verification or an enrollment, two enrollments of one directory or of two; each killed at any step | `SlotCanBeDerived`, `OneDirectoryCanUnlock`, `RecordIsTrue`, `NoStaleRecord`, `NeverOverwrites` | a death, and the helper that outlives it, makes nobody lie or overwrite, nor leaves a slot without its key |
| `enroll_beside_unlock` | an enrollment and an unlock | `ComboTypeOK`, `NothingLeaks`, `EnrollLeaksNothing`, `EveryCommandReturns` | sharing the capsule's name without a lock leaks nothing, and both return though a helper may never end |
| `helper_call` | one call, a child and an heir, two lines | `TypeOK`, `ChildReaped`, `NothingInvented`, `KeepsContract`, `CallReturns` | the loop implements the contract `Host` assumes, and ends against a child that never stops writing |
| `pin_entry` | three digits, PINs of one or two | `TypeOK`, `ReturnsWhatWasMeant`, `NulTerminated`, `LeavesTerminalClean`, `TypeAheadIsRefused`, `ReaderReturns` | the PIN, the buffer, the terminal |
| `keypad` | six digits, bytes of 256 values | `IsPermutation`, `EvenChoice`, `ChoicesTell` | the shuffle is a bijection from equally likely choices |
| `commit` | two enrollments, a buffer of three bytes, credentials of 0, 1, 1024 or 1025 bytes | `ManifestNeverTorn`, `KeyIsWhatWasTyped`, `SuccessSurvives`, `EnrollmentEnds` | the recovery key, and what a boot finds after any losses of power |
| `service` | the limits of the code and the unit | `TimeoutIsHandled`, `KilledOnlyAtTheKey`, `StopIsHeeded` | every way to spend the time of the unit |
| `key_session` | two keys, two nodes, three commands | `SecretIsTheEnrolledOne`, `EachSecretIsConfirmed`, `OneWrongPin`, `OneTouchAfterSignal` | what an answer of a security key is worth |
| `unlock_failed` | one unlock | `FailedUnlockLeavesRootLocked` (violated) | finding 1 |
| `verify_beside_enroll` | an enrollment and a verification | `OwnedIsOurs` (violated) | finding 2 |
| `enroll_wrong_capsule` | two enrollments of one device | `EnrolledCanUnlock` (violated) | finding 3 |

Bounds, and why they are enough:

* *Invocations.*  Each action of an invocation reads the shared names, one lock
  and one record.  A conflict needs one invocation that changed them and one
  that relies on them; the third of `unlock` is there so that a lock can be
  handed on twice and a record can be succeeded by another.  For `Unlock` the
  theorems remove the bound.
* *Steps.*  Nothing is bounded: every path of `run` through both cleanup passes
  is explored, and so are signals and the deaths of helpers at every point.
* *Helper calls.*  Lines are kept to one byte, the pipe to two, a round to two
  reads of two bytes, and the deadline to one tick.  So a line can exceed the
  limit, be cut by a read, wait behind a full pipe, and arrive after the exit
  status; two lines are what it takes for a presence prompt to follow a PIN
  prompt.  `MaxLines` bounds only completed lines: the child may write for ever.
* *PIN.*  Two digits fill the buffer, so the overrun, the erasure of the last and
  of the first digit and the minimum of one are all reached; three digits are the
  fewest for which a keypad and its inverse differ.
* *Deaths.*  Two invocations at a time: the one that dies and the one that meets
  what it left.  The crews are the pairs of kinds, but two verifications, and a
  verification with an enrollment: in both an unlock in its place does the same to
  what the two share, and more.  Larger crews are the theorems' part.
* *Commit.*  Two enrollments, since the second one meets what the first left.  A
  buffer of three bytes holds a key of two, so that an empty key, a full buffer, a
  character of two bytes and one that is cut are reached; the deadline of one tick
  falls before, between and after them.  The lengths of credentials are those at
  both ends of what `decode` takes.
* *Service.*  The limits are those of the code, in ticks of five seconds; all but
  the two bounds, on the last writes and on the rename, are multiples of it.
* *Keys.*  Two keys of one model, and two nodes to exchange them; three commands are
  an enrollment that fails, one that succeeds, and an unlock, or one enrollment and
  two unlocks; two tries are enough to see a second one spent.
* *Keypad.*  Six digits give 720 keypads.  `EvenChoice` is about the bounds of
  keypads up to twice as large, so the ten digits of the program are included.

Fairness: the `FairSpec` of `Unlock` and `ComboFairSpec` assume that each invocation
keeps taking steps; those of `Supervisor`, `PinEntry` and `Commit` that their loop
runs and time passes.  The code justifies it by its deadlines: `run_inner` has one for each
helper (`src/process.rs:132`), the prompt one of 95 seconds, the PIN reader one of
90, the wait for the key one of 30, and none of the other steps waits.  That the helper call returns
is not assumed but shown, in `CallReturns`.  Nothing is assumed of helpers, of
heirs, of the user or of signals.  A killed child is taken to die; one that is
stuck in the kernel would hold up `Running`'s `wait`.

Four readings to know when reading the properties:

* `RecordIsTrue` asks that the root volume is open, and allows that a killed unlock's
  helper opened it (section 5 has the run): the helper of the unlock on record then
  reports a name that is already as asked, and the code cannot tell the two apart.

* `OneDirectoryCanUnlock` is `EnrolledCanUnlock` without the case of finding 3: it
  speaks of enrollments beside which none was started for another directory.  So does
  the part of `SlotCanBeDerived` about the key; in that case the slot may need the
  secret of a capsule in the other directory.
* `NothingLeaks` and `EnrollLeaksNothing` speak of invocations that did not log a
  cleanup error.  A detach that fails twice leaves its mapping behind, and then
  the code says so.
* `TypeAheadIsRefused` allows a key pressed with the mapping *before* the present
  one on the screen: a key struck between the read of one key and the next redraw
  waits alone in the queue and is decoded with the new mapping.  The code cannot
  tell it from a key struck after the redraw, and `ReturnsWhatWasMeant` is for that
  reason about users who wait for the redraw.

## 4. Findings

1. **A failed unlock can leave the root volume open.**  `src/main.rs:62` tells
   the user of a failed unlock to enter the recovery key at the next prompt.  A
   signal after the helper attached `cryptroot`, or an error of the cleanup or of
   the record, ends the unlock as failed with that mapping in place; `Resources`
   does not own the name.  The volume is then open with no record, and no prompt
   follows.
2. **"Each resource is ours" does not hold beside an enrollment**
   (`src/unlock.rs:71`).  `enroll` takes no lock, so it can map `fde-combo`
   between a verification's look at the name and its claim to it; the cleanup of
   the verification then detaches the enrollment's mapping.  What keeps this from
   doing more harm is `OneDirectoryCanUnlock` (run `killed`, and proved for any number
   of commands): an enrollment that is disturbed so fails rather than succeeding
   wrongly.
3. **Of two enrollments for one device, one can verify the other's capsule**
   (`README.md:12`).  Both write and read through one name.  The enrollment
   that succeeds then has a slot that its own directory does not open.

## 5. What is proved

Each table names the property of a run that the theorem states for every value of
the constants.  The assumptions are those that the modules name: configurations
are functions into the directories and devices, sentinels are not invocations, an
invocation runs one command (`CommandsAssumption`), digits are not edit keys
(`KeysAssumption`), bounds are natural numbers, a byte has at least as many values
as the keypad digits, and the limits of a unit fit (`BudgetAssumption`).  TLC
evaluates each of them for the instances of the runs.

**`UnlockProofs`**, of `Spec`: any unlocks and verifications, directories and devices.

| theorem | property |
|---|---|
| `Invariant` | `IInv` |
| `TypeCorrect` | `TypeOK` (a conjunct of `IInv`) |
| `OnlyOursDetached` | `OwnedIsOurs` |
| `CleanupComplete` | `NothingLeaks` |
| `RecordSound` | `RecordIsTrue` |
| `RecordFresh` | `NoStaleRecord` |
| `CapsuleShut` | `CapsuleShutBeforeData` |
| `SecretsKeptApart` | `SecretsApart` |
| `ImplementsTurns` | `TakesTurns` |

None of the properties is inductive.  `NothingLeaks`, say, is about a run that has
returned, and nothing in it says what was released on the way.  `UnlockInv` adds
that, in parts:

* `LockInv`: from the lock to its release, an invocation is alone;
* `HelperOK`: a child lives only while its invocation waits for it, does what that
  wait is for, and an exit status still describes the names when it is looked at;
* `OursOK`: a name that was seen free under the lock is mapped by nobody else;
* `ResOK`: what exists is in `Resources` or was logged;
* `RetOK`: what `ret` says about how far `run` came;
* `RootOpened`: an unlock that cleans up without an error so far has opened the root
  volume itself;
* `PassOK`: a cleanup pass without errors so far has released what it has passed;
* `MarkerOK`: a record of ours belongs to an unlock that succeeded;
* `Cleared`: there is no record while an unlock is under way;
* `TurnOK`: the lock is held on the way only, nothing is opened before the record is
  withdrawn, and a success that is not yet returned has its record;
* `SecretsOK`: between which two steps each secret lives.

`OursOK` needs `HelperOK` (only a live child maps a name) and `HelperOK` needs
`LockInv` (no other invocation moves the name between the exit and the look), so
they are one invariant.  The proof is modular accordingly: `TypeStep` for the
domains; `OthersStep` says what a step of one invocation cannot do to another's
part, given the lock; `OpStepInv` goes through the actions of the acting
invocation, `MapperStep` and `OutsideInv` through helpers and signals; `NextInv`
puts them together.  `TurnStep` and `TakesTurn` are about one step of one invocation
and use of the others only the lock; with `RootTurn`, which does the same for a
helper, they give the refinement of `Turns`, here and in `EnrollProofs`.  The
invariant fails once invocations are killed (a surviving helper has no invocation
that waits for it), and beside enrollments (`OursOK` is finding 2).

**`EnrollProofs`**, of the enrollments in `ComboKillSpec`: any number of them beside
any unlocks and verifications, with deaths at any step.

| theorem | property |
|---|---|
| `EnrollInvariant` | `EInv` (with `ComboTypeOK`) |
| `SlotDerivable` | `SlotCanBeDerived` |
| `SuccessCanUnlock` | `OneDirectoryCanUnlock` |
| `OverwritesNothing` | `NeverOverwrites` |
| `NothingIsLeft` | `EnrollLeaksNothing` |

`EInv` is stated so that it survives a death.  What a killed enrollment leaves is its
files and its helper, so `EffectInv` speaks of the helper (what it was asked for and
what it may still do) and not of the label of the enrollment that waits for it;
`CallInv` ties the two together while the enrollment lives.  `StepInv` says how far
the files are at each step: the capsule is this enrollment's from the step that
created it with `create_new`, sealed from the verification on, the manifest this
enrollment's from its `rename` on, which asks that there was none.  That no other
enrollment undoes it comes from the same guards.  `WritableInv` and `ReaderInv` say
who can have the shared name writable, which is what the write of the secret goes
through; with them `SecretInv` follows: as long as no other directory is enrolled,
what `verify` read was this enrollment's own capsule.  `SlotInv` keeps what that
established for the slot when the enrollment is no longer alive.  `LeakInv` is inductive beside
`EInv`: what an enrollment maps or mounts, or has a helper running to map, is known to
a guard or to a logged error, and the guards are empty at the end because a detach
that succeeded means that the name is no longer this enrollment's (`EffectInv`).

**`EnrollProofs`**, of the unlocks and verifications in the same specification.

| theorem | property | of |
|---|---|---|
| `ComboTypeCorrect` | `ComboTypeOK` | `ComboKillSpec` |
| `BesideInvariant` | `EInv` and `BesideInv` | `ComboKillSpec` |
| `CleanupBeside` | `NothingLeaks` | `ComboKillSpec` |
| `RecordFreshBeside` | `NoStaleRecord` | `ComboKillSpec` |
| `CapsuleShutBeside` | `CapsuleShutBeforeData` | `ComboKillSpec` |
| `SecretsApartBeside` | `SecretsApart` | `ComboKillSpec` |
| `RecordBeside` | `RecordIsTrue` | `ComboKillSpec` |
| `RecordSoundBeside` | opened by the unlock on record itself | `ComboSpec` |
| `TurnsBeside` | `TakesTurns` | `ComboSpec` |

`BesideInv` (in `ComboInv`) keeps of the invariant of `Unlock` what needs neither that
names are only ours nor that helpers are waited for.  `AskedOK` and `DoneOK` speak of
the helper as `EffectInv` does: what it was asked for, and, once it succeeded at a
detach, that the name is no longer its invocation's.  That is enough for `ResOK` and
`PassOK`, so what an invocation cleans up depends on nobody else.  The root volume is
different.  That nobody else opens it while an unlock is under way rests on the lock,
which orders unlocks, and on enrollments never touching that name; the helper of an
unlock that was killed heeds neither.  When an unlock is killed while its helper is
about to open `cryptroot`, a second unlock can find the name free and take the lock,
the first one's helper then opens the volume, the second one's reports success for a
name that is already as asked, and the second unlock publishes its record.  So
`RootOurs`, `RootIsOpen` and `RecordIsTrue` say that the volume was opened by the
unlock itself or for one that is `Dead`; with one configuration it is the same volume,
and everything temporary of the second is gone.  The run `killed` has two unlocks
among its crews and reaches this case.  `RecordSoundBeside` adds that without deaths
it is always the unlock's own doing, which the refinement of `Turns` needs.

**`CommitProofs`**, of `Spec`: any number of enrollments, boots and losses of power,
any size of the buffer, any output of the helper, credentials of any length.

| theorem | property |
|---|---|
| `Invariant` | `IInv` |
| `KeyIsWhole` | `KeyIsWhatWasTyped` |
| `NeverTorn` | `ManifestNeverTorn` |
| `SuccessIsDurable` | `SuccessSurvives` |

`DiskInv` is the step that the code rests on: a manifest has its name only once its
data is whole and synced, and an entry that is on the disk for certain was not
changed since.  `ProgressInv` carries it from `write` to `rename`, `SuccessInv` from
the last sync on; `SuccessUsable` shows that what an enrollment accepts as a
credential is what `decode` and `read_trusted` take.

**`PinEntryProofs`**, of `Spec`: any digits, limits and length of the queue.

| theorem | property |
|---|---|
| `Invariant` | `IInv` |
| `TypeCorrect` | `TypeOK` |
| `PinIsMeant` | `ReturnsWhatWasMeant` |
| `BufferTerminated` | `NulTerminated` |
| `TerminalClean` | `LeavesTerminalClean` |
| `NoTypeAhead` | `TypeAheadIsRefused` |

`PatientInv` says of a user who waits that the buffer holds what was meant, or will
once the one key in the queue is decoded with the mapping that is still on the
screen; `QueueInv` says when the keys in the queue were pressed, at each point of
the loop.

**`SecurityKeyProofs`** (any keys, nodes, tries and commands), **`ServiceProofs`** (any
limits that keep the budget), **`SupervisorProofs`** (any sizes and deadline) and
**`ShuffleProofs`** (any number of digits and byte values):

| module | theorem | property |
|---|---|---|
| `SecurityKeyProofs` | `Invariant` | `IInv` |
| | `SecretEnrolled` | `SecretIsTheEnrolledOne` |
| | `SecretConfirmed` | `EachSecretIsConfirmed` |
| | `OneTryOnly` | `OneWrongPin` |
| | `OneTouchOnly` | `OneTouchAfterSignal` |
| `ServiceProofs` | `Invariant` | `IInv` |
| | `TimeLimitHandled` | `TimeoutIsHandled` |
| | `KillNeedsTheKey` | `KilledOnlyAtTheKey` |
| | `StopHeeded` | `StopIsHeeded` |
| `SupervisorProofs` | `Invariant` | `ChildInv` |
| | `NoChildLeft` | `ChildReaped` |
| | `Inductive` | `IInv` of that module |
| | `TypeCorrect` | `TypeOK` |
| | `ShownInOrder` | `NothingInvented` |
| | `Implements` | `KeepsContract` |
| `ShuffleProofs` | `KeypadComplete` | `IsPermutation` |
| | `DrawsEven` | `EvenChoice` |
| | `ChoicesDiffer` | `ChoicesTell` |

*Supervisor.*  `StreamInv` says what no single state of the loop shows: if the formatter
were given what is in the pipe now, it would hold the unfinished line and would have
shown the messages of all the lines that were said.  A read keeps it because taking
bytes in two parts comes to the same as taking them at once (`InTwoReads`), a write
because a byte at the end of the pipe is one more byte said (`OneMoreByte`,
`OneMoreLine`).  `ShownInOrder` then needs that what is in the pipe can only add to what
was shown (`NothingTakenBack`), and `Implements` that the loop succeeds only after the
end of the pipe, when nothing is left in it.

These are inductions over the bytes of a read and over lines.  The library's
induction theorems cannot be instantiated here, so they go by the least
counterexample: `Smallest` takes the least element of a set of numbers from the
library's facts about well-founded orders, and the set is the lengths at which two
recursions first disagree.  For that `FormatterBytes`, `MessagesOf` and the shuffle's
`Replay` are recursive functions, which have values that satisfy their equations
because such values exist (`TakesExists`, `BuildsExists`).

*Shuffle.*  `DrawsEven` writes each accepted byte in one way as a quotient and a
remainder and counts the bytes of one remainder by a bijection with their quotients.
`ReplayInv` says of the keypads on the way, which the state does not hold, that there
are some that lead to the present one by the choices made; `OneWay` that there is no
other series of them.  So the choices can be read off the keypad, and with even draws
every keypad is equally likely.

*Only model-checked*: liveness (`EveryCommandReturns`, `CallReturns`, `ReaderReturns`,
`EnrollmentEnds`), which rests on fairness and `ENABLED` and is beyond the prover.
Every other property of a passing run is a theorem.  That `derive` is injective, that
random bytes are even and what the outside promises are assumptions of the models
and named in section 2.

## 6. What is not modelled

| left out | why |
|---|---|
| `common.rs`: the parser of the configuration, the trust in paths and owners | single tests of an input, without state; unit tests reach them |
| `manifest.rs`: the format of the UUID, the magic | the same; `decode` is modelled by the lengths it accepts |
| `crypto.rs` | ideal: `derive` is injective, random values do not collide |
| `Secret`'s `mlock` and erasure | no state that a model would tell apart; *when* a secret is dropped is modelled |
| the getters and allocations of libfido2 | their failures are part of the failures of a step |
| `main.rs`: the parsing of arguments, the wording of the log | no state; its message for a failed unlock is the subject of finding 1 |
| the order of units, the namespace, the package | systemd's and Nix's |
| `linux.rs`, `tests/terminal.py` | declarations; a test |

Two hazards have no property, and `PROJECT.json` says why: a failure after the slot
was added (`SECURITY.md` announces it), and the entry of a new state directory in its
parent (never synced; the module takes the sync of the directory to keep it).

## 7. Plan

The order is by what would hurt most if it were wrong: the commands that hold
resources first, then the loop they all wait in, then the PIN, the key, the disk and
the clock.  All models of the plan are done, and so are the proofs of the safety
properties of all of them.

What could be added:

1. `Turns` through deaths: an abstract machine in which a turn can end with an opening
   still pending; `RootOurs` and `RecordBeside` say in pieces what it would promise.
2. An abstract specification of an enrollment (nothing, capsule, manifest, slot,
   success), which `EInv` would show `Combo` to implement for one directory.
3. `RamSecret` and the scratch file under a death: what a killed command leaves is
   known to `EInv` and `BesideInv`, but no property of a run speaks of it.
