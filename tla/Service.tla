------------------------------- MODULE Service -------------------------------
(***************************************************************************)
(* The time of one unlock under systemd: the phases of unlock::run with    *)
(* the limits of each (unlock.rs, pin.rs, fido.rs, process.rs), of which   *)
(* some look at the signal flag and some do not (common.rs, harden), and   *)
(* the unit that starts the command, stops it with SIGTERM after a time,   *)
(* and after some more time kills it (nixos-module.nix).                   *)
(*                                                                         *)
(* A step takes any time up to its limit; one that looks at the flag ends  *)
(* at the signal.  What takes no more than a moment takes no time.         *)
(***************************************************************************)
EXTENDS Integers

CONSTANTS
    DEVICE,   \* unlock::device waits for a security key (30 s)
    CAPSULE,  \* process::run attaches the capsule (25 s)
    FIDO,     \* one call to libfido2 (90 s)
    PIN,      \* pin::read (90 s)
    KEYED,    \* process::keyed attaches the root volume (30 s)
    DETACH,   \* process::cleanup (10 s)
    WRITE,    \* bound: the unmount of the ramfs, and the record under its pending name
    RENAME,   \* bound: the rename of the record, and what follows it
    START,    \* TimeoutStartSec of the unit (300 s)
    STOP      \* systemd's own TimeoutStopSec, which the unit leaves at 90 s

ASSUME ServiceAssumption ==
    {DEVICE, CAPSULE, FIDO, PIN, KEYED, DETACH, WRITE, RENAME, START, STOP} \subseteq Nat

\* The phases up to the touch fit into the time before the kill, with the
\* capsule still to be closed, and so does any other phase after the signal.
ASSUME BudgetAssumption ==
    /\ DEVICE + CAPSULE + FIDO + PIN + FIDO + DETACH <= START + STOP
    /\ DETACH + DETACH <= STOP /\ WRITE <= STOP /\ RENAME + RENAME <= STOP

VARIABLES
    pc,       \* the phase of the command
    clock,    \* time since the unit started
    stop,     \* when systemd sends SIGTERM, START at the latest
    at,       \* the phase that the signal met, "none" before
    capsule,  \* "shut", "open", or "reported": its last detach has failed
    record,   \* when the record was published, or NoRecord
    result    \* what the command returned, "none" before

vars == <<pc, clock, stop, at, capsule, record, result>>

Limit == [start |-> 0, device |-> DEVICE, capsule |-> CAPSULE, open |-> FIDO, pin |-> PIN,
          assert |-> FIDO, detach |-> DETACH, attach |-> KEYED,
          publish |-> WRITE, rename |-> RENAME, return |-> RENAME, drop |-> DETACH]
Phases == DOMAIN Limit
Never == START + STOP
NoRecord == -1

TypeOK ==
    /\ pc \in Phases \cup {"over", "killed"}
    /\ clock \in 0 .. Never /\ stop \in 0 .. START
    /\ at \in Phases \cup {"none"}
    /\ capsule \in {"shut", "open", "reported"}
    /\ record \in 0 .. Never \cup {NoRecord} /\ result \in {"none", "ok", "error"}

Init ==
    /\ pc = "start" /\ clock = 0 /\ stop \in 0 .. START /\ at = "none"
    /\ capsule = "shut" /\ record = NoRecord /\ result = "none"

-----------------------------------------------------------------------------
\* Phase p ends at time t.
End(p, t) ==
    /\ pc = p /\ clock' = t
    /\ clock <= t /\ t <= clock + Limit[p] /\ t <= stop + STOP
    /\ at' = IF at = "none" /\ stop < t THEN p ELSE at
    /\ UNCHANGED stop

\* What looks at the flag sees it within a moment, and fails.
InTime(t) == t <= stop
Seen(t) == t <= stop \/ t = clock

\* An early return: Resources are dropped, which detaches an owned capsule.
Fail(owned) ==
    IF owned THEN pc' = "drop" /\ UNCHANGED <<capsule, record, result>>
             ELSE pc' = "over" /\ result' = "error" /\ UNCHANGED <<capsule, record>>
Proceed(p) == pc' = p /\ UNCHANGED <<capsule, record, result>>

\* harden installs the handlers; a signal before that ends the process.
Start ==
    \E t \in 0 .. Never :
        End("start", t) /\ ((InTime(t) /\ Proceed("device")) \/ Fail(FALSE))

\* A key that is found ends the wait without a look at the flag.
Device ==
    \E t \in 0 .. Never :
        /\ End("device", t) /\ Seen(t)
        /\ \/ pc' = "capsule" /\ capsule' = "open" /\ UNCHANGED <<record, result>>
           \/ Fail(FALSE)

\* The capsule is owned from before the helper starts.
Capsule ==
    \E t \in 0 .. Never :
        End("capsule", t) /\ ((InTime(t) /\ Proceed("open")) \/ (Seen(t) /\ Fail(TRUE)))

\* libfido2 does not look at the flag.
Open == \E t \in 0 .. Never : End("open", t) /\ (Proceed("pin") \/ Fail(TRUE))

\* Mutant: the reader of the PIN does not look at the flag.
PinDeaf == \E t \in 0 .. Never : End("pin", t) /\ (Proceed("assert") \/ Fail(TRUE))
Pin ==
    \E t \in 0 .. Never :
        End("pin", t) /\ ((InTime(t) /\ Proceed("assert")) \/ (Seen(t) /\ Fail(TRUE)))

\* Mutant: an assertion is made again when the first one fails.
AssertTwice ==
    \E t \in 0 .. Never :
        End("assert", t) /\ ((InTime(t) /\ Proceed("detach")) \/ Fail(TRUE) \/ Proceed("assert"))
\* fido::Device::derive looks at the flag once the assertion is there.
Assert ==
    \E t \in 0 .. Never :
        End("assert", t) /\ ((InTime(t) /\ Proceed("detach")) \/ Fail(TRUE))

\* process::cleanup does not look at the flag either.
Detach ==
    \E t \in 0 .. Never :
        /\ End("detach", t)
        /\ \/ pc' = "attach" /\ capsule' = "shut" /\ UNCHANGED <<record, result>>
           \/ Fail(TRUE)

Attach ==
    \E t \in 0 .. Never :
        End("attach", t) /\ ((InTime(t) /\ Proceed("publish")) \/ (Seen(t) /\ Fail(FALSE)))

\* Mutant: atomic_write does not look at the flag.
PublishAnyway == \E t \in 0 .. Never : End("publish", t) /\ (Proceed("rename") \/ Fail(FALSE))
\* A look at the flag, the cleanup, and atomic_write up to its look at it.
Publish ==
    \E t \in 0 .. Never :
        End("publish", t) /\ ((InTime(t) /\ Proceed("rename")) \/ Fail(FALSE))

\* The rename does not look again: a stop that comes now finds it done.
Rename ==
    \E t \in 0 .. Never :
        /\ End("rename", t)
        /\ \/ pc' = "return" /\ record' = t /\ UNCHANGED <<capsule, result>>
           \/ Fail(FALSE)

\* From the rename to the exit nothing fails any more.
Return ==
    \E t \in 0 .. Never :
        End("return", t) /\ pc' = "over" /\ result' = "ok" /\ UNCHANGED <<capsule, record>>

Drop ==
    \E t \in 0 .. Never :
        /\ End("drop", t)
        /\ pc' = "over" /\ result' = "error" /\ capsule' \in {"shut", "reported"}
        /\ UNCHANGED record

\* A step that looks at the flag is not still waiting when it is killed.
Deaf == {"open", "assert", "detach", "publish", "rename", "return", "drop"}
Kill ==
    /\ pc \in Deaf /\ clock + Limit[pc] > stop + STOP
    /\ pc' = "killed" /\ clock' = stop + STOP
    /\ at' = IF at = "none" THEN pc ELSE at
    /\ UNCHANGED <<stop, capsule, record, result>>

Over == pc \in {"over", "killed"} /\ UNCHANGED vars

Next ==
    \/ Start \/ Device \/ Capsule \/ Open \/ Pin \/ Assert \/ Detach \/ Attach
    \/ Publish \/ Rename \/ Return \/ Drop \/ Kill \/ Over

Spec == Init /\ [][Next]_vars

-----------------------------------------------------------------------------
(***************************************************************************)
(* The limits of one unlock add up to more than the 300 seconds of the     *)
(* unit.  When these run out the command still ends by itself before it is *)
(* killed, and with the capsule shut or its detach reported, so that the   *)
(* prompt for the recovery key follows a finished unlock (nixos-module.nix,*)
(* TimeoutStartSec; unlock.rs, Resources).                                 *)
(***************************************************************************)
TimeoutIsHandled ==
    /\ stop = START => pc # "killed"
    /\ pc = "over" => capsule # "open"

(***************************************************************************)
(* An earlier stop is followed by a kill, which may leave the capsule      *)
(* open, only if it met the command in a call to libfido2: anything else   *)
(* gives way to the signal in time (common.rs, INTERRUPTED).               *)
(***************************************************************************)
KilledOnlyAtTheKey == pc = "killed" => at \in {"open", "assert"}

(***************************************************************************)
(* A stop that comes before atomic_write's last look at the flag, in       *)
(* whatever phase, leaves no record.  One that comes later is overtaken:   *)
(* the record is there within the time of a rename, the capsule is shut,   *)
(* and the command is left the time to report its success (common.rs,      *)
(* cancelled and atomic_write; unlock.rs, the end of run).                 *)
(***************************************************************************)
StopIsHeeded ==
    /\ record # NoRecord =>
          /\ at \in {"none", "rename", "return"}
          /\ record <= stop + RENAME
          /\ capsule = "shut" /\ pc # "killed" /\ result # "error"
    /\ result = "ok" => record # NoRecord
=============================================================================
