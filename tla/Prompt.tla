------------------------------- MODULE Prompt -------------------------------
(***************************************************************************)
(* process::prompt: the existing recovery key, read byte by byte from the  *)
(* stdout of systemd-ask-password into a locked buffer, under a deadline   *)
(* of its own.  A byte is "nl", "nul", or stands for what UTF-8 tells      *)
(* apart: a character of one byte, or the two parts of a longer one.       *)
(***************************************************************************)
EXTENDS Naturals, Sequences

CONSTANTS
    N,         \* the size of the buffer (1024)
    Deadline,  \* of the prompt, in ticks after its start (95 s)
    MaxBytes   \* bound: bytes the helper prints

ASSUME PromptAssumption ==
    N \in Nat \ {0, 1} /\ Deadline \in Nat \ {0} /\ MaxBytes \in Nat

Bytes == {"char", "lead", "cont", "nul", "nl"}

VARIABLES
    ppc,          \* where the call is
    pin,          \* the buffer; pin[1] is the first byte
    used,         \* bytes of the key so far
    ended,        \* whether the end of the line was seen
    now,          \* ticks since the call started
    interrupted,  \* the signal flag
    asker,        \* the helper: not yet, alive, or how it ended
    reaped,       \* whether its status was collected
    open,         \* whether it still holds its end of the pipe
    printed,      \* what it has written, of which the first
    taken         \* bytes were read from the pipe

bufferVars == <<pin, used, ended>>
askerVars == <<asker, reaped, open, printed, taken>>
promptVars == <<ppc, bufferVars, now, interrupted, askerVars>>

Zero == [i \in 1 .. N |-> "nul"]

PromptTypeOK ==
    /\ ppc \in {"idle", "start", "top", "read", "wait", "ok", "error"}
    /\ pin \in [1 .. N -> Bytes] /\ used \in 0 .. N - 1
    /\ now \in 0 .. Deadline
    /\ {ended, interrupted, reaped, open} \subseteq BOOLEAN
    /\ asker \in {"none", "running", "success", "failure"}
    /\ printed \in Seq(Bytes) /\ Len(printed) <= MaxBytes
    /\ taken \in 0 .. Len(printed)

PromptInit ==
    /\ ppc = "idle" /\ pin = Zero /\ used = 0 /\ ended = FALSE
    /\ now = 0 /\ interrupted = FALSE
    /\ asker = "none" /\ reaped = FALSE /\ open = FALSE
    /\ printed = <<>> /\ taken = 0

-----------------------------------------------------------------------------
\* Every early return drops Running, which kills and reaps a child that is
\* still alive, the pipe with what is in it, and the buffer, which is erased.
PromptFail ==
    /\ ppc' = "error"
    /\ pin' = Zero /\ used' = 0 /\ ended' = FALSE
    /\ asker' = IF asker = "running" THEN "failure" ELSE asker
    /\ reaped' = (asker # "none") /\ open' = FALSE
    /\ printed' = <<>> /\ taken' = 0

\* The flag, the helper with its stdout made nonblocking, a zeroed buffer.
PromptCall ==
    /\ ppc = "start"
    /\ \/ /\ ~interrupted
          /\ ppc' = "top" /\ asker' = "running" /\ open' = TRUE
          /\ UNCHANGED <<bufferVars, reaped, printed, taken>>
       \/ PromptFail
    /\ UNCHANGED <<now, interrupted>>

\* Mutant: the loop looks only at the flag.
PromptTopPatient ==
    /\ ppc = "top"
    /\ \/ interrupted /\ PromptFail
       \/ /\ ~interrupted
          /\ ppc' = (IF ended THEN "wait" ELSE "read")
          /\ UNCHANGED <<bufferVars, askerVars>>
    /\ UNCHANGED <<now, interrupted>>

PromptTop ==
    /\ ppc = "top"
    /\ \/ (interrupted \/ now >= Deadline) /\ PromptFail
       \/ /\ ~interrupted /\ now < Deadline
          /\ ppc' = (IF ended THEN "wait" ELSE "read")
          /\ UNCHANGED <<bufferVars, askerVars>>
    /\ UNCHANGED <<now, interrupted>>

\* The newline is replaced by a zero and ends the reading; a byte that would
\* take the place of that zero, and a zero, are refused.
PromptByte(b) ==
    \/ /\ b = "nl"
       /\ pin' = [pin EXCEPT ![used + 1] = "nul"] /\ ended' = TRUE /\ ppc' = "wait"
       /\ UNCHANGED <<used, asker, reaped, open, printed>> /\ taken' = taken + 1
    \/ /\ b # "nl" /\ (used = N - 1 \/ b = "nul")
       /\ PromptFail
    \/ /\ b # "nl" /\ used < N - 1 /\ b # "nul"
       /\ pin' = [pin EXCEPT ![used + 1] = b] /\ used' = used + 1 /\ ppc' = "top"
       /\ UNCHANGED <<ended, asker, reaped, open, printed>> /\ taken' = taken + 1

\* One byte; the end of the pipe or an error of the read; or nothing for now,
\* which a signal can also be the reason of.
PromptRead ==
    /\ ppc = "read"
    /\ \/ taken < Len(printed) /\ PromptByte(printed[taken + 1])
       \/ PromptFail
       \/ /\ open \/ taken < Len(printed)
          /\ ppc' = "top" /\ UNCHANGED <<bufferVars, askerVars>>
    /\ UNCHANGED <<now, interrupted>>

ValidUtf8(s) ==
    \A i \in DOMAIN s :
        /\ s[i] = "lead" => i < Len(s) /\ s[i + 1] = "cont"
        /\ s[i] = "cont" => i > 1 /\ s[i - 1] = "lead"

Key == SubSeq(pin, 1, used)

\* Mutant: the key is taken as soon as its line is complete.
PromptWaitHasty ==
    /\ ppc = "wait"
    /\ \/ used > 0 /\ ValidUtf8(Key) /\ ppc' = "ok" /\ reaped' = TRUE
          /\ UNCHANGED <<bufferVars, asker, open, printed, taken>>
       \/ PromptFail
    /\ UNCHANGED <<now, interrupted>>

\* Once the line is complete the helper must exit with success; nothing more
\* is read from it.
PromptWait ==
    /\ ppc = "wait"
    /\ \/ /\ asker = "success" /\ used > 0 /\ ValidUtf8(Key)
          /\ ppc' = "ok" /\ reaped' = TRUE
          /\ UNCHANGED <<bufferVars, asker, open, printed, taken>>
       \/ asker = "running" /\ ppc' = "top" /\ UNCHANGED <<bufferVars, askerVars>>
       \/ PromptFail
    /\ UNCHANGED <<now, interrupted>>

PromptStep == PromptCall \/ PromptTop \/ PromptRead \/ PromptWait

-----------------------------------------------------------------------------
\* systemd-ask-password prints what it likes, and exits, or not.
AskerPrints(b) ==
    /\ asker = "running" /\ open /\ Len(printed) < MaxBytes
    /\ printed' = Append(printed, b)
    /\ UNCHANGED <<ppc, bufferVars, now, interrupted, asker, reaped, open, taken>>

AskerEnds ==
    /\ asker = "running"
    /\ open' = FALSE /\ asker' \in {"running", "success", "failure"}
    /\ UNCHANGED <<ppc, bufferVars, now, interrupted, reaped, printed, taken>>

PromptTick ==
    /\ ppc \in {"top", "read", "wait"} /\ now < Deadline
    /\ now' = now + 1
    /\ UNCHANGED <<ppc, bufferVars, interrupted, askerVars>>

PromptOutside == (\E b \in Bytes : AskerPrints(b)) \/ AskerEnds \/ PromptTick

-----------------------------------------------------------------------------
(***************************************************************************)
(* The key that a prompt returns is exactly the first line its helper      *)
(* printed, whole, without a zero and in valid UTF-8, ended by a zero in   *)
(* the buffer, and the helper had succeeded: nothing cut off at a full     *)
(* buffer, a closed pipe or a deadline is ever offered to the root header. *)
(* A prompt that fails keeps nothing.  Either way the helper is gone       *)
(* (process.rs, prompt).                                                   *)
(***************************************************************************)
KeyIsWhatWasTyped ==
    /\ ppc = "ok" =>
         /\ asker = "success" /\ reaped
         /\ used \in 1 .. Len(printed) - 1
         /\ printed[used + 1] = "nl" /\ pin[used + 1] = "nul"
         /\ Key = SubSeq(printed, 1, used)
         /\ \A i \in 1 .. used : printed[i] \notin {"nl", "nul"}
         /\ ValidUtf8(Key)
    /\ ppc = "error" => pin = Zero /\ asker # "running" /\ (asker # "none" => reaped)
=============================================================================
