----------------------------- MODULE Supervisor -----------------------------
(***************************************************************************)
(* One call of process::run, keyed or cleanup: run_inner polls the child's *)
(* stderr through a nonblocking pipe and the child's status, under a       *)
(* deadline and, unless it is a cleanup, the signal flag; Running kills    *)
(* and reaps the child on every other way out.  Formatter cuts the bytes   *)
(* into lines and chooses the message each line stands for.                *)
(*                                                                         *)
(* A byte is "nl" or stands for what recognizing a line depends on: "pin"  *)
(* and "touch" for the two phrases looked for, "text" for anything else.   *)
(***************************************************************************)
EXTENDS Naturals, Sequences

CONSTANTS
    LINE_LIMIT,  \* bytes of a line that are kept (4096 in the code)
    ReadSize,    \* the buffer of one read (4096)
    Reads,       \* reads in one round of the loop (16)
    PipeSize,    \* what the pipe holds before a writer blocks (64 KiB)
    Timeout,     \* the deadline, in ticks after the call started
    MaxLines     \* bound: lines the child and its heirs complete

ASSUME BoundsAssumption ==
    {LINE_LIMIT, ReadSize, Reads, PipeSize, Timeout} \subseteq Nat \ {0} /\ MaxLines \in Nat

Bytes == {"nl", "pin", "touch", "text"}
Messages == {"PIN", "TOUCH", "AUTH"}

VARIABLES
    pc,            \* where the call is
    cancellable,   \* FALSE for process::cleanup
    interrupted,   \* the signal flag
    now,           \* ticks since the call started
    left,          \* reads left in this round
    eof,           \* whether this round saw the end of the pipe
    status,        \* the child: not yet, alive, or how it ended
    reaped,        \* whether the child's status was collected
    writers,       \* who still holds the write end of the pipe
    pipe,          \* bytes written and not yet read
    pending,       \* Formatter: the line being collected
    pinRequested,  \* Formatter: whether the PIN phrase was seen
    logged,        \* the messages shown
    said,          \* the lines the writers have completed
    saying         \* the line they are in, as far as it matters

callerVars == <<cancellable, now, interrupted>>
formVars == <<pending, pinRequested, logged>>
childVars == <<status, reaped, writers, said, saying>>
vars == <<pc, cancellable, interrupted, now, left, eof, status, reaped, writers,
          pipe, pending, pinRequested, logged, said, saying>>

Polling == {"top", "read", "after", "trywait"}
Line == UNION {[1 .. n -> Bytes \ {"nl"}] : n \in 0 .. LINE_LIMIT}
Upto(S, n) == UNION {[1 .. k -> S] : k \in 0 .. n}

TypeOK ==
    /\ pc \in {"start", "drop", "kill", "reap", "ok", "error"} \cup Polling
    /\ {cancellable, interrupted, eof, reaped, pinRequested} \subseteq BOOLEAN
    /\ now \in 0 .. Timeout /\ left \in 0 .. Reads
    /\ status \in {"none", "running", "success", "failure"}
    /\ writers \subseteq {"child", "heir"}
    /\ pipe \in Upto(Bytes, PipeSize)
    /\ {pending, saying} \subseteq Line
    /\ logged \in Upto(Messages, MaxLines + 1)
    /\ said \in Upto(Line, MaxLines)

Init ==
    /\ pc = "start"
    /\ cancellable \in BOOLEAN
    /\ interrupted \in BOOLEAN
    /\ now = 0 /\ left = 0 /\ eof = FALSE
    /\ status = "none" /\ reaped = FALSE /\ writers = {}
    /\ pipe = <<>> /\ pending = <<>> /\ pinRequested = FALSE /\ logged = <<>>
    /\ said = <<>> /\ saying = <<>>

-----------------------------------------------------------------------------
Cancelled == cancellable /\ interrupted
In(line, b) == \E i \in DOMAIN line : line[i] = b

\* Mutant: the line that was recognized is not cleared.
FormatterLineKept(f) ==
    LET m == IF In(f.pending, "pin") THEN <<"PIN">>
             ELSE IF In(f.pending, "touch")
                  THEN IF f.asked THEN <<"TOUCH">> ELSE <<>>
             ELSE IF f.pending = <<>> THEN <<>> ELSE <<"AUTH">>
    IN  [f EXCEPT !.asked = f.asked \/ In(f.pending, "pin"), !.logged = @ \o m]

\* Formatter as a record, so that the bytes of a read can be folded over it.
FormatterLine(f) ==
    LET m == IF In(f.pending, "pin") THEN <<"PIN">>
             ELSE IF In(f.pending, "touch")
                  THEN IF f.asked THEN <<"TOUCH">> ELSE <<>>
             ELSE IF f.pending = <<>> THEN <<>> ELSE <<"AUTH">>
    IN  [pending |-> <<>>,
         asked |-> f.asked \/ In(f.pending, "pin"),
         logged |-> f.logged \o m]

\* Mutant: a line of any length is kept.
FormatterByteUnbounded(f, b) ==
    IF b = "nl" THEN FormatterLine(f) ELSE [f EXCEPT !.pending = Append(@, b)]

FormatterByte(f, b) ==
    IF b = "nl" THEN FormatterLine(f)
    ELSE IF Len(f.pending) < LINE_LIMIT
         THEN [f EXCEPT !.pending = Append(@, b)]
         ELSE f

Formatter == [pending |-> pending, asked |-> pinRequested, logged |-> logged]
FormatterBytes(f, bytes) ==
    LET after[i \in 0 .. Len(bytes)] ==
          IF i = 0 THEN f ELSE FormatterByte(after[i - 1], bytes[i])
    IN  after[Len(bytes)]
SetFormatter(f) ==
    /\ pending' = f.pending /\ pinRequested' = f.asked /\ logged' = f.logged

-----------------------------------------------------------------------------
\* A call that is cancelled or cannot spawn its child fails; the pipe's end in
\* the parent is made nonblocking before the first look at it.
Call ==
    /\ pc = "start"
    /\ \/ /\ ~Cancelled
          /\ status' = "running" /\ writers' = {"child"}
          /\ (pc' = "top" \/ pc' = "drop")
       \/ pc' = "error" /\ UNCHANGED <<status, writers>>
    /\ UNCHANGED <<callerVars, left, eof, reaped, pipe, formVars, said, saying>>

\* The head of the loop: the signal flag, then the deadline.
Poll ==
    /\ pc = "top"
    /\ IF Cancelled \/ now >= Timeout
       THEN pc' = "drop" /\ UNCHANGED <<left, eof>>
       ELSE pc' = "read" /\ left' = Reads /\ eof' = FALSE
    /\ UNCHANGED <<callerVars, childVars, pipe, formVars>>

MinOf(a, b) == IF a < b THEN a ELSE b

\* Mutant: a round reads for as long as there is something to read.
ReadAll ==
    /\ pc = "read"
    /\ \/ /\ pipe # <<>>
          /\ LET n == MinOf(ReadSize, Len(pipe))
             IN  /\ SetFormatter(FormatterBytes(Formatter, SubSeq(pipe, 1, n)))
                 /\ pipe' = SubSeq(pipe, n + 1, Len(pipe))
          /\ UNCHANGED <<pc, left, eof>>
       \/ /\ pipe = <<>>
          /\ eof' = (writers = {}) /\ pc' = "after"
          /\ UNCHANGED <<left, pipe, formVars>>
       \/ pc' = "drop" /\ UNCHANGED <<left, eof, pipe, formVars>>
    /\ UNCHANGED <<callerVars, childVars>>

\* One nonblocking read: bytes, the end of the pipe, nothing yet, interrupted by
\* a signal, or an error.
Read ==
    /\ pc = "read"
    /\ \/ /\ left > 0 /\ pipe # <<>>
          /\ LET n == MinOf(ReadSize, Len(pipe))
             IN  /\ SetFormatter(FormatterBytes(Formatter, SubSeq(pipe, 1, n)))
                 /\ pipe' = SubSeq(pipe, n + 1, Len(pipe))
          /\ left' = left - 1
          /\ UNCHANGED <<pc, eof>>
       \/ /\ left > 0 /\ pipe = <<>> /\ writers = {}
          /\ eof' = TRUE /\ pc' = "after" /\ left' = 0
          /\ UNCHANGED <<pipe, formVars>>
       \/ /\ left = 0 \/ (pipe = <<>> /\ writers # {})
          /\ pc' = "after" /\ left' = 0
          /\ UNCHANGED <<eof, pipe, formVars>>
       \/ left > 0 /\ left' = left - 1 /\ UNCHANGED <<pc, eof, pipe, formVars>>
       \/ left > 0 /\ pc' = "drop" /\ left' = 0 /\ UNCHANGED <<eof, pipe, formVars>>
    /\ UNCHANGED <<callerVars, childVars>>

Recheck ==
    /\ pc = "after"
    /\ pc' = IF Cancelled THEN "drop" ELSE "trywait"
    /\ UNCHANGED <<callerVars, left, eof, childVars, pipe, formVars>>

\* Mutant: success is returned as soon as the child has exited.
TryWaitHasty ==
    /\ pc = "trywait"
    /\ \/ /\ status = "failure"
          /\ reaped' = TRUE /\ pc' = "drop"
          /\ SetFormatter(FormatterLine(Formatter))
       \/ /\ status = "success"
          /\ reaped' = TRUE /\ pc' = "ok"
          /\ SetFormatter(FormatterLine(Formatter))
       \/ /\ status = "running"
          /\ pc' = "top" /\ UNCHANGED <<reaped, formVars>>
       \/ pc' = "drop" /\ UNCHANGED <<reaped, formVars>>
    /\ eof' = FALSE
    /\ UNCHANGED <<callerVars, left, status, writers, pipe, said, saying>>

\* A failed child fails the call at once; a successful one ends it only when
\* this round has seen the end of the pipe; otherwise it sleeps and goes on.
TryWait ==
    /\ pc = "trywait"
    /\ \/ /\ status = "failure"
          /\ reaped' = TRUE /\ pc' = "drop"
          /\ SetFormatter(FormatterLine(Formatter))
       \/ /\ status = "success" /\ eof
          /\ reaped' = TRUE /\ pc' = "ok"
          /\ SetFormatter(FormatterLine(Formatter))
       \/ /\ status = "success" /\ ~eof
          /\ reaped' = TRUE /\ pc' = "top" /\ UNCHANGED formVars
       \/ /\ status = "running"
          /\ pc' = "top" /\ UNCHANGED <<reaped, formVars>>
       \/ pc' = "drop" /\ UNCHANGED <<reaped, formVars>>
    /\ eof' = FALSE
    /\ UNCHANGED <<callerVars, left, status, writers, pipe, said, saying>>

\* Mutant: the child is killed and not waited for.
DropWithoutWait ==
    /\ pc = "drop"
    /\ pc' = "error"
    /\ IF status = "running"
       THEN status' = "failure" /\ writers' = writers \ {"child"} /\ UNCHANGED reaped
       ELSE reaped' = TRUE /\ UNCHANGED <<status, writers>>
    /\ UNCHANGED <<callerVars, left, eof, pipe, formVars, said, saying>>

\* Drop of Running: look once more, else kill and wait.
DropRunning ==
    /\ \/ /\ pc = "drop"
          /\ IF status = "running" THEN pc' = "kill" /\ UNCHANGED reaped
                                   ELSE pc' = "error" /\ reaped' = TRUE
          /\ UNCHANGED <<status, writers>>
       \/ /\ pc = "kill"
          /\ pc' = "reap"
          /\ IF status = "running"
             THEN status' = "failure" /\ writers' = writers \ {"child"}
             ELSE UNCHANGED <<status, writers>>
          /\ UNCHANGED reaped
       \/ /\ pc = "reap" /\ status # "running"
          /\ pc' = "error" /\ reaped' = TRUE
          /\ UNCHANGED <<status, writers>>
    /\ UNCHANGED <<callerVars, left, eof, pipe, formVars, said, saying>>

\* The parent's end of the pipe, a local of the call, is dropped before Running.
Closed == pc \in {"drop", "kill", "reap", "ok", "error"}

CallStep == Call \/ Poll \/ Read \/ Recheck \/ TryWait \/ DropRunning

-----------------------------------------------------------------------------
\* The child and a process it leaves behind with the same stderr: they write,
\* and each may end at any time.
Write(b) ==
    /\ writers # {} /\ ~Closed
    /\ Len(pipe) < PipeSize
    /\ pipe' = Append(pipe, b)
    /\ IF b = "nl"
       THEN /\ Len(said) < MaxLines
            /\ said' = Append(said, saying) /\ saying' = <<>>
       ELSE /\ saying' = IF Len(saying) < LINE_LIMIT THEN Append(saying, b) ELSE saying
            /\ UNCHANGED said
    /\ UNCHANGED <<pc, callerVars, left, eof, status, reaped, writers, formVars>>

Fork ==
    /\ status = "running" /\ "child" \in writers /\ "heir" \notin writers
    /\ writers' = writers \cup {"heir"}
    /\ UNCHANGED <<pc, callerVars, left, eof, status, reaped, pipe, formVars, said, saying>>

\* The status becomes visible only after the descriptors were closed.
Close(w) ==
    /\ w \in writers
    /\ writers' = writers \ {w}
    /\ UNCHANGED <<pc, callerVars, left, eof, status, reaped, pipe, formVars, said, saying>>

Exit ==
    /\ status = "running" /\ "child" \notin writers
    /\ status' \in {"success", "failure"}
    /\ UNCHANGED <<pc, callerVars, left, eof, reaped, writers, pipe, formVars, said, saying>>

Signal ==
    /\ ~interrupted /\ interrupted' = TRUE
    /\ UNCHANGED <<pc, cancellable, now, left, eof, childVars, pipe, formVars>>

Tick ==
    /\ now < Timeout /\ now' = now + 1
    /\ UNCHANGED <<pc, cancellable, interrupted, left, eof, childVars, pipe, formVars>>

Returned == pc \in {"ok", "error"}

Next ==
    \/ CallStep
    \/ \E b \in Bytes : Write(b)
    \/ Fork \/ Exit \/ Signal \/ Tick
    \/ \E w \in writers : Close(w)
    \/ Returned /\ UNCHANGED vars

Spec == Init /\ [][Next]_vars

(***************************************************************************)
(* The program is scheduled and time passes; the child, what it leaves     *)
(* behind and the signals owe nothing.  A killed child dies within the     *)
(* step that kills it.                                                     *)
(***************************************************************************)
FairSpec == Spec /\ WF_vars(CallStep) /\ WF_vars(Tick)

-----------------------------------------------------------------------------
(***************************************************************************)
(* No call returns with its child running or unreaped, on any of its ways  *)
(* out (process.rs, Running and deadline_kills_and_reaps_child).           *)
(***************************************************************************)
ChildReaped == Returned => status = "none" \/ (status # "running" /\ reaped)

\* The messages of a sequence of lines, told line by line: a presence prompt
\* counts only after a PIN was asked for.
MessageOf(lines, i) ==
    IF In(lines[i], "pin") THEN <<"PIN">>
    ELSE IF In(lines[i], "touch")
         THEN IF \E j \in 1 .. i - 1 : In(lines[j], "pin") THEN <<"TOUCH">> ELSE <<>>
    ELSE IF lines[i] = <<>> THEN <<>> ELSE <<"AUTH">>
MessagesOf(lines) ==
    LET upto[i \in 0 .. Len(lines)] ==
          IF i = 0 THEN <<>> ELSE upto[i - 1] \o MessageOf(lines, i)
    IN  upto[Len(lines)]
AllLines == IF saying = <<>> THEN said ELSE Append(said, saying)
Expected == MessagesOf(AllLines)

(***************************************************************************)
(* What a call has shown so far is what its helper said first: nothing is  *)
(* made up, repeated or reordered (process.rs, Formatter).                 *)
(***************************************************************************)
NothingInvented ==
    pc \notin {"drop", "kill", "reap", "error"} =>
        /\ Len(logged) <= Len(Expected)
        /\ logged = SubSeq(Expected, 1, Len(logged))

\* The contract that the rest of the program relies on.
Contract ==
    INSTANCE HelperCall WITH
        call <- CASE pc = "start" -> "idle" [] pc = "ok" -> "ok"
                  [] pc = "error" -> "error" [] OTHER -> "running",
        child <- IF Returned /\ reaped THEN "reaped" ELSE status,
        told <- logged = Expected

(***************************************************************************)
(* The loop of run_inner implements the contract of HelperCall, whatever   *)
(* the child, its heirs, the clock and the signals do: success means a     *)
(* child that ended with success and was reaped, and every message of it   *)
(* shown, in order and each once, however the bytes were cut into reads    *)
(* (process.rs, the drain to the end of the pipe before Ok).               *)
(***************************************************************************)
KeepsContract == Contract!CallSpec

(***************************************************************************)
(* Every call returns, even when the child never ends, never closes its    *)
(* stderr and never stops talking (process.rs, the deadline and the bound  *)
(* on the reads of a round).                                               *)
(***************************************************************************)
CallReturns == <>Returned
=============================================================================
