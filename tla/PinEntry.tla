------------------------------ MODULE PinEntry ------------------------------
(***************************************************************************)
(* The PIN reader of pin.rs: Entry decodes the keys through a mapping that *)
(* is drawn anew after every digit and edit, Terminal switches /dev/tty to *)
(* raw mode and back, read_with_timeout polls for one key at a time.       *)
(*                                                                         *)
(* Beside it the user, who looks at the mapping on the screen and presses  *)
(* keys at any moment, and the terminal's input queue between the two.     *)
(***************************************************************************)
EXTENDS Naturals, Sequences

CONSTANTS
    Digits,     \* 0 .. 9 in the code
    MaxPin,     \* digits that fit before the final NUL (63)
    MinPin,     \* digits that may be submitted (4)
    QueueSize,  \* bound: keys waiting in the terminal
    Timeout,    \* the deadline, in ticks
    Nul         \* the zero byte

ASSUME PinAssumption ==
    /\ {MaxPin, MinPin, QueueSize, Timeout} \subseteq Nat \ {0}
    /\ MinPin <= MaxPin
    /\ Nul \notin Digits

\* "cancel" is Esc, Ctrl-C or Ctrl-D, and every byte that has no meaning.
Edits == {"back", "clear", "enter", "cancel"}
Keys == Digits \cup Edits
ASSUME KeysAssumption == Digits \cap Edits = {}

\* map[d] is the key to press for the digit d.
Maps == {m \in [Digits -> Digits] : \A k \in Digits : \E d \in Digits : m[d] = k}
NoMap == [d \in {} |-> Nul]

VARIABLES
    pc,           \* where read_with_timeout is
    pin, used, map,  \* Entry
    active,       \* Terminal.active
    mode,         \* the line discipline: "cooked" or "raw"
    shown,        \* the mapping on the screen
    queue,        \* keys pressed and not read, with when they were pressed
    taken,        \* when the last key decoded was pressed
    interrupted, now,
    unrestored,   \* whether tcsetattr refused to restore the terminal
    patient,      \* whether the user waits for the screen to be redrawn
    fresh,        \* redrawn since the last key
    wanted        \* the PIN a patient user means to have entered

entryVars == <<pin, used, map>>
termVars == <<active, mode, shown>>
userVars == <<patient, fresh, wanted>>
vars == <<pc, entryVars, termVars, queue, taken, interrupted, now, unrestored, userVars>>

\* Pressed before the reader opened the terminal, with the present mapping on
\* the screen, with the one before it, or with an older one.
Whens == {"before", "now", "late", "stale"}
Press == [key : Keys, when : Whens]
Blank == [i \in 0 .. MaxPin |-> Nul]
SeqUpto(S, n) == UNION {[1 .. k -> S] : k \in 0 .. n}

TypeOK ==
    /\ pc \in {"new", "open", "banner", "render", "top", "poll", "finish", "drop",
               "ok", "error"}
    /\ pin \in [0 .. MaxPin -> Digits \cup {Nul}] /\ used \in 0 .. MaxPin
    /\ map \in Maps \cup {NoMap} /\ shown \in Maps \cup {NoMap}
    /\ mode \in {"cooked", "raw"}
    /\ queue \in SeqUpto(Press, QueueSize) /\ taken \in Whens
    /\ now \in 0 .. Timeout
    /\ {active, interrupted, unrestored, patient, fresh} \subseteq BOOLEAN
    /\ wanted \in SeqUpto(Digits, MaxPin + 1)

Init ==
    /\ pc = "new"
    /\ pin = Blank /\ used = 0 /\ map = NoMap
    /\ active = FALSE /\ mode = "cooked" /\ shown = NoMap
    /\ queue = <<>> /\ taken = "now"
    /\ interrupted = FALSE /\ now = 0 /\ unrestored = FALSE
    /\ patient \in BOOLEAN /\ fresh = FALSE /\ wanted = <<>>

-----------------------------------------------------------------------------
Goto(l) == pc' = l
DeviceFrame == UNCHANGED <<interrupted, now, unrestored, userVars>>

\* Entry::new: an empty PIN and a first mapping, or no randomness.
NewEntry ==
    /\ pc = "new"
    /\ \/ map' \in Maps /\ Goto("open")
       \/ Goto("error") /\ UNCHANGED map
    /\ UNCHANGED <<pin, used, termVars, queue, taken>> /\ DeviceFrame

\* Mutant: the mode is changed without discarding what was typed before.
OpenWithoutFlush ==
    /\ pc = "open"
    /\ \/ /\ mode' = "raw" /\ active' = TRUE
          /\ Goto("banner")
       \/ Goto("drop") /\ UNCHANGED <<mode, active>>
    /\ UNCHANGED <<entryVars, shown, queue, taken>> /\ DeviceFrame

\* Not a foreground terminal, or tcsetattr fails; else raw mode, which
\* discards what was typed before.
OpenTerminal ==
    /\ pc = "open"
    /\ \/ /\ mode' = "raw" /\ active' = TRUE /\ queue' = <<>>
          /\ Goto("banner")
       \/ Goto("drop") /\ UNCHANGED <<mode, active, queue>>
    /\ UNCHANGED <<entryVars, shown, taken>> /\ DeviceFrame

Banner ==
    /\ pc = "banner"
    /\ Goto("render") \/ Goto("drop")
    /\ UNCHANGED <<entryVars, termVars, queue, taken>> /\ DeviceFrame

\* Keys that were waiting were pressed with an older mapping in sight.
Older(w) == CASE w = "now" -> "late" [] w = "late" -> "stale" [] OTHER -> w
Aged(q) == [i \in DOMAIN q |-> [q[i] EXCEPT !.when = Older(@)]]

Render ==
    /\ pc = "render"
    /\ \/ /\ shown' = map /\ fresh' = TRUE /\ queue' = Aged(queue)
          /\ Goto("top")
       \/ Goto("drop") /\ UNCHANGED <<shown, fresh, queue>>
    /\ UNCHANGED <<entryVars, active, mode, taken, interrupted, now, unrestored,
                   patient, wanted>>

\* Mutant: only a signal ends the loop.
LoopForever ==
    /\ pc = "top"
    /\ Goto(IF interrupted THEN "drop" ELSE "poll")
    /\ UNCHANGED <<entryVars, termVars, queue, taken>> /\ DeviceFrame

LoopTop ==
    /\ pc = "top"
    /\ Goto(IF interrupted \/ now >= Timeout THEN "drop" ELSE "poll")
    /\ UNCHANGED <<entryVars, termVars, queue, taken>> /\ DeviceFrame

\* Mutant: the mapping is read the wrong way round.
DecodeInverse(k) == map[k]

\* The position of a key in the mapping is the digit it stands for.
Decode(k) == CHOOSE d \in Digits : map[d] = k

Redraw == (map' \in Maps /\ Goto("render")) \/ (Goto("drop") /\ UNCHANGED map)

\* Mutant: the place of the final NUL is given away.
EnterDigitOver(k) ==
    /\ pin' = [pin EXCEPT ![used] = Decode(k)] /\ used' = used + 1
    /\ Redraw
EnterDigit(k) ==
    \/ /\ used < MaxPin
       /\ pin' = [pin EXCEPT ![used] = Decode(k)] /\ used' = used + 1
       /\ Redraw
    \/ /\ used = MaxPin
       /\ Goto("drop") /\ UNCHANGED entryVars

\* Mutant: the digit stays behind the end.
EraseShallow ==
    /\ used' = IF used > 0 THEN used - 1 ELSE 0
    /\ UNCHANGED pin
    /\ Redraw
Erase ==
    /\ IF used > 0 THEN used' = used - 1 /\ pin' = [pin EXCEPT ![used - 1] = Nul]
                   ELSE UNCHANGED <<pin, used>>
    /\ Redraw

\* Entry::input
Input(k) ==
    \/ k \in Digits /\ EnterDigit(k)
    \/ k = "back" /\ Erase
    \/ /\ k = "clear"
       /\ pin' = Blank /\ used' = 0
       /\ Redraw
    \/ /\ k = "enter"
       /\ Goto(IF used < MinPin THEN "drop" ELSE "finish") /\ UNCHANGED entryVars
    \/ /\ k = "cancel"
       /\ Goto("drop") /\ UNCHANGED entryVars

\* poll and read: nothing (after 100 ms, or a signal came), a lost terminal,
\* one key, or several at once, which are refused.
Poll ==
    /\ pc = "poll"
    /\ \/ Goto("top") /\ UNCHANGED <<entryVars, queue, taken>>
       \/ Goto("drop") /\ UNCHANGED <<entryVars, queue, taken>>
       \/ /\ Len(queue) = 1
          /\ Input(queue[1].key)
          /\ taken' = queue[1].when /\ queue' = <<>>
       \/ /\ Len(queue) > 1
          /\ Goto("drop") /\ queue' = <<>> /\ UNCHANGED <<entryVars, taken>>
    /\ UNCHANGED termVars /\ DeviceFrame

\* Mutant: the settings are restored without discarding input.
RestoredOnly == active' = FALSE /\ mode' = "cooked" /\ queue' = queue
\* tcsetattr discards queued input as it restores the saved settings; the
\* escape sequence written before it may have failed.
Restored == active' = FALSE /\ mode' = "cooked" /\ queue' = <<>>

\* On the way out of a failure the Terminal is dropped, then the Entry, whose
\* PIN is erased.
Restore ==
    \/ /\ pc = "finish"
       /\ \/ Restored /\ shown' = NoMap /\ Goto("ok")
          \/ Restored /\ UNCHANGED shown /\ Goto("drop")
          \/ Goto("drop") /\ UNCHANGED <<termVars, queue>>
       /\ UNCHANGED <<entryVars, unrestored>>
    \/ /\ pc = "drop"
       /\ Goto("error")
       /\ pin' = Blank /\ used' = 0 /\ map' = NoMap
       /\ \/ /\ active /\ Restored /\ shown' \in {NoMap, shown}
             /\ UNCHANGED unrestored
          \/ /\ active /\ unrestored' = TRUE /\ UNCHANGED <<termVars, queue>>
          \/ ~active /\ UNCHANGED <<termVars, queue, unrestored>>

Leave ==
    /\ Restore
    /\ UNCHANGED <<taken, interrupted, now, userVars>>

ReaderStep ==
    NewEntry \/ OpenTerminal \/ Banner \/ Render \/ LoopTop \/ Poll \/ Leave

-----------------------------------------------------------------------------
Returned == pc \in {"ok", "error"}

\* What the user means by a key, given what is on the screen.
Meant(k) ==
    CASE k \in Digits -> Append(wanted, CHOOSE d \in Digits : shown[d] = k)
      [] k = "back" -> SubSeq(wanted, 1, Len(wanted) - 1)
      [] k = "clear" -> <<>>
      [] OTHER -> wanted

UserPresses(k) ==
    /\ Len(queue) < QueueSize
    /\ patient => fresh /\ shown # NoMap /\ Len(wanted) <= MaxPin
    /\ wanted' = IF patient THEN Meant(k) ELSE wanted
    /\ fresh' = FALSE
    /\ queue' = Append(queue, [key |-> k, when |-> IF mode = "raw" THEN "now" ELSE "before"])
    /\ UNCHANGED <<pc, entryVars, termVars, taken, interrupted, now, unrestored, patient>>

Signal ==
    /\ ~interrupted /\ interrupted' = TRUE
    /\ UNCHANGED <<pc, entryVars, termVars, queue, taken, now, unrestored, userVars>>

Tick ==
    /\ now < Timeout /\ now' = now + 1
    /\ UNCHANGED <<pc, entryVars, termVars, queue, taken, interrupted, unrestored, userVars>>

Next ==
    \/ ReaderStep
    \/ ~Returned /\ ((\E k \in Keys : UserPresses(k)) \/ Signal \/ Tick)
    \/ Returned /\ UNCHANGED vars

Spec == Init /\ [][Next]_vars
FairSpec == Spec /\ WF_vars(ReaderStep) /\ WF_vars(Tick)

-----------------------------------------------------------------------------
(***************************************************************************)
(* A PIN that is returned to a user who waited for each redraw is the PIN  *)
(* that user meant, through any digits, erasures and clearings and any     *)
(* mappings in between (pin.rs, Entry::input and render).                  *)
(***************************************************************************)
ReturnsWhatWasMeant ==
    pc = "ok" /\ patient =>
        /\ Len(wanted) = used
        /\ \A i \in 1 .. used : pin[i - 1] = wanted[i]

(***************************************************************************)
(* The buffer is always a NUL-terminated string of exactly the digits      *)
(* entered: nothing of an erased or cleared PIN is left behind the end,    *)
(* and the last byte is never used (pin.rs, Entry::input; fido.rs passes   *)
(* the buffer as a C string).                                              *)
(***************************************************************************)
NulTerminated ==
    /\ \A i \in 0 .. MaxPin : pin[i] = Nul <=> i >= used
    /\ pin[MaxPin] = Nul

(***************************************************************************)
(* However the reader returns, the terminal has its settings back, unless  *)
(* the system refused to restore them, and no key pressed for the reader   *)
(* is left in the queue for the recovery prompt (pin.rs, restore).         *)
(***************************************************************************)
LeavesTerminalClean ==
    Returned /\ ~unrestored =>
        /\ mode = "cooked" /\ ~active
        /\ \A i \in DOMAIN queue : queue[i].when = "before"

(***************************************************************************)
(* Keys typed ahead are not believed: a key that is decoded was pressed    *)
(* after the reader opened the terminal and no earlier than the mapping    *)
(* before the one it is decoded with (SECURITY.md, "rejects batched        *)
(* input"; pin.rs, the flush on opening and the read of a single key).     *)
(***************************************************************************)
TypeAheadIsRefused == taken \in {"now", "late"}

(* The reader returns even if keys never cease or never come, and leaves   *)
(* the terminal (pin.rs, the deadline of 90 seconds).                      *)
ReaderReturns == <>Returned
=============================================================================
