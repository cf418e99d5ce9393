--------------------------- MODULE PinEntryProofs ---------------------------
(***************************************************************************)
(* What the PIN reader of pin.rs promises, for any digits, any limits of   *)
(* the PIN and any length of the terminal's queue.                         *)
(***************************************************************************)
EXTENDS PinEntry, TLAPS

(* The parts of TypeOK that do not need sequences of a bounded length. *)
Domains ==
    /\ pc \in {"new", "open", "banner", "render", "top", "poll", "finish", "drop",
               "ok", "error"}
    /\ pin \in [0 .. MaxPin -> Digits \cup {Nul}] /\ used \in 0 .. MaxPin
    /\ map \in Maps \cup {NoMap} /\ shown \in Maps \cup {NoMap}
    /\ mode \in {"cooked", "raw"}
    /\ queue \in Seq(Press) /\ Len(queue) <= QueueSize /\ taken \in Whens
    /\ now \in 0 .. Timeout
    /\ {active, interrupted, unrestored, patient, fresh} \subseteq BOOLEAN
    /\ wanted \in Seq(Digits) /\ Len(wanted) <= MaxPin + 1

(* There is a keypad from the first draw until the entry is dropped. *)
MapInv == pc \notin {"new", "error"} => map \in Maps

(* The mode is what the Terminal says, and only a failing tcsetattr keeps  *)
(* it from being restored on the way out.                                  *)
ModeInv ==
    /\ active <=> mode = "raw"
    /\ pc \in {"new", "open", "ok"} => ~active
    /\ pc \in {"banner", "render", "top", "poll", "finish"} => active
    /\ pc = "error" => ~active \/ unrestored

(* When the keys in the queue were pressed, at each point of the loop. *)
QueueInv ==
    /\ mode = "cooked" => \A i \in DOMAIN queue : queue[i].when = "before"
    /\ pc \in {"banner", "render"} => \A i \in DOMAIN queue : queue[i].when = "now"
    /\ pc \in {"top", "poll"} => \A i \in DOMAIN queue : queue[i].when \in {"now", "late"}

(* The PIN is what a patient user means, or will be once the one key in    *)
(* the queue is decoded.                                                   *)
Entered == Len(wanted) = used /\ \A i \in 1 .. used : wanted[i] = pin[i - 1]
Pending(k) ==
    /\ k \in Digits =>
          /\ Len(wanted) = used + 1 /\ wanted[used + 1] = Decode(k)
          /\ \A i \in 1 .. used : wanted[i] = pin[i - 1]
    /\ k = "back" =>
          /\ Len(wanted) = IF used > 0 THEN used - 1 ELSE 0
          /\ \A i \in 1 .. Len(wanted) : wanted[i] = pin[i - 1]
    /\ k = "clear" => Len(wanted) = 0
    /\ k \in {"enter", "cancel"} => Entered
PatientInv ==
    patient =>
        /\ pc \in {"new", "open", "banner", "render", "finish", "ok"} =>
              ~fresh /\ Len(queue) = 0 /\ Entered
        /\ pc \in {"top", "poll"} =>
              /\ shown = map
              /\ fresh => Len(queue) = 0 /\ Entered
              /\ ~fresh => Len(queue) = 1 /\ Pending(queue[1].key)

IInv ==
    /\ Domains /\ MapInv /\ ModeInv /\ QueueInv
    /\ NulTerminated /\ TypeAheadIsRefused /\ PatientInv

USE PinAssumption, KeysAssumption

-----------------------------------------------------------------------------
LEMMA Sizes == MaxPin \in Nat /\ QueueSize \in Nat /\ Timeout \in Nat /\ QueueSize >= 1
OBVIOUS

\* An empty queue, and one that is left alone, has its type.
LEMMA QueueType ==
    ASSUME Domains, queue' = queue \/ queue' = <<>>
    PROVE  queue' \in Seq(Press) /\ Len(queue') <= QueueSize
<1>1. <<>> \in Seq(Press) /\ Len(<<>>) = 0
  OBVIOUS
<1>2. queue \in Seq(Press) /\ Len(queue) <= QueueSize
  BY DEF Domains
<1>3. CASE queue' = <<>>
  BY <1>1, <1>3, Sizes
<1>4. CASE queue' = queue
  BY <1>2, <1>4
<1> QED
  BY <1>3, <1>4

\* A keypad has a digit for every key that is one.
LEMMA DecodeType == ASSUME map \in Maps, NEW k \in Digits PROVE Decode(k) \in Digits
<1>1. \E d \in Digits : map[d] = k
  BY DEF Maps
<1> QED
  BY <1>1 DEF Decode

LEMMA InitInv == Init => IInv
<1> SUFFICES ASSUME Init PROVE IInv
  OBVIOUS
<1>1. Domains
  BY DEF Init, Domains, Blank, Whens
<1>2. NulTerminated
  BY DEF Init, NulTerminated, Blank
<1>3. PatientInv
  BY DEF Init, PatientInv, Entered
<1>4. QueueInv
  BY DEF Init, QueueInv
<1>5. MapInv /\ ModeInv /\ TypeAheadIsRefused
  BY DEF Init, MapInv, ModeInv, TypeAheadIsRefused
<1> QED
  BY <1>1, <1>2, <1>3, <1>4, <1>5 DEF IInv

\* Steps that leave everything but the clock and the flag alone.
LEMMA ClockFrame ==
    ASSUME IInv, now' \in 0 .. Timeout, interrupted' \in BOOLEAN,
           UNCHANGED <<pc, entryVars, termVars, queue, taken, unrestored, userVars>>
    PROVE  IInv'
<1> USE DEF IInv, entryVars, termVars, userVars
<1>1. Domains'
  BY DEF Domains
<1>2. MapInv' /\ ModeInv' /\ QueueInv'
  BY DEF MapInv, ModeInv, QueueInv
<1>3. NulTerminated' /\ TypeAheadIsRefused'
  BY DEF NulTerminated, TypeAheadIsRefused
<1>4. PatientInv'
  BY DEF PatientInv, Entered, Pending, Decode
<1> QED
  BY <1>1, <1>2, <1>3, <1>4

LEMMA StutterInv == IInv /\ UNCHANGED vars => IInv'
BY ClockFrame DEF vars, IInv, Domains

LEMMA NewEntryInv == IInv /\ NewEntry => IInv'
BY DEF IInv, NewEntry, DeviceFrame, Goto, termVars, userVars, Domains, MapInv, ModeInv,
       QueueInv, NulTerminated, TypeAheadIsRefused, PatientInv, Entered

LEMMA OpenInv == IInv /\ OpenTerminal => IInv'
<1> SUFFICES ASSUME IInv, OpenTerminal PROVE IInv'
  OBVIOUS
<1> USE DEF IInv, OpenTerminal, DeviceFrame, Goto, entryVars, userVars
<1>1. Domains'
  BY QueueType DEF Domains
<1>2. QueueInv'
  BY DEF QueueInv, ModeInv
<1>3. PatientInv'
  BY DEF PatientInv, Entered
<1> QED
  BY <1>1, <1>2, <1>3 DEF MapInv, ModeInv, NulTerminated, TypeAheadIsRefused

LEMMA BannerInv == IInv /\ Banner => IInv'
BY DEF IInv, Banner, DeviceFrame, Goto, entryVars, termVars, userVars, Domains, MapInv,
       ModeInv, QueueInv, NulTerminated, TypeAheadIsRefused, PatientInv, Entered

LEMMA LoopTopInv == IInv /\ LoopTop => IInv'
BY DEF IInv, LoopTop, DeviceFrame, Goto, entryVars, termVars, userVars, Domains, MapInv,
       ModeInv, QueueInv, NulTerminated, TypeAheadIsRefused, PatientInv, Entered, Pending,
       Decode

\* A redraw makes a key that waits one pressed late.
LEMMA AgedKeys ==
    ASSUME NEW q \in Seq(Press)
    PROVE  /\ Aged(q) \in Seq(Press) /\ Len(Aged(q)) = Len(q) /\ DOMAIN Aged(q) = DOMAIN q
           /\ \A i \in DOMAIN q : /\ Aged(q)[i].key = q[i].key
                                  /\ Aged(q)[i].when = Older(q[i].when)
<1>1. \A i \in 1 .. Len(q) : q[i] \in Press
  OBVIOUS
<1>2. \A w \in Whens : Older(w) \in Whens
  BY DEF Whens, Older
<1>3. \A e \in Press : /\ [e EXCEPT !.when = Older(@)] \in Press
                       /\ [e EXCEPT !.when = Older(@)].key = e.key
                       /\ [e EXCEPT !.when = Older(@)].when = Older(e.when)
  BY <1>2 DEF Press
<1>4. Aged(q) = [i \in 1 .. Len(q) |-> [q[i] EXCEPT !.when = Older(@)]]
  BY DEF Aged
<1>5. Aged(q) \in Seq(Press) /\ Len(Aged(q)) = Len(q) /\ DOMAIN Aged(q) = DOMAIN q
  BY <1>1, <1>3, <1>4
<1>6. \A i \in DOMAIN q : Aged(q)[i] = [q[i] EXCEPT !.when = Older(@)]
  BY <1>4
<1>7. ASSUME NEW i \in DOMAIN q
      PROVE  Aged(q)[i].key = q[i].key /\ Aged(q)[i].when = Older(q[i].when)
  <2>1. q[i] \in Press
    BY <1>1
  <2> QED
    BY <1>3, <1>6, <2>1
<1> QED
  BY <1>5, <1>7

LEMMA RenderInv == IInv /\ Render => IInv'
<1> SUFFICES ASSUME IInv, Render PROVE IInv'
  OBVIOUS
<1> USE DEF IInv, Render, Goto, entryVars
<1>1. queue \in Seq(Press)
  BY DEF Domains
<1>2. Domains'
  BY <1>1, AgedKeys DEF Domains, MapInv
<1>3. QueueInv'
  BY <1>1, AgedKeys DEF QueueInv, ModeInv, Older
<1>4. PatientInv'
  BY <1>1, AgedKeys DEF PatientInv, Entered
<1> QED
  BY <1>2, <1>3, <1>4 DEF MapInv, ModeInv, NulTerminated, TypeAheadIsRefused

-----------------------------------------------------------------------------
\* One key that is decoded, alone in the queue.
LEMMA InputInv ==
    ASSUME IInv, NEW k \in Keys, Len(queue) = 1, k = queue[1].key, pc = "poll", Input(k),
           taken' = queue[1].when, queue' = <<>>,
           UNCHANGED termVars, DeviceFrame
    PROVE  IInv'
<1> USE DEF IInv, Input, DeviceFrame, Goto, entryVars, termVars, userVars, Redraw
<1>1. map \in Maps /\ active /\ mode = "raw"
  BY DEF MapInv, ModeInv
<1>2. map' \in Maps
  BY <1>1 DEF EnterDigit, Erase, Keys, Edits
<1>3. pc' \in {"render", "drop", "finish"}
  BY DEF EnterDigit, Erase, Keys, Edits
<1>4. taken' \in {"now", "late"}
  BY DEF QueueInv
<1>5. pin' \in [0 .. MaxPin -> Digits \cup {Nul}] /\ used' \in 0 .. MaxPin /\ NulTerminated'
  <2>1. pin \in [0 .. MaxPin -> Digits \cup {Nul}] /\ used \in 0 .. MaxPin /\ MaxPin \in Nat
    BY DEF Domains
  <2>2. CASE k \in Digits
    <3>1. Decode(k) \in Digits /\ k \notin Edits
      BY <1>1, <2>2, DecodeType
    <3>2. CASE /\ used < MaxPin
               /\ pin' = [pin EXCEPT ![used] = Decode(k)] /\ used' = used + 1
      BY <2>1, <3>1, <3>2 DEF NulTerminated
    <3> QED
      BY <2>1, <2>2, <3>1, <3>2 DEF EnterDigit, Edits, NulTerminated
  <2>3. CASE k = "back"
    BY <2>1, <2>3, SMTT(30) DEF Erase, Edits, NulTerminated
  <2>4. CASE k \in {"clear", "enter", "cancel"}
    BY <2>1, <2>4, SMTT(30) DEF Edits, Blank, NulTerminated
  <2> QED
    BY <2>2, <2>3, <2>4 DEF Keys, Edits
<1>6. Domains'
  BY <1>2, <1>3, <1>4, <1>5 DEF Domains, Whens
<1>8. PatientInv'
  <2> SUFFICES ASSUME patient, pc' \in {"render", "finish"}
               PROVE  ~fresh' /\ Len(queue') = 0 /\ Entered'
    BY <1>3 DEF PatientInv
  <2>1. ~fresh /\ Pending(k)
    BY DEF PatientInv
  <2>2. CASE k \in Digits
    <3>1. Decode(k) \in Digits /\ k \notin Edits
      BY <1>1, <2>2, DecodeType
    <3>2. used < MaxPin /\ pin' = [pin EXCEPT ![used] = Decode(k)] /\ used' = used + 1
      BY <2>2, <3>1 DEF EnterDigit, Edits
    <3>3. pin \in [0 .. MaxPin -> Digits \cup {Nul}] /\ used \in 0 .. MaxPin
      BY DEF Domains
    <3> QED
      BY <2>1, <2>2, <3>2, <3>3 DEF Pending, Entered
  <2>3. CASE k = "back"
    BY <2>1, <2>3, SMTT(30) DEF Pending, Entered, Erase, Edits, Domains
  <2>4. CASE k \in {"clear", "enter", "cancel"}
    BY <2>1, <2>4, SMTT(30) DEF Pending, Entered, Edits, Domains
  <2> QED
    BY <2>2, <2>3, <2>4 DEF Keys, Edits
<1> QED
  BY <1>1, <1>2, <1>3, <1>4, <1>5, <1>6, <1>8
     DEF MapInv, ModeInv, QueueInv, TypeAheadIsRefused

LEMMA PollInv == IInv /\ Poll => IInv'
<1> SUFFICES ASSUME IInv, Poll PROVE IInv'
  OBVIOUS
<1>1. pc = "poll" /\ UNCHANGED termVars /\ DeviceFrame
  BY DEF Poll
<1>2. CASE pc' \in {"top", "drop"} /\ UNCHANGED <<entryVars, queue, taken>>
  BY <1>1, <1>2
     DEF IInv, DeviceFrame, entryVars, termVars, userVars, Domains, MapInv, ModeInv,
         QueueInv, NulTerminated, TypeAheadIsRefused, PatientInv, Entered, Pending, Decode
<1>3. CASE /\ Len(queue) = 1 /\ Input(queue[1].key)
           /\ taken' = queue[1].when /\ queue' = <<>>
  <2>1. queue[1].key \in Keys
    <3>1. queue \in Seq(Press)
      BY DEF IInv, Domains
    <3>2. Len(queue) = 1
      BY <1>3
    <3>3. queue[1] \in Press
      BY <3>1, <3>2
    <3> QED
      BY <3>3 DEF Press
  <2> QED
    BY <1>1, <1>3, <2>1, InputInv
<1>4. CASE pc' = "drop" /\ queue' = <<>> /\ UNCHANGED <<entryVars, taken>>
  BY <1>1, <1>4
     DEF IInv, DeviceFrame, entryVars, termVars, userVars, Domains, MapInv, ModeInv,
         QueueInv, NulTerminated, TypeAheadIsRefused, PatientInv
<1> QED
  BY <1>2, <1>3, <1>4 DEF Poll, Goto

LEMMA LeaveInv == IInv /\ Leave => IInv'
<1> SUFFICES ASSUME IInv, Leave PROVE IInv'
  OBVIOUS
<1> USE DEF IInv, Leave, Restore, Restored, Goto, entryVars, termVars, userVars
<1>1. Domains'
  <2>1. pin' \in [0 .. MaxPin -> Digits \cup {Nul}] /\ used' \in 0 .. MaxPin
    BY DEF Domains, Blank
  <2>2. map' \in Maps \cup {NoMap} /\ shown' \in Maps \cup {NoMap}
    BY DEF Domains
  <2>3. queue' \in Seq(Press) /\ Len(queue') <= QueueSize
    <3>1. queue' = queue \/ queue' = <<>>
      OBVIOUS
    <3> QED
      BY <3>1, QueueType
  <2> QED
    BY <2>1, <2>2, <2>3 DEF Domains
<1>2. NulTerminated'
  BY DEF NulTerminated, Blank
<1>3. ModeInv'
  BY DEF ModeInv
<1>4. QueueInv'
  BY DEF QueueInv
<1>5. PatientInv'
  BY DEF PatientInv, Entered
<1> QED
  BY <1>1, <1>2, <1>3, <1>4, <1>5 DEF MapInv, TypeAheadIsRefused

-----------------------------------------------------------------------------
\* A key that a patient user presses is the only one in the queue.
LEMMA PressInv == ASSUME NEW k \in Keys PROVE IInv /\ ~Returned /\ UserPresses(k) => IInv'
<1> SUFFICES ASSUME IInv, ~Returned, UserPresses(k) PROVE IInv'
  OBVIOUS
<1> DEFINE e == [key |-> k, when |-> IF mode = "raw" THEN "now" ELSE "before"]
<1> USE DEF IInv, UserPresses, entryVars, termVars
<1>1. e \in Press /\ e.key = k /\ e.when = IF mode = "raw" THEN "now" ELSE "before"
  BY DEF Press, Whens
<1>2. queue \in Seq(Press) /\ queue' = Append(queue, e)
  BY DEF Domains
<1> HIDE DEF e
<1>3. /\ queue' \in Seq(Press) /\ Len(queue') = Len(queue) + 1
      /\ DOMAIN queue' = 1 .. Len(queue) + 1 /\ DOMAIN queue = 1 .. Len(queue)
      /\ queue'[Len(queue) + 1] = e
      /\ \A i \in 1 .. Len(queue) : queue'[i] = queue[i]
  BY <1>1, <1>2
<1>4. QueueInv'
  <2>1. \A i \in DOMAIN queue' : queue'[i] = e \/ (i \in DOMAIN queue /\ queue'[i] = queue[i])
    BY <1>2, <1>3
  <2> QED
    BY <1>1, <2>1 DEF QueueInv, ModeInv
<1>5. patient => pc \in {"top", "poll", "drop"} /\ fresh
  BY DEF Returned, Domains, PatientInv
<1>6. patient /\ pc \in {"top", "poll"} => shown = map /\ map \in Maps /\ Len(queue) = 0 /\ Entered
  BY <1>5 DEF PatientInv, MapInv
<1>7. wanted' \in Seq(Digits) /\ Len(wanted') <= MaxPin + 1
  <2>1. CASE ~patient
    BY <2>1 DEF Domains
  <2>2. CASE patient
    <3>1. shown \in Maps /\ wanted \in Seq(Digits) /\ Len(wanted) <= MaxPin
      BY <2>2 DEF Domains
    <3>2. k \in Digits => (CHOOSE d \in Digits : shown[d] = k) \in Digits
      BY <3>1 DEF Maps
    <3> QED
      BY <2>2, <3>1, <3>2 DEF Meant, Keys, Edits
  <2> QED
    BY <2>1, <2>2
<1>8. Domains'
  <2>1. Len(queue') <= QueueSize
    BY <1>2, <1>3
  <2> QED
    BY <1>3, <1>7, <2>1 DEF Domains
<1>9. PatientInv'
  <2> SUFFICES ASSUME patient, pc \in {"top", "poll"}
               PROVE  shown' = map' /\ ~fresh' /\ Len(queue') = 1 /\ Pending(k)'
    BY <1>1, <1>3, <1>5, <1>6 DEF PatientInv
  <2>1. wanted' = Meant(k) /\ shown = map /\ Len(queue) = 0 /\ Entered
    BY <1>6
  <2>2. wanted \in Seq(Digits) /\ used \in 0 .. MaxPin
    BY DEF Domains
  <2>3. CASE k \in Digits
    <3>1. wanted' = Append(wanted, Decode(k))
      <4>1. Meant(k) = Append(wanted, CHOOSE d \in Digits : shown[d] = k)
        BY <2>3, k \notin Edits DEF Meant, Edits
      <4> QED
        BY <2>1, <4>1 DEF Decode
    <3>2. Decode(k)' = Decode(k) /\ Decode(k) \in Digits
      BY <1>6, <2>3, DecodeType DEF Decode
    <3> QED
      BY <1>3, <2>1, <2>2, <2>3, <3>1, <3>2 DEF Pending, Entered, Edits
  <2>4. CASE k \in Edits
    BY <1>3, <2>1, <2>2, <2>4 DEF Pending, Entered, Edits, Meant
  <2> QED
    BY <2>3, <2>4 DEF Keys
<1> QED
  BY <1>4, <1>8, <1>9 DEF MapInv, ModeInv, NulTerminated, TypeAheadIsRefused

LEMMA SignalInv == IInv /\ Signal => IInv'
BY ClockFrame DEF Signal, IInv, Domains

LEMMA TickInv == IInv /\ Tick => IInv'
BY ClockFrame, Sizes DEF Tick, IInv, Domains

LEMMA NextInv == IInv /\ [Next]_vars => IInv'
<1> SUFFICES ASSUME IInv, [Next]_vars PROVE IInv'
  OBVIOUS
<1>1. CASE ReaderStep
  BY <1>1, NewEntryInv, OpenInv, BannerInv, RenderInv, LoopTopInv, PollInv, LeaveInv
     DEF ReaderStep
<1>2. CASE ~Returned /\ \E k \in Keys : UserPresses(k)
  BY <1>2, PressInv
<1>3. CASE Signal \/ Tick
  BY <1>3, SignalInv, TickInv
<1>4. CASE UNCHANGED vars
  BY <1>4, StutterInv
<1> QED
  BY <1>1, <1>2, <1>3, <1>4 DEF Next

(***************************************************************************)
(* The inductive invariant of the reader, the user and the terminal's      *)
(* queue, whatever is typed, fails or is signalled (pin.rs,                *)
(* read_with_timeout).                                                     *)
(***************************************************************************)
THEOREM Invariant == Spec => []IInv
BY InitInv, NextInv, PTL DEF Spec

(***************************************************************************)
(* The PIN stays in its buffer and every other variable in its domain      *)
(* (pin.rs, Entry and Terminal).                                           *)
(***************************************************************************)
THEOREM TypeCorrect == Spec => []TypeOK
<1>1. ASSUME NEW S, NEW q \in Seq(S), NEW n \in Nat, Len(q) <= n
      PROVE  q \in SeqUpto(S, n)
  <2>1. Len(q) \in 0 .. n /\ q \in [1 .. Len(q) -> S]
    BY <1>1
  <2> QED
    BY <2>1 DEF SeqUpto
<1>2. IInv => TypeOK
  BY <1>1 DEF IInv, Domains, TypeOK
<1> QED
  BY <1>2, Invariant, PTL

(***************************************************************************)
(* A user who waits for each redraw gets back the PIN that was meant,      *)
(* however many digits and keypads there are (pin.rs, Entry::input and     *)
(* render).                                                                *)
(***************************************************************************)
THEOREM PinIsMeant == Spec => []ReturnsWhatWasMeant
<1>1. IInv => ReturnsWhatWasMeant
  BY DEF IInv, PatientInv, Entered, ReturnsWhatWasMeant
<1> QED
  BY <1>1, Invariant, PTL

(***************************************************************************)
(* The buffer of any length stays a C string without leftovers (pin.rs,    *)
(* Entry::input).                                                          *)
(***************************************************************************)
THEOREM BufferTerminated == Spec => []NulTerminated
<1>1. IInv => NulTerminated
  BY DEF IInv
<1> QED
  BY <1>1, Invariant, PTL

(***************************************************************************)
(* The terminal and its queue are clean whenever the reader has returned   *)
(* and the system let it restore them (pin.rs, Terminal::restore).         *)
(***************************************************************************)
THEOREM TerminalClean == Spec => []LeavesTerminalClean
<1>1. IInv => LeavesTerminalClean
  BY DEF IInv, Domains, ModeInv, QueueInv, Returned, LeavesTerminalClean
<1> QED
  BY <1>1, Invariant, PTL

(***************************************************************************)
(* No key is decoded that was pressed before the terminal was opened or    *)
(* two keypads ago, however long the queue is (pin.rs, read_with_timeout). *)
(***************************************************************************)
THEOREM NoTypeAhead == Spec => []TypeAheadIsRefused
<1>1. IInv => TypeAheadIsRefused
  BY DEF IInv
<1> QED
  BY <1>1, Invariant, PTL
=============================================================================
