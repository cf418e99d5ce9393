-------------------------- MODULE SupervisorProofs --------------------------
(***************************************************************************)
(* A helper call keeps the contract of HelperCall for every size of its    *)
(* pipe, its lines and its reads, and every deadline: what becomes of its  *)
(* child, and what it shows of the child's bytes.  The second needs the    *)
(* fold of Formatter over the bytes of a read and the recursion of         *)
(* MessagesOf over the lines, each by induction: a least counterexample    *)
(* is ruled out.                                                           *)
(***************************************************************************)
EXTENDS Supervisor, WellFoundedInduction, TLAPS

(* How the child fares at each point of the call. *)
ChildInv ==
    /\ pc \in {"start", "drop", "kill", "reap", "ok", "error"} \cup Polling
    /\ status \in {"none", "running", "success", "failure"} /\ reaped \in BOOLEAN
    /\ reaped => status \in {"success", "failure"}
    /\ pc = "start" => status = "none" /\ writers = {}
    /\ pc \in Polling \cup {"drop", "kill", "reap"} => status # "none"
    /\ pc = "reap" => status # "running"
    /\ pc = "ok" => status = "success" /\ reaped
    /\ pc = "error" => status = "none" \/ reaped

LEMMA InitInv == Init => ChildInv
BY DEF Init, ChildInv, Polling

LEMMA NextInv == ChildInv /\ [Next]_vars => ChildInv'
<1> SUFFICES ASSUME ChildInv, [Next]_vars PROVE ChildInv'
  OBVIOUS
<1> USE DEF ChildInv, Polling, callerVars, childVars
<1>1. CASE Call
  BY <1>1 DEF Call
<1>2. CASE Poll
  BY <1>2 DEF Poll
<1>3. CASE Read
  BY <1>3 DEF Read
<1>4. CASE Recheck
  BY <1>4 DEF Recheck
<1>5. CASE TryWait
  <2>1. /\ pc = "trywait" /\ pc' \in {"drop", "ok", "top"} /\ status' = status
        /\ (reaped' = reaped) \/ (reaped' = TRUE /\ status \in {"success", "failure"})
        /\ pc' = "ok" => status = "success" /\ reaped'
    BY <1>5 DEF TryWait
  <2>2. reaped' \in BOOLEAN /\ (reaped' => status' \in {"success", "failure"})
    <3>1. CASE reaped' = reaped
      BY <2>1, <3>1
    <3>2. CASE reaped' = TRUE /\ status \in {"success", "failure"}
      BY <2>1, <3>2
    <3> QED
      BY <2>1, <3>1, <3>2
  <2>3. status' \in {"running", "success", "failure"}
    BY <2>1
  <2> QED
    BY <2>1, <2>2, <2>3
<1>6. CASE DropRunning
  BY <1>6 DEF DropRunning
<1>7. CASE \E b \in Bytes : Write(b)
  BY <1>7 DEF Write
<1>8. CASE Fork
  BY <1>8 DEF Fork
<1>9. CASE \E w \in writers : Close(w)
  BY <1>9 DEF Close
<1>10. CASE Exit
  BY <1>10 DEF Exit
<1>11. CASE Signal \/ Tick
  BY <1>11 DEF Signal, Tick
<1>12. CASE UNCHANGED vars
  BY <1>12 DEF vars
<1> QED
  BY <1>1, <1>2, <1>3, <1>4, <1>5, <1>6, <1>7, <1>8, <1>9, <1>10, <1>11, <1>12
     DEF Next, CallStep

(***************************************************************************)
(* Where a call stands tells how its child fares (process.rs, run_inner    *)
(* and Running).                                                           *)
(***************************************************************************)
THEOREM Invariant == Spec => []ChildInv
BY InitInv, NextInv, PTL DEF Spec

(***************************************************************************)
(* No call of any length leaves its child alive or unreaped (process.rs,   *)
(* Running and deadline_kills_and_reaps_child).                            *)
(***************************************************************************)
THEOREM NoChildLeft == Spec => []ChildReaped
<1>1. ChildInv => ChildReaped
  BY DEF ChildInv, ChildReaped, Returned
<1> QED
  BY <1>1, Invariant, PTL

-----------------------------------------------------------------------------
(***************************************************************************)
(* Recursion over the bytes of a read or the lines of a helper.  An        *)
(* induction is here the choice of a least counterexample; next[i] is the  *)
(* step that the recursion takes at i.                                     *)
(***************************************************************************)
LEMMA Smallest ==
    ASSUME NEW S \in SUBSET Nat, S # {}
    PROVE  \E n \in S : \A m \in S : n <= m
<1> DEFINE R == OpToRel(<, Nat)
<1>1. IsWellFoundedOn(R, Nat)
  BY NatLessThanWellFounded
<1>2. \A m, n \in Nat : m < n => <<m, n>> \in R
  BY DEF OpToRel
<1> HIDE DEF R
<1>3. PICK n \in S : \A m \in S : ~ (<<m, n>> \in R)
  BY <1>1, WFMin
<1>4. \A m \in S : ~ (m < n) /\ m \in Nat /\ n \in Nat
  BY <1>2, <1>3
<1> QED  BY <1>4

Solves(h, n, X, x0, next) ==
    h \in [0 .. n -> X] /\ h[0] = x0 /\ \A i \in 1 .. n : h[i] = next[i][h[i - 1]]

LEMMA Solution ==
    ASSUME NEW n \in Nat, NEW X, NEW x0 \in X, NEW next \in [1 .. n -> [X -> X]]
    PROVE  \E h : Solves(h, n, X, x0, next)
<1> DEFINE Upon(h, k) == h[0] = x0 /\ \A i \in 1 .. k : h[i] = next[i][h[i - 1]]
           Without == {k \in 0 .. n : ~ \E h \in [0 .. k -> X] : Upon(h, k)}
<1>1. 0 \notin Without
  <2>1. Upon([i \in 0 .. 0 |-> x0], 0)
    OBVIOUS
  <2> QED  BY <2>1
<1>2. ASSUME NEW k \in 1 .. n, k - 1 \notin Without
      PROVE  k \notin Without
  <2>1. PICK h \in [0 .. k - 1 -> X] : Upon(h, k - 1)
    BY <1>2
  <2> DEFINE g == [i \in 0 .. k |-> IF i = k THEN next[k][h[k - 1]] ELSE h[i]]
  <2>2. g \in [0 .. k -> X]
    OBVIOUS
  <2>3. \A i \in 1 .. k : g[i] = next[i][g[i - 1]]
    <3> SUFFICES ASSUME NEW i \in 1 .. k
                 PROVE  g[i] = next[i][g[i - 1]]
      OBVIOUS
    <3>1. g[i - 1] = h[i - 1]
      OBVIOUS
    <3>2. i # k => g[i] = h[i] /\ i \in 1 .. k - 1
      OBVIOUS
    <3> QED  BY <2>1, <3>1, <3>2
  <2>4. g[0] = x0
    BY <2>1
  <2> QED  BY <2>2, <2>3, <2>4
<1>3. Without = {}
  <2> SUFFICES ASSUME Without # {}
               PROVE  FALSE
    OBVIOUS
  <2>1. Without \in SUBSET Nat /\ Without \subseteq 0 .. n
    OBVIOUS
  <2> HIDE DEF Without
  <2>2. PICK k \in Without : \A m \in Without : k <= m
    BY <2>1, Smallest
  <2>3. k \in 1 .. n /\ ~ (k <= k - 1)
    BY <1>1, <2>1
  <2> QED  BY <1>2, <2>2, <2>3
<1>4. n \notin Without
  BY <1>3
<1> QED  BY <1>4 DEF Solves

StepAlike(g, h, n) ==
    g[0] = h[0] /\ \A i \in 1 .. n : g[i - 1] = h[i - 1] => g[i] = h[i]

LEMMA Agree ==
    ASSUME NEW n \in Nat, NEW g, NEW h, StepAlike(g, h, n)
    PROVE  \A i \in 0 .. n : g[i] = h[i]
<1> DEFINE Apart == {i \in 0 .. n : g[i] # h[i]}
<1>1. Apart = {}
  <2> SUFFICES ASSUME Apart # {}
               PROVE  FALSE
    OBVIOUS
  <2>1. PICK k \in Apart : \A m \in Apart : k <= m
    <3>1. Apart \in SUBSET Nat
      OBVIOUS
    <3> HIDE DEF Apart
    <3> QED  BY <3>1, Smallest
  <2>2. k \in 1 .. n /\ k - 1 \in 0 .. n /\ ~ (k <= k - 1)
    BY DEF StepAlike
  <2>3. g[k - 1] = h[k - 1]
    BY <2>1, <2>2
  <2> QED  BY <2>2, <2>3 DEF StepAlike
<1> QED  BY <1>1

-----------------------------------------------------------------------------
(***************************************************************************)
(* The bytes of a read, folded over the formatter.                         *)
(***************************************************************************)
FormatterType == [pending : Line, asked : BOOLEAN, logged : Seq(Messages)]

\* The states of the formatter while it takes bytes.
Takes(g, f, bytes) ==
    /\ g \in [0 .. Len(bytes) -> FormatterType] /\ g[0] = f
    /\ \A i \in 1 .. Len(bytes) : g[i] = FormatterByte(g[i - 1], bytes[i])

Begins(a, b) == Len(a) <= Len(b) /\ \A i \in 1 .. Len(a) : a[i] = b[i]

LEMMA UptoIs ==
    ASSUME NEW S, NEW n \in Nat, NEW s
    PROVE  s \in Upto(S, n) <=> s \in Seq(S) /\ Len(s) <= n
<1>1. ASSUME s \in Upto(S, n)
      PROVE  s \in Seq(S) /\ Len(s) <= n
  <2>1. PICK k \in 0 .. n : s \in [1 .. k -> S]
    BY <1>1 DEF Upto
  <2> QED  BY <2>1
<1>2. ASSUME s \in Seq(S), Len(s) <= n
      PROVE  s \in Upto(S, n)
  <2>1. Len(s) \in 0 .. n /\ s \in [1 .. Len(s) -> S]
    BY <1>2
  <2> QED  BY <2>1 DEF Upto
<1> QED  BY <1>1, <1>2

LEMMA Sizes ==
    /\ LINE_LIMIT \in Nat \ {0} /\ ReadSize \in Nat \ {0} /\ Reads \in Nat \ {0}
    /\ PipeSize \in Nat \ {0} /\ Timeout \in Nat \ {0} /\ MaxLines \in Nat
BY BoundsAssumption

LEMMA LineIs ==
    ASSUME NEW s
    PROVE  s \in Line <=> s \in Seq(Bytes \ {"nl"}) /\ Len(s) <= LINE_LIMIT
<1>1. Line = Upto(Bytes \ {"nl"}, LINE_LIMIT)
  BY DEF Line, Upto
<1> QED  BY <1>1, UptoIs, Sizes

LEMMA EmptyLine == <<>> \in Line /\ \A S : <<>> \in Seq(S) /\ Len(<<>>) = 0
<1>1. \A S : <<>> \in Seq(S) /\ Len(<<>>) = 0
  OBVIOUS
<1>2. <<>> \in Seq(Bytes \ {"nl"}) /\ Len(<<>>) <= LINE_LIMIT
  BY Sizes
<1> QED  BY <1>1, <1>2, LineIs

LEMMA BeginsConcat ==
    ASSUME NEW S, NEW a \in Seq(S), NEW b \in Seq(S)
    PROVE  Begins(a, a \o b) /\ a \o b \in Seq(S) /\ Len(a \o b) = Len(a) + Len(b)
BY DEF Begins

LEMMA BeginsTrans ==
    ASSUME NEW S, NEW a \in Seq(S), NEW b \in Seq(S), NEW c \in Seq(S), Begins(a, b), Begins(b, c)
    PROVE  Begins(a, c)
BY DEF Begins

\* What one byte does to the messages.
LEMMA ByteStep ==
    ASSUME NEW f \in FormatterType, NEW b \in Bytes
    PROVE  /\ FormatterByte(f, b) \in FormatterType
           /\ FormatterLine(f) \in FormatterType
           /\ Begins(f.logged, FormatterByte(f, b).logged)
           /\ Len(FormatterLine(f).logged) <= Len(f.logged) + 1
<1> DEFINE m == IF In(f.pending, "pin") THEN <<"PIN">>
                ELSE IF In(f.pending, "touch")
                     THEN IF f.asked THEN <<"TOUCH">> ELSE <<>>
                ELSE IF f.pending = <<>> THEN <<>> ELSE <<"AUTH">>
<1>1. f.pending \in Line /\ f.asked \in BOOLEAN /\ f.logged \in Seq(Messages)
  BY DEF FormatterType
<1>2. m \in Seq(Messages) /\ Len(m) <= 1
  <2>1. /\ <<"PIN">> \in Seq(Messages) /\ Len(<<"PIN">>) <= 1
        /\ <<"TOUCH">> \in Seq(Messages) /\ Len(<<"TOUCH">>) <= 1
        /\ <<"AUTH">> \in Seq(Messages) /\ Len(<<"AUTH">>) <= 1
        /\ <<>> \in Seq(Messages) /\ Len(<<>>) <= 1
    BY DEF Messages
  <2>2. m = <<"PIN">> \/ m = <<"TOUCH">> \/ m = <<"AUTH">> \/ m = <<>>
    OBVIOUS
  <2> HIDE DEF m
  <2>3. CASE m = <<"PIN">>
    BY <2>1, <2>3, Zenon
  <2>4. CASE m = <<"TOUCH">>
    BY <2>1, <2>4, Zenon
  <2>5. CASE m = <<"AUTH">>
    BY <2>1, <2>5, Zenon
  <2>6. CASE m = <<>>
    BY <2>1, <2>6, Zenon
  <2> QED  BY <2>2, <2>3, <2>4, <2>5, <2>6, Zenon
<1>3. FormatterLine(f) = [pending |-> <<>>, asked |-> f.asked \/ In(f.pending, "pin"),
                          logged |-> f.logged \o m]
  BY DEF FormatterLine
<1> HIDE DEF m
<1>4. FormatterLine(f) \in FormatterType
  <2>1. f.logged \o m \in Seq(Messages)
    BY <1>1, <1>2
  <2>2. (f.asked \/ In(f.pending, "pin")) \in BOOLEAN
    BY <1>1 DEF In
  <2> QED  BY <1>3, <2>1, <2>2, EmptyLine DEF FormatterType
<1>5. Begins(f.logged, FormatterLine(f).logged) /\ Len(FormatterLine(f).logged) <= Len(f.logged) + 1
  BY <1>1, <1>2, <1>3, BeginsConcat
<1>6. ASSUME b # "nl", Len(f.pending) < LINE_LIMIT
      PROVE  [f EXCEPT !.pending = Append(@, b)] \in FormatterType
  <2>1. f.pending \in Seq(Bytes \ {"nl"}) /\ b \in Bytes \ {"nl"}
    BY <1>1, <1>6, LineIs
  <2>2. /\ Append(f.pending, b) \in Seq(Bytes \ {"nl"})
        /\ Len(Append(f.pending, b)) <= LINE_LIMIT
    BY <1>6, <2>1, Sizes
  <2>3. Append(f.pending, b) \in Line
    BY <2>2, LineIs
  <2> QED  BY <2>3 DEF FormatterType
<1>7. Begins(f.logged, f.logged)
  BY <1>1 DEF Begins
<1>8. CASE b = "nl"
  BY <1>4, <1>5, <1>8 DEF FormatterByte
<1>9. CASE b # "nl"
  BY <1>1, <1>4, <1>5, <1>6, <1>7, <1>9 DEF FormatterByte, FormatterType
<1> QED  BY <1>8, <1>9

LEMMA TakesExists ==
    ASSUME NEW f \in FormatterType, NEW s \in Seq(Bytes)
    PROVE  \E g : Takes(g, f, s) /\ FormatterBytes(f, s) = g[Len(s)]
<1> DEFINE next == [i \in 1 .. Len(s) |-> [x \in FormatterType |-> FormatterByte(x, s[i])]]
           Eq(g) == g = [i \in 0 .. Len(s) |-> IF i = 0 THEN f ELSE FormatterByte(g[i - 1], s[i])]
<1>1. Len(s) \in Nat /\ \A i \in 1 .. Len(s) : s[i] \in Bytes
  OBVIOUS
<1>2. next \in [1 .. Len(s) -> [FormatterType -> FormatterType]]
  BY <1>1, ByteStep
<1>3. PICK h : Solves(h, Len(s), FormatterType, f, next)
  <2> HIDE DEF next
  <2> QED  BY <1>1, <1>2, Solution
<1>4. \A i \in 1 .. Len(s) : h[i] = FormatterByte(h[i - 1], s[i])
  <2> SUFFICES ASSUME NEW i \in 1 .. Len(s)
               PROVE  h[i] = FormatterByte(h[i - 1], s[i])
    OBVIOUS
  <2>1. h[i - 1] \in FormatterType
    BY <1>1, <1>3 DEF Solves
  <2>2. next[i] = [x \in FormatterType |-> FormatterByte(x, s[i])]
    OBVIOUS
  <2> HIDE DEF next
  <2> QED  BY <1>3, <2>1, <2>2 DEF Solves
<1>5. Eq(h)
  BY <1>1, <1>3, <1>4 DEF Solves
<1> DEFINE g == CHOOSE x : Eq(x)
<1>6. Eq(g)
  <2> HIDE DEF Eq
  <2> QED  BY <1>5
<1>7. FormatterBytes(f, s) = g[Len(s)]
  BY DEF FormatterBytes
<1> HIDE DEF g
<1>8. g[0] = h[0] /\ \A i \in 1 .. Len(s) : g[i] = FormatterByte(g[i - 1], s[i])
  BY <1>1, <1>3, <1>6 DEF Solves
<1>9. \A i \in 0 .. Len(s) : g[i] = h[i]
  <2>1. \A i \in 1 .. Len(s) : g[i - 1] = h[i - 1] => g[i] = h[i]
    BY <1>4, <1>8
  <2>2. StepAlike(g, h, Len(s))
    BY <1>8, <2>1 DEF StepAlike
  <2> QED  BY <1>1, <2>2, Agree
<1> QED  BY <1>1, <1>3, <1>4, <1>7, <1>9 DEF Takes, Solves

LEMMA TakesIs ==
    ASSUME NEW f \in FormatterType, NEW s \in Seq(Bytes), NEW g, Takes(g, f, s)
    PROVE  FormatterBytes(f, s) = g[Len(s)] /\ FormatterBytes(f, s) \in FormatterType
<1>1. PICK h : Takes(h, f, s) /\ FormatterBytes(f, s) = h[Len(s)]
  BY TakesExists
<1>2. Len(s) \in Nat /\ Len(s) \in 0 .. Len(s)
  OBVIOUS
<1>3. \A i \in 0 .. Len(s) : g[i] = h[i]
  <2>1. StepAlike(g, h, Len(s))
    BY <1>1 DEF Takes, StepAlike
  <2> QED  BY <1>2, <2>1, Agree
<1> QED  BY <1>1, <1>2, <1>3 DEF Takes

\* Bytes taken in two reads are taken as in one.
LEMMA InTwoReads ==
    ASSUME NEW f \in FormatterType, NEW s \in Seq(Bytes), NEW n \in 0 .. Len(s)
    PROVE  /\ SubSeq(s, 1, n) \in Seq(Bytes) /\ SubSeq(s, n + 1, Len(s)) \in Seq(Bytes)
           /\ Len(SubSeq(s, n + 1, Len(s))) = Len(s) - n
           /\ FormatterBytes(f, SubSeq(s, 1, n)) \in FormatterType
           /\ FormatterBytes(f, s) =
                 FormatterBytes(FormatterBytes(f, SubSeq(s, 1, n)), SubSeq(s, n + 1, Len(s)))
<1> DEFINE a == SubSeq(s, 1, n)
           b == SubSeq(s, n + 1, Len(s))
<1>1. PICK g : Takes(g, f, s)
  BY TakesExists
<1>2. /\ a \in Seq(Bytes) /\ Len(a) = n /\ \A i \in 1 .. n : a[i] = s[i]
      /\ b \in Seq(Bytes) /\ Len(b) = Len(s) - n /\ \A i \in 1 .. Len(s) - n : b[i] = s[n + i]
  OBVIOUS
<1> HIDE DEF a, b
<1>3. Len(s) \in Nat /\ FormatterBytes(f, s) = g[Len(s)] /\ g[n] \in FormatterType
  BY <1>1, TakesIs DEF Takes
<1> DEFINE ga == [i \in 0 .. n |-> g[i]]
           gb == [i \in 0 .. Len(s) - n |-> g[n + i]]
<1>4. Takes(ga, f, a)
  <2>1. ga \in [0 .. n -> FormatterType] /\ ga[0] = f
    BY <1>1 DEF Takes
  <2>2. \A i \in 1 .. n : ga[i] = FormatterByte(ga[i - 1], a[i])
    BY <1>1, <1>2 DEF Takes
  <2> QED  BY <1>2, <2>1, <2>2 DEF Takes
<1>5. FormatterBytes(f, a) = g[n]
  <2> HIDE DEF ga
  <2>1. FormatterBytes(f, a) = ga[n]
    BY <1>2, <1>4, TakesIs
  <2> QED  BY <2>1 DEF ga
<1>6. Takes(gb, g[n], b)
  <2>1. gb \in [0 .. Len(s) - n -> FormatterType] /\ gb[0] = g[n]
    BY <1>1 DEF Takes
  <2>2. \A i \in 1 .. Len(s) - n : gb[i] = FormatterByte(gb[i - 1], b[i])
    <3> SUFFICES ASSUME NEW i \in 1 .. Len(s) - n
                 PROVE  gb[i] = FormatterByte(gb[i - 1], b[i])
      OBVIOUS
    <3>1. gb[i] = g[n + i] /\ gb[i - 1] = g[n + i - 1] /\ n + i \in 1 .. Len(s)
      BY <1>3
    <3>2. g[n + i] = FormatterByte(g[n + i - 1], s[n + i])
      BY <1>1, <3>1 DEF Takes
    <3> HIDE DEF gb
    <3> QED  BY <1>2, <3>1, <3>2
  <2> QED  BY <1>2, <2>1, <2>2 DEF Takes
<1>7. FormatterBytes(g[n], b) = g[Len(s)]
  <2> HIDE DEF gb
  <2>1. FormatterBytes(g[n], b) = gb[Len(s) - n]
    BY <1>2, <1>3, <1>6, TakesIs
  <2> QED  BY <1>3, <2>1 DEF gb
<1> QED  BY <1>2, <1>3, <1>5, <1>7 DEF a, b

\* One more byte is one more step.
LEMMA OneMoreByte ==
    ASSUME NEW f \in FormatterType, NEW s \in Seq(Bytes), NEW b \in Bytes
    PROVE  FormatterBytes(f, Append(s, b)) = FormatterByte(FormatterBytes(f, s), b)
<1> DEFINE t == Append(s, b)
<1>1. PICK g : Takes(g, f, s)
  BY TakesExists
<1>2. /\ t \in Seq(Bytes) /\ Len(s) \in Nat /\ Len(t) = Len(s) + 1
      /\ t[Len(s) + 1] = b /\ \A i \in 1 .. Len(s) : t[i] = s[i]
  OBVIOUS
<1>3. FormatterBytes(f, s) = g[Len(s)] /\ g[Len(s)] \in FormatterType
  BY <1>1, TakesIs DEF Takes
<1> HIDE DEF t
<1> DEFINE h == [i \in 0 .. Len(s) + 1 |->
                   IF i = Len(s) + 1 THEN FormatterByte(g[Len(s)], b) ELSE g[i]]
<1>4. Takes(h, f, t)
  <2>1. h \in [0 .. Len(s) + 1 -> FormatterType] /\ h[0] = f
    <3>1. FormatterByte(g[Len(s)], b) \in FormatterType
      BY <1>3, ByteStep
    <3> QED  BY <1>1, <1>2, <3>1 DEF Takes
  <2>2. \A i \in 1 .. Len(s) + 1 : h[i] = FormatterByte(h[i - 1], t[i])
    <3> SUFFICES ASSUME NEW i \in 1 .. Len(s) + 1
                 PROVE  h[i] = FormatterByte(h[i - 1], t[i])
      OBVIOUS
    <3>1. h[i - 1] = g[i - 1]
      BY <1>2
    <3>2. i # Len(s) + 1 => h[i] = g[i] /\ i \in 1 .. Len(s)
      BY <1>2
    <3> QED  BY <1>1, <1>2, <3>1, <3>2 DEF Takes
  <2> QED  BY <1>2, <2>1, <2>2 DEF Takes
<1>5. FormatterBytes(f, t) = h[Len(s) + 1]
  <2> HIDE DEF h
  <2> QED  BY <1>2, <1>4, TakesIs
<1> QED  BY <1>2, <1>3, <1>5 DEF t

\* No byte takes anything back.
LEMMA NothingTakenBack ==
    ASSUME NEW f \in FormatterType, NEW s \in Seq(Bytes)
    PROVE  Begins(f.logged, FormatterBytes(f, s).logged) /\ FormatterBytes(f, s) \in FormatterType
<1>1. PICK g : Takes(g, f, s)
  BY TakesExists
<1>2. Len(s) \in Nat /\ FormatterBytes(f, s) = g[Len(s)] /\ g[Len(s)] \in FormatterType
  BY <1>1, TakesIs DEF Takes
<1> DEFINE Lost == {i \in 0 .. Len(s) : ~Begins(f.logged, g[i].logged)}
<1>3. Lost = {}
  <2> SUFFICES ASSUME Lost # {}
               PROVE  FALSE
    OBVIOUS
  <2>1. PICK k \in Lost : \A m \in Lost : k <= m
    <3>1. Lost \in SUBSET Nat
      BY <1>2
    <3> HIDE DEF Lost
    <3> QED  BY <3>1, Smallest
  <2>2. Begins(f.logged, f.logged) /\ g[0] = f
    BY <1>1 DEF Takes, Begins, FormatterType
  <2>3. k \in 1 .. Len(s) /\ k - 1 \in 0 .. Len(s) /\ ~ (k <= k - 1)
    BY <1>2, <2>2
  <2>4. Begins(f.logged, g[k - 1].logged)
    BY <2>1, <2>3
  <2>5. /\ g[k - 1] \in FormatterType /\ g[k] \in FormatterType /\ s[k] \in Bytes
        /\ g[k] = FormatterByte(g[k - 1], s[k])
    BY <1>1, <2>3 DEF Takes
  <2>6. Begins(g[k - 1].logged, g[k].logged)
    BY <2>5, ByteStep
  <2>7. Begins(f.logged, g[k].logged)
    BY <2>4, <2>5, <2>6, BeginsTrans DEF FormatterType
  <2> QED  BY <2>7
<1> QED  BY <1>2, <1>3

-----------------------------------------------------------------------------
(***************************************************************************)
(* The messages of a sequence of lines, built line by line.                *)
(***************************************************************************)
Builds(g, lines) ==
    /\ g \in [0 .. Len(lines) -> Seq(Messages)] /\ g[0] = <<>>
    /\ \A i \in 1 .. Len(lines) : g[i] = g[i - 1] \o MessageOf(lines, i)

LEMMA MessageType ==
    ASSUME NEW lines, NEW i
    PROVE  MessageOf(lines, i) \in Seq(Messages) /\ Len(MessageOf(lines, i)) <= 1
<1> DEFINE m == MessageOf(lines, i)
<1>1. /\ <<"PIN">> \in Seq(Messages) /\ Len(<<"PIN">>) <= 1
      /\ <<"TOUCH">> \in Seq(Messages) /\ Len(<<"TOUCH">>) <= 1
      /\ <<"AUTH">> \in Seq(Messages) /\ Len(<<"AUTH">>) <= 1
      /\ <<>> \in Seq(Messages) /\ Len(<<>>) <= 1
  BY DEF Messages
<1>2. m = <<"PIN">> \/ m = <<"TOUCH">> \/ m = <<"AUTH">> \/ m = <<>>
  BY DEF MessageOf
<1>3. m \in Seq(Messages) /\ Len(m) <= 1
  <2> HIDE DEF m
  <2>1. CASE m = <<"PIN">>
    BY <1>1, <2>1, Zenon
  <2>2. CASE m = <<"TOUCH">>
    BY <1>1, <2>2, Zenon
  <2>3. CASE m = <<"AUTH">>
    BY <1>1, <2>3, Zenon
  <2>4. CASE m = <<>>
    BY <1>1, <2>4, Zenon
  <2> QED  BY <1>2, <2>1, <2>2, <2>3, <2>4, Zenon
<1> QED  BY <1>3 DEF m

LEMMA BuildsExists ==
    ASSUME NEW S, NEW lines \in Seq(S)
    PROVE  \E g : Builds(g, lines) /\ MessagesOf(lines) = g[Len(lines)]
<1> DEFINE M == Seq(Messages)
           next == [i \in 1 .. Len(lines) |-> [x \in M |-> x \o MessageOf(lines, i)]]
           Eq(g) == g = [i \in 0 .. Len(lines) |->
                           IF i = 0 THEN <<>> ELSE g[i - 1] \o MessageOf(lines, i)]
<1>1. Len(lines) \in Nat /\ <<>> \in M
  OBVIOUS
<1>2. next \in [1 .. Len(lines) -> [M -> M]]
  <2> SUFFICES ASSUME NEW i \in 1 .. Len(lines), NEW x \in M
               PROVE  x \o MessageOf(lines, i) \in M
    OBVIOUS
  <2> QED  BY MessageType
<1> HIDE DEF M
<1>3. PICK h : Solves(h, Len(lines), M, <<>>, next)
  <2> HIDE DEF next
  <2> QED  BY <1>1, <1>2, Solution
<1>4. \A i \in 1 .. Len(lines) : h[i] = h[i - 1] \o MessageOf(lines, i)
  <2> SUFFICES ASSUME NEW i \in 1 .. Len(lines)
               PROVE  h[i] = h[i - 1] \o MessageOf(lines, i)
    OBVIOUS
  <2>1. h[i - 1] \in M
    BY <1>1, <1>3 DEF Solves
  <2>2. next[i] = [x \in M |-> x \o MessageOf(lines, i)]
    OBVIOUS
  <2> HIDE DEF next
  <2> QED  BY <1>3, <2>1, <2>2 DEF Solves
<1>5. Eq(h)
  BY <1>1, <1>3, <1>4 DEF Solves
<1> DEFINE g == CHOOSE x : Eq(x)
<1>6. Eq(g)
  <2> HIDE DEF Eq
  <2> QED  BY <1>5
<1>7. MessagesOf(lines) = g[Len(lines)]
  BY DEF MessagesOf
<1> HIDE DEF g
<1>8. g[0] = h[0] /\ \A i \in 1 .. Len(lines) : g[i] = g[i - 1] \o MessageOf(lines, i)
  <2>1. g[0] = <<>> /\ h[0] = <<>>
    BY <1>1, <1>3, <1>6 DEF Solves
  <2>2. \A i \in 1 .. Len(lines) : g[i] = g[i - 1] \o MessageOf(lines, i)
    <3> SUFFICES ASSUME NEW i \in 1 .. Len(lines)
                 PROVE  g[i] = g[i - 1] \o MessageOf(lines, i)
      OBVIOUS
    <3>1. i \in 0 .. Len(lines) /\ i # 0
      BY <1>1
    <3> QED  BY <1>6, <3>1, Zenon
  <2> QED  BY <2>1, <2>2
<1>9. \A i \in 0 .. Len(lines) : g[i] = h[i]
  <2>1. \A i \in 1 .. Len(lines) : g[i - 1] = h[i - 1] => g[i] = h[i]
    BY <1>4, <1>8
  <2>2. StepAlike(g, h, Len(lines))
    BY <1>8, <2>1 DEF StepAlike
  <2> QED  BY <1>1, <2>2, Agree
<1>10. Builds(h, lines)
  BY <1>3, <1>4 DEF Builds, Solves, M
<1> QED  BY <1>1, <1>7, <1>9, <1>10

LEMMA BuildsIs ==
    ASSUME NEW S, NEW lines \in Seq(S), NEW g, Builds(g, lines)
    PROVE  MessagesOf(lines) = g[Len(lines)] /\ MessagesOf(lines) \in Seq(Messages)
<1>1. PICK h : Builds(h, lines) /\ MessagesOf(lines) = h[Len(lines)]
  BY BuildsExists
<1>2. Len(lines) \in Nat /\ Len(lines) \in 0 .. Len(lines)
  OBVIOUS
<1>3. \A i \in 0 .. Len(lines) : g[i] = h[i]
  <2>1. StepAlike(g, h, Len(lines))
    BY <1>1 DEF Builds, StepAlike
  <2> QED  BY <1>2, <2>1, Agree
<1> QED  BY <1>1, <1>2, <1>3 DEF Builds

LEMMA NoLines == MessagesOf(<<>>) = <<>>
<1>1. PICK g : Builds(g, <<>>) /\ MessagesOf(<<>>) = g[Len(<<>>)]
  <2>1. <<>> \in Seq({})
    OBVIOUS
  <2> QED  BY <2>1, BuildsExists
<1> QED  BY <1>1 DEF Builds

\* One more line adds its message, if any, and takes nothing back.
LEMMA OneMoreLine ==
    ASSUME NEW S, NEW lines \in Seq(S), NEW l \in S
    PROVE  MessagesOf(Append(lines, l)) =
              MessagesOf(lines) \o MessageOf(Append(lines, l), Len(lines) + 1)
<1> DEFINE t == Append(lines, l)
           last == MessageOf(t, Len(lines) + 1)
<1>1. PICK g : Builds(g, lines)
  BY BuildsExists
<1>2. /\ t \in Seq(S) /\ Len(lines) \in Nat /\ Len(t) = Len(lines) + 1
      /\ \A i \in 1 .. Len(lines) : t[i] = lines[i]
  OBVIOUS
<1>3. MessagesOf(lines) = g[Len(lines)] /\ g[Len(lines)] \in Seq(Messages)
  BY <1>1, BuildsIs DEF Builds
<1>4. \A i \in 1 .. Len(lines) : MessageOf(t, i) = MessageOf(lines, i)
  <2> SUFFICES ASSUME NEW i \in 1 .. Len(lines)
               PROVE  MessageOf(t, i) = MessageOf(lines, i)
    OBVIOUS
  <2>1. t[i] = lines[i] /\ \A j \in 1 .. i - 1 : t[j] = lines[j]
    BY <1>2
  <2> HIDE DEF t
  <2> QED  BY <2>1 DEF MessageOf
<1>5. last \in Seq(Messages)
  BY MessageType
<1> HIDE DEF t, last
<1> DEFINE h == [i \in 0 .. Len(lines) + 1 |->
                   IF i = Len(lines) + 1 THEN g[Len(lines)] \o last ELSE g[i]]
<1>6. Builds(h, t)
  <2>1. h \in [0 .. Len(lines) + 1 -> Seq(Messages)] /\ h[0] = <<>>
    <3>1. g[Len(lines)] \o last \in Seq(Messages)
      BY <1>3, <1>5
    <3> QED  BY <1>1, <1>2, <3>1 DEF Builds
  <2>2. \A i \in 1 .. Len(lines) + 1 : h[i] = h[i - 1] \o MessageOf(t, i)
    <3> SUFFICES ASSUME NEW i \in 1 .. Len(lines) + 1
                 PROVE  h[i] = h[i - 1] \o MessageOf(t, i)
      OBVIOUS
    <3>1. h[i - 1] = g[i - 1]
      BY <1>2
    <3>2. i # Len(lines) + 1 => h[i] = g[i] /\ i \in 1 .. Len(lines)
      BY <1>2
    <3>3. i = Len(lines) + 1 => h[i] = g[Len(lines)] \o MessageOf(t, i)
      <4>1. h[Len(lines) + 1] = g[Len(lines)] \o last
        BY <1>2
      <4> HIDE DEF h
      <4> QED  BY <4>1 DEF last
    <3> HIDE DEF h
    <3>4. CASE i = Len(lines) + 1
      <4>1. i - 1 = Len(lines)
        BY <1>2, <3>4
      <4> QED  BY <3>1, <3>3, <3>4, <4>1, Zenon
    <3>5. CASE i # Len(lines) + 1
      BY <1>1, <1>4, <3>1, <3>2, <3>5 DEF Builds
    <3> QED  BY <3>4, <3>5
  <2> QED  BY <1>2, <2>1, <2>2 DEF Builds
<1>7. MessagesOf(t) = h[Len(lines) + 1]
  <2> HIDE DEF h
  <2> QED  BY <1>2, <1>6, BuildsIs
<1> QED  BY <1>2, <1>3, <1>7 DEF t, last

LEMMA AtMostOneEach ==
    ASSUME NEW S, NEW lines \in Seq(S)
    PROVE  MessagesOf(lines) \in Seq(Messages) /\ Len(MessagesOf(lines)) <= Len(lines)
<1>1. PICK g : Builds(g, lines)
  BY BuildsExists
<1>2. /\ Len(lines) \in Nat /\ MessagesOf(lines) = g[Len(lines)]
      /\ \A i \in 0 .. Len(lines) : g[i] \in Seq(Messages)
  <2>1. MessagesOf(lines) = g[Len(lines)]
    BY <1>1, BuildsIs
  <2>2. Len(lines) \in Nat
    OBVIOUS
  <2> QED  BY <1>1, <2>1, <2>2 DEF Builds
<1> DEFINE Long == {i \in 0 .. Len(lines) : ~ (Len(g[i]) <= i)}
<1>3. Long = {}
  <2> SUFFICES ASSUME Long # {}
               PROVE  FALSE
    OBVIOUS
  <2>1. PICK k \in Long : \A m \in Long : k <= m
    <3>1. Long \in SUBSET Nat
      BY <1>2
    <3> HIDE DEF Long
    <3> QED  BY <3>1, Smallest
  <2>2. k \in 1 .. Len(lines) /\ k - 1 \in 0 .. Len(lines) /\ ~ (k <= k - 1)
    BY <1>1, <1>2, EmptyLine DEF Builds
  <2>3. Len(g[k - 1]) <= k - 1
    BY <2>1, <2>2
  <2>4. g[k] = g[k - 1] \o MessageOf(lines, k)
    BY <1>1, <2>2 DEF Builds
  <2>5. Len(g[k]) <= k
    BY <1>2, <2>2, <2>3, <2>4, MessageType
  <2> QED  BY <2>5
<1> QED  BY <1>1, <1>2, <1>3, BuildsIs

-----------------------------------------------------------------------------
(***************************************************************************)
(* What was read, together with what still is in the pipe, is what the     *)
(* helper has said.                                                        *)
(***************************************************************************)
Streaming == pc \in {"start"} \cup Polling
AfterPipe == FormatterBytes(Formatter, pipe)

StreamInv ==
    /\ eof => writers = {} /\ pipe = <<>>
    /\ pc = "start" => ~eof
    /\ Streaming =>
        /\ AfterPipe.pending = saying
        /\ AfterPipe.asked <=> \E j \in 1 .. Len(said) : In(said[j], "pin")
        /\ AfterPipe.logged = MessagesOf(said)
    /\ pc = "ok" => logged = Expected

(* TypeOK as the provers read it. *)
TypeInv ==
    /\ cancellable \in BOOLEAN /\ interrupted \in BOOLEAN /\ eof \in BOOLEAN
    /\ pinRequested \in BOOLEAN
    /\ now \in 0 .. Timeout /\ left \in 0 .. Reads
    /\ writers \subseteq {"child", "heir"}
    /\ pipe \in Seq(Bytes) /\ Len(pipe) <= PipeSize
    /\ pending \in Line /\ saying \in Line
    /\ logged \in Seq(Messages) /\ Len(logged) <= MaxLines + 1
    /\ said \in Seq(Line) /\ Len(said) <= MaxLines

LEMMA TypeIs == ChildInv => (TypeOK <=> TypeInv)
<1> SUFFICES ASSUME ChildInv PROVE TypeOK <=> TypeInv
  OBVIOUS
<1>1. /\ pipe \in Upto(Bytes, PipeSize) <=> pipe \in Seq(Bytes) /\ Len(pipe) <= PipeSize
      /\ logged \in Upto(Messages, MaxLines + 1) <=>
            logged \in Seq(Messages) /\ Len(logged) <= MaxLines + 1
      /\ said \in Upto(Line, MaxLines) <=> said \in Seq(Line) /\ Len(said) <= MaxLines
  BY UptoIs, Sizes
<1> QED  BY <1>1 DEF TypeOK, TypeInv, ChildInv

LEMMA FormatterIs ==
    /\ TypeInv => Formatter \in FormatterType
    /\ Formatter.pending = pending /\ Formatter.asked = pinRequested /\ Formatter.logged = logged
BY DEF TypeInv, Formatter, FormatterType

\* A byte that is not read leaves the formatter as it is.
LEMMA NoBytes == ASSUME NEW f \in FormatterType PROVE FormatterBytes(f, <<>>) = f
<1>1. <<>> \in Seq(Bytes) /\ Len(<<>>) = 0
  BY EmptyLine
<1>2. PICK g : Takes(g, f, <<>>) /\ FormatterBytes(f, <<>>) = g[Len(<<>>)]
  BY <1>1, TakesExists
<1> QED  BY <1>1, <1>2 DEF Takes

\* The line that is being collected is told as the last one of those said.
LEMMA LastLine ==
    ASSUME NEW f \in FormatterType, NEW lines \in Seq(Line), NEW line \in Line,
           f.pending = line,
           f.asked <=> \E j \in 1 .. Len(lines) : In(lines[j], "pin")
    PROVE  LET t == Append(lines, line)
           IN  /\ FormatterLine(f).pending = <<>>
               /\ FormatterLine(f).asked <=> \E j \in 1 .. Len(t) : In(t[j], "pin")
               /\ FormatterLine(f).logged = f.logged \o MessageOf(t, Len(lines) + 1)
               /\ line = <<>> => MessageOf(t, Len(lines) + 1) = <<>>
<1> DEFINE t == Append(lines, line)
<1>1. /\ Len(lines) \in Nat /\ Len(t) = Len(lines) + 1 /\ t[Len(lines) + 1] = line
      /\ \A j \in 1 .. Len(lines) : t[j] = lines[j]
  OBVIOUS
<1> HIDE DEF t
<1>2. (\E j \in 1 .. Len(lines) + 1 - 1 : In(t[j], "pin")) <=> f.asked
  BY <1>1
<1>3. (\E j \in 1 .. Len(t) : In(t[j], "pin")) <=> f.asked \/ In(line, "pin")
  BY <1>1
<1>4. FormatterLine(f).logged = f.logged \o MessageOf(t, Len(lines) + 1)
  <2> DEFINE m == IF In(line, "pin") THEN <<"PIN">>
                  ELSE IF In(line, "touch") THEN IF f.asked THEN <<"TOUCH">> ELSE <<>>
                  ELSE IF line = <<>> THEN <<>> ELSE <<"AUTH">>
  <2>1. FormatterLine(f).logged = f.logged \o m
    BY DEF FormatterLine
  <2>2. MessageOf(t, Len(lines) + 1) = m
    BY <1>1, <1>2 DEF MessageOf
  <2> QED  BY <2>1, <2>2
<1>5. line = <<>> => MessageOf(t, Len(lines) + 1) = <<>>
  BY <1>1 DEF MessageOf, In
<1>6. FormatterLine(f).pending = <<>> /\ (FormatterLine(f).asked <=> f.asked \/ In(line, "pin"))
  BY DEF FormatterLine
<1> QED  BY <1>3, <1>4, <1>5, <1>6 DEF t

\* The messages to be expected are those of the lines said and of the last one.
LEMMA ExpectedIs ==
    ASSUME TypeInv
    PROVE  /\ Expected = MessagesOf(said) \o MessageOf(Append(said, saying), Len(said) + 1)
           /\ MessagesOf(said) \in Seq(Messages) /\ Expected \in Seq(Messages)
           /\ Begins(MessagesOf(said), Expected)
<1> DEFINE m == MessageOf(Append(said, saying), Len(said) + 1)
<1>1. said \in Seq(Line) /\ saying \in Line /\ MessagesOf(said) \in Seq(Messages)
  BY AtMostOneEach DEF TypeInv
<1>2. m \in Seq(Messages)
  BY MessageType
<1>3. Expected = MessagesOf(said) \o m
  <2>1. CASE saying = <<>>
    <3>1. m = <<>>
      <4>1. Len(said) \in Nat /\ Append(said, saying)[Len(said) + 1] = saying
        BY <1>1
      <4> QED  BY <2>1, <4>1 DEF MessageOf, In
    <3> HIDE DEF m
    <3> QED  BY <1>1, <2>1, <3>1 DEF Expected, AllLines
  <2>2. CASE saying # <<>>
    BY <1>1, <2>2, OneMoreLine DEF Expected, AllLines
  <2> QED  BY <2>1, <2>2
<1> HIDE DEF m
<1>4. Begins(MessagesOf(said), MessagesOf(said) \o m) /\ MessagesOf(said) \o m \in Seq(Messages)
  BY <1>1, <1>2, BeginsConcat
<1> QED  BY <1>1, <1>3, <1>4 DEF m

\* No more was shown than the helper has completed lines.
LEMMA ShownSize ==
    ASSUME NEW f \in FormatterType, NEW p \in Seq(Bytes), NEW lines \in Seq(Line),
           FormatterBytes(f, p).logged = MessagesOf(lines)
    PROVE  Begins(f.logged, MessagesOf(lines)) /\ Len(f.logged) <= Len(lines)
<1>1. Begins(f.logged, MessagesOf(lines))
  BY NothingTakenBack
<1>2. MessagesOf(lines) \in Seq(Messages) /\ Len(MessagesOf(lines)) <= Len(lines)
  BY AtMostOneEach
<1>3. Len(f.logged) \in Nat /\ Len(MessagesOf(lines)) \in Nat /\ Len(lines) \in Nat
  BY <1>2 DEF FormatterType
<1> QED  BY <1>1, <1>2, <1>3 DEF Begins

IInv == ChildInv /\ TypeInv /\ StreamInv

\* The bytes of one read move from the pipe into the formatter.
LEMMA ReadStep ==
    ASSUME TypeInv, NEW n \in 0 .. Len(pipe),
           SetFormatter(FormatterBytes(Formatter, SubSeq(pipe, 1, n))),
           pipe' = SubSeq(pipe, n + 1, Len(pipe))
    PROVE  /\ Formatter' \in FormatterType /\ AfterPipe' = AfterPipe
           /\ pipe' \in Seq(Bytes) /\ Len(pipe') <= PipeSize
<1> DEFINE f == FormatterBytes(Formatter, SubSeq(pipe, 1, n))
<1>1. pipe \in Seq(Bytes) /\ Len(pipe) <= PipeSize /\ Formatter \in FormatterType
  BY FormatterIs DEF TypeInv
<1>2. /\ f \in FormatterType /\ FormatterBytes(Formatter, pipe) = FormatterBytes(f, pipe')
      /\ pipe' \in Seq(Bytes) /\ Len(pipe') = Len(pipe) - n
  BY <1>1, InTwoReads
<1>3. pending' = f.pending /\ pinRequested' = f.asked /\ logged' = f.logged
  BY DEF SetFormatter
<1> HIDE DEF f
<1>4. Formatter' = f
  BY <1>2, <1>3 DEF Formatter, FormatterType
<1>5. AfterPipe' = AfterPipe
  BY <1>2, <1>4 DEF AfterPipe
<1>6. Len(pipe') <= PipeSize
  BY <1>1, <1>2, Sizes
<1> QED  BY <1>2, <1>4, <1>5, <1>6

\* A byte that is written is said, and read later.
LEMMA WriteStep ==
    ASSUME IInv, NEW b \in Bytes, Write(b)
    PROVE  TypeInv' /\ StreamInv'
<1>1. /\ Len(pipe) < PipeSize /\ pipe' = Append(pipe, b) /\ writers # {} /\ Streaming
      /\ pc' = pc /\ eof' = eof /\ writers' = writers
      /\ UNCHANGED <<callerVars, left, formVars>>
  BY DEF Write, Closed, IInv, ChildInv, Streaming, Polling
<1>2. /\ pipe \in Seq(Bytes) /\ said \in Seq(Line) /\ saying \in Line /\ Len(said) <= MaxLines
      /\ Formatter \in FormatterType
  BY FormatterIs DEF IInv, TypeInv
<1>3. /\ AfterPipe \in FormatterType /\ AfterPipe.pending = saying
      /\ AfterPipe.asked <=> \E j \in 1 .. Len(said) : In(said[j], "pin")
      /\ AfterPipe.logged = MessagesOf(said)
  BY <1>1, <1>2, NothingTakenBack DEF IInv, StreamInv, AfterPipe
<1>4. AfterPipe' = FormatterByte(AfterPipe, b)
  <2>1. Formatter' = Formatter
    BY <1>1 DEF formVars, Formatter
  <2> QED  BY <1>1, <1>2, <2>1, OneMoreByte DEF AfterPipe
<1>5. /\ said' \in Seq(Line) /\ Len(said') <= MaxLines /\ saying' \in Line
      /\ AfterPipe'.pending = saying'
      /\ AfterPipe'.asked <=> \E j \in 1 .. Len(said') : In(said'[j], "pin")
      /\ AfterPipe'.logged = MessagesOf(said')
  <2>1. CASE b = "nl"
    <3>1. said' = Append(said, saying) /\ saying' = <<>> /\ Len(said) < MaxLines
      BY <2>1 DEF Write
    <3>2. AfterPipe' = FormatterLine(AfterPipe)
      BY <1>4, <2>1 DEF FormatterByte
    <3>3. /\ FormatterLine(AfterPipe).pending = <<>>
          /\ FormatterLine(AfterPipe).asked <=> \E j \in 1 .. Len(said') : In(said'[j], "pin")
          /\ FormatterLine(AfterPipe).logged = AfterPipe.logged \o MessageOf(said', Len(said) + 1)
      BY <1>2, <1>3, <3>1, LastLine
    <3>4. MessagesOf(said') = MessagesOf(said) \o MessageOf(said', Len(said) + 1)
      BY <1>2, <3>1, OneMoreLine
    <3>5. said' \in Seq(Line) /\ Len(said') <= MaxLines /\ saying' \in Line
      BY <1>2, <3>1, EmptyLine, Sizes
    <3> QED  BY <1>3, <3>1, <3>2, <3>3, <3>4, <3>5
  <2>2. CASE b # "nl"
    <3>1. /\ said' = said
          /\ saying' = IF Len(saying) < LINE_LIMIT THEN Append(saying, b) ELSE saying
      BY <2>2 DEF Write
    <3>2. /\ AfterPipe'.pending = saying' /\ AfterPipe'.asked = AfterPipe.asked
          /\ AfterPipe'.logged = AfterPipe.logged
      BY <1>3, <1>4, <2>2, <3>1 DEF FormatterByte, FormatterType
    <3>3. FormatterByte(AfterPipe, b) \in FormatterType
      BY <1>3, ByteStep
    <3>4. saying' \in Line
      BY <1>4, <3>2, <3>3 DEF FormatterType
    <3> QED  BY <1>2, <1>3, <3>1, <3>2, <3>4
  <2> QED  BY <2>1, <2>2
<1>6. pipe' \in Seq(Bytes) /\ Len(pipe') <= PipeSize
  BY <1>1, <1>2, Sizes
<1>7. TypeInv'
  BY <1>1, <1>5, <1>6 DEF IInv, TypeInv, callerVars, formVars
<1>8. (eof' => writers' = {} /\ pipe' = <<>>) /\ (pc' = "start" => ~eof') /\ pc' # "ok"
  BY <1>1 DEF IInv, StreamInv, Streaming, Polling
<1> QED  BY <1>5, <1>7, <1>8 DEF StreamInv

\* The end of the loop takes the last line: nothing the helper said is missing.
LEMMA LastStep ==
    ASSUME IInv, Streaming, SetFormatter(FormatterLine(Formatter)), said' = said, saying' = saying
    PROVE  /\ Formatter' \in FormatterType /\ Len(logged') <= MaxLines + 1
           /\ pipe = <<>> => logged' = Expected'
<1>1. /\ pipe \in Seq(Bytes) /\ said \in Seq(Line) /\ saying \in Line /\ Len(said) <= MaxLines
      /\ Formatter \in FormatterType /\ logged \in Seq(Messages) /\ Len(said) \in Nat
  BY FormatterIs DEF IInv, TypeInv
<1>2. Len(logged) <= Len(said)
  BY <1>1, ShownSize, FormatterIs DEF IInv, StreamInv, AfterPipe
<1>3. /\ FormatterLine(Formatter) \in FormatterType
      /\ Len(FormatterLine(Formatter).logged) <= Len(logged) + 1
  <2>1. "nl" \in Bytes
    BY DEF Bytes
  <2> QED  BY <1>1, <2>1, ByteStep, FormatterIs
<1>4. Formatter' = FormatterLine(Formatter) /\ logged' = FormatterLine(Formatter).logged
  <2>1. /\ pending' = FormatterLine(Formatter).pending
        /\ pinRequested' = FormatterLine(Formatter).asked
        /\ logged' = FormatterLine(Formatter).logged
    BY DEF SetFormatter
  <2> QED  BY <1>3, <2>1 DEF Formatter, FormatterType
<1>5. Len(logged') <= MaxLines + 1
  <2>1. Len(logged) \in Nat /\ Len(logged') \in Nat
    BY <1>1, <1>3, <1>4 DEF FormatterType
  <2> QED  BY <1>1, <1>2, <1>3, <1>4, <2>1, Sizes
<1>6. ASSUME pipe = <<>>
      PROVE  logged' = Expected'
  <2>1. AfterPipe = Formatter
    BY <1>1, <1>6, NoBytes DEF AfterPipe
  <2>2. /\ pending = saying /\ logged = MessagesOf(said)
        /\ Formatter.asked <=> \E j \in 1 .. Len(said) : In(said[j], "pin")
    BY <2>1, FormatterIs DEF IInv, StreamInv
  <2>3. FormatterLine(Formatter).logged =
           logged \o MessageOf(Append(said, saying), Len(said) + 1)
    <3>1. Formatter.pending = saying /\ Formatter.logged = logged
      BY <2>2, FormatterIs
    <3> HIDE DEF Formatter
    <3>2. FormatterLine(Formatter).logged =
             Formatter.logged \o MessageOf(Append(said, saying), Len(said) + 1)
      BY <1>1, <2>2, <3>1, LastLine
    <3> QED  BY <3>1, <3>2
  <2>4. Expected = MessagesOf(said) \o MessageOf(Append(said, saying), Len(said) + 1)
    BY ExpectedIs DEF IInv
  <2>5. Expected' = Expected
    BY DEF Expected, AllLines
  <2> QED  BY <1>4, <2>2, <2>3, <2>4, <2>5
<1> QED  BY <1>3, <1>4, <1>5, <1>6

LEMMA InitIInv == Init => IInv
<1> SUFFICES ASSUME Init PROVE IInv
  OBVIOUS
<1>1. <<>> \in Line /\ <<>> \in Seq(Bytes) /\ <<>> \in Seq(Messages) /\ <<>> \in Seq(Line) /\ Len(<<>>) = 0
  BY EmptyLine
<1>2. TypeInv
  <2>1. 0 \in 0 .. Timeout /\ 0 \in 0 .. Reads /\ 0 <= PipeSize /\ 0 <= MaxLines /\ 0 <= MaxLines + 1
    BY Sizes
  <2> QED  BY <1>1, <2>1 DEF Init, TypeInv
<1>3. AfterPipe = Formatter
  BY <1>2, FormatterIs, NoBytes DEF AfterPipe, Init
<1>4. StreamInv
  BY <1>1, <1>3, FormatterIs, NoLines DEF Init, StreamInv
<1> QED  BY <1>2, <1>4, InitInv DEF IInv

\* A step that neither reads, writes nor tells anything keeps the stream.
LEMMA QuietStep ==
    ASSUME IInv, ChildInv',
           UNCHANGED <<pipe, formVars, said, saying>>,
           Streaming' => Streaming, pc' = "ok" => pc = "ok",
           pc' = "start" => pc = "start"  /\ eof' = eof,
           eof' => writers' = {} /\ pipe' = <<>>,
           cancellable' \in BOOLEAN, interrupted' \in BOOLEAN, eof' \in BOOLEAN,
           now' \in 0 .. Timeout, left' \in 0 .. Reads, writers' \subseteq {"child", "heir"}
    PROVE  IInv'
<1>1. AfterPipe' = AfterPipe /\ Expected' = Expected
  BY DEF AfterPipe, Formatter, Expected, AllLines, formVars
<1>2. TypeInv'
  BY DEF IInv, TypeInv, formVars
<1>3. StreamInv'
  BY <1>1 DEF IInv, StreamInv, formVars
<1> QED  BY <1>2, <1>3 DEF IInv

LEMMA ReadInv == ASSUME IInv, Read PROVE IInv'
<1>1. ChildInv'
  BY NextInv DEF IInv, Next, CallStep
<1>2. /\ pipe \in Seq(Bytes) /\ left \in 0 .. Reads /\ Streaming
      /\ UNCHANGED <<callerVars, childVars>>
  BY DEF IInv, TypeInv, Read, Streaming, Polling
<1>3. CASE UNCHANGED <<pipe, formVars>>
  <2>1. left' \in 0 .. Reads
    BY <1>2, Sizes DEF Read
  <2>2. /\ pc' # "start" /\ pc' # "ok" /\ eof' \in BOOLEAN
        /\ eof' => writers' = {} /\ pipe' = <<>>
    <3>1. pc' # "start" /\ pc' # "ok" /\ writers' = writers /\ pipe' = pipe
      BY <1>2, <1>3 DEF Read, childVars
    <3>2. eof' = eof \/ (eof' = TRUE /\ writers = {} /\ pipe = <<>>)
      BY <1>3 DEF Read
    <3>3. eof \in BOOLEAN /\ (eof => writers = {} /\ pipe = <<>>)
      BY DEF IInv, TypeInv, StreamInv
    <3>4. CASE eof' = eof
      BY <3>1, <3>3, <3>4, Zenon
    <3>5. CASE eof' = TRUE /\ writers = {} /\ pipe = <<>>
      BY <3>1, <3>5, Zenon
    <3> QED  BY <3>2, <3>4, <3>5
  <2> QED  BY <1>1, <1>2, <1>3, <2>1, <2>2, QuietStep DEF IInv, TypeInv, callerVars, childVars
<1>4. CASE \/ pipe' # pipe \/ formVars' # formVars
  <2> DEFINE n == MinOf(ReadSize, Len(pipe))
  <2>1. /\ left > 0 /\ pipe # <<>> /\ left' = left - 1 /\ pc' = pc /\ eof' = eof
        /\ SetFormatter(FormatterBytes(Formatter, SubSeq(pipe, 1, n)))
        /\ pipe' = SubSeq(pipe, n + 1, Len(pipe))
    BY <1>4 DEF Read
  <2>2. n \in 0 .. Len(pipe)
    BY <1>2, Sizes DEF MinOf
  <2> HIDE DEF n
  <2>3. /\ Formatter' \in FormatterType /\ AfterPipe' = AfterPipe
        /\ pipe' \in Seq(Bytes) /\ Len(pipe') <= PipeSize
    BY <2>1, <2>2, ReadStep DEF IInv
  <2>4. said' = said /\ saying' = saying /\ writers' = writers
    BY <1>2 DEF childVars
  <2>5. ~eof
    BY <2>1 DEF IInv, StreamInv
  <2>6. StreamInv'
    BY <1>2, <2>1, <2>3, <2>4, <2>5 DEF IInv, StreamInv, Streaming, Read
  <2>7. /\ pending' \in Line /\ pinRequested' \in BOOLEAN /\ logged' \in Seq(Messages)
        /\ Formatter'.logged = logged'
    BY <2>3 DEF Formatter, FormatterType
  <2>8. Len(logged') <= MaxLines + 1
    <3>1. said \in Seq(Line) /\ Len(said) <= MaxLines /\ Len(said) \in Nat
      BY DEF IInv, TypeInv
    <3>2. FormatterBytes(Formatter', pipe').logged = MessagesOf(said)
      BY <1>2, <2>3 DEF IInv, StreamInv, AfterPipe
    <3>3. Len(Formatter'.logged) <= Len(said)
      BY <2>3, <3>1, <3>2, ShownSize
    <3>4. Len(logged') \in Nat
      BY <2>7
    <3> QED  BY <2>7, <3>1, <3>3, <3>4, Sizes
  <2>9. left' \in 0 .. Reads
    BY <1>2, <2>1, Sizes
  <2>10. TypeInv'
    BY <1>2, <2>1, <2>3, <2>4, <2>7, <2>8, <2>9 DEF IInv, TypeInv, callerVars
  <2> QED  BY <1>1, <2>6, <2>10 DEF IInv
<1> QED  BY <1>3, <1>4

LEMMA TryWaitInv == ASSUME IInv, TryWait PROVE IInv'
<1>1. ChildInv'
  BY NextInv DEF IInv, Next, CallStep
<1>2. /\ pc = "trywait" /\ Streaming /\ eof' = FALSE
      /\ UNCHANGED <<callerVars, left, writers, pipe, said, saying>>
  BY DEF TryWait, Streaming, Polling
<1>3. CASE UNCHANGED formVars /\ pc' # "ok" /\ pc' # "start"
  BY <1>1, <1>2, <1>3, QuietStep DEF IInv, TypeInv, callerVars
<1>4. CASE ~ (UNCHANGED formVars /\ pc' # "ok" /\ pc' # "start")
  <2>1. /\ SetFormatter(FormatterLine(Formatter))
        /\ pc' = "drop" \/ (pc' = "ok" /\ eof)
    BY <1>4 DEF TryWait
  <2>2. /\ Formatter' \in FormatterType /\ Len(logged') <= MaxLines + 1
        /\ pipe = <<>> => logged' = Expected'
    BY <1>2, <2>1, LastStep
  <2>3. /\ pending' \in Line /\ pinRequested' \in BOOLEAN /\ logged' \in Seq(Messages)
    BY <2>2 DEF Formatter, FormatterType
  <2>4. TypeInv'
    BY <1>2, <2>2, <2>3 DEF IInv, TypeInv, callerVars
  <2>5. StreamInv'
    BY <1>2, <2>1, <2>2 DEF IInv, StreamInv, Streaming, Polling
  <2> QED  BY <1>1, <2>4, <2>5 DEF IInv
<1> QED  BY <1>3, <1>4

LEMMA NextIInv == IInv /\ [Next]_vars => IInv'
<1> SUFFICES ASSUME IInv, [Next]_vars PROVE IInv'
  OBVIOUS
<1>0. ChildInv'
  BY NextInv DEF IInv
<1> USE <1>0 DEF IInv, TypeInv, Streaming, Polling, callerVars, childVars
<1>1. CASE Call
  BY <1>1, QuietStep DEF Call, StreamInv
<1>2. CASE Poll
  <2>1. Reads \in 0 .. Reads
    BY Sizes
  <2>2. left' \in 0 .. Reads
    BY <1>2, <2>1 DEF Poll
  <2>3. eof' \in BOOLEAN /\ (eof' => writers' = {} /\ pipe' = <<>>)
    BY <1>2 DEF Poll, StreamInv
  <2>4. /\ UNCHANGED <<writers, callerVars, pipe, formVars, said, saying>>
        /\ pc' # "start" /\ pc' # "ok" /\ Streaming
    BY <1>2 DEF Poll
  <2> QED  BY <2>2, <2>3, <2>4, QuietStep
<1>3. CASE Read
  BY <1>3, ReadInv
<1>4. CASE Recheck
  BY <1>4, QuietStep DEF Recheck, StreamInv
<1>5. CASE TryWait
  BY <1>5, TryWaitInv
<1>6. CASE DropRunning
  BY <1>6, QuietStep DEF DropRunning, StreamInv
<1>7. CASE \E b \in Bytes : Write(b)
  BY <1>7, WriteStep
<1>8. CASE Fork
  BY <1>8, QuietStep DEF Fork, StreamInv
<1>9. CASE \E w \in writers : Close(w)
  BY <1>9, QuietStep DEF Close, StreamInv
<1>10. CASE Exit
  BY <1>10, QuietStep DEF Exit, StreamInv
<1>11. CASE Signal \/ Tick
  <2>1. now' \in 0 .. Timeout
    BY <1>11, Sizes DEF Signal, Tick
  <2>2. /\ UNCHANGED <<pc, cancellable, left, eof, childVars, pipe, formVars>>
        /\ interrupted' = interrupted \/ interrupted' = TRUE
    BY <1>11 DEF Signal, Tick
  <2>3. interrupted' \in BOOLEAN
    BY <2>2, Zenon
  <2> QED  BY <2>1, <2>2, <2>3, QuietStep DEF StreamInv
<1>12. CASE UNCHANGED vars
  BY <1>12, QuietStep DEF vars, StreamInv, formVars
<1> QED
  BY <1>1, <1>2, <1>3, <1>4, <1>5, <1>6, <1>7, <1>8, <1>9, <1>10, <1>11, <1>12
     DEF Next, CallStep

THEOREM Inductive == Spec => []IInv
BY InitIInv, NextIInv, PTL DEF Spec

(***************************************************************************)
(* The buffers of a call keep their limits: the pipe its size, the line    *)
(* its LINE_LIMIT, and no more is shown than one message for each line     *)
(* (process.rs, run_inner and Formatter::bytes).                           *)
(***************************************************************************)
THEOREM TypeCorrect == Spec => []TypeOK
<1>1. IInv => TypeOK
  BY TypeIs DEF IInv
<1> QED  BY <1>1, Inductive, PTL

(***************************************************************************)
(* However the helper's bytes are cut into writes and reads, what the call *)
(* has shown so far begins what the helper said (process.rs, Formatter).   *)
(***************************************************************************)
THEOREM ShownInOrder == Spec => []NothingInvented
<1>1. ASSUME IInv PROVE NothingInvented
  <2> SUFFICES ASSUME pc \notin {"drop", "kill", "reap", "error"}
               PROVE  Len(logged) <= Len(Expected) /\ logged = SubSeq(Expected, 1, Len(logged))
    BY DEF NothingInvented
  <2>1. logged \in Seq(Messages) /\ Expected \in Seq(Messages)
    BY <1>1, ExpectedIs DEF IInv, TypeInv
  <2>2. Begins(logged, Expected)
    <3>1. CASE pc = "ok"
      BY <1>1, <2>1, <3>1 DEF IInv, StreamInv, Begins
    <3>2. CASE pc # "ok"
      <4>1. Streaming /\ Formatter \in FormatterType /\ Formatter.logged = logged
        BY <1>1, <3>2, FormatterIs DEF IInv, ChildInv, Streaming
      <4>2. Begins(logged, MessagesOf(said))
        BY <1>1, <4>1, ShownSize DEF IInv, TypeInv, StreamInv, AfterPipe
      <4>3. MessagesOf(said) \in Seq(Messages) /\ Begins(MessagesOf(said), Expected)
        BY <1>1, ExpectedIs DEF IInv
      <4> QED  BY <2>1, <4>2, <4>3, BeginsTrans
    <3> QED  BY <3>1, <3>2
  <2> QED  BY <2>1, <2>2 DEF Begins
<1> QED  BY <1>1, Inductive, PTL

-----------------------------------------------------------------------------
LEMMA InitRefines == Init => Contract!CallInit
<1>1. Init => Expected = <<>>
  BY NoLines DEF Init, Expected, AllLines
<1> QED  BY <1>1 DEF Init, Contract!CallInit, Returned

\* Every step is one of the contract's, or none.
LEMMA NextRefines == IInv /\ IInv' /\ [Next]_vars => [Contract!CallNext]_Contract!callVars
<1> SUFFICES ASSUME IInv, IInv', [Next]_vars
             PROVE  Contract!CallNext \/ UNCHANGED Contract!callVars
  OBVIOUS
<1> DEFINE told == logged = Expected
<1>0. /\ ChildInv /\ told' \in BOOLEAN
      /\ UNCHANGED <<logged, said, saying>> => told' = told
      /\ pc' = "ok" => told' = TRUE
      /\ pc = "start" => writers = {}
  BY DEF IInv, StreamInv, ChildInv, Expected, AllLines
<1> HIDE DEF told
<1> USE <1>0 DEF ChildInv, Polling, callerVars, childVars, formVars, Returned, Contract!callVars
<1>1. CASE Call
  BY <1>1 DEF Call, Contract!CallNext, Contract!Start, Contract!Refuse, told
<1>2. CASE Poll
  BY <1>2 DEF Poll, told
<1>3. CASE Read
  BY <1>3 DEF Read, Contract!CallNext, Contract!Talk, told
<1>4. CASE Recheck
  BY <1>4 DEF Recheck, told
<1>5. CASE TryWait
  BY <1>5 DEF TryWait, Contract!CallNext, Contract!Succeed, Contract!Talk, told
<1>6. CASE DropRunning
  BY <1>6 DEF DropRunning, Contract!CallNext, Contract!Exit, Contract!Fail, told
<1>7. CASE \E b \in Bytes : Write(b)
  BY <1>7 DEF Write, Contract!CallNext, Contract!Talk, told, Closed
<1>8. CASE Fork
  BY <1>8 DEF Fork, told
<1>9. CASE \E w \in writers : Close(w)
  BY <1>9 DEF Close, told
<1>10. CASE Exit
  BY <1>10 DEF Exit, Contract!CallNext, Contract!Exit, told
<1>11. CASE Signal \/ Tick
  BY <1>11 DEF Signal, Tick, told
<1>12. CASE UNCHANGED vars
  BY <1>12 DEF vars, told
<1> QED
  BY <1>1, <1>2, <1>3, <1>4, <1>5, <1>6, <1>7, <1>8, <1>9, <1>10, <1>11, <1>12
     DEF Next, CallStep

(***************************************************************************)
(* The loop of run_inner implements the contract of HelperCall: one child  *)
(* or a refusal, success only for a child that ended with success of       *)
(* itself and with every message of it shown, in order and each once, and  *)
(* no return before the child is dead and reaped (process.rs, run_inner).  *)
(***************************************************************************)
THEOREM Implements == Spec => KeepsContract
<1>1. Init => Contract!CallInit
  BY InitRefines
<1> QED  BY <1>1, NextRefines, Inductive, PTL DEF Spec, KeepsContract, Contract!CallSpec
=============================================================================
