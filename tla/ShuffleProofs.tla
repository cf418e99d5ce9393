---------------------------- MODULE ShuffleProofs ---------------------------
(***************************************************************************)
(* The keypad of pin.rs shows every digit once, its draws are even and it  *)
(* tells them apart, for any number of digits.  The replay goes down from  *)
(* the last position: two replays that differ would differ first somewhere *)
(* (Smallest).                                                             *)
(***************************************************************************)
EXTENDS Shuffle, FiniteSetTheorems, TLAPS

Permutes(m) ==
    /\ m \in [Positions -> Positions]
    /\ \A k, l \in Positions : m[k] = m[l] => k = l
    /\ \A v \in Positions : \E k \in Positions : m[k] = v

\* Exchanging two entries of a permutation gives a permutation.
LEMMA SwapKeepsAll ==
    ASSUME TypeOK, IsPermutation, NEW a \in Positions, NEW b \in Positions
    PROVE  Permutes(Swapped(map, a, b))
<1> DEFINE m == Swapped(map, a, b)
<1>1. m \in [Positions -> Positions] BY DEF Swapped, TypeOK
<1>2. \A k \in Positions : m[k] = IF k = b THEN map[a] ELSE IF k = a THEN map[b] ELSE map[k]
  BY DEF Swapped, TypeOK
<1>3. \A k, l \in Positions : m[k] = m[l] => k = l
  BY <1>2 DEF IsPermutation
<1>4. ASSUME NEW v \in Positions PROVE \E k \in Positions : m[k] = v
  <2>1. PICK k \in Positions : map[k] = v BY DEF IsPermutation
  <2>2. m[IF k = a THEN b ELSE IF k = b THEN a ELSE k] = v BY <1>2, <2>1
  <2> QED BY <2>2
<1> QED BY <1>1, <1>3, <1>4 DEF Permutes

\* The position a sample is reduced to is one of the bound's.
LEMMA Reduced ==
    ASSUME NEW s \in Nat, NEW bound \in Nat \ {0}
    PROVE  s % bound \in 0 .. bound - 1
OBVIOUS

LEMMA StepKeeps ==
    ASSUME TypeOK, IsPermutation, Step
    PROVE  (TypeOK /\ IsPermutation)'
<1>1. N \in Nat \ {0} /\ BYTE \in Nat /\ i \in 1 .. N - 1
  BY ShuffleAssumption DEF Step, TypeOK, Positions
<1>2. PICK s \in Accepted(i + 1) :
        LET j == s % (i + 1)
        IN  map' = Swapped(map, i, j) /\ choice' = [choice EXCEPT ![i] = j]
  BY DEF Step
<1> DEFINE j == s % (i + 1)
<1>3. s \in Nat BY <1>1, <1>2 DEF Accepted
<1>4. j \in 0 .. i
  <2>1. i + 1 \in Nat \ {0} BY <1>1
  <2>2. j \in 0 .. (i + 1) - 1 BY <2>1, <1>3, Reduced
  <2> QED BY <2>2, <1>1
<1>5. map' = Swapped(map, i, j) /\ choice' = [choice EXCEPT ![i] = j] BY <1>2
<1> HIDE DEF j
<1>6. j \in Positions /\ i \in Positions BY <1>1, <1>4 DEF Positions
<1>7. i' \in Positions BY <1>1 DEF Step, Positions
<1>8. choice' \in [Positions -> Positions] BY <1>5, <1>6 DEF TypeOK
<1>9. Permutes(map') BY <1>5, <1>6, SwapKeepsAll
<1> QED BY <1>7, <1>8, <1>9 DEF TypeOK, IsPermutation, Permutes

LEMMA TypeStays == Spec => [](TypeOK /\ IsPermutation)
<1>1. Init => TypeOK /\ IsPermutation
  BY ShuffleAssumption DEF Init, TypeOK, IsPermutation, Positions
<1>2. TypeOK /\ IsPermutation /\ [Next]_vars => (TypeOK /\ IsPermutation)'
  <2>1. CASE UNCHANGED vars BY <2>1 DEF vars, TypeOK, IsPermutation
  <2> QED BY <2>1, StepKeeps DEF Next
<1> QED BY <1>1, <1>2, PTL DEF Spec

(***************************************************************************)
(* At every moment of the shuffle each digit is on exactly one key         *)
(* (pin.rs, map.swap in permutation).                                      *)
(***************************************************************************)
THEOREM KeypadComplete == Spec => []IsPermutation
BY TypeStays, PTL

-----------------------------------------------------------------------------
(***************************************************************************)
(* The samples below the limit fall evenly on the remainders.              *)
(***************************************************************************)
LEMMA Divided ==
    ASSUME NEW a \in Nat, NEW b \in Nat \ {0}
    PROVE  /\ a \div b \in Nat /\ a % b \in 0 .. b - 1
           /\ a = b * (a \div b) + (a % b)
OBVIOUS

LEMMA Farther ==
    ASSUME NEW p \in Int, NEW q \in Int, NEW b \in Nat \ {0}, p < q
    PROVE  p * b + b <= q * b
<1>1. PICK d \in Nat : q = p + 1 + d
  <2>1. q - p - 1 \in Nat /\ q = p + 1 + (q - p - 1)
    OBVIOUS
  <2> QED  BY <2>1
<1>2. q * b = p * b + b + d * b
  BY <1>1
<1>3. d * b \in Nat
  OBVIOUS
<1> QED  BY <1>2, <1>3

LEMMA OneQuotient ==
    ASSUME NEW q \in Nat, NEW b \in Nat \ {0}, NEW r \in 0 .. b - 1
    PROVE  (q * b + r) % b = r /\ (q * b + r) \div b = q
<1> DEFINE a == q * b + r
           d == a \div b
           m == a % b
<1>1. a \in Nat
  <2>1. q * b \in Nat
    OBVIOUS
  <2> QED  BY <2>1
<1>2. d \in Nat /\ m \in 0 .. b - 1 /\ a = b * d + m
  BY <1>1, Divided
<1>3. q * b \in Int /\ b * d = d * b /\ d * b \in Int
  BY <1>2
<1>4. q * b + r = d * b + m
  BY <1>2, <1>3
<1> HIDE DEF a, d, m
<1>5. ~ (q < d)
  BY <1>2, <1>3, <1>4, Farther
<1>6. ~ (d < q)
  BY <1>2, <1>3, <1>4, Farther
<1>7. d = q
  BY <1>2, <1>5, <1>6
<1>8. m = r
  BY <1>2, <1>3, <1>4, <1>7
<1> QED  BY <1>7, <1>8 DEF a, d, m

LEMMA LimitIs ==
    ASSUME NEW bound \in Nat \ {0}
    PROVE  Limit(bound) = (BYTE \div bound) * bound /\ Limit(bound) \in 0 .. BYTE
<1>1. BYTE \in Nat
  BY ShuffleAssumption
<1>2. /\ BYTE \div bound \in Nat /\ BYTE % bound \in 0 .. bound - 1
      /\ BYTE = bound * (BYTE \div bound) + (BYTE % bound)
  BY <1>1, Divided
<1>3. bound * (BYTE \div bound) = (BYTE \div bound) * bound /\ bound * (BYTE \div bound) \in Nat
  BY <1>2
<1> QED  BY <1>1, <1>2, <1>3 DEF Limit

LEMMA Even ==
    ASSUME NEW bound \in Nat \ {0}, NEW j \in 0 .. bound - 1
    PROVE  Cardinality({s \in Accepted(bound) : s % bound = j}) * bound = Limit(bound)
<1> DEFINE S == {s \in Accepted(bound) : s % bound = j}
           q == BYTE \div bound
           f == [t \in 1 .. q |-> (t - 1) * bound + j]
<1>1. BYTE \in Nat /\ q \in Nat /\ Limit(bound) = q * bound /\ Limit(bound) \in 0 .. BYTE
  BY ShuffleAssumption, Divided, LimitIs
<1>2. \A s : s \in S <=> s \in Nat /\ s < q * bound /\ s % bound = j
  BY <1>1 DEF Accepted
<1> HIDE DEF q, S
<1>3. ASSUME NEW t \in 1 .. q
      PROVE  /\ (t - 1) * bound + j \in S
             /\ ((t - 1) * bound + j) \div bound = t - 1
  <2>1. t - 1 \in Nat /\ t - 1 < q
    BY <1>1
  <2>2. (t - 1) * bound \in Nat /\ (t - 1) * bound + bound <= q * bound
    BY <1>1, <2>1, Farther
  <2>3. ((t - 1) * bound + j) % bound = j /\ ((t - 1) * bound + j) \div bound = t - 1
    BY <2>1, OneQuotient
  <2>4. (t - 1) * bound + j \in Nat /\ (t - 1) * bound + j < q * bound
    BY <1>1, <2>2
  <2> QED  BY <1>2, <2>3, <2>4
<1>4. f \in [1 .. q -> S]
  BY <1>3
<1>5. ASSUME NEW t \in 1 .. q, NEW u \in 1 .. q, f[t] = f[u]
      PROVE  t = u
  <2>1. t - 1 = u - 1
    BY <1>3, <1>5
  <2> QED  BY <2>1
<1>6. ASSUME NEW s \in S
      PROVE  \E t \in 1 .. q : f[t] = s
  <2> DEFINE d == s \div bound
  <2>1. s \in Nat /\ s < q * bound /\ s % bound = j
    BY <1>2
  <2>2. d \in Nat /\ s = bound * d + j
    BY <2>1, Divided
  <2> HIDE DEF d
  <2>3. s = d * bound + j /\ d * bound \in Nat
    BY <2>2
  <2>4. ~ (q <= d)
    <3> SUFFICES ASSUME q <= d
                 PROVE  FALSE
      OBVIOUS
    <3>1. CASE q = d
      BY <2>1, <2>3, <3>1
    <3>2. CASE q < d
      <4>1. q * bound + bound <= d * bound
        BY <1>1, <2>2, <3>2, Farther
      <4> QED  BY <1>1, <2>1, <2>3, <4>1
    <3> QED  BY <1>1, <2>2, <3>1, <3>2
  <2>5. d + 1 \in 1 .. q /\ (d + 1) - 1 = d
    BY <1>1, <2>2, <2>4
  <2>6. f[d + 1] = s
    BY <2>3, <2>5
  <2> QED  BY <2>5, <2>6
<1>7. f \in Bijection(1 .. q, S)
  BY <1>4, <1>5, <1>6 DEF Bijection, Injection, Surjection, IsInjective
<1>8. Cardinality(S) = q
  BY <1>1, <1>7, FS_CountingElements DEF ExistsBijection
<1> QED  BY <1>1, <1>8 DEF S

\* An induction over numbers is the choice of a least counterexample.
LEMMA Smallest ==
    ASSUME NEW S \in SUBSET Nat, S # {}
    PROVE  \E n \in S : \A m \in S : n <= m
<1> DEFINE R == OpToRel(<, Nat)
<1>1. IsWellFoundedOn(R, Nat)
  BY NatLessThanWellFounded
<1>2. \A m, n \in Nat : m < n => <<m, n>> \in R
  BY DEF OpToRel
<1> HIDE DEF R
<1>3. PICK n \in S : \A m \in S : ~ (<<m, n>> \in R)
  BY <1>1, WFMin
<1>4. \A m \in S : ~ (m < n) /\ m \in Nat /\ n \in Nat
  BY <1>2, <1>3
<1> QED  BY <1>4

(***************************************************************************)
(* For every number of digits and of byte values, the accepted samples     *)
(* fall on each position equally often (pin.rs, limit in permutation).     *)
(***************************************************************************)
THEOREM DrawsEven == Spec => []EvenChoice
<1>1. ASSUME TypeOK PROVE EvenChoice
  <2> SUFFICES ASSUME NEW bound \in i + 1 .. 2 * N, NEW j \in 0 .. bound - 1
               PROVE  Cardinality({s \in Accepted(bound) : s % bound = j}) * bound = Limit(bound)
    BY DEF EvenChoice
  <2>1. bound \in Nat \ {0}
    BY <1>1, ShuffleAssumption DEF TypeOK, Positions
  <2> QED  BY <2>1, Even
<1> QED  BY <1>1, TypeStays, PTL

-----------------------------------------------------------------------------
(***************************************************************************)
(* at is the keypads on the way to m, whose shuffle is down to position k; *)
(* what they say of the choices.                                           *)
(***************************************************************************)
LeadsTo(at, m, k) ==
    at = [p \in k .. N - 1 |->
            IF p = N - 1 THEN [q \in Positions |-> q]
            ELSE Swapped(at[p + 1], p + 1, Where(at[p + 1], m[p + 1]))]

ReplayInv ==
    \E at :
        /\ LeadsTo(at, map, i) /\ at[i] = map
        /\ \A p \in i + 1 .. N - 1 : Where(at[p], map[p]) = choice[p]

\* The replay takes one way only, by induction from the last position down.
LEMMA OneWay ==
    ASSUME NEW m, NEW k \in Positions, NEW a, NEW b, LeadsTo(a, m, k), LeadsTo(b, m, k)
    PROVE  a = b
<1>1. N \in Nat \ {0} /\ k \in 0 .. N - 1
  BY ShuffleAssumption DEF Positions
<1> DEFINE Apart == {t \in 0 .. N - 1 - k : a[N - 1 - t] # b[N - 1 - t]}
<1>2. Apart = {}
  <2> SUFFICES ASSUME Apart # {}
               PROVE  FALSE
    OBVIOUS
  <2>1. PICK t \in Apart : \A u \in Apart : t <= u
    <3>1. Apart \in SUBSET Nat
      OBVIOUS
    <3> HIDE DEF Apart
    <3> QED  BY <3>1, Smallest
  <2> DEFINE p == N - 1 - t
  <2>2. t \in Nat /\ p \in k .. N - 1 /\ N - 1 \in k .. N - 1 /\ a[p] # b[p]
    BY <1>1
  <2>3. a[N - 1] = b[N - 1]
    BY <2>2 DEF LeadsTo
  <2>4. p # N - 1
    BY <2>2, <2>3
  <2>5. t - 1 \in 0 .. N - 1 - k /\ ~ (t <= t - 1) /\ N - 1 - (t - 1) = p + 1
    BY <1>1, <2>2, <2>4
  <2>6. a[p + 1] = b[p + 1]
    BY <2>1, <2>5
  <2> HIDE DEF p
  <2>7. a[p] = b[p]
    <3>1. a[p] = Swapped(a[p + 1], p + 1, Where(a[p + 1], m[p + 1]))
      BY <2>2, <2>4 DEF LeadsTo
    <3>2. b[p] = Swapped(b[p + 1], p + 1, Where(b[p + 1], m[p + 1]))
      BY <2>2, <2>4 DEF LeadsTo
    <3> QED  BY <2>6, <3>1, <3>2
  <2> QED  BY <2>2, <2>7
<1>3. \A p \in k .. N - 1 : a[p] = b[p]
  <2> SUFFICES ASSUME NEW p \in k .. N - 1
               PROVE  a[p] = b[p]
    OBVIOUS
  <2>1. N - 1 - p \in 0 .. N - 1 - k /\ N - 1 - (N - 1 - p) = p
    BY <1>1
  <2> QED  BY <1>2, <2>1
<1> QED  BY <1>3 DEF LeadsTo

LEMMA ReplayIs ==
    ASSUME TypeOK, NEW at, LeadsTo(at, map, i)
    PROVE  Replay = at
<1> DEFINE way == CHOOSE a : LeadsTo(a, map, i)
<1>1. Replay = way
  BY DEF Replay, LeadsTo
<1>2. LeadsTo(way, map, i)
  OBVIOUS
<1> QED  BY <1>1, <1>2, OneWay DEF TypeOK

LEMMA InitReplay == Init => ReplayInv
<1> SUFFICES ASSUME Init
             PROVE  ReplayInv
  OBVIOUS
<1>1. N \in Nat \ {0} /\ i = N - 1
  BY ShuffleAssumption DEF Init
<1> DEFINE at == [p \in N - 1 .. N - 1 |-> map]
<1>2. LeadsTo(at, map, i)
  BY <1>1 DEF LeadsTo, Init
<1>3. at[i] = map
  BY <1>1
<1> HIDE DEF at
<1> QED  BY <1>1, <1>2, <1>3 DEF ReplayInv

\* The digit a step brings to its position tells the position it chose.
LEMMA StepReplay ==
    ASSUME TypeOK, IsPermutation, ReplayInv, Step
    PROVE  ReplayInv'
<1>1. N \in Nat \ {0} /\ i \in 1 .. N - 1 /\ i' = i - 1
  BY ShuffleAssumption DEF Step, TypeOK, Positions
<1>2. PICK j \in 0 .. i : map' = Swapped(map, i, j) /\ choice' = [choice EXCEPT ![i] = j]
  <2>1. PICK s \in Accepted(i + 1) :
          LET j == s % (i + 1)
          IN  map' = Swapped(map, i, j) /\ choice' = [choice EXCEPT ![i] = j]
    BY DEF Step
  <2>2. s \in Nat /\ i + 1 \in Nat \ {0}
    BY <1>1, <2>1, ShuffleAssumption DEF Accepted
  <2>3. s % (i + 1) \in 0 .. (i + 1) - 1
    BY <2>2, Reduced
  <2>4. s % (i + 1) \in 0 .. i
    BY <1>1, <2>3
  <2> QED  BY <2>1, <2>4
<1>3. i \in Positions /\ j \in Positions
  BY <1>1 DEF Positions
<1>4. map'[i] = map[j] /\ \A p \in i + 1 .. N - 1 : map'[p] = map[p] /\ choice'[p] = choice[p]
  <2>1. \A p \in Positions : map'[p] = IF p = j THEN map[i] ELSE IF p = i THEN map[j] ELSE map[p]
    BY <1>2, <1>3 DEF Swapped, TypeOK
  <2>2. \A p \in i + 1 .. N - 1 : p \in Positions /\ p # i /\ p # j
    BY <1>1, <1>2 DEF Positions
  <2>3. \A p \in i + 1 .. N - 1 : choice'[p] = choice[p]
    BY <1>2, <2>2 DEF TypeOK
  <2> QED  BY <1>3, <2>1, <2>2, <2>3
<1>5. choice'[i] = j
  BY <1>2, <1>3 DEF TypeOK
<1>6. Where(map, map'[i]) = j
  <2>1. map[j] = map'[i] /\ \A p \in Positions : map[p] = map'[i] => p = j
    BY <1>3, <1>4 DEF IsPermutation
  <2> QED  BY <1>3, <2>1 DEF Where
<1>7. PICK at : /\ LeadsTo(at, map, i) /\ at[i] = map
                /\ \A p \in i + 1 .. N - 1 : Where(at[p], map[p]) = choice[p]
  BY DEF ReplayInv
<1> DEFINE to == [p \in i - 1 .. N - 1 |-> IF p = i - 1 THEN map' ELSE at[p]]
<1>8. to[i - 1] = map' /\ \A p \in i .. N - 1 : to[p] = at[p]
  BY <1>1
<1>9. LeadsTo(to, map', i - 1)
  <2> DEFINE via(p) == IF p = N - 1 THEN [q \in Positions |-> q]
                       ELSE Swapped(to[p + 1], p + 1, Where(to[p + 1], map'[p + 1]))
  <2> SUFFICES \A p \in i - 1 .. N - 1 : to[p] = via(p)
    <3>1. to = [p \in i - 1 .. N - 1 |-> to[p]]
      OBVIOUS
    <3> HIDE DEF to
    <3> QED  BY <3>1 DEF LeadsTo
  <2> SUFFICES ASSUME NEW p \in i - 1 .. N - 1
               PROVE  to[p] = via(p)
    OBVIOUS
  <2>1. CASE p = i - 1
    <3>1. p # N - 1 /\ p + 1 = i /\ to[p + 1] = map
      BY <1>1, <1>7, <1>8, <2>1
    <3> HIDE DEF to
    <3>2. via(p) = Swapped(map, i, j)
      BY <1>6, <3>1
    <3> QED  BY <1>2, <1>8, <2>1, <3>2
  <2>2. CASE p = N - 1
    <3>1. p \in i .. N - 1
      BY <1>1, <2>2
    <3>2. at[p] = [q \in Positions |-> q]
      BY <1>7, <2>2, <3>1 DEF LeadsTo
    <3> HIDE DEF to
    <3> QED  BY <1>8, <2>2, <3>1, <3>2
  <2>3. CASE p # i - 1 /\ p # N - 1
    <3>1. p \in i .. N - 1 /\ p + 1 \in i .. N - 1 /\ p + 1 \in i + 1 .. N - 1
      BY <1>1, <2>3
    <3>2. at[p] = Swapped(at[p + 1], p + 1, Where(at[p + 1], map[p + 1]))
      BY <1>7, <2>3, <3>1 DEF LeadsTo
    <3>3. to[p] = at[p] /\ to[p + 1] = at[p + 1] /\ map'[p + 1] = map[p + 1]
      BY <1>4, <1>8, <3>1
    <3> HIDE DEF to
    <3> QED  BY <2>3, <3>2, <3>3
  <2> QED  BY <2>1, <2>2, <2>3
<1> HIDE DEF to
<1>10. ASSUME NEW p \in i .. N - 1
       PROVE  Where(to[p], map'[p]) = choice'[p]
  <2>1. CASE p = i
    BY <1>1, <1>5, <1>6, <1>7, <1>8, <2>1
  <2>2. CASE p # i
    <3>1. p \in i + 1 .. N - 1
      BY <1>1, <2>2
    <3> QED  BY <1>4, <1>7, <1>8, <3>1
  <2> QED  BY <2>1, <2>2
<1>11. i' + 1 = i
  BY <1>1
<1> QED  BY <1>1, <1>8, <1>9, <1>10, <1>11 DEF ReplayInv

(***************************************************************************)
(* For every number of digits, the keypad tells the choices that made it:  *)
(* no two series of draws lead to the same keypad (pin.rs, the loop of     *)
(* permutation and the bound i + 1).                                       *)
(***************************************************************************)
THEOREM ChoicesDiffer == Spec => []ChoicesTell
<1>1. TypeOK /\ ReplayInv => ChoicesTell
  BY ReplayIs DEF ReplayInv, ChoicesTell
<1>2. TypeOK /\ IsPermutation /\ ReplayInv /\ [Next]_vars => ReplayInv'
  <2>1. CASE UNCHANGED vars
    BY <2>1 DEF vars, ReplayInv
  <2> QED  BY <2>1, StepReplay DEF Next
<1> QED  BY <1>1, <1>2, InitReplay, TypeStays, PTL DEF Spec
====
