------------------------------- MODULE Shuffle -------------------------------
(***************************************************************************)
(* permutation() of pin.rs, one draw at a time: a Fisher-Yates shuffle of  *)
(* the keypad whose random bytes are rejected above the largest multiple   *)
(* of the bound they are reduced by.                                       *)
(***************************************************************************)
EXTENDS Naturals, FiniteSets

CONSTANTS
    N,      \* digits on the keypad (10)
    BYTE    \* values of a random byte (256)

ASSUME ShuffleAssumption == N \in Nat \ {0} /\ BYTE \in Nat /\ N <= BYTE

Positions == 0 .. N - 1

VARIABLES
    i,       \* the position to be filled; 0 when the loop is over
    map,     \* the keypad
    choice   \* the position each step has swapped with

vars == <<i, map, choice>>

TypeOK ==
    /\ i \in Positions
    /\ map \in [Positions -> Positions]
    /\ choice \in [Positions -> Positions]

Init ==
    /\ i = N - 1
    /\ map = [k \in Positions |-> k]
    /\ choice = [k \in Positions |-> k]

\* Mutant: no sample is rejected.
LimitNone(bound) == BYTE
Limit(bound) == BYTE - (BYTE % bound)

\* Mutant: half of an exchange.
Moved(m, a, b) == [m EXCEPT ![a] = m[b]]
Swapped(m, a, b) == [m EXCEPT ![a] = m[b], ![b] = m[a]]

\* A sample at or above the limit is thrown away and another one drawn.
Accepted(bound) == {s \in 0 .. BYTE - 1 : s < Limit(bound)}

\* Mutant: every step chooses among all positions.
StepNaive ==
    /\ i > 0
    /\ \E s \in Accepted(N) :
         LET j == s % N
         IN  map' = Swapped(map, i, j) /\ choice' = [choice EXCEPT ![i] = j]
    /\ i' = i - 1

Step ==
    /\ i > 0
    /\ \E s \in Accepted(i + 1) :
         LET j == s % (i + 1)
         IN  map' = Swapped(map, i, j) /\ choice' = [choice EXCEPT ![i] = j]
    /\ i' = i - 1

Next == Step \/ (i = 0 /\ UNCHANGED vars)
Spec == Init /\ [][Next]_vars

-----------------------------------------------------------------------------
(***************************************************************************)
(* The keypad always shows every digit exactly once (pin.rs, map.swap).    *)
(***************************************************************************)
IsPermutation ==
    /\ \A a, b \in Positions : map[a] = map[b] => a = b
    /\ \A v \in Positions : \E a \in Positions : map[a] = v

(***************************************************************************)
(* Every position of a step is chosen by the same number of byte values:   *)
(* the rejection leaves no bias of the remainder (pin.rs, limit).  Besides *)
(* the bound of the present step this is about those of keypads up to      *)
(* twice as large, so that a small N speaks for the ten of the program.    *)
(***************************************************************************)
EvenChoice ==
    \A bound \in i + 1 .. 2 * N :
        \A j \in 0 .. bound - 1 :
            Cardinality({s \in Accepted(bound) : s % bound = j}) * bound = Limit(bound)

\* The keypads on the way to the present one, found by replaying the shuffle:
\* the step for position k took what is at k in the end from where it was then.
Where(m, v) == CHOOSE p \in Positions : m[p] = v
Replay ==
    LET at[k \in i .. N - 1] ==
          IF k = N - 1 THEN [p \in Positions |-> p]
          ELSE Swapped(at[k + 1], k + 1, Where(at[k + 1], map[k + 1]))
    IN  at

(***************************************************************************)
(* No two series of choices lead to the same keypad.  With EvenChoice this *)
(* makes all the N! keypads equally likely (pin.rs, the order of the loop  *)
(* and the bound i + 1).                                                   *)
(***************************************************************************)
ChoicesTell == \A k \in i + 1 .. N - 1 : Where(Replay[k], map[k]) = choice[k]
=============================================================================
