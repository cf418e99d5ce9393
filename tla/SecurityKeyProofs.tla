-------------------------- MODULE SecurityKeyProofs --------------------------
(***************************************************************************)
(* A command's dealings with security keys, for any number of keys, nodes, *)
(* tries and commands.                                                     *)
(***************************************************************************)
EXTENDS SecurityKey, TLAPS

\* What was asked of a key since the command began, and after the signal.
AskedInv ==
    /\ wrong \in {0, 1} /\ late \in {0, 1}
    /\ wrong = 1 => pc = "over"
    /\ late = 1 => interrupted /\ pc \in {"over", "check", "answer"}

\* libfido2's answer is something a key has signed, and the user has confirmed
\* it if it says so.
AnswerInv ==
    /\ signed \subseteq Signed
    /\ \A s \in signed : s.up /\ s.uv => s.of \in confirmed
    /\ pc = "answer" => answer.signed \in signed

\* An unlock has a manifest to go by, and slot 4 was made with the secret of
\* the credential it names; an enrollment has none until it has written its own.
PinnedInv ==
    /\ cmd \in {"none", "enroll", "unlock"} /\ (cmd = "none" => pc = "over")
    /\ cmd = "unlock" /\ pc # "over" => bound # None
    /\ cmd = "enroll" /\ pc # "over" => bound = None
    /\ pc = "add" => cmd = "enroll" /\ manifest = made
    /\ bound # None => bound = [cred |-> manifest, uv |-> TRUE]

SecretInv ==
    /\ secret # None => pc \in {"derived", "add"}
    /\ pc \in {"derived", "add"} =>
          /\ secret = [cred |-> Pinned, uv |-> TRUE]
          /\ nonce \in confirmed
          /\ [cred |-> Pinned, of |-> nonce, up |-> TRUE, uv |-> TRUE] \in signed

IInv == AskedInv /\ AnswerInv /\ PinnedInv /\ SecretInv

-----------------------------------------------------------------------------
LEMMA InitInv == Init => IInv
BY DEF Init, IInv, AskedInv, AnswerInv, PinnedInv, SecretInv

\* The steps that ask nothing of a key.
LEMMA QuietInv ==
    IInv /\ (StartCommand \/ device \/ open \/ ReadPin \/ enroll) => IInv'
<1> SUFFICES ASSUME IInv, StartCommand \/ device \/ open \/ ReadPin \/ enroll
             PROVE  IInv'
  OBVIOUS
<1> USE DEF IInv, AskedInv, AnswerInv, PinnedInv, SecretInv, Leave, others, keyVars, hostVars
<1>1. CASE StartCommand
  BY <1>1 DEF StartCommand
<1>2. CASE device
  BY <1>2 DEF device
<1>3. CASE open
  BY <1>3 DEF open
<1>4. CASE ReadPin
  BY <1>4 DEF ReadPin
<1>5. CASE enroll
  BY <1>5 DEF enroll
<1> QED
  BY <1>1, <1>2, <1>3, <1>4, <1>5

\* A touch that is asked for after the signal is the last step but one.
LEMMA make_credInv == IInv /\ make_cred => IInv'
BY DEF make_cred, Ask, Refused, Leave, IInv, AskedInv, AnswerInv, PinnedInv, SecretInv

LEMMA get_assertInv == IInv /\ get_assert => IInv'
<1> SUFFICES ASSUME IInv, get_assert
             PROVE  IInv'
  OBVIOUS
<1>1. pc = "derive" /\ Ask /\ creds' = creds
  BY DEF get_assert
<1>2. CASE Refused /\ Leave /\ UNCHANGED <<signed, confirmed>>
  BY <1>1, <1>2
     DEF Ask, Refused, Leave, IInv, AskedInv, AnswerInv, PinnedInv, SecretInv
<1>3. CASE \E s \in Answers(nonce'), c \in creds, whole \in BOOLEAN :
              /\ answer' = [id |-> c, whole |-> whole, signed |-> s]
              /\ signed' = signed \cup {s}
              /\ confirmed' = IF s.up /\ s.uv THEN confirmed \cup {s.of} ELSE confirmed
              /\ pc' = "answer" /\ UNCHANGED <<node, dev, pin, made, secret, retries, wrong>>
  <2>1. PICK s \in Answers(nonce'), c \in creds, whole \in BOOLEAN :
              /\ answer' = [id |-> c, whole |-> whole, signed |-> s]
              /\ signed' = signed \cup {s}
              /\ confirmed' = IF s.up /\ s.uv THEN confirmed \cup {s.of} ELSE confirmed
              /\ pc' = "answer" /\ UNCHANGED <<node, dev, pin, made, secret, retries, wrong>>
    BY <1>3
  <2>2. s \in Signed
    BY DEF Answers, IInv, AnswerInv
  <2>3. AnswerInv'
    BY <2>1, <2>2 DEF IInv, AnswerInv
  <2>4. AskedInv'
    BY <1>1, <2>1 DEF Ask, IInv, AskedInv
  <2>5. PinnedInv' /\ SecretInv'
    BY <1>1, <2>1 DEF Ask, IInv, PinnedInv, SecretInv
  <2> QED
    BY <2>3, <2>4, <2>5 DEF IInv
<1> QED
  BY <1>2, <1>3 DEF get_assert

\* The secret is computed by the signer of what was verified.
LEMMA deriveInv == IInv /\ derive => IInv'
<1> SUFFICES ASSUME IInv, derive
             PROVE  IInv'
  OBVIOUS
<1>1. CASE Leave /\ UNCHANGED others
  BY <1>1 DEF Leave, others, keyVars, IInv, AskedInv, AnswerInv, PinnedInv, SecretInv
<1>2. CASE /\ ~interrupted /\ verify(answer.signed)
           /\ secret' = [cred |-> answer.signed.cred, uv |-> answer.signed.uv]
           /\ pc' = "derived" /\ UNCHANGED <<node, made, answer>> /\ UNCHANGED others
  <2>1. /\ answer.signed \in signed /\ answer.signed \in Signed
        /\ answer.signed.of \in confirmed
    BY <1>2 DEF derive, verify, IInv, AnswerInv
  <2>2. answer.signed = [cred |-> Pinned, of |-> nonce, up |-> TRUE, uv |-> TRUE]
    BY <1>2, <2>1 DEF verify, Signed
  <2>3. Pinned' = Pinned /\ nonce' = nonce /\ signed' = signed /\ confirmed' = confirmed
    BY <1>2 DEF others, keyVars, Pinned
  <2>4. SecretInv'
    BY <1>2, <2>1, <2>2, <2>3 DEF SecretInv
  <2>5. AskedInv' /\ AnswerInv' /\ PinnedInv'
    BY <1>2 DEF derive, others, keyVars, IInv, AskedInv, AnswerInv, PinnedInv
  <2> QED
    BY <2>4, <2>5 DEF IInv
<1> QED
  BY <1>1, <1>2 DEF derive

LEMMA UseSecretInv == IInv /\ UseSecret => IInv'
BY DEF UseSecret, Leave, quiet, keyVars, IInv, AskedInv, AnswerInv, PinnedInv, SecretInv

\* The manifest names the credential of the secret that is still in hand.
LEMMA WriteManifestInv == IInv /\ WriteManifest => IInv'
<1> SUFFICES ASSUME IInv, WriteManifest
             PROVE  IInv'
  OBVIOUS
<1> USE DEF IInv, AskedInv, AnswerInv, PinnedInv, SecretInv
<1>1. CASE pc' = "add"
  BY <1>1 DEF WriteManifest, Leave, quiet, keyVars, Pinned
<1>2. CASE Leave /\ UNCHANGED manifest
  BY <1>2 DEF WriteManifest, Leave, quiet, keyVars
<1> QED
  BY <1>1, <1>2 DEF WriteManifest

\* Slot 4 is made with the secret of the credential that the manifest names.
LEMMA AddSlotInv == IInv /\ AddSlot => IInv'
BY DEF AddSlot, Leave, quiet, keyVars, Pinned, IInv, AskedInv, AnswerInv, PinnedInv, SecretInv

LEMMA NextInv == IInv /\ [Next]_vars => IInv'
<1> SUFFICES ASSUME IInv, [Next]_vars
             PROVE  IInv'
  OBVIOUS
<1> USE DEF IInv, AskedInv, AnswerInv, PinnedInv, SecretInv, Pinned
<1>1. CASE Plug
  BY <1>1 DEF Plug
<1>2. CASE Signal
  BY <1>2 DEF Signal, keyVars
<1>3. CASE UNCHANGED vars
  BY <1>3 DEF vars, keyVars, hostVars
<1> QED
  BY <1>1, <1>2, <1>3, QuietInv, make_credInv, get_assertInv, deriveInv, UseSecretInv,
     WriteManifestInv, AddSlotInv DEF Next, Command

-----------------------------------------------------------------------------
(***************************************************************************)
(* What fido::Device and its callers know of the answer, the manifest and  *)
(* the secret holds throughout.                                            *)
(***************************************************************************)
THEOREM Invariant == Spec => []IInv
BY InitInv, NextInv, PTL DEF Spec

(***************************************************************************)
(* The secret of an unlock is the enrolled one, whichever keys were        *)
(* plugged (fido.rs, derive).                                              *)
(***************************************************************************)
THEOREM SecretEnrolled == Spec => []SecretIsTheEnrolledOne
<1>1. IInv => SecretIsTheEnrolledOne
  BY DEF IInv, PinnedInv, SecretInv, Pinned, SecretIsTheEnrolledOne
<1> QED
  BY <1>1, Invariant, PTL

(***************************************************************************)
(* No command goes on with a secret without PIN and touch for its own      *)
(* challenge (fido.rs, verify).                                            *)
(***************************************************************************)
THEOREM SecretConfirmed == Spec => []EachSecretIsConfirmed
<1>1. IInv => EachSecretIsConfirmed
  BY DEF IInv, SecretInv, EachSecretIsConfirmed
<1> QED
  BY <1>1, Invariant, PTL

(***************************************************************************)
(* A command costs a key at most one of its tries (fido.rs, check).        *)
(***************************************************************************)
THEOREM OneTryOnly == Spec => []OneWrongPin
<1>1. IInv => OneWrongPin
  BY DEF IInv, AskedInv, OneWrongPin
<1> QED
  BY <1>1, Invariant, PTL

(***************************************************************************)
(* One touch is asked for after a signal at the most (fido.rs, enroll).    *)
(***************************************************************************)
THEOREM OneTouchOnly == Spec => []OneTouchAfterSignal
<1>1. IInv => OneTouchAfterSignal
  BY DEF IInv, AskedInv, OneTouchAfterSignal
<1> QED
  BY <1>1, Invariant, PTL
=============================================================================
