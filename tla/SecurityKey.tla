---------------------------- MODULE SecurityKey ----------------------------
(***************************************************************************)
(* A command's dealings with the security key: the wait for its device     *)
(* node (unlock.rs, device), the PIN, the credential an enrollment makes   *)
(* and the assertion whose hmac-secret is a factor of the key (fido.rs),   *)
(* while keys are plugged in and out, a PIN is that of another key, and    *)
(* what libfido2 hands back may be incomplete, of an earlier request or    *)
(* made without the user.                                                  *)
(***************************************************************************)
EXTENDS Naturals, FiniteSets

CONSTANTS
    Keys,      \* FIDO2 security keys, each with a PIN of its own
    Wanted,    \* those whose HID identity, a model's, is the configured one
    Nodes,     \* hidraw nodes, which are used again
    None,      \* no key, a key that is gone, no manifest
    Retries,   \* wrong PINs before a key blocks itself (8)
    Commands   \* bound: commands run one after the other

ASSUME SecurityKeyAssumption ==
    /\ Wanted \subseteq Keys /\ None \notin Keys
    /\ Retries \in Nat /\ Commands \in Nat

VARIABLES
    plugged,   \* which key each node stands for
    creds,     \* the credentials that keys hold
    retries,   \* wrong PINs each key still takes
    signed,    \* what keys have signed
    confirmed, \* the challenges that were signed after PIN and touch
    commands, cmd, pc, interrupted,
    node,      \* what the wait found
    dev,       \* the key that is open
    pin,       \* the key whose PIN was typed
    nonce,     \* the newest challenge, or none yet
    made,      \* the credential an enrollment makes
    answer,    \* what libfido2 returned
    manifest,  \* the credential that manifest.bin names, with its salt
    secret,    \* what derive returned
    bound,     \* the secret that keyslot 4 was made with
    wrong,     \* wrong PINs this command sent to a key
    late       \* touches it asked for after the signal

keyVars == <<plugged, creds, retries, signed, confirmed>>
hostVars == <<commands, cmd, pc, interrupted, node, dev, pin, nonce, made, answer, manifest,
              secret, bound, wrong, late>>
vars == <<keyVars, hostVars>>
\* What a step that does not speak to a key leaves alone.
others == <<keyVars, commands, cmd, interrupted, nonce, manifest, bound, wrong, late>>

\* A credential is named by the challenge it was made for; its salt is as new.
Credentials == [key : Keys, of : 1 .. 2 * Commands]
Secrets == [cred : Credentials, uv : BOOLEAN]
Signed == [cred : Credentials, of : 0 .. 2 * Commands, up : BOOLEAN, uv : BOOLEAN]

Init ==
    /\ plugged = [n \in Nodes |-> None] /\ creds = {} /\ retries = [k \in Keys |-> Retries]
    /\ signed = {} /\ confirmed = {}
    /\ commands = 0 /\ cmd = "none" /\ pc = "over" /\ interrupted = FALSE
    /\ node = None /\ dev = None /\ pin = None /\ nonce = 0 /\ made = None /\ answer = None
    /\ manifest = None /\ secret = None /\ bound = None /\ wrong = 0 /\ late = 0

-----------------------------------------------------------------------------
\* Every way out drops the device, the PIN and what derive has returned.
Leave ==
    /\ pc' = "over" /\ node' = None /\ dev' = None /\ pin' = None /\ made' = None
    /\ answer' = None /\ secret' = None

\* An enrollment comes to the key only if there is neither manifest nor slot,
\* an unlock, as which a verification counts here, only if there are both.
StartCommand ==
    /\ pc = "over" /\ commands < Commands
    /\ commands' = commands + 1
    /\ \/ manifest = None /\ bound = None /\ cmd' = "enroll"
       \/ manifest # None /\ bound # None /\ cmd' = "unlock"
    /\ pc' = "scan" /\ interrupted' = FALSE /\ wrong' = 0 /\ late' = 0
    /\ UNCHANGED <<keyVars, node, dev, pin, nonce, made, answer, manifest, secret, bound>>

\* One look at the nodes: two keys are an error, one is taken; only without
\* any are the flag and the deadline looked at.
device ==
    /\ pc = "scan"
    /\ LET found == {n \in Nodes : plugged[n] \in Wanted}
       IN  \/ /\ Cardinality(found) = 1
              /\ node' \in found /\ pc' = "open"
              /\ UNCHANGED <<dev, pin, made, answer, secret>>
           \/ found = {} /\ ~interrupted /\ UNCHANGED hostVars
           \/ Leave
    /\ UNCHANGED others

\* The node may stand for another key by now.
open ==
    /\ pc = "open"
    /\ \/ /\ plugged[node] # None
          /\ dev' = plugged[node] /\ pc' = "pin"
          /\ UNCHANGED <<node, pin, made, answer, secret>>
       \/ Leave
    /\ UNCHANGED others

ReadPin ==
    /\ pc = "pin"
    /\ \/ /\ ~interrupted
          /\ pin' \in Keys /\ pc' = IF cmd = "enroll" THEN "make" ELSE "derive"
          /\ UNCHANGED <<node, dev, made, answer, secret>>
       \/ Leave
    /\ UNCHANGED others

\* A call that needs the PIN: the key is gone, or blocked, or the touch never
\* comes, or the PIN is wrong, which the key counts.
Refused ==
    \/ UNCHANGED <<retries, wrong>>
    \/ /\ dev # None /\ pin # dev /\ retries[dev] > 0
       /\ retries' = [retries EXCEPT ![dev] = @ - 1] /\ wrong' = wrong + 1
Verified == dev # None /\ pin = dev /\ retries[dev] > 0

\* Both calls draw a new challenge and ask for a touch.
Ask ==
    /\ nonce' = nonce + 1
    /\ late' = IF interrupted THEN late + 1 ELSE late
    /\ UNCHANGED <<plugged, commands, cmd, interrupted, manifest, bound>>

\* fido_dev_make_cred.  The key may hold the credential though the call fails,
\* and may give less protection than it was asked for.
make_cred ==
    /\ pc = "make" /\ Ask
    /\ \/ Refused /\ Leave /\ UNCHANGED creds
       \/ /\ Verified
          /\ creds' = creds \cup {[key |-> dev, of |-> nonce']}
          /\ \/ Leave
             \/ /\ \E whole \in BOOLEAN, prot \in 1 .. 3 :
                      answer' = [of |-> nonce', whole |-> whole, prot |-> prot]
                /\ pc' = "check" /\ UNCHANGED <<node, dev, pin, made, secret>>
          /\ UNCHANGED <<retries, wrong>>
    /\ UNCHANGED <<signed, confirmed>>

\* Mutant: the flag is not looked at after the registration.
enrollOn ==
    /\ pc = "check"
    /\ \/ /\ answer.of = nonce /\ answer.prot = 3 /\ answer.whole
          /\ made' = [key |-> dev, of |-> nonce] /\ pc' = "derive"
          /\ UNCHANGED <<node, dev, pin, answer, secret>>
       \/ Leave
    /\ UNCHANGED others

\* The flag, the signature over the challenge, the protection, the lengths.
enroll ==
    /\ pc = "check"
    /\ \/ /\ ~interrupted
          /\ answer.of = nonce /\ answer.prot = 3 /\ answer.whole
          /\ made' = [key |-> dev, of |-> nonce] /\ pc' = "derive"
          /\ UNCHANGED <<node, dev, pin, answer, secret>>
       \/ Leave
    /\ UNCHANGED others

Pinned == IF cmd = "enroll" THEN made ELSE manifest

\* What libfido2 may return: something that the open key signs now, for this
\* challenge, or an earlier answer again, under any of the names of credentials.
Answers(n) ==
    {s \in Signed : s.cred \in creds /\ s.cred.key = dev /\ s.of = n /\ (s.uv => Verified)}
    \cup signed

\* Mutant: a PIN that was refused is sent again.
get_assert_again ==
    /\ pc = "derive" /\ Ask
    /\ \/ Refused /\ (Leave \/ UNCHANGED <<pc, node, dev, pin, made, answer, secret>>)
          /\ UNCHANGED <<signed, confirmed>>
       \/ /\ dev # None
          /\ \E s \in Answers(nonce'), c \in creds, whole \in BOOLEAN :
                /\ answer' = [id |-> c, whole |-> whole, signed |-> s]
                /\ signed' = signed \cup {s}
                /\ confirmed' = IF s.up /\ s.uv THEN confirmed \cup {s.of} ELSE confirmed
          /\ pc' = "answer" /\ UNCHANGED <<node, dev, pin, made, secret, retries, wrong>>
    /\ UNCHANGED creds

\* fido_dev_get_assert.  The user may see no need for the touch to be asked for.
get_assert ==
    /\ pc = "derive" /\ Ask
    /\ \/ Refused /\ Leave /\ UNCHANGED <<signed, confirmed>>
       \/ /\ dev # None
          /\ \E s \in Answers(nonce'), c \in creds, whole \in BOOLEAN :
                /\ answer' = [id |-> c, whole |-> whole, signed |-> s]
                /\ signed' = signed \cup {s}
                /\ confirmed' = IF s.up /\ s.uv THEN confirmed \cup {s.of} ELSE confirmed
          /\ pc' = "answer" /\ UNCHANGED <<node, dev, pin, made, secret, retries, wrong>>
    /\ UNCHANGED creds

\* Mutant: the options of the request are not set, so that libfido2 looks at
\* neither flag.
verifyAny(s) == s.cred = Pinned /\ s.of = nonce
\* Mutant: the challenge is not bound to the request.
verifyStale(s) == s.cred = Pinned /\ s.up /\ s.uv
\* fido_assert_verify under the pinned public key, for the challenge and the
\* options of this request.
verify(s) == s.cred = Pinned /\ s.of = nonce /\ s.up /\ s.uv

\* The flag, the shape of the answer and its credential, the signature; the
\* secret is the one that the signer computed.
derive ==
    /\ pc = "answer"
    /\ \/ /\ ~interrupted
          /\ answer.whole /\ answer.id = Pinned /\ verify(answer.signed)
          /\ secret' = [cred |-> answer.signed.cred, uv |-> answer.signed.uv]
          /\ pc' = "derived" /\ dev' = None /\ pin' = None
          /\ UNCHANGED <<node, made, answer>>
       \/ Leave
    /\ UNCHANGED others

\* What comes after the secret leaves this alone.
quiet == <<keyVars, commands, cmd, interrupted, nonce, wrong, late>>

\* An unlock opens the capsule's half and attaches the root volume, or fails.
UseSecret ==
    /\ pc = "derived" /\ cmd = "unlock"
    /\ Leave /\ UNCHANGED <<manifest, bound, quiet>>

\* An enrollment seals its capsule, and atomic_write looks at the flag; each
\* may fail.
WriteManifest ==
    /\ pc = "derived" /\ cmd = "enroll"
    /\ \/ /\ ~interrupted
          /\ manifest' = made /\ pc' = "add"
          /\ UNCHANGED <<node, dev, pin, made, answer, secret>>
       \/ Leave /\ UNCHANGED manifest
    /\ UNCHANGED <<bound, quiet>>

\* The recovery key is asked for, and the slot is made with the key; each may
\* fail, and then the manifest stays without a slot.
AddSlot ==
    /\ pc = "add"
    /\ Leave
    /\ bound' \in {bound, secret}
    /\ UNCHANGED <<manifest, quiet>>

Command ==
    StartCommand \/ device \/ open \/ ReadPin \/ make_cred \/ enroll \/ get_assert \/ derive
    \/ UseSecret \/ WriteManifest \/ AddSlot

-----------------------------------------------------------------------------
\* A key that is pulled out while it is open does not come back to the handle.
Plug ==
    \E n \in Nodes, k \in Keys \cup {None} :
        /\ k # None => \A m \in Nodes : plugged[m] # k
        /\ plugged[n] # k
        /\ plugged' = [plugged EXCEPT ![n] = k]
        /\ dev' = IF dev = plugged[n] THEN None ELSE dev
        /\ UNCHANGED <<creds, retries, signed, confirmed, commands, cmd, pc, interrupted, node,
                       pin, nonce, made, answer, manifest, secret, bound, wrong, late>>

Signal ==
    /\ pc # "over" /\ ~interrupted /\ interrupted' = TRUE
    /\ UNCHANGED <<keyVars, commands, cmd, pc, node, dev, pin, nonce, made, answer, manifest,
                   secret, bound, wrong, late>>

Next == Command \/ Plug \/ Signal

Spec == Init /\ [][Next]_vars

-----------------------------------------------------------------------------
(***************************************************************************)
(* Whatever keys were plugged and whatever was answered, the secret that   *)
(* an unlock or a verification goes on with is the one that keyslot 4 was  *)
(* made with (fido.rs, derive; enroll.rs).                                 *)
(***************************************************************************)
SecretIsTheEnrolledOne == secret # None /\ cmd # "enroll" => secret = bound

(***************************************************************************)
(* A command goes on with a secret only if the user gave the PIN and the   *)
(* touch to the pinned credential for the challenge of this very command:  *)
(* an earlier confirmation never counts (manifest.rs, challenge; fido.rs,  *)
(* verify).                                                                *)
(***************************************************************************)
EachSecretIsConfirmed ==
    secret # None =>
        /\ nonce \in confirmed
        /\ [cred |-> Pinned, of |-> nonce, up |-> TRUE, uv |-> TRUE] \in signed

(***************************************************************************)
(* A command costs at most one of the tries after which a security key     *)
(* blocks itself, although an enrollment sends the PIN twice (fido.rs,     *)
(* check: "no automatic PIN retry").                                       *)
(***************************************************************************)
OneWrongPin == wrong <= 1

(***************************************************************************)
(* After a signal the user is asked for one more touch at the most, though *)
(* neither libfido2 nor the wait for the device looks at the flag          *)
(* (fido.rs, enroll; unlock.rs, device).                                   *)
(***************************************************************************)
OneTouchAfterSignal == late <= 1
=============================================================================
