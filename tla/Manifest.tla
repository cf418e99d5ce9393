------------------------------ MODULE Manifest ------------------------------
(***************************************************************************)
(* The codec of manifest.bin (manifest.rs) as far as its lengths go: a     *)
(* file is the first `size` bytes of an encoded manifest, of which a loss  *)
(* of power may have left any part.  The header is 142 bytes, of which the *)
(* last two are the length of the credential ID that follows.              *)
(***************************************************************************)
EXTENDS Naturals

HEADER == 142      \* magic 8, UUID 36, salt 32, public key 64, length 2
CID_MAX == 1024
READ_LIMIT == 2048 \* of read_trusted at unlock

\* An enrollment takes the length that libfido2 reports, within bounds.
bounded(len, max) == len # 0 /\ len <= max

\* The length is cast to sixteen bits.
encode(cid) == [field |-> cid % 65536, size |-> HEADER + cid]

\* decode of the first size bytes of a manifest with this length field.
decodes(field, size) ==
    /\ size >= HEADER + 1
    /\ field # 0 /\ field <= CID_MAX
    /\ size = HEADER + field
=============================================================================
