------------------------------- MODULE Crypto -------------------------------
(***************************************************************************)
(* The dispatch on algorithms of src/src/crypto.rs and the octets its KDFa *)
(* returns.  A digest is opaque: an octet of it is named by the block of   *)
(* HMAC output it is taken from.                                           *)
(***************************************************************************)
EXTENDS Integers, SequencesExt

SHA1 == 4
SHA256 == 11
SHA384 == 12
SHA512 == 13
SM3_256 == 18
NULL == 16

\* Alg::digest_size; NoSize stands for None.
NoSize == -1

AlgDigestSize(alg) ==
  CASE alg = SHA1 -> 20
    [] alg \in {SHA256, SM3_256} -> 32
    [] alg = SHA384 -> 48
    [] alg = SHA512 -> 64
    [] alg = NULL -> 0
    [] OTHER -> NoSize

\* Slip: the size 0 of TPM_ALG_NULL let through.
digest_size_Null(alg) == AlgDigestSize(alg)

\* crypto::digest_size; NoSize stands for the usage error.
digest_size(alg) == IF AlgDigestSize(alg) > 0 THEN AlgDigestSize(alg) ELSE NoSize

\* The algorithms hash_parts has a type for, and the length of its output.
HashOutput ==
  [alg \in {SHA1, SHA256, SHA384, SHA512, SM3_256} |->
     CASE alg = SHA1    -> 20
       [] alg = SHA256  -> 32
       [] alg = SHA384  -> 48
       [] alg = SHA512  -> 64
       [] alg = SM3_256 -> 32]

\* The same for hmac_parts, which has a list of its own.
HmacOutput ==
  [alg \in {SHA1, SHA256, SHA384, SHA512, SM3_256} |->
     CASE alg = SHA1    -> 20
       [] alg = SHA256  -> 32
       [] alg = SHA384  -> 48
       [] alg = SHA512  -> 64
       [] alg = SM3_256 -> 32]

DivCeil(n, d) == (n + d - 1) \div d

\* HMAC(key, UINT32(counter) || label || 0 || context || UINT32(bits)).
Block(alg, counter, bits) ==
  [i \in 1 .. HmacOutput[alg] |-> [counter |-> counter, of |-> bits, at |-> i, kept |-> 8]]

\* while out.len() < out_len: one iteration, and at most one for each octet wanted.
AppendBlock(alg, bits, out, counter) ==
  IF Len(out) < DivCeil(bits, 8) THEN out \o Block(alg, counter, bits) ELSE out

Blocks(alg, bits) ==
  FoldLeft(LAMBDA out, counter : AppendBlock(alg, bits, out, counter),
           <<>>, [i \in 1 .. DivCeil(bits, 8) |-> i])

\* Slip: the surplus bits are masked off the last octet.
Mask_LastOctet(out, bits) ==
  IF bits % 8 # 0 /\ out # <<>> THEN [out EXCEPT ![Len(out)].kept = bits % 8] ELSE out

\* "kept": the low bits of the octet that are not masked off.
Mask(out, bits) ==
  IF bits % 8 # 0 /\ out # <<>> THEN [out EXCEPT ![1].kept = bits % 8] ELSE out

\* kdfa, for an algorithm hmac_parts knows.
kdfa(alg, bits) == Mask(SubSeq(Blocks(alg, bits), 1, DivCeil(bits, 8)), bits)
=============================================================================
