----------------------------- MODULE MCNumbers -----------------------------
(***************************************************************************)
(* Walks the numbers the pure parts of the crate turn on: as a response    *)
(* code through the decoder of error.rs, which is compared with the        *)
(* encoder of a TPM; as an algorithm and as a number of bits through       *)
(* crypto.rs, which is compared with the standard's KDFa.                  *)
(***************************************************************************)
EXTENDS TpmRc, Crypto

CONSTANTS
  MaxCode,  \* the last number visited: every format-one and warning bit
  MaxBits   \* the longest KDFa output computed, in bits

VARIABLE number  \* a response code, an algorithm, a number of bits

Init == number = SUCCESS

NextCode == number < MaxCode /\ number' = number + 1

Next == NextCode

Spec == Init /\ [][Next]_number

-----------------------------------------------------------------------------
(* The reference: how a TPM composes a format-one code for error number    *)
(* err (0..63).  A parameter number has 4 bits; a handle or session number *)
(* 3, the fourth bit of the field telling the session from the handle.     *)
EncodeParameter(err, n) == 128 + 64 + err + 256 * n
EncodeHandle(err, n)    == 128 + err + 256 * n
EncodeSession(err, n)   == 128 + err + 256 * n + 2048

ErrorNumbers == 0 .. 63

Decoded(kind, err, n) ==
  /\ arg_kind(number) = kind
  /\ arg_number(number) = n
  /\ base(number) = 128 + err

\* TpmRc::arg_kind, arg_number and base take apart every code a TPM composes
\* for a parameter or a handle: nothing of the number is left in the base
\* and nothing of the error leaks into the number.
ParameterAndHandleCodesDecode ==
  \A err \in ErrorNumbers :
    /\ \A n \in 0 .. 15 : number = EncodeParameter(err, n) => Decoded("Parameter", err, n)
    /\ \A n \in 0 .. 7  : number = EncodeHandle(err, n) => Decoded("Handle", err, n)

\* is_transient (the guard of the resubmission loop in Tpm::run) holds of the
\* three warnings only: base() never folds an error code, whose command the
\* TPM may have begun to judge, onto a code that is resubmitted.
OnlyWarningsAreResubmitted == is_transient(number) => is_warning(number) /\ number \in TransientWarnings

\* error.rs says arg_number is "the 1-based number of the parameter, handle or
\* session the code refers to": the first session is number 1.
SessionNumbersDecode ==
  \A err \in ErrorNumbers, n \in 1 .. 7 :
    number = EncodeSession(err, n) => arg_number(number) = n

\* The three lists of algorithms in crypto.rs and constants.rs are one: what
\* digest_size gives a size, hash_parts and hmac_parts compute, of that size.
\* A session that could be started never fails later for want of its hash, nor
\* does kdfa reserve for one digest and fill from another.
DigestListsAgree ==
  /\ number \in DOMAIN HashOutput <=> digest_size(number) # NoSize
  /\ DOMAIN HashOutput = DOMAIN HmacOutput
  /\ number \in DOMAIN HashOutput => HashOutput[number] = digest_size(number) /\ HmacOutput[number] = digest_size(number)

\* The reference: the first bits of K(1) || K(2) || ... in whole octets, as a
\* number of exactly that many bits: of the leading octet only the low ones.
StandardOctet(alg, bits, k) ==
  LET size == HmacOutput[alg]
  IN [counter |-> ((k - 1) \div size) + 1, of |-> bits, at |-> ((k - 1) % size) + 1,
      kept |-> IF k = 1 THEN bits - 8 * (DivCeil(bits, 8) - 1) ELSE 8]

\* kdfa agrees with a TPM on every octet, for outputs shorter and longer than
\* a digest and for bits that are no multiple of 8: either side's session key
\* is the other's.
KdfaIsTheStandard ==
  number <= MaxBits =>
    \A alg \in DOMAIN HmacOutput :
      kdfa(alg, number) = [k \in 1 .. DivCeil(number, 8) |-> StandardOctet(alg, number, k)]
=============================================================================
