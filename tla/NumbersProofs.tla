--------------------------- MODULE NumbersProofs ----------------------------
(***************************************************************************)
(* Response codes are taken apart as a TPM composes them, whatever the     *)
(* code, the lists of algorithms agree on every algorithm, and kdfa gives  *)
(* the standard's octets for any number of bits.                           *)
(***************************************************************************)
EXTENDS MCNumbers, SequenceTheorems, TLAPS

\* The loop of kdfa: a turn appends a block.
Loop == INSTANCE Iteration WITH Step <- AppendBlock

TypeInv == number \in Nat

LEMMA Typed == Spec => []TypeInv
  <1>1. Init => TypeInv
    BY DEF Init, TypeInv, SUCCESS
  <1>2. TypeInv /\ [Next]_number => TypeInv'
    BY DEF TypeInv, Next, NextCode
  <1> QED BY <1>1, <1>2, PTL DEF Spec

\* The fields of a format-one code: bits 0..5, bit 6 and bit 7, and the field
\* of four bits the number is in.
LEMMA Fields ==
  ASSUME NEW err \in ErrorNumbers, NEW p \in {0, 1}, NEW n \in 0 .. 15, NEW rc \in Nat,
         rc = 128 + 64 * p + err + 256 * n
  PROVE  /\ is_format_one(rc)
         /\ HasBit(rc, 64) <=> p = 1
         /\ HasBit(rc, 2048) <=> n >= 8
         /\ base(rc) = 128 + err
         /\ arg_number(rc) = n
  <1>1. rc \div 128 = 2 * n + 1 /\ (2 * n + 1) % 2 = 1
    BY DEF ErrorNumbers
  <1>2. is_format_one(rc)
    BY <1>1 DEF is_format_one, HasBit
  <1>3. HasBit(rc, 64) <=> p = 1
    <2>1. rc \div 64 = 4 * n + 2 + p
      BY DEF ErrorNumbers
    <2>2. (4 * n + 2 + p) % 2 = p
      OBVIOUS
    <2> QED BY <2>1, <2>2 DEF HasBit
  <1>4. HasBit(rc, 2048) <=> n >= 8
    <2>1. n < 8 => rc \div 2048 = 0
      BY DEF ErrorNumbers
    <2>2. n >= 8 => rc \div 2048 = 1
      BY DEF ErrorNumbers
    <2> QED BY <2>1, <2>2 DEF HasBit
  <1>5. rc % 64 = err
    BY DEF ErrorNumbers
  <1>6. rc \div 256 = n /\ n % 16 = n
    BY DEF ErrorNumbers
  <1> QED BY <1>2, <1>3, <1>4, <1>5, <1>6 DEF base, arg_number

\* TpmRc::arg_kind, arg_number and base take apart every code a TPM composes
\* for a parameter or a handle (ParameterAndHandleCodesDecode).
THEOREM CodesAreTakenApart == Spec => []ParameterAndHandleCodesDecode
  <1>1. ASSUME NEW err \in ErrorNumbers, NEW n \in 0 .. 15, number = EncodeParameter(err, n)
        PROVE  Decoded("Parameter", err, n)
    <2>1. number \in Nat /\ number = 128 + 64 * 1 + err + 256 * n
      BY <1>1 DEF EncodeParameter, ErrorNumbers
    <2> QED BY <2>1, Fields DEF Decoded, arg_kind
  <1>2. ASSUME NEW err \in ErrorNumbers, NEW n \in 0 .. 7, number = EncodeHandle(err, n)
        PROVE  Decoded("Handle", err, n)
    <2>1. number \in Nat /\ number = 128 + 64 * 0 + err + 256 * n /\ n \in 0 .. 15 /\ ~(n >= 8)
      BY <1>2 DEF EncodeHandle, ErrorNumbers
    <2> QED BY <2>1, Fields DEF Decoded, arg_kind
  <1>3. ParameterAndHandleCodesDecode
    BY <1>1, <1>2 DEF ParameterAndHandleCodesDecode
  <1> QED BY <1>3, PTL

\* The resubmission loop of Tpm::run takes the three transient warnings for
\* transient and no error (OnlyWarningsAreResubmitted).
THEOREM ErrorsAreNotResubmitted == Spec => []OnlyWarningsAreResubmitted
  <1>1. TypeInv => OnlyWarningsAreResubmitted
    <2> SUFFICES ASSUME number \in Nat, is_transient(number)
                 PROVE  is_warning(number) /\ number \in TransientWarnings
      BY DEF TypeInv, OnlyWarningsAreResubmitted
    <2>1. ~is_format_one(number)
      <3>1. number % 64 \in 0 .. 63
        OBVIOUS
      <3> QED BY <3>1 DEF is_transient, base, TransientWarnings
    <2>2. number \in TransientWarnings
      BY <2>1 DEF is_transient, base
    <2>3. HasBit(number, 2048)
      BY <2>2 DEF TransientWarnings, HasBit
    <2> QED BY <2>1, <2>2, <2>3 DEF is_warning
  <1> QED BY Typed, <1>1, PTL

\* hash_parts and hmac_parts know the algorithms digest_size has a size for, and
\* no other, and compute digests of that size (DigestListsAgree).
THEOREM ListsOfAlgorithmsAgree == Spec => []DigestListsAgree
  <1>1. HashOutput = HmacOutput
    BY DEF HashOutput, HmacOutput
  <1>2. /\ DOMAIN HashOutput = {4, 11, 12, 13, 18}
        /\ HashOutput[4] = 20 /\ HashOutput[11] = 32 /\ HashOutput[12] = 48
        /\ HashOutput[13] = 64 /\ HashOutput[18] = 32
    BY DEF HashOutput, SHA1, SHA256, SHA384, SHA512, SM3_256
  <1>3. /\ AlgDigestSize(4) = 20 /\ AlgDigestSize(11) = 32 /\ AlgDigestSize(12) = 48
        /\ AlgDigestSize(13) = 64 /\ AlgDigestSize(18) = 32
    BY DEF AlgDigestSize, SHA1, SHA256, SHA384, SHA512, SM3_256, NULL
  <1>4. ASSUME NEW alg, alg \notin {4, 11, 12, 13, 18}
        PROVE  digest_size(alg) = NoSize
    BY <1>4 DEF digest_size, AlgDigestSize, NoSize, SHA1, SHA256, SHA384, SHA512, SM3_256, NULL
  <1>5. \A alg \in {4, 11, 12, 13, 18} : digest_size(alg) = AlgDigestSize(alg) /\ digest_size(alg) # NoSize
    BY <1>3 DEF digest_size, NoSize
  <1>6. DigestListsAgree
    BY <1>1, <1>2, <1>3, <1>4, <1>5 DEF DigestListsAgree
  <1> QED BY <1>6, PTL

-----------------------------------------------------------------------------
\* The fold of Blocks is an iteration of the loop's body.
LEMMA BlocksIsALoop ==
  ASSUME NEW alg, NEW bits
  PROVE  Blocks(alg, bits) = Loop!Iterate(alg, bits, <<>>, [i \in 1 .. DivCeil(bits, 8) |-> i])
  BY DEF Blocks, Loop!Iterate, FoldLeft, MapThenFoldSet, Loop!FoldLeft, Loop!MapThenFoldSet, Max, Loop!Max

\* An octet of K(1) || K(2) || ... before the surplus bits are masked off.
Octet(size, bits, k) ==
  [counter |-> ((k - 1) \div size) + 1, of |-> bits, at |-> ((k - 1) % size) + 1, kept |-> 8]

\* The first n of them.
Octets(size, bits, n) == [k \in 1 .. n |-> Octet(size, bits, k)]

\* A block continues the octets where the blocks before it end.
LEMMA OneMoreBlock ==
  ASSUME NEW alg \in DOMAIN HmacOutput, NEW bits \in Nat, NEW q \in Nat
  PROVE  LET size == HmacOutput[alg]
         IN  Octets(size, bits, q * size) \o Block(alg, q + 1, bits) = Octets(size, bits, (q + 1) * size)
  <1> DEFINE size == HmacOutput[alg]
             s == Octets(size, bits, q * size)
             t == Block(alg, q + 1, bits)
             u == Octets(size, bits, (q + 1) * size)
  <1>1. size \in {20, 32, 48, 64}
    BY DEF HmacOutput
  <1>2. q * size \in Nat /\ (q + 1) * size = q * size + size /\ (q + 1) * size \in Nat
    BY <1>1
  <1>3. s \in Seq(Range(s)) /\ Len(s) = q * size
    BY <1>2 DEF Octets, Range
  <1>4. t \in Seq(Range(t)) /\ Len(t) = size
    BY <1>1 DEF Block, Range
  <1>5. s \in Seq(Range(s) \cup Range(t)) /\ t \in Seq(Range(s) \cup Range(t))
    BY <1>3, <1>4
  <1> HIDE DEF size, s, t, u
  <1>6. /\ Len(s \o t) = q * size + size
        /\ s \o t \in Seq(Range(s) \cup Range(t))
        /\ \A i \in 1 .. q * size + size : (s \o t)[i] = IF i <= q * size THEN s[i] ELSE t[i - q * size]
    <2> DEFINE S == Range(s) \cup Range(t)
    <2>1. s \in Seq(S) /\ t \in Seq(S)
      BY <1>5
    <2> HIDE DEF S
    <2>2. /\ s \o t \in Seq(S) /\ Len(s \o t) = Len(s) + Len(t)
          /\ \A i \in 1 .. Len(s) + Len(t) : (s \o t)[i] = IF i <= Len(s) THEN s[i] ELSE t[i - Len(s)]
      BY <2>1, ConcatProperties
    <2> QED BY <1>3, <1>4, <2>2 DEF S
  <1>7. ASSUME NEW k \in 1 .. q * size
        PROVE  s[k] = u[k]
    <2>1. k \in 1 .. (q + 1) * size
      BY <1>1, <1>2
    <2>2. s[k] = Octet(size, bits, k)
      BY DEF Octets, s
    <2>3. u[k] = Octet(size, bits, k)
      BY <2>1 DEF Octets, u
    <2> QED BY <2>2, <2>3
  <1>8. ASSUME NEW k \in 1 .. q * size + size, ~(k <= q * size)
        PROVE  t[k - q * size] = u[k]
    <2>1. k - q * size \in 1 .. size
      BY <1>1, <1>2, <1>8
    <2>2. (k - 1) \div size = q /\ (k - 1) % size = k - 1 - q * size
      <3>1. CASE size = 20
        BY <1>8, <3>1
      <3>2. CASE size = 32
        BY <1>8, <3>2
      <3>3. CASE size = 48
        BY <1>8, <3>3
      <3>4. CASE size = 64
        BY <1>8, <3>4
      <3> QED BY <1>1, <3>1, <3>2, <3>3, <3>4
    <2>3. u[k] = Octet(size, bits, k)
      BY <1>1, <1>2, <1>8 DEF Octets, u
    <2>4. t[k - q * size] = [counter |-> q + 1, of |-> bits, at |-> k - q * size, kept |-> 8]
      BY <2>1 DEF Block, t, size
    <2> QED BY <1>1, <2>2, <2>3, <2>4 DEF Octet
  <1>9. u \in Seq(Range(u)) /\ Len(u) = q * size + size
    BY <1>2 DEF Octets, Range, u
  <1>10. \A i \in 1 .. q * size + size : (s \o t)[i] = u[i]
    <2> SUFFICES ASSUME NEW i \in 1 .. q * size + size PROVE (s \o t)[i] = u[i]
      OBVIOUS
    <2>1. CASE i <= q * size
      <3>1. i \in 1 .. q * size
        BY <1>1, <2>1
      <3> QED BY <1>6, <1>7, <2>1, <3>1
    <2> QED BY <1>6, <1>8, <2>1
  <1>11. s \o t = u
    BY <1>6, <1>9, <1>10, SeqEqual
  <1> QED BY <1>11 DEF s, t, u, size

\* What Blocks has after its last iteration: whole blocks, as many octets as asked.
LEMMA WholeBlocks ==
  ASSUME NEW alg \in DOMAIN HmacOutput, NEW bits \in Nat
  PROVE  \E q \in Nat : /\ q * HmacOutput[alg] >= DivCeil(bits, 8)
                        /\ Blocks(alg, bits) = Octets(HmacOutput[alg], bits, q * HmacOutput[alg])
  <1> DEFINE size == HmacOutput[alg]
             L == DivCeil(bits, 8)
             f == Loop!Stage(alg, bits, <<>>, [i \in 1 .. L |-> i], L)
             Done(i, q) == /\ q <= i
                           /\ q < i => q * size >= L
                           /\ f[i] = Octets(size, bits, q * size)
             S == {i \in Nat : i <= L => \E q \in Nat : Done(i, q)}
  <1>1. size \in {20, 32, 48, 64}
    BY DEF HmacOutput
  <1>2. L \in Nat
    BY DEF DivCeil
  <1>3. /\ f[0] = <<>>
        /\ \A i \in 1 .. L : f[i] = AppendBlock(alg, bits, f[i - 1], i)
        /\ Blocks(alg, bits) = f[L]
    <2> DEFINE turns == [i \in 1 .. L |-> i]
    <2>1. DOMAIN turns = 1 .. L /\ \A i \in 1 .. L : turns[i] = i
      OBVIOUS
    <2> HIDE DEF turns, L
    <2>2. /\ Loop!Stage(alg, bits, <<>>, turns, L)[0] = <<>>
          /\ \A i \in 1 .. L :
               Loop!Stage(alg, bits, <<>>, turns, L)[i]
                 = AppendBlock(alg, bits, Loop!Stage(alg, bits, <<>>, turns, L)[i - 1], turns[i])
          /\ Loop!Iterate(alg, bits, <<>>, turns) = Loop!Stage(alg, bits, <<>>, turns, L)[L]
      BY <1>2, <2>1, Loop!Stepwise
    <2>3. Blocks(alg, bits) = Loop!Iterate(alg, bits, <<>>, turns)
      BY BlocksIsALoop DEF turns, L
    <2>4. f = Loop!Stage(alg, bits, <<>>, turns, L)
      BY DEF turns
    <2> HIDE DEF f
    <2> QED BY <2>1, <2>2, <2>3, <2>4
  <1> HIDE DEF f
  <1>4. 0 \in S
    <2>1. Octets(size, bits, 0 * size) = <<>>
      BY <1>1 DEF Octets
    <2>2. Done(0, 0)
      BY <1>3, <2>1
    <2> QED BY <2>2
  <1>5. ASSUME NEW i \in Nat, i \in S
        PROVE  i + 1 \in S
    <2> SUFFICES ASSUME i + 1 <= L PROVE \E q \in Nat : Done(i + 1, q)
      OBVIOUS
    <2>1. PICK q \in Nat : Done(i, q)
      BY <1>2, <1>5
    <2>2. f[i + 1] = AppendBlock(alg, bits, f[i], i + 1)
      BY <1>2, <1>3
    <2>3. q * size \in Nat /\ Len(f[i]) = q * size
      BY <1>1, <2>1 DEF Octets
    <2>4. CASE q * size >= L
      <3>1. f[i + 1] = f[i]
        <4>1. ~(Len(f[i]) < L)
          BY <1>2, <2>3, <2>4
        <4> QED BY <2>2, <4>1 DEF AppendBlock
      <3>2. Done(i + 1, q)
        BY <2>1, <2>4, <3>1
      <3> QED BY <3>2
    <2>5. CASE ~(q * size >= L)
      <3>1. q = i
        BY <2>1, <2>5
      <3>2. f[i + 1] = f[i] \o Block(alg, i + 1, bits)
        <4>1. Len(f[i]) < L
          BY <1>2, <2>3, <2>5
        <4> QED BY <2>2, <4>1 DEF AppendBlock
      <3>3. f[i] = Octets(size, bits, q * size)
        BY <2>1
      <3>4. f[i + 1] = Octets(size, bits, (q + 1) * size)
        BY <3>1, <3>2, <3>3, OneMoreBlock
      <3>5. Done(i + 1, q + 1)
        BY <2>1, <3>1, <3>4
      <3> QED BY <3>5
    <2> QED BY <2>4, <2>5
  <1> HIDE DEF S
  <1>6. L \in S
    BY <1>2, <1>4, <1>5, Loop!NatSets
  <1>7. PICK q \in Nat : Done(L, q)
    BY <1>2, <1>6 DEF S
  <1>8. q * size >= L
    <2>1. CASE q < L
      BY <1>7, <2>1
    <2>2. CASE q = L
      BY <1>1, <1>2, <2>2
    <2> QED BY <1>2, <1>7, <2>1, <2>2
  <1> QED BY <1>3, <1>7, <1>8

\* kdfa computes the standard's octets.
LEMMA KdfaOctets ==
  ASSUME NEW alg \in DOMAIN HmacOutput, NEW bits \in Nat
  PROVE  kdfa(alg, bits) = [k \in 1 .. DivCeil(bits, 8) |-> StandardOctet(alg, bits, k)]
  <1> DEFINE size == HmacOutput[alg]
             L == DivCeil(bits, 8)
             out == Octets(size, bits, L)
  <1>1. size \in {20, 32, 48, 64}
    BY DEF HmacOutput
  <1>2. L \in Nat /\ (L = 0 <=> bits = 0)
    BY DEF DivCeil
  <1>3. SubSeq(Blocks(alg, bits), 1, L) = out
    <2>1. PICK q \in Nat : /\ q * size >= L
                           /\ Blocks(alg, bits) = Octets(size, bits, q * size)
      BY WholeBlocks
    <2> DEFINE s == Octets(size, bits, q * size)
    <2>2. \A k \in 1 .. L : s[k] = Octet(size, bits, k)
      BY <1>1, <1>2, <2>1 DEF Octets
    <2>3. \A k \in 1 .. L : s[k] \in Range(out) /\ out[k] = s[k]
      BY <2>2 DEF Range, Octets
    <2> HIDE DEF s
    <2>4. /\ SubSeq(s, 1, L) \in Seq(Range(out))
          /\ Len(SubSeq(s, 1, L)) = L
          /\ \A k \in 1 .. L : SubSeq(s, 1, L)[k] = s[k]
      BY <1>2, <2>3, SubSeqProperties
    <2>5. out \in Seq(Range(out)) /\ Len(out) = L
      BY <1>2 DEF Octets, Range
    <2> HIDE DEF out
    <2>6. SubSeq(s, 1, L) = out
      BY <2>3, <2>4, <2>5, SeqEqual
    <2> QED BY <2>1, <2>6 DEF s
  <1>4. bits % 8 = 0 => bits - 8 * (L - 1) = 8
    BY DEF DivCeil
  <1>5. bits % 8 # 0 => bits - 8 * (L - 1) = bits % 8
    BY DEF DivCeil
  <1>6. ASSUME NEW k \in 1 .. L
        PROVE  /\ out[k] = Octet(size, bits, k)
               /\ StandardOctet(alg, bits, k)
                    = [Octet(size, bits, k) EXCEPT !.kept = IF k = 1 THEN bits - 8 * (L - 1) ELSE 8]
    BY DEF Octets, Octet, StandardOctet
  <1>7. Mask(out, bits) = [k \in 1 .. L |-> StandardOctet(alg, bits, k)]
    <2>1. CASE bits % 8 = 0 \/ L = 0
      <3>1. Mask(out, bits) = out
        BY <1>2, <2>1 DEF Mask, Octets
      <3>2. \A k \in 1 .. L : StandardOctet(alg, bits, k) = Octet(size, bits, k)
        BY <1>2, <1>4, <2>1 DEF StandardOctet, Octet
      <3> QED BY <3>1, <3>2 DEF Octets
    <2>2. CASE bits % 8 # 0 /\ L # 0
      <3>1. Mask(out, bits) = [out EXCEPT ![1].kept = bits % 8]
        BY <1>2, <2>2 DEF Mask, Octets
      <3>2. DOMAIN out = 1 .. L /\ 1 \in 1 .. L
        BY <1>2, <2>2 DEF Octets
      <3>3. \A k \in 1 .. L : [out EXCEPT ![1].kept = bits % 8][k] = StandardOctet(alg, bits, k)
        <4> SUFFICES ASSUME NEW k \in 1 .. L
                     PROVE  [out EXCEPT ![1].kept = bits % 8][k] = StandardOctet(alg, bits, k)
          OBVIOUS
        <4>1. out[k] = Octet(size, bits, k)
          BY <1>6
        <4>2. CASE k = 1
          <5>1. [out EXCEPT ![1].kept = bits % 8][1] = [out[1] EXCEPT !.kept = bits % 8]
            BY <3>2
          <5>2. [Octet(size, bits, 1) EXCEPT !.kept = bits % 8]
                  = [Octet(size, bits, 1) EXCEPT !.kept = bits - 8 * (L - 1)]
            BY <1>5, <2>2
          <5> QED BY <1>6, <4>1, <4>2, <5>1, <5>2
        <4>3. CASE k # 1
          <5>1. [out EXCEPT ![1].kept = bits % 8][k] = out[k]
            BY <3>2, <4>3
          <5>2. StandardOctet(alg, bits, k) = Octet(size, bits, k)
            BY <4>3 DEF StandardOctet, Octet
          <5> QED BY <4>1, <5>1, <5>2
        <4> QED BY <4>2, <4>3
      <3> HIDE DEF out
      <3>4. [out EXCEPT ![1].kept = bits % 8] = [k \in 1 .. L |-> StandardOctet(alg, bits, k)]
        BY <3>2, <3>3
      <3> QED BY <3>1, <3>4
    <2> QED BY <2>1, <2>2
  <1> QED BY <1>3, <1>7 DEF kdfa

\* kdfa agrees with the standard on every octet (KdfaIsTheStandard), for every
\* algorithm hmac_parts knows and any number of bits.
THEOREM KdfaAgrees == Spec => []KdfaIsTheStandard
  <1>1. TypeInv => KdfaIsTheStandard
    BY KdfaOctets DEF TypeInv, KdfaIsTheStandard
  <1> QED BY <1>1, Typed, PTL
=============================================================================
