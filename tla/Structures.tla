----------------------------- MODULE Structures -----------------------------
(***************************************************************************)
(* The TPM structures of src/src/types/structures.rs as the commands send  *)
(* and read them, and the TPM's reading of what they send.                 *)
(***************************************************************************)
EXTENDS Wire

\* TPM_ALG_ID and TPM_ECC_CURVE.
SHA1 == 4
SHA256 == 11
AES == 6
KEYEDHASH == 8
NULL == 16
ECC == 35
CFB == 67
NIST_P256 == 3

\* The largest of these, and the key size 128, are UINT16s.
ASSUME IdentifiersFit == UINT16_MAX >= 128

\* TPMA_OBJECT, with the reserved bits left out: a power of two for each of the
\* defined bits in their order.
FIXED_TPM == 1
FIXED_PARENT == 4
SENSITIVE_DATA_ORIGIN == 8
USER_WITH_AUTH == 16
RESTRICTED == 256
DECRYPT == 512

storage_parent == FIXED_TPM + FIXED_PARENT + SENSITIVE_DATA_ORIGIN + USER_WITH_AUTH + RESTRICTED + DECRYPT
sealed_data == FIXED_TPM + FIXED_PARENT + USER_WITH_AUTH

-----------------------------------------------------------------------------
(* Writing. *)

u8(n) == to_be_bytes(n, 1)
u16(n) == to_be_bytes(n, 2)
u32(n) == to_be_bytes(n, 4)

\* Slip: a buffer that is too long is written as an empty one.
Buffer_Emptied(data) == IF Fits(data) THEN TPM2B(data) ELSE TPM2B(<<>>)

\* marshal_tpm2b(..).ok(): the error is dropped and nothing is written.
Buffer(data) == IF Fits(data) THEN TPM2B(data) ELSE <<>>

Concatenated(Marshal(_), items) == Concat([i \in DOMAIN items |-> Marshal(items[i])])

MarshalSensitive(s) == Buffer(Buffer(s.user_auth) \o Buffer(s.data))

SymDefObject(algorithm, key_bits, mode) ==
  IF algorithm = NULL THEN << NULL >> ELSE << algorithm, key_bits, mode >>

aes128_cfb == SymDefObject(AES, 128, CFB)
null == SymDefObject(NULL, 0, NULL)

\* TPMU_PUBLIC_PARMS is a sequence of UINT16s, TPMU_PUBLIC_ID one of buffers.
KeyedHash(scheme) == << scheme >>
Ecc(symmetric, scheme, curve, kdf) == symmetric \o << scheme, curve, kdf >>

Public(type_, name_alg, attributes, auth_policy, parameters, unique) ==
  [type_ |-> type_, name_alg |-> name_alg, attributes |-> attributes,
   auth_policy |-> auth_policy, parameters |-> parameters, unique |-> unique]

EccParent(name_alg, symmetric) ==
  Public(ECC, name_alg, storage_parent, <<>>, Ecc(symmetric, NULL, NIST_P256, NULL), << <<>>, <<>> >>)

ecc_storage_parent(name_alg) == EccParent(name_alg, aes128_cfb)

SealedData(name_alg) ==
  Public(KEYEDHASH, name_alg, sealed_data, <<>>, KeyedHash(NULL), << <<>> >>)

MarshalPublic(p) ==
  Buffer(u16(p.type_) \o u16(p.name_alg) \o u32(p.attributes) \o Buffer(p.auth_policy)
           \o Concatenated(u16, p.parameters) \o Concatenated(Buffer, p.unique))

MarshalPcrSelection(s) == u16(s.hash) \o << Len(s.select) % (UINT8_MAX + 1) >> \o s.select

MarshalDigestValue(d) == u16(d.alg) \o d.digest

MarshalList(strings) == u32(Len(strings)) \o Concat(strings)
ListOf(Marshal(_), items) == MarshalList([i \in DOMAIN items |-> Marshal(items[i])])

\* inSensitive, inPublic, an empty outsideInfo and an empty creationPCR.
create_params(c) ==
  MarshalSensitive(c.sensitive) \o MarshalPublic(c.public) \o TPM2B(<<>>) \o MarshalList(<<>>)

\* A TPM's reply to CreatePrimary: outPublic, creationData, creationHash, the
\* ticket's tag, hierarchy and digest, and the Name.
CreatedLayout == << "tpm2b", "tpm2b", "tpm2b", "u16", "u32", "tpm2b", "tpm2b" >>
MarshalCreated(r) ==
  TPM2B(r.public) \o TPM2B(<< 7 >>) \o TPM2B(<< 7, 7 >>)
    \o u16(3) \o u32(UINT16_MAX + 1) \o TPM2B(<< 7 >>) \o TPM2B(r.name)

MarshalCapability(r) == u8(r.more) \o u32(r.capability) \o r.data

marshal(f) ==
  CASE f.kind = "u8"         -> u8(f.val[1])
    [] f.kind = "u16"        -> u16(f.val[1])
    [] f.kind = "u32"        -> u32(f.val[1])
    [] f.kind = "tpm2b"      -> TPM2B(f.val)
    [] f.kind = "buffer"     -> Buffer(f.val)
    [] f.kind = "pcrs"       -> ListOf(MarshalPcrSelection, f.val)
    [] f.kind = "digests"    -> ListOf(TPM2B, f.val)
    [] f.kind = "extend"     -> ListOf(MarshalDigestValue, f.val)
    [] f.kind = "create"     -> create_params(f.val)
    [] f.kind = "created"    -> MarshalCreated(f.val)
    [] f.kind = "capability" -> MarshalCapability(f.val)

\* PcrSelection::single.
OneBit == << 1, 2, 4, 8, 16, 32, 64, 128 >>

Zeros(n) == [i \in 1 .. n |-> 0]

\* Slip: the bits of a byte counted from the top.
single_FromTheTop(hash, pcr) ==
  LET byte == pcr \div 8
      size == IF byte + 1 < 3 THEN 3 ELSE byte + 1
  IN [hash |-> hash, select |-> [Zeros(size) EXCEPT ![byte + 1] = OneBit[8 - (pcr % 8)]]]

single(hash, pcr) ==
  LET byte == pcr \div 8
      size == IF byte + 1 < 3 THEN 3 ELSE byte + 1
  IN [hash |-> hash, select |-> [Zeros(size) EXCEPT ![byte + 1] = OneBit[(pcr % 8) + 1]]]

-----------------------------------------------------------------------------
(* Reading. *)

ReadPcrSelection(buf, at) ==
  AndThen(ReadFields(<< "u16", "u8" >>, buf, at), LAMBDA head :
    AndThen(take(buf, head.at, head.val[2][1]), LAMBDA select :
      Read(TRUE, select.at, [hash |-> head.val[1][1], select |-> select.val])))

\* The TPM's: a digest has the size its algorithm says.
DigestSize(alg) == IF alg = SHA1 THEN 20 ELSE 32

ReadDigestValue(buf, at) ==
  AndThen(ReadUint(buf, at, 2), LAMBDA alg :
    AndThen(take(buf, alg.at, DigestSize(alg.val[1])), LAMBDA digest :
      Read(TRUE, digest.at, [alg |-> alg.val[1], digest |-> digest.val])))

ReadElement(kind, buf, at) ==
  CASE kind = "pcrs"    -> ReadPcrSelection(buf, at)
    [] kind = "digests" -> tpm2b(buf, at)
    [] kind = "extend"  -> ReadDigestValue(buf, at)

\* n elements: the loop ends at the first that fails.
ReadElements(kind, buf, at, n) ==
  FoldLeft(LAMBDA acc, i : Collect(acc, ReadElement(kind, buf, acc.at)), Read(TRUE, at, <<>>), [i \in 1 .. n |-> i])

\* A counted list.  read_digest_list refuses more than 0xFFFF elements; a
\* selection list may have any number.
ReadList(kind, buf, at) ==
  AndThen(ReadUint(buf, at, 4), LAMBDA count :
    IF kind = "digests" /\ count.val[1] > UINT16_MAX THEN Read(FALSE, count.at, <<>>)
    ELSE ReadElements(kind, buf, count.at, count.val[1]))

\* The TPM's reading of a sized structure: its fields, and nothing after them.
ReadSized(layout, inner) ==
  AndThen(ReadFields(layout, inner, 0), LAMBDA r : Read(r.at = Len(inner), r.at, r.val))

\* The TPM's: the layouts of a TPMT_PUBLIC it knows by type, by the number of its
\* parameters, and by where these are selectors and which.
PublicLayouts ==
  { [type_ |-> KEYEDHASH, parms |-> 1, ids |-> 1, selectors |-> [i \in {1} |-> NULL]],
    [type_ |-> ECC, parms |-> 4, ids |-> 2, selectors |-> [i \in {1, 2, 4} |-> NULL]],
    [type_ |-> ECC, parms |-> 6, ids |-> 2, selectors |-> [i \in {1, 4, 6} |-> IF i = 1 THEN AES ELSE NULL]] }

Copies(n, kind) == [i \in 1 .. n |-> kind]

PublicRead(layout, inner) ==
  ReadSized(<< "u16", "u16", "u32", "tpm2b" >> \o Copies(layout.parms, "u16") \o Copies(layout.ids, "tpm2b"),
            inner)

Matches(layout, r) ==
  /\ r.ok /\ r.val[1][1] = layout.type_ /\ r.val[2][1] \in {SHA1, SHA256}
  /\ \A i \in DOMAIN layout.selectors : r.val[4 + i][1] = layout.selectors[i]

PublicOf(layout, r) ==
  Public(r.val[1][1], r.val[2][1], r.val[3][1], r.val[4],
         [i \in 1 .. layout.parms |-> r.val[4 + i][1]],
         [i \in 1 .. layout.ids |-> r.val[4 + layout.parms + i]])

PublicsRead(inner) ==
  { PublicOf(layout, PublicRead(layout, inner))
    : layout \in {l \in PublicLayouts : Matches(l, PublicRead(l, inner))} }

\* The TPM's reading of the parameters of Create and CreatePrimary, all of them.
ReadCreate(buf, at) ==
  AndThen(ReadFields(<< "tpm2b", "tpm2b", "tpm2b", "u32" >>, buf, at), LAMBDA sized :
    LET sensitive == ReadSized(<< "tpm2b", "tpm2b" >>, sized.val[1])
        publics == PublicsRead(sized.val[2])
    IN IF sized.at = Len(buf) /\ sensitive.ok /\ publics # {}
         THEN Read(TRUE, sized.at,
                   [sensitive |-> [user_auth |-> sensitive.val[1], data |-> sensitive.val[2]],
                    public |-> CHOOSE p \in publics : TRUE])
         ELSE Read(FALSE, sized.at, <<>>))

\* create_primary's, skip_tk_creation included.
ReadCreated(buf, at) ==
  AndThen(ReadFields(CreatedLayout, buf, at), LAMBDA r :
    Read(TRUE, r.at, [public |-> r.val[1], name |-> r.val[7]]))

\* get_capability's: the data has no length of its own.
ReadCapability(buf, at) ==
  AndThen(ReadFields(<< "u8", "u32" >>, buf, at), LAMBDA head :
    AndThen(take(buf, head.at, Len(buf) - head.at), LAMBDA data :
      Read(TRUE, data.at, [more |-> head.val[1][1], capability |-> head.val[2][1], data |-> data.val])))

unmarshal(kind, buf, at) ==
  CASE kind \in {"u8", "u16", "u32"}          -> ReadUint(buf, at, Width[kind])
    [] kind \in {"tpm2b", "buffer"}           -> tpm2b(buf, at)
    [] kind \in {"pcrs", "digests", "extend"} -> ReadList(kind, buf, at)
    [] kind = "create"                        -> ReadCreate(buf, at)
    [] kind = "created"                       -> ReadCreated(buf, at)
    [] kind = "capability"                    -> ReadCapability(buf, at)
=============================================================================
