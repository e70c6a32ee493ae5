------------------------------ MODULE Marshal ------------------------------
(***************************************************************************)
(* Both ends of the wire encoding: fields are marshalled into one byte     *)
(* string; the string is delivered, perhaps cut short; the fields are      *)
(* taken out of it again, by a Reader of the crate or by the TPM.          *)
(***************************************************************************)
EXTENDS Structures

CONSTANTS
  Inputs,      \* fields that may be marshalled: [kind, val]
  MaxFields    \* bound: fields in one string

\* Kinds of fields, with their values.
\*   "u8", "u16", "u32"  << n >>
\*   "tpm2b"             bytes, by marshal_tpm2b with its error returned
\*   "buffer"            bytes, by Buffer::marshal
\*   "pcrs"              a sequence of [hash, select], PcrSelectionList
\*   "digests"           a sequence of bytes, the pcrValues a TPM sends
\*   "extend"            a sequence of [alg, digest], the digests of pcr_extend
\*   "create"            [sensitive, public], the parameters of create
\*   "created"           [public, name], the reply's to create_primary
\*   "capability"        [more, capability, data], the reply's to get_capability
\* These two are read to the end of the string.
Alone == {"create", "capability"}

Bytes == Seq(Nat)
UpTo(n, S) == {s \in Seq(S) : Len(s) <= n}

\* The templates of types/structures.rs, with a policy of the caller's.
Templates ==
  UNION {{ecc_storage_parent(hash), EccParent(hash, null), SealedData(hash)} : hash \in {SHA1, SHA256}}

TPMT_PUBLIC ==
  [type_ : Nat, name_alg : Nat, attributes : Nat, auth_policy : Bytes, parameters : Seq(Nat), unique : Seq(Bytes)]

\* What a caller, or a TPM, may have to marshal: integers of their width; bytes
\* of any length, but what a TPM sends fits its TPM2B; lists that a UINT32 can
\* count, and digests that read_digest_list takes.
WellFormed(f) ==
  \/ f.kind = "u8" /\ f.val \in [1 .. 1 -> 0 .. UINT8_MAX]
  \/ f.kind = "u16" /\ f.val \in [1 .. 1 -> 0 .. UINT16_MAX]
  \/ f.kind = "u32" /\ f.val \in [1 .. 1 -> 0 .. UINT32_MAX]
  \/ f.kind \in {"tpm2b", "buffer"} /\ f.val \in Bytes
  \/ f.kind = "pcrs" /\ f.val \in UpTo(UINT32_MAX, [hash : 0 .. UINT16_MAX, select : UpTo(UINT8_MAX, Nat)])
  \/ f.kind = "digests" /\ f.val \in UpTo(UINT16_MAX, UpTo(UINT16_MAX, Nat))
  \/ /\ f.kind = "extend" /\ f.val \in UpTo(UINT32_MAX, [alg : 0 .. UINT16_MAX, digest : Bytes])
     /\ \A i \in DOMAIN f.val : Len(f.val[i].digest) = DigestSize(f.val[i].alg)
  \/ /\ f.kind = "create"
     /\ f.val \in [sensitive : [user_auth : Bytes, data : Bytes], public : TPMT_PUBLIC]
     /\ [f.val.public EXCEPT !.auth_policy = <<>>] \in Templates
  \/ f.kind = "created" /\ f.val \in [public : UpTo(UINT16_MAX, Nat), name : UpTo(UINT16_MAX, Nat)]
  \/ f.kind = "capability" /\ f.val \in [more : 0 .. UINT8_MAX, capability : 0 .. UINT32_MAX, data : Bytes]

ASSUME InputsAreFields == \A f \in Inputs : WellFormed(f)
ASSUME FieldsAreCounted == MaxFields \in Nat

VARIABLES
  phase,    \* "write", "refused", "read", "malformed" or "done"
  fields,   \* the fields marshalled so far
  out,      \* the Vec<u8> they were marshalled into; Reader::buf afterwards
  whole,    \* whether all of out was delivered
  pos,      \* Reader::pos
  got       \* the values read

vars == << phase, fields, out, whole, pos, got >>

Init ==
  /\ phase = "write" /\ fields = <<>> /\ out = <<>>
  /\ whole = TRUE /\ pos = 0 /\ got = <<>>

MayFollow(f) ==
  /\ Len(fields) < MaxFields
  /\ f.kind \in Alone => fields = <<>>
  /\ \A i \in DOMAIN fields : fields[i].kind \notin Alone

Write(f) ==
  /\ phase = "write" /\ MayFollow(f)
  /\ f.kind = "tpm2b" => Fits(f.val)
  /\ fields' = Append(fields, f) /\ out' = out \o marshal(f)
  /\ UNCHANGED << phase, whole, pos, got >>

\* marshal_tpm2b returns its error before it has written anything.
WriteFails(f) ==
  /\ phase = "write" /\ MayFollow(f)
  /\ f.kind = "tpm2b" /\ ~Fits(f.val)
  /\ phase' = "refused"
  /\ UNCHANGED << fields, out, whole, pos, got >>

Deliver(n) ==
  /\ phase = "write" /\ fields # <<>>
  /\ phase' = "read" /\ out' = SubSeq(out, 1, n) /\ whole' = (n = Len(out))
  /\ UNCHANGED << fields, pos, got >>

ReadNext ==
  /\ phase = "read"
  /\ LET r == unmarshal(fields[Len(got) + 1].kind, out, pos)
     IN IF r.ok
          THEN /\ pos' = r.at /\ got' = Append(got, r.val)
               /\ phase' = IF Len(got) + 1 = Len(fields) THEN "done" ELSE "read"
          ELSE phase' = "malformed" /\ UNCHANGED << pos, got >>
  /\ UNCHANGED << fields, out, whole >>

Next ==
  \/ \E f \in Inputs : Write(f) \/ WriteFails(f)
  \/ \E n \in 0 .. Len(out) : Deliver(n)
  \/ ReadNext

Spec == Init /\ [][Next]_vars

-----------------------------------------------------------------------------
\* Whether the parts of what create sends fit their TPM2Bs, alone and together.
CreateFits(c) ==
  /\ \A part \in {c.sensitive.user_auth, c.sensitive.data, c.public.auth_policy} : Fits(part)
  /\ MarshalSensitive(c.sensitive) # <<>> /\ MarshalPublic(c.public) # <<>>

BuffersFit == \A i \in DOMAIN fields : fields[i].kind = "buffer" => Fits(fields[i].val)
AllFit == BuffersFit /\ \A i \in DOMAIN fields : fields[i].kind = "create" => CreateFits(fields[i].val)

\* What one side marshalled the other reads back, field by field, to the last
\* byte, sized and counted structures at their limits included.
RoundTrip ==
  whole /\ AllFit => /\ phase # "malformed"
                     /\ \A i \in DOMAIN got : got[i] = fields[i].val
                     /\ phase = "done" => pos = Len(out)

\* A string cut short anywhere is found out: the Reader ends in Malformed, and
\* what it gave before is what was written, never a shorter or a shifted field.
\* The data of a capability alone runs to wherever the reply ends; a Buffer that
\* does not fit is not there at all.
CutIsMalformed ==
  ~whole /\ BuffersFit =>
    \/ fields[1].kind = "capability"
    \/ phase # "done" /\ \A i \in DOMAIN got : got[i] = fields[i].val

\* An auth value, data or policy that does not fit its TPM2B, or not together
\* with the others, drops out of the command without an error, and what is
\* behind it moves up: the TPM then refuses the command.  It never creates an
\* object other than the one asked for: none without its auth value or policy.
NeverAnotherObject ==
  \A i \in DOMAIN got :
    fields[i].kind = "create" => got[i] = fields[i].val /\ CreateFits(fields[i].val)

\* The PCR numbers a bitmap stands for, as the TPM reads it.
Selected(select) ==
  {8 * (i - 1) + k : i \in DOMAIN select, k \in 0 .. 7} \ 
    {n \in 0 .. (8 * Len(select)) - 1 : (select[(n \div 8) + 1] \div OneBit[(n % 8) + 1]) % 2 = 0}
=============================================================================
