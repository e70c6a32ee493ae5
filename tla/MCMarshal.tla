----------------------------- MODULE MCMarshal -----------------------------
(***************************************************************************)
(* Marshal in base 12: a TPM2B holds at most 143 bytes, a bitmap 11, a     *)
(* list count has four digits, and every algorithm and key size is a       *)
(* UINT16.  Lengths at and around these limits; every PCR number a TPM     *)
(* has, and the last one a bitmap can hold.                                *)
(***************************************************************************)
EXTENDS Marshal

CONSTANTS
  Lengths,        \* of TPM2Bs
  CreateLengths   \* of the parts of a create

Data(n) == [i \in 1 .. n |-> i % B]

Field(kind, val) == [kind |-> kind, val |-> val]

Integers16 ==
  {Field("u8", <<n>>) : n \in {0, UINT8_MAX}}
    \cup {Field("u16", <<UINT16_MAX>>)}
    \cup {Field("u32", <<n>>) : n \in {0, UINT16_MAX + 1}}

Strings ==
  {Field("tpm2b", Data(n)) : n \in Lengths \cup {UINT16_MAX + 1}}
    \cup {Field("buffer", Data(n)) : n \in Lengths}

Lists ==
  {Field("pcrs", <<>>), Field("digests", <<>>), Field("extend", <<>>)}
    \cup {Field("pcrs", <<[hash |-> SHA1, select |-> <<0, 128>>]>>)}
    \cup {Field("digests", <<Data(n), Data(1)>>) : n \in Lengths}
    \cup {Field("extend", <<[alg |-> SHA1, digest |-> Data(20)], [alg |-> SHA256, digest |-> Data(32)]>>)}

Replies ==
  {Field("created", [public |-> Data(n), name |-> Data(3)]) : n \in Lengths}
    \cup {Field("capability", [more |-> 1, capability |-> 6, data |-> Data(n)]) : n \in {0, 5}}

Publics == {ecc_storage_parent(SHA256), EccParent(SHA1, null), SealedData(SHA256)}

Creates ==
  {Field("create", [sensitive |-> [user_auth |-> Data(a), data |-> Data(d)],
                    public |-> [p EXCEPT !.auth_policy = Data(policy)]])
   : a \in CreateLengths, d \in CreateLengths, policy \in CreateLengths, p \in Publics}

PcrNumbers == (0 .. 23) \cup {(8 * UINT8_MAX) - 1}

OnePcr(pcr) == Field("pcrs", <<single(SHA256, pcr)>>)

CodecInputs == Integers16 \cup Strings \cup Lists \cup Replies \cup Creates \cup {OnePcr(pcr) : pcr \in PcrNumbers}

\* pcr_read_one and pcr_extend name one PCR: whatever its number, the bitmap
\* that arrives selects it and no other, and has the 3 bytes a TPM expects.
OnePcrSelected ==
  \A i \in DOMAIN got, pcr \in PcrNumbers :
    BuffersFit /\ fields[i] = OnePcr(pcr) =>
      LET select == got[i][1].select
      IN Len(select) >= 3 /\ Selected(select) = {pcr}
=============================================================================
