-------------------------------- MODULE Wire --------------------------------
(***************************************************************************)
(* The primitives of the TPM wire encoding, src/src/marshal.rs: big-endian *)
(* integers, TPM2Bs, and the Reader's bounds-checked reads.                *)
(*                                                                         *)
(* A byte string is a sequence of numbers and an integer is written in     *)
(* base B, so that the limit of a UINT16 length, B^2 - 1, can be reached   *)
(* with a short string (the code has B = 256).                             *)
(***************************************************************************)
EXTENDS Integers, SequencesExt

CONSTANT B  \* base of the integers

ASSUME BaseIsNumber == B \in Nat \ {0, 1}

UINT8_MAX == B - 1
UINT16_MAX == B * B - 1
UINT32_MAX == B * B * B * B - 1

\* n shifted right by 0 to 3 bytes.
Shifted(n) ==
  LET a == n \div B
      b == a \div B
  IN << n, a, b, b \div B >>

to_be_bytes(n, width) == [i \in 1 .. width |-> Shifted(n)[width - i + 1] % B]

Concat(strings) == FoldLeft(LAMBDA a, b : a \o b, <<>>, strings)

\* Slip: the length covers the length field too.
TPM2B_CountsItself(data) == to_be_bytes(Len(data) + 2, 2) \o data

TPM2B(data) == to_be_bytes(Len(data), 2) \o data

Fits(data) == Len(data) <= UINT16_MAX

-----------------------------------------------------------------------------
(* Reading.  A read takes a position and yields the next one with a value. *)

Read(ok, at, val) == [ok |-> ok, at |-> at, val |-> val]

\* Slip: a read past the end yields what there is.
take_Short(buf, at, n) ==
  LET last == IF at + n > Len(buf) THEN Len(buf) ELSE at + n
  IN Read(TRUE, last, SubSeq(buf, at + 1, last))

take(buf, at, n) ==
  IF Len(buf) - at < n THEN Read(FALSE, at, <<>>) ELSE Read(TRUE, at + n, SubSeq(buf, at + 1, at + n))

from_be_bytes(s) == FoldLeft(LAMBDA n, b : n * B + b, 0, s)

\* What follows a read, if it succeeded: the code's `?'.
AndThen(r, Next(_)) == IF r.ok THEN Next(r) ELSE r

ReadUint(buf, at, width) ==
  AndThen(take(buf, at, width), LAMBDA r : Read(TRUE, r.at, << from_be_bytes(r.val) >>))

tpm2b(buf, at) ==
  AndThen(ReadUint(buf, at, 2), LAMBDA len : take(buf, len.at, len.val[1]))

Width == [u8 |-> 1, u16 |-> 2, u32 |-> 4]

ReadPrimitive(kind, buf, at) ==
  IF kind = "tpm2b" THEN tpm2b(buf, at) ELSE ReadUint(buf, at, Width[kind])

\* One after the other, each where the last one ended; the values read up to
\* the first that fails.
Collect(acc, r) == IF acc.ok THEN Read(r.ok, r.at, Append(acc.val, r.val)) ELSE acc

ReadFields(kinds, buf, at) ==
  FoldLeft(LAMBDA acc, kind : Collect(acc, ReadPrimitive(kind, buf, acc.at)), Read(TRUE, at, <<>>), kinds)
=============================================================================
