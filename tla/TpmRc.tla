------------------------------- MODULE TpmRc -------------------------------
(***************************************************************************)
(* TPM response codes (src/src/error.rs) and the retry classification of   *)
(* the dispatcher (src/src/tpm.rs).  A code is the raw 32-bit value; the   *)
(* bit masks of the code are written as arithmetic on powers of two.       *)
(***************************************************************************)
EXTENDS Integers

HasBit(rc, weight) == (rc \div weight) % 2 = 1

is_format_one(rc) == HasBit(rc, 128)

is_warning(rc) == ~is_format_one(rc) /\ HasBit(rc, 2048)

\* rc & 0x0BF: bit 7 (set, or the code would be format-zero) and bits 0..5.
base(rc) == IF is_format_one(rc) THEN 128 + (rc % 64) ELSE rc

\* Option<u8>: -1 stands for None.
NoNumber == -1

\* Slip: the number masked to three bits, as if parameters had no more.
arg_number_ThreeBits(rc) == IF is_format_one(rc) THEN (rc \div 256) % 8 ELSE NoNumber

arg_number(rc) == IF is_format_one(rc) THEN (rc \div 256) % 16 ELSE NoNumber

arg_kind(rc) ==
  CASE ~is_format_one(rc) -> "None"
    [] is_format_one(rc) /\ HasBit(rc, 64) -> "Parameter"
    [] is_format_one(rc) /\ ~HasBit(rc, 64) /\ HasBit(rc, 2048) -> "Session"
    [] OTHER -> "Handle"

SUCCESS == 0

\* YIELDED 0x908, TESTING 0x90A, RETRY 0x922.
TransientWarnings == {2312, 2314, 2338}

\* Slip: only the warning number is compared, not the format and severity bits.
is_transient_LowBits(rc) == \E w \in TransientWarnings : rc % 64 = w % 64

is_transient(rc) == base(rc) \in TransientWarnings
=============================================================================
