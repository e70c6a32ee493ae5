---------------------------- MODULE MarshalProofs ---------------------------
(***************************************************************************)
(* What is marshalled is read back, for every base, every number of        *)
(* fields and every value they may have.                                   *)
(***************************************************************************)
EXTENDS MCMarshal, SequenceTheorems, TLAPS

-----------------------------------------------------------------------------
(* Loops.                                                                  *)

\* The code's loops as iterations: a byte of a big-endian integer, a string of
\* strings, a field of ReadFields, an element of ReadElements.
NextByte(c, d, n, b) == n * B + b
Digits == INSTANCE Iteration WITH Step <- NextByte

Join(c, d, a, b) == a \o b
Joined == INSTANCE Iteration WITH Step <- Join

NextField(buf, d, acc, kind) == Collect(acc, ReadPrimitive(kind, buf, acc.at))
Primitives == INSTANCE Iteration WITH Step <- NextField

NextElement(kind, buf, acc, i) == Collect(acc, ReadElement(kind, buf, acc.at))
Elements == INSTANCE Iteration WITH Step <- NextElement

\* The base leaves room for every identifier in a UINT16.
LEMMA Base == /\ B \in Nat /\ B >= 12
              /\ UINT8_MAX \in Nat /\ UINT16_MAX \in Nat /\ UINT32_MAX \in Nat
              /\ UINT16_MAX >= 143 /\ UINT32_MAX >= 20735
  <1>1. B \in Nat /\ B >= 12
    <2>1. ASSUME B <= 11 PROVE B * B <= 121
      <3>1. B \in {2, 3, 4, 5, 6, 7, 8, 9, 10, 11}
        BY BaseIsNumber, <2>1
      <3> QED BY <3>1
    <2> QED BY <2>1, BaseIsNumber, IdentifiersFit DEF UINT16_MAX
  <1> DEFINE C == B * B
  <1>2. C \in Nat /\ C >= 144
    BY <1>1
  <1>3. B * B * B * B = C * C
    BY <1>1
  <1>4. C * C \in Nat /\ C * C >= 144 * 144
    <2> HIDE DEF C
    <2> QED BY <1>2
  <1> QED BY <1>1, <1>2, <1>3, <1>4 DEF UINT8_MAX, UINT16_MAX, UINT32_MAX

\* from_be_bytes is an iteration.
LEMMA BytesFold == ASSUME NEW s PROVE from_be_bytes(s) = Digits!Iterate(0, 0, 0, s)
  BY DEF from_be_bytes, Digits!Iterate, NextByte, FoldLeft, MapThenFoldSet,
         Digits!FoldLeft, Digits!MapThenFoldSet, Max, Digits!Max

\* The values from_be_bytes goes through.
BytesRun(f, s, n) ==
  /\ f[0] = 0
  /\ \A i \in 1 .. n : f[i] = NextByte(0, 0, f[i - 1], s[i])
  /\ from_be_bytes(s) = f[n]

\* It takes them one after the other.
LEMMA BytesTurns ==
  ASSUME NEW s, NEW n \in Nat, DOMAIN s = 1 .. n
  PROVE  \E f : BytesRun(f, s, n)
  <1> DEFINE zero == 0
             f == Digits!Stage(zero, zero, zero, s, n)
  <1> HIDE DEF zero
  <1>1. /\ f[0] = zero
        /\ \A i \in 1 .. n : f[i] = NextByte(zero, zero, f[i - 1], s[i])
        /\ Digits!Iterate(zero, zero, zero, s) = f[n]
    BY Digits!Stepwise
  <1>2. BytesRun(f, s, n)
    BY <1>1, BytesFold DEF zero, BytesRun
  <1> QED BY <1>2

\* One, two and four bytes as from_be_bytes reads them.
LEMMA OneByte == ASSUME NEW s, DOMAIN s = 1 .. 1, s[1] \in Nat
  PROVE from_be_bytes(s) = s[1]
  <1> DEFINE n == 1
  <1> n \in Nat /\ DOMAIN s = 1 .. n
    OBVIOUS
  <1> HIDE DEF n
  <1>0. PICK f : BytesRun(f, s, n)
    BY BytesTurns
  <1>1. /\ f[0] = 0
        /\ \A i \in 1 .. 1 : f[i] = NextByte(0, 0, f[i - 1], s[i])
        /\ from_be_bytes(s) = f[1]
    BY <1>0 DEF BytesRun, n
  <1>2. f[1] = 0 * B + s[1]
    <2>1. 1 \in 1 .. 1 /\ 1 - 1 = 0
      OBVIOUS
    <2> QED BY <1>1, <2>1 DEF NextByte
  <1> QED BY <1>1, <1>2, Base

\* Two bytes.
LEMMA TwoBytes == ASSUME NEW s, DOMAIN s = 1 .. 2, s[1] \in Nat, s[2] \in Nat
  PROVE from_be_bytes(s) = s[1] * B + s[2]
  <1> DEFINE n == 2
  <1> n \in Nat /\ DOMAIN s = 1 .. n
    OBVIOUS
  <1> HIDE DEF n
  <1>0. PICK f : BytesRun(f, s, n)
    BY BytesTurns
  <1>1. /\ f[0] = 0
        /\ \A i \in 1 .. 2 : f[i] = NextByte(0, 0, f[i - 1], s[i])
        /\ from_be_bytes(s) = f[2]
    BY <1>0 DEF BytesRun, n
  <1>2. /\ 1 \in 1 .. 2 /\ 1 - 1 = 0
        /\ 2 \in 1 .. 2 /\ 2 - 1 = 1
    OBVIOUS
  <1>3. f[1] = 0 * B + s[1]
    BY <1>1, <1>2 DEF NextByte
  <1>4. f[2] = f[1] * B + s[2]
    BY <1>1, <1>2 DEF NextByte
  <1>5. f[1] = s[1]
    BY <1>3, Base
  <1> QED BY <1>1, <1>4, <1>5

\* Four bytes.
LEMMA FourBytes ==
  ASSUME NEW s, DOMAIN s = 1 .. 4, s[1] \in Nat, s[2] \in Nat, s[3] \in Nat, s[4] \in Nat
  PROVE from_be_bytes(s) = ((s[1] * B + s[2]) * B + s[3]) * B + s[4]
  <1> DEFINE n == 4
  <1> n \in Nat /\ DOMAIN s = 1 .. n
    OBVIOUS
  <1> HIDE DEF n
  <1>0. PICK f : BytesRun(f, s, n)
    BY BytesTurns
  <1>1. /\ f[0] = 0
        /\ \A i \in 1 .. 4 : f[i] = NextByte(0, 0, f[i - 1], s[i])
        /\ from_be_bytes(s) = f[4]
    BY <1>0 DEF BytesRun, n
  <1>2. /\ 1 \in 1 .. 4 /\ 1 - 1 = 0
        /\ 2 \in 1 .. 4 /\ 2 - 1 = 1
        /\ 3 \in 1 .. 4 /\ 3 - 1 = 2
        /\ 4 \in 1 .. 4 /\ 4 - 1 = 3
    OBVIOUS
  <1>3. f[1] = 0 * B + s[1]
    BY <1>1, <1>2 DEF NextByte
  <1>4. f[2] = f[1] * B + s[2]
    BY <1>1, <1>2 DEF NextByte
  <1>5. f[3] = f[2] * B + s[3]
    BY <1>1, <1>2 DEF NextByte
  <1>6. f[4] = f[3] * B + s[4]
    BY <1>1, <1>2 DEF NextByte
  <1>7. f[1] = s[1]
    BY <1>3, Base
  <1> QED BY <1>1, <1>4, <1>5, <1>6, <1>7

-----------------------------------------------------------------------------
(* Integers and TPM2Bs.                                                    *)

\* A digit and what is left of a number.
LEMMA Div == ASSUME NEW m \in Nat, NEW n \in Nat, n < m * B
  PROVE n \div B \in 0 .. m - 1 /\ n = (n \div B) * B + (n % B) /\ n % B \in 0 .. B - 1
  <1>1. n = (n \div B) * B + (n % B) /\ n % B \in 0 .. B - 1 /\ n \div B \in Int
    BY Base
  <1>2. n \div B \in Nat
    BY Base
  <1>3. ASSUME n \div B >= m PROVE FALSE
    <2> DEFINE q == n \div B
    <2>1. q * B >= m * B
      <3> HIDE DEF q
      <3>1. q \in Int /\ q >= m
        BY <1>1, <1>3 DEF q
      <3> QED BY <3>1, Base
    <2>2. m * B \in Int /\ q * B \in Int
      BY <1>1, Base
    <2> HIDE DEF q
    <2> QED BY <1>1, <2>1, <2>2 DEF q
  <1> QED BY <1>1, <1>2, <1>3

\* What to_be_bytes writes from_be_bytes reads.
LEMMA OneByteThere ==
  ASSUME NEW n \in 0 .. UINT8_MAX
  PROVE  /\ to_be_bytes(n, 1) \in Seq(Nat) /\ Len(to_be_bytes(n, 1)) = 1
         /\ from_be_bytes(to_be_bytes(n, 1)) = n
  <1> DEFINE s == to_be_bytes(n, 1)
  <1>1. n \in Nat /\ n < 1 * B
    BY Base DEF UINT8_MAX
  <1>2. n % B = n
    BY <1>1, Base
  <1>3. DOMAIN s = 1 .. 1 /\ s[1] = n % B
    BY DEF to_be_bytes, Shifted
  <1>4. s \in Seq(Nat) /\ Len(s) = 1
    BY <1>1, <1>2 DEF to_be_bytes, Shifted
  <1> HIDE DEF s
  <1>5. from_be_bytes(s) = n
    BY <1>1, <1>2, <1>3, OneByte
  <1> QED BY <1>4, <1>5 DEF s

\* The same for two bytes.
LEMMA TwoBytesThere ==
  ASSUME NEW n \in 0 .. UINT16_MAX
  PROVE  /\ to_be_bytes(n, 2) \in Seq(Nat) /\ Len(to_be_bytes(n, 2)) = 2
         /\ from_be_bytes(to_be_bytes(n, 2)) = n
  <1> DEFINE s == to_be_bytes(n, 2)
             a == n \div B
  <1>1. n \in Nat /\ n < B * B
    BY Base DEF UINT16_MAX
  <1>2. a \in 0 .. B - 1 /\ n = a * B + (n % B) /\ n % B \in 0 .. B - 1
    <2> DEFINE m == B
    <2>1. m \in Nat /\ n < m * B
      BY <1>1, Base
    <2> HIDE DEF m
    <2>2. n \div B \in 0 .. m - 1 /\ n = (n \div B) * B + (n % B) /\ n % B \in 0 .. B - 1
      BY <1>1, <2>1, Div
    <2> QED BY <2>2 DEF m
  <1>3. DOMAIN s = 1 .. 2 /\ s[1] = a % B /\ s[2] = n % B
    BY DEF to_be_bytes, Shifted
  <1> HIDE DEF a
  <1>4. a % B = a
    BY <1>2, Base
  <1>5. s[1] \in Nat /\ s[2] \in Nat
    BY <1>2, <1>3, <1>4
  <1>6. s \in Seq(Nat) /\ Len(s) = 2
    <2>1. s = [i \in 1 .. 2 |-> Shifted(n)[2 - i + 1] % B]
      BY DEF to_be_bytes
    <2> HIDE DEF s
    <2> QED BY <1>3, <1>5, <2>1
  <1> HIDE DEF s
  <1>7. from_be_bytes(s) = n
    BY <1>2, <1>3, <1>4, <1>5, TwoBytes
  <1> QED BY <1>6, <1>7 DEF s

\* The same for four bytes.
LEMMA FourBytesThere ==
  ASSUME NEW n \in 0 .. UINT32_MAX
  PROVE  /\ to_be_bytes(n, 4) \in Seq(Nat) /\ Len(to_be_bytes(n, 4)) = 4
         /\ from_be_bytes(to_be_bytes(n, 4)) = n
  <1> DEFINE s == to_be_bytes(n, 4)
             a == n \div B
             b == a \div B
             c == b \div B
  <1>1. n \in Nat /\ n < (B * B * B) * B /\ B * B * B \in Nat /\ B * B \in Nat
    BY Base DEF UINT32_MAX
  <1>2. DOMAIN s = 1 .. 4 /\ s[1] = c % B /\ s[2] = b % B /\ s[3] = a % B /\ s[4] = n % B
    BY DEF to_be_bytes, Shifted
  <1>3. a \in 0 .. (B * B * B) - 1 /\ n = a * B + (n % B) /\ n % B \in 0 .. B - 1
    BY <1>1, Div
  <1> HIDE DEF a
  <1>4. a \in Nat /\ a < (B * B) * B
    BY <1>1, <1>3
  <1>5. b \in 0 .. (B * B) - 1 /\ a = b * B + (a % B) /\ a % B \in 0 .. B - 1
    BY <1>1, <1>4, Div
  <1> HIDE DEF b
  <1>6. b \in Nat /\ b < B * B
    BY <1>1, <1>5
  <1>7. c \in 0 .. B - 1 /\ b = c * B + (b % B) /\ b % B \in 0 .. B - 1
    <2> DEFINE m == B
    <2>1. m \in Nat /\ b < m * B
      BY <1>6, Base
    <2> HIDE DEF m
    <2>2. b \div B \in 0 .. m - 1 /\ b = (b \div B) * B + (b % B) /\ b % B \in 0 .. B - 1
      BY <1>6, <2>1, Div
    <2> QED BY <2>2 DEF m
  <1> HIDE DEF c
  <1>8. c % B = c
    BY <1>7, Base
  <1>9. s[1] \in Nat /\ s[2] \in Nat /\ s[3] \in Nat /\ s[4] \in Nat
    BY <1>2, <1>3, <1>5, <1>7, <1>8
  <1>10. s \in Seq(Nat) /\ Len(s) = 4
    <2>1. s = [i \in 1 .. 4 |-> Shifted(n)[4 - i + 1] % B]
      BY DEF to_be_bytes
    <2> HIDE DEF s
    <2> QED BY <1>2, <1>9, <2>1
  <1> HIDE DEF s
  <1>11. from_be_bytes(s) = ((s[1] * B + s[2]) * B + s[3]) * B + s[4]
    BY <1>2, <1>9, FourBytes
  <1>12. s[1] * B + s[2] = b
    BY <1>2, <1>7, <1>8
  <1>13. b * B + s[3] = a
    BY <1>2, <1>5
  <1> QED BY <1>2, <1>3, <1>10, <1>11, <1>12, <1>13 DEF s

-----------------------------------------------------------------------------
(* Byte strings, and reads of a string that is perhaps cut short.          *)

\* Two byte strings, one behind the other.
LEMMA Cat ==
  ASSUME NEW s \in Seq(Nat), NEW t \in Seq(Nat)
  PROVE  /\ s \o t \in Seq(Nat)
         /\ Len(s \o t) = Len(s) + Len(t)
         /\ \A i \in 1 .. Len(s) : (s \o t)[i] = s[i]
         /\ \A i \in 1 .. Len(t) : (s \o t)[Len(s) + i] = t[i]
         /\ Len(s) \in Nat /\ Len(t) \in Nat
  <1>1. /\ s \o t \in Seq(Nat)
        /\ Len(s \o t) = Len(s) + Len(t)
        /\ \A i \in 1 .. Len(s) + Len(t) : (s \o t)[i] = IF i <= Len(s) THEN s[i] ELSE t[i - Len(s)]
    BY ConcatProperties
  <1>2. Len(s) \in Nat /\ Len(t) \in Nat
    OBVIOUS
  <1>3. ASSUME NEW i \in 1 .. Len(s) PROVE (s \o t)[i] = s[i]
    BY <1>1, <1>2
  <1>4. ASSUME NEW i \in 1 .. Len(t) PROVE (s \o t)[Len(s) + i] = t[i]
    <2>1. Len(s) + i \in 1 .. Len(s) + Len(t) /\ ~(Len(s) + i <= Len(s)) /\ Len(s) + i - Len(s) = i
      BY <1>2
    <2> QED BY <1>1, <2>1
  <1> QED BY <1>1, <1>2, <1>3, <1>4

\* As far as buf goes it has s at at.
Has(buf, at, s) == \A i \in 1 .. Len(s) : at + i <= Len(buf) => buf[at + i] = s[i]

\* A buffer has two strings one behind the other when it has each at its place.
LEMMA HasBoth ==
  ASSUME NEW s \in Seq(Nat), NEW t \in Seq(Nat), NEW buf \in Seq(Nat), NEW at \in Nat
  PROVE  Has(buf, at, s \o t) <=> Has(buf, at, s) /\ Has(buf, at + Len(s), t)
  <1> DEFINE u == s \o t
  <1>1. /\ u \in Seq(Nat) /\ Len(u) = Len(s) + Len(t) /\ Len(s) \in Nat /\ Len(t) \in Nat
        /\ \A i \in 1 .. Len(s) : u[i] = s[i]
        /\ \A i \in 1 .. Len(t) : u[Len(s) + i] = t[i]
    BY Cat
  <1> HIDE DEF u
  <1>2. ASSUME Has(buf, at, u)
        PROVE  Has(buf, at, s)
    <2> SUFFICES ASSUME NEW i \in 1 .. Len(s), at + i <= Len(buf)
                 PROVE  buf[at + i] = s[i]
      BY DEF Has
    <2>1. i \in 1 .. Len(u)
      BY <1>1
    <2>2. buf[at + i] = u[i]
      BY <1>2, <2>1 DEF Has
    <2> QED BY <1>1, <2>2
  <1>3. ASSUME Has(buf, at, u)
        PROVE  Has(buf, at + Len(s), t)
    <2> SUFFICES ASSUME NEW i \in 1 .. Len(t), at + Len(s) + i <= Len(buf)
                 PROVE  buf[at + Len(s) + i] = t[i]
      BY DEF Has
    <2>1. Len(s) + i \in 1 .. Len(u) /\ at + (Len(s) + i) = at + Len(s) + i
      BY <1>1
    <2> QED BY <1>1, <1>3, <2>1 DEF Has
  <1>4. ASSUME Has(buf, at, s), Has(buf, at + Len(s), t)
        PROVE  Has(buf, at, u)
    <2> SUFFICES ASSUME NEW i \in 1 .. Len(u), at + i <= Len(buf)
                 PROVE  buf[at + i] = u[i]
      BY DEF Has
    <2>1. CASE i <= Len(s)
      <3>1. i \in 1 .. Len(s)
        BY <1>1, <2>1
      <3>2. buf[at + i] = s[i]
        BY <1>4, <3>1 DEF Has
      <3> QED BY <1>1, <3>1, <3>2
    <2>2. CASE ~(i <= Len(s))
      <3> DEFINE j == i - Len(s)
      <3>1. j \in 1 .. Len(t) /\ Len(s) + j = i /\ at + Len(s) + j = at + i
        BY <1>1, <2>2
      <3> HIDE DEF j
      <3>2. buf[at + Len(s) + j] = t[j]
        BY <1>4, <3>1 DEF Has
      <3> QED BY <1>1, <3>1, <3>2
    <2> QED BY <2>1, <2>2
  <1> QED BY <1>2, <1>3, <1>4 DEF u

\* What is read where s was written: x, if all of s is there; else nothing.
Gives(r, buf, at, s, x) ==
  IF at + Len(s) <= Len(buf) THEN r = Read(TRUE, at + Len(s), x) ELSE r.ok = FALSE

\* Reader::take yields what is there, if all of it is.
LEMMA TakeGives ==
  ASSUME NEW buf \in Seq(Nat), NEW s \in Seq(Nat), NEW at \in Nat, at <= Len(buf), Has(buf, at, s)
  PROVE  Gives(take(buf, at, Len(s)), buf, at, s, s)
  <1>1. Len(s) \in Nat /\ Len(buf) \in Nat
    OBVIOUS
  <1>2. CASE at + Len(s) <= Len(buf)
    <2> DEFINE u == SubSeq(buf, at + 1, at + Len(s))
    <2>1. \A i \in at + 1 .. at + Len(s) : buf[i] \in Nat
      BY <1>1, <1>2
    <2>2. /\ u \in Seq(Nat)
          /\ Len(u) = Len(s)
          /\ \A i \in 1 .. Len(s) : u[i] = buf[at + i]
      <3>1. /\ u \in Seq(Nat)
            /\ Len(u) = IF at + 1 <= at + Len(s) THEN at + Len(s) - (at + 1) + 1 ELSE 0
            /\ \A i \in 1 .. at + Len(s) - (at + 1) + 1 : u[i] = buf[at + 1 + i - 1]
        BY <1>1, <2>1, SubSeqProperties
      <3>2. /\ at + Len(s) - (at + 1) + 1 = Len(s)
            /\ \A i \in Int : at + 1 + i - 1 = at + i
        BY <1>1
      <3> HIDE DEF u
      <3> QED BY <1>1, <3>1, <3>2
    <2> HIDE DEF u
    <2>3. \A i \in 1 .. Len(s) : u[i] = s[i]
      <3> SUFFICES ASSUME NEW i \in 1 .. Len(s) PROVE u[i] = s[i]
        OBVIOUS
      <3>1. at + i <= Len(buf)
        BY <1>1, <1>2
      <3> QED BY <2>2, <3>1 DEF Has
    <2>4. u = s
      BY <2>2, <2>3, SeqEqual
    <2>5. take(buf, at, Len(s)) = Read(TRUE, at + Len(s), u)
      <3>1. ~(Len(buf) - at < Len(s))
        BY <1>1, <1>2
      <3> QED BY <3>1, Zenon DEF take, u
    <2> QED BY <1>2, <2>4, <2>5 DEF Gives
  <1>3. CASE ~(at + Len(s) <= Len(buf))
    BY <1>1, <1>3 DEF take, Gives, Read
  <1> QED BY <1>2, <1>3

\* One read after another reads one string after another.
LEMMA Sequel ==
  ASSUME NEW buf \in Seq(Nat), NEW s \in Seq(Nat), NEW t \in Seq(Nat), NEW at \in Nat,
         NEW r, NEW q, NEW x, NEW y,
         Gives(r, buf, at, s, x), at + Len(s) <= Len(buf) => Gives(q, buf, at + Len(s), t, y)
  PROVE  Gives(IF r.ok THEN q ELSE r, buf, at, s \o t, y)
  <1>1. Len(s \o t) = Len(s) + Len(t) /\ Len(s) \in Nat /\ Len(t) \in Nat
    BY Cat
  <1>2. at + Len(s \o t) = (at + Len(s)) + Len(t)
    BY <1>1
  <1>3. CASE at + Len(s) <= Len(buf)
    BY <1>1, <1>2, <1>3 DEF Gives, Read
  <1>4. CASE ~(at + Len(s) <= Len(buf))
    BY <1>1, <1>2, <1>4 DEF Gives, Read
  <1> QED BY <1>3, <1>4

\* The other way round: the read is all there is of s.
LEMMA Given ==
  ASSUME NEW buf, NEW s, NEW at, NEW r, NEW x, Gives(r, buf, at, s, x), r.ok
  PROVE  at + Len(s) <= Len(buf) /\ r = Read(TRUE, at + Len(s), x)
  BY DEF Gives

\* An integer of the width of s.
LEMMA UintGives ==
  ASSUME NEW buf \in Seq(Nat), NEW s \in Seq(Nat), NEW at \in Nat, at <= Len(buf), Has(buf, at, s)
  PROVE  Gives(ReadUint(buf, at, Len(s)), buf, at, s, << from_be_bytes(s) >>)
  <1> DEFINE r == take(buf, at, Len(s))
  <1>1. Gives(r, buf, at, s, s)
    BY TakeGives
  <1>2. ReadUint(buf, at, Len(s)) = IF r.ok THEN Read(TRUE, r.at, << from_be_bytes(r.val) >>) ELSE r
    BY DEF ReadUint, AndThen
  <1> HIDE DEF r
  <1>3. CASE at + Len(s) <= Len(buf)
    <2>1. r = Read(TRUE, at + Len(s), s)
      BY <1>1, <1>3 DEF Gives
    <2>2. r.ok /\ r.at = at + Len(s) /\ r.val = s
      BY <2>1 DEF Read
    <2> QED BY <1>2, <1>3, <2>2 DEF Gives
  <1>4. CASE ~(at + Len(s) <= Len(buf))
    <2>1. r.ok = FALSE
      BY <1>1, <1>4 DEF Gives
    <2> QED BY <1>2, <1>4, <2>1 DEF Gives
  <1> QED BY <1>3, <1>4

\* A u8 as it is written and read.
LEMMA U8 ==
  ASSUME NEW n \in 0 .. UINT8_MAX
  PROVE  /\ u8(n) \in Seq(Nat) /\ Len(u8(n)) = 1
         /\ \A buf \in Seq(Nat) : \A at \in Nat :
              at <= Len(buf) /\ Has(buf, at, u8(n)) => Gives(ReadUint(buf, at, 1), buf, at, u8(n), << n >>)
  <1>1. u8(n) \in Seq(Nat) /\ Len(u8(n)) = 1 /\ from_be_bytes(u8(n)) = n
    BY OneByteThere DEF u8
  <1> QED BY <1>1, UintGives

\* A u16.
LEMMA U16 ==
  ASSUME NEW n \in 0 .. UINT16_MAX
  PROVE  /\ u16(n) \in Seq(Nat) /\ Len(u16(n)) = 2
         /\ \A buf \in Seq(Nat) : \A at \in Nat :
              at <= Len(buf) /\ Has(buf, at, u16(n)) => Gives(ReadUint(buf, at, 2), buf, at, u16(n), << n >>)
  <1>1. u16(n) \in Seq(Nat) /\ Len(u16(n)) = 2 /\ from_be_bytes(u16(n)) = n
    BY TwoBytesThere DEF u16
  <1> QED BY <1>1, UintGives

\* A u32.
LEMMA U32 ==
  ASSUME NEW n \in 0 .. UINT32_MAX
  PROVE  /\ u32(n) \in Seq(Nat) /\ Len(u32(n)) = 4
         /\ \A buf \in Seq(Nat) : \A at \in Nat :
              at <= Len(buf) /\ Has(buf, at, u32(n)) => Gives(ReadUint(buf, at, 4), buf, at, u32(n), << n >>)
  <1>1. u32(n) \in Seq(Nat) /\ Len(u32(n)) = 4 /\ from_be_bytes(u32(n)) = n
    BY FourBytesThere DEF u32
  <1> QED BY <1>1, UintGives

\* A TPM2B of data that fits one.
LEMMA Sized ==
  ASSUME NEW data \in Seq(Nat), Fits(data)
  PROVE  /\ TPM2B(data) \in Seq(Nat) /\ Len(TPM2B(data)) = 2 + Len(data)
         /\ \A buf \in Seq(Nat) : \A at \in Nat :
              at <= Len(buf) /\ Has(buf, at, TPM2B(data)) => Gives(tpm2b(buf, at), buf, at, TPM2B(data), data)
  <1> DEFINE n == Len(data)
             s == u16(n)
  <1>1. n \in 0 .. UINT16_MAX
    BY DEF Fits
  <1>2. /\ s \in Seq(Nat) /\ Len(s) = 2
        /\ \A buf \in Seq(Nat) : \A at \in Nat :
             at <= Len(buf) /\ Has(buf, at, s) => Gives(ReadUint(buf, at, 2), buf, at, s, << n >>)
    BY <1>1, U16
  <1>3. TPM2B(data) = s \o data
    BY DEF TPM2B, u16
  <1> HIDE DEF s
  <1>4. s \o data \in Seq(Nat) /\ Len(s \o data) = 2 + Len(data)
    <2>1. s \o data \in Seq(Nat) /\ Len(s \o data) = Len(s) + Len(data)
      BY <1>2, Cat
    <2> QED BY <1>2, <2>1
  <1>5. ASSUME NEW buf \in Seq(Nat), NEW at \in Nat, at <= Len(buf), Has(buf, at, s \o data)
        PROVE  Gives(tpm2b(buf, at), buf, at, s \o data, data)
    <2>1. Has(buf, at, s) /\ Has(buf, at + 2, data)
      BY <1>2, <1>5, HasBoth
    <2> DEFINE r == ReadUint(buf, at, 2)
               q == take(buf, r.at, r.val[1])
    <2>2. Gives(r, buf, at, s, << n >>)
      BY <1>2, <1>5, <2>1
    <2>3. tpm2b(buf, at) = IF r.ok THEN q ELSE r
      BY DEF tpm2b, AndThen
    <2> HIDE DEF r
    <2>4. ASSUME at + Len(s) <= Len(buf)
          PROVE  Gives(q, buf, at + Len(s), data, data)
      <3>1. r = Read(TRUE, at + Len(s), << n >>)
        BY <2>2, <2>4 DEF Gives
      <3>2. r.at = at + 2 /\ r.val[1] = Len(data)
        BY <1>2, <3>1 DEF Read
      <3>3. Gives(take(buf, at + 2, Len(data)), buf, at + 2, data, data)
        BY <1>2, <2>1, <2>4, TakeGives
      <3> QED BY <1>2, <3>2, <3>3
    <2> HIDE DEF q
    <2>5. Gives(IF r.ok THEN q ELSE r, buf, at, s \o data, data)
      BY <1>2, <2>2, <2>4, Sequel
    <2> QED BY <2>3, <2>5
  <1> QED BY <1>3, <1>4, <1>5

-----------------------------------------------------------------------------
(* Strings one after another, and a read of each.                          *)

-----------------------------------------------------------------------------
(* Strings one behind the other, and reading one after the other.          *)

\* Concat is an iteration.
LEMMA ConcatFold == ASSUME NEW strs PROVE Concat(strs) = Joined!Iterate(0, 0, <<>>, strs)
  BY DEF Concat, Joined!Iterate, Join, FoldLeft, MapThenFoldSet,
         Joined!FoldLeft, Joined!MapThenFoldSet, Max, Joined!Max

\* Of no strings.
LEMMA ConcatNone == ASSUME NEW strs, DOMAIN strs = {} PROVE Concat(strs) = <<>>
  <1> DEFINE zero == 0
             none == <<>>
  <1> HIDE DEF zero, none
  <1>1. Joined!Iterate(zero, zero, none, strs) = none
    BY Joined!Unturned
  <1> QED BY <1>1, ConcatFold DEF zero, none

\* Of one string more.
LEMMA ConcatMore ==
  ASSUME NEW n \in Nat, NEW strs, DOMAIN strs = 1 .. n + 1,
         NEW first, DOMAIN first = 1 .. n, \A i \in 1 .. n : first[i] = strs[i]
  PROVE  Concat(strs) = Concat(first) \o strs[n + 1]
  <1> DEFINE zero == 0
             none == <<>>
  <1> HIDE DEF zero, none
  <1>1. Joined!Iterate(zero, zero, none, strs) = Join(zero, zero, Joined!Iterate(zero, zero, none, first), strs[n + 1])
    BY Joined!OneMoreTurn
  <1>2. /\ Concat(strs) = Joined!Iterate(zero, zero, none, strs)
        /\ Concat(first) = Joined!Iterate(zero, zero, none, first)
    BY ConcatFold DEF zero, none
  <1> QED BY <1>1, <1>2 DEF Join

\* The first i strings.
Upto(strs, i) == Concat([k \in 1 .. i |-> strs[k]])

\* A string of strings grows by one string at a time.
LEMMA Pieces ==
  ASSUME NEW strs \in Seq(Seq(Nat))
  PROVE  /\ Upto(strs, 0) = <<>> /\ Upto(strs, Len(strs)) = Concat(strs)
         /\ \A i \in 0 .. Len(strs) : Upto(strs, i) \in Seq(Nat)
         /\ \A i \in 1 .. Len(strs) : /\ Upto(strs, i) = Upto(strs, i - 1) \o strs[i]
                                      /\ Len(Upto(strs, i)) = Len(Upto(strs, i - 1)) + Len(strs[i])
  <1> DEFINE n == Len(strs)
             S == {i \in Nat : i <= n => Upto(strs, i) \in Seq(Nat)}
  <1>1. n \in Nat /\ \A i \in 1 .. n : strs[i] \in Seq(Nat)
    OBVIOUS
  <1>2. Upto(strs, 0) = <<>>
    <2> DEFINE s == [k \in 1 .. 0 |-> strs[k]]
    <2>1. DOMAIN s = {}
      OBVIOUS
    <2> HIDE DEF s
    <2>2. Concat(s) = <<>>
      BY <2>1, ConcatNone
    <2> QED BY <2>2 DEF s, Upto
  <1>3. Upto(strs, n) = Concat(strs)
    <2>1. strs = [k \in 1 .. n |-> strs[k]]
      BY <1>1
    <2> QED BY <2>1 DEF Upto
  <1>4. ASSUME NEW i \in Nat
        PROVE  Upto(strs, i + 1) = Upto(strs, i) \o strs[i + 1]
    <2> DEFINE s == [k \in 1 .. i + 1 |-> strs[k]]
               t == [k \in 1 .. i |-> strs[k]]
    <2>1. /\ DOMAIN s = 1 .. i + 1 /\ DOMAIN t = 1 .. i
          /\ \A k \in 1 .. i : t[k] = s[k]
          /\ s[i + 1] = strs[i + 1]
      OBVIOUS
    <2> HIDE DEF s, t
    <2>2. Concat(s) = Concat(t) \o s[i + 1]
      BY <2>1, ConcatMore
    <2> QED BY <2>1, <2>2 DEF s, t, Upto
  <1>5. 0 \in S
    <2>1. <<>> \in Seq(Nat)
      BY EmptySeq
    <2> QED BY <1>2, <2>1
  <1>6. ASSUME NEW i \in Nat, i \in S
        PROVE  i + 1 \in S
    <2> SUFFICES ASSUME i + 1 <= n PROVE Upto(strs, i + 1) \in Seq(Nat)
      OBVIOUS
    <2>1. i + 1 \in 1 .. n /\ Upto(strs, i) \in Seq(Nat)
      BY <1>1, <1>6
    <2>2. Upto(strs, i) \o strs[i + 1] \in Seq(Nat)
      BY <1>1, <2>1, Cat
    <2> QED BY <1>4, <2>2
  <1> HIDE DEF S
  <1>7. Nat \subseteq S
    BY <1>5, <1>6, Joined!NatSets
  <1>8. \A i \in 0 .. n : Upto(strs, i) \in Seq(Nat)
    BY <1>7 DEF S
  <1>9. ASSUME NEW i \in 1 .. n
        PROVE  /\ Upto(strs, i) = Upto(strs, i - 1) \o strs[i]
               /\ Len(Upto(strs, i)) = Len(Upto(strs, i - 1)) + Len(strs[i])
    <2>1. i - 1 \in Nat /\ i - 1 \in 0 .. n /\ (i - 1) + 1 = i
      BY <1>1
    <2>2. Upto(strs, i) = Upto(strs, i - 1) \o strs[i]
      BY <1>4, <2>1
    <2> QED BY <1>1, <1>8, <2>1, <2>2, Cat
  <1> QED BY <1>2, <1>3, <1>8, <1>9

\* A string that has them all has each of them, where the ones before it end.
LEMMA HasPieces ==
  ASSUME NEW strs \in Seq(Seq(Nat)), NEW buf \in Seq(Nat), NEW at \in Nat, Has(buf, at, Concat(strs))
  PROVE  /\ \A i \in 0 .. Len(strs) : /\ Has(buf, at, Upto(strs, i))
                                      /\ Len(Upto(strs, i)) <= Len(Concat(strs))
         /\ \A i \in 1 .. Len(strs) : Has(buf, at + Len(Upto(strs, i - 1)), strs[i])
  <1> DEFINE n == Len(strs)
             P(i) == Has(buf, at, Upto(strs, i)) /\ Len(Upto(strs, i)) <= Len(Concat(strs))
             S == {j \in Nat : j <= n => P(n - j)}
  <1>1. n \in Nat /\ \A i \in 1 .. n : strs[i] \in Seq(Nat)
    OBVIOUS
  <1>2. ASSUME NEW i \in 1 .. n, P(i)
        PROVE  P(i - 1) /\ Has(buf, at + Len(Upto(strs, i - 1)), strs[i])
    <2>1. Upto(strs, i) = Upto(strs, i - 1) \o strs[i] /\ Len(Upto(strs, i)) = Len(Upto(strs, i - 1)) + Len(strs[i])
      BY Pieces
    <2>2. i - 1 \in 0 .. n /\ i \in 0 .. n
      BY <1>1
    <2>3. Upto(strs, i - 1) \in Seq(Nat) /\ strs[i] \in Seq(Nat) /\ Upto(strs, i) \in Seq(Nat) /\ Concat(strs) \in Seq(Nat)
      <3>1. n \in 0 .. n
        BY <1>1
      <3> QED BY <1>1, <2>2, <3>1, Pieces
    <2>4. Has(buf, at, Upto(strs, i - 1)) /\ Has(buf, at + Len(Upto(strs, i - 1)), strs[i])
      BY <1>2, <2>1, <2>3, HasBoth
    <2>5. Len(Upto(strs, i - 1)) \in Nat /\ Len(strs[i]) \in Nat /\ Len(Concat(strs)) \in Nat
      BY <2>3
    <2>6. Len(Upto(strs, i - 1)) <= Len(Concat(strs))
      <3>1. Len(Upto(strs, i)) <= Len(Concat(strs))
        BY <1>2
      <3>2. \A a, b, c, d \in Nat : a = b + c /\ a <= d => b <= d
        OBVIOUS
      <3>3. Len(Upto(strs, i)) \in Nat
        BY <2>3
      <3> QED BY <2>1, <2>5, <3>1, <3>2, <3>3
    <2> QED BY <2>4, <2>6
  <1>3. 0 \in S
    <2>1. Upto(strs, n) = Concat(strs) /\ n \in 0 .. n /\ n - 0 = n
      <3>1. Upto(strs, n) = Concat(strs)
        BY Pieces
      <3> QED BY <1>1, <3>1
    <2>2. Concat(strs) \in Seq(Nat)
      <3>1. Upto(strs, n) \in Seq(Nat)
        BY <2>1, Pieces
      <3> QED BY <2>1, <3>1
    <2>3. Len(Concat(strs)) <= Len(Concat(strs))
      BY <2>2
    <2>4. P(n)
      BY <2>1, <2>3
    <2> HIDE DEF P
    <2> QED BY <2>1, <2>4
  <1>4. ASSUME NEW j \in Nat, j \in S
        PROVE  j + 1 \in S
    <2> SUFFICES ASSUME j + 1 <= n PROVE P(n - (j + 1))
      OBVIOUS
    <2> HIDE DEF P
    <2>1. n - j \in 1 .. n /\ n - (j + 1) = (n - j) - 1 /\ P(n - j)
      BY <1>1, <1>4
    <2> QED BY <1>2, <2>1
  <1> HIDE DEF S
  <1>5. Nat \subseteq S
    BY <1>3, <1>4, Joined!NatSets
  <1>6. ASSUME NEW i \in 0 .. n PROVE P(i)
    <2> HIDE DEF P
    <2>1. n - i \in S /\ n - i \in Nat /\ n - (n - i) = i
      BY <1>1, <1>5
    <2> QED BY <1>1, <2>1 DEF S
  <1>7. ASSUME NEW i \in 1 .. n PROVE Has(buf, at + Len(Upto(strs, i - 1)), strs[i])
    BY <1>1, <1>2, <1>6
  <1> QED BY <1>6, <1>7

\* Values collected one by one.
LEMMA AppendNext ==
  ASSUME NEW vals, NEW n \in Nat
  PROVE  Append([k \in 1 .. n |-> vals[k]], vals[n + 1]) = [k \in 1 .. n + 1 |-> vals[k]]
  OBVIOUS

\* Read after read, f[i] what they gave up to the i-th, q[i].
LEMMA Series ==
  ASSUME NEW strs \in Seq(Seq(Nat)), NEW vals, NEW buf \in Seq(Nat), NEW at \in Nat, at <= Len(buf),
         Has(buf, at, Concat(strs)), NEW f, NEW q,
         f[0] = Read(TRUE, at, <<>>),
         \A i \in 1 .. Len(strs) : f[i] = Collect(f[i - 1], q[i]),
         \A i \in 1 .. Len(strs) : \A to \in Nat :
           /\ to <= Len(buf) /\ Has(buf, to, strs[i])
           /\ f[i - 1] = Read(TRUE, to, [k \in 1 .. i - 1 |-> vals[k]])
           => Gives(q[i], buf, to, strs[i], vals[i])
  PROVE  Gives(f[Len(strs)], buf, at, Concat(strs), [k \in 1 .. Len(strs) |-> vals[k]])
  <1> DEFINE n == Len(strs)
             vs(i) == [k \in 1 .. i |-> vals[k]]
             P(i) == Gives(f[i], buf, at, Upto(strs, i), vs(i))
             S == {i \in Nat : i <= n => P(i)}
  <1>1. n \in Nat /\ \A i \in 1 .. n : strs[i] \in Seq(Nat)
    OBVIOUS
  <1>2. 0 \in S
    <2>1. Len(Upto(strs, 0)) = 0 /\ at + 0 = at
      <3>1. Upto(strs, 0) = <<>>
        BY Pieces
      <3> QED BY <3>1
    <2>2. vs(0) = <<>>
      OBVIOUS
    <2> HIDE DEF vs
    <2>3. f[0] = Read(TRUE, at + Len(Upto(strs, 0)), vs(0)) /\ at + Len(Upto(strs, 0)) <= Len(buf)
      BY <2>1, <2>2
    <2>4. P(0)
      BY <2>3 DEF Gives
    <2> QED BY <2>4
  <1>3. ASSUME NEW m \in Nat, m \in S
        PROVE  m + 1 \in S
    <2> SUFFICES ASSUME m + 1 <= n PROVE P(m + 1)
      OBVIOUS
    <2> DEFINE i == m + 1
               s == Upto(strs, m)
    <2>1. i \in 1 .. n /\ i - 1 = m /\ m \in 0 .. n /\ i \in 0 .. n
      BY <1>1
    <2>2. P(m)
      BY <1>3, <2>1
    <2>3. s \in Seq(Nat) /\ strs[i] \in Seq(Nat) /\ Len(s) \in Nat /\ Len(strs[i]) \in Nat
      <3>1. s \in Seq(Nat) /\ strs[i] \in Seq(Nat)
        BY <1>1, <2>1, Pieces
      <3> QED BY <3>1
    <2>4. Upto(strs, i) = s \o strs[i] /\ Len(Upto(strs, i)) = Len(s) + Len(strs[i])
      BY <2>1, Pieces
    <2>5. Has(buf, at + Len(s), strs[i])
      BY <2>1, HasPieces
    <2>6. f[i] = Collect(f[m], q[i])
      BY <2>1
    <2>7. CASE at + Len(s) <= Len(buf)
      <3>1. f[m] = Read(TRUE, at + Len(s), vs(m))
        BY <2>2, <2>7 DEF Gives
      <3>2. Gives(q[i], buf, at + Len(s), strs[i], vals[i])
        <4>1. at + Len(s) \in Nat
          BY <2>3
        <4>2. f[i - 1] = Read(TRUE, at + Len(s), [k \in 1 .. i - 1 |-> vals[k]])
          BY <2>1, <3>1
        <4> HIDE DEF i, s
        <4> QED BY <2>1, <2>5, <2>7, <4>1, <4>2
      <3>3. Collect(f[m], q[i]) = Read(q[i].ok, q[i].at, Append(vs(m), q[i].val))
        BY <3>1 DEF Collect, Read
      <3>4. Append(vs(m), vals[i]) = vs(i)
        BY AppendNext
      <3> HIDE DEF vs, i, s
      <3>5. CASE at + Len(s) + Len(strs[i]) <= Len(buf)
        <4>1. q[i] = Read(TRUE, at + Len(s) + Len(strs[i]), vals[i])
          BY <3>2, <3>5 DEF Gives
        <4>2. f[i] = Read(TRUE, at + Len(s) + Len(strs[i]), vs(i))
          <5>1. q[i].ok = TRUE /\ q[i].at = at + Len(s) + Len(strs[i]) /\ q[i].val = vals[i]
            BY <4>1 DEF Read
          <5> QED BY <2>6, <3>3, <3>4, <5>1
        <4>3. at + Len(Upto(strs, i)) = at + Len(s) + Len(strs[i])
          <5>1. Len(Upto(strs, i)) = Len(s) + Len(strs[i])
            BY <2>4
          <5>2. \A a, b, c \in Nat : a = b + c => at + a = at + b + c
            OBVIOUS
          <5>3. Len(Upto(strs, i)) \in Nat
            BY <2>3, <5>1
          <5> QED BY <2>3, <5>1, <5>2, <5>3
        <4>4. Gives(f[i], buf, at, Upto(strs, i), vs(i))
          BY <3>5, <4>2, <4>3 DEF Gives
        <4> QED BY <4>4 DEF i
      <3>6. CASE ~(at + Len(s) + Len(strs[i]) <= Len(buf))
        <4>1. q[i].ok = FALSE
          BY <3>2, <3>6 DEF Gives
        <4>2. f[i].ok = FALSE
          BY <2>6, <3>3, <4>1 DEF Read
        <4>3. at + Len(Upto(strs, i)) = at + Len(s) + Len(strs[i])
          <5>1. Len(Upto(strs, i)) = Len(s) + Len(strs[i])
            BY <2>4
          <5>2. \A a, b, c \in Nat : a = b + c => at + a = at + b + c
            OBVIOUS
          <5>3. Len(Upto(strs, i)) \in Nat
            BY <2>3, <5>1
          <5> QED BY <2>3, <5>1, <5>2, <5>3
        <4>4. Gives(f[i], buf, at, Upto(strs, i), vs(i))
          BY <3>6, <4>2, <4>3 DEF Gives
        <4> QED BY <4>4 DEF i
      <3> QED BY <3>5, <3>6
    <2>8. CASE ~(at + Len(s) <= Len(buf))
      <3>1. f[m].ok = FALSE
        BY <2>2, <2>8 DEF Gives
      <3>2. f[i].ok = FALSE
        BY <2>6, <3>1 DEF Collect
      <3>3. ~(at + Len(Upto(strs, i)) <= Len(buf))
        <4>1. Len(buf) \in Nat
          OBVIOUS
        <4> HIDE DEF s, i
        <4> QED BY <2>3, <2>4, <2>8, <4>1
      <3> HIDE DEF vs
      <3> QED BY <3>2, <3>3 DEF Gives
    <2> QED BY <2>7, <2>8
  <1> HIDE DEF S
  <1>4. n \in S
    BY <1>1, <1>2, <1>3, Joined!NatSets
  <1>5. P(n)
    BY <1>1, <1>4 DEF S
  <1>6. Upto(strs, n) = Concat(strs)
    BY Pieces
  <1> QED BY <1>5, <1>6

\* ReadFields is an iteration.
LEMMA FieldsFold ==
  ASSUME NEW kinds, NEW buf, NEW at
  PROVE  ReadFields(kinds, buf, at) = Primitives!Iterate(buf, 0, Read(TRUE, at, <<>>), kinds)
  BY DEF ReadFields, Primitives!Iterate, NextField, FoldLeft, MapThenFoldSet,
         Primitives!FoldLeft, Primitives!MapThenFoldSet, Max, Primitives!Max

\* f[i] is what the reading of the first i kinds gave.
FieldsRun(f, kinds, n, buf, at) ==
  /\ f[0] = Read(TRUE, at, <<>>)
  /\ \A i \in 1 .. n : f[i] = Collect(f[i - 1], ReadPrimitive(kinds[i], buf, f[i - 1].at))
  /\ ReadFields(kinds, buf, at) = f[n]

\* ReadFields goes through its fields in order.
LEMMA FieldsTurns ==
  ASSUME NEW kinds, NEW n \in Nat, DOMAIN kinds = 1 .. n, NEW buf, NEW at
  PROVE  \E f : FieldsRun(f, kinds, n, buf, at)
  <1> DEFINE zero == 0
             none == Read(TRUE, at, <<>>)
             f == Primitives!Stage(buf, zero, none, kinds, n)
  <1> HIDE DEF zero, none
  <1>1. /\ f[0] = none
        /\ \A i \in 1 .. n : f[i] = NextField(buf, zero, f[i - 1], kinds[i])
        /\ Primitives!Iterate(buf, zero, none, kinds) = f[n]
    BY Primitives!Stepwise
  <1> HIDE DEF f
  <1>2. ReadFields(kinds, buf, at) = Primitives!Iterate(buf, zero, none, kinds)
    BY FieldsFold, Zenon DEF none, zero
  <1>3. f[0] = Read(TRUE, at, <<>>)
    BY <1>1 DEF none
  <1>4. FieldsRun(f, kinds, n, buf, at)
    BY <1>1, <1>2, <1>3 DEF FieldsRun, NextField
  <1> QED BY <1>4

\* s stands for x, read as a primitive.
Codes(kind, s, x) ==
  \A buf \in Seq(Nat) : \A at \in Nat :
    at <= Len(buf) /\ Has(buf, at, s) => Gives(ReadPrimitive(kind, buf, at), buf, at, s, x)

\* ReadFields yields the fields that were written, if all of them are there.
LEMMA FieldsGive ==
  ASSUME NEW strs \in Seq(Seq(Nat)), NEW n \in Nat, Len(strs) = n, NEW kinds, DOMAIN kinds = 1 .. n,
         NEW vals, \A i \in 1 .. n : Codes(kinds[i], strs[i], vals[i]),
         NEW buf \in Seq(Nat), NEW at \in Nat, at <= Len(buf), Has(buf, at, Concat(strs))
  PROVE  Gives(ReadFields(kinds, buf, at), buf, at, Concat(strs), [k \in 1 .. n |-> vals[k]])
  <1>1. PICK f : FieldsRun(f, kinds, n, buf, at)
    BY FieldsTurns
  <1>2. /\ f[0] = Read(TRUE, at, <<>>)
        /\ \A i \in 1 .. n : f[i] = Collect(f[i - 1], ReadPrimitive(kinds[i], buf, f[i - 1].at))
        /\ ReadFields(kinds, buf, at) = f[n]
    BY <1>1 DEF FieldsRun
  <1> DEFINE q == [i \in 1 .. n |-> ReadPrimitive(kinds[i], buf, f[i - 1].at)]
  <1>3. \A i \in 1 .. n : q[i] = ReadPrimitive(kinds[i], buf, f[i - 1].at)
    OBVIOUS
  <1>4. \A i \in 1 .. n : f[i] = Collect(f[i - 1], q[i])
    BY <1>2, <1>3 DEF NextField
  <1>5. ASSUME NEW i \in 1 .. n, NEW to \in Nat, to <= Len(buf), Has(buf, to, strs[i]),
               f[i - 1] = Read(TRUE, to, [k \in 1 .. i - 1 |-> vals[k]])
        PROVE  Gives(q[i], buf, to, strs[i], vals[i])
    <2>1. f[i - 1].at = to
      BY <1>5 DEF Read
    <2> QED BY <1>3, <1>5, <2>1 DEF Codes
  <1> HIDE DEF q
  <1>6. Gives(f[n], buf, at, Concat(strs), [k \in 1 .. n |-> vals[k]])
    BY <1>2, <1>4, <1>5, Series
  <1> QED BY <1>2, <1>6

-----------------------------------------------------------------------------
(* What a successful read says of where it was.                            *)

-----------------------------------------------------------------------------
(* Reading bytes that nobody wrote so.                                     *)

\* The fields a structure of the TPM is made of, and what each takes at least.
KindsOfPrimitives == {"u8", "u16", "u32", "tpm2b"}
AtLeast == [u8 |-> 1, u16 |-> 2, u32 |-> 4, tpm2b |-> 2]

\* A take that succeeds moves by what it takes.
LEMMA TakeMoves ==
  ASSUME NEW buf \in Seq(Nat), NEW at \in Nat, NEW n \in Nat, take(buf, at, n).ok
  PROVE  /\ at + n <= Len(buf)
         /\ take(buf, at, n).at = at + n
         /\ take(buf, at, n).val \in Seq(Nat) /\ Len(take(buf, at, n).val) = n
         /\ \A i \in 1 .. n : take(buf, at, n).val[i] = buf[at + i]
  <1> DEFINE u == SubSeq(buf, at + 1, at + n)
  <1>1. ~(Len(buf) - at < n)
    BY DEF take, Read
  <1>2. at + n <= Len(buf) /\ Len(buf) \in Nat
    BY <1>1
  <1>3. take(buf, at, n).at = at + n /\ take(buf, at, n).val = u
    BY <1>1 DEF take, Read
  <1>4. \A i \in at + 1 .. at + n : buf[i] \in Nat
    BY <1>2
  <1>5. /\ u \in Seq(Nat)
        /\ Len(u) = IF at + 1 <= at + n THEN at + n - (at + 1) + 1 ELSE 0
        /\ \A i \in 1 .. at + n - (at + 1) + 1 : u[i] = buf[at + 1 + i - 1]
    BY <1>4, SubSeqProperties
  <1> HIDE DEF u
  <1>6. Len(u) = n /\ at + n - (at + 1) + 1 = n
    BY <1>5
  <1>7. \A i \in 1 .. n : u[i] = buf[at + i]
    <2> SUFFICES ASSUME NEW i \in 1 .. n PROVE u[i] = buf[at + i]
      OBVIOUS
    <2>1. at + 1 + i - 1 = at + i
      OBVIOUS
    <2> QED BY <1>5, <1>6, <2>1
  <1> QED BY <1>2, <1>3, <1>5, <1>6, <1>7

\* So does the read of an integer.
LEMMA UintMoves ==
  ASSUME NEW buf \in Seq(Nat), NEW at \in Nat, NEW width \in {1, 2, 4}, ReadUint(buf, at, width).ok
  PROVE  ReadUint(buf, at, width).at = at + width /\ at + width <= Len(buf)
  <1> DEFINE r == take(buf, at, width)
  <1>1. ReadUint(buf, at, width) = IF r.ok THEN Read(TRUE, r.at, << from_be_bytes(r.val) >>) ELSE r
    BY DEF ReadUint, AndThen
  <1>2. r.ok
    <2> HIDE DEF r
    <2> QED BY <1>1
  <1>3. r.at = at + width /\ at + width <= Len(buf)
    BY <1>2, TakeMoves
  <1> HIDE DEF r
  <1> QED BY <1>1, <1>2, <1>3 DEF Read

\* The read of a TPM2B moves by its length field and the length in it.
LEMMA SizedMoves ==
  ASSUME NEW buf \in Seq(Nat), NEW at \in Nat, tpm2b(buf, at).ok
  PROVE  /\ ReadUint(buf, at, 2).ok /\ ReadUint(buf, at, 2).val[1] \in Nat
         /\ tpm2b(buf, at).at = at + 2 + ReadUint(buf, at, 2).val[1]
         /\ tpm2b(buf, at).at <= Len(buf)
  <1> DEFINE head == take(buf, at, 2)
             r == ReadUint(buf, at, 2)
             n == r.val[1]
             q == take(buf, r.at, n)
  <1>1. tpm2b(buf, at) = IF r.ok THEN q ELSE r
    BY DEF tpm2b, AndThen
  <1>2. r.ok /\ tpm2b(buf, at) = q
    <2> HIDE DEF q, r
    <2> QED BY <1>1
  <1>3. r.at = at + 2
    BY <1>2, UintMoves
  <1>4. r = IF head.ok THEN Read(TRUE, head.at, << from_be_bytes(head.val) >>) ELSE head
    BY DEF ReadUint, AndThen
  <1>5. head.ok
    <2> HIDE DEF head, r
    <2> QED BY <1>2, <1>4
  <1>6. n = from_be_bytes(head.val)
    <2> HIDE DEF head, r
    <2> QED BY <1>4, <1>5 DEF Read
  <1>7. n \in Nat
    <2>1. head.val \in Seq(Nat) /\ Len(head.val) = 2
      <3> DEFINE w == 2
      <3>1. w \in Nat /\ take(buf, at, w).ok
        BY <1>5
      <3> HIDE DEF w
      <3>2. take(buf, at, w).val \in Seq(Nat) /\ Len(take(buf, at, w).val) = w
        BY <3>1, TakeMoves
      <3> QED BY <3>2 DEF w
    <2> DEFINE v == head.val
    <2>2. DOMAIN v = 1 .. 2 /\ v[1] \in Nat /\ v[2] \in Nat
      <3> HIDE DEF v
      <3> QED BY <2>1 DEF v
    <2> HIDE DEF v
    <2>3. from_be_bytes(v) = v[1] * B + v[2]
      BY <2>2, TwoBytes
    <2>4. v[1] * B + v[2] \in Nat
      BY <2>2, Base
    <2> QED BY <1>6, <2>3, <2>4 DEF v
  <1> HIDE DEF n
  <1>8. q.at = at + 2 + n /\ at + 2 + n <= Len(buf)
    <2>1. q.ok
      BY <1>2
    <2>2. q = take(buf, at + 2, n)
      BY <1>3
    <2> HIDE DEF q
    <2> QED BY <1>7, <2>1, <2>2, TakeMoves
  <1> QED BY <1>2, <1>7, <1>8 DEF n

\* The read of a field moves by what the field takes at least.
LEMMA PrimitiveMoves ==
  ASSUME NEW buf \in Seq(Nat), NEW at \in Nat, NEW kind \in KindsOfPrimitives, ReadPrimitive(kind, buf, at).ok
  PROVE  /\ ReadPrimitive(kind, buf, at).at \in Nat
         /\ ReadPrimitive(kind, buf, at).at <= Len(buf)
         /\ ReadPrimitive(kind, buf, at).at >= at + AtLeast[kind]
         /\ kind # "tpm2b" => ReadPrimitive(kind, buf, at).at = at + AtLeast[kind]
  <1>1. CASE kind = "tpm2b"
    <2>1. ReadPrimitive(kind, buf, at) = tpm2b(buf, at) /\ AtLeast[kind] = 2
      BY <1>1 DEF ReadPrimitive, AtLeast
    <2>2. /\ ReadUint(buf, at, 2).val[1] \in Nat
          /\ tpm2b(buf, at).at = at + 2 + ReadUint(buf, at, 2).val[1]
          /\ tpm2b(buf, at).at <= Len(buf)
      BY <2>1, SizedMoves
    <2> QED BY <1>1, <2>1, <2>2
  <1>2. CASE kind # "tpm2b"
    <2> DEFINE w == Width[kind]
    <2>1. w \in {1, 2, 4} /\ AtLeast[kind] = w
      BY <1>2 DEF KindsOfPrimitives, AtLeast, Width
    <2> HIDE DEF w
    <2>2. ReadPrimitive(kind, buf, at) = ReadUint(buf, at, w)
      BY <1>2 DEF ReadPrimitive, w
    <2>3. ReadUint(buf, at, w).at = at + w /\ at + w <= Len(buf)
      BY <2>1, <2>2, UintMoves
    <2> QED BY <2>1, <2>2, <2>3
  <1> QED BY <1>1, <1>2

\* p[i] is where the reading of the first i kinds ended, x[i] what the i-th gave.
Succession(p, x, kinds, n, buf, at) ==
  /\ p[0] = at
  /\ \A i \in 1 .. n : /\ p[i - 1] \in Nat /\ p[i - 1] <= Len(buf)
                       /\ p[i] \in Nat /\ p[i] <= Len(buf)
                       /\ p[i] >= p[i - 1] + AtLeast[kinds[i]]
                       /\ kinds[i] # "tpm2b" => p[i] = p[i - 1] + AtLeast[kinds[i]]
                       /\ ReadPrimitive(kinds[i], buf, p[i - 1]).ok
                       /\ ReadPrimitive(kinds[i], buf, p[i - 1]).at = p[i]
                       /\ ReadPrimitive(kinds[i], buf, p[i - 1]).val = x[i]

\* A ReadFields that succeeds, whatever the bytes, goes through such a succession.
LEMMA FieldsSucceed ==
  ASSUME NEW kinds, NEW n \in Nat, DOMAIN kinds = 1 .. n, \A i \in 1 .. n : kinds[i] \in KindsOfPrimitives,
         NEW buf \in Seq(Nat), NEW at \in Nat, at <= Len(buf), ReadFields(kinds, buf, at).ok
  PROVE  \E p, x : /\ Succession(p, x, kinds, n, buf, at)
                   /\ ReadFields(kinds, buf, at) = [ok |-> TRUE, at |-> p[n], val |-> [k \in 1 .. n |-> x[k]]]
  <1>1. PICK f : FieldsRun(f, kinds, n, buf, at)
    BY FieldsTurns
  <1> DEFINE p == [i \in 0 .. n |-> f[i].at]
             q == [i \in 1 .. n |-> ReadPrimitive(kinds[i], buf, f[i - 1].at)]
             x == [i \in 1 .. n |-> q[i].val]
             vs(i) == [k \in 1 .. i |-> x[k]]
             S == {j \in Nat : j <= n => f[n - j].ok}
             P(i) == f[i] = [ok |-> TRUE, at |-> p[i], val |-> vs(i)] /\ p[i] \in Nat /\ p[i] <= Len(buf)
             T == {i \in Nat : i <= n => P(i)}
  <1>2. f[0] = Read(TRUE, at, <<>>) /\ ReadFields(kinds, buf, at) = f[n]
    BY <1>1 DEF FieldsRun
  <1>3. ASSUME NEW i \in 1 .. n
        PROVE  f[i] = Collect(f[i - 1], q[i]) /\ q[i] = ReadPrimitive(kinds[i], buf, f[i - 1].at)
    BY <1>1 DEF FieldsRun
  <1>4. \A i \in 0 .. n : p[i] = f[i].at
    OBVIOUS
  <1>5. \A i \in 1 .. n : x[i] = q[i].val
    OBVIOUS
  <1> HIDE DEF p, q, x
  <1>6. ASSUME NEW i \in 1 .. n, f[i].ok
        PROVE  f[i - 1].ok /\ q[i].ok
    <2>1. f[i - 1].ok
      BY <1>3, <1>6 DEF Collect
    <2>2. f[i] = Read(q[i].ok, q[i].at, Append(f[i - 1].val, q[i].val))
      BY <1>3, <2>1 DEF Collect
    <2> QED BY <1>6, <2>1, <2>2 DEF Read
  <1>7. 0 \in S
    <2>1. n - 0 = n
      OBVIOUS
    <2> QED BY <1>2, <2>1
  <1>8. ASSUME NEW j \in Nat, j \in S PROVE j + 1 \in S
    <2> SUFFICES ASSUME j + 1 <= n PROVE f[n - (j + 1)].ok
      OBVIOUS
    <2>1. n - j \in 1 .. n /\ n - (j + 1) = (n - j) - 1 /\ f[n - j].ok
      BY <1>8
    <2> QED BY <1>6, <2>1
  <1> HIDE DEF S
  <1>9. \A i \in 0 .. n : f[i].ok
    <2>1. Nat \subseteq S
      BY <1>7, <1>8, Joined!NatSets
    <2> SUFFICES ASSUME NEW i \in 0 .. n PROVE f[i].ok
      OBVIOUS
    <2>2. n - i \in S /\ n - i \in Nat /\ n - i <= n /\ n - (n - i) = i
      BY <2>1
    <2> QED BY <2>2 DEF S
  <1>10. ASSUME NEW m \in Nat, m + 1 <= n, P(m)
         PROVE  /\ P(m + 1)
                /\ q[m + 1] = ReadPrimitive(kinds[m + 1], buf, p[m]) /\ q[m + 1].ok /\ q[m + 1].at = p[m + 1]
                /\ p[m + 1] >= p[m] + AtLeast[kinds[m + 1]]
                /\ kinds[m + 1] # "tpm2b" => p[m + 1] = p[m] + AtLeast[kinds[m + 1]]
    <2> DEFINE i == m + 1
    <2>1. i \in 1 .. n /\ i - 1 = m /\ m \in 0 .. n /\ i \in 0 .. n
      BY <1>10
    <2> HIDE DEF i
    <2>2. /\ f[i] = Collect(f[m], q[i]) /\ q[i] = ReadPrimitive(kinds[i], buf, p[m])
          /\ f[m].ok /\ f[i].ok /\ q[i].ok
      BY <1>3, <1>4, <1>6, <1>9, <2>1
    <2>3. f[i] = Read(q[i].ok, q[i].at, Append(f[m].val, q[i].val))
      BY <2>2 DEF Collect
    <2>4. p[i] = q[i].at
      BY <1>4, <2>1, <2>3 DEF Read
    <2>5. /\ p[i] \in Nat /\ p[i] <= Len(buf) /\ p[i] >= p[m] + AtLeast[kinds[i]]
          /\ kinds[i] # "tpm2b" => p[i] = p[m] + AtLeast[kinds[i]]
      BY <1>10, <2>1, <2>2, <2>4, PrimitiveMoves
    <2>6. Append(f[m].val, q[i].val) = vs(i)
      <3>1. f[m].val = vs(m) /\ q[i].val = x[i]
        BY <1>5, <1>10, <2>1
      <3>2. Append([k \in 1 .. m |-> x[k]], x[m + 1]) = [k \in 1 .. m + 1 |-> x[k]]
        BY AppendNext
      <3> QED BY <3>1, <3>2 DEF i
    <2> HIDE DEF vs
    <2>7. f[i] = [ok |-> TRUE, at |-> p[i], val |-> vs(i)]
      <3>1. q[i].ok = TRUE
        <4>1. f[i].ok = q[i].ok
          BY <2>3 DEF Read
        <4>2. ReadPrimitive(kinds[i], buf, p[m]).ok \in BOOLEAN
          BY DEF ReadPrimitive, tpm2b, ReadUint, take, Read, AndThen
        <4> QED BY <2>2, <4>2
      <3> QED BY <2>3, <2>4, <2>6, <3>1 DEF Read
    <2> QED BY <2>2, <2>4, <2>5, <2>7 DEF i
  <1>11. P(0)
    <2>1. vs(0) = <<>>
      OBVIOUS
    <2>2. p[0] = at
      BY <1>2, <1>4 DEF Read
    <2> HIDE DEF vs
    <2> QED BY <1>2, <2>1, <2>2 DEF Read
  <1> HIDE DEF P
  <1>12. \A i \in 0 .. n : P(i)
    <2>1. 0 \in T
      BY <1>11
    <2>2. ASSUME NEW m \in Nat, m \in T PROVE m + 1 \in T
      BY <1>10, <2>2
    <2> HIDE DEF T
    <2>3. Nat \subseteq T
      BY <2>1, <2>2, Joined!NatSets
    <2> QED BY <2>3 DEF T
  <1>13. Succession(p, x, kinds, n, buf, at)
    <2>1. p[0] = at
      BY <1>2, <1>4 DEF Read
    <2>2. ASSUME NEW i \in 1 .. n
          PROVE  /\ p[i - 1] \in Nat /\ p[i - 1] <= Len(buf)
                 /\ p[i] \in Nat /\ p[i] <= Len(buf)
                 /\ p[i] >= p[i - 1] + AtLeast[kinds[i]]
                 /\ kinds[i] # "tpm2b" => p[i] = p[i - 1] + AtLeast[kinds[i]]
                 /\ ReadPrimitive(kinds[i], buf, p[i - 1]).ok
                 /\ ReadPrimitive(kinds[i], buf, p[i - 1]).at = p[i]
                 /\ ReadPrimitive(kinds[i], buf, p[i - 1]).val = x[i]
      <3>1. i - 1 \in 0 .. n /\ i \in 0 .. n /\ i - 1 \in Nat /\ (i - 1) + 1 = i /\ (i - 1) + 1 <= n
        OBVIOUS
      <3>2. P(i - 1) /\ P(i)
        BY <1>12, <3>1
      <3>3. /\ q[i] = ReadPrimitive(kinds[i], buf, p[i - 1]) /\ q[i].ok /\ q[i].at = p[i]
            /\ p[i] >= p[i - 1] + AtLeast[kinds[i]]
            /\ kinds[i] # "tpm2b" => p[i] = p[i - 1] + AtLeast[kinds[i]]
        <4> DEFINE m == i - 1
        <4>1. m \in Nat /\ m + 1 <= n /\ m + 1 = i /\ P(m)
          BY <3>1, <3>2
        <4> HIDE DEF m
        <4>2. /\ q[m + 1] = ReadPrimitive(kinds[m + 1], buf, p[m]) /\ q[m + 1].ok /\ q[m + 1].at = p[m + 1]
              /\ p[m + 1] >= p[m] + AtLeast[kinds[m + 1]]
              /\ kinds[m + 1] # "tpm2b" => p[m + 1] = p[m] + AtLeast[kinds[m + 1]]
          BY <1>10, <4>1
        <4>3. /\ q[i] = ReadPrimitive(kinds[i], buf, p[m]) /\ q[i].ok /\ q[i].at = p[i]
              /\ p[i] >= p[m] + AtLeast[kinds[i]]
              /\ kinds[i] # "tpm2b" => p[i] = p[m] + AtLeast[kinds[i]]
          BY <4>1, <4>2
        <4> QED BY <4>3 DEF m
      <3> QED BY <1>5, <3>2, <3>3 DEF P
    <2> QED BY <2>1, <2>2 DEF Succession
  <1>14. ReadFields(kinds, buf, at) = [ok |-> TRUE, at |-> p[n], val |-> [k \in 1 .. n |-> x[k]]]
    <2>1. n \in 0 .. n
      OBVIOUS
    <2> QED BY <1>2, <1>12, <2>1 DEF P
  <1> QED BY <1>13, <1>14

-----------------------------------------------------------------------------
(* Strings in a row, and counted lists.                                    *)

-----------------------------------------------------------------------------
(* Concatenations.                                                         *)

\* Three strings one behind the other.
LEMMA Associative ==
  ASSUME NEW a \in Seq(Nat), NEW b \in Seq(Nat), NEW c \in Seq(Nat)
  PROVE  (a \o b) \o c = a \o (b \o c)
  BY ConcatAssociative

\* Strings of strings one behind the other.
LEMMA ConcatCat ==
  ASSUME NEW s \in Seq(Seq(Nat)), NEW t \in Seq(Seq(Nat))
  PROVE  /\ s \o t \in Seq(Seq(Nat))
         /\ Concat(s) \in Seq(Nat) /\ Concat(t) \in Seq(Nat)
         /\ Concat(s \o t) = Concat(s) \o Concat(t)
  <1> DEFINE st == s \o t
             m == Len(s)
             n == Len(t)
             S == {j \in Nat : j <= n => Upto(st, m + j) = Concat(s) \o Upto(t, j)}
  <1>1. m \in Nat /\ n \in Nat
    OBVIOUS
  <1>2. /\ st \in Seq(Seq(Nat)) /\ Len(st) = m + n
        /\ \A i \in 1 .. m + n : st[i] = IF i <= m THEN s[i] ELSE t[i - m]
    BY ConcatProperties
  <1> HIDE DEF st
  <1>3. Upto(st, m) = Concat(s)
    <2>1. s = [k \in 1 .. m |-> s[k]]
      OBVIOUS
    <2>2. \A k \in 1 .. m : st[k] = s[k]
      BY <1>1, <1>2
    <2>3. s = [k \in 1 .. m |-> st[k]]
      BY <2>1, <2>2
    <2> QED BY <2>3 DEF Upto
  <1>4. Concat(s) \in Seq(Nat) /\ Concat(t) \in Seq(Nat)
    <2>1. m \in 0 .. m /\ n \in 0 .. n
      BY <1>1
    <2>2. Upto(s, m) \in Seq(Nat) /\ Upto(s, m) = Concat(s)
      BY <2>1, Pieces
    <2>3. Upto(t, n) \in Seq(Nat) /\ Upto(t, n) = Concat(t)
      BY <2>1, Pieces
    <2> QED BY <2>2, <2>3
  <1>5. 0 \in S
    <2>1. Upto(t, 0) = <<>> /\ m + 0 = m
      <3>1. Upto(t, 0) = <<>>
        BY Pieces
      <3> QED BY <1>1, <3>1
    <2>2. Concat(s) \o <<>> = Concat(s)
      BY <1>4, ConcatEmptySeq
    <2> HIDE DEF m
    <2> QED BY <1>3, <2>1, <2>2
  <1>6. ASSUME NEW j \in Nat, j \in S PROVE j + 1 \in S
    <2> SUFFICES ASSUME j + 1 <= n PROVE Upto(st, m + (j + 1)) = Concat(s) \o Upto(t, j + 1)
      OBVIOUS
    <2> DEFINE i == m + (j + 1)
               u == Upto(t, j)
    <2>1. i \in 1 .. Len(st) /\ i - 1 = m + j /\ st[i] = t[j + 1]
      <3>1. i \in 1 .. m + n /\ ~(i <= m) /\ i - m = j + 1 /\ i - 1 = m + j
        BY <1>1
      <3> HIDE DEF i
      <3> QED BY <1>2, <3>1
    <2>2. j + 1 \in 1 .. n /\ (j + 1) - 1 = j /\ j \in 0 .. n
      BY <1>1
    <2>3. Upto(st, i) = Upto(st, i - 1) \o st[i]
      BY <1>2, <2>1, Pieces
    <2>4. Upto(t, j + 1) = u \o t[j + 1]
      BY <2>2, Pieces
    <2>5. u \in Seq(Nat) /\ t[j + 1] \in Seq(Nat)
      <3>1. u \in Seq(Nat)
        BY <2>2, Pieces
      <3>2. t[j + 1] \in Seq(Nat)
        BY <2>2
      <3> QED BY <3>1, <3>2
    <2>6. Upto(st, m + j) = Concat(s) \o u
      BY <1>6, <2>2
    <2> HIDE DEF u, i
    <2>7. (Concat(s) \o u) \o t[j + 1] = Concat(s) \o (u \o t[j + 1])
      <3> DEFINE a == Concat(s)
                 c == t[j + 1]
      <3>1. a \in Seq(Nat) /\ c \in Seq(Nat)
        BY <1>4, <2>5
      <3> HIDE DEF a, c
      <3>2. (a \o u) \o c = a \o (u \o c)
        BY <2>5, <3>1, Associative
      <3> QED BY <3>2 DEF a, c
    <2>8. Upto(st, i) = Concat(s) \o Upto(t, j + 1)
      BY <2>1, <2>3, <2>4, <2>6, <2>7
    <2> QED BY <2>8 DEF i
  <1> HIDE DEF S
  <1>7. n \in S
    BY <1>1, <1>5, <1>6, Joined!NatSets
  <1>8. Upto(st, m + n) = Concat(s) \o Upto(t, n)
    BY <1>1, <1>7 DEF S
  <1>9. Upto(st, m + n) = Concat(st) /\ Upto(t, n) = Concat(t)
    <2>1. Upto(st, Len(st)) = Concat(st)
      BY <1>2, Pieces
    <2>2. Upto(t, n) = Concat(t)
      BY Pieces
    <2> QED BY <1>2, <2>1, <2>2
  <1> QED BY <1>2, <1>4, <1>8, <1>9 DEF st

\* A few strings, one after another.
LEMMA ConcatOne ==
  ASSUME NEW s, DOMAIN s = 1 .. 1, s[1] \in Seq(Nat)
  PROVE  Concat(s) = s[1]
  <1> DEFINE t == << >>
             n == 0
  <1>1. n \in Nat /\ n + 1 = 1 /\ DOMAIN s = 1 .. n + 1 /\ DOMAIN t = 1 .. n /\ \A i \in 1 .. n : t[i] = s[i]
    OBVIOUS
  <1>2. Concat(t) = <<>>
    BY ConcatNone
  <1> HIDE DEF t, n
  <1>3. Concat(s) = Concat(t) \o s[n + 1]
    BY <1>1, ConcatMore
  <1> QED BY <1>1, <1>2, <1>3, ConcatEmptySeq

\* Two strings.
LEMMA ConcatTwo ==
  ASSUME NEW s, DOMAIN s = 1 .. 2, s[1] \in Seq(Nat)
  PROVE  Concat(s) = s[1] \o s[2]
  <1> DEFINE t == [i \in 1 .. 1 |-> s[i]]
             n == 1
  <1>1. n \in Nat /\ n + 1 = 2 /\ DOMAIN s = 1 .. n + 1 /\ DOMAIN t = 1 .. n /\ \A i \in 1 .. n : t[i] = s[i]
    OBVIOUS
  <1>2. DOMAIN t = 1 .. 1 /\ t[1] = s[1]
    BY <1>1
  <1> HIDE DEF t, n
  <1>3. Concat(t) = t[1]
    BY <1>2, ConcatOne
  <1>4. Concat(s) = Concat(t) \o s[n + 1]
    BY <1>1, ConcatMore
  <1> QED BY <1>1, <1>2, <1>3, <1>4

\* Three strings.
LEMMA ConcatThree ==
  ASSUME NEW s, DOMAIN s = 1 .. 3, s[1] \in Seq(Nat)
  PROVE  Concat(s) = s[1] \o s[2] \o s[3]
  <1> DEFINE t == [i \in 1 .. 2 |-> s[i]]
             n == 2
  <1>1. n \in Nat /\ n + 1 = 3 /\ DOMAIN s = 1 .. n + 1 /\ DOMAIN t = 1 .. n /\ \A i \in 1 .. n : t[i] = s[i]
    OBVIOUS
  <1>2. DOMAIN t = 1 .. 2 /\ t[1] = s[1] /\ t[2] = s[2]
    BY <1>1
  <1> HIDE DEF t, n
  <1>3. Concat(t) = t[1] \o t[2]
    BY <1>2, ConcatTwo
  <1>4. Concat(s) = Concat(t) \o s[n + 1]
    BY <1>1, ConcatMore
  <1> QED BY <1>1, <1>2, <1>3, <1>4

\* Four strings.
LEMMA ConcatFour ==
  ASSUME NEW s, DOMAIN s = 1 .. 4, s[1] \in Seq(Nat)
  PROVE  Concat(s) = s[1] \o s[2] \o s[3] \o s[4]
  <1> DEFINE t == [i \in 1 .. 3 |-> s[i]]
             n == 3
  <1>1. n \in Nat /\ n + 1 = 4 /\ DOMAIN s = 1 .. n + 1 /\ DOMAIN t = 1 .. n /\ \A i \in 1 .. n : t[i] = s[i]
    OBVIOUS
  <1>2. DOMAIN t = 1 .. 3 /\ t[1] = s[1] /\ t[2] = s[2] /\ t[3] = s[3]
    BY <1>1
  <1> HIDE DEF t, n
  <1>3. Concat(t) = t[1] \o t[2] \o t[3]
    BY <1>2, ConcatThree
  <1>4. Concat(s) = Concat(t) \o s[n + 1]
    BY <1>1, ConcatMore
  <1> QED BY <1>1, <1>2, <1>3, <1>4

\* Five strings.
LEMMA ConcatFive ==
  ASSUME NEW s, DOMAIN s = 1 .. 5, s[1] \in Seq(Nat)
  PROVE  Concat(s) = s[1] \o s[2] \o s[3] \o s[4] \o s[5]
  <1> DEFINE t == [i \in 1 .. 4 |-> s[i]]
             n == 4
  <1>1. n \in Nat /\ n + 1 = 5 /\ DOMAIN s = 1 .. n + 1 /\ DOMAIN t = 1 .. n /\ \A i \in 1 .. n : t[i] = s[i]
    OBVIOUS
  <1>2. DOMAIN t = 1 .. 4 /\ t[1] = s[1] /\ t[2] = s[2] /\ t[3] = s[3] /\ t[4] = s[4]
    BY <1>1
  <1> HIDE DEF t, n
  <1>3. Concat(t) = t[1] \o t[2] \o t[3] \o t[4]
    BY <1>2, ConcatFour
  <1>4. Concat(s) = Concat(t) \o s[n + 1]
    BY <1>1, ConcatMore
  <1> QED BY <1>1, <1>2, <1>3, <1>4

\* Six strings.
LEMMA ConcatSix ==
  ASSUME NEW s, DOMAIN s = 1 .. 6, s[1] \in Seq(Nat)
  PROVE  Concat(s) = s[1] \o s[2] \o s[3] \o s[4] \o s[5] \o s[6]
  <1> DEFINE t == [i \in 1 .. 5 |-> s[i]]
             n == 5
  <1>1. n \in Nat /\ n + 1 = 6 /\ DOMAIN s = 1 .. n + 1 /\ DOMAIN t = 1 .. n /\ \A i \in 1 .. n : t[i] = s[i]
    OBVIOUS
  <1>2. DOMAIN t = 1 .. 5 /\ t[1] = s[1] /\ t[2] = s[2] /\ t[3] = s[3] /\ t[4] = s[4] /\ t[5] = s[5]
    BY <1>1
  <1> HIDE DEF t, n
  <1>3. Concat(t) = t[1] \o t[2] \o t[3] \o t[4] \o t[5]
    BY <1>2, ConcatFive
  <1>4. Concat(s) = Concat(t) \o s[n + 1]
    BY <1>1, ConcatMore
  <1> QED BY <1>1, <1>2, <1>3, <1>4

\* Seven strings.
LEMMA ConcatSeven ==
  ASSUME NEW s, DOMAIN s = 1 .. 7, s[1] \in Seq(Nat)
  PROVE  Concat(s) = s[1] \o s[2] \o s[3] \o s[4] \o s[5] \o s[6] \o s[7]
  <1> DEFINE t == [i \in 1 .. 6 |-> s[i]]
             n == 6
  <1>1. n \in Nat /\ n + 1 = 7 /\ DOMAIN s = 1 .. n + 1 /\ DOMAIN t = 1 .. n /\ \A i \in 1 .. n : t[i] = s[i]
    OBVIOUS
  <1>2. DOMAIN t = 1 .. 6 /\ t[1] = s[1] /\ t[2] = s[2] /\ t[3] = s[3] /\ t[4] = s[4] /\ t[5] = s[5] /\ t[6] = s[6]
    BY <1>1
  <1> HIDE DEF t, n
  <1>3. Concat(t) = t[1] \o t[2] \o t[3] \o t[4] \o t[5] \o t[6]
    BY <1>2, ConcatSix
  <1>4. Concat(s) = Concat(t) \o s[n + 1]
    BY <1>1, ConcatMore
  <1> QED BY <1>1, <1>2, <1>3, <1>4

-----------------------------------------------------------------------------
(* Lists.                                                                  *)

\* ReadElements is an iteration.
LEMMA ElementsFold ==
  ASSUME NEW kind, NEW buf, NEW at, NEW n
  PROVE  ReadElements(kind, buf, at, n) = Elements!Iterate(kind, buf, Read(TRUE, at, <<>>), [i \in 1 .. n |-> i])
  BY DEF ReadElements, Elements!Iterate, NextElement, FoldLeft, MapThenFoldSet,
         Elements!FoldLeft, Elements!MapThenFoldSet, Max, Elements!Max

\* f[i] is what the reading of the first i elements gave.
ElementsRun(f, kind, n, buf, at) ==
  /\ f[0] = Read(TRUE, at, <<>>)
  /\ \A i \in 1 .. n : f[i] = Collect(f[i - 1], ReadElement(kind, buf, f[i - 1].at))
  /\ ReadElements(kind, buf, at, n) = f[n]

\* It goes through the elements in order.
LEMMA ElementsTurns ==
  ASSUME NEW kind, NEW n \in Nat, NEW buf, NEW at
  PROVE  \E f : ElementsRun(f, kind, n, buf, at)
  <1> DEFINE none == Read(TRUE, at, <<>>)
             count == [i \in 1 .. n |-> i]
             f == Elements!Stage(kind, buf, none, count, n)
  <1>0. DOMAIN count = 1 .. n /\ \A i \in 1 .. n : count[i] = i
    OBVIOUS
  <1> HIDE DEF none, count
  <1>1. /\ f[0] = none
        /\ \A i \in 1 .. n : f[i] = NextElement(kind, buf, f[i - 1], count[i])
        /\ Elements!Iterate(kind, buf, none, count) = f[n]
    BY <1>0, Elements!Stepwise
  <1> HIDE DEF f
  <1>2. ReadElements(kind, buf, at, n) = Elements!Iterate(kind, buf, none, count)
    BY ElementsFold, Zenon DEF none, count
  <1>3. f[0] = Read(TRUE, at, <<>>)
    BY <1>1 DEF none
  <1>4. ElementsRun(f, kind, n, buf, at)
    BY <1>1, <1>2, <1>3 DEF ElementsRun, NextElement
  <1> QED BY <1>4

\* s stands for x, read as an element of such a list.
ElementCodes(kind, s, x) ==
  \A buf \in Seq(Nat) : \A at \in Nat :
    at <= Len(buf) /\ Has(buf, at, s) => Gives(ReadElement(kind, buf, at), buf, at, s, x)

\* ReadElements yields the elements that were written, if all of them are there.
LEMMA ElementsGive ==
  ASSUME NEW strs \in Seq(Seq(Nat)), NEW n \in Nat, Len(strs) = n, NEW kind,
         NEW vals, \A i \in 1 .. n : ElementCodes(kind, strs[i], vals[i]),
         NEW buf \in Seq(Nat), NEW at \in Nat, at <= Len(buf), Has(buf, at, Concat(strs))
  PROVE  Gives(ReadElements(kind, buf, at, n), buf, at, Concat(strs), [k \in 1 .. n |-> vals[k]])
  <1>1. PICK f : ElementsRun(f, kind, n, buf, at)
    BY ElementsTurns
  <1>2. /\ f[0] = Read(TRUE, at, <<>>)
        /\ \A i \in 1 .. n : f[i] = Collect(f[i - 1], ReadElement(kind, buf, f[i - 1].at))
        /\ ReadElements(kind, buf, at, n) = f[n]
    BY <1>1 DEF ElementsRun
  <1> DEFINE q == [i \in 1 .. n |-> ReadElement(kind, buf, f[i - 1].at)]
  <1>3. \A i \in 1 .. n : q[i] = ReadElement(kind, buf, f[i - 1].at)
    OBVIOUS
  <1>4. \A i \in 1 .. n : f[i] = Collect(f[i - 1], q[i])
    BY <1>2, <1>3
  <1>5. ASSUME NEW i \in 1 .. n, NEW to \in Nat, to <= Len(buf), Has(buf, to, strs[i]),
               f[i - 1] = Read(TRUE, to, [k \in 1 .. i - 1 |-> vals[k]])
        PROVE  Gives(q[i], buf, to, strs[i], vals[i])
    <2>1. f[i - 1].at = to
      BY <1>5 DEF Read
    <2> QED BY <1>3, <1>5, <2>1 DEF ElementCodes
  <1> HIDE DEF q
  <1>6. Gives(f[n], buf, at, Concat(strs), [k \in 1 .. n |-> vals[k]])
    BY <1>2, <1>4, <1>5, Series
  <1> QED BY <1>2, <1>6

\* A counted list reads back, if its count fits and the reader takes as many.
LEMMA ListGives ==
  ASSUME NEW strs \in Seq(Seq(Nat)), NEW n \in Nat, Len(strs) = n, n <= UINT32_MAX, NEW kind,
         kind = "digests" => n <= UINT16_MAX,
         NEW vals, \A i \in 1 .. n : ElementCodes(kind, strs[i], vals[i])
  PROVE  /\ MarshalList(strs) \in Seq(Nat)
         /\ \A buf \in Seq(Nat) : \A at \in Nat :
              at <= Len(buf) /\ Has(buf, at, MarshalList(strs))
              => Gives(ReadList(kind, buf, at), buf, at, MarshalList(strs), [k \in 1 .. n |-> vals[k]])
  <1> DEFINE s == u32(n)
             t == Concat(strs)
             xs == [k \in 1 .. n |-> vals[k]]
  <1>1. /\ s \in Seq(Nat) /\ Len(s) = 4
        /\ \A buf \in Seq(Nat) : \A at \in Nat :
             at <= Len(buf) /\ Has(buf, at, s) => Gives(ReadUint(buf, at, 4), buf, at, s, << n >>)
    BY U32, Base
  <1>2. MarshalList(strs) = s \o t
    BY DEF MarshalList
  <1>3. t \in Seq(Nat)
    <2>1. Upto(strs, n) \in Seq(Nat) /\ Upto(strs, n) = t
      <3>1. n \in 0 .. n
        OBVIOUS
      <3> QED BY <3>1, Pieces
    <2> QED BY <2>1
  <1>6. \A buf \in Seq(Nat) : \A at \in Nat :
           at <= Len(buf) /\ Has(buf, at, t) => Gives(ReadElements(kind, buf, at, n), buf, at, t, xs)
    BY ElementsGive
  <1> HIDE DEF s, t, xs
  <1>4. s \o t \in Seq(Nat)
    BY <1>1, <1>3, Cat
  <1>5. ASSUME NEW buf \in Seq(Nat), NEW at \in Nat, at <= Len(buf), Has(buf, at, s \o t)
        PROVE  Gives(ReadList(kind, buf, at), buf, at, s \o t, xs)
    <2>1. Has(buf, at, s) /\ Has(buf, at + 4, t)
      BY <1>1, <1>3, <1>5, HasBoth
    <2> DEFINE r == ReadUint(buf, at, 4)
               q == IF kind = "digests" /\ r.val[1] > UINT16_MAX THEN Read(FALSE, r.at, <<>>)
                    ELSE ReadElements(kind, buf, r.at, r.val[1])
    <2>2. Gives(r, buf, at, s, << n >>)
      BY <1>1, <1>5, <2>1
    <2>3. ReadList(kind, buf, at) = IF r.ok THEN q ELSE r
      BY Zenon DEF ReadList, AndThen
    <2> HIDE DEF r
    <2>4. ASSUME at + Len(s) <= Len(buf)
          PROVE  Gives(q, buf, at + Len(s), t, xs)
      <3>1. r = Read(TRUE, at + Len(s), << n >>)
        BY <2>2, <2>4 DEF Gives
      <3>2. r.at = at + 4 /\ r.val[1] = n
        BY <1>1, <3>1 DEF Read
      <3>3. ~(kind = "digests" /\ r.val[1] > UINT16_MAX)
        BY <3>2, Base
      <3>4. q = ReadElements(kind, buf, at + 4, n)
        BY <3>2, <3>3
      <3>5. at + 4 \in Nat /\ at + 4 <= Len(buf)
        BY <1>1, <2>4
      <3> HIDE DEF q
      <3> QED BY <1>1, <1>6, <2>1, <3>4, <3>5
    <2> HIDE DEF q
    <2>5. Gives(IF r.ok THEN q ELSE r, buf, at, s \o t, xs)
      BY <1>1, <1>3, <2>2, <2>4, Sequel
    <2> QED BY <2>3, <2>5
  <1> QED BY <1>2, <1>4, <1>5 DEF xs

\* Integers and TPM2Bs are read as they were written.
LEMMA PrimitivesCode ==
  /\ \A n \in 0 .. UINT8_MAX : Codes("u8", u8(n), << n >>)
  /\ \A n \in 0 .. UINT16_MAX : Codes("u16", u16(n), << n >>)
  /\ \A n \in 0 .. UINT32_MAX : Codes("u32", u32(n), << n >>)
  /\ \A data \in Seq(Nat) : Fits(data) => Codes("tpm2b", TPM2B(data), data)
  <1>1. /\ \A buf, at : ReadPrimitive("u8", buf, at) = ReadUint(buf, at, 1)
        /\ \A buf, at : ReadPrimitive("u16", buf, at) = ReadUint(buf, at, 2)
        /\ \A buf, at : ReadPrimitive("u32", buf, at) = ReadUint(buf, at, 4)
        /\ \A buf, at : ReadPrimitive("tpm2b", buf, at) = tpm2b(buf, at)
    BY DEF ReadPrimitive, Width
  <1>2. \A n \in 0 .. UINT8_MAX : Codes("u8", u8(n), << n >>)
    BY <1>1, U8 DEF Codes
  <1>3. \A n \in 0 .. UINT16_MAX : Codes("u16", u16(n), << n >>)
    BY <1>1, U16 DEF Codes
  <1>4. \A n \in 0 .. UINT32_MAX : Codes("u32", u32(n), << n >>)
    BY <1>1, U32 DEF Codes
  <1>5. \A data \in Seq(Nat) : Fits(data) => Codes("tpm2b", TPM2B(data), data)
    BY <1>1, Sized DEF Codes
  <1> QED BY <1>2, <1>3, <1>4, <1>5

\* A length of one octet.
LEMMA OneOctet == ASSUME NEW n \in 0 .. UINT8_MAX PROVE u8(n) = << n % (UINT8_MAX + 1) >>
  <1>1. UINT8_MAX + 1 = B
    BY Base DEF UINT8_MAX
  <1>2. u8(n) = [i \in 1 .. 1 |-> Shifted(n)[1 - i + 1] % B]
    BY DEF u8, to_be_bytes
  <1>3. Shifted(n)[1 - 1 + 1] = n
    BY DEF Shifted
  <1> QED BY <1>1, <1>2, <1>3

\* A read of two primitives.
LEMMA PairGives ==
  ASSUME NEW k1, NEW k2, NEW s \in Seq(Nat), NEW t \in Seq(Nat), NEW x, NEW y, Codes(k1, s, x), Codes(k2, t, y),
         NEW buf \in Seq(Nat), NEW at \in Nat, at <= Len(buf), Has(buf, at, s \o t)
  PROVE  Gives(ReadFields(<< k1, k2 >>, buf, at), buf, at, s \o t, << x, y >>)
  <1> DEFINE strs == << s, t >>
             kinds == << k1, k2 >>
             vals == << x, y >>
             n == 2
             u == s \o t
  <1>1. strs \in Seq(Seq(Nat)) /\ n \in Nat /\ Len(strs) = n /\ DOMAIN kinds = 1 .. n
    OBVIOUS
  <1>2. \A i \in 1 .. n : Codes(kinds[i], strs[i], vals[i])
    OBVIOUS
  <1>3. Concat(strs) = u
    <2>1. DOMAIN strs = 1 .. 2 /\ strs[1] = s /\ strs[2] = t
      OBVIOUS
    <2> HIDE DEF strs
    <2> QED BY <2>1, ConcatTwo
  <1>4. vals = [k \in 1 .. n |-> vals[k]]
    OBVIOUS
  <1> HIDE DEF strs, kinds, vals, n, u
  <1>5. Has(buf, at, Concat(strs))
    BY <1>3 DEF u
  <1>6. Gives(ReadFields(kinds, buf, at), buf, at, Concat(strs), [k \in 1 .. n |-> vals[k]])
    BY <1>1, <1>2, <1>5, FieldsGive
  <1>7. Gives(ReadFields(kinds, buf, at), buf, at, u, vals)
    BY <1>3, <1>4, <1>6
  <1> QED BY <1>7 DEF kinds, u, vals

\* A read, and a value made of what it gave.
LEMMA Made ==
  ASSUME NEW buf, NEW at, NEW s, NEW r, NEW q, NEW x, NEW y, Gives(r, buf, at, s, x),
         r = Read(TRUE, at + Len(s), x) => q = Read(TRUE, at + Len(s), y)
  PROVE  Gives(IF r.ok THEN q ELSE r, buf, at, s, y)
  <1>1. CASE at + Len(s) <= Len(buf)
    <2>1. r = Read(TRUE, at + Len(s), x)
      BY <1>1 DEF Gives
    <2>2. r.ok /\ q = Read(TRUE, at + Len(s), y)
      BY <2>1 DEF Read
    <2> QED BY <1>1, <2>2 DEF Gives
  <1>2. CASE ~(at + Len(s) <= Len(buf))
    BY <1>2 DEF Gives
  <1> QED BY <1>1, <1>2

\* A PCR selection is read as it was written.
LEMMA PcrSelectionCodes ==
  ASSUME NEW e \in [hash : 0 .. UINT16_MAX, select : UpTo(UINT8_MAX, Nat)]
  PROVE  MarshalPcrSelection(e) \in Seq(Nat) /\ ElementCodes("pcrs", MarshalPcrSelection(e), e)
  <1> DEFINE m == Len(e.select)
             s == u16(e.hash)
             t == u8(m)
             h == s \o t
             u == e.select
  <1>1. e.hash \in 0 .. UINT16_MAX /\ u \in Seq(Nat) /\ m \in 0 .. UINT8_MAX
    BY DEF UpTo
  <1>2. MarshalPcrSelection(e) = h \o u
    BY <1>1, OneOctet DEF MarshalPcrSelection
  <1>3. Codes("u16", s, << e.hash >>) /\ Codes("u8", t, << m >>)
    BY <1>1, PrimitivesCode
  <1>4. s \in Seq(Nat) /\ t \in Seq(Nat)
    BY <1>1, U16, U8
  <1>5. h \in Seq(Nat)
    BY <1>4, Cat
  <1>6. e = [hash |-> e.hash, select |-> u]
    OBVIOUS
  <1> HIDE DEF s, t
  <1>7. ASSUME NEW buf \in Seq(Nat), NEW at \in Nat, at <= Len(buf), Has(buf, at, h)
        PROVE  Gives(ReadFields(<< "u16", "u8" >>, buf, at), buf, at, h, << << e.hash >>, << m >> >>)
    <2> DEFINE k1 == "u16"
               k2 == "u8"
               x == << e.hash >>
               y == << m >>
    <2>1. Codes(k1, s, x) /\ Codes(k2, t, y)
      BY <1>3
    <2> HIDE DEF k1, k2, x, y
    <2>2. Gives(ReadFields(<< k1, k2 >>, buf, at), buf, at, h, << x, y >>)
      BY <1>4, <1>7, <2>1, PairGives
    <2> QED BY <2>2 DEF k1, k2, x, y
  <1> HIDE DEF h
  <1>8. ASSUME NEW buf \in Seq(Nat), NEW at \in Nat, at <= Len(buf), Has(buf, at, h \o u)
        PROVE  Gives(ReadElement("pcrs", buf, at), buf, at, h \o u, e)
    <2>1. Has(buf, at, h) /\ Has(buf, at + Len(h), u)
      BY <1>1, <1>5, <1>8, HasBoth
    <2> DEFINE r == ReadFields(<< "u16", "u8" >>, buf, at)
               q == take(buf, r.at, r.val[2][1])
               w == Read(TRUE, q.at, [hash |-> r.val[1][1], select |-> q.val])
               v == IF q.ok THEN w ELSE q
    <2>2. Gives(r, buf, at, h, << << e.hash >>, << m >> >>)
      BY <1>7, <1>8, <2>1
    <2>3. ReadElement("pcrs", buf, at) = IF r.ok THEN v ELSE r
      BY Zenon DEF ReadElement, ReadPcrSelection, AndThen
    <2> HIDE DEF r
    <2>4. ASSUME at + Len(h) <= Len(buf)
          PROVE  Gives(v, buf, at + Len(h), u, e)
      <3>1. r = Read(TRUE, at + Len(h), << << e.hash >>, << m >> >>)
        BY <2>2, <2>4 DEF Gives
      <3>2. r.at = at + Len(h) /\ r.val[2][1] = Len(u) /\ r.val[1][1] = e.hash
        BY <3>1 DEF Read
      <3>3. q = take(buf, at + Len(h), Len(u))
        BY <3>2
      <3>4. at + Len(h) \in Nat
        BY <1>5
      <3> HIDE DEF q
      <3>5. Gives(q, buf, at + Len(h), u, u)
        BY <1>1, <2>1, <2>4, <3>3, <3>4, TakeGives
      <3>6. q = Read(TRUE, at + Len(h) + Len(u), u) => w = Read(TRUE, at + Len(h) + Len(u), e)
        <4> SUFFICES ASSUME q = Read(TRUE, at + Len(h) + Len(u), u)
                     PROVE  w = Read(TRUE, at + Len(h) + Len(u), e)
          OBVIOUS
        <4>1. q.at = at + Len(h) + Len(u) /\ q.val = u
          BY DEF Read
        <4> QED BY <1>6, <3>2, <4>1
      <3> HIDE DEF w, u
      <3> QED BY <3>5, <3>6, Made
    <2> HIDE DEF v
    <2>5. Gives(IF r.ok THEN v ELSE r, buf, at, h \o u, e)
      BY <1>1, <1>5, <1>8, <2>2, <2>4, Sequel
    <2> QED BY <2>3, <2>5
  <1>9. h \o u \in Seq(Nat)
    BY <1>1, <1>5, Cat
  <1> HIDE DEF u
  <1> QED BY <1>2, <1>8, <1>9 DEF ElementCodes

\* So is a digest with its algorithm.
LEMMA DigestValueCodes ==
  ASSUME NEW e \in [alg : 0 .. UINT16_MAX, digest : Seq(Nat)], Len(e.digest) = DigestSize(e.alg)
  PROVE  MarshalDigestValue(e) \in Seq(Nat) /\ ElementCodes("extend", MarshalDigestValue(e), e)
  <1> DEFINE h == u16(e.alg)
             u == e.digest
  <1>1. e.alg \in 0 .. UINT16_MAX /\ u \in Seq(Nat) /\ e = [alg |-> e.alg, digest |-> u]
    OBVIOUS
  <1>2. MarshalDigestValue(e) = h \o u
    BY DEF MarshalDigestValue
  <1>3. /\ h \in Seq(Nat) /\ Len(h) = 2
        /\ \A buf \in Seq(Nat) : \A at \in Nat :
             at <= Len(buf) /\ Has(buf, at, h) => Gives(ReadUint(buf, at, 2), buf, at, h, << e.alg >>)
    BY <1>1, U16
  <1>4. Len(u) = DigestSize(e.alg)
    OBVIOUS
  <1> HIDE DEF h
  <1>5. ASSUME NEW buf \in Seq(Nat), NEW at \in Nat, at <= Len(buf), Has(buf, at, h \o u)
        PROVE  Gives(ReadElement("extend", buf, at), buf, at, h \o u, e)
    <2>1. Has(buf, at, h) /\ Has(buf, at + Len(h), u)
      BY <1>1, <1>3, <1>5, HasBoth
    <2> DEFINE r == ReadUint(buf, at, 2)
               q == take(buf, r.at, DigestSize(r.val[1]))
               w == Read(TRUE, q.at, [alg |-> r.val[1], digest |-> q.val])
               v == IF q.ok THEN w ELSE q
    <2>2. Gives(r, buf, at, h, << e.alg >>)
      BY <1>3, <1>5, <2>1
    <2>3. ReadElement("extend", buf, at) = IF r.ok THEN v ELSE r
      BY Zenon DEF ReadElement, ReadDigestValue, AndThen
    <2> HIDE DEF r
    <2>4. ASSUME at + Len(h) <= Len(buf)
          PROVE  Gives(v, buf, at + Len(h), u, e)
      <3>1. r = Read(TRUE, at + Len(h), << e.alg >>)
        BY <2>2, <2>4 DEF Gives
      <3>2. r.at = at + Len(h) /\ r.val[1] = e.alg
        BY <3>1 DEF Read
      <3>3. q = take(buf, at + Len(h), Len(u))
        BY <1>4, <3>2
      <3>4. at + Len(h) \in Nat
        BY <1>3
      <3> HIDE DEF q
      <3>5. Gives(q, buf, at + Len(h), u, u)
        BY <1>1, <2>1, <2>4, <3>3, <3>4, TakeGives
      <3>6. q = Read(TRUE, at + Len(h) + Len(u), u) => w = Read(TRUE, at + Len(h) + Len(u), e)
        <4> SUFFICES ASSUME q = Read(TRUE, at + Len(h) + Len(u), u)
                     PROVE  w = Read(TRUE, at + Len(h) + Len(u), e)
          OBVIOUS
        <4>1. q.at = at + Len(h) + Len(u) /\ q.val = u
          BY DEF Read
        <4> QED BY <1>1, <3>2, <4>1
      <3> HIDE DEF w, u
      <3> QED BY <3>5, <3>6, Made
    <2> HIDE DEF v
    <2>5. Gives(IF r.ok THEN v ELSE r, buf, at, h \o u, e)
      BY <1>1, <1>3, <1>5, <2>2, <2>4, Sequel
    <2> QED BY <2>3, <2>5
  <1>6. h \o u \in Seq(Nat)
    BY <1>1, <1>3, Cat
  <1> HIDE DEF u
  <1> QED BY <1>2, <1>5, <1>6 DEF ElementCodes

\* And a digest of a list.
LEMMA DigestCodes ==
  ASSUME NEW e \in Seq(Nat), Fits(e)
  PROVE  TPM2B(e) \in Seq(Nat) /\ ElementCodes("digests", TPM2B(e), e)
  <1>1. \A buf, at : ReadElement("digests", buf, at) = tpm2b(buf, at)
    BY DEF ReadElement
  <1>2. /\ TPM2B(e) \in Seq(Nat)
        /\ \A buf \in Seq(Nat) : \A at \in Nat :
             at <= Len(buf) /\ Has(buf, at, TPM2B(e)) => Gives(tpm2b(buf, at), buf, at, TPM2B(e), e)
    BY Sized
  <1> QED BY <1>1, <1>2 DEF ElementCodes

\* The string s is read as the value of f wherever it is, as far as it is there.
Reads(f, s) ==
  /\ s \in Seq(Nat)
  /\ \A buf \in Seq(Nat) : \A at \in Nat :
       at <= Len(buf) /\ Has(buf, at, s) => Gives(unmarshal(f.kind, buf, at), buf, at, s, f.val)

\* A field that is a list.
LEMMA ListReads ==
  ASSUME NEW f, f.kind \in {"pcrs", "digests", "extend"}, NEW n \in Nat, n <= UINT32_MAX,
         f.kind = "digests" => n <= UINT16_MAX, NEW E, f.val \in Seq(E), Len(f.val) = n,
         NEW strs \in Seq(Seq(Nat)), Len(strs) = n,
         \A i \in 1 .. n : ElementCodes(f.kind, strs[i], f.val[i])
  PROVE  Reads(f, MarshalList(strs))
  <1> DEFINE kind == f.kind
             vals == f.val
  <1>1. \A buf, at : unmarshal(kind, buf, at) = ReadList(kind, buf, at)
    BY DEF unmarshal
  <1>2. vals = [k \in 1 .. n |-> vals[k]]
    <2>1. vals \in Seq(E) /\ Len(vals) = n
      OBVIOUS
    <2> HIDE DEF vals
    <2> QED BY <2>1
  <1>4. \A i \in 1 .. n : ElementCodes(kind, strs[i], vals[i])
    OBVIOUS
  <1>5. kind = "digests" => n <= UINT16_MAX
    OBVIOUS
  <1> HIDE DEF kind, vals
  <1>3. /\ MarshalList(strs) \in Seq(Nat)
        /\ \A buf \in Seq(Nat) : \A at \in Nat :
             at <= Len(buf) /\ Has(buf, at, MarshalList(strs))
             => Gives(ReadList(kind, buf, at), buf, at, MarshalList(strs), [k \in 1 .. n |-> vals[k]])
    BY <1>4, <1>5, ListGives
  <1>6. /\ MarshalList(strs) \in Seq(Nat)
        /\ \A buf \in Seq(Nat) : \A at \in Nat :
             at <= Len(buf) /\ Has(buf, at, MarshalList(strs))
             => Gives(unmarshal(kind, buf, at), buf, at, MarshalList(strs), vals)
    BY <1>1, <1>2, <1>3
  <1> QED BY <1>6 DEF Reads, kind, vals

\* PcrSelectionList.
LEMMA PcrsRead ==
  ASSUME NEW f, f.kind = "pcrs", f.val \in UpTo(UINT32_MAX, [hash : 0 .. UINT16_MAX, select : UpTo(UINT8_MAX, Nat)])
  PROVE  Reads(f, marshal(f))
  <1> DEFINE v == f.val
             n == Len(v)
             E == [hash : 0 .. UINT16_MAX, select : UpTo(UINT8_MAX, Nat)]
             strs == [i \in DOMAIN v |-> MarshalPcrSelection(v[i])]
  <1>1. v \in Seq(E) /\ n \in Nat /\ n <= UINT32_MAX
    BY DEF UpTo
  <1>2. marshal(f) = MarshalList(strs)
    BY DEF marshal, ListOf
  <1> HIDE DEF E
  <1>3. \A i \in 1 .. n : v[i] \in E /\ DOMAIN v = 1 .. n
    BY <1>1
  <1>4. \A i \in 1 .. n : MarshalPcrSelection(v[i]) \in Seq(Nat) /\ ElementCodes("pcrs", MarshalPcrSelection(v[i]), v[i])
    BY <1>3, PcrSelectionCodes DEF E
  <1>5. strs \in Seq(Seq(Nat)) /\ Len(strs) = n /\ \A i \in 1 .. n : strs[i] = MarshalPcrSelection(v[i])
    BY <1>1, <1>4
  <1> HIDE DEF strs
  <1>6. \A i \in 1 .. n : ElementCodes(f.kind, strs[i], f.val[i])
    BY <1>4, <1>5
  <1>7. Reads(f, MarshalList(strs))
    BY <1>1, <1>5, <1>6, ListReads
  <1> QED BY <1>2, <1>7

\* read_digest_list.
LEMMA DigestsRead ==
  ASSUME NEW f, f.kind = "digests", f.val \in UpTo(UINT16_MAX, UpTo(UINT16_MAX, Nat))
  PROVE  Reads(f, marshal(f))
  <1> DEFINE v == f.val
             n == Len(v)
             E == UpTo(UINT16_MAX, Nat)
             strs == [i \in DOMAIN v |-> TPM2B(v[i])]
  <1>1. v \in Seq(E) /\ n \in Nat /\ n <= UINT16_MAX
    BY DEF UpTo
  <1>7. n <= UINT32_MAX
    <2>1. UINT16_MAX <= UINT32_MAX
      <3> DEFINE C == B * B
      <3>1. C \in Nat /\ C >= 1 /\ B * B * B * B = C * C
        BY Base
      <3>2. C * C >= C
        <4> HIDE DEF C
        <4> QED BY <3>1
      <3> QED BY <3>1, <3>2 DEF UINT16_MAX, UINT32_MAX
    <2> QED BY <1>1, <2>1, Base
  <1>2. marshal(f) = MarshalList(strs)
    BY DEF marshal, ListOf
  <1>8. \A e \in E : e \in Seq(Nat) /\ Fits(e)
    BY DEF UpTo, Fits
  <1> HIDE DEF E
  <1>3. \A i \in 1 .. n : v[i] \in E /\ DOMAIN v = 1 .. n
    BY <1>1
  <1>4. \A i \in 1 .. n : TPM2B(v[i]) \in Seq(Nat) /\ ElementCodes("digests", TPM2B(v[i]), v[i])
    BY <1>3, <1>8, DigestCodes
  <1>5. strs \in Seq(Seq(Nat)) /\ Len(strs) = n /\ \A i \in 1 .. n : strs[i] = TPM2B(v[i])
    <2>1. strs = [i \in 1 .. n |-> TPM2B(v[i])]
      BY <1>1
    <2> HIDE DEF strs
    <2> QED BY <1>1, <1>4, <2>1
  <1> HIDE DEF strs
  <1>6. \A i \in 1 .. n : ElementCodes(f.kind, strs[i], f.val[i])
    BY <1>4, <1>5
  <1> QED BY <1>1, <1>2, <1>5, <1>6, <1>7, ListReads

\* The digests of pcr_extend.
LEMMA ExtendReads ==
  ASSUME NEW f, f.kind = "extend", f.val \in UpTo(UINT32_MAX, [alg : 0 .. UINT16_MAX, digest : Bytes]),
         \A i \in DOMAIN f.val : Len(f.val[i].digest) = DigestSize(f.val[i].alg)
  PROVE  Reads(f, marshal(f))
  <1> DEFINE v == f.val
             n == Len(v)
             E == [alg : 0 .. UINT16_MAX, digest : Seq(Nat)]
             strs == [i \in DOMAIN v |-> MarshalDigestValue(v[i])]
  <1>1. v \in Seq(E) /\ n \in Nat /\ n <= UINT32_MAX
    BY DEF UpTo, Bytes
  <1>2. marshal(f) = MarshalList(strs)
    BY DEF marshal, ListOf
  <1> HIDE DEF E
  <1>3. \A i \in 1 .. n : v[i] \in E /\ DOMAIN v = 1 .. n
    BY <1>1
  <1>4. \A i \in 1 .. n : MarshalDigestValue(v[i]) \in Seq(Nat) /\ ElementCodes("extend", MarshalDigestValue(v[i]), v[i])
    BY <1>3, DigestValueCodes DEF E
  <1>5. strs \in Seq(Seq(Nat)) /\ Len(strs) = n /\ \A i \in 1 .. n : strs[i] = MarshalDigestValue(v[i])
    <2>1. strs = [i \in 1 .. n |-> MarshalDigestValue(v[i])]
      BY <1>1
    <2> HIDE DEF strs
    <2> QED BY <1>1, <1>4, <2>1
  <1> HIDE DEF strs
  <1>6. \A i \in 1 .. n : ElementCodes(f.kind, strs[i], f.val[i])
    BY <1>4, <1>5
  <1> QED BY <1>1, <1>2, <1>5, <1>6, ListReads

\* The small numbers that occur.
LEMMA Small ==
  /\ UINT16_MAX + 1 \in 0 .. UINT32_MAX
  /\ \A n \in 0 .. 128 : n \in 0 .. UINT16_MAX
  /\ \A s \in Seq(Nat) : Len(s) <= 128 => Fits(s)
  <1>1. UINT16_MAX + 1 \in 0 .. UINT32_MAX
    <2> DEFINE C == B * B
    <2>1. C \in Nat /\ C >= 144 /\ B * B * B * B = C * C
      <3>1. UINT16_MAX = C - 1
        BY DEF UINT16_MAX
      <3>2. C \in Nat
        BY Base
      <3> QED BY <3>1, <3>2, Base
    <2>2. C * C >= C + 1
      <3> HIDE DEF C
      <3> QED BY <2>1
    <2> QED BY <2>1, <2>2 DEF UINT16_MAX, UINT32_MAX
  <1> QED BY <1>1, Base DEF Fits

-----------------------------------------------------------------------------
(* Plain fields.                                                           *)

\* u8, u16 and u32.
LEMMA NumbersRead ==
  ASSUME NEW f, WellFormed(f), f.kind \in {"u8", "u16", "u32"}
  PROVE  Reads(f, marshal(f))
  <1> DEFINE n == f.val[1]
  <1>1. CASE f.kind = "u8"
    <2>1. f.val \in [1 .. 1 -> 0 .. UINT8_MAX]
      BY <1>1 DEF WellFormed
    <2>2. n \in 0 .. UINT8_MAX /\ f.val = << n >>
      BY <2>1
    <2>3. marshal(f) = u8(n) /\ \A buf, at : unmarshal(f.kind, buf, at) = ReadUint(buf, at, 1)
      BY <1>1 DEF marshal, unmarshal, Width
    <2> HIDE DEF n
    <2> QED BY <2>2, <2>3, U8 DEF Reads
  <1>2. CASE f.kind = "u16"
    <2>1. f.val \in [1 .. 1 -> 0 .. UINT16_MAX]
      BY <1>2 DEF WellFormed
    <2>2. n \in 0 .. UINT16_MAX /\ f.val = << n >>
      BY <2>1
    <2>3. marshal(f) = u16(n) /\ \A buf, at : unmarshal(f.kind, buf, at) = ReadUint(buf, at, 2)
      BY <1>2 DEF marshal, unmarshal, Width
    <2> HIDE DEF n
    <2> QED BY <2>2, <2>3, U16 DEF Reads
  <1>3. CASE f.kind = "u32"
    <2>1. f.val \in [1 .. 1 -> 0 .. UINT32_MAX]
      BY <1>3 DEF WellFormed
    <2>2. n \in 0 .. UINT32_MAX /\ f.val = << n >>
      BY <2>1
    <2>3. marshal(f) = u32(n) /\ \A buf, at : unmarshal(f.kind, buf, at) = ReadUint(buf, at, 4)
      BY <1>3 DEF marshal, unmarshal, Width
    <2> HIDE DEF n
    <2> QED BY <2>2, <2>3, U32 DEF Reads
  <1> QED BY <1>1, <1>2, <1>3

\* marshal_tpm2b, and Buffer::marshal of what fits.
LEMMA StringsRead ==
  ASSUME NEW f, f.kind \in {"tpm2b", "buffer"}, f.val \in Seq(Nat), Fits(f.val)
  PROVE  Reads(f, marshal(f))
  <1>1. marshal(f) = TPM2B(f.val) /\ \A buf, at : unmarshal(f.kind, buf, at) = tpm2b(buf, at)
    BY DEF marshal, unmarshal, Buffer
  <1> QED BY <1>1, Sized DEF Reads

\* create_primary's reading of the reply, what it skips included.
LEMMA CreatedReads ==
  ASSUME NEW f, f.kind = "created", f.val \in [public : UpTo(UINT16_MAX, Nat), name : UpTo(UINT16_MAX, Nat)]
  PROVE  Reads(f, marshal(f))
  <1> DEFINE x == f.val.public
             y == f.val.name
             z == UINT16_MAX + 1
             strs == << TPM2B(x), TPM2B(<< 7 >>), TPM2B(<< 7, 7 >>), u16(3), u32(z), TPM2B(<< 7 >>), TPM2B(y) >>
             vals == << x, << 7 >>, << 7, 7 >>, << 3 >>, << z >>, << 7 >>, y >>
             n == 7
  <1>1. x \in Seq(Nat) /\ Fits(x) /\ y \in Seq(Nat) /\ Fits(y) /\ f.val = [public |-> x, name |-> y]
    BY DEF UpTo, Fits
  <1>2. << 7 >> \in Seq(Nat) /\ Fits(<< 7 >>) /\ << 7, 7 >> \in Seq(Nat) /\ Fits(<< 7, 7 >>)
    <2>1. << 7 >> \in Seq(Nat) /\ Len(<< 7 >>) = 1 /\ << 7, 7 >> \in Seq(Nat) /\ Len(<< 7, 7 >>) = 2
      OBVIOUS
    <2>2. 1 <= UINT16_MAX /\ 2 <= UINT16_MAX
      BY Base
    <2> QED BY <2>1, <2>2 DEF Fits
  <1>3. 3 \in 0 .. UINT16_MAX /\ z \in 0 .. UINT32_MAX
    BY Small
  <1>4. /\ TPM2B(x) \in Seq(Nat) /\ TPM2B(y) \in Seq(Nat)
        /\ TPM2B(<< 7 >>) \in Seq(Nat) /\ TPM2B(<< 7, 7 >>) \in Seq(Nat)
    BY <1>1, <1>2, Sized
  <1>5. u16(3) \in Seq(Nat) /\ u32(z) \in Seq(Nat)
    BY <1>3, U16, U32
  <1>6. marshal(f) = Concat(strs)
    <2>1. marshal(f) = TPM2B(x) \o TPM2B(<< 7 >>) \o TPM2B(<< 7, 7 >>) \o u16(3) \o u32(z) \o TPM2B(<< 7 >>) \o TPM2B(y)
      BY DEF marshal, MarshalCreated
    <2>2. Concat(strs) = strs[1] \o strs[2] \o strs[3] \o strs[4] \o strs[5] \o strs[6] \o strs[7]
      <3>1. DOMAIN strs = 1 .. 7 /\ strs[1] \in Seq(Nat)
        BY <1>4
      <3> HIDE DEF strs
      <3> QED BY <3>1, ConcatSeven
    <2> QED BY <2>1, <2>2
  <1>7. /\ Codes("tpm2b", TPM2B(x), x) /\ Codes("tpm2b", TPM2B(y), y)
        /\ Codes("tpm2b", TPM2B(<< 7 >>), << 7 >>) /\ Codes("tpm2b", TPM2B(<< 7, 7 >>), << 7, 7 >>)
    BY <1>1, <1>2, PrimitivesCode
  <1>8. Codes("u16", u16(3), << 3 >>) /\ Codes("u32", u32(z), << z >>)
    BY <1>3, PrimitivesCode
  <1> HIDE DEF z
  <1>9. strs \in Seq(Seq(Nat)) /\ n \in Nat /\ Len(strs) = n /\ DOMAIN CreatedLayout = 1 .. n
    BY <1>4, <1>5 DEF CreatedLayout
  <1>10. \A i \in 1 .. n : Codes(CreatedLayout[i], strs[i], vals[i])
    BY <1>7, <1>8 DEF CreatedLayout
  <1>11. vals = [k \in 1 .. n |-> vals[k]] /\ vals[1] = x /\ vals[7] = y
    OBVIOUS
  <1> DEFINE s == Concat(strs)
  <1>12. s \in Seq(Nat)
    BY <1>9, ConcatCat
  <1> HIDE DEF x, y, strs, vals, n
  <1>13. ASSUME NEW buf \in Seq(Nat), NEW at \in Nat, at <= Len(buf), Has(buf, at, s)
         PROVE  Gives(unmarshal(f.kind, buf, at), buf, at, s, f.val)
    <2> DEFINE r == ReadFields(CreatedLayout, buf, at)
               q == Read(TRUE, r.at, [public |-> r.val[1], name |-> r.val[7]])
    <2>1. Gives(r, buf, at, s, [k \in 1 .. n |-> vals[k]])
      BY <1>9, <1>10, <1>13, FieldsGive
    <2>2. Gives(r, buf, at, s, vals)
      BY <1>11, <2>1
    <2>3. unmarshal(f.kind, buf, at) = IF r.ok THEN q ELSE r
      BY Zenon DEF unmarshal, ReadCreated, AndThen
    <2> HIDE DEF r, s
    <2>4. r = Read(TRUE, at + Len(s), vals) => q = Read(TRUE, at + Len(s), f.val)
      <3> SUFFICES ASSUME r = Read(TRUE, at + Len(s), vals) PROVE q = Read(TRUE, at + Len(s), f.val)
        OBVIOUS
      <3>1. r.at = at + Len(s) /\ r.val = vals
        BY DEF Read
      <3> QED BY <1>1, <1>11, <3>1
    <2> HIDE DEF q
    <2> DEFINE v == f.val
    <2>5. r = Read(TRUE, at + Len(s), vals) => q = Read(TRUE, at + Len(s), v)
      BY <2>4
    <2> HIDE DEF v
    <2>6. Gives(IF r.ok THEN q ELSE r, buf, at, s, v)
      BY <2>2, <2>5, Made
    <2> QED BY <2>3, <2>6 DEF v
  <1> QED BY <1>6, <1>12, <1>13 DEF Reads

\* The data of a capability is what is left of the string.
LEMMA CapabilityReads ==
  ASSUME NEW f, f.kind = "capability",
         f.val \in [more : 0 .. UINT8_MAX, capability : 0 .. UINT32_MAX, data : Bytes]
  PROVE  /\ marshal(f) \in Seq(Nat)
         /\ \A buf \in Seq(Nat) : \A at \in Nat :
              at + Len(marshal(f)) = Len(buf) /\ Has(buf, at, marshal(f))
              => unmarshal(f.kind, buf, at) = Read(TRUE, Len(buf), f.val)
  <1> DEFINE m == f.val.more
             c == f.val.capability
             s == u8(m)
             t == u32(c)
             h == s \o t
             u == f.val.data
             e == f.val
  <1>1. /\ m \in 0 .. UINT8_MAX /\ c \in 0 .. UINT32_MAX /\ u \in Seq(Nat)
        /\ e = [more |-> m, capability |-> c, data |-> u]
    BY DEF Bytes
  <1>2. marshal(f) = h \o u
    BY DEF marshal, MarshalCapability
  <1>3. Codes("u8", s, << m >>) /\ Codes("u32", t, << c >>)
    BY <1>1, PrimitivesCode
  <1>4. s \in Seq(Nat) /\ t \in Seq(Nat)
    BY <1>1, U8, U32
  <1>5. h \in Seq(Nat)
    BY <1>4, Cat
  <1> HIDE DEF s, t, m, c
  <1>6. h \o u \in Seq(Nat) /\ Len(h \o u) = Len(h) + Len(u)
    BY <1>1, <1>5, Cat
  <1> HIDE DEF u, e
  <1>7. ASSUME NEW buf \in Seq(Nat), NEW at \in Nat, at <= Len(buf), Has(buf, at, h)
        PROVE  Gives(ReadFields(<< "u8", "u32" >>, buf, at), buf, at, h, << << m >>, << c >> >>)
    <2> DEFINE k1 == "u8"
               k2 == "u32"
               x == << m >>
               y == << c >>
    <2>1. Codes(k1, s, x) /\ Codes(k2, t, y)
      BY <1>3
    <2> HIDE DEF k1, k2, x, y
    <2>2. Gives(ReadFields(<< k1, k2 >>, buf, at), buf, at, h, << x, y >>)
      BY <1>4, <1>7, <2>1, PairGives
    <2> QED BY <2>2 DEF k1, k2, x, y
  <1> HIDE DEF h
  <1>8. ASSUME NEW buf \in Seq(Nat), NEW at \in Nat, at + Len(h \o u) = Len(buf), Has(buf, at, h \o u)
        PROVE  unmarshal(f.kind, buf, at) = Read(TRUE, Len(buf), e)
    <2>1. Has(buf, at, h) /\ Has(buf, at + Len(h), u)
      BY <1>1, <1>5, <1>8, HasBoth
    <2>0. Len(h) \in Nat /\ Len(u) \in Nat /\ at + Len(h) + Len(u) = Len(buf)
      BY <1>1, <1>5, <1>6, <1>8
    <2> DEFINE r == ReadFields(<< "u8", "u32" >>, buf, at)
               q == take(buf, r.at, Len(buf) - r.at)
               w == Read(TRUE, q.at, [more |-> r.val[1][1], capability |-> r.val[2][1], data |-> q.val])
               v == IF q.ok THEN w ELSE q
    <2>2. Gives(r, buf, at, h, << << m >>, << c >> >>)
      <3>1. at <= Len(buf)
        BY <2>0
      <3> QED BY <1>7, <1>8, <2>1, <3>1
    <2>3. unmarshal(f.kind, buf, at) = IF r.ok THEN v ELSE r
      BY Zenon DEF unmarshal, ReadCapability, AndThen
    <2> HIDE DEF r
    <2>4. r = Read(TRUE, at + Len(h), << << m >>, << c >> >>)
      <3>1. at + Len(h) <= Len(buf)
        BY <2>0
      <3> QED BY <2>2, <3>1 DEF Gives
    <2>5. r.ok /\ r.at = at + Len(h) /\ r.val[1][1] = m /\ r.val[2][1] = c
      BY <2>4 DEF Read
    <2>6. q = take(buf, at + Len(h), Len(u))
      <3>1. Len(buf) - (at + Len(h)) = Len(u)
        BY <2>0
      <3> QED BY <2>5, <3>1
    <2> HIDE DEF q
    <2>7. Gives(q, buf, at + Len(h), u, u)
      <3>1. at + Len(h) \in Nat /\ at + Len(h) <= Len(buf)
        BY <2>0
      <3> QED BY <1>1, <2>1, <2>6, <3>1, TakeGives
    <2>8. q = Read(TRUE, Len(buf), u)
      <3>1. at + Len(h) + Len(u) <= Len(buf)
        BY <2>0
      <3>2. q = Read(TRUE, at + Len(h) + Len(u), u)
        BY <2>7, <3>1 DEF Gives
      <3> QED BY <2>0, <3>2
    <2>9. q.ok /\ q.at = Len(buf) /\ q.val = u
      BY <2>8 DEF Read
    <2>10. v = Read(TRUE, Len(buf), e)
      BY <1>1, <2>5, <2>9
    <2> HIDE DEF v
    <2> QED BY <2>3, <2>5, <2>10
  <1> QED BY <1>2, <1>6, <1>8 DEF e

\* Every field that may stand among others.
LEMMA PlainReads ==
  ASSUME NEW f, WellFormed(f), f.kind \notin Alone, f.kind \in {"tpm2b", "buffer"} => Fits(f.val)
  PROVE  Reads(f, marshal(f))
  <1>1. CASE f.kind \in {"u8", "u16", "u32"}
    BY <1>1, NumbersRead
  <1>2. CASE f.kind \in {"tpm2b", "buffer"}
    <2>1. f.val \in Seq(Nat)
      BY <1>2 DEF WellFormed, Bytes
    <2> QED BY <1>2, <2>1, StringsRead
  <1>3. CASE f.kind = "pcrs"
    BY <1>3, PcrsRead DEF WellFormed
  <1>4. CASE f.kind = "digests"
    BY <1>4, DigestsRead DEF WellFormed
  <1>5. CASE f.kind = "extend"
    BY <1>5, ExtendReads DEF WellFormed
  <1>6. CASE f.kind = "created"
    BY <1>6, CreatedReads DEF WellFormed
  <1>7. f.kind \in {"u8", "u16", "u32", "tpm2b", "buffer", "pcrs", "digests", "extend", "created"}
    BY DEF WellFormed, Alone
  <1> QED BY <1>1, <1>2, <1>3, <1>4, <1>5, <1>6, <1>7

-----------------------------------------------------------------------------
(* What create sends.                                                      *)

-----------------------------------------------------------------------------
(* Templates.                                                              *)

\* Buffer::marshal writes a TPM2B, or nothing.
LEMMA BufferIs ==
  ASSUME NEW data \in Seq(Nat)
  PROVE  /\ Buffer(data) \in Seq(Nat)
         /\ Fits(data) => Buffer(data) = TPM2B(data) /\ Len(Buffer(data)) = 2 + Len(data) /\ Buffer(data) # <<>>
         /\ ~Fits(data) => Buffer(data) = <<>>
  <1>1. CASE Fits(data)
    <2>1. TPM2B(data) \in Seq(Nat) /\ Len(TPM2B(data)) = 2 + Len(data)
      BY <1>1, Sized
    <2>2. TPM2B(data) # <<>>
      <3>1. Len(data) \in Nat
        OBVIOUS
      <3>2. Len(TPM2B(data)) # 0
        BY <2>1, <3>1
      <3> QED BY <3>2
    <2> QED BY <1>1, <2>1, <2>2 DEF Buffer
  <1>2. CASE ~Fits(data)
    <2>1. <<>> \in Seq(Nat)
      BY EmptySeq
    <2> QED BY <1>2, <2>1 DEF Buffer
  <1> QED BY <1>1, <1>2

\* The templates, written out, with the policy that was put in.
Sealed(p) == p.type_ = KEYEDHASH /\ p.attributes = sealed_data /\ p.parameters = << 16 >> /\ p.unique = << <<>> >>

\* EccParent with no symmetric algorithm.
Parent(p) ==
  /\ p.type_ = ECC /\ p.attributes = storage_parent /\ p.unique = << <<>>, <<>> >>
  /\ p.parameters = << 16, 16, 3, 16 >>

\* ecc_storage_parent.
AesParent(p) ==
  /\ p.type_ = ECC /\ p.attributes = storage_parent /\ p.unique = << <<>>, <<>> >>
  /\ p.parameters = << 6, 128, 67, 16, 3, 16 >>

\* There are no other templates, whatever the policy.
LEMMA TemplateCases ==
  ASSUME NEW p \in TPMT_PUBLIC, [p EXCEPT !.auth_policy = <<>>] \in Templates
  PROVE  p.name_alg \in {SHA1, SHA256} /\ (Sealed(p) \/ Parent(p) \/ AesParent(p))
  <1> DEFINE q == [p EXCEPT !.auth_policy = <<>>]
  <1>1. /\ q.type_ = p.type_ /\ q.name_alg = p.name_alg /\ q.attributes = p.attributes
        /\ q.parameters = p.parameters /\ q.unique = p.unique
    BY DEF TPMT_PUBLIC
  <1> HIDE DEF q
  <1>2. PICK hash \in {SHA1, SHA256} : q \in {ecc_storage_parent(hash), EccParent(hash, null), SealedData(hash)}
    BY DEF Templates, q
  <1>3. CASE q = SealedData(hash)
    <2>1. q.name_alg = hash /\ Sealed(q)
      BY <1>3 DEF SealedData, Public, KeyedHash, Sealed, NULL
    <2> QED BY <1>1, <1>2, <2>1 DEF Sealed
  <1>4. CASE q = EccParent(hash, null)
    <2>1. Ecc(null, NULL, NIST_P256, NULL) = << 16, 16, 3, 16 >>
      <3> DEFINE s == << 16 >>
                 t == << 16, 3, 16 >>
                 u == s \o t
      <3>1. Ecc(null, NULL, NIST_P256, NULL) = u
        BY DEF Ecc, null, SymDefObject, NULL, NIST_P256
      <3>2. s \in Seq(Nat) /\ t \in Seq(Nat) /\ Len(s) = 1 /\ Len(t) = 3
        OBVIOUS
      <3>3. s[1] = 16 /\ t[1] = 16 /\ t[2] = 3 /\ t[3] = 16
        OBVIOUS
      <3> HIDE DEF s, t
      <3>4. /\ u \in Seq(Nat) /\ Len(u) = Len(s) + Len(t)
            /\ \A i \in 1 .. Len(s) : u[i] = s[i]
            /\ \A i \in 1 .. Len(t) : u[Len(s) + i] = t[i]
        BY <3>2, Cat
      <3> HIDE DEF u
      <3>5. u[1] = 16
        BY <3>2, <3>3, <3>4
      <3>6. u[2] = 16 /\ u[3] = 3 /\ u[4] = 16
        <4>1. 1 \in 1 .. 3 /\ 2 \in 1 .. 3 /\ 3 \in 1 .. 3 /\ 1 + 1 = 2 /\ 1 + 2 = 3 /\ 1 + 3 = 4
          OBVIOUS
        <4> QED BY <3>2, <3>3, <3>4, <4>1
      <3>7. u = << 16, 16, 3, 16 >>
        BY <3>2, <3>4, <3>5, <3>6
      <3> QED BY <3>1, <3>7
    <2>2. q.name_alg = hash /\ Parent(q)
      BY <1>4, <2>1 DEF EccParent, Public, Parent
    <2> QED BY <1>1, <1>2, <2>2 DEF Parent
  <1>5. CASE q = ecc_storage_parent(hash)
    <2>1. Ecc(aes128_cfb, NULL, NIST_P256, NULL) = << 6, 128, 67, 16, 3, 16 >>
      <3> DEFINE s == << 6, 128, 67 >>
                 t == << 16, 3, 16 >>
                 u == s \o t
      <3>1. Ecc(aes128_cfb, NULL, NIST_P256, NULL) = u
        BY DEF Ecc, aes128_cfb, SymDefObject, NULL, NIST_P256, AES, CFB
      <3>2. s \in Seq(Nat) /\ t \in Seq(Nat) /\ Len(s) = 3 /\ Len(t) = 3
        OBVIOUS
      <3>3. s[1] = 6 /\ s[2] = 128 /\ s[3] = 67 /\ t[1] = 16 /\ t[2] = 3 /\ t[3] = 16
        OBVIOUS
      <3> HIDE DEF s, t
      <3>4. /\ u \in Seq(Nat) /\ Len(u) = Len(s) + Len(t)
            /\ \A i \in 1 .. Len(s) : u[i] = s[i]
            /\ \A i \in 1 .. Len(t) : u[Len(s) + i] = t[i]
        BY <3>2, Cat
      <3> HIDE DEF u
      <3>5. u[1] = 6 /\ u[2] = 128 /\ u[3] = 67
        BY <3>2, <3>3, <3>4
      <3>6. u[4] = 16 /\ u[5] = 3 /\ u[6] = 16
        <4>1. 1 \in 1 .. 3 /\ 2 \in 1 .. 3 /\ 3 \in 1 .. 3 /\ 3 + 1 = 4 /\ 3 + 2 = 5 /\ 3 + 3 = 6
          OBVIOUS
        <4> QED BY <3>2, <3>3, <3>4, <4>1
      <3>7. u = << 6, 128, 67, 16, 3, 16 >>
        BY <3>2, <3>4, <3>5, <3>6
      <3> QED BY <3>1, <3>7
    <2>2. q.name_alg = hash /\ AesParent(q)
      BY <1>5, <2>1 DEF ecc_storage_parent, EccParent, Public, AesParent
    <2> QED BY <1>1, <1>2, <2>2 DEF AesParent
  <1> QED BY <1>2, <1>3, <1>4, <1>5

\* The i-th read got past s with the value v.
Follows(p, x, i, s, v) == p[i] = p[i - 1] + Len(s) /\ x[i] = v

\* The read of a string where it is known to be, by a series that succeeded.
LEMMA Known ==
  ASSUME NEW p, NEW x, NEW kinds, NEW n \in Nat, NEW buf \in Seq(Nat), NEW at, Succession(p, x, kinds, n, buf, at),
         NEW i \in 1 .. n, NEW s \in Seq(Nat), NEW v, Codes(kinds[i], s, v), Has(buf, p[i - 1], s)
  PROVE  Follows(p, x, i, s, v)
  <1> DEFINE to == p[i - 1]
             r == ReadPrimitive(kinds[i], buf, to)
  <1>1. to \in Nat /\ to <= Len(buf) /\ r.ok /\ r.at = p[i] /\ r.val = x[i]
    BY DEF Succession
  <1>2. Gives(r, buf, to, s, v)
    BY <1>1 DEF Codes
  <1> HIDE DEF r
  <1> HIDE DEF to
  <1>3. r = Read(TRUE, to + Len(s), v)
    BY <1>1, <1>2 DEF Gives
  <1>4. p[i] = to + Len(s) /\ x[i] = v
    BY <1>1, <1>3 DEF Read
  <1> QED BY <1>4 DEF to, Follows

\* What is given from the beginning to the end.
LEMMA Whole ==
  ASSUME NEW buf \in Seq(Nat), NEW r, NEW x, Gives(r, buf, 0, buf, x)
  PROVE  r = Read(TRUE, Len(buf), x)
  <1>1. Len(buf) \in Nat
    OBVIOUS
  <1>2. 0 + Len(buf) = Len(buf) /\ Len(buf) <= Len(buf)
    BY <1>1
  <1>3. r = Read(TRUE, 0 + Len(buf), x)
    BY <1>2 DEF Gives
  <1> QED BY <1>2, <1>3

\* A sized structure of two TPM2Bs, both of them there.
LEMMA TwoSized ==
  ASSUME NEW a \in Seq(Nat), NEW d \in Seq(Nat), Fits(a), Fits(d)
  PROVE  ReadSized(<< "tpm2b", "tpm2b" >>, Buffer(a) \o Buffer(d))
           = Read(TRUE, Len(Buffer(a) \o Buffer(d)), << a, d >>)
  <1> DEFINE s == Buffer(a)
             t == Buffer(d)
             u == s \o t
             k == "tpm2b"
             r == ReadFields(<< k, k >>, u, 0)
             zero == 0
  <1>1. s \in Seq(Nat) /\ t \in Seq(Nat) /\ Codes(k, s, a) /\ Codes(k, t, d)
    BY BufferIs, PrimitivesCode
  <1> HIDE DEF s, t, k
  <1>2. u \in Seq(Nat)
    BY <1>1, Cat
  <1> HIDE DEF u
  <1>3. zero \in Nat /\ zero <= Len(u) /\ zero + Len(u) = Len(u) /\ Has(u, zero, u)
    BY <1>2 DEF Has
  <1> HIDE DEF zero
  <1>4. Gives(ReadFields(<< k, k >>, u, zero), u, zero, s \o t, << a, d >>)
    <2>1. Has(u, zero, s \o t)
      BY <1>3 DEF u
    <2> QED BY <1>1, <1>2, <1>3, <2>1, PairGives
  <1>5. r = Read(TRUE, Len(u), << a, d >>)
    <2> DEFINE v == << a, d >>
               g == ReadFields(<< k, k >>, u, zero)
    <2>1. Gives(g, u, zero, u, v)
      BY <1>4 DEF u
    <2> HIDE DEF g, v
    <2>2. g = Read(TRUE, Len(u), v)
      BY <1>2, <2>1, Whole DEF zero
    <2> QED BY <2>2 DEF g, v, zero
  <1> DEFINE q == Read(r.at = Len(u), r.at, r.val)
  <1>6. ReadSized(<< k, k >>, u) = IF r.ok THEN q ELSE r
    BY Zenon DEF ReadSized, AndThen
  <1> HIDE DEF r
  <1>7. r.ok /\ r.at = Len(u) /\ r.val = << a, d >>
    BY <1>5 DEF Read
  <1>8. q = Read(TRUE, Len(u), << a, d >>)
    BY <1>7 DEF Read
  <1> HIDE DEF q
  <1> QED BY <1>6, <1>7, <1>8 DEF u, s, t, k

\* A series of reads takes two bytes for each, at least.
LEMMA Room ==
  ASSUME NEW p, NEW x, NEW kinds, NEW n \in Nat, NEW buf \in Seq(Nat), NEW at \in Nat,
         Succession(p, x, kinds, n, buf, at), \A i \in 1 .. n : kinds[i] \in {"u16", "u32", "tpm2b"},
         NEW j \in 0 .. n
  PROVE  p[j] \in Nat /\ p[n] \in Nat /\ p[j] + 2 * (n - j) <= p[n]
  <1> DEFINE S == {m \in Nat : j + m <= n => p[j] + 2 * m <= p[j + m]}
  <1>1. \A i \in 0 .. n : p[i] \in Nat
    <2> SUFFICES ASSUME NEW i \in 0 .. n PROVE p[i] \in Nat
      OBVIOUS
    <2>1. CASE i = 0
      BY <2>1 DEF Succession
    <2>2. CASE i # 0
      <3>1. i \in 1 .. n
        BY <2>2
      <3> QED BY <3>1 DEF Succession
    <2> QED BY <2>1, <2>2
  <1>2. 0 \in S
    <2>1. j + 0 = j /\ p[j] + 2 * 0 <= p[j]
      BY <1>1
    <2> QED BY <2>1
  <1>3. ASSUME NEW m \in Nat, m \in S PROVE m + 1 \in S
    <2> SUFFICES ASSUME j + (m + 1) <= n PROVE p[j] + 2 * (m + 1) <= p[j + (m + 1)]
      OBVIOUS
    <2> DEFINE i == j + (m + 1)
    <2>1. i \in 1 .. n /\ i - 1 = j + m /\ j + m \in 0 .. n /\ i \in 0 .. n
      OBVIOUS
    <2>2. p[j] + 2 * m <= p[j + m]
      BY <1>3, <2>1
    <2> HIDE DEF i, S
    <2>3. p[i] >= p[i - 1] + AtLeast[kinds[i]]
      BY <2>1 DEF Succession
    <2>4. AtLeast[kinds[i]] \in {2, 4}
      BY <2>1 DEF AtLeast
    <2>5. p[j] + 2 * (m + 1) <= p[i]
      <3> DEFINE w == AtLeast[kinds[i]]
                 from == p[j]
                 mid == p[j + m]
                 to == p[i]
      <3>1. from \in Nat /\ mid \in Nat /\ to \in Nat /\ w \in {2, 4} /\ from + 2 * m <= mid /\ to >= mid + w
        BY <1>1, <2>1, <2>2, <2>3, <2>4
      <3> HIDE DEF w, from, mid, to
      <3>2. from + 2 * (m + 1) <= to
        BY <3>1
      <3> QED BY <3>2 DEF from, to
    <2> QED BY <2>5 DEF i
  <1> HIDE DEF S
  <1>4. n - j \in S /\ n - j \in Nat /\ j + (n - j) = n
    <2>1. n - j \in Nat
      OBVIOUS
    <2>2. Nat \subseteq S
      BY <1>2, <1>3, Joined!NatSets
    <2>3. j + (n - j) = n
      OBVIOUS
    <2> QED BY <2>1, <2>2, <2>3
  <1>5. n \in 0 .. n
    OBVIOUS
  <1>6. p[j] + 2 * (n - j) <= p[n]
    BY <1>4 DEF S
  <1> QED BY <1>1, <1>5, <1>6

\* Of two TPM2Bs one was dropped, or both.
AtMostOne(s) == s = <<>> \/ \E e \in Seq(Nat) : Fits(e) /\ s = TPM2B(e)

-----------------------------------------------------------------------------
(* Parts that drop out.                                                    *)

\* Two buffers of which one does not fit are at most one TPM2B.
LEMMA OneDropped ==
  ASSUME NEW a \in Seq(Nat), NEW d \in Seq(Nat), ~Fits(a) \/ ~Fits(d)
  PROVE  Buffer(a) \o Buffer(d) \in Seq(Nat) /\ AtMostOne(Buffer(a) \o Buffer(d))
  <1> DEFINE s == Buffer(a)
             t == Buffer(d)
  <1>1. s \in Seq(Nat) /\ t \in Seq(Nat)
    BY BufferIs
  <1>2. s = <<>> \/ (Fits(a) /\ s = TPM2B(a))
    BY BufferIs
  <1>3. t = <<>> \/ (Fits(d) /\ t = TPM2B(d))
    BY BufferIs
  <1>4. s = <<>> \/ t = <<>>
    BY BufferIs
  <1> HIDE DEF s, t
  <1>5. AtMostOne(s) /\ AtMostOne(t)
    BY <1>2, <1>3 DEF AtMostOne
  <1>6. CASE s = <<>>
    <2>1. s \o t = t
      BY <1>1, <1>6, ConcatEmptySeq
    <2> QED BY <1>1, <1>5, <2>1 DEF s, t
  <1>7. CASE t = <<>>
    <2>1. s \o t = s
      BY <1>1, <1>7, ConcatEmptySeq
    <2> QED BY <1>1, <1>5, <2>1 DEF s, t
  <1> QED BY <1>4, <1>6, <1>7

\* Then a series of reads that begins with a TPM2B gets beyond what is left.
LEMMA Beyond ==
  ASSUME NEW s \in Seq(Nat), AtMostOne(s), NEW buf \in Seq(Nat), Has(buf, 0, s),
         NEW n \in Nat, n >= 1, NEW kinds, kinds[1] = "tpm2b",
         \A i \in 1 .. n : kinds[i] \in {"u16", "u32", "tpm2b"},
         NEW p, NEW x, Succession(p, x, kinds, n, buf, 0)
  PROVE  p[n] \in Nat /\ p[n] >= Len(s) + 2 * (n - 1)
  <1> DEFINE zero == 0
             one == 1
  <1>1. zero \in Nat /\ zero \in 0 .. n /\ one \in 1 .. n /\ one \in 0 .. n /\ one - 1 = zero /\ p[zero] = 0
    BY DEF Succession
  <1>2. Succession(p, x, kinds, n, buf, zero) /\ kinds[one] = "tpm2b" /\ Has(buf, zero, s)
    OBVIOUS
  <1> HIDE DEF zero, one
  <1>3. p[zero] + 2 * (n - zero) <= p[n] /\ p[n] \in Nat
    BY <1>1, <1>2, Room
  <1>4. p[one] + 2 * (n - one) <= p[n] /\ p[one] \in Nat
    BY <1>1, <1>2, Room
  <1>5. CASE s = <<>>
    <2>1. Len(s) = 0
      BY <1>5
    <2> QED BY <1>1, <1>3, <2>1 DEF zero
  <1>6. CASE s # <<>>
    <2>1. PICK e \in Seq(Nat) : Fits(e) /\ s = TPM2B(e)
      BY <1>6 DEF AtMostOne
    <2>2. Codes(kinds[one], s, e)
      BY <1>2, <2>1, PrimitivesCode
    <2>3. Has(buf, p[one - 1], s)
      BY <1>1, <1>2 DEF zero
    <2>4. p[one] = p[one - 1] + Len(s)
      <3>1. Follows(p, x, one, s, e)
        BY <1>1, <1>2, <2>2, <2>3, Known
      <3> QED BY <3>1 DEF Follows
    <2>5. p[one] = Len(s) /\ Len(s) \in Nat
      <3>1. Len(s) \in Nat
        OBVIOUS
      <3> QED BY <1>1, <2>4, <3>1
    <2> QED BY <1>3, <1>4, <2>5 DEF one
  <1> QED BY <1>5, <1>6

\* They are not read as two TPM2Bs that end where the string does.
LEMMA NotTwoSized ==
  ASSUME NEW a \in Seq(Nat), NEW d \in Seq(Nat), ~Fits(a) \/ ~Fits(d)
  PROVE  ~ReadSized(<< "tpm2b", "tpm2b" >>, Buffer(a) \o Buffer(d)).ok
  <1> DEFINE u == Buffer(a) \o Buffer(d)
             kinds == << "tpm2b", "tpm2b" >>
             r == ReadFields(kinds, u, 0)
             n == 2
             zero == 0
  <1>1. u \in Seq(Nat) /\ AtMostOne(u)
    BY OneDropped
  <1>2. n \in Nat /\ n >= 1 /\ DOMAIN kinds = 1 .. n /\ kinds[1] = "tpm2b"
    OBVIOUS
  <1>3. \A i \in 1 .. n : kinds[i] \in {"u16", "u32", "tpm2b"} /\ kinds[i] \in KindsOfPrimitives
    BY DEF KindsOfPrimitives
  <1> HIDE DEF u, kinds, n
  <1>4. zero \in Nat /\ zero <= Len(u)
    <2>1. Len(u) \in Nat
      BY <1>1
    <2> QED BY <2>1
  <1> HIDE DEF zero
  <1>5. ASSUME r.ok PROVE FALSE
    <2>1. ReadFields(kinds, u, zero).ok
      BY <1>5 DEF zero
    <2>2. PICK p, x : Succession(p, x, kinds, n, u, zero)
      BY <1>1, <1>2, <1>3, <1>4, <2>1, FieldsSucceed
    <2>3. Succession(p, x, kinds, n, u, 0) /\ Has(u, 0, u)
      BY <1>1, <2>2 DEF zero, Has
    <2>4. p[n] \in Nat /\ p[n] >= Len(u) + 2 * (n - 1)
      BY <1>1, <1>2, <1>3, <2>3, Beyond
    <2>5. p[n] <= Len(u)
      <3>1. n \in 1 .. n
        BY <1>2
      <3> QED BY <2>3, <3>1 DEF Succession
    <2>6. Len(u) \in Nat
      BY <1>1
    <2> QED BY <2>4, <2>5, <2>6 DEF n
  <1> DEFINE q == Read(r.at = Len(u), r.at, r.val)
  <1>6. ReadSized(kinds, u) = IF r.ok THEN q ELSE r
    BY Zenon DEF ReadSized, AndThen
  <1> HIDE DEF r, q
  <1> QED BY <1>5, <1>6 DEF u, kinds

\* The kinds of the fields of a TPMT_PUBLIC with m parameters and k identifiers.
PublicKinds(m, k) == << "u16", "u16", "u32", "tpm2b" >> \o Copies(m, "u16") \o Copies(k, "tpm2b")

\* Which field is where.
KindAt(m, i) == IF i <= 4 THEN << "u16", "u16", "u32", "tpm2b" >>[i] ELSE IF i <= 4 + m THEN "u16" ELSE "tpm2b"

\* The fields of a TPMT_PUBLIC by their places.
LEMMA KindsAre ==
  ASSUME NEW m \in Nat, NEW k \in Nat
  PROVE  /\ DOMAIN PublicKinds(m, k) = 1 .. 4 + m + k
         /\ \A i \in 1 .. 4 + m + k : PublicKinds(m, k)[i] = KindAt(m, i)
  <1> DEFINE S == {"u16", "u32", "tpm2b"}
             a == << "u16", "u16", "u32", "tpm2b" >>
             b == Copies(m, "u16")
             c == Copies(k, "tpm2b")
             ab == a \o b
             abc == ab \o c
  <1>1. /\ a \in Seq(S) /\ Len(a) = 4
        /\ b \in Seq(S) /\ Len(b) = m /\ \A i \in 1 .. m : b[i] = "u16"
        /\ c \in Seq(S) /\ Len(c) = k /\ \A i \in 1 .. k : c[i] = "tpm2b"
    BY DEF Copies
  <1>2. PublicKinds(m, k) = abc
    BY DEF PublicKinds
  <1>3. \A i \in 1 .. 4 : KindAt(m, i) = a[i]
    BY DEF KindAt
  <1> HIDE DEF S, a, b, c
  <1>4. /\ ab \in Seq(S) /\ Len(ab) = 4 + m
        /\ \A i \in 1 .. 4 + m : ab[i] = IF i <= 4 THEN a[i] ELSE b[i - 4]
    <2>1. /\ ab \in Seq(S) /\ Len(ab) = Len(a) + Len(b)
          /\ \A i \in 1 .. Len(a) + Len(b) : ab[i] = IF i <= Len(a) THEN a[i] ELSE b[i - Len(a)]
      <3>1. a \in Seq(S) /\ b \in Seq(S)
        BY <1>1
      <3>2. ab \in Seq(S)
        BY <3>1, ConcatProperties
      <3>3. Len(ab) = Len(a) + Len(b)
        BY <3>1, ConcatProperties
      <3>4. \A i \in 1 .. Len(a) + Len(b) : ab[i] = IF i <= Len(a) THEN a[i] ELSE b[i - Len(a)]
        BY <3>1, ConcatProperties
      <3> QED BY <3>2, <3>3, <3>4
    <2> HIDE DEF ab
    <2> QED BY <1>1, <2>1
  <1> HIDE DEF ab
  <1>5. /\ abc \in Seq(S) /\ Len(abc) = 4 + m + k
        /\ \A i \in 1 .. 4 + m + k : abc[i] = IF i <= 4 + m THEN ab[i] ELSE c[i - (4 + m)]
    <2>1. /\ abc \in Seq(S) /\ Len(abc) = Len(ab) + Len(c)
          /\ \A i \in 1 .. Len(ab) + Len(c) : abc[i] = IF i <= Len(ab) THEN ab[i] ELSE c[i - Len(ab)]
      <3>1. ab \in Seq(S) /\ c \in Seq(S)
        BY <1>1, <1>4
      <3> QED BY <3>1, ConcatProperties
    <2> HIDE DEF abc
    <2> QED BY <1>1, <1>4, <2>1
  <1> HIDE DEF abc
  <1>6. ASSUME NEW i \in 1 .. 4 + m + k PROVE abc[i] = KindAt(m, i)
    <2>1. CASE i <= 4
      <3>1. i \in 1 .. 4 /\ i <= 4 + m /\ i \in 1 .. 4 + m
        BY <2>1
      <3> QED BY <1>3, <1>4, <1>5, <3>1
    <2>2. CASE ~(i <= 4) /\ i <= 4 + m
      <3>1. i \in 1 .. 4 + m /\ i - 4 \in 1 .. m
        BY <2>2
      <3>2. abc[i] = b[i - 4]
        BY <1>4, <1>5, <2>2, <3>1
      <3> QED BY <1>1, <2>2, <3>1, <3>2 DEF KindAt
    <2>3. CASE ~(i <= 4) /\ ~(i <= 4 + m)
      <3>1. i - (4 + m) \in 1 .. k
        BY <2>3
      <3> QED BY <1>1, <1>5, <2>3, <3>1 DEF KindAt
    <2>4. i <= 4 => i <= 4 + m
      OBVIOUS
    <2> QED BY <2>1, <2>2, <2>3
  <1>7. DOMAIN abc = 1 .. 4 + m + k
    BY <1>5
  <1> QED BY <1>2, <1>6, <1>7

\* All of them are UINT16s, UINT32s or TPM2Bs.
LEMMA KindsAreThese ==
  ASSUME NEW m \in Nat, NEW k \in Nat, NEW i \in 1 .. 4 + m + k
  PROVE  PublicKinds(m, k)[i] \in {"u16", "u32", "tpm2b"} /\ PublicKinds(m, k)[i] \in KindsOfPrimitives
  <1>1. KindAt(m, i) \in {"u16", "u32", "tpm2b"}
    <2>1. CASE i <= 4
      <3>1. i \in {1, 2, 3, 4}
        BY <2>1
      <3> QED BY <2>1, <3>1 DEF KindAt
    <2>2. CASE ~(i <= 4)
      BY <2>2 DEF KindAt
    <2> QED BY <2>1, <2>2
  <1> QED BY <1>1, KindsAre DEF KindsOfPrimitives

\* The strings a TPMT_PUBLIC is made of, and what the TPM reads in their place.
Heads(p) == << u16(p.type_), u16(p.name_alg), u32(p.attributes), Buffer(p.auth_policy) >>

\* Its parameters and its unique buffers.
Parms(p) == [i \in DOMAIN p.parameters |-> u16(p.parameters[i])]
Ids(p) == [i \in DOMAIN p.unique |-> Buffer(p.unique[i])]

\* What MarshalPublic puts in the TPM2B.
Inner(p) ==
  u16(p.type_) \o u16(p.name_alg) \o u32(p.attributes) \o Buffer(p.auth_policy) \o Concat(Parms(p)) \o Concat(Ids(p))

\* A TPMT_PUBLIC made of one of the templates, its arrays of these sizes.
MadeOf(p, m, k) ==
  /\ p \in TPMT_PUBLIC /\ p.type_ \in 0 .. UINT16_MAX /\ p.name_alg \in 0 .. UINT16_MAX
  /\ p.attributes \in 0 .. UINT32_MAX
  /\ p.parameters \in Seq(0 .. UINT16_MAX) /\ Len(p.parameters) = m
  /\ p.unique \in Seq({<<>>}) /\ Len(p.unique) = k

\* How many parameters and buffers each template has; all fit.
LEMMA TemplatesAreSmall ==
  ASSUME NEW p \in TPMT_PUBLIC, p.name_alg \in {SHA1, SHA256}
  PROVE  /\ Sealed(p) => MadeOf(p, 1, 1)
         /\ Parent(p) => MadeOf(p, 4, 2)
         /\ AesParent(p) => MadeOf(p, 6, 2)
  <1>1. p.name_alg \in 0 .. UINT16_MAX
    BY Base DEF SHA1, SHA256
  <1>2. KEYEDHASH \in 0 .. UINT16_MAX /\ ECC \in 0 .. UINT16_MAX
    BY Small DEF KEYEDHASH, ECC
  <1>3. sealed_data \in 0 .. UINT32_MAX /\ storage_parent \in 0 .. UINT32_MAX
    BY Base DEF sealed_data, storage_parent, FIXED_TPM, FIXED_PARENT, SENSITIVE_DATA_ORIGIN, USER_WITH_AUTH,
                RESTRICTED, DECRYPT
  <1>4. /\ << 16 >> \in Seq(0 .. UINT16_MAX) /\ Len(<< 16 >>) = 1
        /\ << 16, 16, 3, 16 >> \in Seq(0 .. UINT16_MAX) /\ Len(<< 16, 16, 3, 16 >>) = 4
        /\ << 6, 128, 67, 16, 3, 16 >> \in Seq(0 .. UINT16_MAX) /\ Len(<< 6, 128, 67, 16, 3, 16 >>) = 6
    <2>1. 16 \in 0 .. UINT16_MAX /\ 3 \in 0 .. UINT16_MAX /\ 6 \in 0 .. UINT16_MAX /\ 128 \in 0 .. UINT16_MAX
          /\ 67 \in 0 .. UINT16_MAX
      BY Base
    <2> DEFINE U == 0 .. UINT16_MAX
    <2>2. 16 \in U /\ 3 \in U /\ 6 \in U /\ 128 \in U /\ 67 \in U
      BY <2>1
    <2> HIDE DEF U
    <2>3. /\ << 16 >> \in Seq(U) /\ Len(<< 16 >>) = 1
          /\ << 16, 16, 3, 16 >> \in Seq(U) /\ Len(<< 16, 16, 3, 16 >>) = 4
          /\ << 6, 128, 67, 16, 3, 16 >> \in Seq(U) /\ Len(<< 6, 128, 67, 16, 3, 16 >>) = 6
      BY <2>2
    <2> QED BY <2>3 DEF U
  <1>5. << <<>> >> \in Seq({<<>>}) /\ Len(<< <<>> >>) = 1 /\ << <<>>, <<>> >> \in Seq({<<>>}) /\ Len(<< <<>>, <<>> >>) = 2
    OBVIOUS
  <1>6. ASSUME Sealed(p) PROVE MadeOf(p, 1, 1)
    BY <1>1, <1>2, <1>3, <1>4, <1>5, <1>6 DEF Sealed, MadeOf
  <1>7. ASSUME Parent(p) PROVE MadeOf(p, 4, 2)
    BY <1>1, <1>2, <1>3, <1>4, <1>5, <1>7 DEF Parent, MadeOf
  <1>8. ASSUME AesParent(p) PROVE MadeOf(p, 6, 2)
    BY <1>1, <1>2, <1>3, <1>4, <1>5, <1>8 DEF AesParent, MadeOf
  <1> QED BY <1>6, <1>7, <1>8

\* The parts are byte strings.
LEMMA PartsAre ==
  ASSUME NEW p, NEW m \in Nat, NEW k \in Nat, MadeOf(p, m, k)
  PROVE  /\ Heads(p) \in Seq(Seq(Nat)) /\ Len(Heads(p)) = 4
         /\ Parms(p) \in Seq(Seq(Nat)) /\ Len(Parms(p)) = m
         /\ \A i \in 1 .. m : Parms(p)[i] = u16(p.parameters[i]) /\ p.parameters[i] \in 0 .. UINT16_MAX
         /\ Ids(p) \in Seq(Seq(Nat)) /\ Len(Ids(p)) = k
         /\ \A i \in 1 .. k : Ids(p)[i] = TPM2B(<<>>) /\ p.unique[i] = <<>>
         /\ p.auth_policy \in Seq(Nat)
  <1>1. u16(p.type_) \in Seq(Nat) /\ u16(p.name_alg) \in Seq(Nat) /\ u32(p.attributes) \in Seq(Nat)
    BY U16, U32 DEF MadeOf
  <1>2. p.auth_policy \in Seq(Nat) /\ Buffer(p.auth_policy) \in Seq(Nat)
    <2>1. p.auth_policy \in Seq(Nat)
      BY DEF MadeOf, TPMT_PUBLIC, Bytes
    <2> QED BY <2>1, BufferIs
  <1>3. Heads(p) \in Seq(Seq(Nat)) /\ Len(Heads(p)) = 4
    BY <1>1, <1>2 DEF Heads
  <1>4. /\ Parms(p) \in Seq(Seq(Nat)) /\ Len(Parms(p)) = m
        /\ \A i \in 1 .. m : Parms(p)[i] = u16(p.parameters[i]) /\ p.parameters[i] \in 0 .. UINT16_MAX
    <2> DEFINE v == p.parameters
               strs == [i \in 1 .. m |-> u16(v[i])]
    <2>1. v \in Seq(0 .. UINT16_MAX) /\ Len(v) = m
      BY DEF MadeOf
    <2>2. DOMAIN v = 1 .. m /\ \A i \in 1 .. m : v[i] \in 0 .. UINT16_MAX
      <3> DEFINE U == 0 .. UINT16_MAX
      <3>1. v \in Seq(U)
        BY <2>1
      <3> HIDE DEF v, U
      <3>2. DOMAIN v = 1 .. m /\ \A i \in 1 .. m : v[i] \in U
        BY <2>1, <3>1
      <3> QED BY <3>2 DEF U
    <2>3. Parms(p) = strs
      BY <2>2 DEF Parms
    <2> HIDE DEF v
    <2>4. \A i \in 1 .. m : u16(v[i]) \in Seq(Nat)
      BY <2>2, U16
    <2>5. strs \in Seq(Seq(Nat)) /\ Len(strs) = m /\ \A i \in 1 .. m : strs[i] = u16(v[i])
      BY <2>4
    <2> HIDE DEF strs
    <2> QED BY <2>2, <2>3, <2>5 DEF v
  <1>5. /\ Ids(p) \in Seq(Seq(Nat)) /\ Len(Ids(p)) = k
        /\ \A i \in 1 .. k : Ids(p)[i] = TPM2B(<<>>) /\ p.unique[i] = <<>>
    <2> DEFINE v == p.unique
               strs == [i \in 1 .. k |-> Buffer(v[i])]
               none == <<>>
    <2>1. v \in Seq({none}) /\ Len(v) = k
      BY DEF MadeOf
    <2>2. DOMAIN v = 1 .. k /\ \A i \in 1 .. k : v[i] = none
      <3> HIDE DEF v, none
      <3> QED BY <2>1
    <2>3. Ids(p) = strs
      BY <2>2 DEF Ids
    <2>4. none \in Seq(Nat) /\ Fits(none)
      <3>1. none \in Seq(Nat) /\ Len(none) = 0
        OBVIOUS
      <3> HIDE DEF none
      <3> QED BY <3>1, Base DEF Fits
    <2> HIDE DEF v, none
    <2>5. Buffer(none) = TPM2B(none) /\ Buffer(none) \in Seq(Nat)
      BY <2>4, BufferIs
    <2>6. \A i \in 1 .. k : Buffer(v[i]) \in Seq(Nat) /\ Buffer(v[i]) = TPM2B(none)
      BY <2>2, <2>5
    <2>7. strs \in Seq(Seq(Nat)) /\ Len(strs) = k /\ \A i \in 1 .. k : strs[i] = TPM2B(none)
      BY <2>6
    <2> HIDE DEF strs
    <2> QED BY <2>2, <2>3, <2>7 DEF v, none
  <1> QED BY <1>2, <1>3, <1>4, <1>5

\* All parts, in order.
Parts(p) == (Heads(p) \o Parms(p)) \o Ids(p)

\* What is in the TPM2B is the parts one behind the other.
LEMMA InnerIs ==
  ASSUME NEW p, NEW m \in Nat, NEW k \in Nat, MadeOf(p, m, k)
  PROVE  /\ Inner(p) \in Seq(Nat) /\ Inner(p) = Concat(Parts(p))
         /\ Parts(p) \in Seq(Seq(Nat)) /\ Len(Parts(p)) = 4 + m + k
         /\ \A i \in 1 .. 4 + m + k :
              Parts(p)[i] = IF i <= 4 THEN Heads(p)[i] ELSE IF i <= 4 + m THEN Parms(p)[i - 4] ELSE Ids(p)[i - (4 + m)]
         /\ Concat(Parms(p)) \in Seq(Nat) /\ Concat(Ids(p)) \in Seq(Nat)
         /\ MarshalPublic(p) = Buffer(Inner(p))
  <1> DEFINE h == Heads(p)
             a == Parms(p)
             b == Ids(p)
             ha == h \o a
             hab == ha \o b
  <1>1. /\ h \in Seq(Seq(Nat)) /\ Len(h) = 4 /\ a \in Seq(Seq(Nat)) /\ Len(a) = m
        /\ b \in Seq(Seq(Nat)) /\ Len(b) = k
    BY PartsAre
  <1>2. Concat(h) = h[1] \o h[2] \o h[3] \o h[4]
    <2>1. DOMAIN h = 1 .. 4 /\ h[1] \in Seq(Nat)
      <3> DEFINE U == Seq(Nat)
      <3>1. h \in Seq(U) /\ Len(h) = 4
        BY <1>1
      <3> HIDE DEF h, U
      <3>2. DOMAIN h = 1 .. 4 /\ h[1] \in U
        BY <3>1
      <3> QED BY <3>2 DEF U
    <2> HIDE DEF h
    <2> QED BY <2>1, ConcatFour
  <1>3. Inner(p) = Concat(h) \o Concat(a) \o Concat(b)
    <2>1. h[1] = u16(p.type_) /\ h[2] = u16(p.name_alg) /\ h[3] = u32(p.attributes) /\ h[4] = Buffer(p.auth_policy)
      BY DEF Heads
    <2> HIDE DEF h, a, b
    <2> QED BY <1>2, <2>1 DEF Inner, a, b
  <1>4. MarshalPublic(p) = Buffer(Inner(p))
    BY DEF MarshalPublic, Inner, Concatenated, Parms, Ids
  <1> HIDE DEF h, a, b
  <1>5. ha \in Seq(Seq(Nat)) /\ Concat(h) \in Seq(Nat) /\ Concat(a) \in Seq(Nat) /\ Concat(ha) = Concat(h) \o Concat(a)
    BY <1>1, ConcatCat
  <1>6. /\ Len(ha) = 4 + m
        /\ \A i \in 1 .. 4 + m : ha[i] = IF i <= 4 THEN h[i] ELSE a[i - 4]
    <2>1. /\ Len(ha) = Len(h) + Len(a)
          /\ \A i \in 1 .. Len(h) + Len(a) : ha[i] = IF i <= Len(h) THEN h[i] ELSE a[i - Len(h)]
      BY <1>1, ConcatProperties
    <2> HIDE DEF ha
    <2> QED BY <1>1, <2>1
  <1> HIDE DEF ha
  <1>7. hab \in Seq(Seq(Nat)) /\ Concat(b) \in Seq(Nat) /\ Concat(hab) = Concat(ha) \o Concat(b)
    BY <1>1, <1>5, ConcatCat
  <1>8. /\ Len(hab) = 4 + m + k
        /\ \A i \in 1 .. 4 + m + k : hab[i] = IF i <= 4 + m THEN ha[i] ELSE b[i - (4 + m)]
    <2>1. /\ Len(hab) = Len(ha) + Len(b)
          /\ \A i \in 1 .. Len(ha) + Len(b) : hab[i] = IF i <= Len(ha) THEN ha[i] ELSE b[i - Len(ha)]
      <3>1. ha \in Seq(Seq(Nat)) /\ b \in Seq(Seq(Nat))
        BY <1>1, <1>5
      <3> QED BY <3>1, ConcatProperties
    <2> HIDE DEF hab
    <2> QED BY <1>1, <1>6, <2>1
  <1>9. Concat(hab) \in Seq(Nat)
    BY <1>7, ConcatCat
  <1>10. Parts(p) = hab
    BY DEF Parts, hab, ha, h, a, b
  <1> HIDE DEF hab
  <1>11. ASSUME NEW i \in 1 .. 4 + m + k
         PROVE  hab[i] = IF i <= 4 THEN h[i] ELSE IF i <= 4 + m THEN a[i - 4] ELSE b[i - (4 + m)]
    <2>1. i <= 4 => i <= 4 + m
      OBVIOUS
    <2>2. i <= 4 + m => i \in 1 .. 4 + m
      OBVIOUS
    <2> QED BY <1>6, <1>8, <2>1, <2>2
  <1>12. Inner(p) = Concat(hab)
    BY <1>3, <1>5, <1>7
  <1> QED BY <1>4, <1>5, <1>7, <1>8, <1>9, <1>10, <1>11, <1>12 DEF h, a, b

\* The value read for each part.
ValueAt(p, m, i) ==
  IF i <= 4 THEN << << p.type_ >>, << p.name_alg >>, << p.attributes >>, p.auth_policy >>[i]
  ELSE IF i <= 4 + m THEN << p.parameters[i - 4] >> ELSE p.unique[i - (4 + m)]

\* All of them.
Vals(p, m, k) == [i \in 1 .. 4 + m + k |-> ValueAt(p, m, i)]

\* Each part is read as it was written, an oversized policy excepted.
LEMMA PartsCode ==
  ASSUME NEW p, NEW m \in Nat, NEW k \in Nat, MadeOf(p, m, k), NEW i \in 1 .. 4 + m + k, i = 4 => Fits(p.auth_policy)
  PROVE  Codes(PublicKinds(m, k)[i], Parts(p)[i], ValueAt(p, m, i))
  <1> DEFINE kind == PublicKinds(m, k)[i]
             s == Parts(p)[i]
             v == ValueAt(p, m, i)
  <1>1. kind = KindAt(m, i)
    BY KindsAre
  <1>2. s = IF i <= 4 THEN Heads(p)[i] ELSE IF i <= 4 + m THEN Parms(p)[i - 4] ELSE Ids(p)[i - (4 + m)]
    BY InnerIs
  <1>3. p.type_ \in 0 .. UINT16_MAX /\ p.name_alg \in 0 .. UINT16_MAX /\ p.attributes \in 0 .. UINT32_MAX
    BY DEF MadeOf
  <1> HIDE DEF s, kind
  <1>4. CASE i \in {1, 2, 3}
    <2>1. CASE i = 1
      <3>1. kind = "u16" /\ s = u16(p.type_) /\ v = << p.type_ >>
        BY <1>1, <1>2, <2>1 DEF KindAt, Heads, ValueAt
      <3> HIDE DEF v
      <3> QED BY <1>3, <3>1, PrimitivesCode DEF kind, s, v
    <2>2. CASE i = 2
      <3>1. kind = "u16" /\ s = u16(p.name_alg) /\ v = << p.name_alg >>
        BY <1>1, <1>2, <2>2 DEF KindAt, Heads, ValueAt
      <3> HIDE DEF v
      <3> QED BY <1>3, <3>1, PrimitivesCode DEF kind, s, v
    <2>3. CASE i = 3
      <3>1. kind = "u32" /\ s = u32(p.attributes) /\ v = << p.attributes >>
        BY <1>1, <1>2, <2>3 DEF KindAt, Heads, ValueAt
      <3> HIDE DEF v
      <3> QED BY <1>3, <3>1, PrimitivesCode DEF kind, s, v
    <2> QED BY <1>4, <2>1, <2>2, <2>3
  <1>5. CASE i = 4
    <2>1. kind = "tpm2b" /\ s = Buffer(p.auth_policy) /\ v = p.auth_policy
      BY <1>1, <1>2, <1>5 DEF KindAt, Heads, ValueAt
    <2>2. p.auth_policy \in Seq(Nat) /\ s = TPM2B(p.auth_policy)
      BY <1>5, <2>1, PartsAre, BufferIs
    <2> HIDE DEF v
    <2> QED BY <1>5, <2>1, <2>2, PrimitivesCode DEF kind, s, v
  <1>6. CASE ~(i <= 4) /\ i <= 4 + m
    <2>1. i - 4 \in 1 .. m
      BY <1>6
    <2> DEFINE n == p.parameters[i - 4]
    <2>2. n \in 0 .. UINT16_MAX /\ Parms(p)[i - 4] = u16(n)
      BY <2>1, PartsAre
    <2>3. kind = "u16" /\ s = u16(n) /\ v = << n >>
      BY <1>1, <1>2, <1>6, <2>2 DEF KindAt, ValueAt
    <2> HIDE DEF v, n
    <2> QED BY <2>2, <2>3, PrimitivesCode DEF kind, s, v
  <1>7. CASE ~(i <= 4) /\ ~(i <= 4 + m)
    <2>1. i - (4 + m) \in 1 .. k
      BY <1>7
    <2> DEFINE none == <<>>
    <2>2. p.unique[i - (4 + m)] = none /\ Ids(p)[i - (4 + m)] = TPM2B(none)
      BY <2>1, PartsAre
    <2>3. kind = "tpm2b" /\ s = TPM2B(none) /\ v = none
      BY <1>1, <1>2, <1>7, <2>2 DEF KindAt, ValueAt
    <2>4. none \in Seq(Nat) /\ Fits(none)
      <3>1. none \in Seq(Nat) /\ Len(none) = 0
        OBVIOUS
      <3> HIDE DEF none
      <3> QED BY <3>1, Base DEF Fits
    <2> HIDE DEF v, none
    <2> QED BY <2>3, <2>4, PrimitivesCode DEF kind, s, v
  <1>8. i \in {1, 2, 3} \/ i = 4 \/ ~(i <= 4)
    OBVIOUS
  <1> QED BY <1>4, <1>5, <1>6, <1>7, <1>8

\* A TPMT_PUBLIC with its policy is read as it was written.
LEMMA PublicFields ==
  ASSUME NEW p, NEW m \in Nat, NEW k \in Nat, MadeOf(p, m, k), Fits(p.auth_policy)
  PROVE  ReadFields(PublicKinds(m, k), Inner(p), 0) = Read(TRUE, Len(Inner(p)), Vals(p, m, k))
  <1> DEFINE kinds == PublicKinds(m, k)
             strs == Parts(p)
             vals == Vals(p, m, k)
             u == Inner(p)
             n == 4 + m + k
             zero == 0
             r == ReadFields(kinds, u, zero)
  <1>1. u \in Seq(Nat) /\ u = Concat(strs) /\ strs \in Seq(Seq(Nat)) /\ Len(strs) = n
    BY InnerIs
  <1>2. DOMAIN kinds = 1 .. n /\ n \in Nat
    BY KindsAre
  <1>3. \A i \in 1 .. n : vals[i] = ValueAt(p, m, i)
    BY DEF Vals
  <1>4. vals = [i \in 1 .. n |-> vals[i]]
    BY DEF Vals
  <1>5. \A i \in 1 .. n : Codes(kinds[i], strs[i], vals[i])
    <2> SUFFICES ASSUME NEW i \in 1 .. n PROVE Codes(kinds[i], strs[i], vals[i])
      OBVIOUS
    <2>1. Codes(PublicKinds(m, k)[i], Parts(p)[i], ValueAt(p, m, i))
      BY PartsCode
    <2> HIDE DEF vals
    <2> QED BY <1>3, <2>1
  <1> HIDE DEF kinds, strs, vals, u, n
  <1>6. zero \in Nat /\ zero <= Len(u) /\ Has(u, zero, u)
    <2>1. Len(u) \in Nat
      BY <1>1
    <2> QED BY <1>1, <2>1 DEF Has
  <1> HIDE DEF zero
  <1>7. Has(u, zero, Concat(strs))
    BY <1>1, <1>6
  <1>8. Gives(r, u, zero, Concat(strs), [i \in 1 .. n |-> vals[i]])
    BY <1>1, <1>2, <1>5, <1>6, <1>7, FieldsGive
  <1>9. Gives(r, u, zero, u, vals)
    BY <1>1, <1>4, <1>8
  <1> HIDE DEF r
  <1>10. r = Read(TRUE, Len(u), vals)
    BY <1>1, <1>9, Whole DEF zero
  <1> QED BY <1>10 DEF r, zero, kinds, u, vals

\* The layouts a TPM knows, written out.
SealedLayout(l) == l.type_ = KEYEDHASH /\ l.parms = 1 /\ l.ids = 1 /\ DOMAIN l.selectors = {1} /\ l.selectors[1] = 16

\* Its layouts of a parent, without and with AES.
ParentLayout(l) ==
  /\ l.type_ = ECC /\ l.parms = 4 /\ l.ids = 2
  /\ DOMAIN l.selectors = {1, 2, 4} /\ l.selectors[1] = 16 /\ l.selectors[2] = 16 /\ l.selectors[4] = 16

\* With AES, the first selector is that algorithm's.
AesLayout(l) ==
  /\ l.type_ = ECC /\ l.parms = 6 /\ l.ids = 2
  /\ DOMAIN l.selectors = {1, 4, 6} /\ l.selectors[1] = 6 /\ l.selectors[4] = 16 /\ l.selectors[6] = 16

\* There are no other layouts.
LEMMA Layouts ==
  /\ \A l \in PublicLayouts : SealedLayout(l) \/ ParentLayout(l) \/ AesLayout(l)
  /\ \E l \in PublicLayouts : SealedLayout(l)
  /\ \E l \in PublicLayouts : ParentLayout(l)
  /\ \E l \in PublicLayouts : AesLayout(l)
  <1> DEFINE s1 == [i \in {1} |-> NULL]
             s2 == [i \in {1, 2, 4} |-> NULL]
             s3 == [i \in {1, 4, 6} |-> IF i = 1 THEN AES ELSE NULL]
             l1 == [type_ |-> KEYEDHASH, parms |-> 1, ids |-> 1, selectors |-> s1]
             l2 == [type_ |-> ECC, parms |-> 4, ids |-> 2, selectors |-> s2]
             l3 == [type_ |-> ECC, parms |-> 6, ids |-> 2, selectors |-> s3]
  <1>1. DOMAIN s1 = {1} /\ s1[1] = 16
    BY DEF NULL
  <1>2. DOMAIN s2 = {1, 2, 4} /\ s2[1] = 16 /\ s2[2] = 16 /\ s2[4] = 16
    BY DEF NULL
  <1>3. DOMAIN s3 = {1, 4, 6} /\ s3[1] = 6 /\ s3[4] = 16 /\ s3[6] = 16
    BY DEF NULL, AES
  <1>4. PublicLayouts = {l1, l2, l3}
    BY DEF PublicLayouts
  <1> HIDE DEF s1, s2, s3
  <1>5. SealedLayout(l1) /\ ParentLayout(l2) /\ AesLayout(l3)
    BY <1>1, <1>2, <1>3 DEF SealedLayout, ParentLayout, AesLayout
  <1> HIDE DEF l1, l2, l3
  <1> QED BY <1>4, <1>5

\* What the reading of one TPMT_PUBLIC as another finds first.
FoundFirst(p, q, x) ==
  /\ x[1] = << p.type_ >>
  /\ Fits(p.auth_policy) => x[5] = << p.parameters[1] >>
  /\ ~Fits(p.auth_policy) => q[4] = 10 + p.parameters[1]

\* Whatever the layout, type and first parameter are read where they were written.
LEMMA FirstReads ==
  ASSUME NEW p, NEW m \in Nat, NEW k \in Nat, m >= 1, MadeOf(p, m, k),
         NEW a \in Nat, NEW b \in Nat, a >= 1, NEW q, NEW x,
         Succession(q, x, PublicKinds(a, b), 4 + a + b, Inner(p), 0)
  PROVE  FoundFirst(p, q, x)
  <1> DEFINE u == Inner(p)
             strs == Parts(p)
             n == 4 + a + b
             kinds == PublicKinds(a, b)
             e(i) == Len(Upto(strs, i))
             zero == 0
  <1>1. u \in Seq(Nat) /\ u = Concat(strs) /\ strs \in Seq(Seq(Nat)) /\ Len(strs) = 4 + m + k
    BY InnerIs
  <1>2. \A i \in 1 .. 5 : /\ i \in 1 .. 4 + m + k /\ i \in 1 .. n /\ i \in 1 .. Len(strs)
                          /\ i <= 4 + m /\ i <= 4 + a
    BY <1>1
  <1>3. \A i \in 1 .. 5 : kinds[i] = PublicKinds(m, k)[i]
    <2> SUFFICES ASSUME NEW i \in 1 .. 5 PROVE kinds[i] = PublicKinds(m, k)[i]
      OBVIOUS
    <2>1. kinds[i] = KindAt(a, i) /\ PublicKinds(m, k)[i] = KindAt(m, i)
      BY <1>2, KindsAre
    <2> QED BY <1>2, <2>1 DEF KindAt
  <1> HIDE DEF n, kinds
  <1>4. \A i \in 1 .. 5 : i # 4 \/ Fits(p.auth_policy) => Codes(kinds[i], strs[i], ValueAt(p, m, i))
    <2> SUFFICES ASSUME NEW i \in 1 .. 5, i # 4 \/ Fits(p.auth_policy)
                 PROVE  Codes(kinds[i], strs[i], ValueAt(p, m, i))
      OBVIOUS
    <2>1. i \in 1 .. 4 + m + k
      BY <1>2
    <2>2. i = 4 => Fits(p.auth_policy)
      OBVIOUS
    <2>3. Codes(PublicKinds(m, k)[i], Parts(p)[i], ValueAt(p, m, i))
      BY <2>1, <2>2, PartsCode
    <2> QED BY <1>3, <2>3
  <1>5. \A i \in 1 .. 5 : strs[i] \in Seq(Nat)
    <2> SUFFICES ASSUME NEW i \in 1 .. 5 PROVE strs[i] \in Seq(Nat)
      OBVIOUS
    <2>1. i \in 1 .. Len(strs)
      BY <1>2
    <2> HIDE DEF strs
    <2> QED BY <1>1, <2>1
  <1>6. Upto(strs, 0) = <<>> /\ \A i \in 1 .. Len(strs) : e(i) = e(i - 1) + Len(strs[i])
    BY <1>1, Pieces
  <1>7. Succession(q, x, kinds, n, u, zero) /\ n \in Nat /\ q[0] = 0
    BY DEF kinds, n, Succession
  <1> HIDE DEF u, strs
  <1>8. \A i \in 1 .. Len(strs) : Has(u, e(i - 1), strs[i])
    <2>1. zero \in Nat /\ Has(u, zero, Concat(strs))
      BY <1>1 DEF Has
    <2>2. ASSUME NEW i \in 0 .. Len(strs) PROVE e(i) \in Nat
      <3>1. Upto(strs, i) \in Seq(Nat)
        BY <1>1, Pieces
      <3> QED BY <3>1
    <2> HIDE DEF zero
    <2>3. \A i \in 1 .. Len(strs) : Has(u, zero + e(i - 1), strs[i])
      BY <1>1, <2>1, HasPieces
    <2> SUFFICES ASSUME NEW i \in 1 .. Len(strs) PROVE Has(u, e(i - 1), strs[i])
      OBVIOUS
    <2>4. i - 1 \in 0 .. Len(strs)
      BY <1>1
    <2>5. zero + e(i - 1) = e(i - 1)
      BY <2>2, <2>4 DEF zero
    <2> QED BY <2>3, <2>5
  <1> HIDE DEF e, zero
  <1>9. e(0) = 0
    BY <1>6 DEF e
  <1>10. ASSUME NEW i \in 1 .. 5, i # 4 \/ Fits(p.auth_policy), q[i - 1] = e(i - 1)
         PROVE  q[i] = e(i) /\ x[i] = ValueAt(p, m, i)
    <2> DEFINE v == ValueAt(p, m, i)
               s == strs[i]
    <2>1. i \in 1 .. n /\ s \in Seq(Nat) /\ Codes(kinds[i], s, v) /\ Has(u, q[i - 1], s)
      BY <1>2, <1>4, <1>5, <1>8, <1>10
    <2>2. e(i) = e(i - 1) + Len(s)
      BY <1>2, <1>6
    <2> HIDE DEF v, s
    <2>3. Follows(q, x, i, s, v)
      BY <1>1, <1>7, <2>1, Known
    <2> QED BY <1>10, <2>2, <2>3 DEF Follows, v
  <1>11. 1 - 1 = 0 /\ 2 - 1 = 1 /\ 3 - 1 = 2 /\ 4 - 1 = 3 /\ 5 - 1 = 4
    OBVIOUS
  <1>12. q[1] = e(1) /\ x[1] = ValueAt(p, m, 1)
    BY <1>7, <1>9, <1>10, <1>11
  <1>13. q[2] = e(2)
    BY <1>10, <1>11, <1>12
  <1>14. q[3] = e(3)
    BY <1>10, <1>11, <1>13
  <1>15. ValueAt(p, m, 1) = << p.type_ >> /\ ValueAt(p, m, 5) = << p.parameters[1] >>
    BY <1>2 DEF ValueAt
  <1>16. ASSUME Fits(p.auth_policy) PROVE x[5] = << p.parameters[1] >>
    <2>1. q[4] = e(4)
      BY <1>10, <1>11, <1>14, <1>16
    <2> QED BY <1>10, <1>11, <1>15, <1>16, <2>1
  <1>17. ASSUME ~Fits(p.auth_policy) PROVE q[4] = 10 + p.parameters[1]
    <2> DEFINE w == p.parameters[1]
               s == u16(w)
               to == q[3]
               r == ReadUint(u, to, 2)
    <2>1. 1 \in 1 .. m /\ w \in 0 .. UINT16_MAX /\ Parms(p)[1] = s
      <3>1. 1 \in 1 .. m
        OBVIOUS
      <3> QED BY <3>1, PartsAre
    <2>2. strs[5] = s /\ strs[4] = Buffer(p.auth_policy) /\ strs[1] = u16(p.type_) /\ strs[2] = u16(p.name_alg)
          /\ strs[3] = u32(p.attributes)
      <3>1. \A i \in 1 .. 4 + m + k :
              strs[i] = IF i <= 4 THEN Heads(p)[i] ELSE IF i <= 4 + m THEN Parms(p)[i - 4] ELSE Ids(p)[i - (4 + m)]
        BY InnerIs DEF strs
      <3>2. strs[5] = Parms(p)[1]
        <4>1. 5 \in 1 .. 4 + m + k /\ ~(5 <= 4) /\ 5 <= 4 + m /\ 5 - 4 = 1
          OBVIOUS
        <4> QED BY <3>1, <4>1
      <3>3. strs[1] = Heads(p)[1] /\ strs[2] = Heads(p)[2] /\ strs[3] = Heads(p)[3] /\ strs[4] = Heads(p)[4]
        BY <1>2, <3>1
      <3> QED BY <2>1, <3>2, <3>3 DEF Heads
    <2>3. Len(strs[1]) = 2 /\ Len(strs[2]) = 2 /\ Len(strs[3]) = 4
      BY <2>2, U16, U32 DEF MadeOf
    <2>4. strs[4] = <<>> /\ Len(strs[4]) = 0
      <3>1. strs[4] = <<>>
        BY <1>17, <2>2, PartsAre, BufferIs
      <3> QED BY <3>1
    <2>5. /\ e(1) = e(0) + Len(strs[1]) /\ e(2) = e(1) + Len(strs[2])
          /\ e(3) = e(2) + Len(strs[3]) /\ e(4) = e(3) + Len(strs[4])
      <3>1. /\ 1 \in 1 .. Len(strs) /\ 2 \in 1 .. Len(strs) /\ 3 \in 1 .. Len(strs) /\ 4 \in 1 .. Len(strs)
            /\ 1 - 1 = 0 /\ 2 - 1 = 1 /\ 3 - 1 = 2 /\ 4 - 1 = 3
        BY <1>2
      <3>2. /\ e(1) = e(1 - 1) + Len(strs[1]) /\ e(2) = e(2 - 1) + Len(strs[2])
            /\ e(3) = e(3 - 1) + Len(strs[3]) /\ e(4) = e(4 - 1) + Len(strs[4])
        BY Zenon, <1>6, <3>1
      <3> QED BY Zenon, <3>1, <3>2
    <2>6. to = 8 /\ e(4) = 8
      BY <1>9, <1>14, <2>3, <2>4, <2>5
    <2>7. Has(u, to, s)
      BY <1>2, <1>8, <1>11, <2>2, <2>6
    <2>8. 4 \in 1 .. n /\ kinds[4] = "tpm2b"
      <3>1. KindAt(m, 4) = "tpm2b" /\ PublicKinds(m, k)[4] = KindAt(m, 4)
        <4>1. KindAt(m, 4) = "tpm2b"
          BY DEF KindAt
        <4>2. 4 \in 1 .. 4 + m + k
          OBVIOUS
        <4> QED BY <4>1, <4>2, KindsAre
      <3> QED BY <1>2, <1>3, <3>1
    <2>9. /\ to <= Len(u) /\ to \in Nat
          /\ ReadPrimitive(kinds[4], u, to).ok /\ ReadPrimitive(kinds[4], u, to).at = q[4]
      BY <1>7, <1>11, <2>8 DEF Succession
    <2>10. tpm2b(u, to).ok /\ tpm2b(u, to).at = q[4]
      BY <2>8, <2>9 DEF ReadPrimitive
    <2>11. r.ok /\ q[4] = to + 2 + r.val[1]
      BY <1>1, <2>9, <2>10, SizedMoves
    <2>12. Gives(r, u, to, s, << w >>)
      BY <1>1, <2>1, <2>7, <2>9, U16
    <2> HIDE DEF r, s, to
    <2>13. r = Read(TRUE, to + Len(s), << w >>)
      BY <2>11, <2>12 DEF Gives
    <2>14. r.val[1] = w
      BY <2>13 DEF Read
    <2> QED BY <2>1, <2>6, <2>11, <2>14
  <1> QED BY <1>12, <1>15, <1>16, <1>17 DEF FoundFirst

\* p and x are the positions and values of a sized structure that was read.
SizedRun(p, x, kinds, n, u) ==
  /\ Succession(p, x, kinds, n, u, 0) /\ p[n] = Len(u)
  /\ ReadSized(kinds, u).val = [k \in 1 .. n |-> x[k]]

\* ReadSized succeeds with what its fields are, when these are all there is.
LEMMA SizedSucceeds ==
  ASSUME NEW kinds, NEW n \in Nat, DOMAIN kinds = 1 .. n, \A i \in 1 .. n : kinds[i] \in KindsOfPrimitives,
         NEW u \in Seq(Nat), ReadSized(kinds, u).ok
  PROVE  \E p, x : SizedRun(p, x, kinds, n, u)
  <1> DEFINE zero == 0
             r == ReadFields(kinds, u, zero)
             q == Read(r.at = Len(u), r.at, r.val)
  <1>1. ReadSized(kinds, u) = IF r.ok THEN q ELSE r
    BY Zenon DEF ReadSized, AndThen
  <1>2. r.ok /\ ReadSized(kinds, u) = q
    <2> HIDE DEF r, q
    <2> QED BY <1>1
  <1>3. r.at = Len(u) /\ ReadSized(kinds, u).val = r.val
    <2> HIDE DEF r
    <2> DEFINE b == r.at = Len(u)
    <2>1. Read(b, r.at, r.val).ok
      BY <1>2
    <2> HIDE DEF b
    <2>2. b /\ Read(b, r.at, r.val).val = r.val
      BY <2>1 DEF Read
    <2> QED BY <1>2, <2>2 DEF b
  <1>4. zero \in Nat /\ zero <= Len(u)
    <2>1. Len(u) \in Nat
      OBVIOUS
    <2> QED BY <2>1
  <1> HIDE DEF zero
  <1>5. PICK p, x : /\ Succession(p, x, kinds, n, u, zero)
                    /\ r = [ok |-> TRUE, at |-> p[n], val |-> [k \in 1 .. n |-> x[k]]]
    BY <1>2, <1>4, FieldsSucceed
  <1> HIDE DEF r, q
  <1>6. p[n] = Len(u) /\ ReadSized(kinds, u).val = [k \in 1 .. n |-> x[k]]
    BY <1>3, <1>5
  <1>7. Succession(p, x, kinds, n, u, 0)
    BY <1>5 DEF zero
  <1>8. SizedRun(p, x, kinds, n, u)
    BY <1>6, <1>7 DEF SizedRun
  <1> QED BY <1>8

\* What a layout has in common with a template it matches.
LikeIt(p, l, a, b) ==
  /\ l.type_ = p.type_
  /\ Fits(p.auth_policy) => l.selectors[1] = p.parameters[1]
  /\ ~Fits(p.auth_policy) => 10 + p.parameters[1] + 2 * (a + b) <= Len(Inner(p))

\* A layout that matches is of the type and the symmetric algorithm that were
\* written; if the policy is not there, then there is room for a policy of the
\* size that the algorithm would be.
LEMMA OnlyLikeIt ==
  ASSUME NEW p, NEW m \in Nat, NEW k \in Nat, m >= 1, MadeOf(p, m, k),
         NEW l, NEW a \in Nat, NEW b \in Nat, a >= 1, l.parms = a, l.ids = b, 1 \in DOMAIN l.selectors,
         Matches(l, PublicRead(l, Inner(p)))
  PROVE  LikeIt(p, l, a, b)
  <1> DEFINE kinds == PublicKinds(a, b)
             n == 4 + a + b
             u == Inner(p)
             r == PublicRead(l, u)
             zero == 0
             four == 4
  <1>1. r = ReadSized(kinds, u)
    BY DEF PublicRead, PublicKinds
  <1>2. r.ok /\ r.val[1][1] = l.type_ /\ \A i \in DOMAIN l.selectors : r.val[4 + i][1] = l.selectors[i]
    BY DEF Matches
  <1>3. u \in Seq(Nat)
    BY InnerIs
  <1>4. DOMAIN kinds = 1 .. n /\ n \in Nat
    <2>1. DOMAIN kinds = 1 .. n
      BY KindsAre
    <2> QED BY <2>1
  <1>5. \A i \in 1 .. n : kinds[i] \in KindsOfPrimitives /\ kinds[i] \in {"u16", "u32", "tpm2b"}
    BY KindsAreThese
  <1>6. zero \in Nat /\ four \in 0 .. n /\ n - four = a + b
    OBVIOUS
  <1> HIDE DEF kinds, u
  <1>0. PICK q, x : SizedRun(q, x, kinds, n, u)
    <2> HIDE DEF n, r
    <2>1. ReadSized(kinds, u).ok
      BY <1>1, <1>2
    <2> QED BY <1>3, <1>4, <1>5, <2>1, SizedSucceeds
  <1>7. /\ Succession(q, x, kinds, n, u, 0) /\ q[n] = Len(u)
        /\ ReadSized(kinds, u).val = [i \in 1 .. n |-> x[i]]
    BY <1>0 DEF SizedRun
  <1>8. /\ x[1] = << p.type_ >>
        /\ Fits(p.auth_policy) => x[5] = << p.parameters[1] >>
        /\ ~Fits(p.auth_policy) => q[4] = 10 + p.parameters[1]
    <2>1. Succession(q, x, PublicKinds(a, b), 4 + a + b, Inner(p), 0)
      BY <1>7 DEF kinds, u
    <2>2. FoundFirst(p, q, x)
      BY <2>1, FirstReads
    <2> QED BY <2>2 DEF FoundFirst
  <1> HIDE DEF r
  <1>9. r.val[1] = x[1] /\ r.val[5] = x[5]
    <2>1. 1 \in 1 .. n /\ 5 \in 1 .. n
      OBVIOUS
    <2> QED BY <1>1, <1>7, <2>1
  <1>10. l.type_ = p.type_
    BY <1>2, <1>8, <1>9
  <1>11. ASSUME Fits(p.auth_policy) PROVE l.selectors[1] = p.parameters[1]
    <2>1. r.val[5][1] = l.selectors[1]
      <3>1. 4 + 1 = 5
        OBVIOUS
      <3> QED BY <1>2, <3>1
    <2> QED BY <1>8, <1>9, <1>11, <2>1
  <1>12. ASSUME ~Fits(p.auth_policy) PROVE 10 + p.parameters[1] + 2 * (a + b) <= Len(u)
    <2>1. Succession(q, x, kinds, n, u, zero)
      BY <1>7
    <2> HIDE DEF zero, four, n
    <2>2. q[four] + 2 * (n - four) <= q[n]
      BY <1>3, <1>4, <1>5, <1>6, <2>1, Room
    <2>3. q[four] = 10 + p.parameters[1]
      BY <1>8, <1>12 DEF four
    <2> QED BY <1>6, <1>7, <2>2, <2>3
  <1> QED BY <1>10, <1>11, <1>12 DEF u, LikeIt

\* The layout it was written in gives the TPMT_PUBLIC back.
LEMMA OwnLayout ==
  ASSUME NEW p, NEW m \in Nat, NEW k \in Nat, MadeOf(p, m, k), Fits(p.auth_policy), p.name_alg \in {SHA1, SHA256},
         NEW l, l.parms = m, l.ids = k, l.type_ = p.type_,
         \A i \in DOMAIN l.selectors : i \in 1 .. m /\ l.selectors[i] = p.parameters[i]
  PROVE  Matches(l, PublicRead(l, Inner(p))) /\ PublicOf(l, PublicRead(l, Inner(p))) = p
  <1> DEFINE u == Inner(p)
             r == PublicRead(l, u)
             kinds == PublicKinds(m, k)
             f == ReadFields(kinds, u, 0)
             vals == Vals(p, m, k)
             q == Read(f.at = Len(u), f.at, f.val)
  <1>1. r = ReadSized(kinds, u)
    BY DEF PublicRead, PublicKinds
  <1>2. f = Read(TRUE, Len(u), vals)
    BY PublicFields
  <1> HIDE DEF vals
  <1>3. ReadSized(kinds, u) = IF f.ok THEN q ELSE f
    BY Zenon DEF ReadSized, AndThen
  <1> HIDE DEF f
  <1>4. f.ok /\ f.at = Len(u) /\ f.val = vals
    BY <1>2 DEF Read
  <1>5. q.ok /\ q.val = vals
    BY <1>4 DEF Read
  <1> HIDE DEF q, r
  <1>6. r.ok /\ r.val = vals
    BY <1>1, <1>3, <1>4, <1>5
  <1>7. /\ vals[1] = << p.type_ >> /\ vals[2] = << p.name_alg >> /\ vals[3] = << p.attributes >>
        /\ vals[4] = p.auth_policy
    <2>1. 1 \in 1 .. 4 + m + k /\ 2 \in 1 .. 4 + m + k /\ 3 \in 1 .. 4 + m + k /\ 4 \in 1 .. 4 + m + k
      OBVIOUS
    <2> QED BY <2>1 DEF vals, Vals, ValueAt
  <1>8. \A i \in 1 .. m : vals[4 + i] = << p.parameters[i] >>
    <2> SUFFICES ASSUME NEW i \in 1 .. m PROVE vals[4 + i] = << p.parameters[i] >>
      OBVIOUS
    <2>1. 4 + i \in 1 .. 4 + m + k /\ ~(4 + i <= 4) /\ 4 + i <= 4 + m /\ (4 + i) - 4 = i
      OBVIOUS
    <2> QED BY <2>1 DEF vals, Vals, ValueAt
  <1>9. \A i \in 1 .. k : vals[4 + m + i] = p.unique[i]
    <2> SUFFICES ASSUME NEW i \in 1 .. k PROVE vals[4 + m + i] = p.unique[i]
      OBVIOUS
    <2>1. /\ 4 + m + i \in 1 .. 4 + m + k /\ ~(4 + m + i <= 4) /\ ~(4 + m + i <= 4 + m)
          /\ (4 + m + i) - (4 + m) = i
      OBVIOUS
    <2> QED BY <2>1 DEF vals, Vals, ValueAt
  <1>10. Matches(l, r)
    BY <1>6, <1>7, <1>8 DEF Matches
  <1>11. [i \in 1 .. m |-> r.val[4 + i][1]] = p.parameters
    <2>1. [i \in 1 .. m |-> r.val[4 + i][1]] = [i \in 1 .. m |-> p.parameters[i]]
      BY <1>6, <1>8
    <2> DEFINE v == p.parameters
               U == 0 .. UINT16_MAX
    <2>2. v \in Seq(U) /\ Len(v) = m
      BY DEF MadeOf
    <2>3. v = [i \in 1 .. m |-> v[i]]
      <3> HIDE DEF v, U
      <3> QED BY <2>2
    <2> QED BY <2>1, <2>3
  <1>12. [i \in 1 .. k |-> r.val[4 + m + i]] = p.unique
    <2>1. [i \in 1 .. k |-> r.val[4 + m + i]] = [i \in 1 .. k |-> p.unique[i]]
      BY <1>6, <1>9
    <2> DEFINE v == p.unique
               U == {<<>>}
    <2>2. v \in Seq(U) /\ Len(v) = k
      BY DEF MadeOf
    <2>3. v = [i \in 1 .. k |-> v[i]]
      <3> HIDE DEF v, U
      <3> QED BY <2>2
    <2> QED BY <2>1, <2>3
  <1>13. PublicOf(l, r) = p
    <2>1. PublicOf(l, r) = Public(p.type_, p.name_alg, p.attributes, p.auth_policy, p.parameters, p.unique)
      BY <1>6, <1>7, <1>11, <1>12 DEF PublicOf
    <2>2. p = [type_ |-> p.type_, name_alg |-> p.name_alg, attributes |-> p.attributes,
               auth_policy |-> p.auth_policy, parameters |-> p.parameters, unique |-> p.unique]
      BY DEF MadeOf, TPMT_PUBLIC
    <2> QED BY <2>1, <2>2 DEF Public
  <1> QED BY <1>10, <1>13 DEF r

\* The templates with any policy.
Template(p) == p \in TPMT_PUBLIC /\ p.name_alg \in {SHA1, SHA256} /\ (Sealed(p) \/ Parent(p) \/ AesParent(p))

\* The layout l is that of p.
OwnOf(p, l) ==
  \/ Sealed(p) /\ SealedLayout(l)
  \/ Parent(p) /\ ParentLayout(l)
  \/ AesParent(p) /\ AesLayout(l)

\* Read by its own layout a template with a policy that fits is read as it was.
LEMMA OwnGives ==
  ASSUME NEW p, Template(p), Fits(p.auth_policy), NEW l, OwnOf(p, l)
  PROVE  Matches(l, PublicRead(l, Inner(p))) /\ PublicOf(l, PublicRead(l, Inner(p))) = p
  <1>1. p \in TPMT_PUBLIC /\ p.name_alg \in {SHA1, SHA256}
    BY DEF Template
  <1>2. CASE Sealed(p) /\ SealedLayout(l)
    <2> DEFINE m == 1
               k == 1
    <2>1. MadeOf(p, m, k)
      BY <1>1, <1>2, TemplatesAreSmall
    <2>2. l.parms = m /\ l.ids = k /\ l.type_ = p.type_ /\ m \in Nat /\ k \in Nat
      BY <1>2 DEF Sealed, SealedLayout
    <2>3. \A i \in DOMAIN l.selectors : i \in 1 .. m /\ l.selectors[i] = p.parameters[i]
      BY <1>2 DEF Sealed, SealedLayout
    <2> HIDE DEF m, k
    <2> QED BY <1>1, <2>1, <2>2, <2>3, OwnLayout
  <1>3. CASE Parent(p) /\ ParentLayout(l)
    <2> DEFINE m == 4
               k == 2
    <2>1. MadeOf(p, m, k)
      BY <1>1, <1>3, TemplatesAreSmall
    <2>2. l.parms = m /\ l.ids = k /\ l.type_ = p.type_ /\ m \in Nat /\ k \in Nat
      BY <1>3 DEF Parent, ParentLayout
    <2>3. \A i \in DOMAIN l.selectors : i \in 1 .. m /\ l.selectors[i] = p.parameters[i]
      BY <1>3 DEF Parent, ParentLayout
    <2> HIDE DEF m, k
    <2> QED BY <1>1, <2>1, <2>2, <2>3, OwnLayout
  <1>4. CASE AesParent(p) /\ AesLayout(l)
    <2> DEFINE m == 6
               k == 2
    <2>1. MadeOf(p, m, k)
      BY <1>1, <1>4, TemplatesAreSmall
    <2>2. l.parms = m /\ l.ids = k /\ l.type_ = p.type_ /\ m \in Nat /\ k \in Nat
      BY <1>4 DEF AesParent, AesLayout
    <2>3. \A i \in DOMAIN l.selectors : i \in 1 .. m /\ l.selectors[i] = p.parameters[i]
      BY <1>4 DEF AesParent, AesLayout
    <2> HIDE DEF m, k
    <2> QED BY <1>1, <2>1, <2>2, <2>3, OwnLayout
  <1> QED BY <1>2, <1>3, <1>4 DEF OwnOf

\* The length of strings of two bytes.
LEMMA SameLength ==
  ASSUME NEW strs \in Seq(Seq(Nat)), \A i \in 1 .. Len(strs) : Len(strs[i]) = 2
  PROVE  Len(Concat(strs)) = 2 * Len(strs)
  <1> DEFINE n == Len(strs)
             e(i) == Len(Upto(strs, i))
             S == {i \in Nat : i <= n => e(i) = 2 * i}
  <1>1. n \in Nat
    OBVIOUS
  <1>2. e(0) = 0 /\ e(n) = Len(Concat(strs)) /\ \A i \in 1 .. n : e(i) = e(i - 1) + 2
    <2>1. Upto(strs, 0) = <<>> /\ Upto(strs, n) = Concat(strs) /\ \A i \in 1 .. n : e(i) = e(i - 1) + Len(strs[i])
      BY Pieces
    <2> QED BY <2>1
  <1> HIDE DEF e, n
  <1>3. 0 \in S
    BY <1>2
  <1>4. ASSUME NEW i \in Nat, i \in S PROVE i + 1 \in S
    <2> SUFFICES ASSUME i + 1 <= n PROVE e(i + 1) = 2 * (i + 1)
      OBVIOUS
    <2>1. i + 1 \in 1 .. n /\ (i + 1) - 1 = i /\ e(i) = 2 * i
      BY <1>1, <1>4
    <2>2. e(i + 1) = e(i) + 2
      BY <1>2, <2>1
    <2> QED BY <2>1, <2>2
  <1> HIDE DEF S
  <1>5. n \in S
    BY <1>1, <1>3, <1>4, Joined!NatSets
  <1>6. e(n) = 2 * n
    BY <1>1, <1>5 DEF S
  <1> QED BY <1>2, <1>6 DEF n

\* The length of a template whose policy dropped out.
LEMMA InnerLength ==
  ASSUME NEW p, NEW m \in Nat, NEW k \in Nat, MadeOf(p, m, k), ~Fits(p.auth_policy)
  PROVE  Len(Inner(p)) = 8 + 2 * m + 2 * k
  <1> DEFINE a == u16(p.type_)
             b == u16(p.name_alg)
             c == u32(p.attributes)
             d == Buffer(p.auth_policy)
             e == Concat(Parms(p))
             f == Concat(Ids(p))
  <1>1. a \in Seq(Nat) /\ Len(a) = 2 /\ b \in Seq(Nat) /\ Len(b) = 2 /\ c \in Seq(Nat) /\ Len(c) = 4
    BY U16, U32 DEF MadeOf
  <1>2. d \in Seq(Nat) /\ Len(d) = 0
    <2>1. d = <<>>
      BY PartsAre, BufferIs
    <2> QED BY <2>1
  <1>3. e \in Seq(Nat) /\ Len(e) = 2 * m
    <2>1. e \in Seq(Nat)
      BY InnerIs
    <2>2. Parms(p) \in Seq(Seq(Nat)) /\ Len(Parms(p)) = m /\ \A i \in 1 .. m : Len(Parms(p)[i]) = 2
      <3>1. /\ Parms(p) \in Seq(Seq(Nat)) /\ Len(Parms(p)) = m
            /\ \A i \in 1 .. m : Parms(p)[i] = u16(p.parameters[i]) /\ p.parameters[i] \in 0 .. UINT16_MAX
        BY PartsAre
      <3> QED BY <3>1, U16
    <2> QED BY <2>1, <2>2, SameLength
  <1>4. f \in Seq(Nat) /\ Len(f) = 2 * k
    <2>1. f \in Seq(Nat)
      BY InnerIs
    <2>2. Ids(p) \in Seq(Seq(Nat)) /\ Len(Ids(p)) = k /\ \A i \in 1 .. k : Len(Ids(p)[i]) = 2
      <3>1. /\ Ids(p) \in Seq(Seq(Nat)) /\ Len(Ids(p)) = k
            /\ \A i \in 1 .. k : Ids(p)[i] = TPM2B(<<>>)
        BY PartsAre
      <3>2. Len(TPM2B(<<>>)) = 2
        <4> DEFINE none == <<>>
        <4>1. none \in Seq(Nat) /\ Len(none) = 0
          OBVIOUS
        <4> HIDE DEF none
        <4>2. Fits(none)
          BY <4>1, Base DEF Fits
        <4>3. Len(TPM2B(none)) = 2 + Len(none)
          BY <4>1, <4>2, Sized
        <4> QED BY <4>1, <4>3 DEF none
      <3> QED BY <3>1, <3>2
    <2> QED BY <2>1, <2>2, SameLength
  <1>5. Inner(p) = a \o b \o c \o d \o e \o f
    BY DEF Inner
  <1> HIDE DEF a, b, c, d, e, f
  <1> DEFINE g == a \o b
             h == g \o c
             i == h \o d
             j == i \o e
             o == j \o f
  <1>6. g \in Seq(Nat) /\ Len(g) = Len(a) + Len(b)
    BY <1>1, Cat
  <1> HIDE DEF g
  <1>7. h \in Seq(Nat) /\ Len(h) = Len(g) + Len(c)
    BY <1>1, <1>6, Cat
  <1> HIDE DEF h
  <1>8. i \in Seq(Nat) /\ Len(i) = Len(h) + Len(d)
    BY <1>2, <1>7, Cat
  <1> HIDE DEF i
  <1>9. j \in Seq(Nat) /\ Len(j) = Len(i) + Len(e)
    BY <1>3, <1>8, Cat
  <1> HIDE DEF j
  <1>10. Len(o) = Len(j) + Len(f)
    BY <1>4, <1>9, Cat
  <1>11. Inner(p) = o
    BY <1>5 DEF o, j, i, h, g
  <1> HIDE DEF o
  <1>12. Len(o) = 8 + 2 * m + 2 * k
    BY <1>1, <1>2, <1>3, <1>4, <1>6, <1>7, <1>8, <1>9, <1>10
  <1> QED BY <1>11, <1>12

\* No other layout matches, and its own only if the policy is there.
LEMMA OnlyOwn ==
  ASSUME NEW p, Template(p), NEW l \in PublicLayouts, Matches(l, PublicRead(l, Inner(p)))
  PROVE  OwnOf(p, l) /\ Fits(p.auth_policy)
  <1>1. p \in TPMT_PUBLIC /\ p.name_alg \in {SHA1, SHA256} /\ (Sealed(p) \/ Parent(p) \/ AesParent(p))
    BY DEF Template
  <1>2. SealedLayout(l) \/ ParentLayout(l) \/ AesLayout(l)
    BY Layouts
  <1>3. PICK m \in Nat, k \in Nat : /\ m >= 1 /\ MadeOf(p, m, k)
                                    /\ Sealed(p) => m = 1 /\ k = 1
                                    /\ Parent(p) => m = 4 /\ k = 2
                                    /\ AesParent(p) => m = 6 /\ k = 2
    <2>1. Sealed(p) => ~Parent(p) /\ ~AesParent(p)
      BY DEF Sealed, Parent, AesParent, KEYEDHASH, ECC
    <2>2. Parent(p) => ~AesParent(p)
      <3>1. << 16, 16, 3, 16 >> # << 6, 128, 67, 16, 3, 16 >>
        OBVIOUS
      <3> QED BY <3>1 DEF Parent, AesParent
    <2>3. CASE Sealed(p)
      BY <1>1, <2>1, <2>3, TemplatesAreSmall
    <2>4. CASE Parent(p)
      BY <1>1, <2>1, <2>2, <2>4, TemplatesAreSmall
    <2>5. CASE AesParent(p)
      BY <1>1, <2>1, <2>2, <2>5, TemplatesAreSmall
    <2> QED BY <1>1, <2>3, <2>4, <2>5
  <1> DEFINE a == l.parms
             b == l.ids
  <1>4. a \in Nat /\ a >= 1 /\ b \in Nat /\ 1 \in DOMAIN l.selectors
    BY <1>2 DEF SealedLayout, ParentLayout, AesLayout
  <1>5. /\ l.type_ = p.type_
        /\ Fits(p.auth_policy) => l.selectors[1] = p.parameters[1]
        /\ ~Fits(p.auth_policy) => 10 + p.parameters[1] + 2 * (a + b) <= Len(Inner(p))
    <2> HIDE DEF a, b
    <2>1. l.parms = a /\ l.ids = b
      BY DEF a, b
    <2>2. LikeIt(p, l, a, b)
      BY <1>3, <1>4, <2>1, OnlyLikeIt
    <2> QED BY <2>2 DEF LikeIt
  <1>6. p.parameters[1] \in Nat /\ (~AesParent(p) => p.parameters[1] = 16) /\ (AesParent(p) => p.parameters[1] = 6)
    BY <1>1 DEF Sealed, Parent, AesParent
  <1>7. Fits(p.auth_policy)
    <2> SUFFICES ASSUME ~Fits(p.auth_policy) PROVE FALSE
      OBVIOUS
    <2>1. Len(Inner(p)) = 8 + 2 * m + 2 * k
      BY <1>3, InnerLength
    <2>2. 10 + p.parameters[1] + 2 * (a + b) <= 8 + 2 * m + 2 * k
      BY <1>5, <2>1
    <2>3. CASE AesParent(p)
      <3>1. a + b >= 6
        <4>1. l.type_ = ECC
          BY <1>5, <2>3 DEF AesParent
        <4>2. ~SealedLayout(l)
          BY <4>1 DEF SealedLayout, KEYEDHASH, ECC
        <4> QED BY <1>2, <4>2 DEF ParentLayout, AesLayout
      <3> QED BY <1>3, <1>4, <1>6, <2>2, <2>3, <3>1
    <2>4. CASE ~AesParent(p)
      <3>1. 2 * m + 2 * k <= 12 /\ p.parameters[1] = 16
        BY <1>1, <1>3, <1>6, <2>4
      <3> HIDE DEF a, b
      <3> QED BY <1>3, <1>4, <2>2, <3>1
    <2> QED BY <2>3, <2>4
  <1>8. l.selectors[1] = p.parameters[1]
    BY <1>5, <1>7
  <1>9. CASE Sealed(p)
    <2>1. l.type_ = KEYEDHASH
      BY <1>5, <1>9 DEF Sealed
    <2> QED BY <1>2, <1>7, <1>9, <2>1 DEF OwnOf, ParentLayout, AesLayout, KEYEDHASH, ECC
  <1>10. CASE Parent(p)
    <2>1. l.type_ = ECC /\ l.selectors[1] = 16
      BY <1>5, <1>8, <1>10 DEF Parent
    <2> QED BY <1>2, <1>7, <1>10, <2>1 DEF OwnOf, SealedLayout, AesLayout, KEYEDHASH, ECC
  <1>11. CASE AesParent(p)
    <2>1. l.type_ = ECC /\ l.selectors[1] = 6
      BY <1>5, <1>8, <1>11 DEF AesParent
    <2> QED BY <1>2, <1>7, <1>11, <2>1 DEF OwnOf, SealedLayout, ParentLayout, KEYEDHASH, ECC
  <1> QED BY <1>1, <1>9, <1>10, <1>11

\* What the TPM makes of a TPMT_PUBLIC of the library's.
LEMMA PublicsAre ==
  ASSUME NEW p, Template(p)
  PROVE  PublicsRead(Inner(p)) = IF Fits(p.auth_policy) THEN {p} ELSE {}
  <1> DEFINE M(l) == Matches(l, PublicRead(l, Inner(p)))
             out_of(l) == PublicOf(l, PublicRead(l, Inner(p)))
             ps == PublicsRead(Inner(p))
  <1>1. ps = {out_of(l) : l \in {l \in PublicLayouts : M(l)}}
    BY DEF PublicsRead
  <1>2. ASSUME Fits(p.auth_policy), NEW l, OwnOf(p, l) PROVE M(l) /\ out_of(l) = p
    BY <1>2, OwnGives
  <1>3. ASSUME NEW l \in PublicLayouts, M(l) PROVE OwnOf(p, l) /\ Fits(p.auth_policy)
    BY <1>3, OnlyOwn
  <1>4. \E l \in PublicLayouts : OwnOf(p, l)
    BY Layouts DEF OwnOf, Template
  <1> HIDE DEF M, out_of, ps
  <1>5. CASE Fits(p.auth_policy)
    <2>1. \A l \in PublicLayouts : M(l) => out_of(l) = p
      BY <1>2, <1>3, <1>5
    <2>2. \E l \in PublicLayouts : M(l)
      BY <1>2, <1>4, <1>5
    <2> QED BY <1>1, <1>5, <2>1, <2>2 DEF ps
  <1>6. CASE ~Fits(p.auth_policy)
    <2>1. \A l \in PublicLayouts : ~M(l)
      BY <1>3, <1>6
    <2> QED BY <1>1, <1>6, <2>1 DEF ps
  <1> QED BY <1>5, <1>6

-----------------------------------------------------------------------------
(* Create.                                                                 *)

\* What MarshalSensitive puts in the TPM2B.
SensitiveInner(c) == Buffer(c.sensitive.user_auth) \o Buffer(c.sensitive.data)

\* The parts of what create sends, with what is known of them.
CreateShape(c) ==
  /\ Template(c.public) /\ c = [sensitive |-> [user_auth |-> c.sensitive.user_auth, data |-> c.sensitive.data],
                                public |-> c.public]
  /\ c.sensitive.user_auth \in Seq(Nat) /\ c.sensitive.data \in Seq(Nat) /\ c.public.auth_policy \in Seq(Nat)
  /\ SensitiveInner(c) \in Seq(Nat) /\ Inner(c.public) \in Seq(Nat)
  /\ create_params(c) = Buffer(SensitiveInner(c)) \o Buffer(Inner(c.public)) \o TPM2B(<<>>) \o u32(0)
  /\ create_params(c) \in Seq(Nat)
  /\ CreateFits(c) <=> /\ Fits(c.sensitive.user_auth) /\ Fits(c.sensitive.data) /\ Fits(c.public.auth_policy)
                       /\ Fits(SensitiveInner(c)) /\ Fits(Inner(c.public))

\* The empty outsideInfo and creationPCR.
LEMMA NothingSized ==
  /\ <<>> \in Seq(Nat) /\ Fits(<<>>) /\ TPM2B(<<>>) \in Seq(Nat) /\ Len(TPM2B(<<>>)) = 2
  /\ 0 \in 0 .. UINT32_MAX /\ u32(0) \in Seq(Nat) /\ Len(u32(0)) = 4
  <1> DEFINE none == <<>>
             zero == 0
  <1>1. none \in Seq(Nat) /\ Len(none) = 0
    OBVIOUS
  <1>2. zero \in 0 .. UINT32_MAX
    BY Base
  <1> HIDE DEF none, zero
  <1>3. Fits(none)
    BY <1>1, Base DEF Fits
  <1>4. TPM2B(none) \in Seq(Nat) /\ Len(TPM2B(none)) = 2 + Len(none)
    BY <1>1, <1>3, Sized
  <1>5. u32(zero) \in Seq(Nat) /\ Len(u32(zero)) = 4
    BY <1>2, U32
  <1>6. Len(TPM2B(none)) = 2
    BY <1>1, <1>4
  <1> QED BY <1>1, <1>2, <1>3, <1>4, <1>5, <1>6 DEF none, zero

\* The public part is a byte string.
LEMMA TemplateInner ==
  ASSUME NEW p, Template(p)
  PROVE  Inner(p) \in Seq(Nat) /\ MarshalPublic(p) = Buffer(Inner(p)) /\ p.auth_policy \in Seq(Nat)
  <1>1. PICK m \in Nat, k \in Nat : MadeOf(p, m, k)
    BY TemplatesAreSmall DEF Template
  <1> QED BY <1>1, InnerIs, PartsAre

\* Whatever the caller asks for has this shape.
LEMMA CreateIs ==
  ASSUME NEW c \in [sensitive : [user_auth : Bytes, data : Bytes], public : TPMT_PUBLIC],
         [c.public EXCEPT !.auth_policy = <<>>] \in Templates
  PROVE  CreateShape(c)
  <1> DEFINE p == c.public
             a == c.sensitive.user_auth
             d == c.sensitive.data
             i == SensitiveInner(c)
             s == Buffer(i)
             t == Buffer(Inner(p))
  <1>1. /\ a \in Seq(Nat) /\ d \in Seq(Nat) /\ p \in TPMT_PUBLIC
        /\ c = [sensitive |-> [user_auth |-> a, data |-> d], public |-> p]
    BY DEF Bytes
  <1>2. Template(p)
    BY <1>1, TemplateCases DEF Template
  <1>3. Inner(p) \in Seq(Nat) /\ MarshalPublic(p) = t /\ p.auth_policy \in Seq(Nat)
    BY <1>2, TemplateInner
  <1>4. i \in Seq(Nat) /\ MarshalSensitive(c.sensitive) = s
    <2>1. Buffer(a) \in Seq(Nat) /\ Buffer(d) \in Seq(Nat)
      BY <1>1, BufferIs
    <2>2. Buffer(a) \o Buffer(d) \in Seq(Nat)
      BY <2>1, Cat
    <2> QED BY <2>2 DEF SensitiveInner, MarshalSensitive
  <1>5. /\ s \in Seq(Nat) /\ t \in Seq(Nat)
        /\ s # <<>> <=> Fits(i)
        /\ t # <<>> <=> Fits(Inner(p))
    BY <1>3, <1>4, BufferIs
  <1>6. create_params(c) = s \o t \o TPM2B(<<>>) \o u32(0)
    <2>1. Concat(<<>>) = <<>>
      BY ConcatNone
    <2>2. Len(<<>>) = 0
      OBVIOUS
    <2>3. u32(0) \o <<>> = u32(0)
      BY NothingSized, ConcatEmptySeq
    <2>4. MarshalList(<<>>) = u32(0)
      BY <2>1, <2>2, <2>3 DEF MarshalList
    <2> QED BY <1>3, <1>4, <2>4 DEF create_params
  <1>7. create_params(c) \in Seq(Nat)
    <2>1. s \o t \in Seq(Nat)
      BY <1>5, Cat
    <2>2. s \o t \o TPM2B(<<>>) \in Seq(Nat)
      BY <2>1, NothingSized, Cat
    <2>3. s \o t \o TPM2B(<<>>) \o u32(0) \in Seq(Nat)
      BY <2>2, NothingSized, Cat
    <2> QED BY <1>6, <2>3
  <1>8. CreateFits(c) <=> /\ Fits(a) /\ Fits(d) /\ Fits(p.auth_policy)
                          /\ Fits(i) /\ Fits(Inner(p))
    BY <1>3, <1>4, <1>5 DEF CreateFits
  <1> QED BY <1>1, <1>2, <1>3, <1>4, <1>6, <1>7, <1>8 DEF CreateShape

\* How the TPM goes about it.
Outer(buf) == ReadFields(<< "tpm2b", "tpm2b", "tpm2b", "u32" >>, buf, 0)

\* What the TPM checks before it creates.
Accepted(buf) ==
  /\ Outer(buf).at = Len(buf) /\ ReadSized(<< "tpm2b", "tpm2b" >>, Outer(buf).val[1]).ok
  /\ PublicsRead(Outer(buf).val[2]) # {}

\* What it creates then.
Created(buf) ==
  LET sensitive == ReadSized(<< "tpm2b", "tpm2b" >>, Outer(buf).val[1])
  IN Read(TRUE, Outer(buf).at,
          [sensitive |-> [user_auth |-> sensitive.val[1], data |-> sensitive.val[2]],
           public |-> CHOOSE p \in PublicsRead(Outer(buf).val[2]) : TRUE])

\* Nothing else happens.
LEMMA CreateSteps ==
  ASSUME NEW buf
  PROVE  ReadCreate(buf, 0) =
           IF Outer(buf).ok
             THEN (IF Accepted(buf) THEN Created(buf) ELSE Read(FALSE, Outer(buf).at, <<>>))
             ELSE Outer(buf)
  BY Zenon DEF ReadCreate, AndThen, Outer, Accepted, Created

\* The fields of the command.
OuterKinds == << "tpm2b", "tpm2b", "tpm2b", "u32" >>

\* They are read as they were written when both parts are there.
LEMMA OuterGives ==
  ASSUME NEW s \in Seq(Nat), NEW t \in Seq(Nat), Fits(s), Fits(t), NEW buf \in Seq(Nat),
         Has(buf, 0, TPM2B(s) \o TPM2B(t) \o TPM2B(<<>>) \o u32(0))
  PROVE  Gives(Outer(buf), buf, 0, TPM2B(s) \o TPM2B(t) \o TPM2B(<<>>) \o u32(0), << s, t, <<>>, << 0 >> >>)
  <1> DEFINE none == <<>>
             zero == 0
             n == 4
             strs == << TPM2B(s), TPM2B(t), TPM2B(none), u32(zero) >>
             vals == << s, t, none, << zero >> >>
  <1>1. /\ none \in Seq(Nat) /\ Fits(none) /\ TPM2B(none) \in Seq(Nat)
        /\ zero \in 0 .. UINT32_MAX /\ u32(zero) \in Seq(Nat)
    BY NothingSized
  <1>2. TPM2B(s) \in Seq(Nat) /\ TPM2B(t) \in Seq(Nat)
    BY Sized
  <1>3. /\ Codes("tpm2b", TPM2B(s), s) /\ Codes("tpm2b", TPM2B(t), t)
        /\ Codes("tpm2b", TPM2B(none), none) /\ Codes("u32", u32(zero), << zero >>)
    <2> HIDE DEF none, zero
    <2> QED BY <1>1, PrimitivesCode
  <1>4. strs \in Seq(Seq(Nat)) /\ Len(strs) = n /\ DOMAIN strs = 1 .. 4
    <2> HIDE DEF none, zero
    <2> QED BY <1>1, <1>2
  <1>5. Concat(strs) = TPM2B(s) \o TPM2B(t) \o TPM2B(none) \o u32(zero)
    <2> HIDE DEF none, zero
    <2>1. strs[1] = TPM2B(s) /\ strs[2] = TPM2B(t) /\ strs[3] = TPM2B(none) /\ strs[4] = u32(zero)
      OBVIOUS
    <2> HIDE DEF strs
    <2> QED BY <1>2, <1>4, <2>1, ConcatFour
  <1>6. ASSUME NEW i \in 1 .. n
        PROVE  Codes(OuterKinds[i], strs[i], vals[i])
    <2> HIDE DEF none, zero
    <2>1. /\ Codes(OuterKinds[1], strs[1], vals[1]) /\ Codes(OuterKinds[2], strs[2], vals[2])
          /\ Codes(OuterKinds[3], strs[3], vals[3]) /\ Codes(OuterKinds[4], strs[4], vals[4])
      <3>1. /\ OuterKinds[1] = "tpm2b" /\ OuterKinds[2] = "tpm2b" /\ OuterKinds[3] = "tpm2b" /\ OuterKinds[4] = "u32"
            /\ strs[1] = TPM2B(s) /\ strs[2] = TPM2B(t) /\ strs[3] = TPM2B(none) /\ strs[4] = u32(zero)
            /\ vals[1] = s /\ vals[2] = t /\ vals[3] = none /\ vals[4] = << zero >>
        BY DEF OuterKinds
      <3> HIDE DEF strs, vals
      <3> QED BY Zenon, <3>1, <1>3
    <2> HIDE DEF strs, vals
    <2>2. i = 1 \/ i = 2 \/ i = 3 \/ i = 4
      OBVIOUS
    <2> QED BY Zenon, <2>1, <2>2
  <1>7. n \in Nat /\ DOMAIN OuterKinds = 1 .. n /\ zero \in Nat /\ zero <= Len(buf)
    BY DEF OuterKinds
  <1>8. [k \in 1 .. n |-> vals[k]] = vals
    OBVIOUS
  <1> HIDE DEF n, strs, vals
  <1>9. Has(buf, zero, Concat(strs))
    BY <1>5
  <1> HIDE DEF zero
  <1>10. Gives(ReadFields(OuterKinds, buf, zero), buf, zero, Concat(strs), [k \in 1 .. n |-> vals[k]])
    BY <1>4, <1>6, <1>7, <1>9, FieldsGive
  <1>11. Gives(ReadFields(OuterKinds, buf, zero), buf, zero, Concat(strs), vals)
    BY <1>8, <1>10
  <1> QED BY <1>5, <1>11 DEF zero, none, vals, Outer, OuterKinds

\* When all parts fit, the TPM reads what was asked for.
LEMMA CreateReads ==
  ASSUME NEW c, CreateShape(c), CreateFits(c), NEW buf \in Seq(Nat), Has(buf, 0, create_params(c)),
         Len(buf) <= Len(create_params(c))
  PROVE  Gives(ReadCreate(buf, 0), buf, 0, create_params(c), c)
  <1> DEFINE s == SensitiveInner(c)
             p == c.public
             t == Inner(p)
             a == c.sensitive.user_auth
             d == c.sensitive.data
             M == create_params(c)
             x == << s, t, <<>>, << 0 >> >>
             r == Outer(buf)
  <1>1. /\ Template(p) /\ c = [sensitive |-> [user_auth |-> a, data |-> d], public |-> p]
        /\ s \in Seq(Nat) /\ t \in Seq(Nat) /\ a \in Seq(Nat) /\ d \in Seq(Nat)
        /\ M = Buffer(s) \o Buffer(t) \o TPM2B(<<>>) \o u32(0) /\ M \in Seq(Nat)
        /\ Fits(a) /\ Fits(d) /\ Fits(p.auth_policy) /\ Fits(s) /\ Fits(t)
    BY DEF CreateShape
  <1>2. M = TPM2B(s) \o TPM2B(t) \o TPM2B(<<>>) \o u32(0)
    BY <1>1 DEF Buffer
  <1>3. s = Buffer(a) \o Buffer(d)
    BY DEF SensitiveInner
  <1>4. x[1] = s /\ x[2] = t
    OBVIOUS
  <1>5. Has(buf, 0, M) /\ Len(buf) <= Len(M)
    OBVIOUS
  <1>6. Len(buf) \in Nat /\ Len(M) \in Nat
    BY <1>1
  <1> HIDE DEF s, t, a, d, p, M
  <1>7. Gives(Outer(buf), buf, 0, M, x)
    BY <1>1, <1>2, <1>5, OuterGives
  <1> HIDE DEF x
  <1>8. CASE Len(M) <= Len(buf)
    <2>1. Len(M) = Len(buf)
      BY <1>5, <1>6, <1>8
    <2>2. Outer(buf) = Read(TRUE, Len(buf), x)
      BY <1>6, <1>7, <2>1 DEF Gives
    <2>3. Outer(buf).ok /\ Outer(buf).at = Len(buf) /\ Outer(buf).val[1] = s /\ Outer(buf).val[2] = t
      BY <1>4, <2>2 DEF Read
    <2>4. ReadSized(<< "tpm2b", "tpm2b" >>, s) = Read(TRUE, Len(s), << a, d >>)
      BY <1>1, <1>3, TwoSized
    <2>5. ReadSized(<< "tpm2b", "tpm2b" >>, s).ok /\ ReadSized(<< "tpm2b", "tpm2b" >>, s).val = << a, d >>
      BY <2>4 DEF Read
    <2>6. PublicsRead(t) = {p}
      BY <1>1, PublicsAre DEF t
    <2>7. (CHOOSE q \in PublicsRead(t) : TRUE) = p
      BY <2>6
    <2>8. Accepted(buf)
      BY <2>3, <2>5, <2>6 DEF Accepted
    <2>9. << a, d >>[1] = a /\ << a, d >>[2] = d
      OBVIOUS
    <2>10. Created(buf) = Read(TRUE, Len(buf), [sensitive |-> [user_auth |-> a, data |-> d], public |-> p])
      BY Zenon, <2>3, <2>5, <2>7, <2>9 DEF Created
    <2>11. ReadCreate(buf, 0) = Created(buf)
      BY <2>3, <2>8, CreateSteps
    <2>12. ReadCreate(buf, 0) = Read(TRUE, Len(buf), c)
      BY Zenon, <1>1, <2>10, <2>11
    <2>13. 0 + Len(M) = Len(buf)
      BY <1>6, <2>1
    <2>14. 0 + Len(M) <= Len(buf)
      BY <1>6, <2>13
    <2>15. Gives(ReadCreate(buf, 0), buf, 0, M, c)
      BY Zenon, <2>12, <2>13, <2>14 DEF Gives
    <2> QED BY <2>15 DEF M
  <1>9. CASE ~(Len(M) <= Len(buf))
    <2>1. Outer(buf).ok = FALSE
      BY <1>6, <1>7, <1>9 DEF Gives
    <2>2. ReadCreate(buf, 0) = Outer(buf)
      BY <2>1, CreateSteps
    <2>3. Gives(ReadCreate(buf, 0), buf, 0, M, c)
      BY <1>6, <1>9, <2>1, <2>2 DEF Gives
    <2> QED BY <2>3 DEF M
  <1> QED BY <1>8, <1>9

\* The succession behind a reading of all fields, whatever the bytes.
LEMMA OuterSucceeds ==
  ASSUME NEW buf \in Seq(Nat), Outer(buf).ok
  PROVE  \E p, x : /\ Succession(p, x, OuterKinds, 4, buf, 0)
                   /\ Outer(buf) = [ok |-> TRUE, at |-> p[4], val |-> [k \in 1 .. 4 |-> x[k]]]
  <1> DEFINE zero == 0
             n == 4
  <1>1. n \in Nat /\ DOMAIN OuterKinds = 1 .. n /\ zero \in Nat /\ zero <= Len(buf)
    BY DEF OuterKinds
  <1>2. \A i \in 1 .. n : OuterKinds[i] \in KindsOfPrimitives
    BY DEF OuterKinds, KindsOfPrimitives
  <1>3. Outer(buf) = ReadFields(OuterKinds, buf, zero)
    BY DEF Outer, OuterKinds
  <1> HIDE DEF zero, n
  <1>4. \E p, x : /\ Succession(p, x, OuterKinds, n, buf, zero)
                  /\ ReadFields(OuterKinds, buf, zero) = [ok |-> TRUE, at |-> p[n], val |-> [k \in 1 .. n |-> x[k]]]
    BY <1>1, <1>2, <1>3, FieldsSucceed
  <1> QED BY Zenon, <1>3, <1>4 DEF n, zero

\* A part of the command dropped: what is left ends before the fields do.
LEMMA PartDropped ==
  ASSUME NEW s \in Seq(Nat), NEW t \in Seq(Nat), ~Fits(s) \/ ~Fits(t), NEW buf \in Seq(Nat),
         Has(buf, 0, Buffer(s) \o Buffer(t) \o TPM2B(<<>>) \o u32(0)),
         Len(buf) <= Len(Buffer(s) \o Buffer(t) \o TPM2B(<<>>) \o u32(0))
  PROVE  ~Outer(buf).ok
  <1> DEFINE X == Buffer(s) \o Buffer(t)
             Y == X \o TPM2B(<<>>)
             M == Y \o u32(0)
             three == 3
             four == 4
  <1>1. X \in Seq(Nat) /\ AtMostOne(X)
    BY OneDropped
  <1>2. /\ Y \in Seq(Nat) /\ Len(Y) = Len(X) + Len(TPM2B(<<>>)) /\ Len(TPM2B(<<>>)) = 2
        /\ TPM2B(<<>>) \in Seq(Nat) /\ u32(0) \in Seq(Nat) /\ Len(u32(0)) = 4
    <2> HIDE DEF X
    <2> QED BY <1>1, NothingSized, Cat
  <1>3. M \in Seq(Nat) /\ Len(M) = Len(Y) + Len(u32(0))
    <2> HIDE DEF Y
    <2> QED BY <1>2, Cat
  <1>4. 0 \in Nat /\ Has(buf, 0, M) /\ Len(buf) <= Len(M)
    OBVIOUS
  <1>5. Has(buf, 0, X)
    <2> DEFINE zero == 0
               none == TPM2B(<<>>)
               last == u32(zero)
    <2>1. zero \in Nat /\ none \in Seq(Nat) /\ last \in Seq(Nat) /\ Has(buf, zero, (X \o none) \o last)
      BY <1>2, <1>4
    <2> HIDE DEF X, zero, none, last
    <2>2. X \o none \in Seq(Nat)
      BY <1>1, <2>1, Cat
    <2>3. Has(buf, zero, X \o none)
      BY <2>1, <2>2, HasBoth
    <2> QED BY <1>1, <2>1, <2>3, HasBoth DEF zero
  <1> SUFFICES ASSUME Outer(buf).ok PROVE FALSE
    OBVIOUS
  <1> HIDE DEF X
  <1>6. PICK p, x : Succession(p, x, OuterKinds, 4, buf, 0)
    BY Zenon, OuterSucceeds
  <1>7. /\ p[4] = p[3] + 4 /\ p[4] <= Len(buf) /\ p[3] \in Nat
        /\ Succession(p, x, OuterKinds, 3, buf, 0)
    <2>1. OuterKinds[4] = "u32" /\ OuterKinds[4] # "tpm2b" /\ AtLeast["u32"] = 4 /\ 4 \in 1 .. 4 /\ 4 - 1 = 3
      BY DEF OuterKinds, AtLeast
    <2>2. \A i \in 1 .. 3 : i \in 1 .. 4
      OBVIOUS
    <2> QED BY <1>6, <2>1, <2>2 DEF Succession
  <1>8. /\ three \in Nat /\ three >= 1 /\ OuterKinds[1] = "tpm2b"
        /\ \A i \in 1 .. three : OuterKinds[i] \in {"u16", "u32", "tpm2b"}
        /\ Succession(p, x, OuterKinds, three, buf, 0)
    <2>1. three \in Nat /\ three >= 1 /\ OuterKinds[1] = "tpm2b"
      BY DEF OuterKinds
    <2>2. \A i \in 1 .. three : OuterKinds[i] \in {"u16", "u32", "tpm2b"}
      BY DEF OuterKinds
    <2> QED BY <1>7, <2>1, <2>2
  <1>9. p[three] \in Nat /\ p[three] >= Len(X) + 2 * (three - 1)
    <2> HIDE DEF three
    <2> QED BY <1>1, <1>5, <1>8, Beyond
  <1>10. Len(X) \in Nat /\ Len(buf) \in Nat /\ Len(M) = Len(X) + 6
    <2>1. Len(X) \in Nat /\ Len(buf) \in Nat
      BY <1>1
    <2> HIDE DEF M, Y
    <2>2. Len(Y) = Len(X) + 2
      BY <1>2
    <2>3. Len(M) = (Len(X) + 2) + 4
      BY <1>2, <1>3, <2>2
    <2>4. (Len(X) + 2) + 4 = Len(X) + 6
      BY <2>1
    <2> QED BY <2>1, <2>3, <2>4
  <1>11. Len(buf) <= Len(X) + 6
    BY <1>4, <1>10
  <1>12. p[3] >= Len(X) + 4
    <2>1. 2 * (three - 1) = 4
      OBVIOUS
    <2> QED BY <1>9, <2>1
  <1> QED BY <1>7, <1>10, <1>11, <1>12

\* When a part does not fit, the TPM refuses the command, cut short or not.
LEMMA CreateRefused ==
  ASSUME NEW c, CreateShape(c), ~CreateFits(c), NEW buf \in Seq(Nat), Has(buf, 0, create_params(c)),
         Len(buf) <= Len(create_params(c))
  PROVE  ~ReadCreate(buf, 0).ok
  <1> DEFINE s == SensitiveInner(c)
             p == c.public
             t == Inner(p)
             a == c.sensitive.user_auth
             d == c.sensitive.data
             M == create_params(c)
             x == << s, t, <<>>, << 0 >> >>
  <1>1. /\ Template(p) /\ s \in Seq(Nat) /\ t \in Seq(Nat) /\ a \in Seq(Nat) /\ d \in Seq(Nat)
        /\ M = Buffer(s) \o Buffer(t) \o TPM2B(<<>>) \o u32(0) /\ M \in Seq(Nat)
        /\ ~Fits(a) \/ ~Fits(d) \/ ~Fits(p.auth_policy) \/ ~Fits(s) \/ ~Fits(t)
    BY DEF CreateShape
  <1>2. s = Buffer(a) \o Buffer(d)
    BY DEF SensitiveInner
  <1>3. x[1] = s /\ x[2] = t
    OBVIOUS
  <1>4. Has(buf, 0, M) /\ Len(buf) <= Len(M)
    OBVIOUS
  <1>5. PublicsRead(t) = IF Fits(p.auth_policy) THEN {p} ELSE {}
    BY <1>1, PublicsAre
  <1> SUFFICES ASSUME ReadCreate(buf, 0).ok PROVE FALSE
    OBVIOUS
  <1>6. Outer(buf).ok /\ Accepted(buf)
    <2>1. ~Read(FALSE, Outer(buf).at, <<>>).ok
      BY DEF Read
    <2> QED BY Zenon, <2>1, CreateSteps
  <1> HIDE DEF s, t, a, d, p, M
  <1>7. CASE ~Fits(s) \/ ~Fits(t)
    BY <1>1, <1>4, <1>6, <1>7, PartDropped
  <1>8. CASE Fits(s) /\ Fits(t)
    <2>1. M = TPM2B(s) \o TPM2B(t) \o TPM2B(<<>>) \o u32(0)
      BY <1>1, <1>8 DEF Buffer
    <2>2. Gives(Outer(buf), buf, 0, M, x)
      BY <1>1, <1>4, <1>8, <2>1, OuterGives
    <2> HIDE DEF x
    <2>3. Outer(buf) = Read(TRUE, 0 + Len(M), x)
      BY <1>6, <2>2 DEF Gives
    <2>4. Outer(buf).val[1] = s /\ Outer(buf).val[2] = t
      BY <1>3, <2>3 DEF Read
    <2>5. ReadSized(<< "tpm2b", "tpm2b" >>, s).ok /\ PublicsRead(t) # {}
      BY Zenon, <1>6, <2>4 DEF Accepted
    <2>6. Fits(p.auth_policy)
      BY <1>5, <2>5
    <2>7. ~Fits(a) \/ ~Fits(d)
      BY <1>1, <1>8, <2>6
    <2> QED BY <1>1, <1>2, <2>5, <2>7, NotTwoSized
  <1> QED BY <1>7, <1>8

\* What any field is written as is a byte string.
LEMMA MarshalIsBytes ==
  ASSUME NEW f, WellFormed(f), f.kind = "tpm2b" => Fits(f.val)
  PROVE  marshal(f) \in Seq(Nat)
  <1>1. CASE f.kind = "create"
    <2>1. CreateShape(f.val)
      <3>1. /\ f.val \in [sensitive : [user_auth : Bytes, data : Bytes], public : TPMT_PUBLIC]
            /\ [f.val.public EXCEPT !.auth_policy = <<>>] \in Templates
        BY <1>1 DEF WellFormed
      <3> QED BY <3>1, CreateIs
    <2>2. marshal(f) = create_params(f.val)
      BY <1>1 DEF marshal
    <2> QED BY <2>1, <2>2 DEF CreateShape
  <1>2. CASE f.kind = "capability"
    <2>1. f.val \in [more : 0 .. UINT8_MAX, capability : 0 .. UINT32_MAX, data : Bytes]
      BY <1>2 DEF WellFormed
    <2> QED BY <1>2, <2>1, CapabilityReads
  <1>3. CASE f.kind = "buffer" /\ ~Fits(f.val)
    <2>1. f.val \in Seq(Nat)
      BY <1>3 DEF WellFormed, Bytes
    <2>2. marshal(f) = Buffer(f.val)
      BY <1>3 DEF marshal
    <2> QED BY <2>1, <2>2, BufferIs
  <1>4. CASE f.kind \notin Alone /\ (f.kind \in {"tpm2b", "buffer"} => Fits(f.val))
    BY <1>4, PlainReads DEF Reads
  <1> QED BY <1>1, <1>2, <1>3, <1>4 DEF Alone

\* The parameters of create are well formed.
LEMMA CreateFields ==
  ASSUME NEW f, WellFormed(f), f.kind = "create"
  PROVE  /\ CreateShape(f.val) /\ marshal(f) = create_params(f.val)
         /\ \A buf : unmarshal(f.kind, buf, 0) = ReadCreate(buf, 0)
  <1>1. /\ f.val \in [sensitive : [user_auth : Bytes, data : Bytes], public : TPMT_PUBLIC]
        /\ [f.val.public EXCEPT !.auth_policy = <<>>] \in Templates
    BY DEF WellFormed
  <1>2. CreateShape(f.val)
    BY <1>1, CreateIs
  <1>3. marshal(f) = create_params(f.val)
    BY DEF marshal
  <1>4. \A buf : unmarshal(f.kind, buf, 0) = ReadCreate(buf, 0)
    BY DEF unmarshal
  <1> QED BY <1>2, <1>3, <1>4

\* What was marshalled, field by field and in all.
Marshalled == [i \in 1 .. Len(fields) |-> marshal(fields[i])]

\* All of it.
Total == Concat(Marshalled)

\* Fields are written one by one, and those that are alone are.
Shape ==
  /\ fields \in Seq(Inputs)
  /\ \A i \in DOMAIN fields : /\ fields[i].kind = "tpm2b" => Fits(fields[i].val)
                              /\ fields[i].kind \in Alone => Len(fields) = 1

\* Until the string is delivered it is what was marshalled.
Written == out = Total /\ got = <<>> /\ pos = 0 /\ whole = TRUE

\* What is delivered is a beginning of it.
Delivered ==
  /\ fields # <<>> /\ out \in Seq(Nat) /\ Has(out, 0, Total)
  /\ Len(out) <= Len(Total) /\ whole = (Len(out) = Len(Total))

\* As many values as were read, each of some value.
Counted ==
  /\ Len(got) \in 0 .. Len(fields) /\ got = [i \in 1 .. Len(got) |-> got[i]]
  /\ phase = "done" <=> Len(got) = Len(fields)

\* Fields that may stand among others, and buffers that fit.
Plain == BuffersFit /\ \A i \in DOMAIN fields : fields[i].kind \notin Alone

\* These are read one by one, each where it was written; only a string cut short
\* is malformed.
PlainRead ==
  Plain => /\ pos = Len(Upto(Marshalled, Len(got))) /\ pos <= Len(out)
           /\ \A i \in 1 .. Len(got) : got[i] = fields[i].val
           /\ phase = "malformed" => ~whole

\* A create is read if all its parts fit and nothing was cut off; and then it is.
CreateRead ==
  fields[1].kind = "create" =>
    /\ Len(got) = 0 => pos = 0
    /\ Len(got) = 1 => CreateFits(fields[1].val) /\ got[1] = fields[1].val /\ pos = Len(out) /\ whole
    /\ phase = "malformed" /\ CreateFits(fields[1].val) => ~whole

\* A capability's data ends where the reply does.
CapabilityRead ==
  fields[1].kind = "capability" =>
    /\ Len(got) = 0 => pos = 0
    /\ Len(got) = 1 /\ whole => got[1] = fields[1].val /\ pos = Len(out)
    /\ phase = "malformed" => ~whole

\* The inductive invariant: where a read begins the next field was written, so that
\* the lemmas above say what it yields.
IInv ==
  /\ Shape
  /\ phase \in {"write", "refused", "read", "malformed", "done"}
  /\ phase \in {"write", "refused"} => Written
  /\ phase \in {"read", "malformed", "done"} => Delivered /\ Counted /\ PlainRead /\ CreateRead /\ CapabilityRead

\* What was marshalled is byte strings.
LEMMA ShapeGives ==
  ASSUME Shape
  PROVE  /\ Len(fields) \in Nat /\ DOMAIN fields = 1 .. Len(fields)
         /\ \A i \in 1 .. Len(fields) : /\ WellFormed(fields[i])
                                        /\ fields[i].kind = "tpm2b" => Fits(fields[i].val)
                                        /\ Marshalled[i] = marshal(fields[i])
         /\ Marshalled \in Seq(Seq(Nat)) /\ Len(Marshalled) = Len(fields) /\ Total \in Seq(Nat)
  <1>1. Len(fields) \in Nat /\ DOMAIN fields = 1 .. Len(fields) /\ \A i \in 1 .. Len(fields) : fields[i] \in Inputs
    BY DEF Shape
  <1>2. ASSUME NEW i \in 1 .. Len(fields)
        PROVE  /\ WellFormed(fields[i])
               /\ fields[i].kind = "tpm2b" => Fits(fields[i].val)
               /\ Marshalled[i] = marshal(fields[i])
    <2>1. fields[i] \in Inputs /\ (fields[i].kind = "tpm2b" => Fits(fields[i].val))
      BY <1>1 DEF Shape
    <2>2. WellFormed(fields[i])
      BY <2>1, InputsAreFields
    <2> QED BY <2>1, <2>2 DEF Marshalled
  <1>3. \A i \in 1 .. Len(fields) : marshal(fields[i]) \in Seq(Nat)
    BY <1>2, MarshalIsBytes
  <1>4. Marshalled \in Seq(Seq(Nat)) /\ Len(Marshalled) = Len(fields)
    BY <1>1, <1>3 DEF Marshalled
  <1>5. Upto(Marshalled, Len(Marshalled)) = Total /\ Upto(Marshalled, Len(Marshalled)) \in Seq(Nat)
    <2> HIDE DEF Marshalled
    <2>1. Len(Marshalled) \in 0 .. Len(Marshalled)
      BY <1>1, <1>4
    <2> QED BY <1>4, <2>1, Pieces DEF Total
  <1> QED BY <1>1, <1>2, <1>4, <1>5

\* It holds at first.
LEMMA Initially == Init => IInv
  <1> SUFFICES ASSUME Init PROVE IInv
    OBVIOUS
  <1>1. fields = <<>> /\ Len(fields) = 0 /\ DOMAIN fields = {}
    BY DEF Init
  <1>2. DOMAIN Marshalled = {}
    BY <1>1 DEF Marshalled
  <1>3. Total = <<>>
    BY <1>2, ConcatNone DEF Total
  <1>4. Shape
    BY <1>1 DEF Shape
  <1> QED BY <1>3, <1>4 DEF Init, IInv, Written

\* Marshalling a field keeps it.
LEMMA WriteKeeps ==
  ASSUME IInv, NEW f \in Inputs, Write(f)
  PROVE  IInv'
  <1> DEFINE n == Len(fields)
  <1>1. Shape /\ Written /\ phase = "write"
    BY DEF IInv, Write
  <1>2. /\ fields' = Append(fields, f) /\ out' = out \o marshal(f)
        /\ phase' = "write" /\ whole' = TRUE /\ pos' = 0 /\ got' = <<>>
        /\ f.kind = "tpm2b" => Fits(f.val)
        /\ f.kind \in Alone => fields = <<>>
        /\ \A i \in DOMAIN fields : fields[i].kind \notin Alone
    BY <1>1 DEF Write, MayFollow, Written
  <1>3. /\ fields \in Seq(Inputs) /\ n \in Nat /\ DOMAIN fields = 1 .. n
        /\ fields' \in Seq(Inputs) /\ Len(fields') = n + 1 /\ DOMAIN fields' = 1 .. n + 1
        /\ \A i \in 1 .. n : fields'[i] = fields[i]
        /\ fields'[n + 1] = f
    BY <1>1, <1>2 DEF Shape
  <1>4. ASSUME NEW i \in 1 .. n + 1
        PROVE  /\ fields'[i].kind = "tpm2b" => Fits(fields'[i].val)
               /\ fields'[i].kind \in Alone => n + 1 = 1
    <2>1. CASE i = n + 1
      <3>1. f.kind \in Alone => n = 0
        BY <1>2
      <3> QED BY <1>2, <1>3, <2>1, <3>1
    <2>2. CASE i # n + 1
      <3>1. i \in 1 .. n
        BY <1>3, <2>2
      <3>2. (fields[i].kind = "tpm2b" => Fits(fields[i].val)) /\ fields[i].kind \notin Alone
        BY <1>1, <1>2, <1>3, <3>1 DEF Shape
      <3> QED BY <1>3, <3>1, <3>2
    <2> QED BY <2>1, <2>2
  <1>5. Shape'
    BY <1>3, <1>4 DEF Shape
  <1>6. Total' = Total \o marshal(f)
    <2>1. DOMAIN Marshalled' = 1 .. n + 1 /\ DOMAIN Marshalled = 1 .. n /\ Marshalled'[n + 1] = marshal(f)
      BY <1>3 DEF Marshalled
    <2>2. \A i \in 1 .. n : Marshalled[i] = Marshalled'[i]
      BY <1>3 DEF Marshalled
    <2>3. n \in Nat
      BY <1>3
    <2> HIDE DEF n, Marshalled
    <2>4. Concat(Marshalled') = Concat(Marshalled) \o Marshalled'[n + 1]
      BY <2>1, <2>2, <2>3, ConcatMore
    <2> QED BY <2>1, <2>4 DEF Total
  <1>7. Written'
    BY <1>1, <1>2, <1>6 DEF Written
  <1> QED BY <1>2, <1>5, <1>7 DEF IInv

\* So does an error of marshal_tpm2b.
LEMMA WriteFailsKeeps ==
  ASSUME IInv, NEW f \in Inputs, WriteFails(f)
  PROVE  IInv'
  <1>1. Shape /\ Written /\ phase' = "refused"
    BY DEF IInv, WriteFails
  <1>2. UNCHANGED << fields, out, whole, pos, got >>
    BY DEF WriteFails
  <1>3. Shape'
    BY <1>1, <1>2 DEF Shape
  <1>4. Written'
    BY <1>1, <1>2 DEF Written, Total, Marshalled
  <1> QED BY <1>1, <1>3, <1>4 DEF IInv

\* A beginning of a string.
LEMMA Beginning ==
  ASSUME NEW s \in Seq(Nat), NEW n \in 0 .. Len(s)
  PROVE  SubSeq(s, 1, n) \in Seq(Nat) /\ Len(SubSeq(s, 1, n)) = n /\ Has(SubSeq(s, 1, n), 0, s)
  <1>1. /\ SubSeq(s, 1, n) \in Seq(Nat) /\ Len(SubSeq(s, 1, n)) = n
        /\ \A i \in 1 .. n : SubSeq(s, 1, n)[i] = s[i]
    OBVIOUS
  <1>2. \A i \in 1 .. Len(s) : 0 + i <= n => i \in 1 .. n /\ 0 + i = i
    OBVIOUS
  <1> QED BY <1>1, <1>2 DEF Has

\* Delivering the string, or a beginning of it, keeps it.
LEMMA DeliverKeeps ==
  ASSUME IInv, NEW n \in 0 .. Len(out), Deliver(n)
  PROVE  IInv'
  <1>1. /\ Shape /\ out = Total /\ got = <<>> /\ pos = 0
        /\ fields # <<>> /\ phase' = "read" /\ out' = SubSeq(Total, 1, n) /\ whole' = (n = Len(Total))
        /\ n \in 0 .. Len(Total) /\ fields' = fields /\ pos' = 0 /\ got' = <<>>
    BY DEF IInv, Deliver, Written
  <1>2. Shape' /\ Marshalled' = Marshalled /\ Total' = Total
    BY <1>1 DEF Shape, Marshalled, Total
  <1>3. Total \in Seq(Nat) /\ Len(fields) \in Nat /\ Marshalled \in Seq(Seq(Nat))
    BY <1>1, ShapeGives
  <1>4. out' \in Seq(Nat) /\ Len(out') = n /\ Has(out', 0, Total)
    <2> HIDE DEF Total
    <2> QED BY <1>1, <1>3, Beginning
  <1>5. Delivered'
    BY <1>1, <1>2, <1>3, <1>4 DEF Delivered
  <1>6. Len(fields) # 0
    BY <1>1 DEF Shape
  <1>7. Len(got') = 0
    BY <1>1
  <1>8. Counted'
    BY <1>1, <1>3, <1>6, <1>7 DEF Counted
  <1>9. PlainRead'
    <2>1. Upto(Marshalled, 0) = <<>>
      <3> HIDE DEF Marshalled
      <3> QED BY <1>3, Pieces
    <2>2. Len(<<>>) = 0
      OBVIOUS
    <2>3. 0 <= Len(out')
      BY <1>4
    <2> HIDE DEF Marshalled
    <2> QED BY <1>1, <1>2, <1>7, <2>1, <2>2, <2>3 DEF PlainRead
  <1>10. CreateRead' /\ CapabilityRead'
    BY <1>1, <1>7 DEF CreateRead, CapabilityRead
  <1> QED BY <1>1, <1>2, <1>5, <1>8, <1>9, <1>10 DEF IInv

\* t is s and v behind it.
Longer(t, s, n, v) ==
  /\ Len(t) = n + 1 /\ t = [i \in 1 .. n + 1 |-> t[i]]
  /\ \A i \in 1 .. n : t[i] = s[i]
  /\ t[n + 1] = v

\* That is what Append makes, of values of any type.
LEMMA OneMore ==
  ASSUME NEW s, NEW n \in Nat, Len(s) = n, s = [i \in 1 .. n |-> s[i]], NEW v
  PROVE  Longer(Append(s, v), s, n, v)
  <1> DEFINE vals == [i \in 1 .. n + 1 |-> IF i = n + 1 THEN v ELSE s[i]]
  <1>1. vals[n + 1] = v /\ \A i \in 1 .. n : vals[i] = s[i]
    OBVIOUS
  <1>2. [k \in 1 .. n |-> vals[k]] = s
    <2>1. [k \in 1 .. n |-> vals[k]] = [k \in 1 .. n |-> s[k]]
      BY <1>1
    <2> QED BY <2>1
  <1>3. [k \in 1 .. n + 1 |-> vals[k]] = vals
    OBVIOUS
  <1>4. vals = [i \in 1 .. n + 1 |-> vals[i]]
    OBVIOUS
  <1>5. Len(vals) = n + 1
    OBVIOUS
  <1> HIDE DEF vals
  <1>6. Append([k \in 1 .. n |-> vals[k]], vals[n + 1]) = [k \in 1 .. n + 1 |-> vals[k]]
    BY AppendNext
  <1>7. Append(s, v) = vals
    BY <1>1, <1>2, <1>3, <1>6
  <1> QED BY <1>1, <1>4, <1>5, <1>7 DEF Longer

\* The next read of plain fields.
LEMMA NextPlain ==
  ASSUME Shape, Delivered, Plain, NEW n \in Nat, n < Len(fields), pos = Len(Upto(Marshalled, n)), pos <= Len(out)
  PROVE  /\ pos \in Nat /\ marshal(fields[n + 1]) \in Seq(Nat)
         /\ Len(Upto(Marshalled, n + 1)) = pos + Len(marshal(fields[n + 1]))
         /\ Len(Upto(Marshalled, n + 1)) <= Len(Total)
         /\ Gives(unmarshal(fields[n + 1].kind, out, pos), out, pos, marshal(fields[n + 1]), fields[n + 1].val)
  <1> DEFINE f == fields[n + 1]
             m == n + 1
  <1>1. /\ Len(fields) \in Nat /\ Marshalled \in Seq(Seq(Nat)) /\ Len(Marshalled) = Len(fields) /\ Total \in Seq(Nat)
        /\ \A i \in 1 .. Len(fields) : /\ WellFormed(fields[i])
                                       /\ fields[i].kind = "tpm2b" => Fits(fields[i].val)
                                       /\ Marshalled[i] = marshal(fields[i])
        /\ DOMAIN fields = 1 .. Len(fields)
    BY ShapeGives
  <1>2. m \in 1 .. Len(fields) /\ n \in 0 .. Len(fields) /\ m - 1 = n
    BY <1>1
  <1>3. /\ WellFormed(f) /\ f.kind \notin Alone
        /\ f.kind \in {"tpm2b", "buffer"} => Fits(f.val)
        /\ Marshalled[m] = marshal(f)
    BY <1>1, <1>2 DEF Plain, BuffersFit
  <1>4. Reads(f, marshal(f))
    BY <1>3, PlainReads
  <1>5. /\ Upto(Marshalled, n) \in Seq(Nat)
        /\ Len(Upto(Marshalled, m)) = Len(Upto(Marshalled, n)) + Len(Marshalled[m])
    <2> HIDE DEF Marshalled, m
    <2>1. m \in 1 .. Len(Marshalled) /\ n \in 0 .. Len(Marshalled)
      BY <1>1, <1>2
    <2> QED BY <1>1, <1>2, <2>1, Pieces
  <1>6. /\ Len(Upto(Marshalled, m)) <= Len(Total)
        /\ Has(out, Len(Upto(Marshalled, n)), Marshalled[m])
    <2> DEFINE zero == 0
    <2>1. zero \in Nat /\ Has(out, zero, Concat(Marshalled)) /\ out \in Seq(Nat)
      BY DEF Delivered, Total
    <2> HIDE DEF Marshalled, m, zero
    <2>2. m \in 1 .. Len(Marshalled) /\ m \in 0 .. Len(Marshalled)
      BY <1>1, <1>2
    <2>3. /\ Len(Upto(Marshalled, m)) <= Len(Concat(Marshalled))
          /\ Has(out, zero + Len(Upto(Marshalled, m - 1)), Marshalled[m])
      BY <1>1, <2>1, <2>2, HasPieces
    <2>4. zero + Len(Upto(Marshalled, m - 1)) = Len(Upto(Marshalled, n))
      BY <1>2, <1>5 DEF zero
    <2> QED BY <2>3, <2>4 DEF Total
  <1>7. pos \in Nat /\ Has(out, pos, marshal(f))
    BY <1>3, <1>5, <1>6
  <1>8. Gives(unmarshal(f.kind, out, pos), out, pos, marshal(f), f.val) /\ marshal(f) \in Seq(Nat)
    <2>1. out \in Seq(Nat)
      BY DEF Delivered
    <2> HIDE DEF f
    <2> QED BY <1>4, <1>7, <2>1 DEF Reads
  <1> QED BY <1>3, <1>5, <1>6, <1>7, <1>8

\* A field alone is all there is.
LEMMA NextAlone ==
  ASSUME Shape, Delivered, fields[1].kind \in Alone
  PROVE  /\ Len(fields) = 1 /\ WellFormed(fields[1]) /\ Total = marshal(fields[1]) /\ Total \in Seq(Nat)
         /\ out \in Seq(Nat) /\ Has(out, 0, Total) /\ Len(out) <= Len(Total) /\ whole = (Len(out) = Len(Total))
  <1>1. /\ Len(fields) \in Nat /\ Marshalled \in Seq(Seq(Nat)) /\ Len(Marshalled) = Len(fields) /\ Total \in Seq(Nat)
        /\ \A i \in 1 .. Len(fields) : /\ WellFormed(fields[i])
                                       /\ fields[i].kind = "tpm2b" => Fits(fields[i].val)
                                       /\ Marshalled[i] = marshal(fields[i])
        /\ DOMAIN fields = 1 .. Len(fields)
    BY ShapeGives
  <1>2. Len(fields) # 0
    BY DEF Shape, Delivered
  <1>3. 1 \in 1 .. Len(fields) /\ 1 \in DOMAIN fields
    BY <1>1, <1>2
  <1>4. Len(fields) = 1
    BY <1>3 DEF Shape
  <1>5. Marshalled[1] = marshal(fields[1]) /\ DOMAIN Marshalled = 1 .. 1 /\ Marshalled[1] \in Seq(Nat)
    <2>1. Marshalled[1] = marshal(fields[1])
      BY <1>1, <1>3
    <2>2. DOMAIN Marshalled = 1 .. 1
      BY <1>4 DEF Marshalled
    <2>3. marshal(fields[1]) \in Seq(Nat)
      BY <1>1, <1>3, MarshalIsBytes
    <2> QED BY <2>1, <2>2, <2>3
  <1>6. Total = marshal(fields[1])
    <2> HIDE DEF Marshalled
    <2> QED BY <1>5, ConcatOne DEF Total
  <1> QED BY <1>1, <1>3, <1>4, <1>6 DEF Delivered

\* A value read, or none, and what is left as it was.
Took(r, n) ==
  /\ r.ok /\ pos' = r.at /\ phase' = (IF n + 1 = Len(fields) THEN "done" ELSE "read")
  /\ Len(got') = n + 1 /\ got' = [i \in 1 .. n + 1 |-> got'[i]]
  /\ \A i \in 1 .. n : got'[i] = got[i]
  /\ got'[n + 1] = r.val

\* No value, and nothing moved.
Failed(r, n) == ~r.ok /\ phase' = "malformed" /\ pos' = pos /\ got' = got /\ Len(got') = n

\* A read does the one or the other.
LEMMA ReadSteps ==
  ASSUME IInv, ReadNext
  PROVE  /\ Shape /\ Delivered /\ PlainRead /\ CreateRead /\ CapabilityRead
         /\ fields' = fields /\ out' = out /\ whole' = whole
         /\ Len(fields) \in Nat /\ phase = "read" /\ Len(got) \in Nat /\ Len(got) < Len(fields)
         /\ got = [i \in 1 .. Len(got) |-> got[i]]
         /\ LET r == unmarshal(fields[Len(got) + 1].kind, out, pos)
            IN Took(r, Len(got)) \/ Failed(r, Len(got))
  <1> DEFINE n == Len(got)
             r == unmarshal(fields[Len(got) + 1].kind, out, pos)
  <1>1. /\ Shape /\ Delivered /\ Counted /\ PlainRead /\ CreateRead /\ CapabilityRead /\ phase = "read"
        /\ fields' = fields /\ out' = out /\ whole' = whole
    BY DEF ReadNext, IInv
  <1>2. Len(fields) \in Nat
    BY <1>1, ShapeGives
  <1>3. n \in Nat /\ n < Len(fields) /\ got = [i \in 1 .. n |-> got[i]]
    BY <1>1, <1>2 DEF Counted
  <1>4. CASE r.ok
    <2>1. pos' = r.at /\ got' = Append(got, r.val) /\ phase' = IF n + 1 = Len(fields) THEN "done" ELSE "read"
      BY <1>4 DEF ReadNext
    <2> DEFINE v == r.val
    <2> HIDE DEF n, v
    <2>2. n = Len(got)
      BY DEF n
    <2>3. Longer(Append(got, v), got, n, v)
      BY <1>3, <2>2, OneMore
    <2>4. got' = Append(got, v)
      BY <2>1 DEF v
    <2> HIDE DEF r
    <2>5. Took(r, n)
      BY <1>4, <2>1, <2>3, <2>4 DEF Took, Longer, v
    <2> QED BY <1>1, <1>2, <1>3, <2>5 DEF n, r
  <1>5. CASE ~r.ok
    <2>1. phase' = "malformed" /\ pos' = pos /\ got' = got
      BY <1>5 DEF ReadNext
    <2> HIDE DEF r
    <2>2. Failed(r, n)
      BY <1>5, <2>1 DEF Failed
    <2> QED BY <1>1, <1>2, <1>3, <2>2 DEF r
  <1> QED BY <1>4, <1>5

\* Among plain fields it reads the next one, or the string was cut short.
LEMMA PlainStep ==
  ASSUME IInv, ReadNext
  PROVE  PlainRead'
  <1> DEFINE n == Len(got)
             f == fields[n + 1]
             r == unmarshal(f.kind, out, pos)
             to == pos + Len(marshal(f))
  <1>1. /\ Shape /\ Delivered /\ PlainRead
        /\ fields' = fields /\ out' = out /\ whole' = whole
        /\ Len(fields) \in Nat /\ n \in Nat /\ n < Len(fields) /\ phase = "read"
        /\ Took(r, n) \/ Failed(r, n)
    BY ReadSteps
  <1>2. Marshalled' = Marshalled /\ (Plain' <=> Plain)
    BY <1>1 DEF Marshalled, Plain, BuffersFit
  <1> SUFFICES ASSUME Plain
               PROVE  /\ pos' = Len(Upto(Marshalled, Len(got'))) /\ pos' <= Len(out)
                      /\ \A i \in 1 .. Len(got') : got'[i] = fields[i].val
                      /\ phase' = "malformed" => ~whole
    BY <1>1, <1>2 DEF PlainRead, Upto
  <1>3. /\ pos = Len(Upto(Marshalled, n)) /\ pos <= Len(out)
        /\ \A i \in 1 .. n : got[i] = fields[i].val
    BY <1>1 DEF PlainRead
  <1>4. /\ pos \in Nat /\ marshal(f) \in Seq(Nat)
        /\ Len(Upto(Marshalled, n + 1)) = to
        /\ Len(Upto(Marshalled, n + 1)) <= Len(Total)
        /\ Gives(r, out, pos, marshal(f), f.val)
    <2> HIDE DEF n
    <2> QED BY <1>1, <1>3, NextPlain
  <1>5. /\ whole = (Len(out) = Len(Total)) /\ Len(out) \in Nat /\ Len(Total) \in Nat /\ Len(out) <= Len(Total)
        /\ to \in Nat
    <2>1. Total \in Seq(Nat)
      BY <1>1, ShapeGives
    <2>2. out \in Seq(Nat) /\ Len(out) <= Len(Total) /\ whole = (Len(out) = Len(Total))
      BY <1>1 DEF Delivered
    <2> HIDE DEF f, Total
    <2> QED BY <1>4, <2>1, <2>2
  <1>6. CASE Took(r, n)
    <2>1. /\ r.ok /\ pos' = r.at /\ Len(got') = n + 1 /\ got'[n + 1] = r.val
          /\ \A i \in 1 .. n : got'[i] = got[i]
          /\ phase' # "malformed"
      BY <1>6 DEF Took
    <2>2. to <= Len(out) /\ r = Read(TRUE, to, f.val)
      BY <1>4, <2>1 DEF Gives
    <2>3. pos' = to /\ got'[n + 1] = f.val
      BY <2>1, <2>2 DEF Read
    <2>4. ASSUME NEW i \in 1 .. n + 1 PROVE got'[i] = fields[i].val
      <3>1. i \in 1 .. n \/ i = n + 1
        BY <1>1
      <3> QED BY <1>3, <2>1, <2>3, <3>1
    <2>5. \A i \in 1 .. Len(got') : got'[i] = fields[i].val
      BY <2>1, <2>4
    <2>6. pos' = Len(Upto(Marshalled, Len(got')))
      BY <1>4, <2>1, <2>3
    <2>7. pos' <= Len(out)
      BY <2>2, <2>3
    <2> QED BY <2>1, <2>5, <2>6, <2>7
  <1>7. CASE Failed(r, n)
    <2>1. ~r.ok /\ pos' = pos /\ got' = got
      BY <1>7 DEF Failed
    <2>2. ~(to <= Len(out))
      BY <1>4, <2>1 DEF Gives, Read
    <2>3. ~whole
      <3> HIDE DEF to, Total
      <3> QED BY <1>4, <1>5, <2>2
    <2> QED BY <1>3, <2>1, <2>3
  <1> QED BY <1>1, <1>6, <1>7

\* Alone in its string, the first value is the last.
LEMMA AloneStep ==
  ASSUME IInv, ReadNext, fields[1].kind \in Alone
  PROVE  /\ Len(got) = 0 /\ Len(fields) = 1 /\ WellFormed(fields[1]) /\ marshal(fields[1]) \in Seq(Nat)
         /\ out \in Seq(Nat) /\ Has(out, 0, marshal(fields[1])) /\ Len(out) <= Len(marshal(fields[1]))
         /\ whole = (Len(out) = Len(marshal(fields[1])))
         /\ fields' = fields /\ out' = out /\ whole' = whole
         /\ LET r == unmarshal(fields[1].kind, out, pos)
            IN \/ r.ok /\ pos' = r.at /\ got'[1] = r.val /\ Len(got') = 1 /\ phase' = "done"
               \/ ~r.ok /\ pos' = pos /\ Len(got') = 0 /\ phase' = "malformed"
  <1> DEFINE n == Len(got)
             r == unmarshal(fields[n + 1].kind, out, pos)
  <1>1. /\ Shape /\ Delivered
        /\ fields' = fields /\ out' = out /\ whole' = whole
        /\ n \in Nat /\ n < Len(fields)
        /\ Took(r, n) \/ Failed(r, n)
    BY ReadSteps
  <1>2. /\ Len(fields) = 1 /\ WellFormed(fields[1]) /\ Total = marshal(fields[1]) /\ Total \in Seq(Nat)
        /\ out \in Seq(Nat) /\ Has(out, 0, Total) /\ Len(out) <= Len(Total) /\ whole = (Len(out) = Len(Total))
    BY <1>1, NextAlone
  <1>3. n = 0 /\ n + 1 = 1
    BY <1>1, <1>2
  <1>4. r = unmarshal(fields[1].kind, out, pos)
    BY <1>3
  <1> HIDE DEF n, r
  <1>5. \/ r.ok /\ pos' = r.at /\ got'[1] = r.val /\ Len(got') = 1 /\ phase' = "done"
        \/ ~r.ok /\ pos' = pos /\ Len(got') = 0 /\ phase' = "malformed"
    BY <1>1, <1>2, <1>3 DEF Took, Failed
  <1>6. Len(got) = 0
    BY <1>3 DEF n
  <1> QED BY Zenon, <1>1, <1>2, <1>4, <1>5, <1>6

\* Of a create it reads what was asked for, or fails.
LEMMA CreateStep ==
  ASSUME IInv, ReadNext
  PROVE  CreateRead'
  <1> DEFINE f == fields[1]
             c == f.val
             M == create_params(c)
             r == ReadCreate(out, 0)
  <1>1. fields' = fields /\ out' = out /\ whole' = whole /\ CreateRead
    BY ReadSteps
  <1> SUFFICES ASSUME f.kind = "create"
               PROVE  /\ Len(got') = 0 => pos' = 0
                      /\ Len(got') = 1 => CreateFits(c) /\ got'[1] = c /\ pos' = Len(out) /\ whole
                      /\ phase' = "malformed" /\ CreateFits(c) => ~whole
    BY <1>1 DEF CreateRead, CreateFits
  <1>2. f.kind \in Alone
    BY DEF Alone
  <1>3. /\ Len(got) = 0 /\ Len(fields) = 1 /\ WellFormed(f) /\ marshal(f) \in Seq(Nat)
        /\ out \in Seq(Nat) /\ Has(out, 0, marshal(f)) /\ Len(out) <= Len(marshal(f))
        /\ whole = (Len(out) = Len(marshal(f)))
        /\ LET q == unmarshal(f.kind, out, pos)
           IN \/ q.ok /\ pos' = q.at /\ got'[1] = q.val /\ Len(got') = 1 /\ phase' = "done"
              \/ ~q.ok /\ pos' = pos /\ Len(got') = 0 /\ phase' = "malformed"
    BY <1>2, AloneStep
  <1>4. pos = 0
    BY <1>1, <1>3 DEF CreateRead
  <1>5. CreateShape(c) /\ marshal(f) = M /\ unmarshal(f.kind, out, pos) = r
    BY <1>3, <1>4, CreateFields
  <1>6. \/ r.ok /\ pos' = r.at /\ got'[1] = r.val /\ Len(got') = 1 /\ phase' = "done"
        \/ ~r.ok /\ pos' = 0 /\ Len(got') = 0 /\ phase' = "malformed"
    BY Zenon, <1>3, <1>4, <1>5
  <1>7. /\ out \in Seq(Nat) /\ Has(out, 0, M) /\ M \in Seq(Nat)
        /\ Len(out) <= Len(M) /\ whole = (Len(out) = Len(M)) /\ Len(out) \in Nat /\ Len(M) \in Nat
    BY Zenon, <1>3, <1>5, LenProperties
  <1>8. CASE CreateFits(c)
    <2>1. Gives(r, out, 0, M, c)
      <3> HIDE DEF c
      <3> QED BY <1>5, <1>7, <1>8, CreateReads
    <2> HIDE DEF c, M, r
    <2>2. CASE r.ok
      <3>1. 0 + Len(M) <= Len(out) /\ r = Read(TRUE, 0 + Len(M), c)
        BY <2>1, <2>2 DEF Gives
      <3>2. Len(M) = Len(out) /\ 0 + Len(M) = Len(out)
        BY <1>7, <3>1
      <3>3. r.at = Len(out) /\ r.val = c
        BY <3>1, <3>2 DEF Read
      <3>4. pos' = Len(out) /\ got'[1] = c /\ Len(got') = 1 /\ phase' = "done" /\ whole
        BY <1>6, <1>7, <2>2, <3>2, <3>3
      <3> QED BY <1>8, <3>4
    <2>3. CASE ~r.ok
      <3>1. ~(0 + Len(M) <= Len(out))
        BY <2>1, <2>3 DEF Gives, Read
      <3>2. Len(out) # Len(M)
        BY <1>7, <3>1
      <3>3. ~whole
        BY Zenon, <1>7, <3>2
      <3> QED BY <1>6, <2>3, <3>3
    <2> QED BY <2>2, <2>3
  <1>9. CASE ~CreateFits(c)
    <2>1. ~r.ok
      <3> HIDE DEF c
      <3> QED BY <1>5, <1>7, <1>9, CreateRefused
    <2>2. ~r.ok /\ pos' = 0 /\ Len(got') = 0
      BY Zenon, <1>6, <2>1
    <2>3. Len(got') # 1
      BY <2>2
    <2> QED BY Zenon, <1>9, <2>2, <2>3
  <1> QED BY <1>8, <1>9

\* Of a capability it reads all there is.
LEMMA CapabilityStep ==
  ASSUME IInv, ReadNext
  PROVE  CapabilityRead'
  <1> DEFINE f == fields[1]
             M == marshal(f)
             r == unmarshal(f.kind, out, 0)
  <1>1. fields' = fields /\ out' = out /\ whole' = whole /\ CapabilityRead
    BY ReadSteps
  <1> SUFFICES ASSUME f.kind = "capability"
               PROVE  /\ Len(got') = 0 => pos' = 0
                      /\ Len(got') = 1 /\ whole => got'[1] = f.val /\ pos' = Len(out)
                      /\ phase' = "malformed" => ~whole
    BY <1>1 DEF CapabilityRead
  <1>2. f.kind \in Alone
    BY DEF Alone
  <1>3. /\ Len(got) = 0 /\ Len(fields) = 1 /\ WellFormed(f) /\ M \in Seq(Nat)
        /\ out \in Seq(Nat) /\ Has(out, 0, M) /\ Len(out) <= Len(M)
        /\ whole = (Len(out) = Len(M))
        /\ LET q == unmarshal(f.kind, out, pos)
           IN \/ q.ok /\ pos' = q.at /\ got'[1] = q.val /\ Len(got') = 1 /\ phase' = "done"
              \/ ~q.ok /\ pos' = pos /\ Len(got') = 0 /\ phase' = "malformed"
    BY <1>2, AloneStep
  <1>4. pos = 0
    BY <1>1, <1>3 DEF CapabilityRead
  <1>5. \/ r.ok /\ pos' = r.at /\ got'[1] = r.val /\ Len(got') = 1 /\ phase' = "done"
        \/ ~r.ok /\ pos' = 0 /\ Len(got') = 0 /\ phase' = "malformed"
    BY Zenon, <1>3, <1>4
  <1>6. f.val \in [more : 0 .. UINT8_MAX, capability : 0 .. UINT32_MAX, data : Bytes]
    BY <1>3 DEF WellFormed
  <1>7. ASSUME whole PROVE r.ok /\ r.at = Len(out) /\ r.val = f.val
    <2> DEFINE zero == 0
    <2>1. zero \in Nat /\ Has(out, zero, M)
      BY Zenon, <1>3 DEF zero
    <2>2. zero + Len(M) = Len(out)
      <3>1. Len(M) = Len(out) /\ Len(out) \in Nat
        BY Zenon, <1>3, <1>7, LenProperties
      <3> HIDE DEF M
      <3> QED BY <3>1
    <2> HIDE DEF zero, f
    <2>3. unmarshal(f.kind, out, zero) = Read(TRUE, Len(out), f.val)
      BY <1>3, <1>6, <2>1, <2>2, CapabilityReads
    <2> QED BY <2>3 DEF zero, Read
  <1> HIDE DEF r, M, f
  <1> QED BY <1>5, <1>7

\* A read keeps the invariant.
LEMMA ReadNextKeeps ==
  ASSUME IInv, ReadNext
  PROVE  IInv'
  <1> DEFINE n == Len(got)
             r == unmarshal(fields[Len(got) + 1].kind, out, pos)
  <1>1. /\ Shape /\ Delivered
        /\ fields' = fields /\ out' = out /\ whole' = whole
        /\ Len(fields) \in Nat /\ n \in Nat /\ n < Len(fields)
        /\ got = [i \in 1 .. n |-> got[i]]
        /\ Took(r, n) \/ Failed(r, n)
    BY ReadSteps
  <1>2. Shape' /\ Delivered'
    BY <1>1 DEF Shape, Delivered, Total, Marshalled
  <1>3. Counted' /\ phase' \in {"read", "malformed", "done"}
    <2> HIDE DEF n, r
    <2>1. CASE Took(r, n)
      <3>1. n + 1 \in 0 .. Len(fields) /\ Len(got') = n + 1
        BY <1>1, <2>1 DEF Took
      <3>2. got' = [i \in 1 .. Len(got') |-> got'[i]]
        BY <2>1, <3>1 DEF Took
      <3>3. phase' = (IF Len(got') = Len(fields) THEN "done" ELSE "read")
        BY <2>1, <3>1 DEF Took
      <3> QED BY <1>1, <3>1, <3>2, <3>3 DEF Counted
    <2>2. CASE Failed(r, n)
      <3>1. Len(got') = n /\ got' = got /\ phase' = "malformed"
        BY <2>2 DEF Failed
      <3>2. Len(got') \in 0 .. Len(fields) /\ Len(got') # Len(fields)
        BY <1>1, <3>1
      <3>3. got' = [i \in 1 .. Len(got') |-> got'[i]]
        BY Zenon, <1>1, <3>1
      <3> QED BY <1>1, <3>1, <3>2, <3>3 DEF Counted
    <2> QED BY <1>1, <2>1, <2>2
  <1>4. PlainRead' /\ CreateRead' /\ CapabilityRead'
    BY PlainStep, CreateStep, CapabilityStep
  <1> QED BY <1>2, <1>3, <1>4 DEF IInv

\* So does nothing happening.
LEMMA StutterKeeps ==
  ASSUME IInv, UNCHANGED vars
  PROVE  IInv'
  BY DEF vars, IInv, Shape, Written, Delivered, Counted, Plain, BuffersFit, PlainRead, CreateRead, CapabilityRead,
         Total, Marshalled, CreateFits, Upto

\* Every step keeps it.
LEMMA Inductive == IInv /\ [Next]_vars => IInv'
  <1> SUFFICES ASSUME IInv, [Next]_vars PROVE IInv'
    OBVIOUS
  <1>1. ASSUME NEW f \in Inputs, Write(f) PROVE IInv'
    BY <1>1, WriteKeeps
  <1>2. ASSUME NEW f \in Inputs, WriteFails(f) PROVE IInv'
    BY <1>2, WriteFailsKeeps
  <1>3. ASSUME NEW n \in 0 .. Len(out), Deliver(n) PROVE IInv'
    BY <1>3, DeliverKeeps
  <1>4. CASE ReadNext
    BY <1>4, ReadNextKeeps
  <1>5. CASE UNCHANGED vars
    BY <1>5, StutterKeeps
  <1> QED BY <1>1, <1>2, <1>3, <1>4, <1>5 DEF Next

\* It is an invariant of everything both ends do.
THEOREM Invariance == Spec => []IInv
  <1>1. Init => IInv
    BY Initially
  <1>2. IInv /\ [Next]_vars => IInv'
    BY Inductive
  <1> QED BY <1>1, <1>2, PTL DEF Spec

-----------------------------------------------------------------------------
(* The properties.                                                         *)

\* The two kinds of strings.
AllPlain == \A i \in DOMAIN fields : fields[i].kind \notin Alone
OneAlone == fields[1].kind \in Alone /\ Len(fields) = 1

\* The fields of one string are all plain, or the first is alone.
LEMMA PlainOrAlone ==
  ASSUME Shape, fields # <<>>
  PROVE  /\ Len(fields) \in Nat /\ Len(fields) >= 1 /\ DOMAIN fields = 1 .. Len(fields)
         /\ \A i \in DOMAIN fields : fields[i].kind \in Alone => i = 1 /\ Len(fields) = 1
         /\ AllPlain \/ OneAlone
  <1>1. Len(fields) \in Nat /\ Len(fields) >= 1 /\ DOMAIN fields = 1 .. Len(fields)
    BY DEF Shape
  <1>2. \A i \in DOMAIN fields : fields[i].kind \in Alone => i = 1 /\ Len(fields) = 1
    <2>1. \A i \in DOMAIN fields : fields[i].kind \in Alone => Len(fields) = 1
      BY DEF Shape
    <2> QED BY <1>1, <2>1
  <1>3. AllPlain \/ OneAlone
    BY <1>2 DEF AllPlain, OneAlone
  <1> QED BY <1>1, <1>2, <1>3

\* How many values there are.
LEMMA GotIs ==
  ASSUME Counted, Len(fields) \in Nat
  PROVE  DOMAIN got = 1 .. Len(got) /\ Len(got) \in Nat /\ Len(got) <= Len(fields)
  <1> DEFINE n == Len(got)
  <1>1. n \in Nat /\ n <= Len(fields) /\ got = [i \in 1 .. n |-> got[i]]
    BY DEF Counted
  <1> HIDE DEF n
  <1>2. DOMAIN got = 1 .. n
    BY <1>1
  <1> QED BY <1>1, <1>2 DEF n

\* The invariant implies RoundTrip.
LEMMA RoundTripHolds == IInv => RoundTrip
  <1> SUFFICES ASSUME IInv, whole, AllFit
               PROVE  /\ phase # "malformed"
                      /\ \A i \in DOMAIN got : got[i] = fields[i].val
                      /\ phase = "done" => pos = Len(out)
    BY DEF RoundTrip
  <1>1. CASE phase \in {"write", "refused"}
    BY <1>1 DEF IInv, Written
  <1>2. CASE phase \in {"read", "malformed", "done"}
    <2>1. Shape /\ Delivered /\ Counted /\ PlainRead /\ CreateRead /\ CapabilityRead /\ fields # <<>>
      BY <1>2 DEF IInv, Delivered
    <2>2. /\ Len(fields) \in Nat /\ Len(fields) >= 1 /\ DOMAIN fields = 1 .. Len(fields)
          /\ AllPlain \/ OneAlone
      BY <2>1, PlainOrAlone
    <2>3. /\ DOMAIN got = 1 .. Len(got) /\ Len(got) \in Nat /\ Len(got) <= Len(fields)
          /\ phase = "done" <=> Len(got) = Len(fields)
      BY <2>1, <2>2, GotIs DEF Counted
    <2>4. whole => Len(out) = Len(Total)
      BY Zenon, <2>1 DEF Delivered
    <2>5. CASE AllPlain
      <3>1. /\ pos = Len(Upto(Marshalled, Len(got)))
            /\ \A i \in 1 .. Len(got) : got[i] = fields[i].val
            /\ phase # "malformed"
        BY <2>1, <2>5 DEF PlainRead, Plain, AllFit, AllPlain
      <3>2. ASSUME phase = "done" PROVE pos = Len(out)
        <4>1. Len(got) = Len(fields) /\ Len(out) = Len(Total)
          BY <2>3, <2>4, <3>2
        <4>2. Marshalled \in Seq(Seq(Nat)) /\ Len(Marshalled) = Len(fields)
          BY <2>1, ShapeGives
        <4> HIDE DEF Marshalled
        <4>3. Upto(Marshalled, Len(Marshalled)) = Total
          BY <4>2, Pieces DEF Total
        <4> QED BY <3>1, <4>1, <4>2, <4>3
      <3> QED BY <2>3, <3>1, <3>2
    <2>6. CASE OneAlone
      <3>1. Len(got) = 0 \/ Len(got) = 1
        BY <2>3, <2>6 DEF OneAlone
      <3>2. fields[1].kind = "create" \/ fields[1].kind = "capability"
        BY <2>6 DEF Alone, OneAlone
      <3>3. CASE fields[1].kind = "create"
        <4>1. CreateFits(fields[1].val)
          BY <2>2, <3>3 DEF AllFit
        <4>2. /\ Len(got) = 1 => got[1] = fields[1].val /\ pos = Len(out)
              /\ phase # "malformed"
          BY <2>1, <3>3, <4>1 DEF CreateRead
        <4> QED BY <2>3, <2>6, <3>1, <4>2 DEF OneAlone
      <3>4. CASE fields[1].kind = "capability"
        <4>1. /\ Len(got) = 1 => got[1] = fields[1].val /\ pos = Len(out)
              /\ phase # "malformed"
          BY <2>1, <3>4 DEF CapabilityRead
        <4> QED BY <2>3, <2>6, <3>1, <4>1 DEF OneAlone
      <3> QED BY <3>2, <3>3, <3>4
    <2> QED BY <2>2, <2>5, <2>6
  <1> QED BY <1>1, <1>2 DEF IInv

\* It implies CutIsMalformed.
LEMMA CutIsMalformedHolds == IInv => CutIsMalformed
  <1> SUFFICES ASSUME IInv, ~whole, BuffersFit, fields[1].kind # "capability"
               PROVE  phase # "done" /\ \A i \in DOMAIN got : got[i] = fields[i].val
    BY DEF CutIsMalformed
  <1>1. phase \in {"read", "malformed", "done"}
    BY DEF IInv, Written
  <1>2. Shape /\ Delivered /\ Counted /\ PlainRead /\ CreateRead /\ fields # <<>>
    BY <1>1 DEF IInv, Delivered
  <1>3. Len(fields) \in Nat /\ Len(fields) >= 1 /\ (AllPlain \/ OneAlone)
    BY <1>2, PlainOrAlone
  <1>4. /\ DOMAIN got = 1 .. Len(got) /\ Len(got) \in Nat /\ Len(got) <= Len(fields)
        /\ phase = "done" => Len(got) = Len(fields)
    BY <1>2, <1>3, GotIs DEF Counted
  <1>5. CASE AllPlain
    <2>1. /\ pos = Len(Upto(Marshalled, Len(got))) /\ pos <= Len(out)
          /\ \A i \in 1 .. Len(got) : got[i] = fields[i].val
      BY <1>2, <1>5 DEF PlainRead, Plain, AllPlain
    <2>2. ASSUME phase = "done" PROVE FALSE
      <3>1. Len(got) = Len(fields)
        BY <1>4, <2>2
      <3>2. Marshalled \in Seq(Seq(Nat)) /\ Len(Marshalled) = Len(fields) /\ Total \in Seq(Nat)
        BY <1>2, ShapeGives
      <3>3. Upto(Marshalled, Len(Marshalled)) = Total
        <4> HIDE DEF Marshalled
        <4> QED BY <3>2, Pieces DEF Total
      <3>4. pos = Len(Total)
        BY <2>1, <3>1, <3>2, <3>3
      <3>5. out \in Seq(Nat) /\ Len(out) <= Len(Total) /\ Len(out) # Len(Total)
        BY Zenon, <1>2 DEF Delivered
      <3>6. Len(out) \in Nat /\ Len(Total) \in Nat
        BY <3>2, <3>5, LenProperties
      <3> HIDE DEF Total
      <3> QED BY <2>1, <3>4, <3>5, <3>6
    <2> QED BY <1>4, <2>1, <2>2
  <1>6. CASE OneAlone
    <2>1. fields[1].kind = "create" /\ Len(fields) = 1
      BY <1>6 DEF OneAlone, Alone
    <2>2. Len(got) # 1
      BY <1>2, <2>1 DEF CreateRead
    <2>3. Len(got) = 0
      BY <1>4, <2>1, <2>2
    <2> QED BY <1>4, <2>1, <2>3
  <1> QED BY <1>3, <1>5, <1>6

\* It implies NeverAnotherObject.
LEMMA NeverAnotherObjectHolds == IInv => NeverAnotherObject
  <1> SUFFICES ASSUME IInv, NEW i \in DOMAIN got, fields[i].kind = "create"
               PROVE  got[i] = fields[i].val /\ CreateFits(fields[i].val)
    BY DEF NeverAnotherObject
  <1>1. phase \in {"read", "malformed", "done"}
    BY DEF IInv, Written
  <1>2. Shape /\ Delivered /\ Counted /\ CreateRead /\ fields # <<>>
    BY <1>1 DEF IInv, Delivered
  <1>3. /\ Len(fields) \in Nat /\ DOMAIN fields = 1 .. Len(fields)
        /\ \A j \in DOMAIN fields : fields[j].kind \in Alone => j = 1 /\ Len(fields) = 1
    BY <1>2, PlainOrAlone
  <1>4. DOMAIN got = 1 .. Len(got) /\ Len(got) \in Nat /\ Len(got) <= Len(fields)
    BY <1>2, <1>3, GotIs
  <1>5. i \in DOMAIN fields
    BY <1>3, <1>4
  <1>6. i = 1 /\ Len(fields) = 1
    BY <1>3, <1>5 DEF Alone
  <1>7. Len(got) = 1
    BY <1>4, <1>6
  <1> QED BY <1>2, <1>6, <1>7 DEF CreateRead

\* Of two powers of two below 256 one divides the other to an odd number only if
\* they are the same.
LEMMA OneBitOnly ==
  ASSUME NEW j \in 0 .. 7, NEW k \in 0 .. 7
  PROVE  /\ ((OneBit[j + 1] \div OneBit[k + 1]) % 2 = 0) <=> j # k
         /\ (0 \div OneBit[k + 1]) % 2 = 0
  <1>1. OneBit[1] = 1 /\ OneBit[2] = 2 /\ OneBit[3] = 4 /\ OneBit[4] = 8
    BY DEF OneBit
  <1>2. OneBit[5] = 16 /\ OneBit[6] = 32 /\ OneBit[7] = 64 /\ OneBit[8] = 128
    BY DEF OneBit
  <1>3. j = 0 \/ j = 1 \/ j = 2 \/ j = 3 \/ j = 4 \/ j = 5 \/ j = 6 \/ j = 7
    OBVIOUS
  <1>4. k = 0 \/ k = 1 \/ k = 2 \/ k = 3 \/ k = 4 \/ k = 5 \/ k = 6 \/ k = 7
    OBVIOUS
  <1>5. CASE k = 0
    <2>1. OneBit[k + 1] = 1
      BY <1>1, <1>5
    <2> QED BY <1>1, <1>2, <1>3, <1>5, <2>1
  <1>6. CASE k = 1
    <2>1. OneBit[k + 1] = 2
      BY <1>1, <1>6
    <2> QED BY <1>1, <1>2, <1>3, <1>6, <2>1
  <1>7. CASE k = 2
    <2>1. OneBit[k + 1] = 4
      BY <1>1, <1>7
    <2> QED BY <1>1, <1>2, <1>3, <1>7, <2>1
  <1>8. CASE k = 3
    <2>1. OneBit[k + 1] = 8
      BY <1>1, <1>8
    <2> QED BY <1>1, <1>2, <1>3, <1>8, <2>1
  <1>9. CASE k = 4
    <2>1. OneBit[k + 1] = 16
      BY <1>2, <1>9
    <2> QED BY <1>1, <1>2, <1>3, <1>9, <2>1
  <1>10. CASE k = 5
    <2>1. OneBit[k + 1] = 32
      BY <1>2, <1>10
    <2> QED BY <1>1, <1>2, <1>3, <1>10, <2>1
  <1>11. CASE k = 6
    <2>1. OneBit[k + 1] = 64
      BY <1>2, <1>11
    <2> QED BY <1>1, <1>2, <1>3, <1>11, <2>1
  <1>12. CASE k = 7
    <2>1. OneBit[k + 1] = 128
      BY <1>2, <1>12
    <2> QED BY <1>1, <1>2, <1>3, <1>12, <2>1
  <1> QED BY <1>4, <1>5, <1>6, <1>7, <1>8, <1>9, <1>10, <1>11, <1>12

\* The PCR a bit of a bitmap stands for.
Bit(i, k) == 8 * (i - 1) + k

\* Those of a set of bytes.
LEMMA PlacesOf ==
  ASSUME NEW D
  PROVE  /\ \A x \in {Bit(i, k) : i \in D, k \in 0 .. 7} : \E i \in D, k \in 0 .. 7 : x = Bit(i, k)
         /\ \A i \in D, k \in 0 .. 7 : Bit(i, k) \in {Bit(j, n) : j \in D, n \in 0 .. 7}
  OBVIOUS

\* The bitmap of one PCR selects it and no other.
LEMMA SingleSelects ==
  ASSUME NEW pcr \in Nat
  PROVE  /\ Len(single(SHA256, pcr).select) >= 3
         /\ Selected(single(SHA256, pcr).select) = {pcr}
  <1> DEFINE byte == pcr \div 8
             bit == pcr % 8
             size == IF byte + 1 < 3 THEN 3 ELSE byte + 1
             select == [Zeros(size) EXCEPT ![byte + 1] = OneBit[bit + 1]]
             all == {Bit(i, k) : i \in DOMAIN select, k \in 0 .. 7}
             clear == {n \in 0 .. (8 * Len(select)) - 1 : (select[(n \div 8) + 1] \div OneBit[(n % 8) + 1]) % 2 = 0}
  <1>1. single(SHA256, pcr).select = select
    BY DEF single
  <1>2. byte \in Nat /\ bit \in 0 .. 7 /\ pcr = 8 * byte + bit
    OBVIOUS
  <1>3. size \in Nat /\ size >= 3 /\ byte + 1 \in 1 .. size
    <2> HIDE DEF byte
    <2> QED BY <1>2
  <1>4. Len(select) = size /\ DOMAIN select = 1 .. size
    <2> HIDE DEF byte, bit, size
    <2>1. DOMAIN select = 1 .. size
      BY <1>3 DEF Zeros
    <2>2. select \in Seq({0, OneBit[bit + 1]})
      BY <1>3 DEF Zeros
    <2> QED BY <1>3, <2>1, <2>2
  <1>5. /\ select[byte + 1] = OneBit[bit + 1]
        /\ \A i \in 1 .. size : i # byte + 1 => select[i] = 0
    <2> HIDE DEF byte, bit, size
    <2> QED BY <1>2, <1>3 DEF Zeros
  <1>6. Selected(select) = all \ clear
    BY DEF Selected, Bit
  <1>7. ASSUME NEW i \in 1 .. size, NEW k \in 0 .. 7
        PROVE  /\ 8 * (i - 1) + k \in 0 .. (8 * size) - 1
               /\ ((8 * (i - 1) + k) \div 8) + 1 = i /\ (8 * (i - 1) + k) % 8 = k
    <2> HIDE DEF byte, bit, size
    <2> QED BY <1>3
  <1>8. ASSUME NEW i \in 1 .. size, NEW k \in 0 .. 7
        PROVE  ((select[i] \div OneBit[k + 1]) % 2 = 0) <=> ~(i = byte + 1 /\ k = bit)
    <2> HIDE DEF byte, bit, size, select
    <2>1. CASE i = byte + 1
      <3>1. ((OneBit[bit + 1] \div OneBit[k + 1]) % 2 = 0) <=> bit # k
        BY <1>2, OneBitOnly
      <3> QED BY <1>5, <2>1, <3>1
    <2>2. CASE i # byte + 1
      <3>1. (0 \div OneBit[k + 1]) % 2 = 0
        BY <1>2, OneBitOnly
      <3> QED BY <1>5, <2>2, <3>1
    <2> QED BY <2>1, <2>2
  <1>9. ASSUME NEW i \in 1 .. size, NEW k \in 0 .. 7
        PROVE  8 * (i - 1) + k \in clear <=> ~(i = byte + 1 /\ k = bit)
    <2> DEFINE n == 8 * (i - 1) + k
    <2>1. n \in 0 .. (8 * Len(select)) - 1 /\ (n \div 8) + 1 = i /\ n % 8 = k
      BY <1>4, <1>7
    <2>2. ((select[i] \div OneBit[k + 1]) % 2 = 0) <=> ~(i = byte + 1 /\ k = bit)
      BY <1>8
    <2> HIDE DEF n, byte, bit, size, select
    <2>3. n \in clear <=> (select[i] \div OneBit[k + 1]) % 2 = 0
      BY Zenon, <2>1
    <2> QED BY <2>2, <2>3 DEF n
  <1> HIDE DEF all, clear, select, size
  <1>10. Selected(select) \subseteq {pcr}
    <2> SUFFICES ASSUME NEW x \in Selected(select)
                 PROVE  x = pcr
      BY Zenon
    <2>1. x \in all /\ x \notin clear
      BY <1>6
    <2>2. PICK i \in DOMAIN select, k \in 0 .. 7 : x = Bit(i, k)
      BY <2>1, PlacesOf DEF all
    <2> i \in 1 .. size
      BY Zenon, <1>4
    <2>3. i = byte + 1 /\ k = bit
      BY <1>9, <2>1, <2>2 DEF Bit
    <2> HIDE DEF byte, bit
    <2> QED BY <1>2, <2>2, <2>3 DEF Bit
  <1>11. pcr \in Selected(select)
    <2> DEFINE b == byte + 1
    <2> HIDE DEF byte, bit
    <2>1. b \in DOMAIN select /\ b \in 1 .. size /\ bit \in 0 .. 7 /\ pcr = 8 * (b - 1) + bit
      BY <1>2, <1>3, <1>4
    <2>2. 8 * (b - 1) + bit \notin clear
      BY <1>9, <2>1
    <2> HIDE DEF b
    <2>3. Bit(b, bit) \in all
      BY <2>1 DEF all
    <2>4. Bit(b, bit) = pcr
      BY <2>1 DEF Bit
    <2>5. pcr \notin clear
      BY <2>1, <2>2
    <2> QED BY Zenon, <1>6, <2>3, <2>4, <2>5
  <1> QED BY <1>1, <1>3, <1>4, <1>10, <1>11

\* The invariant implies OnePcrSelected.
LEMMA OnePcrSelectedHolds == IInv => OnePcrSelected
  <1> SUFFICES ASSUME IInv, NEW i \in DOMAIN got, NEW pcr \in PcrNumbers, BuffersFit, fields[i] = OnePcr(pcr)
               PROVE  Len(got[i][1].select) >= 3 /\ Selected(got[i][1].select) = {pcr}
    BY Zenon DEF OnePcrSelected
  <1>1. got[i] = fields[i].val
    <2>1. phase \in {"read", "malformed", "done"}
      BY DEF IInv, Written
    <2>2. Shape /\ Delivered /\ Counted /\ PlainRead /\ fields # <<>>
      BY <2>1 DEF IInv, Delivered
    <2>3. Len(fields) \in Nat /\ (AllPlain \/ OneAlone)
      BY <2>2, PlainOrAlone
    <2>4. DOMAIN got = 1 .. Len(got) /\ Len(got) \in Nat /\ Len(got) <= Len(fields)
      BY <2>2, <2>3, GotIs
    <2>5. CASE AllPlain
      BY <2>2, <2>4, <2>5 DEF PlainRead, Plain, AllPlain
    <2>6. CASE OneAlone
      <3>1. i = 1
        BY <2>4, <2>6 DEF OneAlone
      <3>2. fields[i].kind = "pcrs"
        BY DEF OnePcr, Field
      <3> QED BY <2>6, <3>1, <3>2 DEF OneAlone, Alone
    <2> QED BY <2>3, <2>5, <2>6
  <1>2. fields[i].val = << single(SHA256, pcr) >>
    BY DEF OnePcr, Field
  <1>3. got[i][1] = single(SHA256, pcr)
    BY <1>1, <1>2
  <1>4. pcr \in Nat
    BY Base DEF PcrNumbers, UINT8_MAX
  <1> QED BY <1>3, <1>4, SingleSelects

\* Marshal's RoundTrip: what one side marshalled the other reads back to the
\* last byte, whatever the fields and however many.
THEOREM RoundTrips == Spec => []RoundTrip
  BY Invariance, RoundTripHolds, PTL

\* Marshal's CutIsMalformed: the bounds checks of Reader::take find every string
\* cut short, and nothing was misread before that.
THEOREM CutsAreFound == Spec => []CutIsMalformed
  BY Invariance, CutIsMalformedHolds, PTL

\* Marshal's NeverAnotherObject: a command that lost a part to a dropped error
\* is never read as another command.
THEOREM NoOtherObject == Spec => []NeverAnotherObject
  BY Invariance, NeverAnotherObjectHolds, PTL

\* MCMarshal's OnePcrSelected: PcrSelection::single selects its PCR and no other.
THEOREM OneSelected == Spec => []OnePcrSelected
  BY Invariance, OnePcrSelectedHolds, PTL
=============================================================================
