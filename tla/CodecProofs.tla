----------------------------- MODULE CodecProofs -----------------------------
(***************************************************************************)
(* Theorems about Codec, for every base and every size of the buffer.  The *)
(* model runs at base 2; the code is the instance at base 256.             *)
(***************************************************************************)
EXTENDS Codec, TLAPS

-------------------------------------------------------------------------------
(* Arithmetic. *)

LEMMA DivMod ==
    ASSUME NEW x \in Nat, NEW a \in Nat, a > 0
    PROVE  /\ x \div a \in Nat /\ x % a \in 0..(a - 1)
           /\ x = a * (x \div a) + (x % a)
OBVIOUS

LEMMA Times ==
    ASSUME NEW a \in Nat, NEW b \in Nat
    PROVE  a * b \in Nat /\ a * b = b * a /\ (a > 0 /\ b > 0 => a * b > 0)
OBVIOUS

LEMMA Distribute ==
    ASSUME NEW a \in Nat, NEW b \in Nat, NEW c \in Nat
    PROVE  a * (b + c) = a * b + a * c /\ a * (b * c) = (a * b) * c
OBVIOUS

LEMMA Grows ==
    ASSUME NEW a \in Nat, NEW b \in Nat, NEW c \in Nat, b <= c
    PROVE  a * b <= a * c
<1>1. c - b \in Nat /\ c = b + (c - b)
  OBVIOUS
<1>2. a * c = a * b + a * (c - b)
  BY <1>1, Distribute
<1> QED
  BY <1>1, <1>2, Times

(* A quotient and a remainder in range are the ones of the division. *)
LEMMA DivModUnique ==
    ASSUME NEW x \in Nat, NEW a \in Nat, a > 0,
           NEW q \in Nat, NEW r \in 0..(a - 1), x = a * q + r
    PROVE  x \div a = q /\ x % a = r
<1> DEFINE p == x \div a
           s == x % a
<1>1. p \in Nat /\ s \in 0..(a - 1) /\ x = a * p + s
  BY DivMod
<1> HIDE DEF p, s
<1>2. a * p \in Nat /\ a * q \in Nat
  BY <1>1, Times
<1>3. CASE p < q
  <2>1. a * (p + 1) <= a * q
    BY <1>1, <1>3, Grows
  <2>2. a * (p + 1) = a * p + a
    BY <1>1
  <2> QED
    BY <1>1, <1>2, <2>1, <2>2
<1>4. CASE q < p
  <2>1. a * (q + 1) <= a * p
    BY <1>1, <1>4, Grows
  <2>2. a * (q + 1) = a * q + a
    OBVIOUS
  <2> QED
    BY <1>1, <1>2, <2>1, <2>2
<1>5. p = q
  BY <1>1, <1>3, <1>4
<1>6. s = r
  BY <1>1, <1>2, <1>5
<1> QED
  BY <1>5, <1>6 DEF p, s

(* Two shifts are one. *)
LEMMA DivTwice ==
    ASSUME NEW x \in Nat, NEW a \in Nat, a > 0, NEW b \in Nat, b > 0
    PROVE  x \div (a * b) = (x \div a) \div b
<1> DEFINE p == x \div a
           q == p \div b
           r == a * (p % b) + (x % a)
<1>1. p \in Nat /\ x % a \in 0..(a - 1) /\ x = a * p + (x % a)
  BY DivMod
<1>2. q \in Nat /\ p % b \in 0..(b - 1) /\ p = b * q + (p % b)
  <2> HIDE DEF p
  <2> QED
    BY <1>1, DivMod
<1> DEFINE u == x % a
           v == p % b
<1>3. u \in Nat /\ u < a /\ v \in Nat /\ v < b
  BY <1>1, <1>2
<1>4. r = a * v + u
  OBVIOUS
<1> HIDE DEF p, q, r, u, v
<1>5. x = a * p + u /\ p = b * q + v
  BY <1>1, <1>2 DEF u, v
<1>6. a * b \in Nat /\ a * b > 0 /\ b * q \in Nat /\ a * (b * q) \in Nat /\ a * v \in Nat
  BY <1>2, <1>3, Times
<1>7. a * p = (a * b) * q + a * v
  BY <1>2, <1>3, <1>5, <1>6, Distribute
<1>8. (a * b) * q \in Nat
  BY <1>2, <1>6, Times
<1>9. x = (a * b) * q + r
  BY <1>3, <1>4, <1>5, <1>6, <1>7, <1>8
<1>10. r \in 0..(a * b - 1)
  <2>1. a * (v + 1) <= a * b
    BY <1>3, Grows
  <2>2. a * (v + 1) = a * v + a
    BY <1>3
  <2> QED
    BY <1>3, <1>4, <1>6, <2>1, <2>2
<1>11. x \div (a * b) = q
  BY <1>2, <1>6, <1>9, <1>10, DivModUnique
<1> QED
  BY <1>11 DEF q, p

-------------------------------------------------------------------------------
(* The bytes of a value. *)

LEMMA Radix == Base \in Nat /\ Base > 1
BY CodecAssumption

LEMMA Products ==
    ASSUME NEW a \in Nat, a > 0, NEW b \in Nat, b > 0, NEW c \in Nat, c > 0
    PROVE  a * b \in Nat /\ a * b > 0 /\ (a * b) * c = a * (b * c)
OBVIOUS

LEMMA Weights ==
    /\ \A k \in 0..8 : Weight(k) \in Nat /\ Weight(k) > 0
    /\ \A k \in 0..7 : Weight(k + 1) = Weight(k) * Base
    /\ Weight(0) = 1 /\ Weight(1) = Base
<1> DEFINE two == Base * Base
           four == two * two
<1>0. Base \in Nat /\ Base > 0
  BY Radix
<1>1. /\ Weight(0) = 1 /\ Weight(1) = Base /\ Weight(2) = two /\ Weight(3) = two * Base
      /\ Weight(4) = four /\ Weight(5) = four * Base /\ Weight(6) = four * two
      /\ Weight(7) = four * two * Base /\ Weight(8) = four * four
  BY DEF Weight
<1>2. two \in Nat /\ two > 0
  BY <1>0, Products
<1>3. four \in Nat /\ four > 0 /\ two * Base \in Nat /\ two * Base > 0
      /\ (two * Base) * Base = two * (Base * Base)
  <2> HIDE DEF two
  <2> QED
    BY <1>0, <1>2, Products
<1>4. two * (Base * Base) = four
  OBVIOUS
<1>5. /\ four * Base \in Nat /\ four * Base > 0
      /\ four * two \in Nat /\ four * two > 0
      /\ (four * Base) * Base = four * (Base * Base)
  <2> HIDE DEF two, four
  <2> QED
    BY <1>0, <1>2, <1>3, Products
<1>6. four * (Base * Base) = four * two
  OBVIOUS
<1>7. /\ four * two * Base \in Nat /\ four * two * Base > 0
      /\ four * four \in Nat /\ four * four > 0
      /\ ((four * two) * Base) * Base = (four * two) * (Base * Base)
  <2> HIDE DEF two, four
  <2> QED
    BY <1>0, <1>2, <1>3, <1>5, Products
<1>8. (four * two) * (Base * Base) = four * four
  <2>1. (four * two) * two = four * (two * two)
    <3> HIDE DEF two, four
    <3> QED
      BY <1>2, <1>3, Products
  <2> QED
    BY <2>1
<1> HIDE DEF two, four
<1>9. ASSUME NEW k \in 0..8 PROVE Weight(k) \in Nat /\ Weight(k) > 0
  <2>1. k = 0 \/ k = 1 \/ k = 2 \/ k = 3 \/ k = 4 \/ k = 5 \/ k = 6 \/ k = 7 \/ k = 8
    OBVIOUS
  <2> QED
    BY <1>0, <1>1, <1>2, <1>3, <1>5, <1>7, <2>1
<1>10. ASSUME NEW k \in 0..7 PROVE Weight(k + 1) = Weight(k) * Base
  <2>1. CASE k = 0
    BY <1>0, <1>1, <2>1
  <2>2. CASE k = 1
    BY <1>1, <2>2 DEF two
  <2>3. CASE k = 2
    BY <1>1, <2>3
  <2>4. CASE k = 3
    BY <1>1, <1>3, <1>4, <2>4
  <2>5. CASE k = 4
    BY <1>1, <2>5
  <2>6. CASE k = 5
    BY <1>1, <1>5, <1>6, <2>6
  <2>7. CASE k = 6
    BY <1>1, <2>7
  <2>8. CASE k = 7
    BY <1>1, <1>7, <1>8, <2>8
  <2> QED
    BY <2>1, <2>2, <2>3, <2>4, <2>5, <2>6, <2>7, <2>8
<1> QED
  BY <1>1, <1>9, <1>10

(* What is left of a value when k bytes are shifted out. *)
Rest(value, k) == value \div Weight(k)

LEMMA RestStep ==
    ASSUME NEW value \in Nat, NEW k \in 0..7
    PROVE  /\ Rest(value, k) \in Nat /\ Rest(value, k + 1) \in Nat
           /\ ByteOf(value, k) \in Byte
           /\ Rest(value, k) = Base * Rest(value, k + 1) + ByteOf(value, k)
           /\ Rest(value, k) * Weight(k)
              = Rest(value, k + 1) * Weight(k + 1) + ByteOf(value, k) * Weight(k)
<1> DEFINE W == Weight(k)
           p == value \div W
           q == p \div Base
           b == p % Base
<1>1. W \in Nat /\ W > 0 /\ Weight(k + 1) = W * Base
  BY Weights
<1>2. Base \in Nat /\ Base > 0
  BY Radix
<1> HIDE DEF W
<1>3. p \in Nat
  BY <1>1, DivMod
<1>4. value \div (W * Base) = q
  BY <1>1, <1>2, DivTwice
<1> HIDE DEF p
<1>5. q \in Nat /\ b \in 0..(Base - 1) /\ p = Base * q + b
  BY <1>2, <1>3, DivMod
<1>6. Rest(value, k) = p /\ Rest(value, k + 1) = q /\ ByteOf(value, k) = b
  BY <1>1, <1>4 DEF Rest, ByteOf, W, p
<1> HIDE DEF q, b
<1>7. p * W = q * (W * Base) + b * W
  <2>1. Base * q \in Nat /\ b \in Nat
    BY <1>2, <1>5, Times
  <2>2. W * p = W * (Base * q) + W * b
    BY <1>1, <1>5, <2>1, Distribute
  <2>3. W * (Base * q) = (W * Base) * q
    BY <1>1, <1>2, <1>5, Distribute
  <2>4. W * Base \in Nat
    BY <1>1, <1>2, Times
  <2>5. (W * Base) * q = q * (W * Base)
    BY <1>5, <2>4, Times
  <2>6. W * p = p * W /\ W * b = b * W
    BY <1>1, <1>3, <2>1, Times
  <2> QED
    BY <2>2, <2>3, <2>5, <2>6
<1> QED
  BY <1>1, <1>3, <1>5, <1>6, <1>7 DEF Byte, W

(* All the bytes of a value that fits leave nothing. *)
LEMMA NothingLeft ==
    ASSUME NEW k \in 0..8, NEW value \in Nat, value < Weight(k)
    PROVE  Rest(value, k) = 0
<1> DEFINE W == Weight(k)
<1>1. W \in Nat /\ W > 0 /\ W * 0 = 0 /\ value \in 0..(W - 1) /\ value = W * 0 + value
  BY Weights
<1> HIDE DEF W
<1>2. value \div W = 0
  BY <1>1, DivModUnique
<1> QED
  BY <1>2 DEF Rest, W

-------------------------------------------------------------------------------
(* The buffer. *)

Widths == {2, 4, 8}

(* Every cell of a field that was not overwritten holds its byte of the value. *)
Intact(f) ==
    /\ f.at \in Nat /\ f.width \in Widths /\ f.at + f.width <= Size
    /\ f.value \in Nat /\ f.value < Weight(f.width)
    /\ \A k \in 0..(f.width - 1) : buf[f.at + k] = ByteOf(f.value, k)

(* The types: the code stores through a uint8_t pointer. *)
CodecTyped == buf \in [Cells -> Byte]

CodecInv == CodecTyped /\ \A f \in fields : Intact(f)

LEMMA CodecStep == CodecInv /\ [CodecNext]_codecVars => CodecInv'
<1> SUFFICES ASSUME CodecInv, [CodecNext]_codecVars PROVE CodecInv'
  OBVIOUS
<1>1. CASE UNCHANGED codecVars
  BY <1>1 DEF codecVars, CodecInv, CodecTyped, Intact
<1>2. ASSUME NEW width \in Widths, NEW at \in Cells, at + width <= Size,
             NEW value \in 0..(Weight(width) - 1), encode_le(at, value, width)
      PROVE  CodecInv'
  <2> DEFINE new == [at |-> at, width |-> width, value |-> value]
  <2>0. at \in Nat /\ width \in 1..8 /\ width \in Nat /\ Size \in Nat
    BY CodecAssumption DEF Widths, Cells
  <2>1. value \in Nat /\ value < Weight(width)
    BY <2>0, Weights
  <2>2. ASSUME NEW k \in 0..(width - 1) PROVE ByteOf(value, k) \in Byte
    <3>1. k \in 0..7
      BY <2>0
    <3> QED
      BY <2>1, <3>1, RestStep
  <2>3. ASSUME NEW i \in Cells
        PROVE  buf'[i] = IF i \in at..(at + width - 1) THEN ByteOf(value, i - at) ELSE buf[i]
    <3>1. i \in at..(at + width - 1) => i - at \in 0..(width - 1)
      BY <2>0 DEF Cells
    <3> QED
      BY <1>2, <3>1 DEF encode_le, Encoded, Stored
  <2>4. buf' \in [Cells -> Byte]
    <3>1. \A i \in at..(at + width - 1) : i - at \in 0..(width - 1)
      BY <2>0
    <3>2. \A i \in Cells : buf'[i] \in Byte
      BY <2>2, <2>3, <3>1 DEF CodecInv, CodecTyped
    <3>3. buf' = [i \in Cells |-> buf'[i]]
      BY <1>2 DEF encode_le, Encoded, Stored
    <3> QED
      BY <3>2, <3>3
  <2>6. fields' = {f \in fields : Span(f) \cap Span(new) = {}} \cup {new}
    BY <1>2 DEF encode_le
  <2>7. CodecTyped'
    BY <2>4 DEF CodecTyped
  <2>8. Intact(new)'
    <3>1. ASSUME NEW k \in 0..(width - 1) PROVE buf'[at + k] = ByteOf(value, k)
      <4>1. at + k \in Cells /\ at + k \in at..(at + width - 1) /\ (at + k) - at = k
        BY <1>2, <2>0 DEF Cells
      <4> QED
        BY <2>3, <4>1
    <3> QED
      BY <1>2, <2>0, <2>1, <3>1 DEF Intact
  <2>9. ASSUME NEW f \in fields, Span(f) \cap Span(new) = {} PROVE Intact(f)'
    <3>1. Intact(f)
      BY DEF CodecInv
    <3>2. ASSUME NEW k \in 0..(f.width - 1) PROVE buf'[f.at + k] = buf[f.at + k]
      <4>1. f.at \in Nat /\ f.width \in Nat /\ f.at + f.width <= Size
        BY <3>1 DEF Intact, Widths
      <4>2. f.at + k \in Cells /\ f.at + k \in Span(f)
        BY <2>0, <4>1 DEF Cells, Span
      <4>3. f.at + k \notin at..(at + width - 1)
        BY <2>9, <4>2 DEF Span
      <4> QED
        BY <2>3, <4>2, <4>3
    <3> QED
      BY <3>1, <3>2 DEF Intact
  <2> HIDE DEF new
  <2> QED
    BY <2>6, <2>7, <2>8, <2>9 DEF CodecInv
<1>3. CodecNext => CodecInv'
  BY <1>2 DEF CodecNext, Widths
<1> QED
  BY <1>1, <1>3

LEMMA CodecInvariant == CodecSpec => []CodecInv
<1>1. CodecInit => CodecInv
  BY DEF CodecInit, CodecInv, CodecTyped
<1> QED
  BY <1>1, CodecStep, PTL DEF CodecSpec

(* A value is the sum of its bytes, each with its weight, and of what is left. *)
Digit(value, k) == ByteOf(value, k) * Weight(k)
Left(value, k) == Rest(value, k) * Weight(k)

LEMMA SumOfBytes ==
    ASSUME NEW value \in Nat
    PROVE  /\ value = Left(value, 0) /\ Digit(value, 0) = ByteOf(value, 0)
           /\ \A k \in 0..7 : /\ Left(value, k) = Left(value, k + 1) + Digit(value, k)
                              /\ Left(value, k + 1) \in Nat /\ Digit(value, k) \in Nat
           /\ \A k \in 0..8 : value < Weight(k) => Left(value, k) = 0
<1>1. ASSUME NEW k \in 0..7
      PROVE  /\ Left(value, k) = Left(value, k + 1) + Digit(value, k)
             /\ Left(value, k + 1) \in Nat /\ Digit(value, k) \in Nat
  <2>1. k \in 0..8 /\ k + 1 \in 0..8
    OBVIOUS
  <2>2. Weight(k) \in Nat /\ Weight(k + 1) \in Nat
    BY <2>1, Weights
  <2>3. /\ Rest(value, k + 1) \in Nat /\ ByteOf(value, k) \in Nat
        /\ Left(value, k) = Left(value, k + 1) + Digit(value, k)
    <3>1. Rest(value, k + 1) \in Nat /\ ByteOf(value, k) \in Byte
      BY RestStep
    <3>2. Left(value, k) = Left(value, k + 1) + Digit(value, k)
      BY RestStep, Zenon DEF Left, Digit
    <3> QED
      BY <3>1, <3>2, Radix DEF Byte
  <2> QED
    BY <2>2, <2>3, Times DEF Left, Digit
<1>2. value = Left(value, 0)
  <2>1. value \div 1 = value /\ value * 1 = value
    OBVIOUS
  <2> QED
    BY <2>1, Weights DEF Left, Rest
<1>3. Digit(value, 0) = ByteOf(value, 0)
  <2>1. ByteOf(value, 0) \in Nat
    BY RestStep, Radix DEF Byte
  <2> QED
    BY <2>1, Weights DEF Digit
<1>4. ASSUME NEW k \in 0..8, value < Weight(k) PROVE Left(value, k) = 0
  BY <1>4, NothingLeft, Weights DEF Left
<1> QED
  BY <1>1, <1>2, <1>3, <1>4

LEMMA IntactReads ==
    ASSUME CodecInv, NEW f \in fields
    PROVE  Decoded(f) = f.value
<1> DEFINE v == f.value
<1>0. Intact(f) /\ v \in Nat /\ v < Weight(f.width)
  BY DEF CodecInv, Intact
<1>1. ASSUME NEW k \in 0..(f.width - 1) PROVE buf[f.at + k] = ByteOf(v, k)
  BY <1>0 DEF Intact
<1>2. f.width \in Widths /\ f.at \in Nat /\ f.at + 0 = f.at
  BY <1>0 DEF Intact
<1>3. v = Left(v, 0) /\ Digit(v, 0) = ByteOf(v, 0) /\ (f.width \in 0..8 => Left(v, f.width) = 0)
  BY <1>0, SumOfBytes
<1>4. ASSUME NEW k \in 0..7
      PROVE  /\ Left(v, k) = Left(v, k + 1) + Digit(v, k)
             /\ Left(v, k + 1) \in Nat /\ Digit(v, k) \in Nat
  BY <1>0, SumOfBytes
<1> HIDE DEF v
<1>5. CASE f.width = 2
  <2>1. Decoded(f) = buf[f.at + 0] + buf[f.at + 1] * Weight(1)
    BY <1>2, <1>5 DEF Decoded, decode_uint16_le
  <2>2. Decoded(f) = Digit(v, 0) + Digit(v, 1)
    BY <1>1, <1>3, <1>5, <2>1 DEF Digit
  <2>3. /\ Left(v, 0) = Left(v, 1) + Digit(v, 0)
        /\ Left(v, 1) = Left(v, 2) + Digit(v, 1)
    BY <1>4
  <2> QED
    BY <1>3, <1>4, <1>5, <2>2, <2>3 DEF v
<1>6. CASE f.width = 4
  <2>1. Decoded(f) = buf[f.at + 0] + buf[f.at + 1] * Weight(1) + buf[f.at + 2] * Weight(2)
                     + buf[f.at + 3] * Weight(3)
    BY <1>2, <1>6 DEF Decoded, decode_uint32_le
  <2>2. Decoded(f) = Digit(v, 0) + Digit(v, 1) + Digit(v, 2) + Digit(v, 3)
    BY <1>1, <1>3, <1>6, <2>1 DEF Digit
  <2>3. /\ Left(v, 0) = Left(v, 1) + Digit(v, 0)
        /\ Left(v, 1) = Left(v, 2) + Digit(v, 1)
        /\ Left(v, 2) = Left(v, 3) + Digit(v, 2)
        /\ Left(v, 3) = Left(v, 4) + Digit(v, 3)
    BY <1>4
  <2> QED
    BY <1>3, <1>4, <1>6, <2>2, <2>3 DEF v
<1>7. CASE f.width = 8
  <2>1. Decoded(f) = buf[f.at + 0] + buf[f.at + 1] * Weight(1) + buf[f.at + 2] * Weight(2)
                     + buf[f.at + 3] * Weight(3) + buf[f.at + 4] * Weight(4)
                     + buf[f.at + 5] * Weight(5) + buf[f.at + 6] * Weight(6)
                     + buf[f.at + 7] * Weight(7)
    BY <1>2, <1>7 DEF Decoded, decode_uint64_le
  <2>2. Decoded(f) = Digit(v, 0) + Digit(v, 1) + Digit(v, 2) + Digit(v, 3)
                     + Digit(v, 4) + Digit(v, 5) + Digit(v, 6) + Digit(v, 7)
    BY <1>1, <1>3, <1>7, <2>1 DEF Digit
  <2>3. /\ Left(v, 0) = Left(v, 1) + Digit(v, 0)
        /\ Left(v, 1) = Left(v, 2) + Digit(v, 1)
        /\ Left(v, 2) = Left(v, 3) + Digit(v, 2)
        /\ Left(v, 3) = Left(v, 4) + Digit(v, 3)
        /\ Left(v, 4) = Left(v, 5) + Digit(v, 4)
        /\ Left(v, 5) = Left(v, 6) + Digit(v, 5)
        /\ Left(v, 6) = Left(v, 7) + Digit(v, 6)
        /\ Left(v, 7) = Left(v, 8) + Digit(v, 7)
    BY <1>4
  <2> QED
    BY <1>3, <1>4, <1>7, <2>2, <2>3 DEF v
<1> QED
  BY <1>2, <1>5, <1>6, <1>7 DEF Widths

(* What an encoder of buf.h packs its decoder unpacks, for bytes of every base *)
(* (256 in the code), fields anywhere in a buffer of every size, and every     *)
(* order of writes that does not touch the field again.                        *)
THEOREM DecodesWhatWasEncoded == CodecSpec => []ReadBack
<1>1. CodecInv => ReadBack
  BY IntactReads DEF ReadBack
<1> QED
  BY <1>1, CodecInvariant, PTL

(* Two bytes side by side are a number of two digits. *)
LEMMA TwoBytes ==
    ASSUME NEW value \in Nat, NEW k \in 0..6
    PROVE  /\ ByteOf(value, k) + ByteOf(value, k + 1) * Weight(1) \in 0..(Weight(2) - 1)
           /\ Rest(value, k) = Weight(2) * Rest(value, k + 2)
                               + (ByteOf(value, k) + ByteOf(value, k + 1) * Weight(1))
<1> DEFINE a == ByteOf(value, k)
           b == ByteOf(value, k + 1)
           p == Rest(value, k)
           q == Rest(value, k + 1)
           r == Rest(value, k + 2)
<1>0. k \in 0..7 /\ k + 1 \in 0..7 /\ (k + 1) + 1 = k + 2
  OBVIOUS
<1>1. p \in Nat /\ q \in Nat /\ a \in Byte /\ p = Base * q + a
  BY <1>0, RestStep
<1>2. r \in Nat /\ b \in Byte /\ q = Base * r + b
  <2>1. Rest(value, (k + 1) + 1) = Rest(value, k + 2)
    BY <1>0
  <2> QED
    BY <1>0, <2>1, RestStep
<1>3. Weight(1) = Base /\ Weight(2) = Base * Base /\ Base \in Nat /\ Base > 1
  <2>1. Weight(1 + 1) = Weight(1) * Base
    BY Weights
  <2> QED
    BY <2>1, Weights, Radix
<1> HIDE DEF a, b, p, q, r
<1>4. a \in Nat /\ b \in Nat /\ a < Base /\ b < Base
  BY <1>1, <1>2, <1>3 DEF Byte
<1>5. Base * r \in Nat /\ Base * b \in Nat /\ Base * q = Base * (Base * r) + Base * b
  BY <1>2, <1>3, <1>4, Times, Distribute
<1>6. Base * (Base * r) = (Base * Base) * r /\ Base * b = b * Base
  BY <1>2, <1>3, <1>4, Times, Distribute
<1>7. (Base * Base) * r \in Nat /\ Base * Base \in Nat
  BY <1>2, <1>3, Times
<1>8. p = (Base * Base) * r + (a + b * Base)
  BY <1>1, <1>4, <1>5, <1>6, <1>7
<1>9. a + b * Base \in 0..(Base * Base - 1)
  <2>1. Base * (b + 1) <= Base * Base
    BY <1>3, <1>4, Grows
  <2>2. Base * (b + 1) = Base * b + Base
    BY <1>3, <1>4
  <2> QED
    BY <1>3, <1>4, <1>5, <1>6, <1>7, <2>1, <2>2
<1> QED
  BY <1>3, <1>8, <1>9 DEF a, b, p, r

LEMMA IntactOrder ==
    ASSUME CodecInv, NEW f \in fields
    PROVE  /\ decode_uint16_le(f.at) = f.value % Weight(2)
           /\ decode_uint16_le(f.at + f.width - 2) = f.value \div Weight(f.width - 2)
<1> DEFINE v == f.value
           w == f.width
           at == f.at
<1>0. Intact(f) /\ v \in Nat /\ v < Weight(w) /\ w \in Widths /\ at \in Nat
  BY DEF CodecInv, Intact
<1>1. ASSUME NEW k \in 0..(w - 1) PROVE buf[at + k] = ByteOf(v, k)
  BY <1>0 DEF Intact
<1> HIDE DEF v, w, at
<1>2. /\ w \in 2..8 /\ w \in Nat /\ w - 2 \in 0..6 /\ 0 \in 0..(w - 1) /\ 1 \in 0..(w - 1)
      /\ w - 2 \in 0..(w - 1) /\ (w - 2) + 1 \in 0..(w - 1) /\ (w - 2) + 2 = w
      /\ at + 0 = at /\ (at + (w - 2)) + 1 = at + ((w - 2) + 1)
  BY <1>0 DEF Widths
<1>3. decode_uint16_le(at) = v % Weight(2)
  <2> DEFINE two == ByteOf(v, 0) + ByteOf(v, 1) * Weight(1)
  <2>1. buf[at] = ByteOf(v, 0) /\ buf[at + 1] = ByteOf(v, 1)
    <3>1. buf[at + 0] = ByteOf(v, 0) /\ buf[at + 1] = ByteOf(v, 1)
      BY <1>1, <1>2
    <3> QED
      BY <1>2, <3>1
  <2>2. decode_uint16_le(at) = two
    BY <2>1 DEF decode_uint16_le
  <2>3. two \in 0..(Weight(2) - 1) /\ Rest(v, 0) = Weight(2) * Rest(v, 2) + two
    BY <1>0, TwoBytes
  <2>4. Rest(v, 0) = v /\ Rest(v, 2) \in Nat /\ Weight(2) \in Nat /\ Weight(2) > 0
    <3>1. v \div 1 = v
      BY <1>0
    <3>2. Rest(v, 1 + 1) \in Nat
      BY <1>0, RestStep
    <3> QED
      BY <3>1, <3>2, Weights DEF Rest
  <2> HIDE DEF two
  <2>5. v % Weight(2) = two
    BY <1>0, <2>3, <2>4, DivModUnique
  <2> QED
    BY <2>2, <2>5
<1>4. decode_uint16_le(at + (w - 2)) = v \div Weight(w - 2)
  <2> DEFINE k == w - 2
             two == ByteOf(v, k) + ByteOf(v, k + 1) * Weight(1)
  <2>1. buf[at + k] = ByteOf(v, k) /\ buf[at + (k + 1)] = ByteOf(v, k + 1)
    BY <1>1, <1>2
  <2>2. decode_uint16_le(at + k) = two
    BY <1>2, <2>1 DEF decode_uint16_le
  <2>3. two \in 0..(Weight(2) - 1) /\ Rest(v, k) = Weight(2) * Rest(v, k + 2) + two
    BY <1>0, <1>2, TwoBytes
  <2>4. Rest(v, k + 2) = 0 /\ Weight(2) \in Nat
    <3>1. Rest(v, w) = 0
      BY <1>0, <1>2, NothingLeft
    <3> QED
      BY <1>2, <3>1, Weights
  <2> HIDE DEF two
  <2>5. Rest(v, k) = two
    BY <2>3, <2>4
  <2> QED
    BY <2>2, <2>5 DEF Rest
<1> QED
  BY <1>3, <1>4 DEF v, w, at

(* The bytes go least significant first, for every base and width: a reader of *)
(* two bytes sees the low or the high end of a wider field.                    *)
THEOREM BytesAreLittleEndian == CodecSpec => []LittleEndian
<1>1. CodecInv => LittleEndian
  BY IntactOrder DEF LittleEndian
<1> QED
  BY <1>1, CodecInvariant, PTL

===============================================================================
