----------------------------- MODULE BigInteger -----------------------------
(***************************************************************************)
(* The integers of the virtual machine (BigInteger.cpp).                   *)
(*                                                                         *)
(* A BigInteger is a record [sign, bits].  Without bits, sign is the       *)
(* value; with bits, words that are least significant first, sign is +1 or *)
(* -1 and bits the magnitude, of which the highest word may be 0.          *)
(* Words have WordBits bits, 32 in the code, of BytesPerWord bytes.        *)
(***************************************************************************)
EXTENDS BigIntegerBuilder

Bits == INSTANCE Bitwise

CONSTANT BytesPerWord   \* 4

ASSUME BytesAssumption == BytesPerWord \in Nat /\ WordBits % BytesPerWord = 0

ByteBase == 2 ^ (WordBits \div BytesPerWord)

HalfBase == Base \div 2   \* kuMaskHighBit, and Int32MinValue without its sign

Packed(v) == [sign |-> v, bits |-> << >>]

Zero == Packed(0)

One == Packed(1)

MinusOne == Packed(-1)

(* Min: the number that int32 could hold and that is not packed.           *)
MinInt == [sign |-> -1, bits |-> <<HalfBase>>]

(* BigInteger(sign, rgu, size), of the parts that GetInteger returns.      *)
FromParts(parts) == [sign |-> parts.sign, bits |-> parts.bits]

----------------------------------------------------------------------------
(* Two's complement.                                                       *)

(* DangerousMakeTwosComplement, in place: words that are all 0 stay so,    *)
(* there is no word for the carry.                                         *)
TwosComplement(d) ==
  LET low == Min({i \in DOMAIN d : d[i] # 0} \cup {Len(d) + 1})
  IN  [i \in DOMAIN d |-> IF i < low THEN 0
                          ELSE IF i = low THEN Base - d[i] ELSE Base - 1 - d[i]]

(* How many words are left without those at the top that are 0.            *)
Used(w) == Max({0} \cup {i \in DOMAIN w : w[i] # 0})

Trimmed(w) == SubSeq(w, 1, Used(w))

(* Mutant: one word stays one.                                             *)
FromMagnitudeUnpacked(w, negative) ==
  IF Used(w) = 0 THEN Zero
  ELSE [sign |-> IF negative THEN -1 ELSE 1, bits |-> Trimmed(w)]

(* BigInteger(value, size, negative): a magnitude.                         *)
FromMagnitude(w, negative) ==
  LET used == Used(w)
  IN  CASE used = 0 -> Zero
        [] used = 1 /\ w[1] < HalfBase -> Packed(IF negative THEN -w[1] ELSE w[1])
        [] used > 1 \/ (used = 1 /\ w[1] >= HalfBase) ->
             [sign |-> IF negative THEN -1 ELSE 1, bits |-> Trimmed(w)]

(* The end of both constructors from two's complement, for a negative      *)
(* number: t is its magnitude.                                             *)
NegativeFrom(t) ==
  IF Used(t) = 1 /\ t[1] < HalfBase THEN Packed(-t[1])
  ELSE [sign |-> -1, bits |-> Trimmed(t)]

(* The same for one word.                                                  *)
FromWord(u, negative) ==
  CASE u < HalfBase -> Packed(u)
    [] u >= HalfBase /\ ~negative -> [sign |-> 1, bits |-> <<u>>]
    [] u = HalfBase /\ negative -> MinInt
    [] u > HalfBase /\ negative -> Packed(u - Base)

(* BigInteger(value, size): words in two's complement.                     *)
FromTwos(w) ==
  LET negative == w[Len(w)] >= HalfBase
  IN  CASE Used(w) = 0 -> Zero
        [] Used(w) = 1 -> FromWord(w[1], negative)
        [] Used(w) > 1 /\ ~negative -> [sign |-> 1, bits |-> Trimmed(w)]
        [] Used(w) > 1 /\ negative -> NegativeFrom(TwosComplement(w))

(* BigInteger(value, byteCount): bytes in two's complement, whose last     *)
(* word is filled up with the sign.                                        *)
FromBytes(b) ==
  LET negative == b # << >> /\ b[Len(b)] >= ByteBase \div 2
      used     == Used(b)
      fill     == IF negative THEN ByteBase - 1 ELSE 0
      byte(i)  == IF i <= used THEN b[i] ELSE fill
      words    == (used + BytesPerWord - 1) \div BytesPerWord
      word(k)  == FoldLeft(LAMBDA acc, j : acc * ByteBase + byte(k * BytesPerWord - j + 1),
                           0, [j \in 1 .. BytesPerWord |-> j])
      val      == [k \in 1 .. words |-> word(k)]
  IN  CASE used = 0 -> Zero
        [] words = 1 -> FromWord(val[1], negative)
        [] words > 1 /\ ~negative -> [sign |-> 1, bits |-> val]
        [] words > 1 /\ negative -> NegativeFrom(TwosComplement(val))

(* The words of ToUInt32Array before they are trimmed, the number's own    *)
(* words when it has any: those of a negative number are complemented in   *)
(* place.                                                                  *)
Dwords(x) ==
  IF x.bits = << >> THEN <<x.sign % Base>>
  ELSE IF x.sign = -1 THEN TwosComplement(x.bits) ELSE x.bits

Extension(x) == IF x.sign < 0 THEN Base - 1 ELSE 0

(* Units (words or bytes) without those at the top that the sign implies,  *)
(* with one more where the top bit would say another sign.                 *)
Shortest(units, high, half) ==
  LET msb   == Max({1} \cup {i \in DOMAIN units : units[i] # high})
      extra == (units[msb] >= half) # (high >= half)
  IN  SubSeq(units, 1, msb) \o (IF extra THEN <<high>> ELSE << >>)

ToUInt32Array(x) == Shortest(Dwords(x), Extension(x), HalfBase)

(* ToByteArray, which complements a copy; ToByteArraySize is its length.   *)
ToByteArray(x) ==
  LET byte(i) == (Dwords(x)[(i - 1) \div BytesPerWord + 1]
                    \div ByteBase ^ ((i - 1) % BytesPerWord)) % ByteBase
      bytes   == [i \in 1 .. BytesPerWord * Len(Dwords(x)) |-> byte(i)]
  IN  Shortest(bytes, Extension(x) % ByteBase, ByteBase \div 2)

----------------------------------------------------------------------------
(* Comparison and conversion.                                              *)

(* Length: the words of a magnitude whose highest may be 0.                *)
Length(bits) == IF bits[Len(bits)] # 0 THEN Len(bits) ELSE Len(bits) - 1

CompareTo(x, y) ==
  LET cu     == Length(x.bits)
      differ == GetDiffLength(x.bits, y.bits, cu)
      order  == IF x.sign < y.sign THEN -1 ELSE IF x.sign > y.sign THEN 1 ELSE 0
  IN  IF (x.sign < 0) # (y.sign < 0) THEN IF x.sign < 0 THEN -1 ELSE 1
      ELSE IF x.bits = << >> THEN IF y.bits = << >> THEN order ELSE -y.sign
      ELSE IF y.bits = << >> \/ cu > Length(y.bits) THEN x.sign
      ELSE IF cu < Length(y.bits) THEN -x.sign
      ELSE IF differ = 0 THEN 0
      ELSE IF x.bits[differ] < y.bits[differ] THEN -x.sign ELSE x.sign

(* ToInt32: the number, or no number at all.                               *)
ToInt32(x) ==
  IF x.bits = << >> THEN {x.sign}
  ELSE IF Length(x.bits) > 1 THEN {}
  ELSE {x.sign * x.bits[1]} \cap (-HalfBase .. Int32MaxValue)

GetSign(x) == (IF x.sign < 0 THEN -1 ELSE 0) - (IF x.sign > 0 THEN -1 ELSE 0)

----------------------------------------------------------------------------
(* Arithmetic.  The operands of Div and Mod are those with a divisor that  *)
(* is not 0; for 0 the code returns null.                                  *)

Negate(x) == [x EXCEPT !.sign = -x.sign]

(* Add and Sub: the second number counts with sign `side', +1 or -1.       *)
Combine(x, y, side, g) ==
  LET sign1 == RegisterSign(x.sign, 1)
      sign2 == RegisterSign(y.sign, side)
      reg1  == Register(x.sign, x.bits)
      reg2  == Register(y.sign, y.bits)
      diff  == SubRegister(reg1, reg2, g)
  IN  FromParts(IF sign1 = sign2 THEN GetInteger(AddRegister(reg1, reg2, g), sign1, g)
                ELSE GetInteger(diff.reg, IF diff.flip THEN -sign1 ELSE sign1, g))

Add(x, y, g) ==
  IF y.sign = 0 THEN x ELSE IF x.sign = 0 THEN y ELSE Combine(x, y, 1, g)

Sub(x, y, g) ==
  IF y.sign = 0 THEN x ELSE IF x.sign = 0 THEN Negate(y) ELSE Combine(x, y, -1, g)

Mul(x, y, g) ==
  FromParts(GetInteger(
    MulRegister(Register(x.sign, x.bits), Register(y.sign, y.bits), g),
    RegisterSign(y.sign, RegisterSign(x.sign, 1)), g))

Div(x, y, g) ==
  FromParts(GetInteger(
    DivRegister(Register(x.sign, x.bits), Register(y.sign, y.bits), g),
    RegisterSign(y.sign, RegisterSign(x.sign, 1)), g))

Mod(x, y, g) ==
  FromParts(GetInteger(
    ModRegister(Register(x.sign, x.bits), Register(y.sign, y.bits), g),
    RegisterSign(x.sign, 1), g))

Invert(x, g) == Negate(Add(x, One, g))

Abs(x) == IF CompareTo(x, Zero) >= 0 THEN x ELSE Negate(x)

----------------------------------------------------------------------------
(* Bits.                                                                   *)

(* The loop that And, Or and Xor share.                                    *)
Wordwise(op(_, _), x, y) ==
  LET xw      == ToUInt32Array(x)
      yw      == ToUInt32Array(y)
      word(i) == op(IF i <= Len(xw) THEN xw[i] ELSE Extension(x),
                    IF i <= Len(yw) THEN yw[i] ELSE Extension(y))
  IN  FromTwos([i \in 1 .. Bigger(Len(xw), Len(yw)) |-> word(i)])

And(x, y) ==
  IF y.sign = 0 \/ x.sign = 0 THEN Zero ELSE Wordwise(LAMBDA u, v : Bits!&(u, v), x, y)

Or(x, y) ==
  IF y.sign = 0 THEN x ELSE IF x.sign = 0 THEN y
  ELSE Wordwise(LAMBDA u, v : Bits!|(u, v), x, y)

Xor(x, y) ==
  IF y.sign = 0 THEN x ELSE IF x.sign = 0 THEN y
  ELSE Wordwise(LAMBDA u, v : Bits!^^(u, v), x, y)

(* GetPartsForBitManipulation: the magnitude.                              *)
Magnitude(x) ==
  IF x.bits # << >> THEN x.bits ELSE <<IF x.sign < 0 THEN -x.sign ELSE x.sign>>

ShiftLeft(x, shift) ==
  LET digits  == shift \div WordBits
      up      == 2 ^ (shift % WordBits)
      xd      == Magnitude(x)
      bits(i) == IF i \in DOMAIN xd THEN xd[i] * up ELSE 0
      word(i) == (bits(i) % Base) + (IF i > 1 THEN bits(i - 1) \div Base ELSE 0)
  IN  FromMagnitude([i \in 1 .. Len(xd) + digits + 1 |-> word(i - digits)], x.sign < 0)

(* The magnitude of a negative number is complemented, without a word for  *)
(* its sign, shifted with ones from above, and complemented again.         *)
ShiftRight(x, shift) ==
  LET digits   == shift \div WordBits
      small    == shift % WordBits
      negative == x.sign < 0
      mag      == Magnitude(x)
      xd       == IF negative THEN TwosComplement(mag) ELSE mag
      above(i) == IF i < Len(xd) THEN xd[i + 1] ELSE IF negative THEN Base - 1 ELSE 0
      word(i)  == ((above(i) * Base + xd[i]) \div 2 ^ small) % Base
      zd       == [i \in 1 .. Bigger(0, Len(xd) - digits) |-> word(i + digits)]
  IN  IF negative /\ shift >= WordBits * Len(mag) THEN MinusOne
      ELSE FromMagnitude(IF negative THEN TwosComplement(zd) ELSE zd, negative)

(* A negative shift goes the other way.                                    *)
Shl(x, shift) ==
  IF shift = 0 THEN x
  ELSE IF shift > 0 THEN ShiftLeft(x, shift) ELSE ShiftRight(x, -shift)

Shr(x, shift) ==
  IF shift = 0 THEN x
  ELSE IF shift > 0 THEN ShiftRight(x, shift) ELSE ShiftLeft(x, -shift)
=============================================================================
