-------------------------- MODULE BigIntegerBuilder --------------------------
(***************************************************************************)
(* The registers in which BigInteger adds, subtracts, multiplies and       *)
(* divides magnitudes (BigIntegerBuilder.cpp): schoolbook algorithms on    *)
(* words of WordBits bits, 32 in the code.                                 *)
(*                                                                         *)
(* A register is a record of the fields of the class:                      *)
(*   rgu       _rgu, the words it has, least significant first; no word    *)
(*             when the pointer is null                                    *)
(*   length    _rguLength, which the code does not always keep up to date  *)
(*   cu        _iuLast + 1, how many words count                           *)
(*   small     _uSmall, the value when cu = 1                              *)
(*   writable  _fWritable, the words are the register's own                *)
(* Words that were allocated and not written, or that lie behind the end   *)
(* of an array the code reads too far, hold any value: the parameter g.    *)
(***************************************************************************)
EXTENDS Integers, Sequences, SequencesExt

CONSTANT WordBits   \* kcbitUint, 32

ASSUME WordBitsAssumption == WordBits \in Nat /\ WordBits > 1

Base == 2 ^ WordBits

UInt32MaxValue == Base - 1

Int32MaxValue == Base \div 2 - 1

Bigger(m, n) == IF m > n THEN m ELSE n

Smaller(m, n) == IF m < n THEN m ELSE n

(* The words up to the highest that is not zero, and at least one.         *)
Significant(w) == Max({1} \cup {i \in DOMAIN w : w[i] # 0})

(* The word at i, also behind the end of the array.                        *)
Read(w, i, g) == IF i <= Len(w) THEN w[i] ELSE g

IsSmall(r) == r.cu = 1

(* AddCarry, MulCarry, AddMulCarry, SubBorrow and SubRevBorrow, applied to *)
(* words from .. from + n - 1 in turn: what is carried out of the first i. *)
(* A borrow is a carry of -1.                                              *)
Carry(total(_), n) ==
  LET c[i \in 0 .. n] == IF i = 0 THEN 0 ELSE (total(i) + c[i - 1]) \div Base
  IN  c

Ripple(w, from, total(_), n) ==
  LET c == Carry(total, n)
  IN  [i \in DOMAIN w |->
         IF i \in from .. from + n - 1
         THEN (total(i - from + 1) + c[i - from]) % Base
         ELSE w[i]]

----------------------------------------------------------------------------
(* Making, reading and sizing registers.                                   *)

Register(sign, bits) ==
  IF bits = << >>
  THEN [rgu |-> << >>, length |-> 0, cu |-> 1,
        small |-> IF sign < 0 THEN -sign ELSE sign, writable |-> FALSE]
  ELSE [rgu |-> bits, length |-> Len(bits), cu |-> Significant(bits),
        small |-> bits[1], writable |-> FALSE]

RegisterSign(sign, outSign) == IF sign < 0 THEN -outSign ELSE outSign

NewRegister ==
  [rgu |-> << >>, length |-> 0, cu |-> 1, small |-> 0, writable |-> FALSE]

(* What BigInteger's constructor copies from the parts GetInteger returns. *)
(* A register of one word may get an array of one word without its length, *)
(* and the word behind it is read.                                         *)
GetInteger(r, sign, g) ==
  IF IsSmall(r) /\ r.small <= Int32MaxValue
  THEN [sign |-> sign * r.small, bits |-> << >>]
  ELSE LET rgu    == IF ~IsSmall(r) \/ (r.rgu # << >> /\ ~r.writable
                                         /\ r.rgu[1] = r.small)
                     THEN r.rgu
                     ELSE IF r.writable THEN [r.rgu EXCEPT ![1] = r.small]
                     ELSE <<r.small>>
           length == IF IsSmall(r) /\ r.rgu = << >> THEN 1 ELSE r.length
           extra  == length - r.cu
           above  == IF extra <= 1 /\ r.writable THEN 0 ELSE Read(rgu, r.cu + 1, g)
           size   == IF extra = 0 \/ (extra <= 1 /\ above = 0)
                     THEN length ELSE r.cu
       IN  [sign |-> sign,
            bits |-> [i \in 1 .. size |-> IF i = r.cu + 1 THEN above ELSE rgu[i]]]

(* EnsureWritable(cuExtra).  It copies the extra words from behind those   *)
(* that count.                                                             *)
EnsureWritable(r, extra, g) ==
  IF r.writable THEN r
  ELSE [r EXCEPT !.rgu = [i \in 1 .. r.cu + extra |-> Read(r.rgu, i, g)],
                 !.length = r.cu + extra, !.writable = TRUE]

(* EnsureWritable(cu, cuExtra), whose callers pass a cu that is not below  *)
(* the words of a register that has several.                               *)
EnsureRoom(r, cu, extra, g) ==
  IF r.writable /\ r.length >= cu THEN r
  ELSE [r EXCEPT !.rgu = [i \in 1 .. cu + extra |->
                            IF i <= r.cu THEN r.rgu[i] ELSE g],
                 !.length = cu + extra, !.writable = TRUE]

SetSizeLazy(r, cu, g) ==
  IF cu <= 1 THEN [r EXCEPT !.cu = 1]
  ELSE IF r.writable /\ r.length >= cu THEN [r EXCEPT !.cu = cu]
  ELSE [r EXCEPT !.rgu = [i \in 1 .. cu |-> g], !.length = cu,
                 !.writable = TRUE, !.cu = cu]

(* SetSizeKeep, for cu > 1: the words from the register's size up are 0.   *)
SetSizeKeep(r, cu, extra) ==
  LET word(i) == IF i > r.cu THEN 0 ELSE IF IsSmall(r) THEN r.small ELSE r.rgu[i]
  IN  IF r.writable /\ r.length >= cu
      THEN [r EXCEPT !.cu = cu,
                     !.rgu = [i \in DOMAIN r.rgu |->
                                IF i <= cu THEN word(i) ELSE r.rgu[i]]]
      ELSE [r EXCEPT !.cu = cu, !.length = cu + extra, !.writable = TRUE,
                     !.rgu = [i \in 1 .. cu + extra |->
                                IF i <= cu THEN word(i) ELSE 0]]

(* Set(uint32) and Set(uint64).                                            *)
SetWord(r, u) == [r EXCEPT !.small = u, !.cu = 1]

SetWide(r, uu, g) ==
  IF uu < Base THEN SetWord(r, uu)
  ELSE [SetSizeLazy(r, 2, g) EXCEPT !.rgu[1] = uu % Base, !.rgu[2] = uu \div Base]

Load(r, reg, extra, g) ==
  IF IsSmall(reg) THEN SetWord(r, reg.small)
  ELSE LET room == IF r.writable /\ r.length >= reg.cu THEN r
                   ELSE [r EXCEPT !.rgu = [i \in 1 .. reg.cu + extra |-> g],
                                  !.length = reg.cu + extra, !.writable = TRUE]
       IN  [room EXCEPT !.cu = reg.cu,
                        !.rgu = [i \in DOMAIN room.rgu |->
                                   IF i <= reg.cu THEN reg.rgu[i] ELSE room.rgu[i]]]

Trim(r) ==
  IF IsSmall(r) \/ r.rgu[r.cu] # 0 THEN r
  ELSE [r EXCEPT !.small = r.rgu[1], !.cu = Significant(SubSeq(r.rgu, 1, r.cu))]

----------------------------------------------------------------------------
(* Addition.                                                               *)

(* A carry of 1 into word i: it goes on over words that are full, and may  *)
(* add a word.  Array.Resize grows the words and not the length.           *)
ApplyCarry(r, i) ==
  LET stop == Min({k \in i .. r.cu : r.rgu[k] # UInt32MaxValue} \cup {r.cu + 1})
      kept == IF stop > r.length THEN Append(r.rgu, 0) ELSE r.rgu
  IN  [r EXCEPT !.cu = Bigger(r.cu, stop),
                !.rgu = [k \in DOMAIN kept |->
                           CASE k \in i .. stop - 1 -> 0
                             [] k = stop -> IF k <= r.cu THEN r.rgu[k] + 1 ELSE 1
                             [] OTHER -> kept[k]]]

AddWord(r, u, g) ==
  LET low == IF IsSmall(r) THEN r.small ELSE r.rgu[1]
      sum == (low + u) % Base
  IN  IF IsSmall(r)
      THEN IF sum >= u THEN [r EXCEPT !.small = sum]
           ELSE [SetSizeLazy([r EXCEPT !.small = sum], 2, g)
                   EXCEPT !.rgu[1] = sum, !.rgu[2] = 1]
      ELSE IF u = 0 THEN r
      ELSE [(IF sum < u THEN ApplyCarry(EnsureWritable(r, 1, g), 2)
             ELSE EnsureWritable(r, 0, g)) EXCEPT !.rgu[1] = sum]

AddRegister(r, reg, g) ==
  IF IsSmall(reg) THEN AddWord(r, reg.small, g)
  ELSE IF IsSmall(r)
  THEN IF r.small = 0 THEN Load(r, reg, 0, g)
       ELSE AddWord(Load(r, reg, 1, g), r.small, g)
  ELSE LET cu       == Bigger(r.cu, reg.cu)
           cuAdd    == Smaller(r.cu, reg.cu)
           room     == EnsureRoom(r, cu, 1, g)
           long     == [i \in DOMAIN room.rgu |->
                          IF i \in r.cu + 1 .. cu THEN reg.rgu[i] ELSE room.rgu[i]]
           total(i) == long[i] + reg.rgu[i]
           sum      == [room EXCEPT !.cu = cu, !.rgu = Ripple(long, 1, total, cuAdd)]
       IN  IF Carry(total, cuAdd)[cuAdd] = 0 THEN sum ELSE ApplyCarry(sum, cuAdd + 1)

----------------------------------------------------------------------------
(* Subtraction.  The result says whether the sign changes.                 *)

(* A borrow of 1 from word i.                                              *)
ApplyBorrow(r, i) ==
  LET stop == Min({k \in i .. r.cu : r.rgu[k] # 0} \cup {r.cu + 1})
  IN  [r EXCEPT !.rgu = [k \in DOMAIN r.rgu |->
                           CASE k \in i .. stop - 1 -> UInt32MaxValue
                             [] k = stop /\ k <= r.cu -> r.rgu[k] - 1
                             [] OTHER -> r.rgu[k]]]

SubWord(r, u, g) ==
  IF IsSmall(r)
  THEN [reg  |-> [r EXCEPT !.small = IF u <= @ THEN @ - u ELSE u - @],
        flip |-> u > r.small]
  ELSE LET own == EnsureWritable(r, 0, g)
           low == own.rgu[1]
           new == [own EXCEPT !.rgu[1] = (low - u) % Base]
       IN  [reg  |-> IF u = 0 THEN r
                     ELSE IF low < u THEN Trim(ApplyBorrow(new, 2)) ELSE new,
            flip |-> FALSE]

(* SubRev: reg minus this register.                                        *)
SubRev(r, reg, g) ==
  LET cuSub    == r.cu
      room     == EnsureRoom(r, reg.cu, 0, g)
      long     == [i \in DOMAIN room.rgu |->
                     IF i \in cuSub + 1 .. reg.cu THEN reg.rgu[i] ELSE room.rgu[i]]
      total(i) == reg.rgu[i] - long[i]
      diff     == [room EXCEPT !.cu = reg.cu, !.rgu = Ripple(long, 1, total, cuSub)]
  IN  Trim(IF Carry(total, cuSub)[cuSub] = 0 THEN diff ELSE ApplyBorrow(diff, cuSub + 1))

(* The words of two registers of one size below which they are equal.      *)
GetDiffLength(v, w, cu) == Max({0} \cup {i \in 1 .. cu : v[i] # w[i]})

SubRegister(r, reg, g) ==
  IF IsSmall(reg) THEN SubWord(r, reg.small, g)
  ELSE IF IsSmall(r)
  THEN [reg  |-> IF r.small = 0 THEN Load(r, reg, 0, g)
                 ELSE SubWord(Load(r, reg, 0, g), r.small, g).reg,
        flip |-> TRUE]
  ELSE IF r.cu < reg.cu THEN [reg |-> SubRev(r, reg, g), flip |-> TRUE]
  ELSE LET cu == IF r.cu > reg.cu THEN r.cu
                 ELSE GetDiffLength(r.rgu, reg.rgu, r.cu)
           cuSub    == Smaller(cu, reg.cu)
           less     == r.cu = reg.cu /\ cu > 0 /\ r.rgu[cu] < reg.rgu[cu]
           short    == [r EXCEPT !.cu = Bigger(1, cu)]
           own      == EnsureWritable(short, 0, g)
           total(i) == own.rgu[i] - reg.rgu[i]
           diff     == [own EXCEPT !.rgu = Ripple(own.rgu, 1, total, cuSub)]
       IN  CASE cu = 0 -> [reg |-> SetWord(r, 0), flip |-> FALSE]
             [] cu = 1 ->
                  [reg  |-> SetWord(r, IF less THEN reg.rgu[1] - r.rgu[1]
                                       ELSE r.rgu[1] - reg.rgu[1]),
                   flip |-> less]
             [] cu > 1 /\ less ->
                  [reg |-> SubRev(short, [reg EXCEPT !.cu = cu], g), flip |-> TRUE]
             [] cu > 1 /\ ~less ->
                  [reg  |-> Trim(IF Carry(total, cuSub)[cuSub] = 0 THEN diff
                                 ELSE ApplyBorrow(diff, cuSub + 1)),
                   flip |-> FALSE]

----------------------------------------------------------------------------
(* Multiplication.                                                         *)

MulWord(r, u, g) ==
  IF u = 0 THEN SetWord(r, 0)
  ELSE IF u = 1 THEN r
  ELSE IF IsSmall(r) THEN SetWide(r, r.small * u, g)
  ELSE LET own      == EnsureWritable(r, 1, g)
           total(i) == own.rgu[i] * u
           carry    == Carry(total, r.cu)[r.cu]
           prod     == [own EXCEPT !.rgu = Ripple(own.rgu, 1, total, r.cu)]
       IN  IF carry = 0 THEN prod
           ELSE [SetSizeKeep(prod, r.cu + 1, 0) EXCEPT !.rgu[r.cu + 1] = carry]

(* Word k of the register times reg is added to the words from k up, whose *)
(* carry may add a word.                                                   *)
MulRow(r, k, reg) ==
  LET u        == r.rgu[k]
      total(i) == (IF i = 1 THEN 0 ELSE r.rgu[k + i - 1])
                    + (IF i <= reg.cu THEN reg.rgu[i] * u ELSE 0)
      n        == r.cu - k + 1
      carry    == Carry(total, n)[n]
      row      == [r EXCEPT !.rgu = Ripple(r.rgu, k, total, n)]
  IN  IF carry = 0 THEN row
      ELSE [SetSizeKeep(row, r.cu + 1, 0) EXCEPT !.rgu[r.cu + 1] = carry]

MulRegister(r, reg, g) ==
  IF IsSmall(reg) THEN MulWord(r, reg.small, g)
  ELSE IF IsSmall(r)
  THEN CASE r.small = 0 -> r
         [] r.small = 1 -> Load(r, reg, 0, g)
         [] r.small > 1 -> MulWord(Load(r, reg, 1, g), r.small, g)
  ELSE FoldLeft(LAMBDA acc, k : MulRow(acc, k, reg),
                SetSizeKeep(r, r.cu + reg.cu - 1, 1),
                [k \in 1 .. r.cu |-> r.cu + 1 - k])

----------------------------------------------------------------------------
(* Division.                                                               *)

(* Long division by a word: what remains above word i.                     *)
Remainders(r, u) ==
  LET rem[i \in 0 .. r.cu] ==
        IF i = r.cu THEN 0 ELSE (rem[i + 1] * Base + r.rgu[i + 1]) % u
  IN  rem

DivWord(r, u, g) ==
  IF u = 1 THEN r
  ELSE IF IsSmall(r) THEN [r EXCEPT !.small = @ \div u]
  ELSE LET own == EnsureWritable(r, 0, g)
           rem == Remainders(r, u)
       IN  Trim([own EXCEPT !.rgu = [i \in DOMAIN own.rgu |->
                   IF i <= r.cu THEN (rem[i] * Base + own.rgu[i]) \div u
                   ELSE own.rgu[i]]])

ModWord(r, u) ==
  CASE u = 1 -> 0
    [] u # 1 /\ IsSmall(r) -> r.small % u
    [] u # 1 /\ ~IsSmall(r) -> Remainders(r, u)[0]

CbitHighZero(u) == WordBits - Max({0} \cup {n \in 1 .. WordBits : u >= 2 ^ (n - 1)})

(* Mutant: the next digits are not looked at.                              *)
TrialDigitOfTop(uuNum, uNumNext, uDen, uDenNext) ==
  Smaller(uuNum \div uDen, UInt32MaxValue)

(* A digit of the quotient from the three highest words of the numerator   *)
(* and the two highest of the denominator, as the loop of ModDivCore tries *)
(* it; it may be one too large.                                            *)
TrialDigit(uuNum, uNumNext, uDen, uDenNext) ==
  LET quo  == Smaller(uuNum \div uDen, UInt32MaxValue)
      rem  == uuNum - quo * uDen
      less == Min({n \in 0 .. quo :
                ~(rem + n * uDen <= UInt32MaxValue
                  /\ (quo - n) * uDenNext > (rem + n * uDen) * Base + uNumNext)})
  IN  quo - less

(* One pass of the loop of ModDivCore, for digit k of the quotient: `num'  *)
(* loses that many times the denominator and never goes below zero.        *)
DivideStep(acc, k, den, fQuo, cuQuo) ==
  LET num      == acc.num
      cuDen    == den.cu
      shift    == CbitHighZero(den.rgu[cuDen])
      up       == 2 ^ shift
      down     == 2 ^ (WordBits - shift)
      uDen     == den.rgu[cuDen] * up + den.rgu[cuDen - 1] \div down
      uDenNext == ((den.rgu[cuDen - 1] * up) % Base)
                    + (IF cuDen > 2 THEN den.rgu[cuDen - 2] \div down ELSE 0)
      uNumHi   == IF k + cuDen <= num.cu THEN num.rgu[k + cuDen] ELSE 0
      next     == num.rgu[k + cuDen - 2]
      uuNum    == (uNumHi * Base + num.rgu[k + cuDen - 1]) * up + next \div down
      uNumNext == ((next * up) % Base)
                    + (IF k + cuDen > 3 THEN num.rgu[k + cuDen - 3] \div down ELSE 0)
      trial    == TrialDigit(uuNum, uNumNext, uDen, uDenNext)
      minus(i) == num.rgu[k + i - 1] - den.rgu[i] * trial
      less     == Ripple(num.rgu, k, minus, cuDen)
      tooLarge == uNumHi < -Carry(minus, cuDen)[cuDen]
      plus(i)  == less[k + i - 1] + den.rgu[i]
      quo      == IF tooLarge THEN trial - 1 ELSE trial
  IN  [num |-> IF trial = 0 THEN num
               ELSE [num EXCEPT !.cu = k + cuDen - 1,
                                !.rgu = IF tooLarge THEN Ripple(less, k, plus, cuDen)
                                        ELSE less],
       quo |-> IF ~fQuo THEN acc.quo
               ELSE IF cuQuo = 1 THEN [acc.quo EXCEPT !.small = quo]
               ELSE [acc.quo EXCEPT !.rgu[k] = quo]]

(* ModDivCore, for a denominator of several words: the remainder is left   *)
(* in `num', the quotient, if it is asked for, in `quo'.                   *)
ModDivCore(num, den, fQuo, g) ==
  LET cuDiff == num.cu - den.cu
      differ == Max({0} \cup {i \in 1 .. den.cu : den.rgu[i] # num.rgu[i + cuDiff]})
      cuQuo  == IF differ = 0 \/ den.rgu[differ] < num.rgu[differ + cuDiff]
                THEN cuDiff + 1 ELSE cuDiff
      start  == [num |-> EnsureWritable(num, 0, g),
                 quo |-> IF fQuo THEN SetSizeLazy(NewRegister, cuQuo, g)
                         ELSE NewRegister]
      end    == FoldLeft(LAMBDA acc, k : DivideStep(acc, k, den, fQuo, cuQuo),
                         start, [k \in 1 .. cuQuo |-> cuQuo + 1 - k])
  IN  IF cuDiff < 0 \/ cuQuo = 0 THEN [num |-> num, quo |-> NewRegister]
      ELSE [end EXCEPT !.num = Trim([@ EXCEPT !.cu = den.cu])]

DivRegister(r, reg, g) ==
  IF IsSmall(reg) THEN DivWord(r, reg.small, g)
  ELSE IF IsSmall(r) THEN [r EXCEPT !.small = 0]
  ELSE ModDivCore(r, reg, TRUE, g).quo

ModRegister(r, reg, g) ==
  IF IsSmall(reg) THEN SetWord(r, ModWord(r, reg.small))
  ELSE IF IsSmall(r) THEN r
  ELSE ModDivCore(r, reg, FALSE, g).num
=============================================================================
