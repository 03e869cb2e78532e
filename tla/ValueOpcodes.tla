---------------------------- MODULE ValueOpcodes ----------------------------
(***************************************************************************)
(* The cases of the interpreter's switch that compute with what items      *)
(* hold: bitwise logic, arithmetic, comparison, signatures                 *)
(* (ExecutionEngine.cpp).                                                  *)
(*                                                                         *)
(* One frame runs.  Gas, calls and jumps are the subject of                *)
(* ExecutionEngine, claims and the item limit that of ItemLifetime.        *)
(***************************************************************************)
EXTENDS ItemValues, CheckMultisig

CONSTANTS
  Starts,            \* stacks to start with, what OpenSSL says then, and
                     \* bound: how many instructions are executed
  MaxShift,          \* MAX_SHL_SHR, 65535
  KeySize,           \* the least bytes of a key, 33
  SignatureSize,     \* the least bytes of a signature, 32
  Uninitialised      \* words that fresh or foreign memory may hold

ASSUME OpcodesAssumption ==
  /\ MaxShift \in Nat /\ KeySize \in Nat /\ SignatureSize \in Nat
  /\ Uninitialised \subseteq 0 .. Base - 1 /\ Uninitialised # {}
  /\ \A start \in Starts : start.left \in Nat

VARIABLES
  state,      \* NONE, FAULT, or CRASHED when the process did not survive
  stack,      \* the evaluation stack of the frame, top at the end
  last,       \* history: the last opcode, its operands, what it pushed
  left        \* how many instructions are left

vars == <<state, stack, last, left, match, answer>>

Nothing == [op |-> "none", args |-> << >>, pushed |-> {}]

Init ==
  /\ state = "NONE" /\ last = Nothing /\ match = None
  /\ \E start \in Starts :
       stack = start.stack /\ answer = start.answer /\ left = start.left

----------------------------------------------------------------------------
(* What an opcode computes from its operands, the one pushed first first:  *)
(* a set without the result where the case faults.  g is the word that     *)
(* uninitialised memory holds.                                             *)

Each(convert(_), items) ==
  IF \E i \in DOMAIN items : convert(items[i]) = {} THEN {}
  ELSE {[i \in DOMAIN items |-> CHOOSE v \in convert(items[i]) : TRUE]}

Fits(int) == ~SizeExceeded(int)

IntegerIf(ok, int) == IF ok THEN {Integer(int)} ELSE {}

(* INVERT, AND, OR, XOR, SIGN, NEGATE and ABS check no size.               *)
Bitwise2(op, n) ==
  CASE op = "AND" -> {Integer(And(n[1], n[2]))}
    [] op = "OR" -> {Integer(Or(n[1], n[2]))}
    [] op = "XOR" -> {Integer(Xor(n[1], n[2]))}

Unary(op, n, g) ==
  CASE op = "INVERT" -> {Integer(Invert(n[1], g))}
    [] op = "SIGN" -> {Integer(Packed(GetSign(n[1])))}
    [] op = "NEGATE" -> {Integer(Negate(n[1]))}
    [] op = "ABS" -> {Integer(Abs(n[1]))}
    [] op = "NZ" -> {Bool(CompareTo(n[1], Zero) # 0)}

(* INC, DEC, ADD and SUB check operands and result.                        *)
Sum(x, y, sum) ==
  IntegerIf(Fits(x) /\ Fits(y) /\ Fits(sum), sum)

Additive(op, n, g) ==
  CASE op = "INC" -> Sum(n[1], One, Add(n[1], One, g))
    [] op = "DEC" -> Sum(n[1], One, Sub(n[1], One, g))
    [] op = "ADD" -> Sum(n[1], n[2], Add(n[1], n[2], g))
    [] op = "SUB" -> Sum(n[1], n[2], Sub(n[1], n[2], g))

(* MUL checks what the sizes of the operands add up to, DIV and MOD the    *)
(* operands; both return null for a divisor of 0.                          *)
Divisible(x, y) == Fits(x) /\ Fits(y) /\ y.sign # 0

Multiplicative(op, n, g) ==
  CASE op = "MUL" -> IF ByteSize(n[2]) + ByteSize(n[1]) > MaxSize THEN {}
                     ELSE {Integer(Mul(n[1], n[2], g))}
    [] op = "DIV" -> IF ~Divisible(n[1], n[2]) THEN {}
                     ELSE {Integer(Div(n[1], n[2], g))}
    [] op = "MOD" -> IF ~Divisible(n[1], n[2]) THEN {}
                     ELSE {Integer(Mod(n[1], n[2], g))}

(* SHL and SHR check the distance and the result.                          *)
Distance(n) == ToInt32(n) \cap (-MaxShift .. MaxShift)

Shift(op, n) ==
  UNION {IntegerIf(Fits(int), int) :
           int \in {IF op = "SHL" THEN Shl(n[1], s) ELSE Shr(n[1], s) :
                      s \in Distance(n[2])}}

Comparison(op, n) ==
  LET order == CompareTo(n[1], n[2]) IN
  CASE op = "NUMEQUAL" -> {Bool(order = 0)}
    [] op = "NUMNOTEQUAL" -> {Bool(order # 0)}
    [] op = "LT" -> {Bool(order < 0)}
    [] op = "GT" -> {Bool(order > 0)}
    [] op = "LTE" -> {Bool(order <= 0)}
    [] op = "GTE" -> {Bool(order >= 0)}
    [] op = "MIN" -> {Integer(IF order >= 0 THEN n[2] ELSE n[1])}
    [] op = "MAX" -> {Integer(IF order >= 0 THEN n[1] ELSE n[2])}

Within(n) ==
  {Bool(CompareTo(n[2], n[1]) <= 0 /\ CompareTo(n[1], n[3]) < 0)}

(* The cases that read booleans.                                           *)
Boolean(op, args) ==
  CASE op = "NOT" -> {Bool(~GetBoolean(args[1]))}
    [] op = "BOOLAND" -> {Bool(GetBoolean(args[1]) /\ GetBoolean(args[2]))}
    [] op = "BOOLOR" -> {Bool(GetBoolean(args[1]) \/ GetBoolean(args[2]))}

Unaries == {"INVERT", "SIGN", "NEGATE", "ABS", "NZ"}

Additives == {"INC", "DEC", "ADD", "SUB"}

Multiplicatives == {"MUL", "DIV", "MOD"}

Comparisons ==
  {"NUMEQUAL", "NUMNOTEQUAL", "LT", "GT", "LTE", "GTE", "MIN", "MAX"}

Booleans == {"NOT", "BOOLAND", "BOOLOR"}

Opcode ==
  Unaries \cup Additives \cup Multiplicatives \cup Comparisons \cup Booleans
    \cup {"AND", "OR", "XOR", "SHL", "SHR", "WITHIN"}

Operands(op) ==
  IF op \in Unaries \cup {"INC", "DEC", "NOT"} THEN 1
  ELSE IF op = "WITHIN" THEN 3 ELSE 2

Result(op, args, g) ==
  LET of(n) ==
        CASE op \in {"AND", "OR", "XOR"} -> Bitwise2(op, n)
          [] op \in Unaries -> Unary(op, n, g)
          [] op \in Additives -> Additive(op, n, g)
          [] op \in Multiplicatives -> Multiplicative(op, n, g)
          [] op \in {"SHL", "SHR"} -> Shift(op, n)
          [] op \in Comparisons -> Comparison(op, n)
          [] op = "WITHIN" -> Within(n)
  IN  IF op \in Booleans THEN Boolean(op, args)
      ELSE UNION {of(n) : n \in Each(GetBigInteger, args)}

----------------------------------------------------------------------------
(* The cases as actions.                                                   *)

Ready ==
  /\ state = "NONE" /\ match = None
  /\ left > 0 /\ left' = left - 1

SetFault == state' = "FAULT"

Done(op, args, pushed) == last' = [op |-> op, args |-> args, pushed |-> pushed]

Popped(count) == SubSeq(stack, Len(stack) - count + 1, Len(stack))

Below(count) == SubSeq(stack, 1, Len(stack) - count)

(* Too few items are left where they are, the operands of a case that      *)
(* faults later are gone.                                                  *)
Execute(op) ==
  /\ Ready
  /\ IF Len(stack) < Operands(op)
     THEN SetFault /\ UNCHANGED stack /\ Done(op, << >>, {})
     ELSE \E g \in Uninitialised :
            LET args   == Popped(Operands(op))
                result == Result(op, args, g)
            IN  /\ Done(op, args, result)
                /\ \/ result = {} /\ SetFault /\ stack' = Below(Operands(op))
                   \/ /\ UNCHANGED state
                      /\ \E it \in result :
                           stack' = Append(Below(Operands(op)), it)
  /\ UNCHANGED matchVars

(* CHECKSIG and VERIFY ask about a signature and a key, if there is a      *)
(* message and the bytes of both are long enough.                          *)
Asked(hasMessage, signature, pubKey) ==
  {p \in ReadByteArray(signature) \X ReadByteArray(pubKey) :
     /\ hasMessage
     /\ Len(p[1]) >= SignatureSize /\ Len(p[2]) >= KeySize}

(* The message VerifySignature deletes is the host's in CHECKSIG, and      *)
(* VERIFY deletes it again: the process may survive that, or not.          *)
Checked(op, count, hasMessage) ==
  LET args   == Popped(count)
      asked  == Asked(hasMessage, args[count - 1], args[count])
      answers == UNION {VerifySignature(p[1], p[2], FALSE) : p \in asked}
      result == IF asked = {} THEN {Bool(FALSE)} ELSE {Bool(a = 1) : a \in answers}
  IN  /\ Done(op, args, result)
      /\ \/ /\ \E p \in asked : Deletes(p[1], p[2])
            /\ state' = "CRASHED" /\ stack' = Below(count)
         \/ /\ UNCHANGED state
            /\ \E it \in result : stack' = Append(Below(count), it)

(* CHECKSIG asks the host for the message, VERIFY takes it from the stack. *)
CheckSig ==
  /\ Ready
  /\ IF Len(stack) < 2
     THEN SetFault /\ UNCHANGED stack /\ Done("CHECKSIG", << >>, {})
     ELSE \E hasMessage \in BOOLEAN : Checked("CHECKSIG", 2, hasMessage)
  /\ UNCHANGED matchVars

Verify ==
  /\ Ready
  /\ IF Len(stack) < 3
     THEN SetFault /\ UNCHANGED stack /\ Done("VERIFY", << >>, {})
     ELSE Checked("VERIFY", 3, ReadByteArray(Popped(3)[1]) # {})
  /\ UNCHANGED matchVars

(* EQUAL, which an Array and a Struct make call itself until the thread    *)
(* has no stack left.                                                      *)
Equal ==
  /\ Ready
  /\ IF Len(stack) < 2
     THEN SetFault /\ UNCHANGED stack /\ Done("EQUAL", << >>, {})
     ELSE LET args  == Popped(2)
              equal == Equals(args[1], args[2])
          IN  /\ Done("EQUAL", args, {Bool(value) : value \in equal})
              /\ \/ equal = {} /\ state' = "CRASHED" /\ stack' = Below(2)
                 \/ /\ UNCHANGED state
                    /\ \E value \in equal : stack' = Append(Below(2), Bool(value))
  /\ UNCHANGED matchVars

(* One of the two rounds of CHECKMULTISIG: the bytes of the elements of an *)
(* array, or of as many items as a number says, and what is left of the    *)
(* stack.  A round that faults has no bytes, and the case goes on.         *)
Round(s) ==
  LET item  == Last(s)
      below == Front(s)
      taken(v) == [i \in 1 .. v |-> below[Len(below) - i + 1]]
      count == {v \in GetInt32(item) : v >= 1 /\ v <= Len(below)}
  IN  IF IsList(item)
      THEN [rest |-> below,
            bytes |-> {b \in Each(ReadByteArray, Elements[item.address]) :
                         b # << >>}]
      ELSE [rest |-> SubSeq(below, 1, Len(below) - FoldSet(+, 0, count)),
            bytes |-> UNION {Each(ReadByteArray, taken(v)) : v \in count}]

(* The keys may be all that is on the stack: the second Pop returns null,  *)
(* and its type is read.  Gas is charged when both were read.              *)
CheckMultisig ==
  /\ Ready
  /\ Done("CHECKMULTISIG", stack, {})
  /\ IF Len(stack) < 2 THEN SetFault /\ UNCHANGED <<stack, match>>
     ELSE LET first  == Round(stack)
              second == Round(first.rest)
              given  == {p \in first.bytes \X second.bytes : Countable(p[1], p[2])}
          IN  IF first.rest = << >>
              THEN state' = "CRASHED" /\ stack' = << >> /\ UNCHANGED match
              ELSE \/ SetFault /\ stack' = second.rest /\ UNCHANGED match
                   \/ /\ given # {} /\ UNCHANGED <<state, match>>
                      /\ stack' = Append(second.rest, Bool(FALSE))
                   \/ /\ UNCHANGED state /\ stack' = second.rest
                      /\ \E p \in given : match' = Entered(p[1], p[2])
  /\ UNCHANGED answer

Match ==
  /\ MatchStep
  /\ UNCHANGED <<state, stack, last, left>>

(* A call that deletes the host's message, and one that reads it or        *)
(* deletes it after that, may be the end of the process.                   *)
MatchCrashes ==
  /\ Matching /\ NextSig \in Signature
  /\ NextKey \in Uncompressed \/ (match.deleted /\ NextKey \in PubKey)
  /\ state' = "CRASHED" /\ match' = None
  /\ UNCHANGED <<answer, stack, last, left>>

PushMatch ==
  /\ MatchEnds
  /\ stack' = Append(stack, Bool(match.fSuccess))
  /\ UNCHANGED <<state, last, left>>

Next ==
  \/ \E op \in Opcode : Execute(op)
  \/ Equal
  \/ CheckSig \/ Verify
  \/ CheckMultisig \/ Match \/ MatchCrashes \/ PushMatch

Spec == Init /\ [][Next]_vars

----------------------------------------------------------------------------
(* What items mean, told without the code's representation.                *)

Digits(units, base) == FoldRight(LAMBDA u, acc : acc * base + u, units, 0)

ValueOf(int) ==
  IF int.bits = << >> THEN int.sign ELSE int.sign * Digits(int.bits, Base)

SignedValue(bytes) ==
  IF bytes # << >> /\ Last(bytes) >= ByteBase \div 2
  THEN Digits(bytes, ByteBase) - ByteBase ^ Len(bytes)
  ELSE Digits(bytes, ByteBase)

NumberOf(it) ==
  CASE it.type = "Bool" -> IF it.value THEN 1 ELSE 0
    [] it.type = "Integer" -> ValueOf(it.int)
    [] it.type = "ByteArray" -> SignedValue(it.bytes)

AbsoluteValue(a) == IF a < 0 THEN -a ELSE a

(* Division that truncates, whose remainder has the dividend's sign.       *)
Quotient(a, b) ==
  LET q == AbsoluteValue(a) \div AbsoluteValue(b)
  IN  IF (a < 0) = (b < 0) THEN q ELSE -q

(* A shift to the right, by -s, rounds down.                               *)
Shifted(a, s) == IF s >= 0 THEN a * 2 ^ s ELSE a \div 2 ^ (-s)

Bit(a, k) == (a \div 2 ^ k) % 2 = 1

(* The two's complement number that has bit(k) at position k.              *)
BitsAgree(result, bit(_)) ==
  \A k \in 0 .. (MaxSize + 2) * (WordBits \div BytesPerWord) : Bit(result, k) <=> bit(k)

(* Whether op of the numbers v is the number r.                            *)
Means(op, v, r) ==
  CASE op = "INVERT" -> r = -v[1] - 1
    [] op = "SIGN" -> r * AbsoluteValue(v[1]) = v[1] /\ r \in -1 .. 1
    [] op = "NEGATE" -> r = -v[1]
    [] op = "ABS" -> r = AbsoluteValue(v[1])
    [] op = "NZ" -> r = 1 <=> v[1] # 0
    [] op = "AND" -> BitsAgree(r, LAMBDA k : Bit(v[1], k) /\ Bit(v[2], k))
    [] op = "OR" -> BitsAgree(r, LAMBDA k : Bit(v[1], k) \/ Bit(v[2], k))
    [] op = "XOR" -> BitsAgree(r, LAMBDA k : Bit(v[1], k) # Bit(v[2], k))
    [] op = "INC" -> r = v[1] + 1
    [] op = "DEC" -> r = v[1] - 1
    [] op = "ADD" -> r = v[1] + v[2]
    [] op = "SUB" -> r = v[1] - v[2]
    [] op = "MUL" -> r = v[1] * v[2]
    [] op = "DIV" -> r = Quotient(v[1], v[2])
    [] op = "MOD" -> r = v[1] - v[2] * Quotient(v[1], v[2])
    [] op = "SHL" -> r = Shifted(v[1], v[2])
    [] op = "SHR" -> r = Shifted(v[1], -v[2])
    [] op = "NUMEQUAL" -> r = 1 <=> v[1] = v[2]
    [] op = "NUMNOTEQUAL" -> r = 1 <=> v[1] # v[2]
    [] op = "LT" -> r = 1 <=> v[1] < v[2]
    [] op = "GT" -> r = 1 <=> v[1] > v[2]
    [] op = "LTE" -> r = 1 <=> v[1] <= v[2]
    [] op = "GTE" -> r = 1 <=> v[1] >= v[2]
    [] op = "MIN" -> r = IF v[1] < v[2] THEN v[1] ELSE v[2]
    [] op = "MAX" -> r = IF v[1] > v[2] THEN v[1] ELSE v[2]
    [] op = "WITHIN" -> r = 1 <=> (v[2] <= v[1] /\ v[1] < v[3])

Numeric == Opcode \ Booleans

(* How far SHL or SHR of v shifts to the right.                            *)
RightShift(op, v) == IF op = "SHR" THEN v[2] ELSE -v[2]

(* The result of a shift to the right is a negative power of the base, and *)
(* no more words are left of the number than the power has zeros.  Then    *)
(* the carry of the last complement has no word, and the code returns 0.   *)
LosesCarry(op, v, r) ==
  /\ op \in {"SHL", "SHR"} /\ RightShift(op, v) > 0 /\ r = 0
  /\ LET words == (-v[1]) \div Base ^ (RightShift(op, v) \div WordBits)
     IN  \E m \in 1 .. MaxSize \div BytesPerWord :
           Shifted(v[1], -RightShift(op, v)) = -(Base ^ m) /\ words < Base ^ m

(* Two items are the same: by their bytes, two interops by theirs, arrays  *)
(* and maps by their address, structs by their elements in order.          *)
RECURSIVE Same(_, _)
Same(a, b) ==
  \/ a = b
  \/ ReadByteArray(a) # {} /\ ReadByteArray(a) = ReadByteArray(b)
  \/ /\ a.type = "Struct" /\ b.type = "Struct"
     /\ LET x == Elements[a.address]
            y == Elements[b.address]
        IN  Len(x) = Len(y) /\ \A i \in DOMAIN x : Same(x[i], y[i])

(* Somewhere an Array of one is compared with a Struct of the other.       *)
RECURSIVE ArrayMeetsStruct(_, _)
ArrayMeetsStruct(a, b) ==
  \/ a.type = "Array" /\ b.type = "Struct"
  \/ /\ a.type = "Struct" /\ b.type = "Struct"
     /\ LET x == Elements[a.address]
            y == Elements[b.address]
        IN  \E i \in DOMAIN x \cap DOMAIN y : ArrayMeetsStruct(x[i], y[i])

----------------------------------------------------------------------------
(* Properties.                                                             *)

(* Types; and the form of every number, on which CompareTo, GetSign and    *)
(* the registers rest: packed exactly when the magnitude is small, never   *)
(* without a sign, and at most one word at the top that is 0.              *)
NormalNumber(int) ==
  IF int.bits = << >> THEN int.sign \in 1 - HalfBase .. HalfBase - 1
  ELSE /\ int.sign \in {-1, 1}
       /\ \A i \in DOMAIN int.bits : int.bits[i] \in 0 .. Base - 1
       /\ Used(int.bits) >= Len(int.bits) - 1
       /\ Digits(int.bits, Base) >= HalfBase

ValuesTypeOK ==
  /\ state \in {"NONE", "FAULT", "CRASHED"}
  /\ \A i \in DOMAIN stack :
       /\ stack[i].type \in {"Bool", "Integer", "ByteArray", "Interop", "Array",
                             "Struct", "Map"}
       /\ stack[i].type = "Integer" => NormalNumber(stack[i].int)
  /\ left \in Nat

(* Every number and every comparison that is pushed is the one of          *)
(* arithmetic, across words, signs and the boundary between packed and     *)
(* other numbers, whatever fresh memory holds; but for the shifts to the   *)
(* right that lose a carry, and give 0 in place of a negative number.      *)
NumbersAreExact ==
  last.op \in Numeric =>
    LET v == [i \in DOMAIN last.args |-> NumberOf(last.args[i])] IN
    \A it \in last.pushed :
      \/ Means(last.op, v, NumberOf(it))
      \/ LosesCarry(last.op, v, NumberOf(it))

(* "Shifts a right b bits, preserving sign" (EVMOpCode.h): SHR of a        *)
(* negative number is negative, and of no other.                           *)
ShiftsKeepSign ==
  last.op = "SHR" =>
    \A it \in last.pushed : NumberOf(last.args[1]) < 0 <=> NumberOf(it) < 0

(* The size limit holds for what INC, DEC, ADD, SUB, MUL, MOD, SHL and SHR *)
(* push.  DIV passes it by one byte, for the least number divided by -1;   *)
(* the cases that check nothing add at most one byte to their operands.    *)
ResultsFit ==
  \A it \in last.pushed : it.type = "Integer" =>
    IF last.op \in Additives \cup {"MUL", "MOD", "SHL", "SHR"} THEN ByteSize(it.int) <= MaxSize
    ELSE IF last.op = "DIV" /\ NumberOf(last.args[2]) # -1 THEN ByteSize(it.int) <= MaxSize
    ELSE \E i \in DOMAIN last.args :
           \E int \in GetBigInteger(last.args[i]) : ByteSize(it.int) <= ByteSize(int) + 1

(* When EQUAL answers, it answers whether the two items are the same, in   *)
(* whatever order the two stacks of elements are compared.                 *)
EqualIsSameness ==
  last.op = "EQUAL" =>
    \A it \in last.pushed : it.value <=> Same(last.args[1], last.args[2])

(* Two items that hold values and are equal for EQUAL convert alike: to    *)
(* the same boolean and the same number, and they are NUMEQUAL.            *)
EqualItemsConvertAlike ==
  last.op = "EQUAL" =>
    LET a == last.args[1]
        b == last.args[2]
    IN  Bool(TRUE) \in last.pushed =>
          /\ GetBoolean(a) = GetBoolean(b)
          /\ GetBigInteger(a) = {} <=> GetBigInteger(b) = {}
          /\ \A x \in GetBigInteger(a), y \in GetBigInteger(b) : CompareTo(x, y) = 0

(* The operands of the last instruction hold an uncompressed key where the *)
(* opcode looks for one: VerifySignature may have deleted the message.     *)
HoldsKey(it) ==
  \/ ReadByteArray(it) \cap Uncompressed # {}
  \/ IsList(it) /\ \E i \in DOMAIN Elements[it.address] :
                     ReadByteArray(Elements[it.address][i]) \cap Uncompressed # {}

MessageMayBeGone ==
  \/ last.op \in {"VERIFY", "CHECKSIG"} /\ HoldsKey(Last(last.args))
  \/ last.op = "CHECKMULTISIG" /\ \E i \in DOMAIN last.args : HoldsKey(last.args[i])

(* The process survives every opcode, but for EQUAL where an Array meets a *)
(* Struct, CHECKMULTISIG whose keys are all that is on the stack, and the  *)
(* opcodes that verify signatures when they are given an uncompressed key. *)
CrashesAreKnown ==
  state = "CRASHED" =>
    \/ last.op = "EQUAL" /\ ArrayMeetsStruct(last.args[1], last.args[2])
    \/ /\ last.op = "CHECKMULTISIG"
       /\ GetInt32(Last(last.args)) = {Len(last.args) - 1}
    \/ MessageMayBeGone
=============================================================================
