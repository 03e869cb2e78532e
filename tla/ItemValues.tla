----------------------------- MODULE ItemValues -----------------------------
(***************************************************************************)
(* What stack items hold, how they convert to each other, and when two are *)
(* equal (BoolStackItem, IntegerStackItem, ByteArrayStackItem,             *)
(* InteropStackItem, ArrayStackItem, MapStackItem).                        *)
(*                                                                         *)
(* A conversion is the set of what it yields, empty when it fails.  A      *)
(* container is its address; Elements has what arrays and structs hold,    *)
(* which no operator of this module changes.                               *)
(***************************************************************************)
EXTENDS BigInteger

CONSTANTS
  MaxSize,    \* MAX_BIGINTEGER_SIZE, 32 bytes
  Elements    \* the elements of each array and struct, by address

ASSUME ValuesAssumption == MaxSize \in Nat /\ MaxSize % BytesPerWord = 0

Bool(value) == [type |-> "Bool", value |-> value]

Integer(int) == [type |-> "Integer", int |-> int]

ByteArray(bytes) == [type |-> "ByteArray", bytes |-> bytes]

Interop(payload) == [type |-> "Interop", payload |-> payload]

Container(type, address) == [type |-> type, address |-> address]

IsList(it) == it.type \in {"Array", "Struct"}

----------------------------------------------------------------------------
(* Conversions.                                                            *)

GetBoolean(it) ==
  CASE it.type = "Bool" -> it.value
    [] it.type = "Integer" -> CompareTo(it.int, Zero) # 0
    [] it.type = "ByteArray" -> \E x \in DOMAIN it.bytes : it.bytes[x] # 0
    [] it.type = "Interop" -> it.payload # << >>
    [] it.type \in {"Array", "Struct", "Map"} -> TRUE

GetBigInteger(it) ==
  CASE it.type = "Bool" -> {IF it.value THEN One ELSE Zero}
    [] it.type = "Integer" -> {it.int}
    [] it.type = "ByteArray" -> {FromBytes(it.bytes)}
    [] it.type \in {"Interop", "Array", "Struct", "Map"} -> {}

GetInt32(it) == UNION {ToInt32(int) : int \in GetBigInteger(it)}

(* ReadByteArraySize and ReadByteArray of all of it; no size is -1.        *)
ReadByteArray(it) ==
  CASE it.type = "Bool" -> {IF it.value THEN <<1>> ELSE << >>}
    [] it.type = "Integer" -> {ToByteArray(it.int)}
    [] it.type = "ByteArray" -> {it.bytes}
    [] it.type \in {"Interop", "Array", "Struct", "Map"} -> {}

ByteSize(int) == Len(ToByteArray(int))

(* Mutant: the words are counted only.                                     *)
WordsExceeded(int) == Len(int.bits) * BytesPerWord > MaxSize

(* SizeExceeded, whose fast way out counts words.                          *)
SizeExceeded(int) ==
  /\ int.bits # << >>
  /\ Len(int.bits) * BytesPerWord + 1 >= MaxSize
  /\ ByteSize(int) > MaxSize

----------------------------------------------------------------------------
(* Equals.                                                                 *)

(* Mutant: by what is true.                                                *)
BoolEqualsByTruth(it, other) == it.value = GetBoolean(other)

(* BoolStackItem: any byte array of size 0, or one that is <<1>>.  A       *)
(* false one reads the only byte of the other and wants none.              *)
BoolEquals(it, other) ==
  IF other.type = "Bool" THEN it.value = other.value
  ELSE \E bytes \in ReadByteArray(other) :
         IF it.value THEN bytes = <<1>> ELSE bytes = << >>

(* Mutant: by the number.                                                  *)
IntegerEqualsByNumber(it, other) ==
  \E int \in GetBigInteger(other) : CompareTo(it.int, int) = 0

IntegerEquals(it, other) ==
  IF other.type = "Integer" THEN CompareTo(it.int, other.int) = 0
  ELSE ReadByteArray(other) = ReadByteArray(it)

ByteArrayEquals(it, other) == ReadByteArray(other) = {it.bytes}

InteropEquals(it, other) ==
  other.type = "Interop" /\ other.payload = it.payload

(* Mutant: any other list gets there.                                      *)
CallsItselfForLists(it, other) == it # other /\ IsList(other)

(* An Array puts itself and a Struct on its two stacks, takes itself off   *)
(* again, and as it is no Struct calls Equals with the same two once more. *)
CallsItself(it, other) == it # other /\ other.type = "Struct"

(* An item that is no Struct: what Equals returns, or nothing.             *)
PlainEquals(it, other) ==
  CASE it.type = "Bool" -> {BoolEquals(it, other)}
    [] it.type = "Integer" -> {IntegerEquals(it, other)}
    [] it.type = "ByteArray" -> {ByteArrayEquals(it, other)}
    [] it.type = "Interop" -> {InteropEquals(it, other)}
    [] it.type = "Map" -> {it = other}
    [] it.type = "Array" -> IF CallsItself(it, other) THEN {} ELSE {it = other}

(* The two stacks of ArrayStackItem::Equals, top at the end.               *)
RECURSIVE StacksEqual(_, _)
StacksEqual(stack1, stack2) ==
  IF stack1 = << >> THEN {TRUE}
  ELSE
    LET a    == Last(stack1)
        b    == Last(stack2)
        rest(new1, new2) == StacksEqual(Front(stack1) \o new1,
                                        Front(stack2) \o new2)
    IN  IF a.type # "Struct" THEN
          IF PlainEquals(a, b) = {TRUE} THEN rest(<< >>, << >>)
                                        ELSE PlainEquals(a, b)
        ELSE IF a = b THEN rest(<< >>, << >>)
        ELSE IF b.type # "Struct" THEN {FALSE}
        ELSE IF Len(Elements[a.address]) # Len(Elements[b.address]) THEN {FALSE}
        ELSE rest(Elements[a.address], Elements[b.address])

Equals(it, other) ==
  IF it.type # "Struct" THEN PlainEquals(it, other)
  ELSE IF other.type # "Struct" THEN {FALSE}
  ELSE StacksEqual(<<it>>, <<other>>)
=============================================================================
