--------------------------- MODULE ValueOpcodesMC ---------------------------
(***************************************************************************)
(* Small instances of ValueOpcodes: words of two bytes, bytes of three     *)
(* bits, numbers of up to three words.                                     *)
(***************************************************************************)
EXTENDS ValueOpcodes

(* The shortest bytes of a number, as scripts push them.                   *)
BytesOf(v) ==
  LET holds(n) == IF n = 0 THEN v = 0
                  ELSE v \in -(ByteBase ^ n \div 2) .. ByteBase ^ n \div 2 - 1
      size     == Min({n \in 0 .. 8 : holds(n)})
  IN  [i \in 1 .. size |-> (v \div ByteBase ^ (i - 1)) % ByteBase]

(* Around 0, the end of packed numbers, one, two and three words, and the  *)
(* size limit; 65536 and 65537, 130881 and 2111, where the first guess of  *)
(* a digit of the quotient is one and two too large.                       *)
Values ==
  {0, 1, 5, 31, 32, 63, 64, 2047, 2048, 2111, 4095, 4096, 65536, 65537, 130881,
   131071}

SignedValues == Values \cup {-v : v \in Values} \cup {-33, -131072}

(* Numbers as byte arrays; bytes that are longer than the number needs, or *)
(* than the limit; the items of the other types that convert.              *)
NumberItems ==
  {ByteArray(BytesOf(v)) : v \in SignedValues}
    \cup {Bool(TRUE), Bool(FALSE), Integer(Packed(7)), Integer(Packed(0)),
          Integer(Packed(1)),
          ByteArray(<<0, 0>>), ByteArray(<<7, 7, 7, 7, 7>>),
          ByteArray(<<0, 0, 0, 0, 0, 0, 1>>), ByteArray(<<1, 0>>)}

Binary == {<<a, b>> : a, b \in NumberItems}

(* Three operands, and two opcodes one after the other.                    *)
ChainItems == {ByteArray(BytesOf(v)) : v \in {-4096, -1, 0, 31, 65537, 131071}}

Chains == {<<a, b, c>> : a, b, c \in ChainItems}

----------------------------------------------------------------------------
(* Containers.  Structs that are the same, share elements, nest, or hold   *)
(* the arrays and maps that other structs hold, in another place.          *)

Contents ==
  << <<Bool(TRUE)>>,                                         \* 1, an array
     <<ByteArray(<<1>>)>>,                                   \* structs from 2
     <<Bool(TRUE)>>,
     <<Container("Struct", 2), Container("Array", 1)>>,
     <<Container("Struct", 3), Container("Array", 1)>>,
     <<Container("Array", 1), Container("Struct", 3)>>,
     <<Container("Struct", 2), Container("Struct", 2)>>,
     <<Container("Map", 8), Interop(<<1>>), Bool(FALSE)>>,
     <<Container("Map", 8), Interop(<<1>>), ByteArray(<< >>)>>,
     << >>,
     <<ByteArray(<<1, 2, 3>>), ByteArray(<<1, 2, 4>>)>>,     \* 11, of keys
     <<ByteArray(<<2, 1>>)>>,                                \* of signatures
     <<ByteArray(<<2, 1>>), Container("Map", 8)>>,
     <<ByteArray(<<4, 2, 3, 1>>), ByteArray(<<1, 2, 3>>)>> >>

ScalarItems ==
  {Bool(TRUE), Bool(FALSE), Integer(Packed(0)), Integer(Packed(1)),
   Integer(FromBytes(<<0, 0, 1>>)), ByteArray(<< >>), ByteArray(<<0>>),
   ByteArray(<<1>>), ByteArray(<<0, 0, 1>>), Interop(<< >>), Interop(<<1>>)}

ContainerItems ==
  {Container("Array", 1), Container("Array", 10), Container("Map", 8)}
    \cup {Container("Struct", n) : n \in 2 .. 10}

Pairs ==
  {<<a, b>> : a, b \in ScalarItems \cup ContainerItems}

----------------------------------------------------------------------------
(* Signatures and keys: two of each, an uncompressed key, bytes that are   *)
(* neither, items that have none; numbers, arrays and structs that hold    *)
(* them; counts that are too large, 0, and all that there is.              *)

Key(n) == <<1, 2, n>>

KeyBytes == {Key(3), Key(4)}

SignatureBytes == {<<2, 1>>, <<3, 1>>}

UncompressedBytes == {<<4, 2, 3, 1>>}

NoKey == <<1>>

AllBytes == KeyBytes \cup UncompressedBytes \cup SignatureBytes \cup {NoKey}

Count(n) == <<Integer(Packed(n))>>

K3 == ByteArray(Key(3))

K4 == ByteArray(Key(4))

K65 == ByteArray(<<4, 2, 3, 1>>)

None1 == ByteArray(NoKey)

S1 == ByteArray(<<2, 1>>)

S2 == ByteArray(<<3, 1>>)

KeyPart ==
  {<<K3>> \o Count(1), <<K4, K3>> \o Count(2), <<K4, K3, K4>> \o Count(3),
   <<K4, None1>> \o Count(2),
   <<K65>> \o Count(1), <<K3, K65>> \o Count(2), <<K65, K3, K65>> \o Count(3),
   <<Container("Array", 14)>>,
   <<Container("Array", 11)>>, <<Container("Struct", 10)>>,
   <<Container("Map", 8), K3>> \o Count(2), <<K3>> \o Count(0)}

SignaturePart ==
  {<<S1>> \o Count(1), <<S2, S1>> \o Count(2), <<S2, S1, S2>> \o Count(3),
   <<None1>> \o Count(1),
   <<Container("Array", 12)>>, <<Container("Struct", 13)>>,
   <<Container("Map", 8)>> \o Count(1), <<Interop(<<1>>)>>}

Signed ==
  {s \o k : s \in SignaturePart, k \in KeyPart}
    \cup {<<S1, K3>>, <<S1, S1, K3>>, <<Container("Map", 8), S1, K3>>,
          <<S1, K65>>, <<None1, S1, K65>>, <<S1, None1, K65>>,
          <<K4, K3>> \o Count(2), <<S1, K3>> \o Count(3)}

Answers == [SignatureBytes \X KeyBytes -> 0 .. 1]

Start(stacks, answers, count) ==
  {[stack |-> s, answer |-> a, left |-> count] : s \in stacks, a \in answers}

AllStarts ==
  Start(Binary \cup Pairs, {<< >>}, 1) \cup Start(Chains, {<< >>}, 2)
    \cup Start(Signed, Answers, 1)

(* Negative numbers of one to three words.                                 *)
ShiftStarts ==
  Start({<<ByteArray(BytesOf(-v)), ByteArray(BytesOf(s))>> :
           v \in {63, 4095, 4096, 131071}, s \in 1 .. 18}, {<< >>}, 1)

SignedStarts == Start(Signed, Answers, 1)
=============================================================================
