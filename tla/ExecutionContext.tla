-------------------------- MODULE ExecutionContext --------------------------
(***************************************************************************)
(* One frame of the invocation stack (ExecutionContext.h, .cpp): a script, *)
(* the index of its next byte, the number of results its RET delivers, and *)
(* the two item stacks of the frame.  The operators are the frame's reads  *)
(* and seeks, and SendTo of Stack.cpp, which moves items between frames.   *)
(*                                                                         *)
(* Stacks are sequences with the top at the end.  An item is the byte      *)
(* string it converts to, which is all the control opcodes look at.        *)
(***************************************************************************)
EXTENDS Integers, Sequences, SequencesExt, EVMOpCode

Byte == 0..255

Item == Seq(Byte)

(* `due' is a history field no code reads: the number of results that the  *)
(* call which led to this frame asked for, -1 for all of them.             *)
Context == [script : Seq(Byte), ip : Nat, rv : -1 .. 255, due : -1 .. 255,
            eval : Seq(Item), alt : Seq(Item)]

NewContext(script, ip, rv) ==
  [script |-> script, ip |-> ip, rv |-> rv, due |-> rv,
   eval |-> << >>, alt |-> << >>]

(* GetNextInstruction: past the end of a script there is an implicit RET.  *)
NextInstruction(c) ==
  IF c.ip >= Len(c.script) THEN RET ELSE c.script[c.ip + 1]

(* The frame once ReadNextInstruction has consumed the opcode.             *)
Fetched(c) ==
  IF c.ip >= Len(c.script) THEN c ELSE [c EXCEPT !.ip = @ + 1]

----------------------------------------------------------------------------
(* Reads: a read that finds too few bytes fails, and has consumed them.    *)

CanRead(c, n) == c.ip + n <= Len(c.script)

Read(c, n) == [c EXCEPT !.ip = IF CanRead(c, n) THEN @ + n ELSE Len(c.script)]

Data(c, n) == SubSeq(c.script, c.ip + 1, c.ip + n)

UInt8(c) == c.script[c.ip + 1]

UInt16(c) == c.script[c.ip + 1] + 256 * c.script[c.ip + 2]

UInt32(c) ==
  UInt16(c) + 65536 * c.script[c.ip + 3] + 16777216 * c.script[c.ip + 4]

Int16(c) == IF UInt16(c) >= 32768 THEN UInt16(c) - 65536 ELSE UInt16(c)

(* The length ReadVarBytes decodes from a prefix of 1, 3, 5 or 9 bytes.    *)
(* The little-endian value is at most `max' (a byte) when its low byte is  *)
(* and the others are zero.                                                *)
VarWidth(c) ==
  CASE UInt8(c) = 253 -> 2 [] UInt8(c) = 254 -> 4 [] UInt8(c) = 255 -> 8
    [] OTHER -> 0

VarLength(c) == IF VarWidth(c) = 0 THEN UInt8(c) ELSE c.script[c.ip + 2]

CanReadVarBytes(c, max) ==
  /\ CanRead(c, 1) /\ CanRead(c, 1 + VarWidth(c))
  /\ VarLength(c) <= max
  /\ \A i \in 3 .. (1 + VarWidth(c)) : c.script[c.ip + i] = 0

ReadVarBytes(c) ==
  IF CanRead(c, 1) THEN Read(c, 1 + VarWidth(c)) ELSE Read(c, 1)

----------------------------------------------------------------------------
(* Seeks stay inside the script: one that would not leaves the index alone *)
(* and returns false.                                                      *)

CouldSeekFromHere(c, offset) == c.ip + offset \in 0 .. (Len(c.script) - 1)

(* Mutant: seeks as the official release is said to do, without a check.   *)
SeekFromHereUnchecked(c, offset) == [c EXCEPT !.ip = @ + offset]

SeekFromHere(c, offset) ==
  IF CouldSeekFromHere(c, offset) THEN [c EXCEPT !.ip = @ + offset] ELSE c

----------------------------------------------------------------------------
(* Stack<T>::SendTo(stack, count) moves the top `count' items, in order,   *)
(* and all of them when count is -1 or more than there are.                *)

SentCount(s, count) == IF count = -1 \/ count > Len(s) THEN Len(s) ELSE count

Sent(s, count) == SubSeq(s, Len(s) - SentCount(s, count) + 1, Len(s))

Kept(s, count) == SubSeq(s, 1, Len(s) - SentCount(s, count))

(* Clone(rvcount, pcount): a frame at the same byte of the same script that *)
(* takes pcount items from this one.                                       *)
Clone(c, rvcount, pcount) ==
  [NewContext(c.script, c.ip, rvcount) EXCEPT !.eval = Sent(c.eval, pcount)]

(* Mutant: the items that are sent stay.                                   *)
ClonedWithAll(c, pcount) == c

Cloned(c, pcount) == [c EXCEPT !.eval = Kept(@, pcount)]

(* GetBoolean of a byte array: some byte is not zero.                      *)
GetBoolean(item) == \E i \in 1 .. Len(item) : item[i] # 0
=============================================================================
