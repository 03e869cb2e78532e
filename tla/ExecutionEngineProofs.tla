----------------------- MODULE ExecutionEngineProofs -----------------------
(***************************************************************************)
(* The type invariant of the interpreter, and that no instruction takes    *)
(* the pointer of any frame out of its script, for all scripts and limits. *)
(*                                                                         *)
(* A step of an instruction changes five variables; Stepped says what each *)
(* of them is then, and there is a lemma for each action.                  *)
(***************************************************************************)
EXTENDS ExecutionEngine, SequenceTheorems, TLAPS

----------------------------------------------------------------------------
(* What the operators of ExecutionContext return, for every frame.         *)

(* A frame whose pointer is in its script, or just past its end.           *)
Frame == {c \in Context : c.ip <= Len(c.script)}

(* Every field of a frame has its type.                                    *)
LEMMA FrameFields ==
  ASSUME NEW c \in Frame
  PROVE  /\ c.script \in Seq(Byte) /\ c.ip \in Nat /\ c.ip <= Len(c.script)
         /\ c.rv \in -1 .. 255 /\ c.due \in -1 .. 255
         /\ c.rv \in Int /\ c.rv >= -1
         /\ c.eval \in Seq(Item) /\ c.alt \in Seq(Item)
         /\ Len(c.script) \in Nat /\ Len(c.eval) \in Nat
<1>1. /\ c.script \in Seq(Byte) /\ c.ip \in Nat /\ c.ip <= Len(c.script)
      /\ c.rv \in -1 .. 255 /\ c.due \in -1 .. 255
      /\ c.eval \in Seq(Item) /\ c.alt \in Seq(Item)
  BY DEF Frame, Context
<1>2. \A n \in -1 .. 255 : n \in Int /\ n >= -1
  OBVIOUS
<1>3. c.rv \in Int /\ c.rv >= -1
  BY <1>1, <1>2
<1> QED
  BY <1>1, <1>3

(* A frame is one when its fields are.                                     *)
LEMMA FrameFromFields ==
  ASSUME NEW script \in Seq(Byte), NEW ip \in Nat, ip <= Len(script),
         NEW rv \in -1 .. 255, NEW due \in -1 .. 255,
         NEW eval \in Seq(Item), NEW alt \in Seq(Item)
  PROVE  [script |-> script, ip |-> ip, rv |-> rv, due |-> due,
          eval |-> eval, alt |-> alt] \in Frame
BY DEF Frame, Context

(* A new frame starts at a byte of its script, with empty stacks.          *)
LEMMA NewContextIsFrame ==
  ASSUME NEW script \in Seq(Byte), NEW ip \in Nat, ip <= Len(script),
         NEW rv \in -1 .. 255
  PROVE  NewContext(script, ip, rv) \in Frame
BY FrameFromFields, EmptySeq DEF NewContext

(* Moving the pointer inside the script, or replacing the items, leaves a  *)
(* frame.                                                                  *)
LEMMA MovedFrame ==
  ASSUME NEW c \in Frame, NEW ip \in Nat, ip <= Len(c.script)
  PROVE  [c EXCEPT !.ip = ip] \in Frame
BY DEF Frame, Context

(* A frame with other items is a frame.                                    *)
LEMMA RefilledFrame ==
  ASSUME NEW c \in Frame, NEW eval \in Seq(Item)
  PROVE  [c EXCEPT !.eval = eval] \in Frame
BY DEF Frame, Context

(* The same for both of its stacks.                                        *)
LEMMA RefilledFrameAlt ==
  ASSUME NEW c \in Frame, NEW eval \in Seq(Item), NEW alt \in Seq(Item)
  PROVE  [c EXCEPT !.eval = eval, !.alt = alt] \in Frame
BY DEF Frame, Context

(* ReadNextInstruction moves the pointer by at most one byte, never past   *)
(* the end, and the instruction is a byte.                                 *)
LEMMA FetchedFrame ==
  ASSUME NEW c \in Frame
  PROVE  /\ Fetched(c) \in Frame
         /\ NextInstruction(c) \in Byte
<1>1. /\ c.script \in Seq(Byte) /\ c.ip \in Nat /\ c.ip <= Len(c.script)
      /\ Len(c.script) \in Nat
  BY FrameFields
<1>2. CASE c.ip >= Len(c.script)
  BY <1>2 DEF Fetched, NextInstruction, RET, Byte
<1>3. CASE ~(c.ip >= Len(c.script))
  <2>1. c.ip + 1 \in Nat /\ c.ip + 1 <= Len(c.script)
    BY <1>1, <1>3
  <2>2. Fetched(c) = [c EXCEPT !.ip = c.ip + 1]
    BY <1>3 DEF Fetched
  <2>3. Fetched(c) \in Frame
    BY <2>1, <2>2, MovedFrame
  <2>4. c.script[c.ip + 1] \in Byte
    BY <1>1, <2>1, ElementOfSeq
  <2> QED
    BY <1>3, <2>3, <2>4 DEF NextInstruction
<1> QED
  BY <1>2, <1>3

(* A read stops at the end of the script.                                  *)
LEMMA ReadFrame ==
  ASSUME NEW c \in Frame, NEW n \in Nat
  PROVE  /\ Read(c, n) \in Frame
         /\ Read(c, n).eval = c.eval /\ Read(c, n).alt = c.alt
         /\ Read(c, n).rv = c.rv /\ Read(c, n).due = c.due
<1>1. c.ip \in Nat /\ c.ip <= Len(c.script) /\ Len(c.script) \in Nat
  BY FrameFields
<1> DEFINE ip == IF CanRead(c, n) THEN c.ip + n ELSE Len(c.script)
<1>2. ip \in Nat /\ ip <= Len(c.script)
  BY <1>1 DEF CanRead
<1>3. Read(c, n) = [c EXCEPT !.ip = ip]
  BY DEF Read
<1>4. Read(c, n) \in Frame
  BY <1>2, <1>3, MovedFrame
<1> QED
  BY <1>3, <1>4 DEF Frame, Context

(* What a successful read yields.                                          *)
LEMMA DataBytes ==
  ASSUME NEW c \in Frame, NEW n \in Nat, CanRead(c, n)
  PROVE  /\ Data(c, n) \in Seq(Byte) /\ Len(Data(c, n)) = n
         /\ \A i \in 1 .. n : Data(c, n)[i] \in Byte
<1>1. c.script \in Seq(Byte) /\ c.ip \in Nat /\ Len(c.script) \in Nat
  BY FrameFields
<1>2. \A i \in (c.ip + 1) .. (c.ip + n) : c.script[i] \in Byte
  BY <1>1, ElementOfSeq DEF CanRead
<1>3. Data(c, n) \in Seq(Byte) /\ Len(Data(c, n)) = n
  BY <1>1, <1>2, SubSeqProperties DEF Data
<1> QED
  BY <1>3, ElementOfSeq

(* A byte of the script that a successful read covers.                     *)
LEMMA ScriptByte ==
  ASSUME NEW c \in Frame, NEW n \in Nat, CanRead(c, n), NEW i \in 1 .. n
  PROVE  c.script[c.ip + i] \in Byte /\ c.script[c.ip + i] \in Nat
<1>1. c.script \in Seq(Byte) /\ c.ip \in Nat /\ Len(c.script) \in Nat
  BY FrameFields
<1>2. c.ip + i \in 1 .. Len(c.script)
  BY <1>1 DEF CanRead
<1>3. c.script[c.ip + i] \in Byte
  BY <1>1, <1>2, ElementOfSeq
<1>4. Byte \subseteq Nat
  BY DEF Byte
<1> QED
  BY <1>3, <1>4

(* An offset is a signed 16-bit integer.                                   *)
LEMMA OffsetIsInt ==
  ASSUME NEW c \in Frame, CanRead(c, 2)
  PROVE  UInt16(c) \in Nat /\ Int16(c) \in Int
<1> DEFINE low == c.script[c.ip + 1]
           high == c.script[c.ip + 2]
<1>1. low \in 0 .. 255 /\ high \in 0 .. 255
  BY ScriptByte DEF Byte
<1>2. UInt16(c) = low + 256 * high
  BY DEF UInt16
<1>3. UInt16(c) \in Nat
  <2> HIDE DEF low, high
  <2> QED BY <1>1, <1>2
<1> QED
  BY <1>3 DEF Int16

(* A seek never leaves the script, whatever the offset.                    *)
LEMMA SeekFrame ==
  ASSUME NEW c \in Frame, NEW offset \in Int
  PROVE  SeekFromHere(c, offset) \in Frame
<1>1. c.ip \in Nat /\ Len(c.script) \in Nat
  BY FrameFields
<1>2. CASE CouldSeekFromHere(c, offset)
  <2>1. c.ip + offset \in Nat /\ c.ip + offset <= Len(c.script)
    BY <1>1, <1>2 DEF CouldSeekFromHere
  <2>2. SeekFromHere(c, offset) = [c EXCEPT !.ip = c.ip + offset]
    BY <1>2 DEF SeekFromHere
  <2> QED
    BY <2>1, <2>2, MovedFrame
<1>3. CASE ~CouldSeekFromHere(c, offset)
  BY <1>3 DEF SeekFromHere
<1> QED
  BY <1>2, <1>3

(* SendTo splits a stack in two, at a place that exists for every count.   *)
LEMMA SendToSplits ==
  ASSUME NEW S, NEW s \in Seq(S), NEW count \in Int, count >= -1
  PROVE  /\ SentCount(s, count) \in 0 .. Len(s)
         /\ Sent(s, count) \in Seq(S) /\ Len(Sent(s, count)) = SentCount(s, count)
         /\ Kept(s, count) \in Seq(S)
         /\ Kept(s, count) \o Sent(s, count) = s
<1> DEFINE k == Len(s) - SentCount(s, count)
<1>1. Len(s) \in Nat /\ SentCount(s, count) \in 0 .. Len(s)
  BY DEF SentCount
<1>2. k \in 0 .. Len(s)
  BY <1>1
<1>3. \A i \in 1 .. Len(s) : s[i] \in S
  BY ElementOfSeq
<1>4. Sent(s, count) \in Seq(S) /\ Len(Sent(s, count)) = SentCount(s, count)
  BY <1>1, <1>3, SubSeqProperties DEF Sent
<1>5. Kept(s, count) \in Seq(S)
  BY <1>1, <1>3, SubSeqProperties DEF Kept
<1>6. SubSeq(s, 1, k) \o SubSeq(s, k + 1, Len(s)) = SubSeq(s, 1, Len(s))
  <2>1. /\ 1 \in 1 .. (Len(s) + 1) /\ k \in (1 - 1) .. Len(s)
        /\ Len(s) \in k .. Len(s)
    BY <1>1, <1>2
  <2> HIDE DEF k
  <2> QED
    BY <2>1, ConcatAdjacentSubSeq
<1>7. SubSeq(s, 1, Len(s)) = s
  BY SubSeqFull
<1> QED
  BY <1>1, <1>4, <1>5, <1>6, <1>7 DEF Sent, Kept

(* Clone and what it leaves of the caller are frames.                      *)
LEMMA CloneFrame ==
  ASSUME NEW c \in Frame, NEW rv \in -1 .. 255, NEW pcount \in -1 .. 255
  PROVE  Clone(c, rv, pcount) \in Frame /\ Cloned(c, pcount) \in Frame
<1>1. c.eval \in Seq(Item)
  BY FrameFields
<1>2. Sent(c.eval, pcount) \in Seq(Item) /\ Kept(c.eval, pcount) \in Seq(Item)
  BY <1>1, SendToSplits
<1>3. NewContext(c.script, c.ip, rv) \in Frame
  BY FrameFields, NewContextIsFrame
<1> QED
  BY <1>1, <1>2, <1>3, RefilledFrame DEF Clone, Cloned

----------------------------------------------------------------------------
(* The steps of the engine.                                                *)

Inv == TypeOK /\ InstructionPointerInScript

Gas == 0 .. (GasModulus - 1)

Stepped ==
  /\ state' \in EVMState /\ consumedGas' \in Gas
  /\ invocation' \in Seq(Frame)
  /\ resultStack' \in Seq(Item) /\ scripts' \in Seq(Seq(Byte))

(* The invariant says that the invocation stack is a sequence of frames.   *)
LEMMA FramesOfInv ==
  Inv => invocation \in Seq(Frame)
<1> SUFFICES ASSUME Inv PROVE invocation \in Seq(Frame)
  OBVIOUS
<1>1. invocation \in Seq(Context)
  BY DEF Inv, TypeOK
<1>2. \A i \in 1 .. Len(invocation) : invocation[i] \in Frame
  BY <1>1, ElementOfSeq DEF Inv, InstructionPointerInScript, Frame
<1>3. invocation \in [1 .. Len(invocation) -> Frame] /\ Len(invocation) \in Nat
  BY <1>1, <1>2
<1> QED
  BY <1>3, SeqDef

(* The converse: a sequence of frames has its pointers in its scripts.     *)
LEMMA InvOfFrames ==
  ASSUME invocation' \in Seq(Frame)
  PROVE  /\ invocation' \in Seq(Context)
         /\ InstructionPointerInScript'
<1>1. Frame \subseteq Context
  BY DEF Frame
<1>2. invocation' \in Seq(Context)
  BY <1>1, SeqMonotonic
<1>3. \A i \in 1 .. Len(invocation') : invocation'[i] \in Frame
  BY ElementOfSeq
<1> QED
  BY <1>2, <1>3, FrameFields DEF InstructionPointerInScript

(* The frame that runs, and the stack with another in its place.           *)
LEMMA RunningFrame ==
  ASSUME Inv, invocation # << >>
  PROVE  /\ Top \in Frame /\ Cur \in Frame /\ Opcode \in Byte
         /\ Front(invocation) \in Seq(Frame)
         /\ Len(invocation) \in Nat \ {0}
<1>1. invocation \in Seq(Frame)
  BY FramesOfInv
<1>2. Len(invocation) \in Nat \ {0}
  BY <1>1, EmptySeq
<1>3. \A i \in 1 .. Len(invocation) : invocation[i] \in Frame
  BY <1>1, ElementOfSeq
<1>4. Top \in Frame
  BY <1>2, <1>3 DEF Top, Last
<1>5. Front(invocation) \in Seq(Frame)
  BY <1>2, <1>3, SubSeqProperties DEF Front
<1> QED
  BY <1>2, <1>4, <1>5, FetchedFrame DEF Cur, Opcode

(* A frame in the place of the top one.                                    *)
LEMMA WithTopFrames ==
  ASSUME Inv, invocation # << >>, NEW c \in Frame
  PROVE  WithTop(c) \in Seq(Frame)
BY RunningFrame, AppendProperties DEF WithTop

(* Gas is a number of the counter's width, and every price is a number.    *)
LEMMA GasTypes ==
  ASSUME NEW gas \in Nat, NEW cost \in Nat
  PROVE  AddGas(gas, cost) \in Gas
BY EngineAssumption DEF AddGas, Gas

(* The gas after a charge has its type.                                    *)
LEMMA ChargedType ==
  ASSUME Inv
  PROVE  consumedGas \in Nat /\ Charged \in Gas
<1>1. consumedGas \in Nat
  BY DEF Inv, TypeOK
<1>2. Cost(Opcode) \in Nat
  BY DEF Cost
<1> QED
  BY <1>1, <1>2, GasTypes DEF Charged

(* A case that leaves a state and a stack of frames has stepped.           *)
LEMMA LeaveStepped ==
  ASSUME Inv, consumedGas' \in Gas, NEW s \in EVMState,
         NEW stack \in Seq(Frame), Leave(s, stack)
  PROVE  Stepped
BY DEF Leave, Stepped, Inv, TypeOK

(* An instruction that faults or goes on in its own frame.                 *)
LEMMA TopStepped ==
  ASSUME Inv, invocation # << >>, consumedGas' \in Gas, NEW c \in Frame,
         SetFault(c) \/ Continue(c)
  PROVE  Stepped
<1>1. state \in EVMState /\ "FAULT" \in EVMState
  BY DEF Inv, TypeOK, EVMState
<1> QED
  BY <1>1, WithTopFrames, LeaveStepped DEF SetFault, Continue

(* One that pushes an item it makes.                                       *)
LEMMA PushNewStepped ==
  ASSUME Inv, invocation # << >>, consumedGas' \in Gas, NEW c \in Frame,
         NEW item \in Item, PushNew(c, item)
  PROVE  Stepped
<1>1. c.eval \in Seq(Item)
  BY FrameFields
<1>2. [c EXCEPT !.eval = Append(c.eval, item)] \in Frame
  BY <1>1, AppendProperties, RefilledFrame
<1> QED
  BY <1>2, TopStepped DEF PushNew
----------------------------------------------------------------------------
(* One lemma for each action of InternalStepInto.                          *)

LEMMA OutOfGasStepped ==
  ASSUME Inv, invocation # << >>, OutOfGas
  PROVE  Stepped
<1>1. "FAULT_BY_GAS" \in EVMState
  BY DEF EVMState
<1>2. WithTop(Cur) \in Seq(Frame)
  BY RunningFrame, WithTopFrames
<1> QED
  BY <1>1, <1>2, ChargedType, LeaveStepped DEF OutOfGas

(* PUSHM1 to PUSH16.                                                       *)
LEMMA PushStepped ==
  ASSUME Inv, invocation # << >>, Push
  PROVE  Stepped
<1>1. Cur \in Frame /\ Opcode \in Byte
  BY RunningFrame
<1>2. << >> \in Item /\ <<255>> \in Item
  BY EmptySeq DEF Item, Byte
<1>3. ASSUME Opcode \in PUSH1 .. PUSH16
      PROVE  <<Opcode - PUSH1 + 1>> \in Item
  BY <1>3 DEF Item, Byte, PUSH1, PUSH16
<1> DEFINE item == CASE Opcode = PUSH0 -> << >>
                     [] Opcode = PUSHM1 -> <<255>>
                     [] OTHER -> <<Opcode - PUSH1 + 1>>
<1>4. Opcode \in {PUSH0, PUSHM1} \cup (PUSH1 .. PUSH16)
  BY DEF Push, Case
<1>5. item \in Item
  BY <1>2, <1>3, <1>4 DEF PUSH0, PUSHM1
<1>6. consumedGas' \in Gas /\ PushNew(Cur, item)
  BY ChargedType DEF Push
<1> HIDE DEF item
<1> QED
  BY <1>1, <1>5, <1>6, PushNewStepped

(* A push of the bytes that follow.                                        *)
LEMMA PushDataStepped ==
  ASSUME Inv, invocation # << >>, consumedGas' \in Gas,
         NEW c \in Frame, NEW length \in Nat, PushData(c, length)
  PROVE  Stepped
<1>1. Read(c, length) \in Frame
  BY ReadFrame
<1>2. CASE CanRead(c, length)
  <2>1. Data(c, length) \in Item
    BY <1>2, DataBytes DEF Item
  <2> QED
    BY <1>1, <1>2, <2>1, PushNewStepped DEF PushData
<1>3. CASE ~CanRead(c, length)
  BY <1>1, <1>3, TopStepped DEF PushData
<1> QED
  BY <1>2, <1>3

(* PUSHBYTES1 to PUSHBYTES75.                                              *)
LEMMA PushBytesStepped ==
  ASSUME Inv, invocation # << >>, PushBytes
  PROVE  Stepped
<1>1. Cur \in Frame /\ Opcode \in Byte
  BY RunningFrame
<1>2. Opcode \in Nat
  BY <1>1 DEF Byte
<1> QED
  BY <1>1, <1>2, ChargedType, PushDataStepped DEF PushBytes

(* The lengths that PUSHDATA1, 2 and 4 read are numbers.                   *)
LEMMA LengthsAreNat ==
  ASSUME NEW c \in Frame
  PROVE  /\ CanRead(c, 1) => UInt8(c) \in Nat
         /\ CanRead(c, 2) => UInt16(c) \in Nat
         /\ CanRead(c, 4) => UInt32(c) \in Nat
<1>1. ASSUME CanRead(c, 1) PROVE UInt8(c) \in Nat
  <2>1. c.script[c.ip + 1] \in Byte
    BY <1>1, ScriptByte
  <2> QED
    BY <2>1 DEF UInt8, Byte
<1>2. ASSUME CanRead(c, 2) PROVE UInt16(c) \in Nat
  BY <1>2, OffsetIsInt
<1>3. ASSUME CanRead(c, 4) PROVE UInt32(c) \in Nat
  <2> DEFINE b3 == c.script[c.ip + 3]
             b4 == c.script[c.ip + 4]
  <2>1. CanRead(c, 2)
    BY <1>3, FrameFields DEF CanRead
  <2>2. UInt16(c) \in Nat
    BY <2>1, OffsetIsInt
  <2>3. b3 \in 0 .. 255 /\ b4 \in 0 .. 255
    BY <1>3, ScriptByte DEF Byte
  <2>4. UInt32(c) = UInt16(c) + 65536 * b3 + 16777216 * b4
    BY DEF UInt32
  <2> HIDE DEF b3, b4
  <2> QED
    BY <2>2, <2>3, <2>4
<1> QED
  BY <1>1, <1>2, <1>3

(* PUSHDATA1, PUSHDATA2 and PUSHDATA4.                                     *)
LEMMA PushData124Stepped ==
  ASSUME Inv, invocation # << >>, PushData124
  PROVE  Stepped
<1> DEFINE width == CASE Opcode = PUSHDATA1 -> 1 [] Opcode = PUSHDATA2 -> 2
                      [] OTHER -> 4
           length == CASE width = 1 -> UInt8(Cur) [] width = 2 -> UInt16(Cur)
                       [] OTHER -> UInt32(Cur)
           readable == CanRead(Cur, width)
             /\ (width = 4 => Data(Cur, 4)[4] < 128 /\ length <= MaxItemLength)
<1>1. Cur \in Frame /\ consumedGas' \in Gas
  BY RunningFrame, ChargedType DEF PushData124
<1>2. width \in {1, 2, 4}
  OBVIOUS
<1>3. Read(Cur, width) \in Frame
  BY <1>1, <1>2, ReadFrame
<1>4. CASE readable
  <2>1. length \in Nat
    BY <1>1, <1>2, <1>4, LengthsAreNat
  <2>2. PushData(Read(Cur, width), length)
    BY <1>4 DEF PushData124
  <2> HIDE DEF length, width
  <2> QED
    BY <1>1, <1>3, <2>1, <2>2, PushDataStepped
<1>5. CASE ~readable
  <2>1. SetFault(Read(Cur, width))
    BY <1>5 DEF PushData124
  <2> HIDE DEF width
  <2> QED
    BY <1>1, <1>3, <2>1, TopStepped
<1> QED
  BY <1>4, <1>5

(* NOP.                                                                    *)
LEMMA NopStepped ==
  ASSUME Inv, invocation # << >>, Nop
  PROVE  Stepped
BY RunningFrame, ChargedType, TopStepped DEF Nop

(* A jump of any frame, on top of any stack of frames.                     *)
LEMMA JmpLabelStepped ==
  ASSUME Inv, NEW below \in Seq(Frame), NEW c \in Frame, NEW gas \in Nat,
         JmpLabel(below, c, gas)
  PROVE  Stepped
<1> DEFINE at == Read(c, 2)
           offset == Int16(c) - 3
           paid == AddGas(gas, JumpCost)
<1>1. consumedGas' \in Gas
  BY GasTypes DEF JmpLabel, JumpCost
<1>2. at \in Frame
  BY ReadFrame
<1>3. {"FAULT", "FAULT_BY_GAS", state} \subseteq EVMState
  BY DEF EVMState, Inv, TypeOK
<1>4. \A f \in Frame : Append(below, f) \in Seq(Frame)
  BY AppendProperties
<1>5. CASE ~Affordable(paid)
  <2>1. Leave("FAULT_BY_GAS", Append(below, c))
    BY <1>5 DEF JmpLabel
  <2> QED
    BY <1>1, <1>3, <1>4, <2>1, LeaveStepped
<1>6. CASE Affordable(paid) /\ CanRead(c, 2) /\ CouldSeekFromHere(at, offset)
  <2>1. Leave(state, Append(below, SeekFromHere(at, offset)))
    BY <1>6 DEF JmpLabel
  <2>2. offset \in Int
    BY <1>6, OffsetIsInt
  <2>3. SeekFromHere(at, offset) \in Frame
    BY <1>2, <2>2, SeekFrame
  <2> QED
    BY <1>1, <1>3, <1>4, <2>1, <2>3, LeaveStepped
<1>7. CASE Affordable(paid) /\ ~(CanRead(c, 2) /\ CouldSeekFromHere(at, offset))
  <2>1. Leave("FAULT", Append(below, at))
    BY <1>7 DEF JmpLabel
  <2> QED
    BY <1>1, <1>2, <1>3, <1>4, <2>1, LeaveStepped
<1> QED
  BY <1>5, <1>6, <1>7

(* JMP.                                                                    *)
LEMMA JmpStepped ==
  ASSUME Inv, invocation # << >>, Jmp
  PROVE  Stepped
BY RunningFrame, ChargedType, JmpLabelStepped DEF Jmp

(* The items of a frame without the one on top.                            *)
LEMMA PoppedFrame ==
  ASSUME NEW c \in Frame, c.eval # << >>
  PROVE  /\ [c EXCEPT !.eval = Front(c.eval)] \in Frame
         /\ Front(c.eval) \in Seq(Item) /\ Last(c.eval) \in Item
<1>1. c.eval \in Seq(Item)
  BY FrameFields
<1>2. Len(c.eval) \in Nat \ {0}
  BY <1>1, EmptySeq
<1>3. \A i \in 1 .. Len(c.eval) : c.eval[i] \in Item
  BY <1>1, ElementOfSeq
<1>4. Front(c.eval) \in Seq(Item) /\ Last(c.eval) \in Item
  BY <1>2, <1>3, SubSeqProperties DEF Front, Last
<1> QED
  BY <1>4, RefilledFrame

(* JMPIF and JMPIFNOT.                                                     *)
LEMMA JmpIfStepped ==
  ASSUME Inv, invocation # << >>, JmpIf
  PROVE  Stepped
<1> DEFINE at == Read(Cur, 2)
           offset == Int16(Cur) - 3
           popped == [at EXCEPT !.eval = Front(at.eval)]
<1>1. Cur \in Frame /\ consumedGas' \in Gas
  BY RunningFrame, ChargedType DEF JmpIf
<1>2. at \in Frame /\ at.eval = Cur.eval
  BY <1>1, ReadFrame
<1>3. CASE Cur.eval = << >>
  BY <1>1, <1>3, TopStepped DEF JmpIf
<1>4. CASE Cur.eval # << >> /\ (~CanRead(Cur, 2) \/ ~CouldSeekFromHere(at, offset))
  BY <1>1, <1>2, <1>4, TopStepped DEF JmpIf
<1>5. CASE Cur.eval # << >> /\ CanRead(Cur, 2) /\ CouldSeekFromHere(at, offset)
  <2>1. popped \in Frame
    BY <1>2, <1>5, PoppedFrame
  <2>2. offset \in Int
    BY <1>1, <1>5, OffsetIsInt
  <2>3. SeekFromHere(popped, offset) \in Frame
    BY <2>1, <2>2, SeekFrame
  <2>4. Continue(SeekFromHere(popped, offset)) \/ Continue(popped)
    BY <1>5 DEF JmpIf
  <2> HIDE DEF popped
  <2> QED
    BY <1>1, <2>1, <2>3, <2>4, TopStepped
<1> QED
  BY <1>3, <1>4, <1>5

(* CALL.                                                                   *)
LEMMA CallStepped ==
  ASSUME Inv, invocation # << >>, Call
  PROVE  Stepped
<1> DEFINE caller == SeekFromHere(Cloned(Cur, -1), 2)
           callee == Clone(Cur, -1, -1)
<1>1. Cur \in Frame /\ consumedGas \in Nat /\ Charged \in Gas /\ Charged \in Nat
  BY RunningFrame, ChargedType DEF Gas
<1>2. CASE Full
  BY <1>1, <1>2, TopStepped DEF Call
<1>3. CASE ~Full
  <2>0. -1 \in -1 .. 255
    OBVIOUS
  <2>1. callee \in Frame /\ Cloned(Cur, -1) \in Frame
    BY <1>1, <2>0, CloneFrame
  <2>2. caller \in Frame
    BY <2>1, SeekFrame
  <2>3. WithTop(caller) \in Seq(Frame)
    BY <2>2, WithTopFrames
  <2>4. JmpLabel(WithTop(caller), callee, Charged)
    BY <1>3 DEF Call
  <2> HIDE DEF caller, callee
  <2> QED
    BY <1>1, <2>1, <2>3, <2>4, JmpLabelStepped
<1> QED
  BY <1>2, <1>3

(* The two bytes that follow CALL_I and CALL_E.                            *)
LEMMA CountsAreBytes ==
  ASSUME NEW c \in Frame, CanRead(c, 2)
  PROVE  Data(c, 2)[1] \in 0 .. 255 /\ Data(c, 2)[2] \in 0 .. 255
<1>1. \A i \in 1 .. 2 : Data(c, 2)[i] \in Byte
  BY DataBytes
<1> QED
  BY <1>1 DEF Byte

(* CALL_I.                                                                 *)
LEMMA CallIStepped ==
  ASSUME Inv, invocation # << >>, CallI
  PROVE  Stepped
<1> DEFINE at == Read(Cur, 2)
           rvcount == Data(Cur, 2)[1]
           pcount == Data(Cur, 2)[2]
           caller == SeekFromHere(Cloned(at, pcount), 2)
           callee == Clone(at, rvcount, pcount)
<1>1. Cur \in Frame /\ consumedGas \in Nat /\ Charged \in Gas /\ Charged \in Nat
  BY RunningFrame, ChargedType DEF Gas
<1>2. at \in Frame
  BY <1>1, ReadFrame
<1>3. CASE Full
  BY <1>1, <1>3, TopStepped DEF CallI
<1>4. CASE ~Full /\ (~CanRead(Cur, 2) \/ Len(Cur.eval) < pcount)
  <2>1. SetFault(at) /\ consumedGas' = Charged
    BY <1>4 DEF CallI
  <2> QED
    BY <1>1, <1>2, <2>1, TopStepped
<1>5. CASE ~Full /\ CanRead(Cur, 2) /\ ~(Len(Cur.eval) < pcount)
  <2>1. rvcount \in -1 .. 255 /\ pcount \in -1 .. 255
    BY <1>1, <1>5, CountsAreBytes
  <2>2. callee \in Frame /\ Cloned(at, pcount) \in Frame
    BY <1>2, <2>1, CloneFrame
  <2>3. caller \in Frame
    BY <2>2, SeekFrame
  <2>4. WithTop(caller) \in Seq(Frame)
    BY <2>3, WithTopFrames
  <2>5. JmpLabel(WithTop(caller), callee, Charged)
    BY <1>5 DEF CallI
  <2> HIDE DEF caller, callee
  <2> QED
    BY <1>1, <2>2, <2>4, <2>5, JmpLabelStepped
<1> QED
  BY <1>3, <1>4, <1>5

(* Results go to a frame or to the ResultStack.                            *)
LEMMA DeliverStepped ==
  ASSUME Inv, consumedGas' \in Gas, NEW below \in Seq(Frame),
         NEW items \in Seq(Item), Deliver(below, items), UNCHANGED scripts
  PROVE  Stepped
<1>1. /\ resultStack \in Seq(Item) /\ scripts \in Seq(Seq(Byte))
      /\ state \in EVMState /\ "HALT" \in EVMState
  BY DEF Inv, TypeOK, EVMState
<1>2. CASE below = << >>
  <2>1. resultStack' \in Seq(Item)
    BY <1>1, <1>2, ConcatProperties DEF Deliver
  <2> QED
    BY <1>1, <1>2, <2>1, EmptySeq DEF Deliver, Stepped
<1>3. CASE below # << >>
  <2>1. Len(below) \in Nat \ {0}
    BY <1>3, EmptySeq
  <2>2. \A i \in 1 .. Len(below) : below[i] \in Frame
    BY ElementOfSeq
  <2>3. Last(below) \in Frame /\ Front(below) \in Seq(Frame)
    BY <2>1, <2>2, SubSeqProperties DEF Last, Front
  <2>4. Last(below).eval \o items \in Seq(Item)
    BY <2>3, FrameFields, ConcatProperties
  <2>5. [Last(below) EXCEPT !.eval = Last(below).eval \o items] \in Frame
    BY <2>3, <2>4, RefilledFrame
  <2>6. invocation' \in Seq(Frame)
    BY <1>3, <2>3, <2>5, AppendProperties DEF Deliver
  <2> QED
    BY <1>1, <1>3, <2>6 DEF Deliver, Stepped
<1> QED
  BY <1>2, <1>3

(* RET.                                                                    *)
LEMMA RetStepped ==
  ASSUME Inv, invocation # << >>, Ret
  PROVE  Stepped
<1>1. Cur \in Frame /\ consumedGas' \in Gas /\ Front(invocation) \in Seq(Frame)
  BY RunningFrame, ChargedType DEF Ret
<1>2. CASE Cur.rv > Len(Cur.eval)
  <2>1. Leave("FAULT", Front(invocation))
    BY <1>2 DEF Ret
  <2> QED
    BY <1>1, <2>1, LeaveStepped DEF EVMState
<1>3. CASE ~(Cur.rv > Len(Cur.eval))
  <2>1. Cur.eval \in Seq(Item) /\ Cur.rv \in -1 .. 255
    BY <1>1, FrameFields
  <2>2. Cur.rv \in Int /\ Cur.rv >= -1
    BY <1>1, FrameFields
  <2>3. Sent(Cur.eval, Cur.rv) \in Seq(Item)
    BY <2>1, <2>2, SendToSplits
  <2>4. Deliver(Front(invocation), Sent(Cur.eval, Cur.rv)) /\ UNCHANGED scripts
    BY <1>3 DEF Ret
  <2> QED
    BY <1>1, <2>3, <2>4, DeliverStepped
<1> QED
  BY <1>2, <1>3

(* A script found in the cache or delivered by the host.                   *)
LEMMA FoundScript ==
  ASSUME Inv, NEW hash, NEW dynamic, NEW found \in Found(hash, dynamic)
  PROVE  found.script \in Seq(Byte) /\ found.scripts \in Seq(Seq(Byte))
<1>1. scripts \in Seq(Seq(Byte)) /\ Table \subseteq Seq(Byte)
  BY EngineAssumption DEF Inv, TypeOK
<1>2. ASSUME NEW s \in Cached(hash), found = [script |-> s, scripts |-> scripts]
      PROVE  found.script \in Seq(Byte) /\ found.scripts \in Seq(Seq(Byte))
  <2>1. \A i \in DOMAIN scripts : scripts[i] \in Seq(Byte)
    BY <1>1, LenProperties, ElementOfSeq
  <2> QED
    BY <1>1, <1>2, <2>1 DEF Cached, Range
<1>3. ASSUME NEW s \in Table, found = [script |-> s, scripts |-> Append(scripts, s)]
      PROVE  found.script \in Seq(Byte) /\ found.scripts \in Seq(Seq(Byte))
  BY <1>1, <1>3, AppendProperties
<1> QED
  BY <1>2, <1>3 DEF Found

(* A call into a script that the host loads: the frame it makes is well    *)
(* formed, and the caller's pointer stays in its script.                   *)
LEMMA EnterStepped ==
  ASSUME Inv, invocation # << >>, consumedGas' \in Gas, NEW c \in Frame,
         NEW hash, NEW dynamic \in BOOLEAN, NEW rvcount \in -1 .. 255,
         NEW pcount \in -1 .. 255, NEW tail \in BOOLEAN,
         NEW limited \in BOOLEAN,
         Enter(c, hash, dynamic, rvcount, pcount, tail, limited)
  PROVE  Stepped
<1>1. CASE (dynamic \/ Cached(hash) = {}) /\ SetFault(c)
  BY <1>1, TopStepped
<1>2. CASE ~((dynamic \/ Cached(hash) = {}) /\ SetFault(c))
  <2> DEFINE New(found) == NewContext(found.script, 0, rvcount)
             Loaded(found) ==
               [New(found) EXCEPT !.eval = Sent(c.eval, pcount),
                                  !.due = IF tail /\ rvcount # -1 THEN c.due
                                                                 ELSE @]
  <2>1. PICK found \in Found(hash, dynamic) :
          /\ scripts' = found.scripts /\ UNCHANGED resultStack
          /\ IF limited /\ FullOnceLoaded
             THEN state' = "FAULT" /\ invocation' = Append(WithTop(c), New(found))
             ELSE /\ UNCHANGED state
                  /\ invocation' =
                       IF tail THEN WithTop(Loaded(found))
                       ELSE Append(WithTop(Cloned(c, pcount)), Loaded(found))
    BY <1>2 DEF Enter
  <2>2. found.script \in Seq(Byte) /\ found.scripts \in Seq(Seq(Byte))
    BY FoundScript
  <2>3. 0 \in Nat /\ 0 <= Len(found.script)
    BY <2>2
  <2>4. New(found) \in Frame
    BY <2>2, <2>3, NewContextIsFrame
  <2>5. Sent(c.eval, pcount) \in Seq(Item) /\ c.due \in -1 .. 255
    BY FrameFields, SendToSplits
  <2>6. Loaded(found) \in Frame
    BY <2>4, <2>5 DEF Frame, Context
  <2>7. Cloned(c, pcount) \in Frame
    BY CloneFrame
  <2>8. /\ WithTop(c) \in Seq(Frame) /\ WithTop(Loaded(found)) \in Seq(Frame)
        /\ WithTop(Cloned(c, pcount)) \in Seq(Frame)
    BY <2>6, <2>7, WithTopFrames
  <2>9. invocation' \in Seq(Frame)
    <3>1. CASE limited /\ FullOnceLoaded
      <4>1. invocation' = Append(WithTop(c), New(found))
        BY <2>1, <3>1
      <4> HIDE DEF New
      <4> QED
        BY <2>4, <2>8, <4>1, AppendProperties
    <3>2. CASE ~(limited /\ FullOnceLoaded)
      <4>1. invocation' = IF tail THEN WithTop(Loaded(found))
                          ELSE Append(WithTop(Cloned(c, pcount)), Loaded(found))
        BY <2>1, <3>2
      <4> HIDE DEF Loaded
      <4> QED
        BY <2>6, <2>8, <4>1, AppendProperties
    <3> QED
      BY <3>1, <3>2
  <2>10. state' \in EVMState /\ resultStack' \in Seq(Item)
    BY <2>1 DEF EVMState, Inv, TypeOK
  <2> QED
    BY <2>1, <2>2, <2>9, <2>10 DEF Stepped
<1> QED
  BY <1>1, <1>2

(* CALL_E, CALL_ED, CALL_ET and CALL_EDT.                                  *)
LEMMA CallEStepped ==
  ASSUME Inv, invocation # << >>, CallE
  PROVE  Stepped
<1> DEFINE dynamic == Opcode \in {CALL_ED, CALL_EDT}
           tail == Opcode \in {CALL_ET, CALL_EDT}
           at == Read(Cur, 2)
           rvcount == Data(Cur, 2)[1]
           pcount == Data(Cur, 2)[2]
           popped == [at EXCEPT !.eval = Front(at.eval)]
           hash == IF dynamic THEN Last(Cur.eval) ELSE Data(at, HashLength)
           refused == ~CanRead(Cur, 2)
                        \/ CannotCall(Cur, rvcount, pcount, dynamic, tail)
<1>1. Cur \in Frame /\ consumedGas' \in Gas /\ HashLength \in Nat
  BY RunningFrame, ChargedType, EngineAssumption DEF CallE
<1>2. at \in Frame /\ at.eval = Cur.eval
  BY <1>1, ReadFrame
<1> DEFINE gives == "LoadScript" \in Callbacks
<1>0. CASE ~gives
  <2>1. SetFault(Cur)
    BY <1>0 DEF CallE
  <2> QED
    BY <1>1, <2>1, TopStepped
<1>3. CASE gives /\ refused
  <2>1. SetFault(at)
    BY <1>3 DEF CallE
  <2> QED
    BY <1>1, <1>2, <2>1, TopStepped
<1>4. CASE gives /\ ~refused
  <2>0. rvcount \in 0 .. 255 /\ pcount \in 0 .. 255
    BY <1>1, <1>4, CountsAreBytes
  <2>1. rvcount \in -1 .. 255 /\ pcount \in -1 .. 255 /\ pcount >= 0
    <3> HIDE DEF rvcount, pcount
    <3> QED BY <2>0
  <2>2. CASE dynamic
    <3>1. ~(Len(Cur.eval) < pcount + 1) /\ Len(Cur.eval) \in Nat
      BY <1>1, <1>4, <2>2, FrameFields DEF CannotCall
    <3>2. Cur.eval # << >>
      <4> HIDE DEF pcount
      <4>1. Len(Cur.eval) # 0
        BY <2>1, <3>1
      <4> QED
        BY <4>1
    <3>3. popped \in Frame
      BY <1>2, <3>2, PoppedFrame
    <3>4. \/ SetFault(popped)
          \/ Enter(popped, hash, TRUE, rvcount, pcount, tail, FALSE)
      BY <1>4, <2>2 DEF CallE
    <3>5. tail \in BOOLEAN
      OBVIOUS
    <3> HIDE DEF popped, hash, rvcount, pcount, tail
    <3> QED
      BY <1>1, <2>1, <3>3, <3>4, <3>5, TopStepped, EnterStepped
  <2>3. CASE ~dynamic
    <3>1. Read(at, HashLength) \in Frame
      BY <1>1, <1>2, ReadFrame
    <3>2. \/ SetFault(Read(at, HashLength))
          \/ Enter(Read(at, HashLength), hash, FALSE, rvcount, pcount, tail, FALSE)
      BY <1>4, <2>3 DEF CallE
    <3>3. tail \in BOOLEAN
      OBVIOUS
    <3> HIDE DEF at, hash, rvcount, pcount, tail
    <3> QED
      BY <1>1, <2>1, <3>1, <3>2, <3>3, TopStepped, EnterStepped
  <2> QED
    BY <2>2, <2>3
<1> QED
  BY <1>0, <1>3, <1>4

(* APPCALL and TAILCALL.                                                   *)
LEMMA AppCallStepped ==
  ASSUME Inv, invocation # << >>, AppCall
  PROVE  Stepped
<1> DEFINE tail == Opcode = TAILCALL
           at == Read(Cur, HashLength)
           dynamic == \A i \in 1 .. HashLength : Data(Cur, HashLength)[i] = 0
           popped == [at EXCEPT !.eval = Front(at.eval)]
           item == Last(Cur.eval)
           refused == ~CanRead(Cur, HashLength) \/ (dynamic /\ Cur.eval = << >>)
<1>1. /\ Cur \in Frame /\ consumedGas' \in Gas /\ HashLength \in Nat
      /\ -1 \in -1 .. 255 /\ tail \in BOOLEAN
  BY RunningFrame, ChargedType, EngineAssumption DEF AppCall
<1>2. at \in Frame /\ at.eval = Cur.eval
  BY <1>1, ReadFrame
<1> DEFINE gives == "LoadScript" \in Callbacks
<1>0. CASE ~gives
  <2>1. SetFault(Cur)
    BY <1>0 DEF AppCall
  <2> QED
    BY <1>1, <2>1, TopStepped
<1>3. CASE gives /\ refused
  <2>1. SetFault(at)
    BY <1>3 DEF AppCall
  <2> QED
    BY <1>1, <1>2, <2>1, TopStepped
<1>4. CASE gives /\ ~refused /\ ~dynamic
  <2>1. Enter(at, Data(Cur, HashLength), FALSE, -1, -1, tail, TRUE)
    BY <1>4 DEF AppCall
  <2> HIDE DEF at, tail
  <2> QED
    BY <1>1, <1>2, <2>1, EnterStepped
<1>5. CASE gives /\ ~refused /\ dynamic
  <2>1. popped \in Frame
    BY <1>2, <1>5, PoppedFrame
  <2>2. \/ SetFault(popped)
        \/ Enter(popped, SubSeq(item, 1, HashLength), TRUE, -1, -1, tail, TRUE)
    BY <1>5 DEF AppCall
  <2> HIDE DEF popped, tail, item
  <2> QED
    BY <1>1, <2>1, <2>2, TopStepped, EnterStepped
<1> QED
  BY <1>0, <1>3, <1>4, <1>5

(* The length of the name of a system call is a number.                    *)
LEMMA LengthOfMethod ==
  ASSUME NEW c \in Frame, NEW max, CanReadVarBytes(c, max)
  PROVE  VarLength(c) \in Nat
<1>1. CanRead(c, 1) /\ CanRead(c, 1 + VarWidth(c))
  BY DEF CanReadVarBytes
<1>2. CASE VarWidth(c) = 0
  BY <1>1, <1>2, LengthsAreNat DEF VarLength
<1>3. CASE VarWidth(c) # 0
  <2>1. 1 + VarWidth(c) \in Nat /\ 2 \in 1 .. (1 + VarWidth(c))
    BY <1>3 DEF VarWidth
  <2>2. c.script[c.ip + 2] \in Nat
    BY <1>1, <2>1, ScriptByte
  <2>3. VarLength(c) = c.script[c.ip + 2]
    BY <1>3 DEF VarLength
  <2> QED
    BY <2>2, <2>3
<1> QED
  BY <1>2, <1>3

(* SYSCALL.                                                                *)
LEMMA SysCallStepped ==
  ASSUME Inv, invocation # << >>, SysCall
  PROVE  Stepped
<1> DEFINE at == ReadVarBytes(Cur)
           length == VarLength(Cur)
           readable == CanReadVarBytes(Cur, 252)
           gives == "InvokeInterop" \in Callbacks
           left(pops, result) ==
             [Read(at, length) EXCEPT
                !.eval = Kept(Read(at, length).eval, pops) \o result]
<1>1. Cur \in Frame /\ consumedGas \in Nat /\ Charged \in Gas
  BY RunningFrame, ChargedType
<1>2. at \in Frame
  <2>1. 1 + VarWidth(Cur) \in Nat
    BY DEF VarWidth
  <2> QED
    BY <1>1, <2>1, ReadFrame DEF ReadVarBytes
<1>3. readable => length \in Nat
  BY <1>1, LengthOfMethod
<1>0. CASE ~gives
  <2>1. consumedGas' \in Gas /\ SetFault(Cur)
    BY <1>0, <1>1 DEF SysCall
  <2> QED
    BY <1>1, <2>1, TopStepped
<1>4. CASE gives /\ (~readable \/ length = 0 \/ ~CanRead(at, length))
  <2>1. consumedGas' \in Gas
    BY <1>1, <1>4 DEF SysCall
  <2>2. SetFault(IF readable THEN Read(at, length) ELSE at)
    BY <1>4 DEF SysCall
  <2>3. (IF readable THEN Read(at, length) ELSE at) \in Frame
    BY <1>2, <1>3, ReadFrame
  <2> HIDE DEF readable, at, length
  <2> QED
    BY <2>1, <2>2, <2>3, TopStepped
<1>5. CASE gives /\ readable /\ length # 0 /\ CanRead(at, length)
  <2>1. PICK cost \in HostCosts \cup {0}, ok \in BOOLEAN,
               pops \in 0 .. Len(Cur.eval), result \in DataResults \cup {<< >>} :
          /\ consumedGas' = AddGas(consumedGas, cost)
          /\ Leave(IF cost > 0 /\ ~Affordable(AddGas(consumedGas, cost))
                     THEN "FAULT_BY_GAS"
                   ELSE IF ok \/ state = "FAULT_BY_GAS" THEN state
                   ELSE "FAULT",
                   WithTop(left(pops, result)))
    BY <1>5 DEF SysCall
  <2>2. cost \in Nat
    BY EngineAssumption
  <2>3. consumedGas' \in Gas
    BY <1>1, <2>1, <2>2, GasTypes
  <2>4. Read(at, length) \in Frame
    BY <1>2, <1>3, <1>5, ReadFrame
  <2>5. WithTop(left(pops, result)) \in Seq(Frame)
    <3> DEFINE read == Read(at, length)
    <3>0. result \in Seq(Item)
      <4>1. DataResults \subseteq Seq(Item) /\ << >> \in Seq(Item)
        BY EngineAssumption, EmptySeq
      <4> QED
        BY <4>1
    <3>1. pops \in Int /\ pops >= -1
      <4>1. Len(Cur.eval) \in Nat
        BY <1>1, FrameFields
      <4> QED
        BY <4>1
    <3>2. read.eval \in Seq(Item)
      BY <2>4, FrameFields
    <3>3. Kept(read.eval, pops) \o result \in Seq(Item)
      <4> HIDE DEF read
      <4> QED
        BY <3>0, <3>1, <3>2, SendToSplits, ConcatProperties
    <3>4. left(pops, result) \in Frame
      <4> HIDE DEF at, length
      <4> QED
        BY <2>4, <3>3, RefilledFrame
    <3> HIDE DEF left
    <3> QED
      BY <3>4, WithTopFrames
  <2> DEFINE s == IF cost > 0 /\ ~Affordable(AddGas(consumedGas, cost))
                    THEN "FAULT_BY_GAS"
                  ELSE IF ok \/ state = "FAULT_BY_GAS" THEN state
                  ELSE "FAULT"
  <2>6. s \in EVMState
    BY DEF EVMState, Inv, TypeOK
  <2>7. Leave(s, WithTop(left(pops, result)))
    BY <2>1
  <2> HIDE DEF s, left
  <2> QED
    BY <2>3, <2>5, <2>6, <2>7, LeaveStepped
<1> QED
  BY <1>0, <1>4, <1>5

(* The moves between the stacks of a frame leave the rest of it alone.     *)
LEMMA StackOpFrame ==
  ASSUME Inv, invocation # << >>, StackOp
  PROVE  \E c \in Frame : /\ SetFault(c) \/ Continue(c)
                         /\ c.rv = Cur.rv /\ c.due = Cur.due
<1> DEFINE from == IF Opcode = FROMALTSTACK THEN Cur.alt ELSE Cur.eval
           dropped == [Cur EXCEPT !.eval = Front(Cur.eval)]
           doubled == [Cur EXCEPT !.eval = Append(Cur.eval, Last(Cur.eval))]
           toAlt == [Cur EXCEPT !.eval = Front(Cur.eval),
                                !.alt = Append(Cur.alt, Last(Cur.eval))]
           fromAlt == [Cur EXCEPT !.alt = Front(Cur.alt),
                                  !.eval = Append(Cur.eval, Last(Cur.alt))]
<1>1. Cur \in Frame
  BY RunningFrame
<1>2. Cur.eval \in Seq(Item) /\ Cur.alt \in Seq(Item)
  BY <1>1, FrameFields
<1>3. CASE from = << >>
  <2>1. SetFault(Cur)
    BY <1>3 DEF StackOp
  <2> QED
    BY <1>1, <2>1
<1>4. CASE Opcode # FROMALTSTACK /\ Cur.eval # << >>
  <2>1. /\ Front(Cur.eval) \in Seq(Item) /\ Last(Cur.eval) \in Item
        /\ dropped \in Frame
    BY <1>1, <1>4, PoppedFrame
  <2>2. /\ Append(Cur.eval, Last(Cur.eval)) \in Seq(Item)
        /\ Append(Cur.alt, Last(Cur.eval)) \in Seq(Item)
    BY <1>2, <2>1, AppendProperties
  <2>3. doubled \in Frame /\ toAlt \in Frame
    BY <1>1, <2>1, <2>2, RefilledFrame, RefilledFrameAlt
  <2>4. Continue(dropped) \/ Continue(doubled) \/ Continue(toAlt)
    BY <1>4 DEF StackOp, Case
  <2>5. /\ dropped.rv = Cur.rv /\ dropped.due = Cur.due
        /\ doubled.rv = Cur.rv /\ doubled.due = Cur.due
        /\ toAlt.rv = Cur.rv /\ toAlt.due = Cur.due
    BY <1>1 DEF Frame, Context
  <2> HIDE DEF dropped, doubled, toAlt
  <2> QED
    BY <2>1, <2>3, <2>4, <2>5
<1>5. CASE Opcode = FROMALTSTACK /\ Cur.alt # << >>
  <2>1. Len(Cur.alt) \in Nat \ {0}
    BY <1>2, <1>5, EmptySeq
  <2>2. \A i \in 1 .. Len(Cur.alt) : Cur.alt[i] \in Item
    BY <1>2, ElementOfSeq
  <2>3. Front(Cur.alt) \in Seq(Item) /\ Last(Cur.alt) \in Item
    BY <2>1, <2>2, SubSeqProperties DEF Front, Last
  <2>4. Append(Cur.eval, Last(Cur.alt)) \in Seq(Item)
    BY <1>2, <2>3, AppendProperties
  <2>5. fromAlt \in Frame
    BY <1>1, <2>3, <2>4, RefilledFrameAlt
  <2>6. Continue(fromAlt)
    BY <1>5 DEF StackOp, DROP, DUP, TOALTSTACK, FROMALTSTACK
  <2>7. fromAlt.rv = Cur.rv /\ fromAlt.due = Cur.due
    BY <1>1 DEF Frame, Context
  <2> HIDE DEF fromAlt
  <2> QED
    BY <2>5, <2>6, <2>7
<1> QED
  BY <1>3, <1>4, <1>5

(* The moves between the stacks of a frame.                                *)
LEMMA StackOpStepped ==
  ASSUME Inv, invocation # << >>, StackOp
  PROVE  Stepped
<1>1. consumedGas' \in Gas
  BY ChargedType DEF StackOp
<1> QED
  BY <1>1, StackOpFrame, TopStepped

(* THROW.                                                                  *)
LEMMA ThrowStepped ==
  ASSUME Inv, invocation # << >>, Throw
  PROVE  Stepped
BY RunningFrame, ChargedType, TopStepped DEF Throw

(* THROWIFNOT.                                                             *)
LEMMA ThrowIfNotStepped ==
  ASSUME Inv, invocation # << >>, ThrowIfNot
  PROVE  Stepped
<1> DEFINE popped == [Cur EXCEPT !.eval = Front(Cur.eval)]
<1>1. Cur \in Frame /\ consumedGas' \in Gas
  BY RunningFrame, ChargedType DEF ThrowIfNot
<1>2. CASE Cur.eval = << >>
  BY <1>1, <1>2, TopStepped DEF ThrowIfNot
<1>3. CASE Cur.eval # << >>
  <2>1. popped \in Frame
    BY <1>1, <1>3, PoppedFrame
  <2>2. Continue(popped) \/ SetFault(popped)
    BY <1>3 DEF ThrowIfNot
  <2> HIDE DEF popped
  <2> QED
    BY <1>1, <2>1, <2>2, TopStepped
<1> QED
  BY <1>2, <1>3

(* The opcodes that replace items.                                         *)
LEMMA DataOpStepped ==
  ASSUME Inv, invocation # << >>, DataOp
  PROVE  Stepped
<1>1. Cur \in Frame /\ consumedGas \in Nat
  BY RunningFrame, ChargedType
<1>2. Cur.eval \in Seq(Item) /\ Len(Cur.eval) \in Nat
  BY <1>1, FrameFields
<1>3. PICK cost \in DataCosts, pops \in 0 .. Len(Cur.eval),
           result \in DataResults, next \in {state, "FAULT"} :
        /\ consumedGas' = AddGas(consumedGas, cost)
        /\ Leave(IF Affordable(AddGas(consumedGas, cost)) THEN next
                                                          ELSE "FAULT_BY_GAS",
                 WithTop([Cur EXCEPT !.eval = Kept(Cur.eval, pops) \o result]))
  BY DEF DataOp
<1>4. cost \in Nat /\ result \in Seq(Item) /\ pops \in Int /\ pops >= -1
  BY <1>2, EngineAssumption
<1>5. consumedGas' \in Gas
  BY <1>1, <1>3, <1>4, GasTypes
<1>6. Kept(Cur.eval, pops) \o result \in Seq(Item)
  BY <1>2, <1>4, SendToSplits, ConcatProperties
<1> DEFINE left == [Cur EXCEPT !.eval = Kept(Cur.eval, pops) \o result]
           s == IF Affordable(AddGas(consumedGas, cost)) THEN next
                                                         ELSE "FAULT_BY_GAS"
<1>7. left \in Frame
  BY <1>1, <1>6, RefilledFrame
<1>8. WithTop(left) \in Seq(Frame)
  BY <1>7, WithTopFrames
<1>9. s \in EVMState /\ Leave(s, WithTop(left))
  BY <1>3 DEF EVMState, Inv, TypeOK
<1> HIDE DEF s, left
<1> QED
  BY <1>5, <1>8, <1>9, LeaveStepped

(* An instruction without a frame.                                         *)
LEMMA NoContextStepped ==
  ASSUME Inv, invocation = << >>, NoContext
  PROVE  Stepped
BY EmptySeq DEF NoContext, Stepped, Inv, TypeOK, EVMState, Gas
----------------------------------------------------------------------------
(* The theorem.                                                            *)

LEMMA InstructionStepped ==
  ASSUME Inv, InternalStepInto
  PROVE  Inv'
<1>1. Stepped
  <2>1. CASE invocation = << >>
    BY <2>1, NoContextStepped DEF InternalStepInto
  <2>2. CASE invocation # << >>
    <3>1. \/ OutOfGas \/ Push \/ PushBytes \/ PushData124
          \/ Nop \/ Jmp \/ JmpIf \/ Call \/ CallI \/ Ret
          \/ CallE \/ AppCall \/ SysCall
          \/ StackOp \/ Throw \/ ThrowIfNot \/ DataOp
      BY <2>2 DEF InternalStepInto
    <3> QED
      BY <2>2, <3>1, OutOfGasStepped, PushStepped, PushBytesStepped,
         PushData124Stepped, NopStepped, JmpStepped, JmpIfStepped, CallStepped,
         CallIStepped, RetStepped, CallEStepped, AppCallStepped,
         SysCallStepped, StackOpStepped, ThrowStepped, ThrowIfNotStepped,
         DataOpStepped
  <2> QED
    BY <2>1, <2>2
<1>2. /\ maxGas' \in Nat /\ hostCalls' \in 0 .. MaxHostCalls
      /\ running' \in [api : {"none", "Execute", "StepInto", "StepOver", "StepOut"},
                        count : Nat]
  BY DEF InternalStepInto, Inv, TypeOK, Idle
<1>3. invocation' \in Seq(Context) /\ InstructionPointerInScript'
  BY <1>1, InvOfFrames DEF Stepped
<1> QED
  BY <1>1, <1>2, <1>3 DEF Inv, TypeOK, Stepped, Gas

(* What the host calls preserves the invariant.                            *)
LEMMA HostStepped ==
  ASSUME Inv, Host
  PROVE  Inv'
<1> DEFINE Api == {"none", "Execute", "StepInto", "StepOver", "StepOut"}
<1>1. /\ invocation \in Seq(Frame) /\ Len(invocation) \in Nat
      /\ scripts \in Seq(Seq(Byte)) /\ consumedGas \in Nat
      /\ EntryScripts \subseteq Seq(Byte)
      /\ -1 \in -1 .. 255 /\ 0 \in Nat
  BY FramesOfInv, EngineAssumption DEF Inv, TypeOK
<1>2. \A s \in Seq(Byte), rvcount \in RvCounts :
        Append(invocation, NewContext(s, 0, rvcount)) \in Seq(Frame)
  <2> SUFFICES ASSUME NEW s \in Seq(Byte), NEW rvcount \in RvCounts
               PROVE  Append(invocation, NewContext(s, 0, rvcount)) \in Seq(Frame)
    OBVIOUS
  <2>1. 0 <= Len(s) /\ rvcount \in -1 .. 255
    BY EngineAssumption
  <2>2. NewContext(s, 0, rvcount) \in Frame
    BY <1>1, <2>1, NewContextIsFrame
  <2> QED
    BY <1>1, <2>2, AppendProperties
<1>3. HostCall => hostCalls' \in 0 .. MaxHostCalls
  BY EngineAssumption DEF HostCall, Inv, TypeOK
<1>4. ASSUME NEW s \in EntryScripts, NEW rvcount \in RvCounts,
             LoadScript(s, rvcount)
      PROVE  Inv'
  <2>1. s \in Seq(Byte)
    BY <1>1
  <2>2. invocation' \in Seq(Frame) /\ scripts' \in Seq(Seq(Byte))
    BY <1>1, <1>2, <1>4, <2>1, AppendProperties DEF LoadScript
  <2> QED
    BY <1>3, <1>4, <2>2, InvOfFrames DEF LoadScript, Inv, TypeOK
<1>5. ASSUME NEW index \in 0 .. (2 * IndexModulus - 1), NEW rvcount \in RvCounts,
             LoadCachedScript(index, rvcount)
      PROVE  Inv'
  <2> DEFINE at == index % IndexModulus
  <2>1. at \in Nat
    BY EngineAssumption
  <2>2. ASSUME at < Len(scripts) PROVE scripts[at + 1] \in Seq(Byte)
    <3> HIDE DEF at
    <3>1. at + 1 \in 1 .. Len(scripts)
      BY <1>1, <2>1, <2>2
    <3> QED
      BY <1>1, <3>1, ElementOfSeq
  <2>3. invocation' \in Seq(Frame)
    BY <1>1, <1>2, <1>5, <2>2 DEF LoadCachedScript
  <2> QED
    BY <1>3, <1>5, <2>3, InvOfFrames DEF LoadCachedScript, Inv, TypeOK
<1>6. ASSUME NEW cost \in HostCosts, IncreaseGas(cost) PROVE Inv'
  <2>1. AddGas(consumedGas, cost) \in Gas
    BY <1>1, EngineAssumption, GasTypes
  <2> QED
    BY <1>1, <1>3, <1>6, <2>1, InvOfFrames
       DEF IncreaseGas, Inv, TypeOK, EVMState, Gas
<1>7. CASE Clean
  <2>1. 0 \in Gas /\ DefaultGas \in Nat
    BY EngineAssumption DEF Gas
  <2>2. invocation' \in Seq(Frame) /\ resultStack' \in Seq(Item)
    BY <1>7, EmptySeq DEF Clean
  <2> QED
    BY <1>3, <1>7, <2>1, <2>2, InvOfFrames DEF Clean, Inv, TypeOK, EVMState, Gas
<1>8. ASSUME NEW gas \in GasLimits, Execute(gas) PROVE Inv'
  <2>1. gas % LimitModulus \in Nat
    BY EngineAssumption
  <2> QED
    BY <1>1, <1>3, <1>8, <2>1, InvOfFrames DEF Execute, Inv, TypeOK
<1>9. ASSUME NEW api \in {"StepInto", "StepOver", "StepOut"}, Step(api) PROVE Inv'
  BY <1>1, <1>3, <1>9, InvOfFrames DEF Step, Idle, Inv, TypeOK
<1> QED
  BY <1>4, <1>5, <1>6, <1>7, <1>8, <1>9 DEF Host

(* Typing and InstructionPointerInScript hold of every behaviour.          *)
THEOREM InvInvariant == Spec => []Inv
<1>1. Init => Inv
  BY EmptySeq, EngineAssumption
     DEF Init, Inv, TypeOK, InstructionPointerInScript, EVMState, Idle
<1>2. Inv /\ [Next]_vars => Inv'
  <2> SUFFICES ASSUME Inv, [Next]_vars PROVE Inv'
    OBVIOUS
  <2>1. CASE InternalStepInto
    BY <2>1, InstructionStepped
  <2>2. CASE Host
    BY <2>2, HostStepped
  <2>3. CASE UNCHANGED vars
    BY <2>3 DEF vars, Inv, TypeOK, InstructionPointerInScript
  <2> QED
    BY <2>1, <2>2, <2>3 DEF Next
<1> QED
  BY <1>1, <1>2, PTL DEF Spec

(* Every variable of the engine keeps its type.                            *)
THEOREM TypeCorrect == Spec => []TypeOK
<1>1. Inv => TypeOK
  BY DEF Inv
<1> QED
  BY <1>1, InvInvariant, PTL

(* The pointer of every frame stays in its script: jumps, calls and reads  *)
(* of any operand included.                                                *)
THEOREM PointersStayInScript == Spec => []InstructionPointerInScript
<1>1. Inv => InstructionPointerInScript
  BY DEF Inv
<1> QED
  BY <1>1, InvInvariant, PTL
=============================================================================
