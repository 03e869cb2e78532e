----------------------- MODULE ExecutionEngineSafety -----------------------
(***************************************************************************)
(* The safety properties of the interpreter, and its refinement of the     *)
(* machine of CallReturn, for all scripts and limits.                      *)
(*                                                                         *)
(* An instruction has one of three outcomes: the running frame is replaced *)
(* by another that owes what it should, or one more frame is pushed above  *)
(* it and receives some of its items, or it is gone, and what it owed is   *)
(* delivered if it had that much.  There is a lemma for each action, and   *)
(* the properties follow from the outcomes.                                *)
(***************************************************************************)
EXTENDS ExecutionEngineProofs, EngineRefinement

Contract == Inv /\ ResultContract

(* The gas is unchanged, or within the limit, or the engine has faulted.   *)
Within ==
  \/ consumedGas' = consumedGas \/ consumedGas' <= maxGas
  \/ state' \in {"FAULT", "FAULT_BY_GAS"}

Owes(c) == c.rv = c.due

(* It owes what the running frame does.                                    *)
Keeps(c) == Owes(c) /\ c.due = Top.due

GoesOn == state' \in {state, "FAULT", "FAULT_BY_GAS"}

(* Items are kept and given in order; a call may spend one, the hash.      *)
HandsOver(items, kept, given) ==
  /\ IsPrefix(kept \o given, items)
  /\ Len(items) <= Len(kept) + Len(given) + 1

Hands(c, new) ==
  Keeps(c) /\ GoesOn /\ HandsOver(Top.eval, c.eval, new.eval)

(* The frame of a tail call, which takes the place of the running one.     *)
Substitutes(new) ==
  /\ new.due \in {Top.due, -1} /\ UNCHANGED state
  /\ \E n \in 0 .. Len(Top.eval) :
       HandsOver(Top.eval, SubSeq(Top.eval, 1, n), new.eval)

Replaced(c) == Owes(c) /\ invocation' = WithTop(c)

Pushed(c, new) ==
  /\ Owes(c) /\ Owes(new) /\ invocation' = Append(WithTop(c), new)
  /\ \/ Opcode \in CALL_E .. CALL_EDT \/ Len(invocation) < MaxInvocation
     \/ state' # "NONE"

Dropped == invocation' = Front(invocation) /\ state' = "FAULT"

Returned == Deliver(Front(invocation), Sent(Top.eval, Top.due))

Outcome ==
  /\ Within
  /\ \/ \E c \in Frame :
          /\ Replaced(c) /\ UNCHANGED resultStack
          /\ (Keeps(c) /\ GoesOn) \/ Substitutes(c)
     \/ \E c, new \in Frame :
          Pushed(c, new) /\ Hands(c, new) /\ UNCHANGED resultStack
     \/ Dropped /\ Top.due > Len(Top.eval) /\ UNCHANGED resultStack
     \/ Returned /\ ~(Top.due > Len(Top.eval))

(* The frame that runs keeps its items and its obligation when its opcode  *)
(* is fetched.                                                             *)
LEMMA RunningOwes ==
  ASSUME Contract, invocation # << >>
  PROVE  /\ Top \in Frame /\ Owes(Top) /\ Cur \in Frame /\ Owes(Cur)
         /\ Cur.eval = Top.eval /\ Cur.rv = Top.due /\ Keeps(Cur)
<1>1. Inv /\ ResultContract
  BY DEF Contract
<1>2. Top \in Frame /\ Cur \in Frame /\ Len(invocation) \in Nat \ {0}
  BY <1>1, RunningFrame
<1>3. Owes(Top)
  BY <1>1, <1>2 DEF ResultContract, Owes, Top, Last
<1>4. Cur.eval = Top.eval /\ Cur.rv = Top.rv /\ Cur.due = Top.due
  BY <1>2 DEF Cur, Fetched, Frame, Context
<1> QED
  BY <1>2, <1>3, <1>4 DEF Owes, Keeps

(* Replacing items, reading and seeking leave the obligation alone.        *)
LEMMA SameDebt ==
  ASSUME NEW c \in Frame, Owes(c)
  PROVE  /\ \A e : Owes([c EXCEPT !.eval = e])
         /\ \A e, a : Owes([c EXCEPT !.eval = e, !.alt = a])
         /\ \A n \in Nat : Owes(Read(c, n))
         /\ \A offset : Owes(SeekFromHere(c, offset))
BY DEF Owes, Frame, Context, Read, SeekFromHere

(* Reading, seeking and other items leave a frame its debt.                *)
LEMMA KeptDebt ==
  ASSUME NEW c \in Frame, Keeps(c)
  PROVE  /\ \A e : Keeps([c EXCEPT !.eval = e])
         /\ \A e, a : Keeps([c EXCEPT !.eval = e, !.alt = a])
         /\ \A n \in Nat : Keeps(Read(c, n))
         /\ \A offset : Keeps(SeekFromHere(c, offset))
BY DEF Owes, Keeps, Frame, Context, Read, SeekFromHere

(* What a case has charged at its head is within the limit.                *)
LEMMA ChargedWithin ==
  ASSUME Inv, NEW ops, Case(ops), consumedGas' = Charged
  PROVE  Within
<1>1. consumedGas \in 0 .. (GasModulus - 1) /\ GasModulus \in Nat \ {0}
  BY EngineAssumption DEF Inv, TypeOK
<1>2. CASE Cost(Opcode) = 0
  <2>1. (consumedGas + 0) % GasModulus = consumedGas
    BY <1>1
  <2> QED
    BY <1>2, <2>1 DEF Charged, AddGas, Within
<1>3. CASE Affordable(Charged)
  BY <1>3 DEF Affordable, Within
<1> QED
  BY <1>2, <1>3 DEF Case

(* SetFault, Continue and a push replace the running frame.                *)
LEMMA TopOutcome ==
  ASSUME Within, NEW c \in Frame, Keeps(c), SetFault(c) \/ Continue(c)
  PROVE  Outcome
BY DEF SetFault, Continue, Leave, Replaced, Keeps, GoesOn, Outcome

(* An instruction that pushes an item it makes stays in its frame.         *)
LEMMA PushNewOutcome ==
  ASSUME Within, NEW c \in Frame, Keeps(c), NEW item \in Item, PushNew(c, item)
  PROVE  Outcome
<1>1. c.eval \in Seq(Item)
  BY FrameFields
<1>2. [c EXCEPT !.eval = Append(c.eval, item)] \in Frame
  BY <1>1, AppendProperties, RefilledFrame
<1>3. Keeps([c EXCEPT !.eval = Append(c.eval, item)])
  BY KeptDebt
<1> QED
  BY <1>2, <1>3, TopOutcome DEF PushNew
----------------------------------------------------------------------------
(* One lemma for each action of InternalStepInto.                          *)

LEMMA OutOfGasOutcome ==
  ASSUME Contract, invocation # << >>, OutOfGas
  PROVE  Outcome
<1>1. Cur \in Frame /\ Keeps(Cur)
  BY RunningOwes
<1> QED
  BY <1>1 DEF OutOfGas, Leave, Replaced, Keeps, GoesOn, Outcome, Within

(* PUSHM1 to PUSH16.                                                       *)
LEMMA PushOutcome ==
  ASSUME Contract, invocation # << >>, Push
  PROVE  Outcome
<1>1. Cur \in Frame /\ Keeps(Cur) /\ Cur.eval \in Seq(Item)
  BY RunningOwes, FrameFields
<1>2. Within
  BY ChargedWithin DEF Push, Contract
<1> DEFINE item == CASE Opcode = PUSH0 -> << >>
                     [] Opcode = PUSHM1 -> <<255>>
                     [] OTHER -> <<Opcode - PUSH1 + 1>>
<1>3. Opcode \in {PUSH0, PUSHM1} \cup (PUSH1 .. PUSH16)
  BY DEF Push, Case
<1>4. ASSUME Opcode \in PUSH1 .. PUSH16
      PROVE  <<Opcode - PUSH1 + 1>> \in Item
  BY <1>4 DEF Item, Byte, PUSH1, PUSH16
<1>5. << >> \in Item /\ <<255>> \in Item
  BY EmptySeq DEF Item, Byte
<1>6. item \in Item
  BY <1>3, <1>4, <1>5 DEF PUSH0, PUSHM1
<1>7. PushNew(Cur, item)
  BY DEF Push
<1> HIDE DEF item
<1> QED
  BY <1>1, <1>2, <1>6, <1>7, PushNewOutcome

(* A push of the bytes that follow.                                        *)
LEMMA PushDataOutcome ==
  ASSUME Within, NEW c \in Frame, Keeps(c), NEW length \in Nat,
         PushData(c, length)
  PROVE  Outcome
<1>1. Read(c, length) \in Frame /\ Keeps(Read(c, length))
  BY ReadFrame, KeptDebt
<1>2. CASE CanRead(c, length)
  <2>1. Data(c, length) \in Item
    BY <1>2, DataBytes DEF Item
  <2> QED
    BY <1>1, <1>2, <2>1, PushNewOutcome DEF PushData
<1>3. CASE ~CanRead(c, length)
  BY <1>1, <1>3, TopOutcome DEF PushData
<1> QED
  BY <1>2, <1>3

(* PUSHBYTES1 to PUSHBYTES75.                                              *)
LEMMA PushBytesOutcome ==
  ASSUME Contract, invocation # << >>, PushBytes
  PROVE  Outcome
<1>1. Cur \in Frame /\ Keeps(Cur)
  BY RunningOwes
<1>2. Opcode \in Nat
  <2>1. Opcode \in Byte
    BY RunningFrame DEF Contract
  <2> QED
    BY <2>1 DEF Byte
<1>3. Within
  BY ChargedWithin DEF PushBytes, Contract
<1> QED
  BY <1>1, <1>2, <1>3, PushDataOutcome DEF PushBytes

(* PUSHDATA1, PUSHDATA2 and PUSHDATA4.                                     *)
LEMMA PushData124Outcome ==
  ASSUME Contract, invocation # << >>, PushData124
  PROVE  Outcome
<1> DEFINE width == CASE Opcode = PUSHDATA1 -> 1 [] Opcode = PUSHDATA2 -> 2
                      [] OTHER -> 4
           length == CASE width = 1 -> UInt8(Cur) [] width = 2 -> UInt16(Cur)
                       [] OTHER -> UInt32(Cur)
           readable == CanRead(Cur, width)
             /\ (width = 4 => Data(Cur, 4)[4] < 128 /\ length <= MaxItemLength)
<1>1. Cur \in Frame /\ Keeps(Cur)
  BY RunningOwes
<1>2. Within
  BY ChargedWithin DEF PushData124, Contract
<1>3. width \in {1, 2, 4}
  OBVIOUS
<1>4. Read(Cur, width) \in Frame /\ Keeps(Read(Cur, width))
  <2>1. width \in Nat
    BY <1>3
  <2> HIDE DEF width
  <2> QED
    BY <1>1, <2>1, ReadFrame, KeptDebt
<1>5. CASE readable
  <2>1. length \in Nat
    BY <1>1, <1>3, <1>5, LengthsAreNat
  <2>2. PushData(Read(Cur, width), length)
    BY <1>5 DEF PushData124
  <2> HIDE DEF length, width
  <2> QED
    BY <1>2, <1>4, <2>1, <2>2, PushDataOutcome
<1>6. CASE ~readable
  <2>1. SetFault(Read(Cur, width))
    BY <1>6 DEF PushData124
  <2> HIDE DEF width
  <2> QED
    BY <1>2, <1>4, <2>1, TopOutcome
<1> QED
  BY <1>5, <1>6

(* NOP.                                                                    *)
LEMMA NopOutcome ==
  ASSUME Contract, invocation # << >>, Nop
  PROVE  Outcome
<1>1. Within
  BY ChargedWithin DEF Nop, Contract
<1> QED
  BY <1>1, RunningOwes, TopOutcome DEF Nop

(* The same frame, but for the place it is at.                             *)
SameItems(f, c) == f.eval = c.eval /\ f.rv = c.rv /\ f.due = c.due

(* A seek leaves the items of a frame alone.                               *)
LEMMA SoughtItems ==
  ASSUME NEW c \in Frame, NEW offset
  PROVE  SameItems(SeekFromHere(c, offset), c)
BY DEF SameItems, SeekFromHere, Frame, Context

(* Wherever JmpLabel leads, it pays within the limit or faults, and the    *)
(* frame that jumps still has and owes what it had and owed.               *)
LEMMA JmpLabelOutcome ==
  ASSUME NEW below, NEW c \in Frame, NEW gas,
         JmpLabel(below, c, gas)
  PROVE  /\ Within /\ GoesOn /\ UNCHANGED resultStack
         /\ \E f \in Frame : SameItems(f, c) /\ invocation' = Append(below, f)
<1> DEFINE at == Read(c, 2)
           offset == Int16(c) - 3
           paid == AddGas(gas, JumpCost)
<1>1. consumedGas' = paid
  BY DEF JmpLabel
<1>2. at \in Frame /\ SameItems(at, c)
  BY ReadFrame DEF SameItems
<1>3. CASE ~Affordable(paid)
  <2>1. Leave("FAULT_BY_GAS", Append(below, c))
    BY <1>3 DEF JmpLabel
  <2> QED
    BY <2>1 DEF Leave, Within, GoesOn, SameItems
<1>4. CASE Affordable(paid) /\ CanRead(c, 2) /\ CouldSeekFromHere(at, offset)
  <2>1. Leave(state, Append(below, SeekFromHere(at, offset)))
    BY <1>4 DEF JmpLabel
  <2>2. offset \in Int
    BY <1>4, OffsetIsInt
  <2>3. /\ SeekFromHere(at, offset) \in Frame
        /\ SameItems(SeekFromHere(at, offset), c)
    <3> HIDE DEF at, offset
    <3> QED
      BY <1>2, <2>2, SeekFrame, SoughtItems DEF SameItems
  <2>4. Within
    BY <1>1, <1>4 DEF Affordable, Within
  <2> QED
    BY <2>1, <2>3, <2>4 DEF Leave, GoesOn
<1>5. CASE Affordable(paid) /\ ~(CanRead(c, 2) /\ CouldSeekFromHere(at, offset))
  <2>1. Leave("FAULT", Append(below, at))
    BY <1>5 DEF JmpLabel
  <2> QED
    BY <1>2, <2>1 DEF Leave, Within, GoesOn
<1> QED
  BY <1>3, <1>4, <1>5

(* JMP.                                                                    *)
LEMMA JmpOutcome ==
  ASSUME Contract, invocation # << >>, Jmp
  PROVE  Outcome
<1>1. Cur \in Frame /\ Keeps(Cur)
  BY RunningOwes
<1>2. JmpLabel(Front(invocation), Cur, consumedGas)
  BY DEF Jmp
<1>3. PICK f \in Frame : /\ SameItems(f, Cur)
                         /\ invocation' = Append(Front(invocation), f)
  BY <1>1, <1>2, JmpLabelOutcome
<1>4. Within /\ GoesOn /\ UNCHANGED resultStack
  BY <1>1, <1>2, JmpLabelOutcome
<1>5. Keeps(f)
  BY <1>1, <1>3 DEF SameItems, Keeps, Owes
<1> QED
  BY <1>3, <1>4, <1>5 DEF Outcome, Replaced, Keeps, WithTop

(* JMPIF and JMPIFNOT.                                                     *)
LEMMA JmpIfOutcome ==
  ASSUME Contract, invocation # << >>, JmpIf
  PROVE  Outcome
<1> DEFINE at == Read(Cur, 2)
           offset == Int16(Cur) - 3
           popped == [at EXCEPT !.eval = Front(at.eval)]
<1>1. Cur \in Frame /\ Keeps(Cur)
  BY RunningOwes
<1>2. at \in Frame /\ at.eval = Cur.eval /\ Keeps(at)
  BY <1>1, ReadFrame, KeptDebt
<1>3. Within
  BY ChargedWithin DEF JmpIf, Contract
<1>4. CASE Cur.eval = << >>
  <2>1. SetFault(Cur)
    BY <1>4 DEF JmpIf
  <2> QED
    BY <1>1, <1>3, <2>1, TopOutcome
<1>5. CASE Cur.eval # << >> /\ (~CanRead(Cur, 2) \/ ~CouldSeekFromHere(at, offset))
  <2>1. SetFault(at)
    BY <1>5 DEF JmpIf
  <2> QED
    BY <1>2, <1>3, <2>1, TopOutcome
<1>6. CASE Cur.eval # << >> /\ CanRead(Cur, 2) /\ CouldSeekFromHere(at, offset)
  <2>1. popped \in Frame /\ Keeps(popped)
    BY <1>2, <1>6, PoppedFrame, KeptDebt
  <2>2. offset \in Int
    BY <1>1, <1>6, OffsetIsInt
  <2>3. Continue(SeekFromHere(popped, offset)) \/ Continue(popped)
    BY <1>6 DEF JmpIf
  <2> HIDE DEF popped, offset
  <2>4. SeekFromHere(popped, offset) \in Frame
        /\ Keeps(SeekFromHere(popped, offset))
    BY <2>1, <2>2, SeekFrame, KeptDebt
  <2> QED
    BY <1>3, <2>1, <2>3, <2>4, TopOutcome
<1> QED
  BY <1>4, <1>5, <1>6

(* Front, position by position.                                            *)
LEMMA FrontByIndex ==
  ASSUME NEW S, NEW s \in Seq(S), Len(s) # 0
  PROVE  /\ Front(s) \in Seq(S) /\ Len(Front(s)) = Len(s) - 1
         /\ \A i \in 1 .. (Len(s) - 1) : Front(s)[i] = s[i]
<1> DEFINE n == Len(s) - 1
<1>1. n \in Nat /\ 1 \in Int
  OBVIOUS
<1>2. \A i \in 1 .. n : s[i] \in S
  BY ElementOfSeq
<1>3. Front(s) = SubSeq(s, 1, n)
  BY DEF Front
<1> HIDE DEF n
<1>4. /\ SubSeq(s, 1, n) \in Seq(S)
      /\ Len(SubSeq(s, 1, n)) = IF 1 <= n THEN n - 1 + 1 ELSE 0
      /\ \A i \in 1 .. n - 1 + 1 : SubSeq(s, 1, n)[i] = s[1 + i - 1]
  BY <1>1, <1>2, SubSeqProperties
<1>5. Len(SubSeq(s, 1, n)) = n
  BY <1>1, <1>4
<1>6. \A i \in 1 .. n : SubSeq(s, 1, n)[i] = s[i]
  BY <1>1, <1>4
<1> QED
  BY <1>3, <1>4, <1>5, <1>6 DEF n

(* A sequence is a prefix of itself and of what it begins.                 *)
LEMMA ConcatPrefix ==
  ASSUME NEW S, NEW s \in Seq(S), NEW t \in Seq(S)
  PROVE  IsPrefix(s, s) /\ IsPrefix(s, s \o t)
<1>1. Len(s) \in Nat /\ Len(t) \in Nat /\ Len(s \o t) = Len(s) + Len(t)
  BY ConcatProperties
<1>2. SubSeq(s \o t, 1, Len(s)) = SubSeq(s, 1, Len(s))
  <2>1. CASE Len(s) = 0
    BY <2>1, SubSeqEmpty
  <2>2. CASE Len(s) # 0
    <3>1. 1 \in 1 .. Len(s) /\ Len(s) \in 1 .. Len(s)
      BY <1>1, <2>2
    <3> QED
      BY <3>1, SubSeqOfConcat1
  <2> QED
    BY <2>1, <2>2
<1> QED
  BY <1>1, <1>2 DEF IsPrefix

(* The items a call divides: all that there are, or all but the hash.      *)
Divides(items, e) ==
  e \in Seq(Item) /\ \E t \in Seq(Item) : items = e \o t /\ Len(t) <= 1

(* All items of a sequence are a part of it.                               *)
LEMMA DividesAll == ASSUME NEW s \in Seq(Item) PROVE Divides(s, s)
<1> DEFINE t == << >>
<1>1. t \in Seq(Item) /\ Len(t) = 0 /\ Len(s) \in Nat
  BY EmptySeq
<1> HIDE DEF t
<1>2. s = s \o t
  <2>1. s \o t \in Seq(Item) /\ Len(s \o t) = Len(s)
    BY <1>1, ConcatProperties
  <2>2. \A i \in 1 .. Len(s) : s[i] = (s \o t)[i]
    BY <1>1, ConcatProperties
  <2> QED
    BY <2>1, <2>2, SeqEqual
<1>3. Len(t) <= 1
  BY <1>1
<1> QED
  BY <1>1, <1>2, <1>3, Zenon DEF Divides

(* So are all but the last.                                                *)
LEMMA DividesFront ==
  ASSUME NEW s \in Seq(Item), s # << >>
  PROVE  Divides(s, Front(s))
<1> DEFINE t == <<Last(s)>>
<1>1. Len(s) \in Nat \ {0}
  BY EmptySeq
<1>2. /\ Front(s) \in Seq(Item) /\ Len(Front(s)) = Len(s) - 1
      /\ \A i \in 1 .. (Len(s) - 1) : Front(s)[i] = s[i]
  BY <1>1, FrontByIndex
<1>3. t \in Seq(Item) /\ Len(t) = 1 /\ t[1] = s[Len(s)]
  BY <1>1, ElementOfSeq DEF Last
<1> HIDE DEF t
<1>4. s = Front(s) \o t
  <2>1. /\ Front(s) \o t \in Seq(Item) /\ Len(Front(s) \o t) = Len(s)
        /\ \A i \in 1 .. Len(s) :
             (Front(s) \o t)[i] =
               IF i <= Len(s) - 1 THEN Front(s)[i] ELSE t[i - (Len(s) - 1)]
    BY <1>1, <1>2, <1>3, ConcatProperties
  <2>2. \A i \in 1 .. Len(s) : (Front(s) \o t)[i] = s[i]
    <3> TAKE i \in 1 .. Len(s)
    <3>1. CASE i <= Len(s) - 1
      BY <1>1, <1>2, <2>1, <3>1
    <3>2. CASE ~(i <= Len(s) - 1)
      <4>1. i = Len(s) /\ i - (Len(s) - 1) = 1
        BY <1>1, <3>2
      <4> QED
        BY <1>3, <2>1, <3>2, <4>1
    <3> QED
      BY <3>1, <3>2
  <2> QED
    BY <2>1, <2>2, SeqEqual
<1> QED
  BY <1>2, <1>3, <1>4 DEF Divides

(* What is kept and what is sent are those items, in order; what a tail    *)
(* call does not send are the first of them.                               *)
LEMMA Handed ==
  ASSUME NEW s \in Seq(Item), NEW e, Divides(s, e),
         NEW count \in -1 .. 255
  PROVE  /\ HandsOver(s, Kept(e, count), Sent(e, count))
         /\ HandsOver(s, e, << >>)
         /\ \E n \in 0 .. Len(s) :
              HandsOver(s, SubSeq(s, 1, n), Sent(e, count))
<1>1. PICK t \in Seq(Item) : s = e \o t /\ Len(t) <= 1
  BY DEF Divides
<1>2. e \in Seq(Item) /\ Len(e) \in Nat /\ Len(t) \in Nat
  BY DEF Divides
<1>3. Len(s) = Len(e) + Len(t) /\ IsPrefix(e, s)
  BY <1>1, <1>2, ConcatProperties, ConcatPrefix
<1>4. count \in Int /\ count >= -1
  OBVIOUS
<1>5. /\ Kept(e, count) \in Seq(Item) /\ Sent(e, count) \in Seq(Item)
      /\ Kept(e, count) \o Sent(e, count) = e
      /\ SentCount(e, count) \in 0 .. Len(e)
  BY <1>2, <1>4, SendToSplits
<1>6. Len(e) = Len(Kept(e, count)) + Len(Sent(e, count))
  BY <1>5, ConcatProperties
<1>7. HandsOver(s, Kept(e, count), Sent(e, count))
  <2>1. Len(Kept(e, count)) \in Nat /\ Len(Sent(e, count)) \in Nat
    BY <1>5
  <2>2. Len(s) <= Len(Kept(e, count)) + Len(Sent(e, count)) + 1
    BY <1>1, <1>2, <1>3, <1>6, <2>1
  <2> QED
    BY <1>3, <1>5, <2>2 DEF HandsOver
<1>8. HandsOver(s, e, << >>)
  <2>1. e \o << >> = e
    <3>1. << >> \in Seq(Item) /\ Len(<< >>) = 0
      BY EmptySeq
    <3>2. e \o << >> \in Seq(Item) /\ Len(e \o << >>) = Len(e)
          /\ \A i \in 1 .. Len(e) : (e \o << >>)[i] = e[i]
      BY <1>2, <3>1, ConcatProperties
    <3> QED
      BY <1>2, <3>2, SeqEqual
  <2>2. Len(s) <= Len(e) + 0 + 1
    BY <1>1, <1>2, <1>3
  <2> QED
    BY <1>3, <2>1, <2>2, EmptySeq DEF HandsOver
<1>9. \E n \in 0 .. Len(s) : HandsOver(s, SubSeq(s, 1, n), Sent(e, count))
  <2> DEFINE n == Len(e) - SentCount(e, count)
  <2>1. n \in 0 .. Len(e) /\ n \in 0 .. Len(s)
    BY <1>2, <1>3, <1>5
  <2>2. Kept(e, count) = SubSeq(e, 1, n)
    BY DEF Kept
  <2> HIDE DEF n
  <2>3. SubSeq(s, 1, n) = SubSeq(e, 1, n)
    <3>1. CASE n = 0
      BY <3>1, SubSeqEmpty
    <3>2. CASE n # 0
      <4>1. 1 \in 1 .. Len(e) /\ n \in 1 .. Len(e)
        BY <1>2, <2>1, <3>2
      <4> QED
        BY <1>1, <1>2, <4>1, SubSeqOfConcat1
    <3> QED
      BY <3>1, <3>2
  <2> QED
    BY <1>7, <2>1, <2>2, <2>3
<1> QED
  BY <1>7, <1>8, <1>9

(* A clone takes what it is handed from its caller, and owes what it is    *)
(* asked for.                                                              *)
LEMMA CallerAndCallee ==
  ASSUME NEW c \in Frame, Keeps(c), NEW rv \in -1 .. 255,
         NEW pcount \in -1 .. 255
  PROVE  LET caller == SeekFromHere(Cloned(c, pcount), 2)
             callee == Clone(c, rv, pcount) IN
         /\ caller \in Frame /\ Keeps(caller)
         /\ callee \in Frame /\ Owes(callee)
         /\ HandsOver(c.eval, caller.eval, callee.eval)
<1> DEFINE left == Cloned(c, pcount)
           callee == Clone(c, rv, pcount)
<1>1. left \in Frame /\ callee \in Frame /\ c.eval \in Seq(Item)
  BY CloneFrame, FrameFields
<1>2. Keeps(left)
  BY KeptDebt DEF Cloned
<1>3. Owes(callee) /\ callee.eval = Sent(c.eval, pcount)
  BY DEF Owes, Clone, NewContext
<1>4. left.eval = Kept(c.eval, pcount)
  BY DEF Cloned, Frame, Context
<1> HIDE DEF left, callee
<1>5. SeekFromHere(left, 2) \in Frame /\ Keeps(SeekFromHere(left, 2))
  <2>1. SeekFromHere(left, 2) \in Frame
    BY <1>1, SeekFrame
  <2>2. Keeps(SeekFromHere(left, 2))
    BY <1>1, <1>2, KeptDebt
  <2> QED
    BY <2>1, <2>2
<1>6. SeekFromHere(left, 2).eval = Kept(c.eval, pcount)
  BY <1>1, <1>4, SoughtItems DEF SameItems
<1>7. HandsOver(c.eval, SeekFromHere(left, 2).eval, callee.eval)
  BY <1>1, <1>3, <1>6, DividesAll, Handed
<1> QED
  BY <1>1, <1>3, <1>5, <1>7 DEF left, callee

(* CALL.                                                                   *)
LEMMA CallOutcome ==
  ASSUME Contract, invocation # << >>, Call
  PROVE  Outcome
<1> DEFINE caller == SeekFromHere(Cloned(Cur, -1), 2)
           callee == Clone(Cur, -1, -1)
<1>1. Cur \in Frame /\ Keeps(Cur) /\ -1 \in -1 .. 255
  BY RunningOwes
<1>2. CASE Full
  <2>1. SetFault(Cur) /\ consumedGas' = Charged
    BY <1>2 DEF Call
  <2>2. Within
    BY <2>1 DEF SetFault, Leave, Within
  <2> QED
    BY <1>1, <2>1, <2>2, TopOutcome
<1>3. CASE ~Full
  <2>1. JmpLabel(WithTop(caller), callee, Charged)
    BY <1>3 DEF Call
  <2>2. /\ caller \in Frame /\ Keeps(caller) /\ callee \in Frame /\ Owes(callee)
        /\ HandsOver(Cur.eval, caller.eval, callee.eval)
    BY <1>1, CallerAndCallee
  <2>3. Len(invocation) < MaxInvocation
    <3>1. Len(invocation) \in Nat /\ MaxInvocation \in Nat
      BY RunningFrame, EngineAssumption DEF Contract
    <3> QED
      BY <1>3, <3>1 DEF Full
  <2> HIDE DEF caller, callee
  <2>4. PICK f \in Frame : /\ SameItems(f, callee)
                           /\ invocation' = Append(WithTop(caller), f)
    BY <2>1, <2>2, JmpLabelOutcome
  <2>5. Within /\ GoesOn /\ UNCHANGED resultStack
    BY <2>1, <2>2, JmpLabelOutcome
  <2>6. Pushed(caller, f)
    BY <2>2, <2>3, <2>4 DEF Pushed, SameItems, Keeps, Owes
  <2>7. Hands(caller, f)
    BY <2>2, <2>4, <2>5, RunningOwes DEF Hands, SameItems
  <2> QED
    BY <2>2, <2>5, <2>6, <2>7 DEF Outcome
<1> QED
  BY <1>2, <1>3

(* CALL_I.                                                                 *)
LEMMA CallIOutcome ==
  ASSUME Contract, invocation # << >>, CallI
  PROVE  Outcome
<1> DEFINE at == Read(Cur, 2)
           rvcount == Data(Cur, 2)[1]
           pcount == Data(Cur, 2)[2]
           caller == SeekFromHere(Cloned(at, pcount), 2)
           callee == Clone(at, rvcount, pcount)
<1>1. Cur \in Frame /\ Keeps(Cur)
  BY RunningOwes
<1>2. at \in Frame /\ Keeps(at)
  BY <1>1, ReadFrame, KeptDebt
<1>3. Charged = consumedGas' => Within
  BY ChargedWithin DEF CallI, Contract
<1>4. CASE Full
  <2>1. SetFault(Cur) /\ consumedGas' = Charged
    BY <1>4 DEF CallI
  <2> QED
    BY <1>1, <1>3, <2>1, TopOutcome
<1>5. CASE ~Full /\ (~CanRead(Cur, 2) \/ Len(Cur.eval) < pcount)
  <2>1. SetFault(at) /\ consumedGas' = Charged
    BY <1>5 DEF CallI
  <2> QED
    BY <1>2, <1>3, <2>1, TopOutcome
<1>6. CASE ~Full /\ CanRead(Cur, 2) /\ ~(Len(Cur.eval) < pcount)
  <2>1. JmpLabel(WithTop(caller), callee, Charged)
    BY <1>6 DEF CallI
  <2>2. rvcount \in -1 .. 255 /\ pcount \in -1 .. 255
    BY <1>1, <1>6, CountsAreBytes
  <2>3. /\ caller \in Frame /\ Keeps(caller) /\ callee \in Frame /\ Owes(callee)
        /\ HandsOver(at.eval, caller.eval, callee.eval)
    BY <1>2, <2>2, CallerAndCallee
  <2>4. Len(invocation) < MaxInvocation
    <3>1. Len(invocation) \in Nat /\ MaxInvocation \in Nat
      BY RunningFrame, EngineAssumption DEF Contract
    <3> QED
      BY <1>6, <3>1 DEF Full
  <2> HIDE DEF caller, callee
  <2>5. PICK f \in Frame : /\ SameItems(f, callee)
                           /\ invocation' = Append(WithTop(caller), f)
    BY <2>1, <2>3, JmpLabelOutcome
  <2>6. Within /\ GoesOn /\ UNCHANGED resultStack
    BY <2>1, <2>3, JmpLabelOutcome
  <2>7. Pushed(caller, f)
    BY <2>3, <2>4, <2>5 DEF Pushed, SameItems, Keeps, Owes
  <2>8. at.eval = Top.eval
    BY <1>1, ReadFrame, RunningOwes
  <2> HIDE DEF at
  <2>9. Hands(caller, f)
    BY <2>3, <2>5, <2>6, <2>8 DEF Hands, SameItems
  <2> QED
    BY <2>3, <2>6, <2>7, <2>9 DEF Outcome
<1> QED
  BY <1>4, <1>5, <1>6

(* RET.                                                                    *)
LEMMA RetOutcome ==
  ASSUME Contract, invocation # << >>, Ret
  PROVE  Outcome
<1>1. Within
  BY ChargedWithin DEF Ret, Contract
<1>2. CASE Cur.rv > Len(Cur.eval)
  <2>1. Leave("FAULT", Front(invocation))
    BY <1>2 DEF Ret
  <2> QED
    BY <1>1, <1>2, <2>1, RunningOwes DEF Leave, Dropped, Outcome
<1>3. CASE ~(Cur.rv > Len(Cur.eval))
  <2>1. Deliver(Front(invocation), Sent(Cur.eval, Cur.rv))
    BY <1>3 DEF Ret
  <2>2. Cur.eval = Top.eval /\ Cur.rv = Top.due
    BY RunningOwes
  <2> QED
    BY <1>1, <1>3, <2>1, <2>2 DEF Returned, Outcome
<1> QED
  BY <1>2, <1>3

(* A call enters a script with a frame that owes what the call asked for,  *)
(* and a tail call passes on a debt that is the caller's own.              *)
LEMMA EnterOutcome ==
  ASSUME Contract, invocation # << >>, Within, NEW c \in Frame, Keeps(c),
         NEW hash, NEW dynamic \in BOOLEAN, NEW rvcount \in -1 .. 255,
         NEW pcount \in -1 .. 255, NEW tail \in BOOLEAN,
         NEW limited \in BOOLEAN,
         Divides(Top.eval, c.eval),
         tail /\ rvcount # -1 => c.rv = rvcount,
         ~limited => Opcode \in CALL_E .. CALL_EDT,
         Enter(c, hash, dynamic, rvcount, pcount, tail, limited)
  PROVE  Outcome
<1>1. CASE (dynamic \/ Cached(hash) = {}) /\ SetFault(c)
  BY <1>1, TopOutcome
<1>2. CASE ~((dynamic \/ Cached(hash) = {}) /\ SetFault(c))
  <2> DEFINE New(found) == NewContext(found.script, 0, rvcount)
             Loaded(found) ==
               [New(found) EXCEPT !.eval = Sent(c.eval, pcount),
                                  !.due = IF tail /\ rvcount # -1 THEN c.due
                                                                 ELSE @]
  <2>1. PICK found \in Found(hash, dynamic) :
          /\ UNCHANGED resultStack
          /\ IF limited /\ FullOnceLoaded
             THEN state' = "FAULT" /\ invocation' = Append(WithTop(c), New(found))
             ELSE /\ UNCHANGED state
                  /\ invocation' =
                       IF tail THEN WithTop(Loaded(found))
                       ELSE Append(WithTop(Cloned(c, pcount)), Loaded(found))
    BY <1>2 DEF Enter
  <2>2. found.script \in Seq(Byte)
    BY FoundScript DEF Contract
  <2>3. 0 \in Nat /\ 0 <= Len(found.script)
    BY <2>2
  <2>4. New(found) \in Frame /\ Owes(New(found)) /\ New(found).eval = << >>
    BY <2>2, <2>3, NewContextIsFrame DEF NewContext, Owes
  <2>5. /\ Sent(c.eval, pcount) \in Seq(Item) /\ c.due \in -1 .. 255
        /\ Top.eval \in Seq(Item) /\ c.rv = c.due /\ c.due = Top.due
    <3> HIDE DEF New, Loaded
    <3>1. /\ c.eval \in Seq(Item) /\ c.due \in -1 .. 255
          /\ pcount \in Int /\ pcount >= -1
      BY FrameFields
    <3>2. Sent(c.eval, pcount) \in Seq(Item)
      BY <3>1, SendToSplits
    <3>3. Top \in Frame
      BY RunningOwes
    <3>4. Top.eval \in Seq(Item)
      BY <3>3, FrameFields
    <3>5. c.rv = c.due /\ c.due = Top.due
      BY DEF Keeps, Owes
    <3> QED
      BY <3>1, <3>2, <3>4, <3>5
  <2>6. Loaded(found) \in Frame
    BY <2>4, <2>5 DEF Frame, Context
  <2>7. /\ Owes(Loaded(found)) /\ Loaded(found).eval = Sent(c.eval, pcount)
        /\ tail => Loaded(found).due \in {Top.due, -1}
    BY <2>5 DEF NewContext, Owes
  <2>8. /\ Cloned(c, pcount) \in Frame /\ Keeps(Cloned(c, pcount))
        /\ Cloned(c, pcount).eval = Kept(c.eval, pcount)
    <3> HIDE DEF New, Loaded
    <3>1. Cloned(c, pcount) \in Frame
      BY CloneFrame
    <3>2. Keeps(Cloned(c, pcount))
      BY KeptDebt DEF Cloned
    <3>3. Cloned(c, pcount).eval = Kept(c.eval, pcount)
      BY DEF Cloned, Frame, Context
    <3> QED
      BY <3>1, <3>2, <3>3
  <2>9. CASE limited /\ FullOnceLoaded
    <3>1. /\ state' = "FAULT" /\ UNCHANGED resultStack
          /\ invocation' = Append(WithTop(c), New(found))
      BY <2>1, <2>9
    <3> HIDE DEF New
    <3>2. Pushed(c, New(found))
      BY <2>4, <3>1 DEF Pushed, Keeps
    <3>3. Hands(c, New(found))
      BY <2>4, <2>5, <3>1, Handed DEF Hands, GoesOn
    <3> QED
      BY <2>4, <3>1, <3>2, <3>3 DEF Outcome
  <2>10. CASE ~(limited /\ FullOnceLoaded)
    <3>1. /\ UNCHANGED state
          /\ invocation' = IF tail THEN WithTop(Loaded(found))
                           ELSE Append(WithTop(Cloned(c, pcount)), Loaded(found))
      BY <2>1, <2>10
    <3>2. Len(invocation) \in Nat /\ MaxInvocation \in Nat
      BY RunningFrame, EngineAssumption DEF Contract
    <3>3. Opcode \in CALL_E .. CALL_EDT \/ Len(invocation) < MaxInvocation
      BY <2>10, <3>2 DEF FullOnceLoaded
    <3> HIDE DEF Loaded
    <3>4. CASE tail
      <4>1. Substitutes(Loaded(found))
        BY <2>5, <2>7, <3>1, <3>4, Handed DEF Substitutes
      <4> QED
        BY <2>1, <2>6, <2>7, <3>1, <3>4, <4>1 DEF Outcome, Replaced
    <3>5. CASE ~tail
      <4>1. Pushed(Cloned(c, pcount), Loaded(found))
        BY <2>7, <2>8, <3>1, <3>3, <3>5 DEF Pushed, Keeps
      <4>2. Hands(Cloned(c, pcount), Loaded(found))
        BY <2>5, <2>7, <2>8, <3>1, Handed DEF Hands, GoesOn
      <4> QED
        BY <2>1, <2>6, <2>8, <4>1, <4>2 DEF Outcome
    <3> QED
      BY <3>4, <3>5
  <2> QED
    BY <2>9, <2>10
<1> QED
  BY <1>1, <1>2

(* CALL_E, CALL_ED, CALL_ET and CALL_EDT.                                  *)
LEMMA CallEOutcome ==
  ASSUME Contract, invocation # << >>, CallE
  PROVE  Outcome
<1> DEFINE dynamic == Opcode \in {CALL_ED, CALL_EDT}
           tail == Opcode \in {CALL_ET, CALL_EDT}
           at == Read(Cur, 2)
           rvcount == Data(Cur, 2)[1]
           pcount == Data(Cur, 2)[2]
           popped == [at EXCEPT !.eval = Front(at.eval)]
           read == Read(at, HashLength)
           hash == IF dynamic THEN Last(Cur.eval) ELSE Data(at, HashLength)
           refused == ~CanRead(Cur, 2)
                        \/ CannotCall(Cur, rvcount, pcount, dynamic, tail)
<1>1. Cur \in Frame /\ Keeps(Cur) /\ HashLength \in Nat
  BY RunningOwes, EngineAssumption
<1>2. /\ at \in Frame /\ at.eval = Cur.eval /\ at.rv = Cur.rv /\ Keeps(at)
  BY <1>1, ReadFrame, KeptDebt
<1>3. Within
  BY ChargedWithin DEF CallE, Contract
<1> DEFINE gives == "LoadScript" \in Callbacks
<1>0. CASE ~gives
  <2>1. SetFault(Cur)
    BY <1>0 DEF CallE
  <2> QED
    BY <1>1, <1>3, <2>1, TopOutcome
<1>4. CASE gives /\ refused
  <2>1. SetFault(at)
    BY <1>4 DEF CallE
  <2> QED
    BY <1>2, <1>3, <2>1, TopOutcome
<1>5. CASE gives /\ ~refused
  <2>1. rvcount \in 0 .. 255 /\ pcount \in 0 .. 255
    BY <1>1, <1>5, CountsAreBytes
  <2>2. rvcount \in -1 .. 255 /\ pcount \in -1 .. 255 /\ pcount >= 0
    <3> HIDE DEF rvcount, pcount
    <3> QED BY <2>1
  <2>3. tail \in BOOLEAN /\ Opcode \in CALL_E .. CALL_EDT
    BY DEF CallE, Case
  <2>4. tail => Cur.rv = rvcount
    BY <1>5 DEF CannotCall
  <2>5. CASE dynamic
    <3>1. ~(Len(Cur.eval) < pcount + 1) /\ Len(Cur.eval) \in Nat
      BY <1>1, <1>5, <2>5, FrameFields DEF CannotCall
    <3>2. Cur.eval # << >>
      <4> HIDE DEF pcount
      <4>1. Len(Cur.eval) # 0
        BY <2>2, <3>1
      <4> QED
        BY <4>1
    <3>3. popped \in Frame /\ Keeps(popped) /\ popped.rv = Cur.rv
      BY <1>2, <3>2, PoppedFrame, KeptDebt DEF Frame, Context
    <3>5. Divides(Top.eval, popped.eval)
      <4>1. popped.eval = Front(Top.eval) /\ Top.eval # << >>
        BY <1>2, <3>2, RunningOwes DEF Frame, Context
      <4>2. Top.eval \in Seq(Item)
        BY RunningOwes, FrameFields
      <4> HIDE DEF popped
      <4> QED
        BY <4>1, <4>2, DividesFront
    <3>4. \/ SetFault(popped)
          \/ Enter(popped, hash, TRUE, rvcount, pcount, tail, FALSE)
      BY <1>5, <2>5 DEF CallE
    <3> HIDE DEF popped, hash, rvcount, pcount, tail
    <3> QED
      BY <1>3, <2>2, <2>3, <2>4, <3>3, <3>4, <3>5, TopOutcome, EnterOutcome
  <2>6. CASE ~dynamic
    <3>1. /\ read \in Frame /\ Keeps(read) /\ read.rv = Cur.rv
          /\ read.eval = Top.eval /\ Top.eval \in Seq(Item)
      BY <1>1, <1>2, ReadFrame, KeptDebt, RunningOwes, FrameFields
    <3>2. \/ SetFault(read)
          \/ Enter(read, hash, FALSE, rvcount, pcount, tail, FALSE)
      BY <1>5, <2>6 DEF CallE
    <3> HIDE DEF read, hash, rvcount, pcount, tail
    <3> QED
      BY <1>3, <2>2, <2>3, <2>4, <3>1, <3>2, DividesAll, TopOutcome, EnterOutcome
  <2> QED
    BY <2>5, <2>6
<1> QED
  BY <1>0, <1>4, <1>5

(* APPCALL and TAILCALL.                                                   *)
LEMMA AppCallOutcome ==
  ASSUME Contract, invocation # << >>, AppCall
  PROVE  Outcome
<1> DEFINE tail == Opcode = TAILCALL
           at == Read(Cur, HashLength)
           dynamic == \A i \in 1 .. HashLength : Data(Cur, HashLength)[i] = 0
           popped == [at EXCEPT !.eval = Front(at.eval)]
           item == Last(Cur.eval)
           refused == ~CanRead(Cur, HashLength) \/ (dynamic /\ Cur.eval = << >>)
<1>1. /\ Cur \in Frame /\ Keeps(Cur) /\ HashLength \in Nat
      /\ -1 \in -1 .. 255 /\ tail \in BOOLEAN
  BY RunningOwes, EngineAssumption
<1>2. /\ at \in Frame /\ at.eval = Cur.eval /\ Keeps(at)
      /\ Cur.eval = Top.eval /\ Top.eval \in Seq(Item)
  BY <1>1, ReadFrame, KeptDebt, RunningOwes, FrameFields
<1>3. Within
  BY ChargedWithin DEF AppCall, Contract
<1> DEFINE gives == "LoadScript" \in Callbacks
<1>0. CASE ~gives
  <2>1. SetFault(Cur)
    BY <1>0 DEF AppCall
  <2> QED
    BY <1>1, <1>3, <2>1, TopOutcome
<1>4. CASE gives /\ refused
  <2>1. SetFault(at)
    BY <1>4 DEF AppCall
  <2> QED
    BY <1>2, <1>3, <2>1, TopOutcome
<1>5. CASE gives /\ ~refused /\ ~dynamic
  <2>1. Enter(at, Data(Cur, HashLength), FALSE, -1, -1, tail, TRUE)
    BY <1>5 DEF AppCall
  <2>2. Divides(Top.eval, at.eval)
    BY <1>2, DividesAll
  <2> HIDE DEF at, tail
  <2> QED
    BY <1>1, <1>2, <1>3, <2>1, <2>2, EnterOutcome
<1>6. CASE gives /\ ~refused /\ dynamic
  <2>1. popped \in Frame /\ Keeps(popped)
    BY <1>2, <1>6, PoppedFrame, KeptDebt
  <2>2. \/ SetFault(popped)
        \/ Enter(popped, SubSeq(item, 1, HashLength), TRUE, -1, -1, tail, TRUE)
    BY <1>6 DEF AppCall
  <2>3. popped.eval = Front(Top.eval) /\ Top.eval # << >>
    BY <1>2, <1>6 DEF Frame, Context
  <2> HIDE DEF popped, tail, item
  <2>4. Divides(Top.eval, popped.eval)
    BY <1>2, <2>3, DividesFront
  <2> QED
    BY <1>1, <1>3, <2>1, <2>2, <2>4, TopOutcome, EnterOutcome
<1> QED
  BY <1>0, <1>4, <1>5, <1>6

(* SYSCALL.                                                                *)
LEMMA SysCallOutcome ==
  ASSUME Contract, invocation # << >>, SysCall
  PROVE  Outcome
<1> DEFINE at == ReadVarBytes(Cur)
           length == VarLength(Cur)
           readable == CanReadVarBytes(Cur, 252)
           gives == "InvokeInterop" \in Callbacks
           next == IF readable THEN Read(at, length) ELSE at
           left(pops, result) ==
             [Read(at, length) EXCEPT
                !.eval = Kept(Read(at, length).eval, pops) \o result]
<1>1. Cur \in Frame /\ Keeps(Cur) /\ consumedGas \in Gas
  BY RunningOwes DEF Contract, Inv, TypeOK, Gas
<1>2. at \in Frame /\ Keeps(at)
  <2>1. 1 + VarWidth(Cur) \in Nat
    BY DEF VarWidth
  <2> QED
    BY <1>1, <2>1, ReadFrame, KeptDebt DEF ReadVarBytes
<1>3. next \in Frame /\ Keeps(next)
  <2>1. readable => length \in Nat
    BY <1>1, LengthOfMethod
  <2> HIDE DEF at, length, readable
  <2>2. readable => Read(at, length) \in Frame /\ Keeps(Read(at, length))
    BY <1>2, <2>1, ReadFrame, KeptDebt
  <2> QED
    BY <1>2, <2>2
<1>0. CASE ~gives
  <2>1. SetFault(Cur)
    BY <1>0 DEF SysCall
  <2>2. Within
    BY <2>1 DEF SetFault, Leave, Within
  <2> QED
    BY <1>1, <2>1, <2>2, TopOutcome
<1>4. CASE gives /\ (~readable \/ length = 0 \/ ~CanRead(at, length))
  <2>1. SetFault(next)
    BY <1>4 DEF SysCall
  <2>2. Within
    BY <2>1 DEF SetFault, Leave, Within
  <2> HIDE DEF next
  <2> QED
    BY <1>3, <2>1, <2>2, TopOutcome
<1>5. CASE gives /\ readable /\ length # 0 /\ CanRead(at, length)
  <2>1. PICK cost \in HostCosts \cup {0}, ok \in BOOLEAN,
               pops \in 0 .. Len(Cur.eval), result \in DataResults \cup {<< >>} :
          /\ consumedGas' = AddGas(consumedGas, cost)
          /\ Leave(IF cost > 0 /\ ~Affordable(AddGas(consumedGas, cost))
                     THEN "FAULT_BY_GAS"
                   ELSE IF ok \/ state = "FAULT_BY_GAS" THEN state
                   ELSE "FAULT",
                   WithTop(left(pops, result)))
    BY <1>5 DEF SysCall
  <2>2. cost \in Nat
    BY EngineAssumption
  <2>3. Within
    <3>1. CASE cost = 0
      <4>1. GasModulus \in Nat \ {0} /\ consumedGas \in 0 .. (GasModulus - 1)
        BY <1>1, EngineAssumption DEF Gas
      <4>2. (consumedGas + 0) % GasModulus = consumedGas
        BY <4>1
      <4> QED
        BY <2>1, <3>1, <4>2 DEF AddGas, Within
    <3>2. CASE cost > 0 /\ ~Affordable(AddGas(consumedGas, cost))
      BY <2>1, <3>2 DEF Leave, Within
    <3>3. CASE Affordable(AddGas(consumedGas, cost))
      BY <2>1, <3>3 DEF Affordable, Within
    <3> QED
      BY <2>2, <3>1, <3>2, <3>3
  <2>4. invocation' = WithTop(left(pops, result)) /\ UNCHANGED resultStack
    BY <2>1 DEF Leave
  <2>5. GoesOn
    BY <2>1 DEF Leave, GoesOn
  <2>6. left(pops, result) \in Frame /\ Keeps(left(pops, result))
    <3> DEFINE read == Read(at, length)
    <3>1. read \in Frame /\ Keeps(read)
      BY <1>3, <1>5
    <3>2. result \in Seq(Item)
      <4>1. DataResults \subseteq Seq(Item) /\ << >> \in Seq(Item)
        BY EngineAssumption, EmptySeq
      <4> QED
        BY <4>1
    <3>3. pops \in Int /\ pops >= -1
      <4>1. Len(Cur.eval) \in Nat
        BY <1>1, FrameFields
      <4> QED
        BY <4>1
    <3> HIDE DEF at, length
    <3>4. read.eval \in Seq(Item)
      BY <3>1, FrameFields
    <3>5. Kept(read.eval, pops) \o result \in Seq(Item)
      <4> HIDE DEF read
      <4> QED
        BY <3>2, <3>3, <3>4, SendToSplits, ConcatProperties
    <3> QED
      BY <3>1, <3>5, RefilledFrame, KeptDebt
  <2> HIDE DEF left
  <2> QED
    BY <2>3, <2>4, <2>5, <2>6 DEF Outcome, Replaced, Keeps
<1> QED
  BY <1>0, <1>4, <1>5

(* The moves between the stacks of a frame.                                *)
LEMMA StackOpOutcome ==
  ASSUME Contract, invocation # << >>, StackOp
  PROVE  Outcome
<1>1. Keeps(Cur)
  BY RunningOwes
<1>2. Within
  BY ChargedWithin DEF StackOp, Contract
<1>3. PICK c \in Frame : /\ SetFault(c) \/ Continue(c)
                         /\ c.rv = Cur.rv /\ c.due = Cur.due
  BY StackOpFrame DEF Contract
<1> QED
  BY <1>1, <1>2, <1>3, TopOutcome DEF Owes, Keeps

(* THROW.                                                                  *)
LEMMA ThrowOutcome ==
  ASSUME Contract, invocation # << >>, Throw
  PROVE  Outcome
<1>1. Within
  BY ChargedWithin DEF Throw, Contract
<1> QED
  BY <1>1, RunningOwes, TopOutcome DEF Throw

(* THROWIFNOT.                                                             *)
LEMMA ThrowIfNotOutcome ==
  ASSUME Contract, invocation # << >>, ThrowIfNot
  PROVE  Outcome
<1> DEFINE popped == [Cur EXCEPT !.eval = Front(Cur.eval)]
<1>1. Cur \in Frame /\ Keeps(Cur)
  BY RunningOwes
<1>2. Within
  BY ChargedWithin DEF ThrowIfNot, Contract
<1>3. CASE Cur.eval = << >>
  BY <1>1, <1>2, <1>3, TopOutcome DEF ThrowIfNot
<1>4. CASE Cur.eval # << >>
  <2>1. popped \in Frame /\ Keeps(popped)
    BY <1>1, <1>4, PoppedFrame, KeptDebt
  <2>2. Continue(popped) \/ SetFault(popped)
    BY <1>4 DEF ThrowIfNot
  <2> HIDE DEF popped
  <2> QED
    BY <1>2, <2>1, <2>2, TopOutcome
<1> QED
  BY <1>3, <1>4

(* The opcodes that replace items.                                         *)
LEMMA DataOpOutcome ==
  ASSUME Contract, invocation # << >>, DataOp
  PROVE  Outcome
<1>1. Cur \in Frame /\ Keeps(Cur)
  BY RunningOwes
<1>2. Cur.eval \in Seq(Item) /\ Len(Cur.eval) \in Nat
  BY <1>1, FrameFields
<1>3. PICK cost \in DataCosts, pops \in 0 .. Len(Cur.eval),
           result \in DataResults, next \in {state, "FAULT"} :
        /\ consumedGas' = AddGas(consumedGas, cost)
        /\ Leave(IF Affordable(AddGas(consumedGas, cost)) THEN next
                                                          ELSE "FAULT_BY_GAS",
                 WithTop([Cur EXCEPT !.eval = Kept(Cur.eval, pops) \o result]))
  BY DEF DataOp
<1> DEFINE left == [Cur EXCEPT !.eval = Kept(Cur.eval, pops) \o result]
<1>4. result \in Seq(Item) /\ pops \in Int /\ pops >= -1
  BY <1>2, EngineAssumption
<1>5. Kept(Cur.eval, pops) \o result \in Seq(Item)
  BY <1>2, <1>4, SendToSplits, ConcatProperties
<1>6. left \in Frame /\ Keeps(left)
  BY <1>1, <1>5, RefilledFrame, KeptDebt
<1>7. invocation' = WithTop(left) /\ UNCHANGED resultStack
  BY <1>3 DEF Leave
<1>8. Within
  BY <1>3 DEF Affordable, Leave, Within
<1>9. GoesOn
  BY <1>3 DEF Leave, GoesOn
<1> HIDE DEF left
<1> QED
  BY <1>6, <1>7, <1>8, <1>9 DEF Outcome, Replaced, Keeps

(* Every instruction has one of the outcomes.                              *)
LEMMA InstructionOutcome ==
  ASSUME Contract, invocation # << >>, InternalStepInto
  PROVE  Outcome
<1>1. \/ OutOfGas \/ Push \/ PushBytes \/ PushData124
      \/ Nop \/ Jmp \/ JmpIf \/ Call \/ CallI \/ Ret
      \/ CallE \/ AppCall \/ SysCall
      \/ StackOp \/ Throw \/ ThrowIfNot \/ DataOp
  BY DEF InternalStepInto
<1> QED
  BY <1>1, OutOfGasOutcome, PushOutcome, PushBytesOutcome, PushData124Outcome,
     NopOutcome, JmpOutcome, JmpIfOutcome, CallOutcome, CallIOutcome,
     RetOutcome, CallEOutcome, AppCallOutcome, SysCallOutcome, StackOpOutcome,
     ThrowOutcome, ThrowIfNotOutcome, DataOpOutcome
----------------------------------------------------------------------------
(* What the outcomes mean for the frames, one by one.                      *)

LEMMA FramesByIndex ==
  ASSUME Inv, invocation # << >>
  PROVE  /\ invocation \in Seq(Frame) /\ Len(invocation) \in Nat \ {0}
         /\ Len(Front(invocation)) = Len(invocation) - 1
         /\ \A i \in 1 .. (Len(invocation) - 1) :
              Front(invocation)[i] = invocation[i]
         /\ \A c \in Frame :
              /\ WithTop(c) \in Seq(Frame)
              /\ Len(WithTop(c)) = Len(invocation)
              /\ WithTop(c)[Len(invocation)] = c
              /\ \A i \in 1 .. (Len(invocation) - 1) :
                   WithTop(c)[i] = invocation[i]
<1>1. invocation \in Seq(Frame) /\ Len(invocation) \in Nat \ {0}
  BY FramesOfInv, RunningFrame
<1>2. /\ Front(invocation) \in Seq(Frame)
      /\ Len(Front(invocation)) = Len(invocation) - 1
      /\ \A i \in 1 .. (Len(invocation) - 1) :
           Front(invocation)[i] = invocation[i]
  BY <1>1, FrontByIndex
<1>3. ASSUME NEW c \in Frame
      PROVE  /\ WithTop(c) \in Seq(Frame)
             /\ Len(WithTop(c)) = Len(invocation)
             /\ WithTop(c)[Len(invocation)] = c
             /\ \A i \in 1 .. (Len(invocation) - 1) :
                  WithTop(c)[i] = invocation[i]
  BY <1>1, <1>2, AppendProperties DEF WithTop
<1> QED
  BY <1>1, <1>2, <1>3

(* The frames after the top one is replaced.                               *)
LEMMA ReplacedFrames ==
  ASSUME Inv, invocation # << >>, NEW c \in Frame, Replaced(c)
  PROVE  /\ Len(invocation') = Len(invocation)
         /\ invocation'[Len(invocation)] = c
         /\ \A i \in 1 .. (Len(invocation) - 1) : invocation'[i] = invocation[i]
BY FramesByIndex DEF Replaced

(* The frames after a call.                                                *)
LEMMA PushedFrames ==
  ASSUME Inv, invocation # << >>, NEW c \in Frame, NEW new \in Frame,
         Pushed(c, new)
  PROVE  /\ Len(invocation') = Len(invocation) + 1
         /\ invocation'[Len(invocation)] = c
         /\ invocation'[Len(invocation) + 1] = new
         /\ \A i \in 1 .. (Len(invocation) - 1) : invocation'[i] = invocation[i]
<1>1. /\ WithTop(c) \in Seq(Frame) /\ Len(WithTop(c)) = Len(invocation)
      /\ WithTop(c)[Len(invocation)] = c /\ Len(invocation) \in Nat \ {0}
      /\ \A i \in 1 .. (Len(invocation) - 1) : WithTop(c)[i] = invocation[i]
  BY FramesByIndex
<1>2. invocation' = Append(WithTop(c), new)
  BY DEF Pushed
<1>3. /\ Len(invocation') = Len(WithTop(c)) + 1
      /\ invocation'[Len(WithTop(c)) + 1] = new
      /\ \A i \in 1 .. Len(WithTop(c)) : invocation'[i] = WithTop(c)[i]
  BY <1>1, <1>2, AppendProperties
<1> QED
  BY <1>1, <1>3

(* The frames after the top one is dropped.                                *)
LEMMA DroppedFrames ==
  ASSUME Inv, invocation # << >>, Dropped
  PROVE  /\ Len(invocation') = Len(invocation) - 1
         /\ \A i \in 1 .. (Len(invocation) - 1) : invocation'[i] = invocation[i]
BY FramesByIndex DEF Dropped

(* A frame that returns delivers to the frame below, and to no other.      *)
LEMMA ReturnedFrames ==
  ASSUME Inv, invocation # << >>, Returned
  PROVE  /\ Len(invocation') = Len(invocation) - 1
         /\ \A i \in 1 .. (Len(invocation) - 2) : invocation'[i] = invocation[i]
         /\ IF Len(invocation) = 1
            THEN resultStack' = resultStack \o Sent(Top.eval, Top.due)
            ELSE LET below == invocation[Len(invocation) - 1] IN
                 invocation'[Len(invocation) - 1] =
                   [below EXCEPT !.eval = @ \o Sent(Top.eval, Top.due)]
<1> DEFINE below == Front(invocation)
           due == Sent(Top.eval, Top.due)
<1>1. /\ invocation \in Seq(Frame) /\ Len(invocation) \in Nat \ {0}
      /\ Len(below) = Len(invocation) - 1
      /\ \A i \in 1 .. (Len(invocation) - 1) : below[i] = invocation[i]
      /\ below \in Seq(Frame)
  BY FramesByIndex, RunningFrame
<1>2. CASE Len(invocation) = 1
  <2>1. below = << >>
    BY <1>1, <1>2, EmptySeq
  <2>2. invocation' = << >> /\ resultStack' = resultStack \o due
    BY <2>1 DEF Returned, Deliver
  <2> QED
    BY <1>2, <2>2
<1>3. CASE Len(invocation) # 1
  <2> DEFINE got == [Last(below) EXCEPT !.eval = Last(below).eval \o due]
  <2>1. below # << >> /\ Len(below) \in Nat \ {0}
    BY <1>1, <1>3, EmptySeq
  <2>2. invocation' = Append(Front(below), got)
    BY <2>1 DEF Returned, Deliver
  <2>3. Last(below) = invocation[Len(invocation) - 1]
    BY <1>1, <2>1 DEF Last
  <2>4. /\ Front(below) \in Seq(Frame) /\ Len(Front(below)) = Len(below) - 1
        /\ \A i \in 1 .. (Len(below) - 1) : Front(below)[i] = below[i]
    BY <1>1, <2>1, FrontByIndex
  <2>5. Len(invocation) - 2 = Len(below) - 1
    BY <1>1
  <2> HIDE DEF below, got
  <2>6. /\ Len(invocation') = Len(below)
        /\ invocation'[Len(below)] = got
        /\ \A i \in 1 .. (Len(below) - 1) : invocation'[i] = Front(below)[i]
    BY <2>1, <2>2, <2>4
  <2>7. \A i \in 1 .. (Len(invocation) - 2) : invocation'[i] = invocation[i]
    BY <1>1, <2>4, <2>5, <2>6
  <2> QED
    BY <1>1, <1>3, <2>3, <2>6, <2>7 DEF got
<1> QED
  BY <1>2, <1>3

(* The host adds a frame that owes what it asks for, or takes all away.    *)
LEMMA HostFrames ==
  ASSUME Inv, Host
  PROVE  /\ running = Idle
         /\ \/ invocation' = invocation
            \/ invocation' = << >>
            \/ \E c \in Frame : Owes(c) /\ invocation' = Append(invocation, c)
<1>1. EntryScripts \subseteq Seq(Byte) /\ scripts \in Seq(Seq(Byte))
  BY EngineAssumption DEF Inv, TypeOK
<1>2. ASSUME NEW s \in Seq(Byte), NEW rvcount \in RvCounts
      PROVE  /\ NewContext(s, 0, rvcount) \in Frame
             /\ Owes(NewContext(s, 0, rvcount))
  <2>1. 0 \in Nat /\ 0 <= Len(s) /\ rvcount \in -1 .. 255
    BY EngineAssumption
  <2> QED
    BY <2>1, NewContextIsFrame DEF NewContext, Owes
<1>3. ASSUME NEW s \in EntryScripts, NEW rvcount \in RvCounts,
             LoadScript(s, rvcount)
      PROVE  \E c \in Frame : Owes(c) /\ invocation' = Append(invocation, c)
  BY <1>1, <1>2, <1>3 DEF LoadScript
<1>4. ASSUME NEW index \in 0 .. (2 * IndexModulus - 1), NEW rvcount \in RvCounts,
             LoadCachedScript(index, rvcount)
      PROVE  \/ invocation' = invocation
             \/ \E c \in Frame : Owes(c) /\ invocation' = Append(invocation, c)
  <2> DEFINE at == index % IndexModulus
  <2>1. at \in Nat
    BY EngineAssumption
  <2>2. CASE at < Len(scripts)
    <3>1. scripts[at + 1] \in Seq(Byte)
      <4> HIDE DEF at
      <4>1. at + 1 \in 1 .. Len(scripts)
        BY <1>1, <2>1, <2>2
      <4> QED
        BY <1>1, <4>1, ElementOfSeq
    <3>2. invocation' = Append(invocation,
                              NewContext(scripts[at + 1], 0, rvcount))
      BY <1>4, <2>2 DEF LoadCachedScript
    <3> HIDE DEF at
    <3> QED
      BY <1>2, <3>1, <3>2
  <2>3. CASE ~(at < Len(scripts))
    BY <1>4, <2>3 DEF LoadCachedScript
  <2> QED
    BY <2>2, <2>3
<1>5. running = Idle
  BY DEF Host, HostCall, LoadScript, LoadCachedScript, IncreaseGas, Clean,
         Execute, Step
<1>6. CASE Clean
  BY <1>5, <1>6 DEF Clean
<1>7. ASSUME NEW cost \in HostCosts, IncreaseGas(cost)
      PROVE  invocation' = invocation
  BY <1>7 DEF IncreaseGas
<1>8. ASSUME NEW gas \in GasLimits, Execute(gas)
      PROVE  invocation' = invocation
  BY <1>8 DEF Execute
<1>9. ASSUME NEW api \in {"StepInto", "StepOver", "StepOut"}, Step(api)
      PROVE  invocation' = invocation
  BY <1>9 DEF Step
<1> QED
  BY <1>3, <1>4, <1>5, <1>6, <1>7, <1>8, <1>9 DEF Host
----------------------------------------------------------------------------
(* The theorems.                                                           *)

LEMMA ContractKept ==
  ASSUME Contract, [Next]_vars
  PROVE  ResultContract'
<1>1. Inv /\ ResultContract
  BY DEF Contract
<1>2. invocation \in Seq(Frame) /\ Len(invocation) \in Nat
  BY <1>1, FramesOfInv
<1>3. \A i \in 1 .. Len(invocation) : Owes(invocation[i])
  BY <1>1 DEF ResultContract, Owes
<1>4. SUFFICES \A i \in 1 .. Len(invocation') : Owes(invocation'[i])
  BY DEF ResultContract, Owes
<1>5. CASE invocation # << >> /\ InternalStepInto
  <2>1. Len(invocation) \in Nat \ {0}
    BY <1>1, <1>5, RunningFrame
  <2>2. ASSUME NEW c \in Frame, Replaced(c)
        PROVE  \A i \in 1 .. Len(invocation') : Owes(invocation'[i])
    BY <1>1, <1>3, <1>5, <2>1, <2>2, ReplacedFrames DEF Replaced
  <2>3. ASSUME NEW c \in Frame, NEW new \in Frame, Pushed(c, new)
        PROVE  \A i \in 1 .. Len(invocation') : Owes(invocation'[i])
    <3>1. Owes(c) /\ Owes(new)
      BY <2>3 DEF Pushed
    <3> QED
      BY <1>1, <1>3, <1>5, <2>1, <2>3, <3>1, PushedFrames
  <2>4. CASE Dropped
    BY <1>1, <1>3, <1>5, <2>1, <2>4, DroppedFrames
  <2>5. CASE Returned
    <3> DEFINE below == invocation[Len(invocation) - 1]
               got == [below EXCEPT !.eval = @ \o Sent(Top.eval, Top.due)]
    <3>1. CASE Len(invocation) = 1
      BY <1>1, <1>5, <2>5, <3>1, ReturnedFrames
    <3>2. CASE Len(invocation) # 1
      <4>1. Len(invocation) - 1 \in 1 .. Len(invocation)
        <5>1. \A n \in Nat \ {0} : n # 1 => n - 1 \in 1 .. n
          OBVIOUS
        <5> QED
          BY <2>1, <3>2, <5>1
      <4>2. below \in Frame /\ Owes(below)
        BY <1>2, <1>3, <4>1, ElementOfSeq
      <4>3. Owes(got)
        <5> HIDE DEF below
        <5> QED
          BY <4>2, SameDebt
      <4>4. /\ Len(invocation') = Len(invocation) - 1
            /\ invocation'[Len(invocation) - 1] = got
            /\ \A i \in 1 .. (Len(invocation) - 2) :
                 invocation'[i] = invocation[i]
        BY <1>1, <1>5, <2>5, <3>2, ReturnedFrames
      <4> HIDE DEF got
      <4> QED
        BY <1>3, <2>1, <4>3, <4>4
    <3> QED
      BY <3>1, <3>2
  <2> QED
    BY <1>5, <2>2, <2>3, <2>4, <2>5, InstructionOutcome DEF Outcome
<1>6. CASE invocation = << >> /\ InternalStepInto
  BY <1>3, <1>6 DEF InternalStepInto, NoContext
<1>7. CASE Host
  <2>1. ASSUME NEW c \in Frame, Owes(c), invocation' = Append(invocation, c)
        PROVE  \A i \in 1 .. Len(invocation') : Owes(invocation'[i])
    BY <1>2, <1>3, <2>1, AppendProperties
  <2>2. invocation' = << >> =>
          \A i \in 1 .. Len(invocation') : Owes(invocation'[i])
    OBVIOUS
  <2> QED
    BY <1>1, <1>3, <1>7, <2>1, <2>2, HostFrames
<1>8. CASE UNCHANGED vars
  BY <1>3, <1>8 DEF vars
<1> QED
  BY <1>5, <1>6, <1>7, <1>8 DEF Next

(* NEP8: every frame is bound to deliver the number of results that the    *)
(* call which led to it asked for, through any number of tail calls.       *)
THEOREM ResultsAsAsked == Spec => []ResultContract
<1>1. Init => ResultContract
  BY DEF Init, ResultContract
<1>2. Inv /\ ResultContract /\ [Next]_vars => ResultContract'
  BY ContractKept DEF Contract
<1> QED
  BY <1>1, <1>2, InvInvariant, PTL DEF Spec

(* Gas is never spent beyond the limit by an engine that goes on or halts, *)
(* the second charge of CALL and what the host charges included.           *)
THEOREM GasWithinLimit == Spec => GasBudget
<1> DEFINE Budget == consumedGas' > consumedGas /\ state' \in {"NONE", "HALT"}
                       => consumedGas' <= maxGas'
<1>1. ASSUME Contract, [Next]_vars PROVE Budget
  <2>1. consumedGas \in Nat /\ state \in EVMState
    BY <1>1 DEF Contract, Inv, TypeOK
  <2>2. CASE invocation # << >> /\ InternalStepInto
    <3>1. Within
      BY <1>1, <2>2, InstructionOutcome DEF Outcome
    <3>2. maxGas' = maxGas
      BY <2>2 DEF InternalStepInto
    <3> QED
      BY <2>1, <3>1, <3>2 DEF Within
  <2>3. CASE invocation = << >> /\ InternalStepInto
    BY <2>1, <2>3 DEF InternalStepInto, NoContext
  <2>4. CASE Host
    <3>1. ASSUME NEW cost \in HostCosts, IncreaseGas(cost) PROVE Budget
      BY <3>1 DEF IncreaseGas, Affordable
    <3>2. CASE Clean
      BY <2>1, <3>2 DEF Clean
    <3>3. CASE consumedGas' = consumedGas
      BY <2>1, <3>3
    <3> QED
      BY <2>4, <3>1, <3>2, <3>3
         DEF Host, LoadScript, LoadCachedScript, Execute, Step
  <2>5. CASE UNCHANGED vars
    BY <2>1, <2>5 DEF vars
  <2> QED
    BY <1>1, <2>2, <2>3, <2>4, <2>5 DEF Next
<1>2. Inv /\ ResultContract /\ [Next]_vars => [Budget]_vars
  BY <1>1 DEF Contract
<1> QED
  BY <1>2, InvInvariant, ResultsAsAsked, PTL DEF Spec, GasBudget

(* No instruction but CALL_E and its variants makes the invocation stack   *)
(* deeper than its limit and lets the engine go on.                        *)
THEOREM NestingWithinLimit == Spec => NestingBound
<1> DEFINE Others == Byte \ (CALL_E .. CALL_EDT)
<1>1. ASSUME Contract, [Next]_vars, GoesTooDeep(Others) PROVE FALSE
  <2>1. /\ running # Idle /\ invocation # << >> /\ Opcode \in Others
        /\ Len(invocation') > Len(invocation) /\ state' = "NONE"
        /\ Len(invocation') > MaxInvocation
    BY <1>1 DEF GoesTooDeep
  <2>2. Inv /\ Len(invocation) \in Nat \ {0} /\ MaxInvocation \in Nat
    BY <1>1, <2>1, RunningFrame, EngineAssumption DEF Contract
  <2>3. CASE InternalStepInto
    <3>1. Outcome
      BY <1>1, <2>1, <2>3, InstructionOutcome
    <3>2. ASSUME NEW c \in Frame, Replaced(c) PROVE FALSE
      BY <2>1, <2>2, <3>2, ReplacedFrames
    <3>3. ASSUME NEW c \in Frame, NEW new \in Frame, Pushed(c, new) PROVE FALSE
      <4>1. Len(invocation) < MaxInvocation
        BY <2>1, <3>3 DEF Pushed
      <4>2. Len(invocation') = Len(invocation) + 1
        BY <2>1, <2>2, <3>3, PushedFrames
      <4> QED
        BY <2>1, <2>2, <4>1, <4>2
    <3>4. CASE Dropped
      BY <2>1, <2>2, <3>4, DroppedFrames
    <3>5. CASE Returned
      BY <2>1, <2>2, <3>5, ReturnedFrames
    <3> QED
      BY <3>1, <3>2, <3>3, <3>4, <3>5 DEF Outcome
  <2>4. CASE Host
    BY <2>1, <2>2, <2>4, HostFrames
  <2>5. CASE UNCHANGED vars
    BY <2>1, <2>2, <2>5 DEF vars
  <2> QED
    BY <1>1, <2>3, <2>4, <2>5 DEF Next
<1>2. Inv /\ ResultContract /\ [Next]_vars => [~GoesTooDeep(Others)]_vars
  BY <1>1 DEF Contract
<1> QED
  BY <1>2, InvInvariant, ResultsAsAsked, PTL DEF Spec, NestingBound

(* What may become of the suspended frame i.                               *)
Isolated(i) ==
  /\ IsPrefix(invocation[i].eval, invocation'[i].eval)
  /\ invocation'[i] = [invocation[i] EXCEPT !.eval = invocation'[i].eval]
  /\ i < Len(invocation') => invocation'[i] = invocation[i]

(* A frame that does not change is isolated.                               *)
LEMMA SameIsIsolated ==
  ASSUME NEW i, invocation[i] \in Frame, invocation'[i] = invocation[i]
  PROVE  Isolated(i)
<1> DEFINE c == invocation[i]
<1>1. c.eval \in Seq(Item)
  BY FrameFields
<1>2. IsPrefix(c.eval, c.eval)
  BY <1>1, ConcatPrefix
<1>3. c = [c EXCEPT !.eval = c.eval]
  BY DEF Frame, Context
<1> QED
  BY <1>2, <1>3 DEF Isolated

(* Every step leaves the frames below the running one alone, but for the   *)
(* results of a RET.                                                       *)
LEMMA StepIsolates ==
  ASSUME Contract, [Next]_vars,
         NEW i \in 1 .. (Len(invocation) - 1), i \in DOMAIN invocation'
  PROVE  Isolated(i)
<1>1. Inv /\ invocation \in Seq(Frame) /\ Len(invocation) \in Nat
  BY FramesOfInv DEF Contract
<1>2. i \in 1 .. Len(invocation) /\ i \in Nat /\ Len(invocation) # 0
  BY <1>1
<1>3. invocation[i] \in Frame /\ invocation # << >>
  BY <1>1, <1>2, ElementOfSeq
<1>4. SUFFICES ASSUME invocation'[i] # invocation[i] PROVE Isolated(i)
  BY <1>3, SameIsIsolated
<1>5. CASE InternalStepInto
  <2>1. Outcome
    BY <1>3, <1>5, InstructionOutcome
  <2>2. ASSUME NEW c \in Frame, Replaced(c) PROVE FALSE
    BY <1>1, <1>3, <1>4, <2>2, ReplacedFrames
  <2>3. ASSUME NEW c \in Frame, NEW new \in Frame, Pushed(c, new) PROVE FALSE
    BY <1>1, <1>3, <1>4, <2>3, PushedFrames
  <2>4. ASSUME Dropped PROVE FALSE
    BY <1>1, <1>3, <1>4, <2>4, DroppedFrames
  <2>5. CASE Returned
    <3> DEFINE below == invocation[i]
               due == Sent(Top.eval, Top.due)
               got == [below EXCEPT !.eval = below.eval \o due]
    <3>1. Len(invocation) # 1
      BY <1>1
    <3>2. /\ Len(invocation') = Len(invocation) - 1
          /\ \A j \in 1 .. (Len(invocation) - 2) : invocation'[j] = invocation[j]
          /\ invocation'[Len(invocation) - 1] =
               [invocation[Len(invocation) - 1] EXCEPT
                  !.eval = invocation[Len(invocation) - 1].eval \o due]
      BY <1>1, <1>3, <2>5, <3>1, ReturnedFrames
    <3>3. i = Len(invocation) - 1
      <4>1. i \notin 1 .. (Len(invocation) - 2)
        BY <1>4, <3>2
      <4> QED
        BY <1>1, <4>1
    <3>4. invocation'[i] = got
      BY <3>2, <3>3
    <3>5. below.eval \in Seq(Item) /\ due \in Seq(Item)
      <4>1. Top \in Frame /\ Top.eval \in Seq(Item) /\ Top.due \in -1 .. 255
        BY <1>1, <1>3, RunningFrame, FrameFields
      <4>2. Top.due \in Int /\ Top.due >= -1
        BY <4>1, \A n \in -1 .. 255 : n \in Int /\ n >= -1
      <4> QED
        BY <1>3, <4>1, <4>2, FrameFields, SendToSplits
    <3>6. got.eval = below.eval \o due
      BY <1>3 DEF Frame, Context
    <3>7. IsPrefix(below.eval, got.eval)
      BY <3>5, <3>6, ConcatPrefix
    <3>8. got = [below EXCEPT !.eval = got.eval]
      BY <3>6
    <3>9. ~(i < Len(invocation'))
      BY <1>1, <3>2, <3>3
    <3> HIDE DEF got
    <3> QED
      BY <3>4, <3>7, <3>8, <3>9 DEF Isolated
  <2> QED
    BY <2>1, <2>2, <2>3, <2>4, <2>5 DEF Outcome
<1>6. CASE Host
  <2>1. ASSUME NEW c \in Frame, invocation' = Append(invocation, c) PROVE FALSE
    BY <1>1, <1>2, <1>4, <2>1, AppendProperties
  <2>2. invocation' # << >>
    OBVIOUS
  <2> QED
    BY <1>1, <1>4, <1>6, <2>1, <2>2, HostFrames
<1>7. CASE UNCHANGED vars
  BY <1>4, <1>7 DEF vars
<1> QED
  BY <1>5, <1>6, <1>7 DEF Next

(* A suspended frame stays as it is until it is on top again, and all that *)
(* a RET does to it is to add results.                                     *)
THEOREM SuspendedFramesIsolated == Spec => StackIsolation
<1> DEFINE Isolation ==
      \A i \in 1 .. (Len(invocation) - 1) : i \in DOMAIN invocation' =>
       /\ IsPrefix(invocation[i].eval, invocation'[i].eval)
       /\ invocation'[i] = [invocation[i] EXCEPT !.eval = invocation'[i].eval]
       /\ i < Len(invocation') => invocation'[i] = invocation[i]
<1>1. Inv /\ ResultContract /\ [Next]_vars => [Isolation]_vars
  <2> SUFFICES ASSUME Inv, ResultContract, [Next]_vars PROVE Isolation
    OBVIOUS
  <2>1. Contract
    BY DEF Contract
  <2> QED
    BY <2>1, StepIsolates DEF Isolated
<1> QED
  BY <1>1, InvInvariant, ResultsAsAsked, PTL DEF Spec, StackIsolation

(* A frame that ends without a fault delivers what was asked for, from the *)
(* top of its stack and in order, to the frame below or to ResultStack.    *)
THEOREM ReturnsDeliver == Spec => ReturnDelivers
<1> DEFINE Delivered ==
      Len(invocation') < Len(invocation) /\ state' # "FAULT" /\ running # Idle
       => LET due == Sent(Top.eval, Top.due) IN
          IF Len(invocation) = 1
          THEN resultStack' = resultStack \o due
          ELSE Last(invocation').eval =
                 invocation[Len(invocation) - 1].eval \o due
<1>1. ASSUME Contract, [Next]_vars PROVE Delivered
  <2>1. Inv /\ invocation \in Seq(Frame) /\ Len(invocation) \in Nat
    BY <1>1, FramesOfInv DEF Contract
  <2>2. SUFFICES ASSUME Len(invocation') < Len(invocation), state' # "FAULT",
                        running # Idle
                 PROVE  Delivered
    OBVIOUS
  <2>3. ~Host
    BY <2>1, <2>2, HostFrames
  <2>4. ~UNCHANGED vars
    BY <2>1, <2>2 DEF vars
  <2>5. InternalStepInto
    BY <1>1, <2>3, <2>4 DEF Next
  <2>6. invocation # << >>
    BY <2>1, <2>2, <2>5 DEF InternalStepInto, NoContext
  <2>7. Outcome
    BY <1>1, <2>5, <2>6, InstructionOutcome
  <2>8. ASSUME NEW c \in Frame, Replaced(c) PROVE FALSE
    BY <2>1, <2>2, <2>6, <2>8, ReplacedFrames
  <2>9. ASSUME NEW c \in Frame, NEW new \in Frame, Pushed(c, new) PROVE FALSE
    BY <2>1, <2>2, <2>6, <2>9, PushedFrames
  <2>10. Returned
    BY <2>2, <2>7, <2>8, <2>9 DEF Outcome, Dropped
  <2>11. CASE Len(invocation) = 1
    BY <2>1, <2>6, <2>10, <2>11, ReturnedFrames
  <2>12. CASE Len(invocation) # 1
    <3> DEFINE below == invocation[Len(invocation) - 1]
               due == Sent(Top.eval, Top.due)
    <3>1. /\ Len(invocation') = Len(invocation) - 1
          /\ invocation'[Len(invocation) - 1] =
               [below EXCEPT !.eval = below.eval \o due]
      BY <2>1, <2>6, <2>10, <2>12, ReturnedFrames
    <3>2. Len(invocation) - 1 \in 1 .. Len(invocation)
      <4>1. Len(invocation) # 0
        BY <2>1, <2>6, EmptySeq
      <4> QED
        BY <2>1, <2>12, <4>1, \A n \in Nat : n \notin {0, 1} => n - 1 \in 1 .. n
    <3>3. below \in Frame
      BY <2>1, <3>2, ElementOfSeq
    <3>4. Last(invocation') = [below EXCEPT !.eval = below.eval \o due]
      BY <3>1 DEF Last
    <3>5. Last(invocation').eval = below.eval \o due
      <4> HIDE DEF below, due
      <4> QED
        BY <3>3, <3>4 DEF Frame, Context
    <3> QED
      BY <2>12, <3>5
  <2> QED
    BY <2>11, <2>12
<1>2. Inv /\ ResultContract /\ [Next]_vars => [Delivered]_vars
  BY <1>1 DEF Contract
<1> QED
  BY <1>2, InvInvariant, ResultsAsAsked, PTL DEF Spec, ReturnDelivers

----------------------------------------------------------------------------
(* The engine implements the machine that calls and returns: each outcome  *)
(* of an instruction, and each call of the host, is one of the machine's   *)
(* steps or none.                                                          *)

Account == [owes : -1 .. 255, items : Seq(Item)]

DebtsOf(s) == [i \in DOMAIN s |-> Debt(s[i])]

(* The machine's frames, one by one.                                       *)
LEMMA DebtsByIndex ==
  ASSUME NEW s \in Seq(Frame)
  PROVE  /\ DebtsOf(s) \in Seq(Account) /\ Len(DebtsOf(s)) = Len(s)
         /\ \A i \in 1 .. Len(s) : DebtsOf(s)[i] = Debt(s[i])
<1> DEFINE d == [i \in DOMAIN s |-> Debt(s[i])]
<1>1. DOMAIN s = 1 .. Len(s) /\ Len(s) \in Nat
  BY LenProperties
<1>2. \A i \in 1 .. Len(s) : Debt(s[i]) \in Account
  <2> TAKE i \in 1 .. Len(s)
  <2>1. s[i] \in Frame
    BY ElementOfSeq
  <2>2. s[i].due \in -1 .. 255 /\ s[i].eval \in Seq(Item)
    BY <2>1, FrameFields
  <2> QED
    BY <2>2 DEF Debt, Account
<1>3. d \in [1 .. Len(s) -> Account]
  BY <1>1, <1>2
<1>4. d \in Seq(Account)
  BY <1>1, <1>3, SeqDef
<1>5. Len(d) = Len(s)
  BY <1>1, <1>4, LenProperties
<1> QED
  BY <1>1, <1>4, <1>5 DEF DebtsOf

(* What a list of frames comes to before and after a step.                 *)
Accounts(s, d) ==
  /\ s \in Seq(Frame) /\ Len(s) \in Nat
  /\ d \in Seq(Account) /\ Len(d) = Len(s)
  /\ \A i \in 1 .. Len(s) : d[i] = Debt(s[i])

(* The frames' debts are the machine's.                                    *)
LEMMA FramesOfMachine ==
  ASSUME Inv, Inv'
  PROVE  Accounts(invocation, Debts) /\ Accounts(invocation', Debts')
<1> DEFINE Framed == Inv => invocation \in Seq(Frame)
<1>a. Framed
  BY FramesOfInv
<1>b. Framed'
  BY FramesOfInv, PTL
<1>1. invocation \in Seq(Frame) /\ invocation' \in Seq(Frame)
  BY <1>a, <1>b
<1>2. Len(invocation) \in Nat /\ Len(invocation') \in Nat
  BY <1>1, LenProperties
<1>3. Debts = DebtsOf(invocation) /\ Debts' = DebtsOf(invocation')
  BY DEF Debts, DebtsOf
<1>4. Accounts(invocation, Debts)
  BY <1>1, <1>2, <1>3, DebtsByIndex DEF Accounts
<1>5. Accounts(invocation', Debts')
  BY <1>1, <1>2, <1>3, DebtsByIndex DEF Accounts
<1> QED
  BY <1>4, <1>5

(* The two faults are one to the machine.                                  *)
LEMMA StatusFollows ==
  /\ GoesOn => Status' \in {Status, "FAULT"}
  /\ UNCHANGED state => UNCHANGED Status
  /\ state' \in {"FAULT", "FAULT_BY_GAS"} => Status' = "FAULT"
  /\ state' \in {"NONE", "HALT"} => Status' = state'
BY DEF Status, GoesOn

(* The running frame's account is the machine's last.                      *)
LEMMA RunningAccount ==
  ASSUME Inv, Inv', invocation # << >>
  PROVE  /\ Debts # << >> /\ Len(Debts) = Len(invocation)
         /\ Len(invocation) \in Nat \ {0}
         /\ Machine!Running = Debt(Top) /\ Debts[Len(invocation)] = Debt(Top)
<1>1. Accounts(invocation, Debts) /\ Len(invocation) \in Nat \ {0}
  BY FramesOfMachine, RunningFrame
<1>2. Len(Debts) = Len(invocation) /\ Debts # << >>
  BY <1>1, EmptySeq DEF Accounts
<1>3. Debts[Len(invocation)] = Debt(invocation[Len(invocation)])
  BY <1>1 DEF Accounts
<1> QED
  BY <1>1, <1>2, <1>3 DEF Machine!Running, Machine!Last, Top, Last

(* Both modules mean the same by handing over items.                       *)
LEMMA SameHandsOver ==
  ASSUME NEW items, NEW kept, NEW given
  PROVE  HandsOver(items, kept, given) <=> Machine!HandsOver(items, kept, given)
BY DEF HandsOver, IsPrefix, Machine!HandsOver, Machine!IsPrefix

(* What is suspended stays so.                                             *)
LEMMA SuspendedBelow ==
  ASSUME Inv, Inv', NEW n \in Nat, n <= Len(invocation) + 1,
         n <= Len(invocation') + 1,
         \A i \in 1 .. (n - 1) : invocation'[i] = invocation[i]
  PROVE  Machine!Suspended(n)
<1>1. Accounts(invocation, Debts) /\ Accounts(invocation', Debts')
  BY FramesOfMachine
<1>2. \A i \in 1 .. (n - 1) : Debts'[i] = Debts[i]
  BY <1>1 DEF Accounts
<1>3. Len(Debts') >= n - 1
  BY <1>1 DEF Accounts
<1> QED
  BY <1>2, <1>3 DEF Machine!Suspended
----------------------------------------------------------------------------
(* One lemma for each outcome of an instruction.                           *)

LEMMA ReplacedIsWork ==
  ASSUME Inv, Inv', invocation # << >>, NEW c \in Frame,
         Replaced(c), Keeps(c), GoesOn, UNCHANGED resultStack
  PROVE  Machine!Work
<1>1. /\ Debts # << >> /\ Len(Debts) = Len(invocation)
      /\ Len(invocation) \in Nat \ {0} /\ Machine!Running = Debt(Top)
  BY RunningAccount
<1>2. /\ Len(invocation') = Len(invocation)
      /\ invocation'[Len(invocation)] = c
      /\ \A i \in 1 .. (Len(invocation) - 1) : invocation'[i] = invocation[i]
  BY ReplacedFrames
<1>3. Machine!Suspended(Len(invocation))
  BY <1>1, <1>2, SuspendedBelow
<1>4. Len(Debts') = Len(invocation) /\ Debts'[Len(invocation)] = Debt(c)
  BY <1>1, <1>2, FramesOfMachine DEF Accounts
<1>5. Debts'[Len(Debts')].owes = Machine!Running.owes
  BY <1>1, <1>4 DEF Debt, Keeps
<1>6. Machine!GoesOn
  BY StatusFollows DEF Machine!GoesOn
<1> QED
  BY <1>1, <1>3, <1>4, <1>5, <1>6 DEF Machine!Work, Machine!Last

(* A top frame that is replaced by one with its debt is a tail call of the *)
(* machine.                                                                *)
LEMMA ReplacedIsTailCall ==
  ASSUME Inv, Inv', invocation # << >>, NEW c \in Frame,
         Replaced(c), Substitutes(c), UNCHANGED resultStack
  PROVE  Machine!TailCall
<1>1. /\ Debts # << >> /\ Len(Debts) = Len(invocation)
      /\ Len(invocation) \in Nat \ {0} /\ Machine!Running = Debt(Top)
  BY RunningAccount
<1>2. /\ Len(invocation') = Len(invocation)
      /\ invocation'[Len(invocation)] = c
      /\ \A i \in 1 .. (Len(invocation) - 1) : invocation'[i] = invocation[i]
  BY ReplacedFrames
<1>3. Machine!Suspended(Len(invocation))
  BY <1>1, <1>2, SuspendedBelow
<1>4. Len(Debts') = Len(invocation) /\ Debts'[Len(Debts')] = Debt(c)
  BY <1>1, <1>2, FramesOfMachine DEF Accounts, Last
<1>5. Debts'[Len(Debts')].owes \in {Machine!Running.owes, Machine!All}
  BY <1>1, <1>4 DEF Debt, Substitutes, Machine!All
<1>6. \E n \in 0 .. Len(Machine!Running.items) :
        Machine!HandsOver(Machine!Running.items,
                          SubSeq(Machine!Running.items, 1, n), Debts'[Len(Debts')].items)
  BY <1>1, <1>4, SameHandsOver DEF Debt, Substitutes
<1>7. UNCHANGED Status
  BY StatusFollows DEF Substitutes
<1> QED
  BY <1>1, <1>3, <1>4, <1>5, <1>6, <1>7 DEF Machine!TailCall, Machine!Last

(* A frame that is pushed with part of its caller's items is a call of the *)
(* machine.                                                                *)
LEMMA PushedIsCall ==
  ASSUME Inv, Inv', invocation # << >>, NEW c \in Frame, NEW new \in Frame,
         Pushed(c, new), Hands(c, new), UNCHANGED resultStack
  PROVE  Machine!Call
<1>1. /\ Debts # << >> /\ Len(Debts) = Len(invocation)
      /\ Len(invocation) \in Nat \ {0} /\ Machine!Running = Debt(Top)
  BY RunningAccount
<1>2. /\ Len(invocation') = Len(invocation) + 1
      /\ invocation'[Len(invocation)] = c
      /\ invocation'[Len(invocation) + 1] = new
      /\ \A i \in 1 .. (Len(invocation) - 1) : invocation'[i] = invocation[i]
  BY PushedFrames
<1>3. Machine!Suspended(Len(invocation))
  BY <1>1, <1>2, SuspendedBelow
<1>4. /\ Len(Debts') = Len(invocation) + 1
      /\ Debts'[Len(invocation)] = Debt(c)
      /\ Debts'[Len(invocation) + 1] = Debt(new)
  BY <1>1, <1>2, FramesOfMachine DEF Accounts
<1>5. Debts'[Len(Debts)].owes = Machine!Running.owes
  BY <1>1, <1>4 DEF Debt, Keeps, Hands
<1>6. Machine!HandsOver(Machine!Running.items, Debts'[Len(Debts)].items,
                        Debts'[Len(Debts')].items)
  <2>1. Machine!HandsOver(Top.eval, c.eval, new.eval)
    BY SameHandsOver DEF Hands
  <2>2. /\ Machine!Running.items = Top.eval
        /\ Debts'[Len(Debts)].items = c.eval
        /\ Debts'[Len(Debts')].items = new.eval
    BY <1>1, <1>4 DEF Debt
  <2> QED
    BY <2>1, <2>2
<1>7. Machine!GoesOn
  BY StatusFollows DEF Machine!GoesOn, Hands
<1> QED
  BY <1>1, <1>3, <1>4, <1>5, <1>6, <1>7 DEF Machine!Call, Machine!Last

(* A frame that is dropped with too few results is a default of the        *)
(* machine.                                                                *)
LEMMA DroppedIsDefault ==
  ASSUME Inv, Inv', invocation # << >>, Dropped, Top.due > Len(Top.eval),
         UNCHANGED resultStack
  PROVE  Machine!Default
<1>1. /\ Debts # << >> /\ Len(Debts) = Len(invocation)
      /\ Len(invocation) \in Nat \ {0} /\ Machine!Running = Debt(Top)
  BY RunningAccount
<1>2. /\ Len(invocation') = Len(invocation) - 1
      /\ \A i \in 1 .. (Len(invocation) - 1) : invocation'[i] = invocation[i]
  BY DroppedFrames
<1>3. Machine!Suspended(Len(invocation))
  BY <1>1, <1>2, SuspendedBelow
<1>4. Len(Debts') = Len(Debts) - 1
  BY <1>1, <1>2, FramesOfMachine DEF Accounts
<1>5. Status' = "FAULT"
  BY StatusFollows DEF Dropped
<1>6. Top.due \in Int /\ Top.due >= -1 /\ Len(Top.eval) \in Nat
  BY RunningFrame, FrameFields, \A n \in -1 .. 255 : n \in Int /\ n >= -1
<1>7. ~Machine!Pays(Machine!Running)
  BY <1>1, <1>6 DEF Machine!Pays, Machine!All, Debt
<1> QED
  BY <1>1, <1>3, <1>4, <1>5, <1>7 DEF Machine!Default

(* A frame that has what it owes sends just that.                          *)
LEMMA SentIsPayment ==
  ASSUME Inv, invocation # << >>, ~(Top.due > Len(Top.eval))
  PROVE  /\ Machine!Pays(Debt(Top))
         /\ Sent(Top.eval, Top.due) = Machine!Payment(Debt(Top))
<1>1. /\ Top.due \in Int /\ Top.due >= -1 /\ Top.eval \in Seq(Item)
      /\ Len(Top.eval) \in Nat
  BY RunningFrame, FrameFields, \A n \in -1 .. 255 : n \in Int /\ n >= -1
<1>2. Machine!Pays(Debt(Top))
  BY <1>1 DEF Machine!Pays, Machine!All, Debt
<1>3. CASE Top.due = -1
  <2>1. Sent(Top.eval, Top.due) = SubSeq(Top.eval, 1, Len(Top.eval))
    BY <1>1, <1>3 DEF Sent, SentCount
  <2>2. SubSeq(Top.eval, 1, Len(Top.eval)) = Top.eval
    BY <1>1, SubSeqFull
  <2> QED
    BY <1>2, <1>3, <2>1, <2>2 DEF Machine!Payment, Machine!All, Debt
<1>4. CASE Top.due # -1
  BY <1>1, <1>2, <1>4 DEF Sent, SentCount, Machine!Payment, Machine!All, Debt
<1> QED
  BY <1>2, <1>3, <1>4

(* A frame that hands over its results is a return of the machine.         *)
LEMMA ReturnedIsReturn ==
  ASSUME Inv, Inv', invocation # << >>, Returned, ~(Top.due > Len(Top.eval))
  PROVE  Machine!Return
<1> DEFINE n == Len(invocation)
           due == Sent(Top.eval, Top.due)
<1>1. /\ Debts # << >> /\ Len(Debts) = n
      /\ n \in Nat \ {0} /\ Machine!Running = Debt(Top)
  BY RunningAccount
<1>2. /\ Machine!Pays(Machine!Running)
      /\ due = Machine!Payment(Machine!Running)
  BY <1>1, SentIsPayment
<1>3. Accounts(invocation, Debts) /\ Accounts(invocation', Debts')
  BY FramesOfMachine
<1>4. /\ Len(invocation') = n - 1
      /\ \A i \in 1 .. (n - 2) : invocation'[i] = invocation[i]
  BY ReturnedFrames
<1>5. Machine!Suspended(n - 1)
  BY <1>1, <1>4, SuspendedBelow
<1>6. Len(Debts') = n - 1
  BY <1>3, <1>4 DEF Accounts
<1>7. CASE n = 1
  <2>1. resultStack' = resultStack \o due
    BY <1>7, ReturnedFrames
  <2>2. Front(invocation) = << >>
    BY <1>1, <1>7, FramesByIndex, EmptySeq
  <2>3. state' = "HALT"
    BY <2>2 DEF Returned, Deliver
  <2>4. Status' = "HALT"
    BY <2>3, StatusFollows
  <2>5. Debts' = << >>
    BY <1>3, <1>6, <1>7, EmptySeq DEF Accounts
  <2> QED
    BY <1>1, <1>2, <1>5, <1>7, <2>1, <2>4, <2>5 DEF Machine!Return, Machine!Last
<1>8. CASE n # 1
  <2> DEFINE below == invocation[n - 1]
  <2>1. invocation'[n - 1] = [below EXCEPT !.eval = @ \o due]
    BY <1>8, ReturnedFrames
  <2>2. n - 1 \in 1 .. n /\ n - 1 \in 1 .. (n - 1)
    BY <1>1, <1>8
  <2>3. below \in Frame
    BY <1>3, <2>2, ElementOfSeq DEF Accounts
  <2>4. Debts[n - 1] = [owes |-> below.due, items |-> below.eval]
    BY <1>3, <2>2 DEF Accounts, Debt
  <2>5. Debts'[n - 1] = Debt(invocation'[n - 1])
    BY <1>3, <1>4, <2>2 DEF Accounts
  <2>6. Debts'[n - 1] = [owes |-> below.due, items |-> below.eval \o due]
    <3> HIDE DEF below, due
    <3> QED
      BY <2>1, <2>3, <2>5 DEF Debt, Frame, Context
  <2>7. Debts'[Len(Debts')] = [owes |-> Debts[n - 1].owes,
                        items |-> Debts[n - 1].items \o due]
    BY <1>6, <2>4, <2>6 DEF Last
  <2>8. Front(invocation) # << >>
    BY <1>1, <1>8, FramesByIndex, EmptySeq
  <2>9. UNCHANGED <<resultStack, state>>
    BY <2>8 DEF Returned, Deliver
  <2>10. UNCHANGED <<resultStack, Status>>
    BY <2>9, StatusFollows
  <2> QED
    BY <1>1, <1>2, <1>5, <1>6, <1>8, <2>7, <2>10 DEF Machine!Return, Machine!Last
<1> QED
  BY <1>7, <1>8
----------------------------------------------------------------------------
(* The host's calls.                                                       *)

LEMMA NewIsLoad ==
  ASSUME Inv, Inv', NEW s \in Seq(Byte), NEW rvcount \in RvCounts,
         UNCHANGED <<resultStack, state>>,
         invocation' = Append(invocation, NewContext(s, 0, rvcount))
  PROVE  Machine!Load
<1> DEFINE new == NewContext(s, 0, rvcount)
           n == Len(invocation)
<1>1. Accounts(invocation, Debts) /\ Accounts(invocation', Debts')
  BY FramesOfMachine
<1>2. new \in Frame
  <2>1. 0 \in Nat /\ 0 <= Len(s) /\ rvcount \in -1 .. 255
    BY EngineAssumption
  <2> QED
    BY <2>1, NewContextIsFrame
<1>3. Debt(new).items = << >>
  BY DEF Debt, NewContext
<1>4. /\ Len(invocation') = n + 1 /\ invocation'[n + 1] = new
      /\ \A i \in 1 .. n : invocation'[i] = invocation[i]
  <2> HIDE DEF new
  <2> QED
    BY <1>1, <1>2, AppendProperties DEF Accounts, new
<1> HIDE DEF new
<1>5. Machine!Suspended(n + 1)
  BY <1>1, <1>4, SuspendedBelow DEF Accounts
<1>6. Len(Debts') = Len(Debts) + 1 /\ Debts'[Len(Debts')] = Debt(new)
  BY <1>1, <1>4 DEF Accounts
<1>7. UNCHANGED Status
  BY StatusFollows
<1>8. Len(Debts) = n
  BY <1>1 DEF Accounts
<1> QED
  BY <1>3, <1>5, <1>6, <1>7, <1>8 DEF Machine!Load, Machine!Last

(* Nothing that the machine sees.                                          *)
LEMMA Unseen ==
  ASSUME UNCHANGED <<invocation, resultStack, state>>
  PROVE  UNCHANGED Machine!vars
BY DEF Machine!vars, Debts, Status

(* What the host does is a step of the machine, or none.                   *)
LEMMA HostIsMachine ==
  ASSUME Inv, Inv', Host
  PROVE  [Machine!Next]_(Machine!vars)
<1>1. scripts \in Seq(Seq(Byte)) /\ EntryScripts \subseteq Seq(Byte)
  BY EngineAssumption DEF Inv, TypeOK
<1>2. ASSUME NEW s \in EntryScripts, NEW rvcount \in RvCounts,
             LoadScript(s, rvcount)
      PROVE  Machine!Load
  BY <1>1, <1>2, NewIsLoad DEF LoadScript
<1>3. ASSUME NEW index \in 0 .. (2 * IndexModulus - 1), NEW rvcount \in RvCounts,
             LoadCachedScript(index, rvcount)
      PROVE  Machine!Load \/ UNCHANGED Machine!vars
  <2> DEFINE at == index % IndexModulus
  <2>1. at \in Nat
    BY EngineAssumption
  <2>2. CASE at < Len(scripts)
    <3>1. scripts[at + 1] \in Seq(Byte)
      <4> HIDE DEF at
      <4>1. at + 1 \in 1 .. Len(scripts)
        BY <1>1, <2>1, <2>2
      <4> QED
        BY <1>1, <4>1, ElementOfSeq
    <3>2. /\ invocation' = Append(invocation,
                              NewContext(scripts[at + 1], 0, rvcount))
          /\ UNCHANGED <<resultStack, state>>
      BY <1>3, <2>2 DEF LoadCachedScript
    <3> HIDE DEF at
    <3> QED
      BY <3>1, <3>2, NewIsLoad
  <2>3. CASE ~(at < Len(scripts))
    <3>1. UNCHANGED <<invocation, resultStack, state>>
      BY <1>3, <2>3 DEF LoadCachedScript
    <3> QED
      BY <3>1, Unseen
  <2> QED
    BY <2>2, <2>3
<1>4. ASSUME NEW cost \in HostCosts, IncreaseGas(cost)
      PROVE  Machine!Stop \/ UNCHANGED Machine!vars
  <2>1. UNCHANGED <<invocation, resultStack>>
        /\ state' \in {state, "FAULT_BY_GAS"}
    BY <1>4 DEF IncreaseGas
  <2>2. CASE state' = state
    BY <2>1, <2>2, Unseen
  <2>3. CASE state' = "FAULT_BY_GAS"
    <3>1. Status' = "FAULT"
      BY <2>3, StatusFollows
    <3>2. UNCHANGED Debts
      BY <2>1 DEF Debts
    <3> QED
      BY <2>1, <3>1, <3>2 DEF Machine!Stop
  <2> QED
    BY <2>1, <2>2, <2>3
<1>5. CASE Clean
  <2>1. invocation' = << >> /\ resultStack' = << >> /\ state' = "NONE"
    BY <1>5 DEF Clean
  <2>2. Debts' = << >>
    <3>1. Accounts(invocation', Debts')
      BY FramesOfMachine
    <3> QED
      BY <2>1, <3>1, EmptySeq DEF Accounts
  <2>3. Status' = "NONE"
    BY <2>1, StatusFollows
  <2> QED
    BY <2>1, <2>2, <2>3 DEF Machine!Clean, Machine!Next
<1>6. ASSUME NEW gas \in GasLimits, Execute(gas)
      PROVE  UNCHANGED Machine!vars
  BY <1>6, Unseen DEF Execute
<1>7. ASSUME NEW api \in {"StepInto", "StepOver", "StepOut"}, Step(api)
      PROVE  UNCHANGED Machine!vars
  BY <1>7, Unseen DEF Step
<1> QED
  BY <1>2, <1>3, <1>4, <1>5, <1>6, <1>7 DEF Host, Machine!Next
----------------------------------------------------------------------------

(* An instruction without a frame is the machine at rest.                  *)
LEMMA RestsWithoutFrames ==
  ASSUME Inv, Inv', invocation = << >>, InternalStepInto
  PROVE  Machine!Rest
<1>1. /\ state' = "HALT" /\ UNCHANGED <<invocation, resultStack>>
  BY DEF InternalStepInto, NoContext
<1>2. Debts = << >> /\ Debts' = << >>
  BY <1>1, FramesOfMachine, EmptySeq DEF Accounts
<1>3. Status' = "HALT"
  BY <1>1, StatusFollows
<1> QED
  BY <1>1, <1>2, <1>3 DEF Machine!Rest

(* The engine starts where the machine starts.                             *)
LEMMA InitIsInit ==
  Init => Machine!Init
BY DEF Init, Machine!Init, Debts, Status

(* Every step of the engine is a step of the machine, or none.             *)
LEMMA StepIsMachine ==
  ASSUME Contract, Inv', [Next]_vars
  PROVE  [Machine!Next]_(Machine!vars)
<1>1. Inv
  BY DEF Contract
<1>2. CASE invocation # << >> /\ InternalStepInto
  <2>1. Outcome
    BY <1>2, InstructionOutcome
  <2>2. ASSUME NEW c \in Frame, Replaced(c), UNCHANGED resultStack,
               (Keeps(c) /\ GoesOn) \/ Substitutes(c)
        PROVE  Machine!Work \/ Machine!TailCall
    BY <1>1, <1>2, <2>2, ReplacedIsWork, ReplacedIsTailCall
  <2>3. ASSUME NEW c \in Frame, NEW new \in Frame, Pushed(c, new),
               Hands(c, new), UNCHANGED resultStack
        PROVE  Machine!Call
    BY <1>1, <1>2, <2>3, PushedIsCall
  <2>4. ASSUME Dropped, Top.due > Len(Top.eval), UNCHANGED resultStack
        PROVE  Machine!Default
    BY <1>1, <1>2, <2>4, DroppedIsDefault
  <2>5. ASSUME Returned, ~(Top.due > Len(Top.eval))
        PROVE  Machine!Return
    BY <1>1, <1>2, <2>5, ReturnedIsReturn
  <2> QED
    BY <2>1, <2>2, <2>3, <2>4, <2>5 DEF Outcome, Machine!Next
<1>3. CASE invocation = << >> /\ InternalStepInto
  BY <1>1, <1>3, RestsWithoutFrames DEF Machine!Next
<1>4. CASE Host
  BY <1>1, <1>4, HostIsMachine
<1>5. CASE UNCHANGED vars
  BY <1>5, Unseen DEF vars
<1> QED
  BY <1>2, <1>3, <1>4, <1>5 DEF Next

(* Whatever the scripts are, and whatever the host does between two        *)
(* instructions, each step of the engine is a step of the machine of       *)
(* CallReturn or none: a frame pays what was asked of it or faults and     *)
(* pays nothing, and no frame touches the items of another.                *)
THEOREM EngineCallsAndReturns == Spec => CallsAndReturns
<1>1. Inv /\ ResultContract /\ Inv' /\ [Next]_vars
        => [Machine!Next]_(Machine!vars)
  BY StepIsMachine DEF Contract
<1> QED
  BY <1>1, InitIsInit, InvInvariant, ResultsAsAsked, PTL
     DEF Spec, CallsAndReturns, Machine!Spec
=============================================================================
