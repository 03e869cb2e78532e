------------------------- MODULE ItemLifetimeProofs -------------------------
(***************************************************************************)
(* The types of items, of programs and of what is left of them, that the   *)
(* counter follows the items, and that lists and maps stay within          *)
(* MAX_ARRAY_SIZE, for all limits, any number of addresses and any order   *)
(* of instructions.                                                        *)
(*                                                                         *)
(* The programs of the cases are made of a set of steps that is closed     *)
(* under the programs inside steps.  What is still to be done is such a    *)
(* program, but for three steps that the others leave behind: an element   *)
(* to be stored, a pair to be stored, and the item that DROP took.         *)
(***************************************************************************)
EXTENDS ItemLifetime, Counting

StackName == {"eval", "alt"}

RangeName == {"position", "depth", "count", "size", "element"}

----------------------------------------------------------------------------
(* The steps of programs.                                                  *)

Needs == {Need(s, n) : s \in StackName, n \in Nat}
Takes == {Take(s, n, r) : s \in StackName, n \in Int, r \in Register}
Peeks == {Peek(s, n, r) : s \in StackName, n \in Int, r \in Register}
Inserts == {Insert(s, n, r) : s \in StackName, n \in Int, r \in Register}
Frees == {Free(r) : r \in Register}
Frees2 == {Free2(r, s) : r \in Register, s \in Register}
Frees3 == {Free3(r, s, t) : r \in Register, s \in Register, t \in Register}
Creates(B) == {Create(t, b, r) : t \in Type, b \in B, r \in Register}
Gets == {Get(c, r) : c \in Register, r \in Register}
Adds == {Add(c, r) : c \in Register, r \in Register}
Sets == {Set(c, r) : c \in Register, r \in Register}
Erases == {Erase(c) : c \in Register}
Reverses == {Reversed(c) : c \in Register}
PushAlls == {PushAll(c) : c \in Register}
Clones == {Clone(r) : r \in Register}
MapSets == {MapSet(m, k, r) : m \in Register, k \in Register, r \in Register}
MapRemoves == {MapRemove(m, k) : m \in Register, k \in Register}
Assigns == {Assign(r, s) : r \in Register, s \in Register}
Fills ==
  {Fill(m, part, r) : m \in Register, part \in {"keys", "values"}, r \in Register}

(* Only CALL_ED releases an item it did not take from the stack itself.    *)
Releases ==
  IF "CALL_ED" \in Opcodes THEN {UnclaimAndFree(r) : r \in Register} ELSE {}

(* The steps that make no list longer, but a copy of one.                  *)
Plain ==
  Needs \cup Takes \cup Peeks \cup Inserts \cup Frees \cup Frees2 \cup Frees3
    \cup Creates({FALSE}) \cup Gets \cup Sets \cup Erases \cup Reverses \cup PushAlls
    \cup Clones \cup MapRemoves \cup Assigns \cup {Fault} \cup Releases

Flat == Plain \cup Creates(BOOLEAN) \cup Adds \cup MapSets \cup Fills

(* The steps that contain programs.                                        *)
Chooses(P) == {Choose(f) : f \in Seq(Seq(P))}
Ifs(P) == {If(r, t, f) : r \in Register, t \in SUBSET Type, f \in Seq(P)}
IfMades(P) == {IfMade(r, f) : r \in Register, f \in Seq(P)}
Checks(P) == {Check(r, t, f) : r \in Register, t \in SUBSET Type, f \in Seq(P)}
Reads(P) == {Read(rs, f) : rs \in SUBSET Register, f \in Seq(P)}
Numbers(P) == {Number(r, n, f) : r \in Register, n \in RangeName, f \in Seq(P)}
Rooms(P) == {Room(r, f) : r \in Register, f \in Seq(P)}
Loops(P) == {Loop(f) : f \in Seq(P)}
MapGets(P) ==
  {MapGet(m, k, r, f) :
     m \in Register, k \in Register, r \in Register, f \in Seq(P)}

Nest(P) ==
  P \cup Chooses(P) \cup Ifs(P) \cup IfMades(P) \cup Checks(P) \cup Reads(P)
    \cup Numbers(P) \cup Rooms(P) \cup Loops(P) \cup MapGets(P)

Inner == Nest(Flat)

Steps == Nest(Inner)

(* A set has the steps of Plain, and those of Flat.                        *)
HasPlain(Q) ==
  /\ \A s \in StackName, n \in Nat : Need(s, n) \in Q
  /\ \A s \in StackName, n \in Int, r \in Register :
       Take(s, n, r) \in Q /\ Peek(s, n, r) \in Q /\ Insert(s, n, r) \in Q
  /\ \A r \in Register : Pop(r) \in Q /\ Push(r) \in Q /\ Free(r) \in Q
  /\ \A r, s \in Register : Free2(r, s) \in Q
  /\ \A r, s, t \in Register : Free3(r, s, t) \in Q
  /\ \A t \in Type, r \in Register : Create(t, FALSE, r) \in Q
  /\ \A r, s \in Register : Get(r, s) \in Q /\ Set(r, s) \in Q
  /\ \A r \in Register :
       Erase(r) \in Q /\ Reversed(r) \in Q /\ PushAll(r) \in Q /\ Clone(r) \in Q
  /\ \A r, s \in Register : MapRemove(r, s) \in Q /\ Assign(r, s) \in Q
  /\ Fault \in Q
  /\ "CALL_ED" \in Opcodes => \A r \in Register : UnclaimAndFree(r) \in Q

HasFlat(Q) ==
  /\ HasPlain(Q)
  /\ \A t \in Type, b \in BOOLEAN, r \in Register : Create(t, b, r) \in Q
  /\ \A r, s \in Register : Add(r, s) \in Q
  /\ \A r, s, t \in Register : MapSet(r, s, t) \in Q
  /\ \A r, s \in Register, part \in {"keys", "values"} : Fill(r, part, s) \in Q

(* And those that contain programs over P.                                 *)
HasNested(P, Q) ==
  /\ \A f \in Seq(Seq(P)) : Choose(f) \in Q
  /\ \A f \in Seq(P), r \in Register, t \in SUBSET Type :
       If(r, t, f) \in Q /\ Check(r, t, f) \in Q
  /\ \A f \in Seq(P), r \in Register : IfMade(r, f) \in Q /\ Room(r, f) \in Q
  /\ \A f \in Seq(P), rs \in SUBSET Register : Read(rs, f) \in Q
  /\ \A f \in Seq(P), r \in Register, n \in RangeName : Number(r, n, f) \in Q
  /\ \A f \in Seq(P) : Loop(f) \in Q
  /\ \A f \in Seq(P), m, k, r \in Register : MapGet(m, k, r, f) \in Q

(* The names that programs use.                                            *)
LEMMA Names ==
  /\ "x1" \in Register /\ "x2" \in Register /\ "x3" \in Register
  /\ "key" \in Register /\ "item" \in Register /\ "value" \in Register
  /\ "ret" \in Register
  /\ "eval" \in StackName /\ "alt" \in StackName
  /\ "Value" \in Type /\ "Array" \in Type /\ "Struct" \in Type /\ "Map" \in Type
  /\ {"Struct"} \subseteq Type /\ {"Array"} \subseteq Type
  /\ {"Map"} \subseteq Type /\ {"Value"} \subseteq Type
  /\ List \subseteq Type /\ Container \subseteq Type
  /\ "position" \in RangeName /\ "depth" \in RangeName /\ "count" \in RangeName
  /\ "size" \in RangeName /\ "element" \in RangeName
BY DEF Register, StackName, Type, Container, List, RangeName

(* The plain steps are all in Plain, and in what contains it.              *)
LEMMA PlainHasPlain ==
  ASSUME NEW Q, Plain \subseteq Q
  PROVE  HasPlain(Q)
<1>1. \A s \in StackName, n \in Nat : Need(s, n) \in Q
  BY DEF Plain, Needs
<1>2. \A s \in StackName, n \in Int, r \in Register :
       Take(s, n, r) \in Q /\ Peek(s, n, r) \in Q /\ Insert(s, n, r) \in Q
  BY DEF Plain, Takes, Peeks, Inserts
<1>3. \A r \in Register : Pop(r) \in Q /\ Push(r) \in Q /\ Free(r) \in Q
  BY <1>2 DEF Plain, Frees, Pop, Push, StackName
<1>4. \A t \in Type, r \in Register : Create(t, FALSE, r) \in Q
  <2>1. \A B : \A t \in Type, b \in B, r \in Register : Create(t, b, r) \in Creates(B)
    BY DEF Creates
  <2>2. \A t \in Type, r \in Register : Create(t, FALSE, r) \in Creates({FALSE})
    BY <2>1, Zenon
  <2>3. Creates({FALSE}) \subseteq Q
    BY DEF Plain
  <2> QED
    BY <2>2, <2>3, Zenon
<1>5. Fault \in Q
  BY DEF Plain
<1>6. \A r, s \in Register : Free2(r, s) \in Q
  BY DEF Plain, Frees2
<1>7. \A r, s, t \in Register : Free3(r, s, t) \in Q
  BY DEF Plain, Frees3
<1>8. \A r, s \in Register : Get(r, s) \in Q /\ Set(r, s) \in Q
  BY DEF Plain, Gets, Sets
<1>9. \A r \in Register : /\ Erase(r) \in Q /\ Reversed(r) \in Q
                          /\ PushAll(r) \in Q /\ Clone(r) \in Q
  BY DEF Plain, Erases, Reverses, PushAlls, Clones
<1>10. \A r, s \in Register : MapRemove(r, s) \in Q /\ Assign(r, s) \in Q
  BY DEF Plain, MapRemoves, Assigns
<1>11. "CALL_ED" \in Opcodes => \A r \in Register : UnclaimAndFree(r) \in Q
  BY DEF Plain, Releases
<1> QED
  BY <1>1, <1>2, <1>3, <1>4, <1>5, <1>6, <1>7, <1>8, <1>9, <1>10, <1>11 DEF HasPlain

(* The steps without programs are all in Flat.                             *)
LEMMA FlatHasFlat == HasFlat(Flat)
<1>1. HasPlain(Flat)
  <2>1. Plain \subseteq Flat
    BY DEF Flat
  <2> QED
    BY <2>1, PlainHasPlain
<1>2. \A t \in Type, b \in BOOLEAN, r \in Register : Create(t, b, r) \in Flat
  BY DEF Flat, Creates
<1>3. \A r, s \in Register : Add(r, s) \in Flat
  BY DEF Flat, Adds
<1>4. \A r, s, t \in Register : MapSet(r, s, t) \in Flat
  BY DEF Flat, MapSets
<1>5. \A r, s \in Register, part \in {"keys", "values"} : Fill(r, part, s) \in Flat
  BY DEF Flat, Fills
<1> QED
  BY <1>1, <1>2, <1>3, <1>4, <1>5 DEF HasFlat

(* Nest adds the steps that contain programs over P, and loses none.       *)
LEMMA NestHasNested ==
  ASSUME NEW P
  PROVE  /\ HasNested(P, Nest(P)) /\ (HasFlat(P) => HasFlat(Nest(P)))
         /\ HasPlain(P) => HasPlain(Nest(P))
<1>1. P \subseteq Nest(P)
  BY DEF Nest
<1>2. HasPlain(P) => HasPlain(Nest(P))
  BY <1>1 DEF HasPlain
<1>10. HasFlat(P) => HasFlat(Nest(P))
  BY <1>1, <1>2 DEF HasFlat
<1>3. \A f \in Seq(Seq(P)) : Choose(f) \in Nest(P)
  BY DEF Nest, Chooses
<1>4. \A f \in Seq(P), r \in Register, t \in SUBSET Type :
        If(r, t, f) \in Nest(P) /\ Check(r, t, f) \in Nest(P)
  BY DEF Nest, Ifs, Checks
<1>5. \A f \in Seq(P), r \in Register : IfMade(r, f) \in Nest(P) /\ Room(r, f) \in Nest(P)
  BY DEF Nest, IfMades, Rooms
<1>6. \A f \in Seq(P), rs \in SUBSET Register : Read(rs, f) \in Nest(P)
  BY DEF Nest, Reads
<1>7. \A f \in Seq(P), r \in Register, n \in RangeName : Number(r, n, f) \in Nest(P)
  BY DEF Nest, Numbers
<1>8. \A f \in Seq(P) : Loop(f) \in Nest(P)
  BY DEF Nest, Loops
<1>9. \A f \in Seq(P), m, k, r \in Register : MapGet(m, k, r, f) \in Nest(P)
  BY DEF Nest, MapGets
<1> QED
  BY <1>2, <1>3, <1>4, <1>5, <1>6, <1>7, <1>8, <1>9, <1>10 DEF HasNested

(* Three levels of nesting are enough for every case of the switch.        *)
LEMMA LevelsAreNested ==
  /\ HasFlat(Flat) /\ HasFlat(Inner) /\ HasFlat(Steps)
  /\ HasPlain(Flat) /\ HasPlain(Inner) /\ HasPlain(Steps)
  /\ HasNested(Flat, Inner) /\ HasNested(Inner, Steps)
BY FlatHasFlat, NestHasNested DEF Inner, Steps, HasFlat

----------------------------------------------------------------------------
(* The programs of the cases.                                              *)

(* What the programs end with: the push of a new item.                     *)
LEMMA MakeProgram ==
  ASSUME NEW P, NEW Q, HasPlain(P), HasPlain(Q), HasNested(P, Q),
         NEW t \in Type, NEW b, Create(t, b, "ret") \in Q
  PROVE  Make(t, b) \in Seq(Q)
<1>1. <<Push("ret")>> \in Seq(P)
  BY Names DEF HasPlain
<1>2. IfMade("ret", <<Push("ret")>>) \in Q
  BY <1>1, Names DEF HasNested
<1> QED
  BY <1>2 DEF Make

(* What makes a number or a string and pushes it is a program.             *)
LEMMA MakeValueProgram ==
  ASSUME NEW P, NEW Q, HasPlain(P), HasPlain(Q), HasNested(P, Q)
  PROVE  MakeValue \in Seq(Q)
<1>1. Create("Value", FALSE, "ret") \in Q
  BY Names DEF HasPlain
<1> QED
  BY <1>1, MakeProgram, Names DEF MakeValue

(* The pieces that cases share.                                            *)
LEMMA SharedPrograms ==
  ASSUME NEW P, NEW Q, HasPlain(P), HasPlain(Q), HasNested(P, Q),
         NEW r \in Register
  PROVE  /\ ReadAndFree(r) \in Seq(Q) /\ CopiedStruct(r) \in Q
         /\ Pop2 \in Seq(Q) /\ Pop3 \in Seq(Q)
<1>1. <<Free(r), Fault>> \in Seq(P) /\ <<Clone(r), Free("ret")>> \in Seq(P)
  BY Names DEF HasPlain
<1>2. Read({r}, <<Free(r), Fault>>) \in Q
  BY <1>1 DEF HasNested
<1>3. Free(r) \in Q
  BY DEF HasPlain
<1>4. If(r, {"Struct"}, <<Clone(r), Free("ret")>>) \in Q
  BY <1>1, Names DEF HasNested
<1>5. Pop2 \in Seq(Q) /\ Pop3 \in Seq(Q)
  BY Names DEF HasPlain, Pop2, Pop3
<1> QED
  BY <1>2, <1>3, <1>4, <1>5 DEF ReadAndFree, CopiedStruct

(* So is a case that pops a number first, when what follows is.            *)
LEMMA WithNumberProgram ==
  ASSUME NEW P, NEW Q, HasPlain(P), HasPlain(Q), HasNested(P, Q),
         NEW n \in RangeName, NEW f \in Seq(Q)
  PROVE  WithNumber(n, f) \in Seq(Q)
<1>1. <<Free("x1"), Fault>> \in Seq(P)
  BY Names DEF HasPlain
<1>2. Number("x1", n, <<Free("x1"), Fault>>) \in Q
  BY <1>1, Names DEF HasNested
<1>3. Need("eval", 1) \in Q /\ Pop("x1") \in Q /\ Free("x1") \in Q
  BY Names DEF HasPlain
<1>4. <<Need("eval", 1), Pop("x1"), Number("x1", n, <<Free("x1"), Fault>>),
        Free("x1")>> \in Seq(Q)
  BY <1>2, <1>3
<1> QED
  BY <1>4 DEF WithNumber

(* The cases that move items on the stacks; DROP leaves a step behind.     *)
LEMMA StackPrograms ==
  ASSUME NEW P, NEW Q, HasPlain(P), HasPlain(Q), HasNested(P, Q),
         NEW op \in StackOpcode \ {"DROP"}
  PROVE  StackProgram(op) \in Seq(Q)
<1>1. MakeValue \in Seq(Q)
  BY MakeValueProgram
<1>2. DupFromAltStack \in Seq(Q) /\ ToAltStack \in Seq(Q) /\ FromAltStack \in Seq(Q)
  BY Names DEF HasPlain, DupFromAltStack, ToAltStack, FromAltStack
<1>3. Dup \in Seq(Q) /\ Nip \in Seq(Q) /\ Over \in Seq(Q)
  BY Names DEF HasPlain, Dup, Nip, Over
<1>4. Rot \in Seq(Q) /\ Swap \in Seq(Q) /\ Tuck \in Seq(Q)
  BY Names DEF HasPlain, Rot, Swap, Tuck
<1>5. XDrop \in Seq(Q) /\ XTuck \in Seq(Q)
  <2>1. <<Take("eval", -1, "x2"), Free("x2")>> \in Seq(Q)
    BY Names DEF HasPlain
  <2>2. <<Peek("eval", 0, "x2"), Insert("eval", -1, "x2")>> \in Seq(Q)
    BY Names DEF HasPlain
  <2> QED
    BY <2>1, <2>2, Names, WithNumberProgram DEF XDrop, XTuck
<1>6. XSwap \in Seq(Q)
  <2>1. <<Peek("eval", -1, "x3"), Take("eval", 0, "x2"), Insert("eval", 0, "x3"),
          Take("eval", -1, "x3"), Insert("eval", -1, "x2")>> \in Seq(Q)
    BY Names DEF HasPlain
  <2> QED
    BY <2>1, Names, WithNumberProgram DEF XSwap
<1>7. Pick \in Seq(Q) /\ Roll \in Seq(Q)
  <2>1. <<Peek("eval", -1, "x2"), Push("x2")>> \in Seq(Q)
    BY Names DEF HasPlain
  <2>2. <<Take("eval", -1, "x2"), Push("x2")>> \in Seq(Q)
    BY Names DEF HasPlain
  <2> QED
    BY <2>1, <2>2, Names, WithNumberProgram DEF Pick, Roll
<1> QED
  BY <1>1, <1>2, <1>3, <1>4, <1>5, <1>6, <1>7 DEF StackProgram, StackOpcode

(* The cases with two operands, however they free them.                    *)
LEMMA BinaryProgram ==
  ASSUME NEW P, NEW Q, HasPlain(P), HasPlain(Q), HasNested(P, Q),
         NEW free, free \in P, free \in Q
  PROVE  Binary(free) \in Seq(Q)
<1>1. <<free, Fault>> \in Seq(P)
  BY DEF HasPlain
<1>2. Read({"x1", "x2"}, <<free, Fault>>) \in Q
  BY <1>1, Names DEF HasNested
<1>3. Pop2 \in Seq(Q) /\ MakeValue \in Seq(Q)
  BY SharedPrograms, MakeValueProgram, Names
<1>4. <<Read({"x1", "x2"}, <<free, Fault>>), free>> \in Seq(Q)
  BY <1>2
<1> QED
  BY <1>3, <1>4 DEF Binary

(* The cases that compute from one, two and three operands.                *)
LEMMA DataPrograms ==
  ASSUME NEW P, NEW Q, HasPlain(P), HasPlain(Q), HasNested(P, Q),
         NEW op \in UnaryOpcode \cup ArithmeticOpcode \cup CompareOpcode
                      \cup HashOpcode \cup DataOpcode
  PROVE  DataProgram(op) \in Seq(Q)
<1>1. MakeValue \in Seq(Q) /\ Pop2 \in Seq(Q) /\ Pop3 \in Seq(Q)
  BY MakeValueProgram, SharedPrograms, Names
<1>2. Unary \in Seq(Q) /\ Hash \in Seq(Q)
  <2>1. <<Need("eval", 1), Pop("x1")>> \in Seq(Q)
    BY Names DEF HasPlain
  <2>2. ReadAndFree("x1") \in Seq(Q)
    BY SharedPrograms, Names
  <2> QED
    BY <2>1, <2>2, <1>1 DEF Unary, Hash
<1>3. /\ Free2("x2", "x1") \in P /\ Free2("x2", "x1") \in Q
      /\ Free2("x1", "x2") \in P /\ Free2("x1", "x2") \in Q
  BY Names DEF HasPlain
<1>4. Cat \in Seq(Q) /\ Arithmetic \in Seq(Q) /\ Shift \in Seq(Q)
  BY <1>3, BinaryProgram DEF Cat, Arithmetic, Shift
<1>5. AndOrXor \in Seq(Q) /\ Compare \in Seq(Q) /\ MinMax \in Seq(Q)
  BY <1>3, BinaryProgram DEF AndOrXor, Compare, MinMax
<1>6. /\ Create("Value", FALSE, "ret") \in Q
      /\ IfMade("ret", <<Push("ret")>>) \in Q
  <2>1. <<Push("ret")>> \in Seq(P)
    BY Names DEF HasPlain
  <2>2. IfMade("ret", <<Push("ret")>>) \in Q
    BY <2>1, Names DEF HasNested
  <2>3. Create("Value", FALSE, "ret") \in Q
    BY Names DEF HasPlain
  <2> QED
    BY <2>2, <2>3
<1>7. Not \in Seq(Q) /\ Equal \in Seq(Q) /\ BoolAndOr \in Seq(Q)
  <2> DEFINE new == Create("Value", FALSE, "ret")
             push == IfMade("ret", <<Push("ret")>>)
  <2>1. new \in Q /\ push \in Q
    BY <1>6
  <2> HIDE DEF new, push
  <2>2. <<Need("eval", 1), Pop("x1"), new, Free("x1"), push>> \in Seq(Q)
    BY <2>1, Names DEF HasPlain
  <2>3. <<new, Free2("x2", "x1"), push>> \in Seq(Q)
    BY <2>1, <1>3
  <2>4. Pop2 \o <<new, Free2("x2", "x1"), push>> \in Seq(Q)
    BY <2>3, <1>1
  <2> QED
    BY <2>2, <2>4 DEF Not, Equal, BoolAndOr, new, push
<1>8. CheckSig \in Seq(Q)
  <2>1. <<Free2("x2", "x1")>> \in Seq(Q)
    BY <1>3
  <2> QED
    BY <2>1, <1>1 DEF CheckSig
<1>9. Substr \in Seq(Q) /\ LeftRight \in Seq(Q)
  <2>1. ReadAndFree("x1") \in Seq(Q)
    BY SharedPrograms, Names
  <2>2. /\ <<Need("eval", 3), Pop("x1")>> \in Seq(Q)
        /\ <<Need("eval", 2), Pop("x1")>> \in Seq(Q) /\ <<Pop("x1")>> \in Seq(Q)
    BY Names DEF HasPlain
  <2> QED
    BY <2>1, <2>2, <1>1 DEF Substr, LeftRight
<1>10. Within \in Seq(Q)
  <2>1. <<Free3("x3", "x2", "x1"), Fault>> \in Seq(P)
    BY Names DEF HasPlain
  <2>2. Read({"x1", "x2", "x3"}, <<Free3("x3", "x2", "x1"), Fault>>) \in Q
    BY <2>1, Names DEF HasNested
  <2>3. <<Read({"x1", "x2", "x3"}, <<Free3("x3", "x2", "x1"), Fault>>),
          Free3("x3", "x2", "x1")>> \in Seq(Q)
    BY <2>2, Names DEF HasPlain
  <2> QED
    BY <2>3, <1>1 DEF Within
<1>11. Verify \in Seq(Q)
  <2> DEFINE one == <<Free3("x3", "x2", "x1")>>
             two == <<Free3("x1", "x3", "x2")>>
  <2>1. one \in Seq(P) /\ two \in Seq(P)
    BY Names DEF HasPlain
  <2> HIDE DEF one, two
  <2>2. <<one, two>> \in Seq(Seq(P))
    BY <2>1
  <2>3. Choose(<<one, two>>) \in Q
    BY <2>2 DEF HasNested
  <2>4. <<Choose(<<one, two>>)>> \in Seq(Q)
    BY <2>3
  <2> QED
    BY <2>4, <1>1 DEF Verify, one, two
<1> QED
  BY <1>2, <1>4, <1>5, <1>7, <1>8, <1>9, <1>10, <1>11
     DEF DataProgram, UnaryOpcode, ArithmeticOpcode, CompareOpcode, HashOpcode,
         DataOpcode


(* The cases of containers.                                                *)
LEMMA WhenStep ==
  ASSUME NEW P, NEW Q, HasNested(P, Q), NEW r \in Register, NEW t, NEW f \in Seq(P)
  PROVE  When(r, t, f) \in Q
<1>1. Type \ t \in SUBSET Type
  OBVIOUS
<1> QED
  BY <1>1 DEF HasNested, When

(* A key that must be a value, or else another program.                    *)
LEMMA PopKeyProgram ==
  ASSUME NEW P, NEW Q, HasPlain(P), HasPlain(Q), HasNested(P, Q), NEW f \in Seq(P)
  PROVE  PopKey(f) \in Seq(Q)
<1>1. Check("key", {"Value"}, f) \in Q
  BY Names DEF HasNested
<1> QED
  BY <1>1, Names DEF HasPlain, PopKey

(* The cases that take apart and reverse arrays, and that make a map.      *)
LEMMA PlainArrayPrograms ==
  ASSUME NEW P, NEW Q, NEW R, HasPlain(P), HasPlain(Q), HasPlain(R),
         HasNested(P, Q), HasNested(Q, R)
  PROVE  /\ ArraySize \in Seq(R) /\ Unpack \in Seq(R) /\ NewMap \in Seq(R)
         /\ ReverseItems \in Seq(R)
<1>1. MakeValue \in Seq(Q) /\ MakeValue \in Seq(R)
  BY MakeValueProgram
<1>2. <<Free("item"), Fault>> \in Seq(Q)
  BY Names DEF HasPlain
<1>3. ArraySize \in Seq(R)
  <2>1. <<Free("item")>> \o MakeValue \in Seq(Q)
    BY <1>1, Names DEF HasPlain
  <2>2. When("item", Container, <<Free("item")>> \o MakeValue) \in R
    BY <2>1, WhenStep, Names
  <2>3. Need("eval", 1) \in R /\ Pop("item") \in R
    BY Names DEF HasPlain
  <2>4. <<Need("eval", 1), Pop("item"),
          When("item", Container, <<Free("item")>> \o MakeValue)>> \in Seq(R)
    BY <2>2, <2>3
  <2>5. ReadAndFree("item") \in Seq(R)
    BY SharedPrograms, Names
  <2> QED
    BY <2>4, <2>5, <1>1 DEF ArraySize
<1>4. Unpack \in Seq(R)
  <2>1. Check("item", {"Array"}, <<Free("item"), Fault>>) \in R
    BY <1>2, Names DEF HasNested
  <2>2. <<Need("eval", 1), Pop("item"),
          Check("item", {"Array"}, <<Free("item"), Fault>>),
          PushAll("item"), Free("item")>> \in Seq(R)
    BY <2>1, Names DEF HasPlain
  <2> QED
    BY <2>2, <1>1 DEF Unpack
<1>5. NewMap \in Seq(R)
  <2>1. Create("Map", FALSE, "ret") \in R
    BY Names DEF HasPlain
  <2> QED
    BY <2>1, MakeProgram, Names DEF NewMap
<1>6. ReverseItems \in Seq(R)
  <2>1. Check("item", List, <<Free("item"), Fault>>) \in R
    BY <1>2, Names DEF HasNested
  <2>2. /\ Need("eval", 1) \in R /\ Pop("item") \in R /\ Reversed("item") \in R
        /\ Free("item") \in R
    BY Names DEF HasPlain
  <2> QED
    BY <2>1, <2>2 DEF ReverseItems
<1> QED
  BY <1>3, <1>4, <1>5, <1>6

(* The cases that make and fill arrays.                                    *)
LEMMA ArrayPrograms ==
  ASSUME NEW P, NEW Q, NEW R, HasFlat(P), HasFlat(Q), HasFlat(R),
         HasNested(P, Q), HasNested(Q, R)
  PROVE  Pack \in Seq(R) /\ NewArray \in Seq(R) /\ NewStruct \in Seq(R)
<1>1. HasPlain(P) /\ HasPlain(Q) /\ HasPlain(R)
  BY DEF HasFlat
<1>2. <<Free("item"), Fault>> \in Seq(Q)
  BY <1>1, Names DEF HasPlain
<1>3. Pack \in Seq(R)
  <2>1. Number("item", "count", <<Free("item"), Fault>>) \in R
    BY <1>2, Names DEF HasNested
  <2>2. <<Pop("value"), Add("ret", "value")>> \in Seq(P)
    BY <1>1, Names DEF HasFlat, HasPlain
  <2>3. Loop(<<Pop("value"), Add("ret", "value")>>) \in Q /\ Push("ret") \in Q
    BY <1>1, <2>2, Names DEF HasNested, HasPlain
  <2>4. <<Loop(<<Pop("value"), Add("ret", "value")>>), Push("ret")>> \in Seq(Q)
    BY <2>3
  <2>5. IfMade("ret", <<Loop(<<Pop("value"), Add("ret", "value")>>), Push("ret")>>) \in R
    BY <2>4, Names DEF HasNested
  <2> DEFINE new == Create("Array", FALSE, "ret")
             num == Number("item", "count", <<Free("item"), Fault>>)
             made == IfMade("ret", <<Loop(<<Pop("value"), Add("ret", "value")>>),
                                     Push("ret")>>)
  <2>6. new \in R
    BY <1>1, Names DEF HasPlain
  <2>7. Need("eval", 1) \in R /\ Pop("item") \in R /\ Free("item") \in R
    BY <1>1, Names DEF HasPlain
  <2>8. num \in R /\ made \in R
    BY <2>1, <2>5
  <2> HIDE DEF new, num, made
  <2>9. <<Need("eval", 1), Pop("item"), num, Free("item"), new, made>> \in Seq(R)
    BY <2>6, <2>7, <2>8
  <2> QED
    BY <2>9 DEF Pack, new, num, made
<1>4. \A t \in Type : NewContainer(t) \in Seq(R)
  <2> TAKE t \in Type
  <2>1. Number("item", "size", <<Free("item"), Fault>>) \in R
    BY <1>2, Names DEF HasNested
  <2>2. <<Need("eval", 1), Pop("item"),
          Number("item", "size", <<Free("item"), Fault>>), Free("item")>> \in Seq(R)
    BY <1>1, <2>1, Names DEF HasPlain
  <2>3. Make(t, TRUE) \in Seq(R)
    <3>1. \A b \in BOOLEAN : Create(t, b, "ret") \in R
      BY Names DEF HasFlat
    <3> QED
      BY <1>1, <3>1, MakeProgram
  <2> DEFINE make == Make(t, TRUE)
             num == <<Need("eval", 1), Pop("item"),
                      Number("item", "size", <<Free("item"), Fault>>), Free("item")>>
  <2>4. make \in Seq(R) /\ num \in Seq(R)
    BY <2>2, <2>3
  <2>5. NewContainer(t) = num \o make
    BY DEF NewContainer
  <2> HIDE DEF make, num
  <2> QED
    BY <2>4, <2>5
<1>5. NewArray \in Seq(R) /\ NewStruct \in Seq(R)
  BY <1>4, Names DEF NewArray, NewStruct
<1> QED
  BY <1>3, <1>5

(* The cases that work on an element or a pair.                            *)
LEMMA ElementPrograms ==
  ASSUME NEW P, NEW Q, NEW R, HasPlain(P), HasPlain(Q), HasPlain(R),
         HasNested(P, Q), HasNested(Q, R)
  PROVE  PickItem \in Seq(R) /\ RemoveItem \in Seq(R) /\ HasKey \in Seq(R)
<1> DEFINE fault == <<Free2("key", "item"), Fault>>
           start == <<Need("eval", 2)>>
<1>1. fault \in Seq(P) /\ fault \in Seq(R)
  BY Names DEF HasPlain
<1>2. Number("key", "element", fault) \in Q
  BY <1>1, Names DEF HasNested
<1>3. start \in Seq(R) /\ PopKey(<<Free("key"), Fault>>) \in Seq(R)
  <2>1. <<Free("key"), Fault>> \in Seq(Q)
    BY Names DEF HasPlain
  <2>2. PopKey(<<Free("key"), Fault>>) \in Seq(R)
    BY <2>1, PopKeyProgram
  <2>3. start \in Seq(R)
    BY Names DEF HasPlain
  <2> QED
    BY <2>2, <2>3
<1> HIDE DEF fault, start
<1>4. PickItem \in Seq(R)
  <2> DEFINE push == <<CopiedStruct("value"), Push("value"), Free2("key", "item")>>
             list == <<Number("key", "element", fault), Get("item", "value")>> \o push
             map == <<MapGet("item", "key", "value", fault)>> \o push
  <2>1. push \in Seq(Q)
    <3>1. CopiedStruct("value") \in Q
      BY SharedPrograms, Names
    <3> QED
      BY <3>1, Names DEF HasPlain
  <2>2. <<Number("key", "element", fault), Get("item", "value")>> \in Seq(Q)
    BY <1>2, Names DEF HasPlain
  <2>3. <<MapGet("item", "key", "value", fault)>> \in Seq(Q)
    BY <1>1, Names DEF HasNested
  <2> HIDE DEF push
  <2>4. list \in Seq(Q) /\ map \in Seq(Q)
    BY <2>1, <2>2, <2>3
  <2> HIDE DEF list, map
  <2>5. When("item", List, list) \in R /\ When("item", {"Map"}, map) \in R
    BY <2>4, WhenStep, Names
  <2>6. <<Pop("item"), When("item", List, list), When("item", {"Map"}, map)>>
          \in Seq(R)
    BY <2>5, Names DEF HasPlain
  <2> DEFINE rest == <<Pop("item"), When("item", List, list), When("item", {"Map"}, map)>>
             key == PopKey(<<Free("key"), Fault>>)
  <2>7. PickItem = start \o key \o rest \o fault
    BY DEF PickItem, start, fault, list, map, push
  <2>8. rest \in Seq(R) /\ key \in Seq(R)
    BY <2>6, <1>3
  <2> HIDE DEF rest, key
  <2> QED
    BY <2>7, <2>8, <1>1, <1>3
<1>5. RemoveItem \in Seq(R)
  <2> DEFINE list == <<Number("key", "element", fault), Erase("item"),
                       Free2("key", "item")>>
             map == <<MapRemove("item", "key"), Free2("key", "item")>>
  <2>1. list \in Seq(Q) /\ map \in Seq(Q)
    BY <1>2, Names DEF HasPlain
  <2> HIDE DEF list, map
  <2>2. When("item", List, list) \in R /\ When("item", {"Map"}, map) \in R
    BY <2>1, WhenStep, Names
  <2> DEFINE rest == <<Pop("item"), When("item", List, list), When("item", {"Map"}, map)>>
             key == PopKey(<<Free("key"), Fault>>)
  <2>3. rest \in Seq(R) /\ key \in Seq(R)
    BY <2>2, <1>3, Names DEF HasPlain
  <2>4. RemoveItem = start \o key \o rest \o fault
    BY DEF RemoveItem, start, fault, list, map
  <2> HIDE DEF rest, key
  <2> QED
    BY <2>3, <2>4, <1>1, <1>3
<1>6. HasKey \in Seq(R)
  <2> DEFINE new == Create("Value", FALSE, "ret")
             answer == <<new, Free2("key", "item"), IfMade("ret", <<Push("ret")>>)>>
             list == <<Read({"key"}, fault)>> \o answer
  <2>1. new \in Q
    BY Names DEF HasPlain
  <2> HIDE DEF new
  <2>2. answer \in Seq(Q)
    <3>1. <<Push("ret")>> \in Seq(P)
      BY Names DEF HasPlain
    <3>2. IfMade("ret", <<Push("ret")>>) \in Q
      BY <3>1, Names DEF HasNested
    <3> QED
      BY <3>2, <2>1, Names DEF HasPlain
  <2> HIDE DEF answer
  <2>3. list \in Seq(Q)
    <3>1. Read({"key"}, fault) \in Q
      BY <1>1, Names DEF HasNested
    <3> QED
      BY <3>1, <2>2
  <2> HIDE DEF list
  <2>4. When("item", List, list) \in R /\ When("item", {"Map"}, answer) \in R
    BY <2>2, <2>3, WhenStep, Names
  <2> DEFINE rest == <<Pop("item"), When("item", List, list),
                       When("item", {"Map"}, answer)>>
             key == PopKey(<<Free("key"), Fault>>)
  <2>5. rest \in Seq(R) /\ key \in Seq(R)
    BY <2>4, <1>3, Names DEF HasPlain
  <2>6. HasKey = start \o key \o rest \o fault
    BY DEF HasKey, start, fault, list, answer, new
  <2> HIDE DEF rest, key
  <2> QED
    BY <2>5, <2>6, <1>1, <1>3
<1> QED
  BY <1>4, <1>5, <1>6

(* The parts of cases that make a list longer.                             *)
Appending ==
  <<Room("item", <<Fault, Free("item")>>), Add("item", "value"), Free("item")>>

Pairing == <<MapSet("item", "key", "value"), Free3("key", "value", "item")>>

(* The checks that lead to them.                                           *)
HasGrowing(Q) ==
  /\ When("item", List, Appending) \in Q /\ When("item", {"Map"}, Pairing) \in Q
  /\ \A part \in {"keys", "values"} : When("item", {"Map"}, FilledArray(part)) \in Q

(* They are steps that contain programs.                                   *)
LEMMA GrowingSteps ==
  ASSUME NEW P, NEW Q, NEW R, HasFlat(P), HasFlat(Q), HasNested(P, Q), HasNested(Q, R)
  PROVE  HasGrowing(R)
<1>1. HasPlain(P) /\ HasPlain(Q)
  BY DEF HasFlat
<1>2. When("item", List, Appending) \in R
  <2>1. <<Fault, Free("item")>> \in Seq(P)
    BY <1>1, Names DEF HasPlain
  <2>2. Room("item", <<Fault, Free("item")>>) \in Q
    BY <2>1, Names DEF HasNested
  <2>3. Appending \in Seq(Q)
    BY <1>1, <2>2, Names DEF HasPlain, HasFlat, Appending
  <2> QED
    BY <2>3, WhenStep, Names
<1>3. When("item", {"Map"}, Pairing) \in R
  <2>1. Pairing \in Seq(Q)
    BY <1>1, Names DEF HasPlain, HasFlat, Pairing
  <2> QED
    BY <2>1, WhenStep, Names
<1>4. \A part \in {"keys", "values"} : When("item", {"Map"}, FilledArray(part)) \in R
  <2> TAKE part \in {"keys", "values"}
  <2> DEFINE new == Create("Array", FALSE, "ret")
             made == IfMade("ret", <<Fill("item", part, "ret"), Push("ret")>>)
  <2>1. new \in Q
    BY <1>1, Names DEF HasPlain, HasFlat
  <2>2. made \in Q
    <3>1. <<Fill("item", part, "ret"), Push("ret")>> \in Seq(P)
      BY <1>1, Names DEF HasPlain, HasFlat
    <3> QED
      BY <3>1, Names DEF HasNested
  <2>3. FilledArray(part) = <<new, made, Free("item")>>
    BY DEF FilledArray
  <2> HIDE DEF new, made
  <2>4. FilledArray(part) \in Seq(Q)
    BY <2>1, <2>2, <2>3, <1>1, Names DEF HasPlain
  <2> QED
    BY <2>4, WhenStep, Names
<1> QED
  BY <1>2, <1>3, <1>4 DEF HasGrowing

(* The cases that have such a check.                                       *)
LEMMA GrowingPrograms ==
  ASSUME NEW P, NEW Q, NEW R, HasPlain(P), HasPlain(Q), HasPlain(R),
         HasNested(P, Q), HasNested(Q, R), HasGrowing(R)
  PROVE  /\ AppendItem \in Seq(R) /\ SetItem \in Seq(R)
         /\ Keys \in Seq(R) /\ Values \in Seq(R)
<1>1. /\ When("item", List, Appending) \in R /\ When("item", {"Map"}, Pairing) \in R
      /\ \A part \in {"keys", "values"} : When("item", {"Map"}, FilledArray(part)) \in R
  BY DEF HasGrowing
<1>2. AppendItem \in Seq(R)
  <2>1. CopiedStruct("value") \in R
    BY SharedPrograms, Names
  <2>2. /\ Need("eval", 2) \in R /\ Pop("value") \in R /\ Pop("item") \in R
        /\ Free2("value", "item") \in R /\ Fault \in R
    BY Names DEF HasPlain
  <2> QED
    BY <1>1, <2>1, <2>2 DEF AppendItem, Appending
<1>3. SetItem \in Seq(R)
  <2> DEFINE list == <<Number("key", "element",
                              <<Free3("key", "item", "value"), Fault>>),
                       Set("item", "value"), Free2("key", "item")>>
             pop == <<Need("eval", 3), Pop("value"), CopiedStruct("value")>>
             key == PopKey(<<Free2("key", "value"), Fault>>)
  <2>1. list \in Seq(Q)
    <3>1. <<Free3("key", "item", "value"), Fault>> \in Seq(P)
      BY Names DEF HasPlain
    <3>2. Number("key", "element", <<Free3("key", "item", "value"), Fault>>) \in Q
      BY <3>1, Names DEF HasNested
    <3> QED
      BY <3>2, Names DEF HasPlain
  <2>2. pop \in Seq(R)
    <3>1. CopiedStruct("value") \in R
      BY SharedPrograms, Names
    <3> QED
      BY <3>1, Names DEF HasPlain
  <2>3. key \in Seq(R)
    <3>1. <<Free2("key", "value"), Fault>> \in Seq(Q)
      BY Names DEF HasPlain
    <3> QED
      BY <3>1, PopKeyProgram
  <2> HIDE DEF list
  <2>4. When("item", List, list) \in R
    BY <2>1, WhenStep, Names
  <2> DEFINE rest == <<Pop("item"), When("item", List, list),
                       When("item", {"Map"}, Pairing),
                       Free3("key", "value", "item"), Fault>>
  <2>5. rest \in Seq(R)
    BY <1>1, <2>4, Names DEF HasPlain
  <2>6. SetItem = pop \o key \o rest
    BY DEF SetItem, list, Pairing
  <2> HIDE DEF rest, key, pop
  <2> QED
    BY <2>2, <2>3, <2>5, <2>6
<1>4. When("item", List, <<Clone("item"), Push("item"), Free("ret")>>) \in R
  <2>1. <<Clone("item"), Push("item"), Free("ret")>> \in Seq(Q)
    BY Names DEF HasPlain
  <2> QED
    BY <2>1, WhenStep, Names
<1>5. Need("eval", 1) \in R /\ Pop("item") \in R /\ Free("item") \in R /\ Fault \in R
  BY Names DEF HasPlain
<1>6. Keys \in Seq(R)
  BY <1>1, <1>5 DEF Keys
<1>7. Values \in Seq(R)
  BY <1>1, <1>4, <1>5 DEF Values
<1> QED
  BY <1>2, <1>3, <1>6, <1>7

(* CALL_ED, when it is among the opcodes.                                  *)
LEMMA CallEDProgram ==
  ASSUME NEW P, NEW Q, HasPlain(P), HasPlain(Q), HasNested(P, Q), "CALL_ED" \in Opcodes
  PROVE  CallED \in Seq(Q)
<1> DEFINE one == <<Fault, UnclaimAndFree("key")>>
           two == <<UnclaimAndFree("key"), Fault>>
           three == <<UnclaimAndFree("key")>>
<1>1. one \in Seq(P) /\ two \in Seq(P) /\ three \in Seq(P)
  BY Names DEF HasPlain
<1> HIDE DEF one, two, three
<1>2. <<one, two, three>> \in Seq(Seq(P))
  BY <1>1
<1>3. Choose(<<one, two, three>>) \in Q
  BY <1>2 DEF HasNested
<1>4. <<Need("eval", 1), Pop("key"), Choose(<<one, two, three>>)>> \in Seq(Q)
  BY <1>3, Names DEF HasPlain
<1> QED
  BY <1>4 DEF CallED, one, two, three

(* Every case is made of the steps, but for DROP.                          *)
LEMMA ProgramsAreSteps ==
  ASSUME NEW op \in Opcodes \cap Opcode, op # "DROP"
  PROVE  Program(op) \in Seq(Steps)
<1>1. CASE op \in StackOpcode
  <2>1. StackProgram(op) \in Seq(Steps)
    BY <1>1, LevelsAreNested, StackPrograms
  <2>2. op \notin ContainerOpcode /\ op # "CALL_ED"
    BY <1>1 DEF ContainerOpcode, StackOpcode
  <2> QED
    BY <2>1, <2>2, <1>1 DEF Program
<1>2. CASE op \in ContainerOpcode
  <2>1. /\ ArraySize \in Seq(Steps) /\ Pack \in Seq(Steps) /\ Unpack \in Seq(Steps)
        /\ NewArray \in Seq(Steps) /\ NewStruct \in Seq(Steps) /\ NewMap \in Seq(Steps)
        /\ ReverseItems \in Seq(Steps)
    BY LevelsAreNested, PlainArrayPrograms, ArrayPrograms
  <2>2. PickItem \in Seq(Steps) /\ RemoveItem \in Seq(Steps) /\ HasKey \in Seq(Steps)
    BY LevelsAreNested, ElementPrograms
  <2>3. /\ AppendItem \in Seq(Steps) /\ SetItem \in Seq(Steps)
        /\ Keys \in Seq(Steps) /\ Values \in Seq(Steps)
    BY LevelsAreNested, GrowingSteps, GrowingPrograms
  <2>4. ContainerProgram(op) \in Seq(Steps)
    BY <1>2, <2>1, <2>2, <2>3 DEF ContainerProgram, ContainerOpcode
  <2>5. op \notin StackOpcode /\ op # "CALL_ED"
    BY <1>2 DEF ContainerOpcode, StackOpcode
  <2> QED
    BY <2>4, <2>5, <1>2 DEF Program
<1>3. CASE op = "CALL_ED"
  <2>1. CallED \in Seq(Steps)
    BY <1>3, LevelsAreNested, CallEDProgram
  <2>2. op \notin StackOpcode /\ op \notin ContainerOpcode
    BY <1>3 DEF ContainerOpcode, StackOpcode
  <2>3. Program(op) = CallED
    BY <2>2, <1>3 DEF Program
  <2> QED
    BY <2>1, <2>3
<1>4. CASE op \notin StackOpcode /\ op \notin ContainerOpcode /\ op # "CALL_ED"
  <2>1. op \in UnaryOpcode \cup ArithmeticOpcode \cup CompareOpcode
                 \cup HashOpcode \cup DataOpcode
    BY <1>4 DEF Opcode
  <2>2. DataProgram(op) \in Seq(Steps)
    BY <2>1, LevelsAreNested, DataPrograms
  <2> QED
    BY <2>2, <1>4 DEF Program
<1> QED
  BY <1>1, <1>2, <1>3, <1>4

----------------------------------------------------------------------------
(* What the fields of a step are, by its operation.                        *)

Operands(s) ==
  /\ s.op \in {"take", "peek", "insert"} => s.stack \in StackName
  /\ s.op \in {"insert", "clone", "release"} => s.uses = {s.item}
  /\ s.op \in {"get", "erase", "reverse", "pushAll"} => s.uses = {s.in}
  /\ s.op \in {"add", "set"} => s.uses = {s.in, s.item}
  /\ s.op = "mapGet" => s.uses = {s.in, s.key}
  /\ s.op = "mapSet" => s.uses = {s.in, s.key, s.item}
  /\ s.op = "mapRemove" => s.uses = {s.in, s.key}
  /\ s.op = "fill" => s.uses = {s.in, s.item} /\ s.part \in {"keys", "values"}
  /\ s.op = "number" => s.range \in RangeName
  /\ s.op = "create" => s.type \in Type /\ s.elements \in BOOLEAN
  /\ s.op \in {"set", "mapSet"} => s.in \in Register /\ s.item \in Register
  /\ s.op \in {"assign", "free", "free2", "free3"} => s.item \in Register
  /\ s.op \in {"free2", "free3"} => s.other \in Register
  /\ s.op = "free3" => s.third \in Register

Branches(s) ==
  /\ s.op = "choose" => \A n \in DOMAIN s.from : s.from[n] \in Seq(Steps)
  /\ s.op \in {"if", "ifMade"} => s.then \in Seq(Steps)
  /\ s.op \in {"check", "room", "read", "number", "mapGet"} =>
       s.otherwise \in Seq(Steps)
  /\ s.op = "loop" => s.body \in Seq(Steps)

Static(s) ==
  /\ s.op \notin {"unstack", "store", "mapStore", "copy"}
  /\ s.op = "release" => "CALL_ED" \in Opcodes

Formed(s) == Operands(s) /\ Branches(s) /\ Static(s)

(* A step without programs is formed: its fields are in range and its      *)
(* steps go on with programs.                                              *)
LEMMA FlatIsFormed ==
  ASSUME NEW s \in Flat
  PROVE  Formed(s)
<1>1. CASE s \in Needs
  BY <1>1 DEF Needs, Need, Formed, Operands, Branches, Static
<1>2. CASE s \in Takes
  BY <1>2 DEF Takes, Take, Formed, Operands, Branches, Static
<1>3. CASE s \in Peeks
  BY <1>3 DEF Peeks, Peek, Formed, Operands, Branches, Static
<1>4. CASE s \in Inserts
  BY <1>4 DEF Inserts, Insert, Formed, Operands, Branches, Static
<1>5. CASE s \in Frees
  BY <1>5 DEF Frees, Free, Formed, Operands, Branches, Static
<1>6. CASE s \in Frees2
  BY <1>6 DEF Frees2, Free2, Formed, Operands, Branches, Static
<1>7. CASE s \in Frees3
  BY <1>7 DEF Frees3, Free3, Formed, Operands, Branches, Static
<1>8. CASE s \in Creates(BOOLEAN) \cup Creates({FALSE})
  <2>1. \A B : B \subseteq BOOLEAN => Creates(B) \subseteq Creates(BOOLEAN)
    BY DEF Creates
  <2>2. {FALSE} \subseteq BOOLEAN
    OBVIOUS
  <2>3. s \in Creates(BOOLEAN)
    BY <1>8, <2>1, <2>2, Zenon
  <2> QED
    BY <2>3 DEF Creates, Create, Formed, Operands, Branches, Static
<1>9. CASE s \in Gets
  BY <1>9 DEF Gets, Get, Formed, Operands, Branches, Static
<1>10. CASE s \in Adds
  BY <1>10 DEF Adds, Add, Formed, Operands, Branches, Static
<1>11. CASE s \in Sets
  BY <1>11 DEF Sets, Set, Formed, Operands, Branches, Static
<1>12. CASE s \in Erases
  BY <1>12 DEF Erases, Erase, Formed, Operands, Branches, Static
<1>13. CASE s \in Reverses
  BY <1>13 DEF Reverses, Reversed, Formed, Operands, Branches, Static
<1>14. CASE s \in PushAlls
  BY <1>14 DEF PushAlls, PushAll, Formed, Operands, Branches, Static
<1>15. CASE s \in Clones
  BY <1>15 DEF Clones, Clone, Formed, Operands, Branches, Static
<1>16. CASE s \in MapSets
  BY <1>16 DEF MapSets, MapSet, Formed, Operands, Branches, Static
<1>17. CASE s \in MapRemoves
  BY <1>17 DEF MapRemoves, MapRemove, Formed, Operands, Branches, Static
<1>18. CASE s \in Assigns
  BY <1>18 DEF Assigns, Assign, Formed, Operands, Branches, Static
<1>19. CASE s \in Fills
  BY <1>19 DEF Fills, Fill, Formed, Operands, Branches, Static
<1>20. CASE s = Fault
  BY <1>20 DEF Fault, Formed, Operands, Branches, Static
<1>21. CASE s \in Releases
  BY <1>21 DEF Releases, UnclaimAndFree, Formed, Operands, Branches, Static
<1> QED
  BY <1>1, <1>2, <1>3, <1>4, <1>5, <1>6, <1>7, <1>8, <1>9, <1>10, <1>11, <1>12,
     <1>13, <1>14, <1>15, <1>16, <1>17, <1>18, <1>19, <1>20, <1>21 DEF Flat, Plain

(* A step that contains programs is formed when its programs are.          *)
LEMMA NestIsFormed ==
  ASSUME NEW P, P \subseteq Steps, NEW s \in Nest(P) \ P
  PROVE  Formed(s)
<1>0. Seq(P) \subseteq Seq(Steps)
  OBVIOUS
<1>1. CASE s \in Chooses(P)
  <2>1. PICK f \in Seq(Seq(P)) : s = Choose(f)
    BY <1>1 DEF Chooses
  <2>2. \A n \in DOMAIN f : f[n] \in Seq(Steps)
    BY <1>0
  <2> QED
    BY <2>1, <2>2 DEF Choose, Formed, Operands, Branches, Static
<1>2. CASE s \in Ifs(P)
  BY <1>0, <1>2 DEF Ifs, If, Formed, Operands, Branches, Static
<1>3. CASE s \in IfMades(P)
  BY <1>0, <1>3 DEF IfMades, IfMade, Formed, Operands, Branches, Static
<1>4. CASE s \in Checks(P)
  BY <1>0, <1>4 DEF Checks, Check, Formed, Operands, Branches, Static
<1>5. CASE s \in Reads(P)
  BY <1>0, <1>5 DEF Reads, Read, Formed, Operands, Branches, Static
<1>6. CASE s \in Numbers(P)
  BY <1>0, <1>6 DEF Numbers, Number, Formed, Operands, Branches, Static
<1>7. CASE s \in Rooms(P)
  BY <1>0, <1>7 DEF Rooms, Room, Formed, Operands, Branches, Static
<1>8. CASE s \in Loops(P)
  BY <1>0, <1>8 DEF Loops, Loop, Formed, Operands, Branches, Static
<1>9. CASE s \in MapGets(P)
  BY <1>0, <1>9 DEF MapGets, MapGet, Formed, Operands, Branches, Static
<1> QED
  BY <1>1, <1>2, <1>3, <1>4, <1>5, <1>6, <1>7, <1>8, <1>9 DEF Nest

(* Every step of a case is formed.                                         *)
LEMMA StepsAreFormed ==
  ASSUME NEW s \in Steps
  PROVE  Formed(s)
<1>1. Flat \subseteq Steps /\ Inner \subseteq Steps
  BY DEF Steps, Inner, Nest
<1>2. CASE s \in Flat
  BY <1>2, FlatIsFormed
<1>3. CASE s \in Inner \ Flat
  BY <1>1, <1>3, NestIsFormed DEF Inner
<1>4. CASE s \in Steps \ Inner
  BY <1>1, <1>4, NestIsFormed DEF Steps
<1> QED
  BY <1>2, <1>3, <1>4

----------------------------------------------------------------------------
(* The types of the variables, and what is still to be done.               *)

CopySteps ==
  {Copy(list, i) : list \in Seq(ItemId) \ {<< >>}, i \in ItemId}

Work == Seq(Steps \cup CopySteps)

Stores ==
  {Store(c, n, r) : c \in Register, n \in Nat, r \in Register}
    \cup {MapStore(c, n, r) : c \in Register, n \in Nat, r \in Register}

(* What is left of DROP, when it has been found that there is an item.     *)
Unstacking == <<Unstack("x1"), UnclaimAndFree("x1")>>

Discarding == <<UnclaimAndFree("x1")>>

StoresNext(program, locals) ==
  /\ program # << >> /\ Head(program) \in Stores /\ Tail(program) \in Work
  /\ locals[Head(program).item] \in ItemId

Runs(program, locals) ==
  \/ program \in Work
  \/ StoresNext(program, locals)
  \/ program \in {Drop, Unstacking, Discarding}

Locals == [Register -> ItemId \cup {Null}]

ItemSet == [type : Type, claims : Int, kids : Seq(ItemId)]

Flow ==
  /\ doomed \in Seq(ItemId) /\ Runs(todo, reg)
  /\ reg \in Locals /\ number \in Nat
  /\ tangled \in BOOLEAN /\ misused \in BOOLEAN
  /\ executed \in 0 .. MaxInstructions

Memory ==
  /\ state \in {"NONE", "FAULT"}
  /\ stack \in [eval : Seq(ItemId), alt : Seq(ItemId)]
  /\ heap \in [Live -> ItemSet] /\ Live \subseteq ItemId
  /\ items \in Int /\ uncounted \in Nat

Types == Flow /\ Memory

(* A case starts with registers that hold nothing.                         *)
LEMMA NoLocalsAreLocals == NoLocals \in Locals
BY DEF NoLocals, Locals

(* Nothing is left to do: whatever the registers hold.                     *)
LEMMA EmptyRuns == \A locals : Runs(<< >>, locals)
BY DEF Runs, Work

(* How a step goes on.                                                     *)
Proceeds == todo' \in Work /\ doomed' = << >>

(* A step that goes on keeps the control variables well typed, when the    *)
(* program it goes on with may run.                                        *)
LEMMA GoFlow ==
  ASSUME NEW dying \in Seq(ItemId), NEW program, NEW locals \in Locals,
         Runs(program, locals), NEW n \in Nat, NEW t \in BOOLEAN,
         Flow, Go(dying, program, locals, n, t), UNCHANGED <<misused, executed>>
  PROVE  Flow' /\ todo' = program /\ doomed' = dying
<1>1. doomed' = dying /\ todo' = program
  BY DEF Go
<1>2. /\ misused' = misused /\ executed' = executed
      /\ misused \in BOOLEAN /\ executed \in 0 .. MaxInstructions
  BY DEF Flow
<1>3. CASE dying = << >> /\ program = << >>
  <2>1. reg' = NoLocals /\ number' = 0 /\ tangled' = FALSE
    BY <1>3 DEF Go
  <2>2. Runs(todo', reg')
    BY <1>1, <1>3, EmptyRuns
  <2> QED
    BY <1>1, <1>2, <2>1, <2>2, NoLocalsAreLocals DEF Flow
<1>4. CASE ~(dying = << >> /\ program = << >>)
  <2>1. reg' = locals /\ number' = n /\ tangled' = t
    BY <1>4 DEF Go
  <2> QED
    BY <1>1, <1>2, <2>1 DEF Flow
<1> QED
  BY <1>3, <1>4

(* The same for a step that leaves the registers alone.                    *)
LEMMA AfterFlow ==
  ASSUME NEW dying \in Seq(ItemId), NEW program, Runs(program, reg),
         Flow, After(dying, program), UNCHANGED <<misused, executed>>
  PROVE  Flow' /\ todo' = program /\ doomed' = dying
BY GoFlow DEF After, Flow

(* And for one that deletes nothing either.                                *)
LEMMA ContinueFlow ==
  ASSUME NEW program, Runs(program, reg),
         Flow, Continue(program), UNCHANGED <<misused, executed>>
  PROVE  Flow' /\ todo' = program /\ doomed' = << >>
<1>1. << >> \in Seq(ItemId)
  OBVIOUS
<1> QED
  BY <1>1, GoFlow DEF Continue, Flow

(* The programs of the cases run whatever the registers hold.              *)
LEMMA WorkRuns == \A program \in Work : \A locals : Runs(program, locals)
BY DEF Runs

(* What is left of a program, by its first step.                           *)
LEMMA WorkLeft ==
  ASSUME Flow, todo # << >>,
         Step.op \notin {"need", "unstack", "release", "store", "mapStore"}
  PROVE  todo \in Work
<1>1. ~StoresNext(todo, reg)
  BY DEF StoresNext, Stores, Store, MapStore, Step
<1>2. todo \notin {Drop, Unstacking, Discarding}
  BY DEF Drop, Unstacking, Discarding, Need, Unstack, UnclaimAndFree, Step
<1> QED
  BY <1>1, <1>2 DEF Flow, Runs

(* Their first step is one of a case, and what follows is a program again. *)
LEMMA WorkStep ==
  ASSUME todo \in Work, todo # << >>
  PROVE  Step \in Steps \cup CopySteps /\ Rest \in Work
BY DEF Work, Step, Rest

(* The first step, when it is one of a program.                            *)
LEMMA FirstStep ==
  ASSUME Flow, todo # << >>,
         Step.op \notin {"need", "unstack", "release", "store", "mapStore", "copy"}
  PROVE  /\ Step \in Steps /\ Formed(Step) /\ Rest \in Work /\ todo \in Work
         /\ \A locals : Runs(Rest, locals)
<1>1. todo \in Work
  BY WorkLeft
<1>2. Step \in Steps \cup CopySteps /\ Rest \in Work
  BY <1>1, WorkStep
<1>3. Step \notin CopySteps
  BY DEF CopySteps, Copy
<1> QED
  BY <1>1, <1>2, <1>3, StepsAreFormed, WorkRuns

(* A program in front of a program.                                        *)
LEMMA WorkConcat ==
  ASSUME NEW f \in Seq(Steps), NEW g \in Work
  PROVE  f \o g \in Work
<1>1. f \in Work
  BY DEF Work
<1> QED
  BY <1>1 DEF Work

(* Memory that does not change keeps its type.                             *)
LEMMA MemorySame ==
  ASSUME Memory, UNCHANGED <<state, stack, heap, items, uncounted>>
  PROVE  Memory'
BY DEF Memory, Live

(* The steps that only say how the program goes on.                        *)
LEMMA ControlFlow ==
  ASSUME Flow, Control
  PROVE  Flow' /\ Proceeds
<1>1. /\ todo # << >> /\ UNCHANGED <<misused, executed>>
      /\ Step.op \in {"choose", "if", "ifMade", "check", "room", "loop", "assign",
                      "read", "number"}
  BY DEF Control, Does
<1>2. Formed(Step) /\ Rest \in Work /\ todo \in Work
  BY <1>1, FirstStep
<1>3. \A f \in Seq(Steps) : f \o Rest \in Work /\ f \o todo \in Work
  BY <1>2, WorkConcat
<1>4. \A f \in Seq(Steps) : f \in Work
  BY DEF Work
<1>5. \A locals : Runs(Rest, locals)
  BY <1>2, WorkRuns
<1>6. ASSUME NEW program \in Work, Continue(program)
      PROVE  Flow' /\ Proceeds
  BY <1>1, <1>6, ContinueFlow, WorkRuns DEF Proceeds
<1>7. CASE Branch
  <2>1. CASE Step.op = "choose" /\ \E n \in DOMAIN Step.from : Continue(Step.from[n] \o Rest)
    <3>1. \A n \in DOMAIN Step.from : Step.from[n] \in Seq(Steps)
      BY <1>2, <2>1 DEF Formed, Branches
    <3> QED
      BY <2>1, <3>1, <1>3, <1>6
  <2>2. CASE Step.op = "if" /\ Continue(IF heap[reg[Step.item]].type \in Step.types
                                        THEN Step.then \o Rest ELSE Rest)
    <3>1. Step.then \in Seq(Steps)
      BY <1>2, <2>2 DEF Formed, Branches
    <3>2. CASE heap[reg[Step.item]].type \in Step.types
      BY <3>1, <3>2, <2>2, <1>3, <1>6
    <3>3. CASE heap[reg[Step.item]].type \notin Step.types
      BY <3>3, <2>2, <1>2, <1>6
    <3> QED
      BY <3>2, <3>3
  <2>3. CASE Step.op = "ifMade" /\ Continue(IF reg[Step.item] # Null
                                            THEN Step.then \o Rest ELSE Rest)
    <3>1. Step.then \in Seq(Steps)
      BY <1>2, <2>3 DEF Formed, Branches
    <3>2. CASE reg[Step.item] # Null
      BY <3>1, <3>2, <2>3, <1>3, <1>6
    <3>3. CASE reg[Step.item] = Null
      BY <3>3, <2>3, <1>2, <1>6
    <3> QED
      BY <3>2, <3>3
  <2>4. CASE Step.op = "check" /\ Continue(IF heap[reg[Step.item]].type \in Step.types
                                           THEN Rest ELSE Step.otherwise)
    <3>1. Step.otherwise \in Seq(Steps)
      BY <1>2, <2>4 DEF Formed, Branches
    <3>2. CASE heap[reg[Step.item]].type \in Step.types
      BY <3>2, <2>4, <1>2, <1>6
    <3>3. CASE heap[reg[Step.item]].type \notin Step.types
      BY <3>1, <3>3, <2>4, <1>4, <1>6
    <3> QED
      BY <3>2, <3>3
  <2>5. CASE Step.op = "room" /\ Continue(IF Len(heap[reg[Step.item]].kids) < MaxArray
                                          THEN Rest ELSE Step.otherwise)
    <3>1. Step.otherwise \in Seq(Steps)
      BY <1>2, <2>5 DEF Formed, Branches
    <3>2. CASE Len(heap[reg[Step.item]].kids) < MaxArray
      BY <3>2, <2>5, <1>2, <1>6
    <3>3. CASE ~(Len(heap[reg[Step.item]].kids) < MaxArray)
      BY <3>1, <3>3, <2>5, <1>4, <1>6
    <3> QED
      BY <3>2, <3>3
  <2>6. CASE /\ Step.op = "loop"
             /\ IF number = 0 THEN Continue(Rest)
                ELSE Go(<< >>, Step.body \o todo, reg, number - 1, tangled)
    <3>1. Step.body \in Seq(Steps)
      BY <1>2, <2>6 DEF Formed, Branches
    <3>2. CASE number = 0
      BY <3>2, <2>6, <1>2, <1>6
    <3>3. CASE number # 0
      <4>1. /\ Go(<< >>, Step.body \o todo, reg, number - 1, tangled)
            /\ number - 1 \in Nat /\ Step.body \o todo \in Work
            /\ reg \in Locals /\ tangled \in BOOLEAN /\ << >> \in Seq(ItemId)
        BY <3>1, <3>3, <2>6, <1>3 DEF Flow
      <4> QED
        BY <4>1, <1>1, GoFlow, WorkRuns DEF Proceeds
    <3> QED
      BY <3>2, <3>3
  <2>7. CASE Step.op = "assign" /\ Assigned(Step.to, reg[Step.item])
    <3>1. Step.item \in Register
      BY <1>2, <2>7 DEF Formed, Operands
    <3>2. [reg EXCEPT ![Step.to] = reg[Step.item]] \in Locals
      BY <3>1 DEF Flow, Locals
    <3>3. Go(<< >>, Rest, [reg EXCEPT ![Step.to] = reg[Step.item]], number, tangled)
      BY <2>7 DEF Assigned
    <3>4. number \in Nat /\ tangled \in BOOLEAN /\ << >> \in Seq(ItemId)
      BY DEF Flow
    <3> QED
      BY <3>2, <3>3, <3>4, <1>1, <1>2, <1>5, GoFlow DEF Proceeds
  <2> QED
    BY <1>7, <2>1, <2>2, <2>3, <2>4, <2>5, <2>6, <2>7 DEF Branch
<1>8. CASE Step.op = "read" /\ ReadsValue
  <2>1. Step.otherwise \in Seq(Steps)
    BY <1>2, <1>8 DEF Formed, Branches
  <2>2. Continue(Step.otherwise) \/ Continue(Rest)
    BY <1>8 DEF ReadsValue
  <2> QED
    BY <2>1, <2>2, <1>4, <1>2, <1>6
<1>9. CASE Step.op = "number" /\ ReadsNumber
  <2>1. Step.otherwise \in Seq(Steps)
    BY <1>2, <1>9 DEF Formed, Branches
  <2>2. CASE Continue(Step.otherwise)
    BY <2>1, <2>2, <1>4, <1>6
  <2>3. ASSUME NEW n \in InRange(Step.range), Go(<< >>, Rest, reg, n, tangled)
        PROVE  Flow' /\ Proceeds
    <3>1. n \in Nat
      <4>1. Step.range \in RangeName
        BY <1>2, <1>9 DEF Formed, Operands
      <4>2. \A m : \A k \in 0 .. m : k \in Nat
        OBVIOUS
      <4>3. \A m : \A k \in 1 .. m : k \in Nat
        OBVIOUS
      <4>4. CASE Step.range \in {"position", "count", "size", "element"}
        <5>1. \E m : n \in 0 .. m
          BY <2>3, <4>4 DEF InRange
        <5> QED
          BY <4>2, <5>1
      <4>5. CASE Step.range = "depth"
        BY <2>3, <4>3, <4>5 DEF InRange
      <4> QED
        BY <4>1, <4>4, <4>5 DEF RangeName
    <3>2. reg \in Locals /\ tangled \in BOOLEAN /\ << >> \in Seq(ItemId)
      BY DEF Flow
    <3> QED
      BY <3>1, <3>2, <2>3, <1>1, <1>2, <1>5, GoFlow DEF Proceeds
  <2> QED
    BY <2>2, <2>3, <1>9 DEF ReadsNumber
<1> QED
  BY <1>7, <1>8, <1>9 DEF Control


----------------------------------------------------------------------------
(* Heaps: what the helpers do to the types, the elements and the claims.   *)

HeapOK(h) == h \in [DOMAIN h -> ItemSet] /\ DOMAIN h \subseteq ItemId

(* The claims of an item; none for an address with no item.                *)
Held(h, v) == IF v \in DOMAIN h THEN h[v].claims ELSE 0

Elems(h, v) == IF v \in DOMAIN h THEN h[v].kids ELSE << >>

SameKids(g, h) == \A v : Elems(g, v) = Elems(h, v)

OthersAlike(g, h, i) == \A v \in ItemId \ {i} : Elems(g, v) = Elems(h, v)

(* An item is at an address, with its elements and its claims.             *)
HasItem(h, i, item) == Elems(h, i) = item.kids /\ Held(h, i) = item.claims

(* Two heaps are alike but for one address.                                *)
AlikeBut(g, h, j) ==
  \A v : v # j => Elems(g, v) = Elems(h, v) /\ Held(g, v) = Held(h, v)

(* An item has the fields of one.                                          *)
LEMMA NewItemSet ==
  ASSUME NEW t \in Type, NEW n \in Int, NEW k \in Seq(ItemId)
  PROVE  /\ NewItem(t, n, k) \in ItemSet
         /\ NewItem(t, n, k).type = t /\ NewItem(t, n, k).claims = n
         /\ NewItem(t, n, k).kids = k
BY DEF NewItem, ItemSet

(* The fields of an item that exists.                                      *)
LEMMA ItemFields ==
  ASSUME NEW h, HeapOK(h), NEW i \in DOMAIN h
  PROVE  /\ h[i].type \in Type /\ h[i].claims \in Int /\ h[i].kids \in Seq(ItemId)
         /\ i \in ItemId
BY DEF HeapOK, ItemSet

(* What the heap holds of an item is a number, and its elements a list.    *)
LEMMA HeldType ==
  ASSUME NEW h, HeapOK(h), NEW v
  PROVE  Held(h, v) \in Int /\ Elems(h, v) \in Seq(ItemId)
<1>1. << >> \in Seq(ItemId)
  OBVIOUS
<1> QED
  BY <1>1, ItemFields DEF Held, Elems

(* Occurrences count.                                                      *)
LEMMA OccurrencesCount ==
  \A v, s : Occurrences(v, s) = Count(s, v)
BY DEF Occurrences, Count, Where

(* One claim is given up, nothing else changes.                            *)
LEMMA UnClaimHeap ==
  ASSUME NEW h, HeapOK(h), NEW i
  PROVE  /\ HeapOK(UnClaim(h, i)) /\ DOMAIN UnClaim(h, i) = DOMAIN h
         /\ SameKids(UnClaim(h, i), h)
         /\ i \in DOMAIN h =>
              \A v : Held(UnClaim(h, i), v) = Held(h, v) - One(i, v)
<1> DEFINE g == UnClaim(h, i)
<1>1. i \in DOMAIN h => /\ h[i].type \in Type /\ h[i].claims \in Int
                        /\ h[i].kids \in Seq(ItemId) /\ h[i].claims - 1 \in Int
  BY ItemFields
<1>2. /\ DOMAIN g = DOMAIN h
      /\ \A j \in DOMAIN h : g[j] = IF j = i
           THEN NewItem(h[i].type, h[i].claims - 1, h[i].kids) ELSE h[j]
      /\ g = [j \in DOMAIN h |-> g[j]]
  BY DEF UnClaim, WithClaims, HeapOK
<1>3. i \in DOMAIN h => /\ g[i] \in ItemSet /\ g[i].claims = h[i].claims - 1
                        /\ g[i].kids = h[i].kids
  <2> SUFFICES ASSUME i \in DOMAIN h
               PROVE  /\ g[i] \in ItemSet /\ g[i].claims = h[i].claims - 1
                      /\ g[i].kids = h[i].kids
    OBVIOUS
  <2>1. g[i] = NewItem(h[i].type, h[i].claims - 1, h[i].kids)
    BY <1>2
  <2> QED
    BY <2>1, <1>1, NewItemSet
<1> HIDE DEF g
<1>4. HeapOK(g)
  BY <1>2, <1>3 DEF HeapOK
<1>5. SameKids(g, h)
  BY <1>2, <1>3 DEF SameKids, Elems
<1>6. i \in DOMAIN h => \A v : Held(g, v) = Held(h, v) - One(i, v)
  <2> SUFFICES ASSUME i \in DOMAIN h, NEW v
               PROVE  Held(g, v) = Held(h, v) - One(i, v)
    OBVIOUS
  <2>1. Held(h, v) \in Int
    BY HeldType
  <2> QED
    BY <2>1, <1>2, <1>3 DEF Held, One
<1> QED
  BY <1>2, <1>4, <1>5, <1>6 DEF g

(* Each item that exists gets a claim for each of its places in a list.    *)
LEMMA ClaimAllHeap ==
  ASSUME NEW h, HeapOK(h), NEW list \in Seq(ItemId)
  PROVE  /\ HeapOK(ClaimAll(h, list)) /\ DOMAIN ClaimAll(h, list) = DOMAIN h
         /\ SameKids(ClaimAll(h, list), h)
         /\ \A v \in DOMAIN h : Held(ClaimAll(h, list), v) = Held(h, v) + Count(list, v)
<1> DEFINE g == ClaimAll(h, list)
<1>1. \A v : Occurrences(v, list) = Count(list, v) /\ Count(list, v) \in Nat
  BY OccurrencesCount, CountType
<1>2. /\ DOMAIN g = DOMAIN h
      /\ \A j \in DOMAIN h :
           g[j] = NewItem(h[j].type, h[j].claims + Count(list, j), h[j].kids)
      /\ g = [j \in DOMAIN h |-> g[j]]
  BY <1>1 DEF ClaimAll, WithClaims
<1>3. \A j \in DOMAIN h : /\ g[j] \in ItemSet
                          /\ g[j].claims = h[j].claims + Count(list, j)
                          /\ g[j].kids = h[j].kids
  <2> TAKE j \in DOMAIN h
  <2>1. g[j] = NewItem(h[j].type, h[j].claims + Count(list, j), h[j].kids)
    BY <1>2
  <2>2. /\ h[j].type \in Type /\ h[j].claims + Count(list, j) \in Int
        /\ h[j].kids \in Seq(ItemId)
    BY <1>1, ItemFields
  <2> QED
    BY <2>1, <2>2, NewItemSet
<1> HIDE DEF g
<1>4. HeapOK(g)
  BY <1>2, <1>3 DEF HeapOK
<1>5. SameKids(g, h)
  BY <1>2, <1>3 DEF SameKids, Elems
<1>6. \A v \in DOMAIN h : Held(g, v) = Held(h, v) + Count(list, v)
  BY <1>2, <1>3 DEF Held
<1> QED
  BY <1>2, <1>4, <1>5, <1>6 DEF g

(* Another list of elements.                                               *)
LEMMA HoldingHeap ==
  ASSUME NEW h, HeapOK(h), NEW i \in DOMAIN h, NEW kids \in Seq(ItemId)
  PROVE  /\ HeapOK(Holding(h, i, kids)) /\ DOMAIN Holding(h, i, kids) = DOMAIN h
         /\ Elems(Holding(h, i, kids), i) = kids
         /\ \A v : v # i => Elems(Holding(h, i, kids), v) = Elems(h, v)
         /\ \A v : Held(Holding(h, i, kids), v) = Held(h, v)
<1> DEFINE g == Holding(h, i, kids)
<1>1. h[i].type \in Type /\ h[i].claims \in Int
  BY ItemFields
<1>2. /\ DOMAIN g = DOMAIN h
      /\ \A j \in DOMAIN h : g[j] = IF j = i
           THEN NewItem(h[i].type, h[i].claims, kids) ELSE h[j]
      /\ g = [j \in DOMAIN h |-> g[j]]
  BY DEF Holding, HeapOK
<1>3. /\ g[i] \in ItemSet /\ g[i].claims = h[i].claims /\ g[i].kids = kids
  <2>1. g[i] = NewItem(h[i].type, h[i].claims, kids)
    BY <1>2
  <2> QED
    BY <2>1, <1>1, NewItemSet
<1> HIDE DEF g
<1>4. HeapOK(g)
  BY <1>2, <1>3 DEF HeapOK
<1>5. Elems(g, i) = kids /\ \A v : v # i => Elems(g, v) = Elems(h, v)
  BY <1>2, <1>3 DEF Elems
<1>6. \A v : Held(g, v) = Held(h, v)
  BY <1>2, <1>3 DEF Held
<1> QED
  BY <1>2, <1>4, <1>5, <1>6 DEF g

(* A new item.                                                             *)
LEMMA NewItemHeap ==
  ASSUME NEW h, HeapOK(h), NEW j \in ItemId \ DOMAIN h, NEW item \in ItemSet, NEW g,
         g = Making(h, j, item)
  PROVE  /\ HeapOK(g) /\ DOMAIN g = DOMAIN h \cup {j}
         /\ HasItem(g, j, item) /\ AlikeBut(g, h, j)
<1>1. /\ DOMAIN g = DOMAIN h \cup {j} /\ g[j] = item
      /\ \A v \in DOMAIN h : v # j => g[v] = h[v]
      /\ g = [v \in DOMAIN g |-> g[v]]
  BY DEF Making
<1>2. HeapOK(g)
  BY <1>1 DEF HeapOK
<1>3. Elems(g, j) = item.kids /\ \A v : v # j => Elems(g, v) = Elems(h, v)
  BY <1>1 DEF Elems
<1>4. Held(g, j) = item.claims /\ \A v : v # j => Held(g, v) = Held(h, v)
  BY <1>1 DEF Held
<1>5. AlikeBut(g, h, j)
  BY <1>3, <1>4 DEF AlikeBut
<1>6. HasItem(g, j, item)
  BY <1>3, <1>4 DEF HasItem
<1> QED
  BY <1>1, <1>2, <1>5, <1>6

(* An item is deleted that nobody claims.                                  *)
LEMMA DeletedHeap ==
  ASSUME NEW h, HeapOK(h), NEW i \in DOMAIN h, NEW g, g = [j \in DOMAIN h \ {i} |-> h[j]]
  PROVE  /\ HeapOK(g) /\ DOMAIN g = DOMAIN h \ {i} /\ AlikeBut(g, h, i)
         /\ Elems(g, i) = << >> /\ Held(g, i) = 0
BY DEF HeapOK, Elems, Held, AlikeBut

----------------------------------------------------------------------------
(* The types, action by action.                                            *)

StackType == [eval : Seq(ItemId), alt : Seq(ItemId)]

(* What most steps leave as it is: which items there are, and the count.   *)
Steady ==
  /\ Live' = Live /\ items' = items /\ uncounted' = uncounted
  /\ state' = "NONE" => state = "NONE"

(* The heap of a well-typed memory.                                        *)
LEMMA MemoryHeap == Memory => HeapOK(heap) /\ DOMAIN heap = Live /\ Live \subseteq ItemId
BY DEF Memory, HeapOK, Live

(* A heap that keeps its type keeps that of memory.                        *)
LEMMA HeapMemory ==
  ASSUME Memory, HeapOK(heap'), stack' \in StackType, state' \in {"NONE", "FAULT"},
         items' \in Int, uncounted' \in Nat
  PROVE  Memory'
BY DEF Memory, HeapOK, Live, StackType

(* Nothing in memory changes but the lists and the claims.                 *)
LEMMA HeapSteady ==
  ASSUME Memory, HeapOK(heap'), DOMAIN heap' = Live, stack' \in StackType,
         state' \in {state, "FAULT"}, UNCHANGED <<items, uncounted>>
  PROVE  Memory' /\ Steady
<1>1. state' \in {"NONE", "FAULT"} /\ items' \in Int /\ uncounted' \in Nat
  BY DEF Memory
<1>2. Memory'
  BY <1>1, HeapMemory
<1> QED
  BY <1>2 DEF Steady, Live

(* A step that changes the stacks only makes and deletes no item.          *)
LEMMA StackSteady ==
  ASSUME Memory, UNCHANGED <<heap, items, uncounted>>, stack' \in StackType,
         state' \in {state, "FAULT"}
  PROVE  Memory' /\ Steady
<1>1. HeapOK(heap) /\ DOMAIN heap = Live
  BY MemoryHeap
<1>2. HeapOK(heap') /\ DOMAIN heap' = Live
  BY <1>1 DEF Live
<1> QED
  BY <1>2, HeapSteady

(* Nor does one that changes neither stacks nor items.                     *)
LEMMA MemorySteady ==
  ASSUME Memory, UNCHANGED <<stack, heap, items, uncounted>>, state' \in {state, "FAULT"}
  PROVE  Memory' /\ Steady
<1>1. stack' \in StackType
  BY DEF Memory, StackType
<1> QED
  BY <1>1, StackSteady

(* A stack is a list of items, and another list can take its place.        *)
LEMMA StackLists ==
  ASSUME NEW st \in StackType, NEW s \in StackName
  PROVE  /\ st[s] \in Seq(ItemId)
         /\ \A l \in Seq(ItemId) :
              /\ [st EXCEPT ![s] = l] \in StackType
              /\ \A t \in StackName :
                   [st EXCEPT ![s] = l][t] = IF t = s THEN l ELSE st[t]
BY DEF StackType, StackName

(* An index in range finds an item.                                        *)
LEMMA AtType ==
  ASSUME Memory, NEW s \in StackName, NEW n \in 0 .. (Len(stack[s]) - 1)
  PROVE  /\ At(s, n) = stack[s][Len(stack[s]) - n] /\ At(s, n) \in ItemId
         /\ Len(stack[s]) - n \in 1 .. Len(stack[s])
<1>1. stack[s] \in Seq(ItemId)
  BY StackLists DEF Memory, StackType
<1>2. Len(stack[s]) - n \in 1 .. Len(stack[s])
  BY <1>1, LenProperties
<1> QED
  BY <1>1, <1>2, ElementOfSeq DEF At

(* What a step dereferences exists.                                        *)
LEMMA UsedIsLive ==
  ASSUME Defined, NEW r \in Step.uses
  PROVE  reg[r] \in Live
BY DEF Defined, Touched

(* A step that assigns a register and goes on.                             *)
LEMMA AssignedFlow ==
  ASSUME Flow, NEW r, NEW i \in ItemId \cup {Null}, \A locals : Runs(Rest, locals),
         Assigned(r, i), UNCHANGED <<misused, executed>>
  PROVE  Flow' /\ todo' = Rest /\ doomed' = << >>
<1>1. [reg EXCEPT ![r] = i] \in Locals
  BY DEF Flow, Locals
<1>3. << >> \in Seq(ItemId)
  OBVIOUS
<1>2. number \in Nat /\ tangled \in BOOLEAN
  BY DEF Flow
<1> QED
  BY <1>1, <1>2, <1>3, GoFlow DEF Assigned

(* Branches and reads keep the types, and go on with a program.            *)
LEMMA ControlTypes ==
  ASSUME Types, Control
  PROVE  Types' /\ Steady /\ Proceeds
<1>1. Flow' /\ Proceeds
  BY ControlFlow DEF Types
<1> QED
  BY <1>1, MemorySteady DEF Types, Control

(* A new case keeps the types; only DROP starts otherwise than the others. *)
LEMMA FetchTypes ==
  ASSUME Types, Fetch
  PROVE  Types' /\ Steady /\ todo' \in Work \cup {Drop} /\ doomed' = << >>
<1>1. PICK op \in Opcodes : todo' = Program(op)
  BY DEF Fetch
<1>2. /\ \A locals : Runs(Program(op), locals)
      /\ Program(op) \in Work \cup {Drop}
  <2>1. CASE op = "DROP"
    <3>1. op \in StackOpcode /\ op \notin ContainerOpcode /\ op # "CALL_ED"
      BY <2>1 DEF StackOpcode, ContainerOpcode
    <3>2. Program(op) = StackProgram(op)
      BY <3>1 DEF Program
    <3>3. StackProgram(op) = Drop
      BY <2>1 DEF StackProgram
    <3> QED
      BY <3>2, <3>3 DEF Runs
  <2>2. CASE op # "DROP"
    <3>1. Program(op) \in Seq(Steps)
      BY <2>2, ProgramsAreSteps, OpcodesAssumption
    <3>2. Program(op) \in Work
      BY <3>1 DEF Work
    <3> QED
      BY <3>2, WorkRuns
  <2> QED
    BY <2>1, <2>2
<1>3. executed' \in 0 .. MaxInstructions
  BY LifetimeAssumption DEF Fetch, Types, Flow
<1>4. Flow'
  BY <1>1, <1>2, <1>3 DEF Fetch, Types, Flow
<1> QED
  BY <1>1, <1>2, <1>4, MemorySteady DEF Types, Fetch

(* A use of a deleted item ends the case and keeps the types.              *)
LEMMA UseAfterFreeTypes ==
  ASSUME Types, UseAfterFree
  PROVE  Types' /\ Steady
<1>1. Flow'
  BY EmptyRuns, NoLocalsAreLocals DEF UseAfterFree, Types, Flow
<1> QED
  BY <1>1, MemorySteady DEF Types, UseAfterFree

(* A fault keeps the types.                                                *)
LEMMA SetFaultTypes ==
  ASSUME Types, SetFault
  PROVE  Types' /\ Steady /\ Proceeds
<1>1. todo # << >> /\ Step.op = "fault" /\ UNCHANGED <<misused, executed>>
  BY DEF SetFault, Does
<1>2. Rest \in Work /\ \A locals : Runs(Rest, locals)
  BY <1>1, FirstStep DEF Types
<1>3. Flow' /\ Proceeds
  BY <1>1, <1>2, ContinueFlow DEF Proceeds, SetFault, Types
<1> QED
  BY <1>3, MemorySteady DEF Types, SetFault

(* The check of the number of items keeps the types; in DROP what follows  *)
(* takes the item without giving up its claim.                             *)
LEMMA NeedItemsTypes ==
  ASSUME Types, NeedItems
  PROVE  Types' /\ Steady /\ todo' \in Work \cup {Unstacking} /\ doomed' = << >>
<1>1. todo # << >> /\ Step.op = "need" /\ UNCHANGED <<misused, executed>>
  BY DEF NeedItems, Does
<1>2. Rest \in Work \cup {Unstacking} /\ \A locals : Runs(Rest, locals)
  <2>1. todo \in Work \/ todo = Drop
    <3>1. ~StoresNext(todo, reg)
      BY <1>1 DEF StoresNext, Stores, Store, MapStore, Step
    <3>2. todo \notin {Unstacking, Discarding}
      BY <1>1 DEF Unstacking, Discarding, Unstack, UnclaimAndFree, Step
    <3> QED
      BY <3>1, <3>2 DEF Types, Flow, Runs
  <2>2. CASE todo \in Work
    BY <1>1, <2>2, WorkStep, WorkRuns
  <2>3. CASE todo = Drop
    <3>1. Rest = Unstacking
      BY <2>3 DEF Rest, Drop, Unstacking
    <3> QED
      BY <3>1 DEF Runs
  <2> QED
    BY <2>1, <2>2, <2>3
<1>3. Flow' /\ todo' \in Work \cup {Unstacking} /\ doomed' = << >>
  <2>1. CASE Continue(Rest)
    BY <2>1, <1>1, <1>2, ContinueFlow DEF Types
  <2>2. CASE Continue(<< >>)
    <3>1. Flow' /\ todo' = << >> /\ doomed' = << >>
      BY <2>2, <1>1, EmptyRuns, ContinueFlow DEF Types
    <3>2. << >> \in Work
      BY DEF Work
    <3> QED
      BY <3>1, <3>2
  <2> QED
    BY <2>1, <2>2 DEF NeedItems
<1>4. state' \in {state, "FAULT"}
  BY DEF NeedItems
<1> QED
  BY <1>3, <1>4, MemorySteady DEF Types, NeedItems

(* Pop and Remove keep the types.                                          *)
LEMMA TakeItemTypes ==
  ASSUME Types, TakeItem
  PROVE  Types' /\ Steady /\ Proceeds
<1> DEFINE s == Step.stack
           index == Index(Step.index)
           i == At(s, index)
           l == RemoveAt(stack[s], Len(stack[s]) - index)
<1>1. /\ todo # << >> /\ Step.op = "take" /\ Defined
      /\ UNCHANGED <<misused, executed>>
  BY DEF TakeItem, Does
<1>2. Formed(Step) /\ Rest \in Work /\ \A locals : Runs(Rest, locals)
  BY <1>1, FirstStep DEF Types
<1>3. s \in StackName /\ index \in 0 .. (Len(stack[s]) - 1)
  BY <1>1, <1>2 DEF Formed, Operands, Defined, InBounds
<1>4. i \in ItemId /\ Len(stack[s]) - index \in 1 .. Len(stack[s])
  BY <1>3, AtType DEF Types
<1>5. i \in Live
  BY <1>1 DEF Defined, Touched
<1>6. stack \in StackType /\ stack[s] \in Seq(ItemId)
  BY <1>3, StackLists DEF Types, Memory, StackType
<1>7. l \in Seq(ItemId)
  BY <1>4, <1>6, CountRemoveAt
<1>8. /\ stack' = [stack EXCEPT ![s] = l] /\ heap' = UnClaim(heap, i)
      /\ Go(<< >>, Rest, [reg EXCEPT ![Step.to] = i], number,
            tangled \/ Tangles(i, Range(reg) \ {Null}))
      /\ UNCHANGED <<state, items, uncounted>>
  BY DEF TakeItem
<1> HIDE DEF s, index, i, l
<1>9. stack' \in StackType
  BY <1>3, <1>6, <1>7, <1>8, StackLists
<1>10. HeapOK(heap') /\ DOMAIN heap' = Live
  BY <1>5, <1>8, MemoryHeap, UnClaimHeap DEF Types
<1>11. Memory' /\ Steady
  BY <1>8, <1>9, <1>10, HeapSteady DEF Types
<1>12. [reg EXCEPT ![Step.to] = i] \in Locals
  BY <1>4 DEF Types, Flow, Locals
<1>13. \A b \in BOOLEAN : Go(<< >>, Rest, [reg EXCEPT ![Step.to] = i], number, b)
         => Flow' /\ Proceeds
  <2>1. << >> \in Seq(ItemId)
    OBVIOUS
  <2>2. number \in Nat /\ Flow
    BY DEF Types, Flow
  <2> QED
    BY <1>1, <1>2, <1>12, <2>1, <2>2, GoFlow DEF Proceeds
<1>14. (tangled \/ Tangles(i, Range(reg) \ {Null})) \in BOOLEAN
  OBVIOUS
<1> QED
  BY <1>8, <1>11, <1>13, <1>14 DEF Types

(* DROP takes an item that exists and has nothing left to do but to        *)
(* release it.                                                             *)
LEMMA UnstackItemTypes ==
  ASSUME Types, UnstackItem
  PROVE  /\ Types' /\ Steady
         /\ todo = Unstacking /\ todo' = Discarding /\ doomed' = << >>
         /\ stack.eval # << >> /\ At("eval", 0) \in Live
<1>1. /\ todo # << >> /\ Step.op = "unstack" /\ Defined
      /\ UNCHANGED <<misused, executed>>
  BY DEF UnstackItem, Does
<1>2. todo = Unstacking
  <2>1. ~StoresNext(todo, reg)
    BY <1>1 DEF StoresNext, Stores, Store, MapStore, Step
  <2>2. todo \notin {Drop, Discarding}
    BY <1>1 DEF Drop, Discarding, Need, UnclaimAndFree, Step
  <2>3. todo \notin Work
    <3> SUFFICES ASSUME todo \in Work PROVE FALSE
      OBVIOUS
    <3>1. Step \in Steps \cup CopySteps
      BY <1>1, WorkStep
    <3>2. Step \notin CopySteps
      BY <1>1 DEF CopySteps, Copy
    <3>3. Formed(Step)
      BY <3>1, <3>2, StepsAreFormed
    <3> QED
      BY <1>1, <3>3 DEF Formed, Static
  <2> QED
    BY <2>1, <2>2, <2>3 DEF Types, Flow, Runs
<1>3. Rest = Discarding
  BY <1>2 DEF Unstacking, Discarding, Rest
<1>4. stack.eval # << >> /\ At("eval", 0) \in Live
  BY <1>1 DEF Defined, InBounds, Touched
<1>5. stack.eval \in Seq(ItemId) /\ Live \subseteq ItemId
  BY DEF Types, Memory
<1>6. Front(stack.eval) \in Seq(ItemId)
  BY <1>4, <1>5, CountLast
<1>7. stack' \in StackType
  BY <1>6 DEF UnstackItem, Types, Memory, StackType
<1>8. Memory' /\ Steady
  BY <1>7, StackSteady DEF UnstackItem, Types
<1>9. \A locals : Runs(Rest, locals)
  BY <1>3 DEF Runs
<1>10. Flow' /\ todo' = Discarding /\ doomed' = << >>
  BY <1>1, <1>4, <1>3, <1>5, <1>9, AssignedFlow DEF UnstackItem, Types
<1> QED
  BY <1>2, <1>4, <1>8, <1>10 DEF Types

(* Peek keeps the types.                                                   *)
LEMMA PeekItemTypes ==
  ASSUME Types, PeekItem
  PROVE  Types' /\ Steady /\ Proceeds
<1>1. /\ todo # << >> /\ Step.op = "peek" /\ Defined
      /\ UNCHANGED <<misused, executed>>
  BY DEF PeekItem, Does
<1>2. Formed(Step) /\ Rest \in Work /\ \A locals : Runs(Rest, locals)
  BY <1>1, FirstStep DEF Types
<1>3. /\ Step.stack \in StackName
      /\ Index(Step.index) \in 0 .. (Len(stack[Step.stack]) - 1)
  BY <1>1, <1>2 DEF Formed, Operands, Defined, InBounds
<1>4. At(Step.stack, Index(Step.index)) \in ItemId
  BY <1>3, AtType DEF Types
<1>5. Flow' /\ Proceeds
  BY <1>1, <1>2, <1>4, AssignedFlow DEF Proceeds, PeekItem, Types
<1> QED
  BY <1>5, MemorySteady DEF Types, PeekItem

(* Push and Insert keep the types.                                         *)
LEMMA InsertItemTypes ==
  ASSUME Types, InsertItem
  PROVE  Types' /\ Steady /\ Proceeds
<1> DEFINE s == Step.stack
           i == reg[Step.item]
           n == Len(stack[s]) - Index(Step.index) + 1
           l == InsertAt(stack[s], n, i)
           one == <<i>>
<1>1. /\ todo # << >> /\ Step.op = "insert" /\ Defined
      /\ UNCHANGED <<misused, executed>>
  BY DEF InsertItem, Does
<1>2. Formed(Step) /\ Rest \in Work /\ \A locals : Runs(Rest, locals)
  BY <1>1, FirstStep DEF Types
<1>3. /\ s \in StackName /\ Step.uses = {Step.item}
      /\ Index(Step.index) \in 0 .. Len(stack[s])
  BY <1>1, <1>2 DEF Formed, Operands, Defined, InBounds
<1>4. i \in Live /\ i \in ItemId
  BY <1>1, <1>3, UsedIsLive DEF Types, Memory
<1>5. stack \in StackType /\ stack[s] \in Seq(ItemId)
  BY <1>3, StackLists DEF Types, Memory, StackType
<1>6. n \in 1 .. Len(stack[s]) + 1
  BY <1>3, <1>5, LenProperties
<1>7. l \in Seq(ItemId) /\ one \in Seq(ItemId)
  <2>1. one \in Seq(ItemId)
    BY <1>4
  <2> HIDE DEF s, i, n
  <2>2. InsertAt(stack[s], n, i) \in Seq(ItemId)
    BY <1>4, <1>5, <1>6, CountInsertAt
  <2> QED
    BY <2>1, <2>2
<1>8. /\ stack' = [stack EXCEPT ![s] = l] /\ heap' = ClaimAll(heap, one)
      /\ Continue(Rest) /\ UNCHANGED <<state, items, uncounted>>
  BY DEF InsertItem
<1> HIDE DEF s, i, n, l, one
<1>9. stack' \in StackType
  BY <1>3, <1>5, <1>7, <1>8, StackLists
<1>10. HeapOK(heap') /\ DOMAIN heap' = Live
  BY <1>7, <1>8, MemoryHeap, ClaimAllHeap DEF Types
<1>11. Memory' /\ Steady
  BY <1>8, <1>9, <1>10, HeapSteady DEF Types
<1>12. Flow' /\ Proceeds
  BY <1>1, <1>2, <1>8, ContinueFlow DEF Proceeds, Types
<1> QED
  BY <1>11, <1>12 DEF Types

(* UNPACK pushes elements that are items.                                  *)
LEMMA PushElementsTypes ==
  ASSUME Types, PushElements
  PROVE  Types' /\ Steady /\ Proceeds
<1> DEFINE kids == heap[reg[Step.in]].kids
<1>1. /\ todo # << >> /\ Step.op = "pushAll" /\ Defined
      /\ UNCHANGED <<misused, executed>>
  BY DEF PushElements, Does
<1>2. Formed(Step) /\ Rest \in Work /\ \A locals : Runs(Rest, locals)
  BY <1>1, FirstStep DEF Types
<1>3. reg[Step.in] \in Live
  BY <1>1, <1>2, UsedIsLive DEF Formed, Operands
<1>4. kids \in Seq(ItemId)
  BY <1>3, MemoryHeap, ItemFields DEF Types
<1>5. /\ stack' = [stack EXCEPT !.eval = stack.eval \o Reverse(kids)]
      /\ heap' = ClaimAll(heap, kids)
      /\ Continue(Rest) /\ UNCHANGED <<state, items, uncounted>>
  BY DEF PushElements
<1> HIDE DEF kids
<1>6. Reverse(kids) \in Seq(ItemId)
  BY <1>4, CountReverse
<1>7. stack' \in StackType
  <2>1. "eval" \in StackName /\ stack \in StackType
    BY DEF StackName, Types, Memory, StackType
  <2>2. stack["eval"] \in Seq(ItemId)
    BY <2>1, StackLists
  <2>3. stack.eval \o Reverse(kids) \in Seq(ItemId)
    BY <1>6, <2>2, ConcatProperties
  <2> QED
    BY <1>5, <2>1, <2>3, StackLists
<1>8. HeapOK(heap') /\ DOMAIN heap' = Live
  BY <1>4, <1>5, MemoryHeap, ClaimAllHeap DEF Types
<1>9. Memory' /\ Steady
  BY <1>5, <1>7, <1>8, HeapSteady DEF Types
<1>10. Flow' /\ Proceeds
  BY <1>1, <1>2, <1>5, ContinueFlow DEF Proceeds, Types
<1> QED
  BY <1>9, <1>10 DEF Types

(* What is to be deleted is at most the item.                              *)
LEMMA FreeIfUnClaimedType ==
  ASSUME NEW h, NEW i \in ItemId
  PROVE  FreeIfUnClaimed(h, i) \in Seq(ItemId)
BY DEF FreeIfUnClaimed

(* Free in front of a program.                                             *)
LEMMA FreeSteps ==
  ASSUME NEW r \in Register, NEW program \in Work
  PROVE  <<Free(r)>> \o program \in Work
<1>1. Free(r) \in Steps
  BY LevelsAreNested DEF HasPlain
<1>2. <<Free(r)>> \in Seq(Steps)
  BY <1>1
<1> QED
  BY <1>2, WorkConcat

(* The first operand is deleted, or not.                                   *)
Freed ==
  /\ todo' \in Work
  /\ \/ doomed' = << >>
     \/ doomed' = <<reg[Step.item]>> /\ Unclaimed(Step.item)

(* Free keeps the types, and deletes at most what its register holds.      *)
LEMMA FreeOneTypes ==
  ASSUME Types, FreeOne
  PROVE  Types' /\ Steady /\ Freed
<1> DEFINE i == reg[Step.item]
           l == [reg EXCEPT ![Step.item] = Null]
           one == <<i>>
<1>1. /\ todo # << >> /\ Step.op = "free" /\ UNCHANGED <<misused, executed>>
  BY DEF FreeOne, Does
<1>2. Formed(Step) /\ Rest \in Work /\ \A locals : Runs(Rest, locals)
  BY <1>1, FirstStep DEF Types
<1>3. Step.item \in Register
  BY <1>1, <1>2 DEF Formed, Operands
<1>4. Flow' /\ Freed
  <2>1. CASE Unclaimed(Step.item)
    <3>1. Go(one, Rest, l, number, tangled)
      BY <2>1 DEF FreeOne
    <3>2. i \in ItemId /\ l \in Locals
      BY <1>3, <2>1 DEF Unclaimed, Types, Flow, Locals
    <3>3. one \in Seq(ItemId) /\ Runs(Rest, l)
      BY <1>2, <3>2
    <3>4. number \in Nat /\ tangled \in BOOLEAN /\ Flow
      BY DEF Types, Flow
    <3> HIDE DEF one, l
    <3>5. Flow' /\ todo' = Rest /\ doomed' = one
      BY <1>1, <3>1, <3>2, <3>3, <3>4, GoFlow
    <3> QED
      BY <1>2, <2>1, <3>5 DEF one, Freed
  <2>2. CASE ~Unclaimed(Step.item)
    BY <2>2, <1>1, <1>2, ContinueFlow DEF FreeOne, Types, Freed
  <2> QED
    BY <2>1, <2>2
<1> QED
  BY <1>4, MemorySteady DEF Types, FreeOne

(* UnclaimAndFree keeps the types; but for CALL_ED only DROP calls it from *)
(* a case.                                                                 *)
LEMMA ReleaseTypes ==
  ASSUME Types, Release
  PROVE  /\ Types' /\ Steady
         /\ todo' = Rest /\ doomed' = FreeIfUnClaimed(heap', reg[Step.item])
         /\ todo = Discarding \/ "CALL_ED" \in Opcodes
<1> DEFINE i == reg[Step.item]
           h == UnClaim(heap, i)
           dying == FreeIfUnClaimed(h, i)
<1>1. /\ todo # << >> /\ Step.op = "release" /\ Defined
      /\ UNCHANGED <<misused, executed>>
  BY DEF Release, Does
<1>2. todo = Discarding \/ todo \in Work
  <2>1. ~StoresNext(todo, reg)
    BY <1>1 DEF StoresNext, Stores, Store, MapStore, Step
  <2>2. todo \notin {Drop, Unstacking}
    BY <1>1 DEF Drop, Unstacking, Need, Unstack, Step
  <2> QED
    BY <2>1, <2>2 DEF Types, Flow, Runs
<1>3. /\ Step.uses = {Step.item} /\ \A locals : Runs(Rest, locals)
      /\ todo = Discarding \/ "CALL_ED" \in Opcodes
  <2>1. CASE todo = Discarding
    <3>1. Step = UnclaimAndFree("x1") /\ Rest = << >>
      BY <2>1 DEF Discarding, Step, Rest
    <3> QED
      BY <2>1, <3>1, EmptyRuns DEF UnclaimAndFree
  <2>2. CASE todo \in Work
    <3>1. Step \in Steps \cup CopySteps /\ Rest \in Work
      BY <1>1, <2>2, WorkStep
    <3>2. Step \notin CopySteps
      BY <1>1 DEF CopySteps, Copy
    <3>3. Formed(Step)
      BY <3>1, <3>2, StepsAreFormed
    <3> QED
      BY <1>1, <3>1, <3>3, WorkRuns DEF Formed, Operands, Static
  <2> QED
    BY <1>2, <2>1, <2>2
<1>4. i \in Live /\ i \in ItemId
  BY <1>1, <1>3, UsedIsLive DEF Types, Memory
<1>5. heap' = h /\ After(dying, Rest) /\ UNCHANGED <<state, stack, items, uncounted>>
  BY DEF Release
<1>6. dying \in Seq(ItemId)
  BY <1>4, FreeIfUnClaimedType
<1>7. HeapOK(h) /\ DOMAIN h = Live
  BY <1>4, UnClaimHeap, MemoryHeap DEF Types
<1> HIDE DEF i, h, dying
<1>8. stack' \in StackType
  BY <1>5 DEF Types, Memory, StackType
<1>9. Memory' /\ Steady
  BY <1>5, <1>7, <1>8, HeapSteady DEF Types
<1>10. Flow' /\ todo' = Rest /\ doomed' = dying
  BY <1>1, <1>3, <1>5, <1>6, AfterFlow DEF Types
<1> QED
  BY <1>3, <1>5, <1>9, <1>10 DEF Types, dying, i

(* Free of two variables keeps the types.                                  *)
LEMMA FreeTwoTypes ==
  ASSUME Types, FreeTwo
  PROVE  Types' /\ Steady /\ Freed
<1> DEFINE a == reg[Step.item]
           second == <<Free(Step.other)>>
           left == (IF reg[Step.other] = a THEN << >> ELSE second) \o Rest
           l == [r \in Register |->
                   IF r \in {Step.item, Step.other} /\ reg[r] = a THEN Null
                   ELSE reg[r]]
           one == <<a>>
<1>1. /\ todo # << >> /\ Step.op = "free2" /\ UNCHANGED <<misused, executed>>
  BY DEF FreeTwo, Does
<1>2. Formed(Step) /\ Rest \in Work
  BY <1>1, FirstStep DEF Types
<1>3. Step.item \in Register /\ Step.other \in Register
  BY <1>1, <1>2 DEF Formed, Operands
<1>4. second \o Rest \in Work /\ << >> \o Rest \in Work
  BY <1>2, <1>3, FreeSteps DEF Work
<1>5. left \in Work
  BY <1>4
<1>6. \A program \in Work : \A locals : Runs(program, locals)
  BY WorkRuns
<1>7. Flow' /\ Freed
  <2>1. CASE Unclaimed(Step.item)
    <3>1. Go(one, left, l, number, tangled)
      BY <2>1 DEF FreeTwo
    <3>2. a \in ItemId /\ l \in Locals
      BY <1>3, <2>1 DEF Unclaimed, Types, Flow, Locals
    <3>3. one \in Seq(ItemId) /\ Runs(left, l)
      BY <1>5, <1>6, <3>2
    <3>4. number \in Nat /\ tangled \in BOOLEAN /\ Flow
      BY DEF Types, Flow
    <3> HIDE DEF one, l, left
    <3>5. Flow' /\ todo' = left /\ doomed' = one
      BY <1>1, <3>1, <3>2, <3>3, <3>4, GoFlow
    <3> QED
      BY <1>5, <2>1, <3>5 DEF one, Freed
  <2>2. CASE ~Unclaimed(Step.item)
    <3>1. Continue(second \o Rest) /\ Runs(second \o Rest, reg)
      BY <2>2, <1>4, <1>6 DEF FreeTwo
    <3> HIDE DEF second
    <3> QED
      BY <3>1, <1>1, <1>4, ContinueFlow DEF Types, Freed, second
  <2> QED
    BY <2>1, <2>2
<1> QED
  BY <1>7, MemorySteady DEF Types, FreeTwo

(* Free of three variables goes on with some Frees of them.                *)
LEMMA FreeThreeGoes ==
  ASSUME FreeThree
  PROVE  \E f \in Seq({Free(Step.item), Free(Step.other), Free(Step.third)}) :
           Continue(f \o Rest)
<1> DEFINE a == Step.item
           b == Step.other
           c == Step.third
           same(r, s) == reg[r] # Null /\ reg[r] = reg[s]
           S == {Free(a), Free(b), Free(c)}
<1>1. /\ <<Free(a)>> \in Seq(S) /\ <<Free(a), Free(c)>> \in Seq(S)
      /\ <<Free(b), Free(a)>> \in Seq(S) /\ <<Free(a), Free(b)>> \in Seq(S)
      /\ <<Free(a), Free(b), Free(c)>> \in Seq(S)
  OBVIOUS
<1>2. CASE same(a, b) /\ reg[b] = reg[c]
  <2>1. Continue(<<Free(a)>> \o Rest)
    BY <1>2 DEF FreeThree
  <2> QED
    BY <2>1, <1>1
<1>3. CASE same(a, b) /\ reg[b] # reg[c]
  <2>1. Continue(<<Free(a), Free(c)>> \o Rest)
    BY <1>3 DEF FreeThree
  <2> QED
    BY <2>1, <1>1
<1>4. CASE ~same(a, b) /\ same(b, c)
  <2>1. ~(same(a, b) /\ reg[b] = reg[c]) /\ ~(same(a, b) /\ reg[b] # reg[c])
        /\ ~(~same(a, b) /\ same(a, c))
    BY <1>4
  <2>2. Continue(<<Free(b), Free(a)>> \o Rest)
    BY <1>4, <2>1 DEF FreeThree
  <2> QED
    BY <2>2, <1>1
<1>5. CASE ~same(a, b) /\ same(a, c)
  <2>1. ~(same(a, b) /\ reg[b] = reg[c]) /\ ~(same(a, b) /\ reg[b] # reg[c])
        /\ ~(~same(a, b) /\ same(b, c))
    BY <1>5
  <2>2. Continue(<<Free(a), Free(b)>> \o Rest)
    BY <1>5, <2>1 DEF FreeThree
  <2> QED
    BY <2>2, <1>1
<1>6. CASE ~same(a, b) /\ ~same(b, c) /\ ~same(a, c)
  <2>1. Continue(<<Free(a), Free(b), Free(c)>> \o Rest)
    BY <1>6 DEF FreeThree
  <2> QED
    BY <2>1, <1>1
<1> QED
  BY <1>2, <1>3, <1>4, <1>5, <1>6

(* Free of three variables keeps the types.                                *)
LEMMA FreeThreeTypes ==
  ASSUME Types, FreeThree
  PROVE  Types' /\ Steady /\ Proceeds
<1> DEFINE a == Step.item
           b == Step.other
           c == Step.third
<1>1. /\ todo # << >> /\ Step.op = "free3" /\ UNCHANGED <<misused, executed>>
  BY DEF FreeThree, Does
<1>2. Formed(Step) /\ Rest \in Work
  BY <1>1, FirstStep DEF Types
<1>3. a \in Register /\ b \in Register /\ c \in Register
  BY <1>1, <1>2 DEF Formed, Operands
<1>4. Free(a) \in Steps /\ Free(b) \in Steps /\ Free(c) \in Steps
  BY <1>3, LevelsAreNested DEF HasPlain
<1>5. Seq({Free(a), Free(b), Free(c)}) \subseteq Seq(Steps)
  BY <1>4
<1>6. PICK f \in Seq(Steps) : Continue(f \o Rest)
  BY <1>5, FreeThreeGoes
<1>7. f \o Rest \in Work /\ Runs(f \o Rest, reg)
  BY <1>2, WorkConcat, WorkRuns
<1>8. Flow' /\ Proceeds
  BY <1>1, <1>6, <1>7, ContinueFlow DEF Proceeds, Types
<1> QED
  BY <1>8, MemorySteady DEF Types, FreeThree

(* The heap without the item, or without its first element.                *)
LEMMA DeleteItemTypes ==
  ASSUME Types, DeleteItem
  PROVE  Types'
<1> DEFINE i == Head(doomed)
           kids == heap[i].kids
           g == [j \in Live \ {i} |-> heap[j]]
           h1 == Holding(heap, i, Tail(kids))
           h == UnClaim(h1, Head(kids))
           dying == FreeIfUnClaimed(h, Head(kids))
<1>1. /\ doomed # << >> /\ Dying \subseteq Live /\ i \in Live
      /\ UNCHANGED <<state, stack, misused, uncounted, executed>>
  BY DEF DeleteItem, Dying
<1>2. HeapOK(heap) /\ DOMAIN heap = Live /\ i \in ItemId /\ kids \in Seq(ItemId)
  BY <1>1, MemoryHeap, ItemFields DEF Types
<1>3. doomed \in Seq(ItemId) /\ Runs(todo, reg) /\ Flow
  BY DEF Types, Flow
<1>4. Tail(doomed) \in Seq(ItemId)
  BY <1>1, <1>3, HeadTailProperties
<1>5. stack' \in StackType /\ state' \in {"NONE", "FAULT"} /\ uncounted' \in Nat
      /\ items \in Int
  BY <1>1 DEF Types, Memory, StackType
<1>6. CASE kids = << >>
  <2>1. heap' = g /\ items' = items - 1 /\ After(Tail(doomed), todo)
    BY <1>6 DEF DeleteItem
  <2>2. HeapOK(g)
    BY <1>1, <1>2, DeletedHeap
  <2> HIDE DEF g
  <2>3. Memory'
    BY <1>5, <2>1, <2>2, HeapMemory DEF Types
  <2>4. Flow'
    BY <1>1, <1>3, <1>4, <2>1, AfterFlow
  <2> QED
    BY <2>3, <2>4 DEF Types
<1>7. CASE kids # << >>
  <2>1. heap' = h /\ items' = items /\ After(dying \o doomed, todo)
    BY <1>7 DEF DeleteItem
  <2>2. Head(kids) \in Live /\ Tail(kids) \in Seq(ItemId) /\ Head(kids) \in ItemId
    <3>1. Head(kids) \in Dying
      BY <1>1, <1>7 DEF Dying
    <3> QED
      BY <3>1, <1>1, <1>2, <1>7, HeadTailProperties
  <2> HIDE DEF kids
  <2>3. HeapOK(h1) /\ DOMAIN h1 = Live
    BY <1>1, <1>2, <2>2, HoldingHeap
  <2> HIDE DEF h1
  <2>4. HeapOK(h)
    BY <2>2, <2>3, UnClaimHeap
  <2>5. dying \in Seq(ItemId)
    BY <2>2, FreeIfUnClaimedType
  <2> HIDE DEF h, dying
  <2>6. dying \o doomed \in Seq(ItemId)
    BY <1>3, <2>5, ConcatProperties
  <2>7. Memory'
    BY <1>5, <2>1, <2>4, HeapMemory DEF Types
  <2>8. Flow'
    BY <1>1, <1>3, <2>1, <2>6, AfterFlow
  <2> QED
    BY <2>7, <2>8 DEF Types
<1> QED
  BY <1>6, <1>7

(* The addresses that are chosen are free, and no two are the same.        *)
NewIds(n, new, free) ==
  /\ new \in [1 .. n -> free]
  /\ \A k, l \in 1 .. n : new[k] = new[l] => k = l

(* As many different addresses as are asked for, when there are enough.    *)
LEMMA FreshIdsAreNew ==
  ASSUME NEW n \in Nat, n <= Cardinality(Fresh)
  PROVE  NewIds(n, FreshIds(n), Fresh)
<1>1. IsFiniteSet(Fresh)
  BY LifetimeAssumption, FS_Subset DEF Fresh
<1>2. Cardinality(Fresh) \in Nat /\ ExistsBijection(1 .. Cardinality(Fresh), Fresh)
  BY <1>1, FS_CardinalityType
<1>3. PICK f \in Bijection(1 .. Cardinality(Fresh), Fresh) : TRUE
  BY <1>2 DEF ExistsBijection
<1>4. /\ f \in [1 .. Cardinality(Fresh) -> Fresh]
      /\ \A k, l \in 1 .. Cardinality(Fresh) : f[k] = f[l] => k = l
  BY <1>3 DEF Bijection, Injection, IsInjective, Surjection
<1> DEFINE g == [k \in 1 .. n |-> f[k]]
<1>5. \A k \in 1 .. n : k \in 1 .. Cardinality(Fresh)
  BY <1>2
<1>6. g \in [1 .. n -> Fresh] /\ \A k, l \in 1 .. n : g[k] = g[l] => k = l
  BY <1>4, <1>5
<1>7. \E h \in [1 .. n -> Fresh] : \A k, l \in 1 .. n : h[k] = h[l] => k = l
  <2> HIDE DEF g
  <2> QED
    BY <1>6
<1> QED
  BY <1>7 DEF NewIds, FreshIds

(* A fresh address is that of no item.                                     *)
LEMMA FreshIsFree == \A v \in Fresh : v \in ItemId \ Live
BY DEF Fresh

(* A new item, and new elements that it alone claims.                      *)
Made(h, t, new) ==
  [i \in DOMAIN h \cup Range(new) |->
     IF i \in DOMAIN h THEN h[i]
     ELSE IF i = new[1] THEN NewItem(t, 0, Tail(new))
          ELSE NewItem("Value", 1, << >>)]

(* A heap with a new container and its elements: each of them has one more *)
(* place, and all others what they had.                                    *)
LEMMA MadeHeap ==
  ASSUME NEW h, HeapOK(h), NEW t \in Type, NEW m \in Nat, NEW new,
         NewIds(m + 1, new, ItemId \ DOMAIN h)
  PROVE  /\ HeapOK(Made(h, t, new))
         /\ DOMAIN Made(h, t, new) = DOMAIN h \cup Range(new)
         /\ new[1] \in ItemId \ DOMAIN h /\ Tail(new) \in Seq(ItemId)
         /\ Elems(Made(h, t, new), new[1]) = Tail(new)
         /\ OthersAlike(Made(h, t, new), h, new[1])
         /\ \A v : Held(Made(h, t, new), v) = Held(h, v) + Count(Tail(new), v)
         /\ DOMAIN h \cap Range(new) = {}
         /\ IsFiniteSet(Range(new)) /\ Cardinality(Range(new)) = m + 1
<1> DEFINE g == Made(h, t, new)
           rest == Tail(new)
<1>1. /\ new \in [1 .. m + 1 -> ItemId \ DOMAIN h] /\ DOMAIN new = 1 .. m + 1
      /\ \A k, l \in 1 .. m + 1 : new[k] = new[l] => k = l
  BY DEF NewIds
<1>2. new \in Seq(ItemId) /\ Len(new) = m + 1 /\ new # << >>
  BY <1>1
<1>3. /\ rest \in Seq(ItemId) /\ Len(rest) = m /\ DOMAIN rest = 1 .. m
      /\ \A k \in 1 .. m : rest[k] = new[k + 1]
  <2>1. rest \in Seq(ItemId) /\ Len(rest) = Len(new) - 1
        /\ \A k \in 1 .. Len(rest) : rest[k] = new[k + 1]
    BY <1>2, HeadTailProperties
  <2>2. DOMAIN rest = 1 .. Len(rest)
    BY <2>1, LenProperties
  <2>3. Len(rest) = m
    BY <1>2, <2>1
  <2> QED
    BY <2>1, <2>2, <2>3
<1> DEFINE item == NewItem(t, 0, rest)
           element == NewItem("Value", 1, << >>)
<1>4. item \in ItemSet /\ item.kids = rest /\ item.claims = 0
  <2> HIDE DEF rest
  <2> QED
    BY <1>3 DEF NewItem, ItemSet
<1>5. element \in ItemSet /\ element.kids = << >> /\ element.claims = 1
  <2>1. << >> \in Seq(ItemId) /\ "Value" \in Type
    BY Names
  <2> QED
    BY <2>1 DEF NewItem, ItemSet
<1>6. /\ DOMAIN g = DOMAIN h \cup Range(new)
      /\ \A i \in DOMAIN g : g[i] = IF i \in DOMAIN h THEN h[i]
                                    ELSE IF i = new[1] THEN item ELSE element
      /\ g = [i \in DOMAIN g |-> g[i]]
  BY DEF Made
<1> HIDE DEF g, rest, item, element
<1>7. \A i \in Range(new) : i \in ItemId \ DOMAIN h
  BY <1>1 DEF Range
<1>8. 1 \in 1 .. m + 1 /\ new[1] \in Range(new)
  BY <1>1 DEF Range
<1>9. HeapOK(g)
  <2>1. \A i \in DOMAIN g : g[i] \in ItemSet
    BY <1>4, <1>5, <1>6 DEF HeapOK
  <2>2. DOMAIN g \subseteq ItemId
    BY <1>6, <1>7 DEF HeapOK
  <2> QED
    BY <1>6, <2>1, <2>2 DEF HeapOK
<1>10. Elems(g, new[1]) = rest
  BY <1>4, <1>6, <1>7, <1>8 DEF Elems
<1>11. \A v : v # new[1] => Elems(g, v) = Elems(h, v)
  BY <1>5, <1>6 DEF Elems
<1>12. ASSUME NEW v
       PROVE  Held(g, v) = Held(h, v) + Count(rest, v)
  <2>1. CASE \E k \in 1 .. m : v = new[k + 1]
    <3>1. PICK k \in 1 .. m : v = new[k + 1]
      BY <2>1
    <3>2. k + 1 \in 1 .. m + 1 /\ k + 1 # 1
      OBVIOUS
    <3>3. v \in Range(new) /\ v # new[1] /\ v \notin DOMAIN h
      BY <1>1, <1>7, <1>8, <3>1, <3>2 DEF Range
    <3>4. Where(rest, v) = {k}
      <4>1. \A l \in 1 .. m : rest[l] = v => l = k
        <5> TAKE l \in 1 .. m
        <5>1. rest[l] = new[l + 1] /\ l + 1 \in 1 .. m + 1
          BY <1>3
        <5>2. rest[l] = v => l + 1 = k + 1
          BY <5>1, <3>1, <3>2, <1>1
        <5> QED
          BY <5>2
      <4> QED
        BY <4>1, <3>1, <1>3 DEF Where
    <3>5. Count(rest, v) = 1
      BY <3>4, FS_Singleton DEF Count
    <3> QED
      BY <3>3, <3>5, <1>5, <1>6 DEF Held
  <2>2. CASE ~ \E k \in 1 .. m : v = new[k + 1]
    <3>1. Where(rest, v) = {}
      BY <1>3, <2>2 DEF Where
    <3>2. Count(rest, v) = 0
      BY <3>1, FS_EmptySet DEF Count
    <3>3. v \in Range(new) => v = new[1]
      <4>1. \A k \in 1 .. m + 1 : k = 1 \/ (k - 1 \in 1 .. m /\ k - 1 + 1 = k)
        OBVIOUS
      <4>2. \A k \in 1 .. m + 1 : k # 1 => new[k] # v
        BY <4>1, <2>2
      <4> QED
        BY <4>2, <1>1 DEF Range
    <3>4. Held(g, v) = Held(h, v)
      BY <3>3, <1>4, <1>6, <1>7, <1>8 DEF Held
    <3>5. Held(h, v) \in Int
      BY HeldType
    <3> QED
      BY <3>2, <3>4, <3>5
  <2> QED
    BY <2>1, <2>2
<1>13. IsFiniteSet(Range(new)) /\ Cardinality(Range(new)) = m + 1
  <2>1. /\ new \in [1 .. m + 1 -> Range(new)]
        /\ \A k, l \in 1 .. m + 1 : new[k] = new[l] => k = l
        /\ \A i \in Range(new) : \E k \in 1 .. m + 1 : new[k] = i
    BY <1>1 DEF Range
  <2>2. ExistsBijection(1 .. m + 1, Range(new))
    BY <2>1, Fun_IsBij DEF ExistsBijection
  <2>3. IsFiniteSet(1 .. m + 1) /\ Cardinality(1 .. m + 1) = m + 1
    BY FS_Interval
  <2> QED
    BY <2>2, <2>3, FS_Bijection
<1>14. new[1] \in ItemId \ DOMAIN h /\ DOMAIN h \cap Range(new) = {}
  BY <1>7, <1>8
<1>15. OthersAlike(g, h, new[1])
  BY <1>11 DEF OthersAlike
<1> QED
  BY <1>3, <1>6, <1>9, <1>10, <1>12, <1>13, <1>14, <1>15 DEF g, rest

(* The counter is asked, and an item is made or the engine faults.         *)
Creation ==
  \/ /\ state' = "FAULT" /\ heap' = heap /\ Assigned(Step.to, Null)
  \/ /\ state' = state
     /\ \E m \in Nat : \E new : /\ NewIds(m + 1, new, ItemId \ Live)
                              /\ heap' = Made(heap, Step.type, new)
                              /\ items' = items + m + 1
                              /\ Assigned(Step.to, new[1])

(* The creators keep the types and either make an item with its elements   *)
(* or fault.                                                               *)
LEMMA CreateItemTypes ==
  ASSUME Types, CreateItem
  PROVE  /\ Types' /\ Proceeds /\ Creation /\ uncounted' = uncounted /\ stack' = stack
         /\ Step.type \in Type
<1> DEFINE size == IF Step.elements THEN number ELSE 0
           new == FreshIds(size + 1)
<1>1. /\ todo # << >> /\ Step.op = "create" /\ UNCHANGED <<misused, executed>>
      /\ uncounted' = uncounted /\ stack' = stack
  BY DEF CreateItem, Does
<1>2. Formed(Step) /\ Rest \in Work /\ \A locals : Runs(Rest, locals)
  BY <1>1, FirstStep DEF Types
<1>3. Step.type \in Type /\ Step.elements \in BOOLEAN
  BY <1>1, <1>2 DEF Formed, Operands
<1>4. HeapOK(heap) /\ DOMAIN heap = Live /\ Flow
  BY MemoryHeap DEF Types
<1>5. number \in Nat /\ items \in Int /\ uncounted \in Nat /\ stack \in StackType
      /\ state \in {"NONE", "FAULT"}
  BY DEF Types, Flow, Memory, StackType
<1>6. size \in Nat /\ items' = items + size + 1
  BY <1>3, <1>5 DEF CreateItem, Increment
<1>7. CASE items' > MaxItems
  <2>1. state' = "FAULT" /\ Assigned(Step.to, Null) /\ heap' = heap
    BY <1>7 DEF CreateItem
  <2>2. Flow' /\ Proceeds
    BY <1>1, <1>2, <1>4, <2>1, AssignedFlow DEF Proceeds
  <2>3. HeapOK(heap') /\ stack' \in StackType /\ items' \in Int
    BY <1>1, <1>4, <1>5, <1>6, <2>1
  <2>4. Memory'
    BY <1>1, <1>5, <2>1, <2>3, HeapMemory DEF Types
  <2> QED
    BY <1>1, <1>3, <2>1, <2>2, <2>4 DEF Types, Creation
<1>8. CASE ~(items' > MaxItems)
  <2>1. /\ Cardinality(Fresh) > size /\ Assigned(Step.to, new[1])
        /\ heap' = Made(heap, Step.type, new) /\ state' = state
    BY <1>8 DEF CreateItem, Made, Live
  <2>2. size + 1 <= Cardinality(Fresh)
    <3>1. Cardinality(Fresh) \in Nat
      BY LifetimeAssumption, FS_Subset, FS_CardinalityType DEF Fresh
    <3> QED
      BY <1>6, <2>1, <3>1
  <2>3. NewIds(size + 1, new, Fresh)
    BY <1>6, <2>2, FreshIdsAreNew
  <2>4. NewIds(size + 1, new, ItemId \ Live)
    BY <2>3, FreshIsFree DEF NewIds
  <2> HIDE DEF new, size
  <2>5. HeapOK(heap') /\ new[1] \in ItemId
    BY <1>3, <1>4, <1>6, <2>1, <2>4, MadeHeap
  <2>6. Flow' /\ Proceeds
    BY <1>1, <1>2, <1>4, <2>1, <2>5, AssignedFlow DEF Proceeds
  <2>7. stack' \in StackType /\ items' \in Int
    BY <1>1, <1>5, <1>6
  <2>8. Memory'
    BY <1>1, <1>5, <2>1, <2>5, <2>7, HeapMemory DEF Types
  <2>9. Creation
    BY <1>6, <2>1, <2>4 DEF Creation
  <2> QED
    BY <1>1, <1>3, <2>6, <2>8, <2>9 DEF Types
<1> QED
  BY <1>7, <1>8

(* A step that stores an element is the first one.                         *)
LEMMA StoreStep ==
  ASSUME Types, todo # << >>, Step.op \in {"store", "mapStore"}
  PROVE  /\ Step \in Stores /\ Rest \in Work /\ \A locals : Runs(Rest, locals)
         /\ reg[Step.item] \in ItemId /\ Step.index \in Nat /\ Step.in \in Step.uses
         /\ Step.op = "mapStore" => Step.item \in Step.uses
<1>1. todo \notin {Drop, Unstacking, Discarding}
  BY DEF Drop, Unstacking, Discarding, Need, Unstack, UnclaimAndFree, Step
<1>2. todo \notin Work
  <2> SUFFICES ASSUME todo \in Work PROVE FALSE
    OBVIOUS
  <2>1. Step \in Steps \cup CopySteps
    BY WorkStep
  <2>2. Step \notin CopySteps
    BY DEF CopySteps, Copy
  <2>3. Formed(Step)
    BY <2>1, <2>2, StepsAreFormed
  <2> QED
    BY <2>3 DEF Formed, Static
<1>3. StoresNext(todo, reg)
  BY <1>1, <1>2 DEF Types, Flow, Runs
<1>4. Step \in Stores /\ Rest \in Work /\ reg[Step.item] \in ItemId
  BY <1>3 DEF StoresNext, Step, Rest
<1>5. /\ Step.index \in Nat /\ Step.in \in Step.uses
      /\ Step.op = "mapStore" => Step.item \in Step.uses
  BY <1>4 DEF Stores, Store, MapStore
<1> QED
  BY <1>4, <1>5, WorkRuns

(* A container whose element is being replaced waits for the new one: the  *)
(* step in front of the program may run.                                   *)
LEMMA StoreRuns ==
  ASSUME NEW s \in Stores, NEW program \in Work, reg[s.item] \in ItemId
  PROVE  /\ Runs(<<s>> \o program, reg) /\ Head(<<s>> \o program) = s
         /\ Tail(<<s>> \o program) = program /\ <<s>> \o program # << >>
<1>1. Head(<<s>> \o program) = s /\ Tail(<<s>> \o program) = program
      /\ <<s>> \o program # << >>
  BY DEF Work
<1> QED
  BY <1>1 DEF Runs, StoresNext

(* The list a step works on.                                               *)
LEMMA ListStep ==
  ASSUME Types, todo # << >>, Defined,
         Step.op \in {"get", "add", "set", "erase", "reverse", "mapGet", "mapSet",
                      "mapRemove", "fill", "store", "mapStore"}
  PROVE  /\ In \in Live /\ Elements \in Seq(ItemId) /\ Rest \in Work
         /\ HeapOK(heap) /\ DOMAIN heap = Live /\ Live \subseteq ItemId
         /\ \A locals : Runs(Rest, locals)
         /\ Elems(heap, In) = Elements
<1>1. /\ Step.in \in Step.uses /\ Rest \in Work
      /\ \A locals : Runs(Rest, locals)
  <2>1. CASE Step.op \in {"store", "mapStore"}
    BY <2>1, StoreStep
  <2>2. CASE Step.op \notin {"store", "mapStore"}
    <3>1. Formed(Step) /\ Rest \in Work /\ \A locals : Runs(Rest, locals)
      BY <2>2, FirstStep DEF Types
    <3> QED
      BY <2>2, <3>1 DEF Formed, Operands
  <2> QED
    BY <2>1, <2>2
<1>2. In \in Live
  BY <1>1, UsedIsLive DEF In
<1>3. HeapOK(heap) /\ DOMAIN heap = Live /\ Live \subseteq ItemId
  BY MemoryHeap DEF Types
<1>4. Elements \in Seq(ItemId) /\ Elems(heap, In) = Elements
  BY <1>2, <1>3, ItemFields DEF Elements, Elems
<1> QED
  BY <1>1, <1>2, <1>3, <1>4

(* Get keeps the types.                                                    *)
LEMMA GetElementTypes ==
  ASSUME Types, GetElement
  PROVE  Types' /\ Steady /\ Proceeds
<1>1. /\ todo # << >> /\ Step.op = "get" /\ Defined
      /\ UNCHANGED <<misused, executed>>
  BY DEF GetElement, Does
<1>2. In \in Live /\ Elements \in Seq(ItemId) /\ Rest \in Work /\ \A locals : Runs(Rest, locals)
  BY <1>1, ListStep
<1>3. number \in 0 .. (Len(Elements) - 1)
  BY <1>1, <1>2 DEF Defined, InBounds, Types, Flow
<1>4. Elements[number + 1] \in ItemId
  BY <1>2, <1>3
<1>5. Flow' /\ Proceeds
  BY <1>1, <1>2, <1>4, AssignedFlow DEF Proceeds, GetElement, Types
<1> QED
  BY <1>5, MemorySteady DEF Types, GetElement

(* A list of one item.                                                     *)
LEMMA OneItem ==
  ASSUME NEW i \in ItemId
  PROVE  /\ <<i>> \in Seq(ItemId) /\ \A v : Count(<<i>>, v) = One(i, v)
BY CountSingle

(* Add keeps the types.                                                    *)
LEMMA AddElementTypes ==
  ASSUME Types, AddElement
  PROVE  Types' /\ Steady /\ Proceeds
<1> DEFINE i == reg[Step.item]
           one == <<i>>
           l == Append(Elements, i)
           h == Holding(heap, In, l)
<1>1. /\ todo # << >> /\ Step.op = "add" /\ Defined
      /\ UNCHANGED <<misused, executed>>
  BY DEF AddElement, Does
<1>2. /\ In \in Live /\ Elements \in Seq(ItemId) /\ Rest \in Work /\ \A locals : Runs(Rest, locals)
      /\ HeapOK(heap) /\ DOMAIN heap = Live /\ Live \subseteq ItemId
  BY <1>1, ListStep
<1>3. i \in Live /\ i \in ItemId
  <2>1. Formed(Step)
    BY <1>1, FirstStep DEF Types
  <2>2. Step.item \in Step.uses
    BY <1>1, <2>1 DEF Formed, Operands
  <2> QED
    BY <1>1, <1>2, <2>2, UsedIsLive
<1>4. one \in Seq(ItemId) /\ l \in Seq(ItemId)
  BY <1>2, <1>3
<1>5. heap' = ClaimAll(h, one) /\ Continue(Rest)
      /\ UNCHANGED <<state, stack, items, uncounted>>
  BY DEF AddElement
<1> HIDE DEF i, one, l
<1>6. HeapOK(h) /\ DOMAIN h = Live
  BY <1>2, <1>4, HoldingHeap
<1> HIDE DEF h
<1>7. HeapOK(heap') /\ DOMAIN heap' = Live
  BY <1>4, <1>5, <1>6, ClaimAllHeap
<1>8. stack' \in StackType
  BY <1>5 DEF Types, Memory, StackType
<1>9. Memory' /\ Steady
  BY <1>5, <1>7, <1>8, HeapSteady DEF Types
<1>10. Flow' /\ Proceeds
  BY <1>1, <1>2, <1>5, ContinueFlow DEF Proceeds, Types
<1> QED
  BY <1>9, <1>10 DEF Types

(* Set keeps the types; it has the new element still to store, and perhaps *)
(* the old one to delete.                                                  *)
LEMMA SetElementTypes ==
  ASSUME Types, SetElement
  PROVE  /\ Types' /\ Steady
         /\ todo' = <<Store(Step.in, number, Step.item)>> \o Rest
         /\ doomed' = FreeIfUnClaimed(heap', Elements[number + 1])
<1> DEFINE i == reg[Step.item]
           one == <<i>>
           old == Elements[number + 1]
           claimed == ClaimAll(heap, one)
           g == IF number = 0 THEN Holding(claimed, In, Tail(Elements)) ELSE claimed
           h == UnClaim(g, old)
           dying == FreeIfUnClaimed(h, old)
           s == Store(Step.in, number, Step.item)
<1>1. /\ todo # << >> /\ Step.op = "set" /\ Defined
      /\ UNCHANGED <<misused, executed>>
  BY DEF SetElement, Does
<1>2. /\ In \in Live /\ Elements \in Seq(ItemId) /\ Rest \in Work
      /\ HeapOK(heap) /\ DOMAIN heap = Live /\ Live \subseteq ItemId
  BY <1>1, ListStep
<1>3. /\ i \in Live /\ i \in ItemId /\ Step.in \in Register /\ Step.item \in Register
  <2>1. Formed(Step)
    BY <1>1, FirstStep DEF Types
  <2>2. Step.item \in Step.uses /\ Step.in \in Register /\ Step.item \in Register
    BY <1>1, <2>1 DEF Formed, Operands
  <2> QED
    BY <1>1, <1>2, <2>2, UsedIsLive
<1>4. number \in 0 .. (Len(Elements) - 1) /\ number \in Nat
  BY <1>1, <1>2 DEF Defined, InBounds, Types, Flow
<1>5. old \in ItemId /\ Elements # << >> /\ one \in Seq(ItemId)
  BY <1>2, <1>3, <1>4
<1>6. Tail(Elements) \in Seq(ItemId)
  BY <1>2, <1>5, HeadTailProperties
<1>7. heap' = h /\ After(dying, <<s>> \o Rest)
      /\ UNCHANGED <<state, stack, items, uncounted>>
  BY DEF SetElement
<1>8. s \in Stores /\ reg[s.item] \in ItemId
  <2>1. s \in Stores
    BY <1>3, <1>4 DEF Stores
  <2>2. s.item = Step.item
    BY DEF Store
  <2> QED
    BY <2>1, <2>2, <1>3
<1> HIDE DEF i, one, s
<1>9. HeapOK(claimed) /\ DOMAIN claimed = Live
  BY <1>2, <1>5, ClaimAllHeap
<1> HIDE DEF claimed
<1>10. HeapOK(g) /\ DOMAIN g = Live
  BY <1>2, <1>6, <1>9, HoldingHeap
<1> HIDE DEF g, old
<1>11. dying \in Seq(ItemId)
  BY <1>5, FreeIfUnClaimedType
<1>12. Runs(<<s>> \o Rest, reg)
  BY <1>2, <1>8, StoreRuns
<1>13. Flow' /\ todo' = <<s>> \o Rest /\ doomed' = dying
  BY <1>1, <1>7, <1>11, <1>12, AfterFlow DEF Types
<1>14. HeapOK(h) /\ DOMAIN h = Live
  BY <1>10, UnClaimHeap
<1> HIDE DEF h, dying
<1>15. stack' \in StackType
  BY <1>7 DEF Types, Memory, StackType
<1>16. Memory' /\ Steady
  BY <1>7, <1>14, <1>15, HeapSteady DEF Types
<1> QED
  BY <1>7, <1>13, <1>16 DEF Types, s, dying, old

(* What is stored, once the place is known to be one of the list.          *)
LEMMA StoredType ==
  ASSUME Types, todo # << >>, Step.op = "store", In \in Live
  PROVE  /\ Stored \in Seq(ItemId) \/ ~InBounds
         /\ Step.index # 0 /\ InBounds => Step.index + 1 \in 1 .. Len(Elements)
<1>1. reg[Step.item] \in ItemId /\ Step.index \in Nat
  BY StoreStep
<1>2. Elements \in Seq(ItemId)
  BY MemoryHeap, ItemFields DEF Types, Elements
<1>3. Step.index # 0 /\ InBounds => Step.index + 1 \in 1 .. Len(Elements)
  BY <1>1, <1>2 DEF InBounds
<1>4. CASE Step.index = 0
  <2>1. <<reg[Step.item]>> \o Elements \in Seq(ItemId)
    BY <1>1, <1>2, CountInFront
  <2> QED
    BY <1>3, <1>4, <2>1 DEF Stored
<1>5. CASE Step.index # 0 /\ InBounds
  <2>1. [Elements EXCEPT ![Step.index + 1] = reg[Step.item]] \in Seq(ItemId)
    BY <1>1, <1>2, <1>3, <1>5, ExceptSeq
  <2> QED
    BY <1>3, <1>5, <2>1 DEF Stored
<1> QED
  BY <1>3, <1>4, <1>5

(* Storing the element keeps the types.                                    *)
LEMMA StoreElementTypes ==
  ASSUME Types, StoreElement
  PROVE  Types' /\ Steady /\ Proceeds
<1>1. /\ todo # << >> /\ Step.op = "store" /\ Defined
      /\ UNCHANGED <<misused, executed>> /\ heap' = Holding(heap, In, Stored)
      /\ Continue(Rest) /\ UNCHANGED <<state, stack, items, uncounted>>
  BY DEF StoreElement, Does
<1>2. /\ In \in Live /\ Rest \in Work /\ \A locals : Runs(Rest, locals)
      /\ HeapOK(heap) /\ DOMAIN heap = Live
  BY <1>1, ListStep
<1>3. Stored \in Seq(ItemId)
  BY <1>1, <1>2, StoredType DEF Defined
<1>4. HeapOK(heap') /\ DOMAIN heap' = Live
  BY <1>1, <1>2, <1>3, HoldingHeap
<1>5. stack' \in StackType
  BY <1>1 DEF Types, Memory, StackType
<1>6. Memory' /\ Steady
  BY <1>1, <1>4, <1>5, HeapSteady DEF Types
<1>7. Flow' /\ Proceeds
  BY <1>1, <1>2, ContinueFlow DEF Proceeds, Types
<1> QED
  BY <1>6, <1>7 DEF Types

(* RemoveAt keeps the types and may have the element to delete.            *)
LEMMA EraseElementTypes ==
  ASSUME Types, EraseElement
  PROVE  /\ Types' /\ Steady /\ todo' \in Work
         /\ doomed' = FreeIfUnClaimed(heap', Elements[number + 1])
<1> DEFINE old == Elements[number + 1]
           l == RemoveAt(Elements, number + 1)
           g == Holding(heap, In, l)
           h == UnClaim(g, old)
           dying == FreeIfUnClaimed(h, old)
<1>1. /\ todo # << >> /\ Step.op = "erase" /\ Defined
      /\ UNCHANGED <<misused, executed>>
  BY DEF EraseElement, Does
<1>2. /\ In \in Live /\ Elements \in Seq(ItemId) /\ Rest \in Work /\ \A locals : Runs(Rest, locals)
      /\ HeapOK(heap) /\ DOMAIN heap = Live
  BY <1>1, ListStep
<1>3. number + 1 \in 1 .. Len(Elements)
  BY <1>1, <1>2 DEF Defined, InBounds, Types, Flow
<1>4. old \in ItemId /\ l \in Seq(ItemId)
  BY <1>2, <1>3, CountRemoveAt
<1>5. heap' = h /\ After(dying, Rest) /\ UNCHANGED <<state, stack, items, uncounted>>
  BY DEF EraseElement
<1> HIDE DEF l, old
<1>6. HeapOK(g) /\ DOMAIN g = Live
  BY <1>2, <1>4, HoldingHeap
<1> HIDE DEF g
<1>7. HeapOK(h) /\ DOMAIN h = Live
  BY <1>6, UnClaimHeap
<1> HIDE DEF h
<1>8. dying \in Seq(ItemId)
  BY <1>4, FreeIfUnClaimedType
<1> HIDE DEF dying
<1>9. stack' \in StackType
  BY <1>5 DEF Types, Memory, StackType
<1>10. Memory' /\ Steady
  BY <1>5, <1>7, <1>9, HeapSteady DEF Types
<1>11. Flow' /\ todo' = Rest /\ doomed' = dying
  BY <1>1, <1>2, <1>5, <1>8, AfterFlow DEF Types
<1> QED
  BY <1>2, <1>5, <1>10, <1>11 DEF Types, dying, old

(* Reverse keeps the types.                                                *)
LEMMA ReverseElementsTypes ==
  ASSUME Types, ReverseElements
  PROVE  Types' /\ Steady /\ Proceeds
<1> DEFINE l == Reverse(Elements)
<1>1. /\ todo # << >> /\ Step.op = "reverse" /\ Defined
      /\ UNCHANGED <<misused, executed>> /\ heap' = Holding(heap, In, l)
      /\ Continue(Rest) /\ UNCHANGED <<state, stack, items, uncounted>>
  BY DEF ReverseElements, Does
<1>2. /\ In \in Live /\ Elements \in Seq(ItemId) /\ Rest \in Work /\ \A locals : Runs(Rest, locals)
      /\ HeapOK(heap) /\ DOMAIN heap = Live
  BY <1>1, ListStep
<1>3. l \in Seq(ItemId)
  BY <1>2, CountReverse
<1> HIDE DEF l
<1>4. HeapOK(heap') /\ DOMAIN heap' = Live
  BY <1>1, <1>2, <1>3, HoldingHeap
<1>5. stack' \in StackType
  BY <1>1 DEF Types, Memory, StackType
<1>6. Memory' /\ Steady
  BY <1>1, <1>4, <1>5, HeapSteady DEF Types
<1>7. Flow' /\ Proceeds
  BY <1>1, <1>2, ContinueFlow DEF Proceeds, Types
<1> QED
  BY <1>6, <1>7 DEF Types

(* What Clone and the copies leave to be copied.                           *)
LEMMA CopiesWork ==
  ASSUME NEW list \in Seq(ItemId), NEW i \in ItemId
  PROVE  /\ Copies(list, i) \in Work
         /\ \A program \in Work : Copies(list, i) \o program \in Work
<1>1. CASE list = << >>
  <2>1. Copies(list, i) = << >>
    BY <1>1 DEF Copies
  <2> QED
    BY <2>1 DEF Work
<1>2. CASE list # << >>
  <2>1. Copy(list, i) \in CopySteps /\ Copies(list, i) = <<Copy(list, i)>>
    BY <1>2 DEF CopySteps, Copies
  <2> QED
    BY <2>1 DEF Work
<1> QED
  BY <1>1, <1>2

(* The address of a new item that Clone makes.                             *)
LEMMA FirstFresh ==
  ASSUME Fresh # {}
  PROVE  FreshIds(1)[1] \in ItemId \ Live
<1>1. IsFiniteSet(Fresh)
  BY LifetimeAssumption, FS_Subset DEF Fresh
<1>2. Cardinality(Fresh) \in Nat /\ Cardinality(Fresh) # 0
  BY <1>1, FS_CardinalityType, FS_EmptySet
<1>3. 1 \in Nat /\ 1 <= Cardinality(Fresh)
  BY <1>2
<1>4. NewIds(1, FreshIds(1), Fresh)
  BY <1>3, FreshIdsAreNew
<1> QED
  BY <1>4, FreshIsFree DEF NewIds

(* Clone keeps the types and makes one item that it does not count.        *)
LEMMA CloneItemTypes ==
  ASSUME Types, CloneItem
  PROVE  /\ Types' /\ Proceeds /\ items' = items /\ uncounted' = uncounted + 1 /\ state' = state
         /\ \E j \in ItemId \ Live, t \in Type :
              heap' = Making(heap, j, NewItem(t, 0, << >>)) /\ Live' = Live \cup {j}
<1> DEFINE i == reg[Step.item]
           j == FreshIds(1)[1]
           t == heap[i].type
           kids == heap[i].kids
           none == << >>
           item == NewItem(t, 0, none)
           g == Making(heap, j, item)
           l == [reg EXCEPT !["ret"] = i, ![Step.item] = j]
           left == Copies(kids, j) \o Rest
<1>1. /\ todo # << >> /\ Step.op = "clone" /\ Defined
      /\ UNCHANGED <<misused, executed>> /\ Fresh # {}
      /\ UNCHANGED <<state, stack, items>> /\ uncounted' = uncounted + 1
  BY DEF CloneItem, Does
<1>2. Formed(Step) /\ Rest \in Work
  BY <1>1, FirstStep DEF Types
<1>3. i \in Live
  BY <1>1, <1>2, UsedIsLive DEF Formed, Operands
<1>4. HeapOK(heap) /\ DOMAIN heap = Live /\ Live \subseteq ItemId
  BY MemoryHeap DEF Types
<1>5. t \in Type /\ kids \in Seq(ItemId) /\ i \in ItemId
  BY <1>3, <1>4, ItemFields
<1>6. j \in ItemId \ Live
  BY <1>1, FirstFresh
<1>7. heap' = g /\ Go(none, left, l, number, tangled)
  BY DEF CloneItem
<1>8. none \in Seq(ItemId) /\ item \in ItemSet
  <2>1. << >> \in Seq(ItemId)
    OBVIOUS
  <2> QED
    BY <1>5, <2>1 DEF NewItem, ItemSet
<1>9. l \in Locals
  BY <1>5, <1>6 DEF Types, Flow, Locals
<1>10. number \in Nat /\ tangled \in BOOLEAN /\ Flow
  BY DEF Types, Flow
<1>11. \E k \in ItemId \ Live, u \in Type :
         g = Making(heap, k, NewItem(u, 0, << >>)) /\ k = j
  BY <1>5, <1>6
<1> HIDE DEF i, j, t, kids, none, item, l
<1>12. left \in Work
  BY <1>2, <1>5, <1>6, CopiesWork
<1>13. Runs(left, l)
  BY <1>12, WorkRuns
<1>14. HeapOK(g) /\ DOMAIN g = Live \cup {j}
  <2>1. j \in ItemId \ DOMAIN heap
    BY <1>4, <1>6
  <2>3. g = Making(heap, j, item)
    OBVIOUS
  <2> HIDE DEF g
  <2>2. HeapOK(g) /\ DOMAIN g = DOMAIN heap \cup {j}
    BY <1>4, <1>5, <1>8, <2>1, <2>3, NewItemHeap
  <2> QED
    BY <1>4, <2>2
<1> HIDE DEF g, left
<1>15. Flow' /\ Proceeds
  BY <1>1, <1>7, <1>8, <1>9, <1>10, <1>12, <1>13, GoFlow DEF Proceeds, none
<1>16. stack' \in StackType /\ state' \in {"NONE", "FAULT"} /\ items' \in Int
       /\ uncounted' \in Nat
  BY <1>1 DEF Types, Memory, StackType
<1>17. Memory'
  BY <1>7, <1>14, <1>16, HeapMemory DEF Types
<1>18. Live' = Live \cup {j}
  BY <1>7, <1>14 DEF Live
<1> QED
  BY <1>1, <1>7, <1>11, <1>15, <1>17, <1>18 DEF Types

(* What is left of a copy.                                                 *)
LEMMA CopyStep ==
  ASSUME Types, todo # << >>, Step.op = "copy", Defined
  PROVE  /\ Rest \in Work /\ Step.into \in Live /\ Head(Step.list) \in Live
         /\ Tail(Step.list) \in Seq(ItemId) /\ Step.into \in ItemId
         /\ Head(Step.list) \in ItemId
<1>1. todo \in Work
  BY WorkLeft DEF Types
<1>2. Step \in Steps \cup CopySteps /\ Rest \in Work
  BY <1>1, WorkStep
<1>3. Step \notin Steps
  BY StepsAreFormed DEF Formed, Static
<1>4. /\ Step.list \in Seq(ItemId) /\ Step.list # << >> /\ Step.into \in ItemId
  BY <1>2, <1>3 DEF CopySteps, Copy
<1>5. Step.into \in Live /\ Head(Step.list) \in Live
  BY DEF Defined, Touched
<1> QED
  BY <1>2, <1>4, <1>5, HeadTailProperties

(* The element is shared, or a Struct is made for it.                      *)
Shared ==
  /\ heap' = ClaimAll(Holding(heap, Step.into,
                              Append(heap[Step.into].kids, Head(Step.list))),
                      <<Head(Step.list)>>)
  /\ Steady

Doubled ==
  /\ \E j \in ItemId \ Live :
       /\ heap' = Making(Holding(heap, Step.into, Append(heap[Step.into].kids, j)),
                         j, NewItem("Struct", 1, << >>))
       /\ Live' = Live \cup {j}
  /\ items' = items /\ uncounted' = uncounted + 1 /\ state' = state

(* Copying an element keeps the types: it is shared, or a Struct is made.  *)
LEMMA CopyElementTypes ==
  ASSUME Types, CopyElement
  PROVE  Types' /\ Proceeds /\ (Shared \/ Doubled)
<1> DEFINE i == Head(Step.list)
           into == Step.into
           kids == heap[into].kids
           more == Copies(Tail(Step.list), into)
<1>1. /\ todo # << >> /\ Step.op = "copy" /\ Defined
      /\ UNCHANGED <<misused, executed>> /\ UNCHANGED <<state, stack, items>>
  BY DEF CopyElement, Does
<1>2. /\ Rest \in Work /\ into \in Live /\ i \in Live /\ into \in ItemId
      /\ i \in ItemId /\ Tail(Step.list) \in Seq(ItemId)
  BY <1>1, CopyStep
<1>3. HeapOK(heap) /\ DOMAIN heap = Live /\ Live \subseteq ItemId
  BY MemoryHeap DEF Types
<1>4. kids \in Seq(ItemId) /\ heap[i].kids \in Seq(ItemId)
  BY <1>2, <1>3, ItemFields
<1>5. stack' \in StackType /\ state' \in {"NONE", "FAULT"} /\ items' \in Int
      /\ uncounted \in Nat /\ Flow
  BY <1>1 DEF Types, Memory, StackType
<1>6. more \o Rest \in Work
  BY <1>2, CopiesWork
<1>7. CASE heap[i].type # "Struct"
  <2> DEFINE one == <<i>>
             l == Append(kids, i)
             g == Holding(heap, into, l)
  <2>1. heap' = ClaimAll(g, one) /\ Continue(more \o Rest) /\ uncounted' = uncounted
    BY <1>7 DEF CopyElement
  <2>2. one \in Seq(ItemId) /\ l \in Seq(ItemId)
    BY <1>2, <1>4
  <2>3. heap' = ClaimAll(Holding(heap, Step.into,
                           Append(heap[Step.into].kids, Head(Step.list))),
                         <<Head(Step.list)>>)
    BY <2>1
  <2> HIDE DEF one, l, i, into, more
  <2>4. HeapOK(g) /\ DOMAIN g = Live
    BY <1>2, <1>3, <2>2, HoldingHeap
  <2> HIDE DEF g
  <2>5. HeapOK(heap') /\ DOMAIN heap' = Live
    BY <2>1, <2>2, <2>4, ClaimAllHeap
  <2>6. Memory' /\ Steady
    BY <1>1, <1>5, <2>1, <2>5, HeapSteady DEF Types
  <2>7. Runs(more \o Rest, reg)
    BY <1>6, WorkRuns
  <2>8. Flow' /\ Proceeds
    BY <1>1, <1>5, <2>1, <1>6, <2>7, ContinueFlow DEF Proceeds
  <2> QED
    BY <2>3, <2>6, <2>8 DEF Types, Shared
<1>8. CASE heap[i].type = "Struct"
  <2> DEFINE j == FreshIds(1)[1]
             l == Append(kids, j)
             g == Holding(heap, into, l)
             item == NewItem("Struct", 1, << >>)
             h == Making(g, j, item)
             left == more \o Copies(heap[i].kids, j) \o Rest
  <2>1. /\ heap' = h /\ Continue(left) /\ uncounted' = uncounted + 1 /\ Fresh # {}
    BY <1>8 DEF CopyElement
  <2>2. j \in ItemId \ Live
    BY <2>1, FirstFresh
  <2>3. l \in Seq(ItemId) /\ item \in ItemSet
    <3>1. l \in Seq(ItemId) /\ << >> \in Seq(ItemId) /\ "Struct" \in Type
      BY <1>4, <2>2, Names
    <3> QED
      BY <3>1 DEF NewItem, ItemSet
  <2>4. \E k \in ItemId \ Live :
          /\ heap' = Making(Holding(heap, Step.into, Append(heap[Step.into].kids, k)),
                            k, NewItem("Struct", 1, << >>))
          /\ k = j
    BY <2>1, <2>2
  <2>5. left \in Work
    <3>1. Copies(heap[i].kids, j) \o Rest \in Work
      BY <1>2, <1>4, <2>2, CopiesWork
    <3>2. more \in Work /\ Copies(heap[i].kids, j) \in Work
      BY <1>2, <1>4, <2>2, CopiesWork
    <3> QED
      BY <3>2, <1>2 DEF Work
  <2> HIDE DEF j, l, item, into, left
  <2>6. HeapOK(g) /\ DOMAIN g = Live
    BY <1>2, <1>3, <2>3, HoldingHeap
  <2> HIDE DEF g
  <2>7. HeapOK(h) /\ DOMAIN h = Live \cup {j}
    <3>1. j \in ItemId \ DOMAIN g
      BY <2>2, <2>6
    <3>3. h = Making(g, j, item)
      OBVIOUS
    <3> HIDE DEF h
    <3>2. HeapOK(h) /\ DOMAIN h = DOMAIN g \cup {j}
      BY <2>3, <2>6, <3>1, <3>3, NewItemHeap
    <3> QED
      BY <2>6, <3>2
  <2> HIDE DEF h
  <2>8. Live' = Live \cup {j} /\ uncounted' \in Nat
    BY <2>1, <2>7, <1>5 DEF Live
  <2>9. Memory'
    BY <1>5, <2>1, <2>7, <2>8, HeapMemory DEF Types
  <2>10. Runs(left, reg)
    BY <2>5, WorkRuns
  <2>11. Flow' /\ Proceeds
    BY <1>1, <1>5, <2>1, <2>5, <2>10, ContinueFlow DEF Proceeds
  <2> QED
    BY <1>1, <2>1, <2>4, <2>8, <2>9, <2>11 DEF Types, Doubled
<1> QED
  BY <1>7, <1>8

(* The pairs of a map are places in its list.                              *)
LEMMA PairPlaces ==
  ASSUME Elements \in Seq(ItemId), NEW n \in KeyPositions
  PROVE  /\ n \in 1 .. Len(Elements) /\ n + 1 \in 1 .. Len(Elements)
         /\ Elements[n] \in ItemId /\ Elements[n + 1] \in ItemId
BY DEF KeyPositions

(* A map's Get keeps the types.                                            *)
LEMMA GetValueTypes ==
  ASSUME Types, GetValue
  PROVE  Types' /\ Steady /\ Proceeds
<1>1. /\ todo # << >> /\ Step.op = "mapGet" /\ Defined
      /\ UNCHANGED <<misused, executed>>
  BY DEF GetValue, Does
<1>2. Elements \in Seq(ItemId) /\ Rest \in Work /\ \A locals : Runs(Rest, locals)
  BY <1>1, ListStep
<1>3. Step.otherwise \in Seq(Steps)
  BY <1>1, FirstStep DEF Types, Formed, Branches
<1>4. Step.otherwise \in Work /\ Runs(Step.otherwise, reg)
  <2>1. Step.otherwise \in Work
    BY <1>3 DEF Work
  <2> QED
    BY <2>1, WorkRuns
<1>5. Flow' /\ Proceeds
  <2>1. CASE Continue(Step.otherwise)
    BY <2>1, <1>1, <1>4, ContinueFlow DEF Types, Proceeds
  <2>2. ASSUME NEW n \in KeyPositions, Assigned(Step.to, Elements[n + 1])
        PROVE  Flow' /\ Proceeds
    <3>1. Elements[n + 1] \in ItemId
      BY <1>2, PairPlaces
    <3> QED
      BY <2>2, <3>1, <1>1, <1>2, AssignedFlow DEF Types, Proceeds
  <2> QED
    BY <2>1, <2>2 DEF GetValue
<1> QED
  BY <1>5, MemorySteady DEF Types, GetValue

(* What SetValue does to the heap, in its three cases.                     *)
Replacing(n) ==
  /\ n \in KeyPositions /\ heap' = UnClaim(heap, Elements[n + 1])
  /\ After(FreeIfUnClaimed(heap', Elements[n + 1]),
           <<MapStore(Step.in, n + 1, Step.item)>> \o Rest)
  /\ state' = state

AddingPair ==
  /\ heap' = ClaimAll(Holding(heap, In, Elements \o <<reg[Step.key], reg[Step.item]>>),
                      <<reg[Step.key], reg[Step.item]>>)
  /\ state' \in {state, "FAULT"} /\ Continue(Rest)
  /\ state' = "FAULT" \/ ~TooLong(Elements \o <<reg[Step.key], reg[Step.item]>>)

(* A map's Set: the value is there already, the pair is added, or a value  *)
(* is replaced.                                                            *)
LEMMA SetValueCases ==
  ASSUME SetValue
  PROVE  \/ Continue(Rest) /\ heap' = heap /\ state' = state
         \/ AddingPair
         \/ \E n \in KeyPositions : Replacing(n)
<1>1. CASE /\ NotFound
           /\ LET pair == <<reg[Step.key], reg[Step.item]>> IN
              /\ heap' = ClaimAll(Holding(heap, In, Elements \o pair), pair)
              /\ state' = IF TooLong(Elements \o pair) THEN "FAULT" ELSE state
           /\ Continue(Rest)
  <2>1. /\ state' \in {state, "FAULT"}
        /\ state' = "FAULT" \/ ~TooLong(Elements \o <<reg[Step.key], reg[Step.item]>>)
    BY <1>1
  <2>2. heap' = ClaimAll(Holding(heap, In, Elements \o <<reg[Step.key], reg[Step.item]>>),
                         <<reg[Step.key], reg[Step.item]>>)
    BY <1>1
  <2> QED
    BY <1>1, <2>1, <2>2 DEF AddingPair
<1>2. ASSUME NEW n \in KeyPositions,
             IF Elements[n + 1] = reg[Step.item]
             THEN Continue(Rest) /\ UNCHANGED heap
             ELSE /\ heap' = UnClaim(heap, Elements[n + 1])
                  /\ After(FreeIfUnClaimed(UnClaim(heap, Elements[n + 1]),
                                           Elements[n + 1]),
                           <<MapStore(Step.in, n + 1, Step.item)>> \o Rest),
             state' = state
      PROVE  \/ Continue(Rest) /\ heap' = heap /\ state' = state
             \/ \E k \in KeyPositions : Replacing(k)
  BY <1>2 DEF Replacing
<1> QED
  BY <1>1, <1>2 DEF SetValue

(* A map's Set keeps the types; a replaced value leaves the new one to be  *)
(* stored, and perhaps the old one to delete.                              *)
LEMMA SetValueTypes ==
  ASSUME Types, SetValue
  PROVE  /\ Types' /\ Steady /\ stack' = stack
         /\ \/ Proceeds /\ (heap' = heap \/ AddingPair)
            \/ \E n \in KeyPositions :
                 /\ Replacing(n)
                 /\ todo' = <<MapStore(Step.in, n + 1, Step.item)>> \o Rest
                 /\ doomed' = FreeIfUnClaimed(heap', Elements[n + 1])
<1>1. /\ todo # << >> /\ Step.op = "mapSet" /\ Defined
      /\ UNCHANGED <<misused, executed>> /\ UNCHANGED <<stack, items, uncounted>>
  BY DEF SetValue, Does
<1>2. /\ In \in Live /\ Elements \in Seq(ItemId) /\ \A locals : Runs(Rest, locals)
      /\ HeapOK(heap) /\ DOMAIN heap = Live /\ Live \subseteq ItemId /\ Rest \in Work
  BY <1>1, ListStep
<1>3. /\ reg[Step.key] \in ItemId /\ reg[Step.item] \in ItemId
      /\ Step.in \in Register /\ Step.item \in Register
  <2>1. Formed(Step)
    BY <1>1, FirstStep DEF Types
  <2>2. /\ Step.key \in Step.uses /\ Step.item \in Step.uses
        /\ Step.in \in Register /\ Step.item \in Register
    BY <1>1, <2>1 DEF Formed, Operands
  <2> QED
    BY <1>1, <1>2, <2>2, UsedIsLive
<1>4. stack' \in StackType /\ Flow
  BY <1>1 DEF Types, Memory, StackType
<1>5. CASE Continue(Rest) /\ heap' = heap /\ state' = state
  <2>1. Flow' /\ Proceeds
    BY <1>1, <1>2, <1>4, <1>5, ContinueFlow DEF Proceeds
  <2> QED
    BY <1>1, <1>5, <2>1, MemorySteady DEF Types
<1>6. CASE AddingPair
  <2> DEFINE pair == <<reg[Step.key], reg[Step.item]>>
             l == Elements \o pair
             g == Holding(heap, In, l)
  <2>1. heap' = ClaimAll(g, pair) /\ state' \in {state, "FAULT"} /\ Continue(Rest)
    BY <1>6 DEF AddingPair
  <2>2. pair \in Seq(ItemId)
    BY <1>3
  <2> HIDE DEF pair
  <2>3. l \in Seq(ItemId)
    BY <1>2, <2>2, ConcatProperties
  <2> HIDE DEF l
  <2>4. HeapOK(g) /\ DOMAIN g = Live
    BY <1>2, <2>3, HoldingHeap
  <2> HIDE DEF g
  <2>5. HeapOK(heap') /\ DOMAIN heap' = Live
    BY <2>1, <2>2, <2>4, ClaimAllHeap
  <2>6. Memory' /\ Steady
    BY <1>1, <1>4, <2>1, <2>5, HeapSteady DEF Types
  <2>7. Flow' /\ Proceeds
    BY <1>1, <1>2, <1>4, <2>1, ContinueFlow DEF Proceeds
  <2> QED
    BY <1>1, <1>6, <2>6, <2>7 DEF Types
<1>7. ASSUME NEW n \in KeyPositions, Replacing(n)
      PROVE  /\ Types' /\ Steady
             /\ todo' = <<MapStore(Step.in, n + 1, Step.item)>> \o Rest
             /\ doomed' = FreeIfUnClaimed(heap', Elements[n + 1])
  <2> DEFINE old == Elements[n + 1]
             h == heap'
             dying == FreeIfUnClaimed(h, old)
             s == MapStore(Step.in, n + 1, Step.item)
  <2>1. heap' = UnClaim(heap, old) /\ After(dying, <<s>> \o Rest) /\ state' = state
    BY <1>7 DEF Replacing
  <2>2. old \in ItemId /\ n + 1 \in 1 .. Len(Elements)
    BY <1>2, PairPlaces
  <2>3. s \in Stores /\ reg[s.item] \in ItemId
    <3>1. n + 1 \in Nat
      BY <2>2
    <3>2. s \in Stores
      BY <1>3, <3>1 DEF Stores
    <3>3. s.item = Step.item
      BY DEF MapStore
    <3> QED
      BY <3>2, <3>3, <1>3
  <2> HIDE DEF s, old
  <2>4. dying \in Seq(ItemId)
    BY <2>2, FreeIfUnClaimedType
  <2> HIDE DEF dying, h
  <2>5. HeapOK(heap') /\ DOMAIN heap' = Live
    BY <1>2, <2>1, UnClaimHeap
  <2>6. Memory' /\ Steady
    BY <1>1, <1>4, <2>1, <2>5, HeapSteady DEF Types
  <2>7. Runs(<<s>> \o Rest, reg)
    BY <1>2, <2>3, StoreRuns
  <2>8. Flow' /\ todo' = <<s>> \o Rest /\ doomed' = dying
    BY <1>1, <1>4, <2>1, <2>4, <2>7, AfterFlow
  <2> QED
    BY <2>6, <2>8 DEF Types, s, dying, h, old
<1> QED
  BY <1>1, <1>5, <1>6, <1>7, SetValueCases

(* Storing the value keeps the types.                                      *)
LEMMA StoreValueTypes ==
  ASSUME Types, StoreValue
  PROVE  Types' /\ Steady /\ Proceeds
<1> DEFINE i == reg[Step.item]
           one == <<i>>
           l == [Elements EXCEPT ![Step.index] = i]
           g == Holding(heap, In, l)
<1>1. /\ todo # << >> /\ Step.op = "mapStore" /\ Defined
      /\ UNCHANGED <<misused, executed>> /\ heap' = ClaimAll(g, one)
      /\ Continue(Rest) /\ UNCHANGED <<state, stack, items, uncounted>>
  BY DEF StoreValue, Does
<1>2. /\ In \in Live /\ Elements \in Seq(ItemId) /\ Rest \in Work /\ \A locals : Runs(Rest, locals)
      /\ HeapOK(heap) /\ DOMAIN heap = Live
  BY <1>1, ListStep
<1>3. Step.index \in 1 .. Len(Elements) /\ i \in ItemId
  BY <1>1, <1>2, StoreStep, LenProperties DEF Defined, InBounds
<1>4. one \in Seq(ItemId)
  BY <1>3
<1> HIDE DEF i, one
<1>5. l \in Seq(ItemId)
  BY <1>2, <1>3, ExceptSeq
<1> HIDE DEF l
<1>6. HeapOK(g) /\ DOMAIN g = Live
  BY <1>2, <1>5, HoldingHeap
<1> HIDE DEF g
<1>7. HeapOK(heap') /\ DOMAIN heap' = Live
  BY <1>1, <1>4, <1>6, ClaimAllHeap
<1>8. stack' \in StackType
  BY <1>1 DEF Types, Memory, StackType
<1>9. Memory' /\ Steady
  BY <1>1, <1>7, <1>8, HeapSteady DEF Types
<1>10. Flow' /\ Proceeds
  BY <1>1, <1>2, ContinueFlow DEF Proceeds, Types
<1> QED
  BY <1>9, <1>10 DEF Types

(* A pair leaves the list.                                                 *)
LEMMA WithoutPair ==
  ASSUME Elements \in Seq(ItemId), NEW n \in KeyPositions
  PROVE  /\ Without(Elements, n) \in Seq(ItemId)
         /\ Len(Without(Elements, n)) = Len(Elements) - 2
         /\ \A v : Count(Without(Elements, n), v)
                     = Count(Elements, v) - One(Elements[n], v) - One(Elements[n + 1], v)
<1> DEFINE l == RemoveAt(Elements, n)
           e == Elements
<1>1. n \in 1 .. Len(e) /\ n + 1 \in 1 .. Len(e) /\ e[n] \in ItemId
  BY PairPlaces
<1> HIDE DEF e
<1>2. e \in Seq(ItemId) /\ Len(e) \in Nat
  BY LenProperties DEF e
<1>3. /\ RemoveAt(e, n) \in Seq(ItemId) /\ Len(RemoveAt(e, n)) = Len(e) - 1
      /\ \A x \in n .. Len(e) - 1 : RemoveAt(e, n)[x] = e[x + 1]
      /\ \A v : Count(RemoveAt(e, n), v) = Count(e, v) - One(e[n], v)
  <2>1. ASSUME NEW v
        PROVE  /\ RemoveAt(e, n) \in Seq(ItemId) /\ Len(RemoveAt(e, n)) = Len(e) - 1
               /\ \A x \in n .. Len(e) - 1 : RemoveAt(e, n)[x] = e[x + 1]
               /\ Count(RemoveAt(e, n), v) = Count(e, v) - One(e[n], v)
    <3>1. n \in 1 .. Len(e) /\ e \in Seq(ItemId)
      BY <1>1, <1>2
    <3>2. RemoveAt(e, n) \in Seq(ItemId) /\ Len(RemoveAt(e, n)) = Len(e) - 1
      BY <3>1, CountRemoveAt
    <3>3. \A x \in n .. Len(e) - 1 : RemoveAt(e, n)[x] = e[x + 1]
      BY <3>1, CountRemoveAt
    <3>4. Count(RemoveAt(e, n), v) = Count(e, v) - One(e[n], v)
      BY <3>1, CountRemoveAt
    <3> QED
      BY <3>2, <3>3, <3>4
  <2> QED
    BY <2>1
<1>4. n \in 1 .. Len(RemoveAt(e, n)) /\ RemoveAt(e, n)[n] = e[n + 1]
  BY <1>1, <1>2, <1>3
<1>5. l = RemoveAt(e, n)
  BY DEF e
<1> HIDE DEF l
<1>6. /\ l \in Seq(ItemId) /\ n \in 1 .. Len(l) /\ l[n] = e[n + 1]
      /\ \A v : Count(l, v) = Count(e, v) - One(e[n], v)
  BY <1>3, <1>4, <1>5
<1>7. /\ RemoveAt(l, n) \in Seq(ItemId) /\ Len(RemoveAt(l, n)) = Len(e) - 2
      /\ \A v : Count(RemoveAt(l, n), v) = Count(l, v) - One(l[n], v)
  <2>1. Len(l) = Len(e) - 1
    BY <1>3, <1>5
  <2>2. RemoveAt(l, n) \in Seq(ItemId) /\ Len(RemoveAt(l, n)) = Len(l) - 1
    BY <1>6, CountRemoveAt
  <2>3. \A v : Count(RemoveAt(l, n), v) = Count(l, v) - One(l[n], v)
    BY <1>6, CountRemoveAt
  <2> QED
    BY <1>2, <2>1, <2>2, <2>3
<1>8. Without(Elements, n) = RemoveAt(l, n)
  BY DEF Without, l
<1> QED
  BY <1>6, <1>7, <1>8 DEF e

Removing(n) ==
  /\ n \in KeyPositions
  /\ heap' = UnClaim(UnClaim(Holding(heap, In, Without(Elements, n)), Elements[n]),
                     Elements[n + 1])

(* A map's Remove keeps the types.                                         *)
LEMMA RemovePairTypes ==
  ASSUME Types, RemovePair
  PROVE  Types' /\ Steady /\ Proceeds /\ (heap' = heap \/ \E n \in KeyPositions : Removing(n))
<1>1. /\ todo # << >> /\ Step.op = "mapRemove" /\ Defined
      /\ UNCHANGED <<misused, executed>> /\ UNCHANGED <<state, stack, items, uncounted>>
  BY DEF RemovePair, Does
<1>2. /\ In \in Live /\ Elements \in Seq(ItemId) /\ \A locals : Runs(Rest, locals)
      /\ HeapOK(heap) /\ DOMAIN heap = Live /\ Rest \in Work
  BY <1>1, ListStep
<1>3. stack' \in StackType /\ Flow /\ reg \in Locals /\ number \in Nat
      /\ tangled \in BOOLEAN
  BY <1>1 DEF Types, Flow, Memory, StackType
<1>4. CASE Continue(Rest) /\ UNCHANGED heap
  <2>1. Flow' /\ Proceeds
    BY <1>1, <1>2, <1>3, <1>4, ContinueFlow DEF Proceeds
  <2> QED
    BY <1>1, <1>4, <2>1, MemorySteady DEF Types
<1>5. ASSUME NEW n \in KeyPositions,
             heap' = UnClaim(UnClaim(Holding(heap, In, Without(Elements, n)),
                                     Elements[n]), Elements[n + 1]),
             Go(<< >>,
                <<Free2("x1", "x2")>>
                  \o (IF Elements[n] = reg[Step.key] THEN <<Assign("key", "x1")>>
                                                     ELSE << >>) \o Rest,
                [reg EXCEPT !["x1"] = Elements[n], !["x2"] = Elements[n + 1]],
                number, tangled)
      PROVE  Types' /\ Steady /\ Proceeds /\ Removing(n)
  <2> DEFINE key == Elements[n]
             value == Elements[n + 1]
             w == Without(Elements, n)
             g == Holding(heap, In, w)
             h == UnClaim(g, key)
             l == [reg EXCEPT !["x1"] = key, !["x2"] = value]
             b == IF key = reg[Step.key] THEN <<Assign("key", "x1")>> ELSE << >>
             left == <<Free2("x1", "x2")>> \o b \o Rest
             none == << >>
  <2>1. heap' = UnClaim(h, value) /\ Go(none, left, l, number, tangled)
    BY <1>5
  <2>2. key \in ItemId /\ value \in ItemId
    BY <1>2, PairPlaces
  <2>3. w \in Seq(ItemId)
    BY <1>2, WithoutPair
  <2>4. l \in Locals /\ none \in Seq(ItemId)
    <3>1. l \in Locals
      BY <1>3, <2>2 DEF Locals
    <3>2. none \in Seq(ItemId)
      OBVIOUS
    <3> QED
      BY <3>1, <3>2
  <2>5. left \in Work
    <3>1. Free2("x1", "x2") \in Steps /\ Assign("key", "x1") \in Steps
      BY Names, LevelsAreNested DEF HasPlain
    <3>2. <<Free2("x1", "x2")>> \in Work /\ <<Assign("key", "x1")>> \in Work
          /\ << >> \in Work
      BY <3>1 DEF Work
    <3>3. b \in Work
      BY <3>2
    <3> HIDE DEF b
    <3> QED
      BY <3>2, <3>3, <1>2 DEF Work
  <2>6. Removing(n)
    BY <2>1 DEF Removing
  <2> HIDE DEF key, value, w, l, left, none
  <2>7. HeapOK(g) /\ DOMAIN g = Live
    BY <1>2, <2>3, HoldingHeap
  <2> HIDE DEF g
  <2>8. HeapOK(h) /\ DOMAIN h = Live
    BY <2>7, UnClaimHeap
  <2> HIDE DEF h
  <2>9. HeapOK(heap') /\ DOMAIN heap' = Live
    BY <2>1, <2>8, UnClaimHeap
  <2>10. Memory' /\ Steady
    BY <1>1, <1>3, <2>9, HeapSteady DEF Types
  <2>11. Runs(left, l)
    BY <2>5, WorkRuns
  <2>12. Flow' /\ Proceeds
    BY <1>1, <1>3, <2>1, <2>4, <2>5, <2>11, GoFlow DEF Proceeds, none
  <2> QED
    BY <2>6, <2>10, <2>12 DEF Types
<1> QED
  BY <1>4, <1>5 DEF RemovePair

(* FillKeys and FillValues keep the types.                                 *)
LEMMA FillArrayTypes ==
  ASSUME Types, FillArray
  PROVE  Types' /\ Steady /\ Proceeds
<1> DEFINE first == IF Step.part = "keys" THEN 1 ELSE 2
           m == Len(Elements) \div 2
           l == [n \in 1 .. m |-> Elements[2 * n - 2 + first]]
           i == reg[Step.item]
<1>1. /\ todo # << >> /\ Step.op = "fill" /\ Defined
      /\ UNCHANGED <<misused, executed>>
  BY DEF FillArray, Does
<1>2. /\ In \in Live /\ Elements \in Seq(ItemId) /\ Rest \in Work
      /\ Live \subseteq ItemId
  BY <1>1, ListStep
<1>3. i \in ItemId
  <2>1. Formed(Step)
    BY <1>1, FirstStep DEF Types
  <2>2. Step.item \in Step.uses
    BY <1>1, <2>1 DEF Formed, Operands
  <2> QED
    BY <1>1, <1>2, <2>2, UsedIsLive
<1>4. first \in {1, 2} /\ Len(Elements) \in Nat /\ m \in Nat /\ 2 * m <= Len(Elements)
  BY <1>2, LenProperties
<1>5. l \in Seq(ItemId)
  <2>1. \A n \in 1 .. m : 2 * n - 2 + first \in 1 .. Len(Elements)
    BY <1>4
  <2>2. \A n \in 1 .. m : Elements[2 * n - 2 + first] \in ItemId
    BY <1>2, <2>1, ElementOfSeq
  <2> HIDE DEF m, first
  <2>3. l \in [1 .. m -> ItemId]
    BY <2>2
  <2> QED
    BY <1>4, <2>3
<1>6. Continue(Copies(l, i) \o Rest)
  BY DEF FillArray
<1> HIDE DEF l, i
<1>7. Copies(l, i) \o Rest \in Work /\ Runs(Copies(l, i) \o Rest, reg)
  BY <1>2, <1>3, <1>5, CopiesWork, WorkRuns
<1>8. Flow' /\ Proceeds
  BY <1>1, <1>6, <1>7, ContinueFlow DEF Proceeds, Types
<1> QED
  BY <1>8, MemorySteady DEF Types, FillArray

(* Types holds of an engine that has just been made.                       *)
LEMMA InitTypes == Init => Types
<1> SUFFICES ASSUME Init PROVE Types
  OBVIOUS
<1>1. << >> \in Seq(ItemId)
  OBVIOUS
<1>2. Flow
  <2>1. doomed \in Seq(ItemId) /\ Runs(todo, reg) /\ reg \in Locals
    BY <1>1, EmptyRuns, NoLocalsAreLocals DEF Init
  <2>2. number \in Nat /\ executed \in 0 .. MaxInstructions
    BY LifetimeAssumption DEF Init
  <2>3. tangled \in BOOLEAN /\ misused \in BOOLEAN
    BY DEF Init
  <2> QED
    BY <2>1, <2>2, <2>3 DEF Flow
<1>3. heap \in [Live -> ItemSet] /\ Live \subseteq ItemId
  BY DEF Init, Live
<1>4. Memory
  BY <1>1, <1>3 DEF Init, Memory
<1> QED
  BY <1>2, <1>4 DEF Types

(* The steps that make or delete an item are the others.                   *)
SteadyNext ==
  \/ Fetch \/ UseAfterFree \/ Control \/ SetFault \/ NeedItems
  \/ TakeItem \/ UnstackItem \/ PeekItem \/ InsertItem \/ PushElements
  \/ FreeOne \/ Release \/ FreeTwo \/ FreeThree
  \/ GetElement \/ AddElement \/ SetElement \/ StoreElement \/ EraseElement
  \/ ReverseElements \/ GetValue \/ SetValue \/ StoreValue \/ RemovePair \/ FillArray

(* The steps that make or delete items, and the others.                    *)
LEMMA NextIs ==
  Next <=> SteadyNext \/ DeleteItem \/ CreateItem \/ CloneItem \/ CopyElement
BY DEF Next, SteadyNext

(* The others keep the types, the items that exist and what is counted.    *)
LEMMA SteadyNextTypes ==
  ASSUME Types, SteadyNext
  PROVE  Types' /\ Steady
BY FetchTypes, UseAfterFreeTypes, ControlTypes, SetFaultTypes, NeedItemsTypes,
   TakeItemTypes, UnstackItemTypes, PeekItemTypes, InsertItemTypes, PushElementsTypes,
   FreeOneTypes, ReleaseTypes, FreeTwoTypes, FreeThreeTypes, GetElementTypes,
   AddElementTypes, SetElementTypes, StoreElementTypes, EraseElementTypes,
   ReverseElementsTypes, GetValueTypes, SetValueTypes, StoreValueTypes,
   RemovePairTypes, FillArrayTypes DEF SteadyNext

(* So does a step that changes nothing.                                    *)
LEMMA StutterTypes ==
  ASSUME Types, UNCHANGED vars
  PROVE  Types' /\ Steady
<1>1. Flow'
  BY DEF Types, Flow, vars
<1> QED
  BY <1>1, MemorySteady DEF Types, vars

(* Every step keeps the types.                                             *)
LEMMA NextTypes ==
  ASSUME Types, [Next]_vars
  PROVE  Types'
BY NextIs, SteadyNextTypes, StutterTypes, DeleteItemTypes, CreateItemTypes,
   CloneItemTypes, CopyElementTypes

----------------------------------------------------------------------------
(* The counter.                                                            *)

Counter == state = "NONE" => items = Cardinality(Live) - uncounted

(* There are finitely many items.                                          *)
LEMMA LiveIsFinite ==
  ASSUME Types
  PROVE  IsFiniteSet(Live) /\ Cardinality(Live) \in Nat
BY LifetimeAssumption, MemoryHeap, FS_Subset, FS_CardinalityType DEF Types

(* One more item, and Clone does not count it.                             *)
LEMMA UncountedItem ==
  ASSUME Types, Counter, NEW j \in ItemId \ Live, Live' = Live \cup {j},
         items' = items, uncounted' = uncounted + 1, state' = state
  PROVE  Counter'
<1>1. Cardinality(Live \cup {j}) = Cardinality(Live) + 1 /\ Cardinality(Live) \in Nat
  BY LiveIsFinite, FS_AddElement
<1>2. items \in Int /\ uncounted \in Nat
  BY DEF Types, Memory
<1> QED
  BY <1>1, <1>2 DEF Counter

(* A destructor counts its item off as it goes.                            *)
LEMMA DeleteItemCounter ==
  ASSUME Types, Counter, DeleteItem
  PROVE  Counter'
<1> DEFINE i == Head(doomed)
           kids == heap[i].kids
           h1 == Holding(heap, i, Tail(kids))
<1>1. i \in Live /\ state' = state /\ uncounted' = uncounted
  BY DEF DeleteItem, Dying
<1>2. items \in Int /\ uncounted \in Nat
  BY DEF Types, Memory
<1>3. CASE kids = << >>
  <2>1. heap' = [j \in Live \ {i} |-> heap[j]] /\ items' = items - 1
    BY <1>3 DEF DeleteItem
  <2>2. Live' = Live \ {i}
    BY <2>1 DEF Live
  <2>3. Cardinality(Live \ {i}) = Cardinality(Live) - 1 /\ Cardinality(Live) \in Nat
    BY <1>1, LiveIsFinite, FS_RemoveElement
  <2> QED
    BY <1>1, <1>2, <2>1, <2>2, <2>3 DEF Counter
<1>4. CASE kids # << >>
  <2>1. heap' = UnClaim(h1, Head(kids)) /\ items' = items
    BY <1>4 DEF DeleteItem
  <2>2. DOMAIN h1 = Live
    BY DEF Holding, Live
  <2>3. Live' = Live
    BY <2>1, <2>2 DEF Live, UnClaim
  <2> QED
    BY <1>1, <1>2, <2>1, <2>3 DEF Counter
<1> QED
  BY <1>3, <1>4

(* A creator that does not fault counts what it makes.                     *)
LEMMA CreateItemCounter ==
  ASSUME Types, Counter, CreateItem
  PROVE  Counter'
<1>1. Creation /\ uncounted' = uncounted /\ Step.type \in Type
  BY CreateItemTypes
<1>2. CASE state' = "FAULT"
  BY <1>2 DEF Counter
<1>3. CASE state' # "FAULT"
  <2>0. PICK m \in Nat : \E new : /\ NewIds(m + 1, new, ItemId \ Live)
                                 /\ heap' = Made(heap, Step.type, new)
                                 /\ items' = items + m + 1 /\ state' = state
    BY <1>1, <1>3 DEF Creation
  <2>1. PICK new : /\ NewIds(m + 1, new, ItemId \ Live)
                   /\ heap' = Made(heap, Step.type, new)
                   /\ items' = items + m + 1 /\ state' = state
    BY <2>0
  <2>2. HeapOK(heap) /\ DOMAIN heap = Live
    BY MemoryHeap DEF Types
  <2>3. /\ Live' = Live \cup Range(new) /\ Live \cap Range(new) = {}
        /\ IsFiniteSet(Range(new)) /\ Cardinality(Range(new)) = m + 1
    BY <1>1, <2>1, <2>2, MadeHeap DEF Live
  <2>4. Cardinality(Live') = Cardinality(Live) + m + 1 /\ Cardinality(Live) \in Nat
    BY <2>3, LiveIsFinite, FS_Union, FS_EmptySet
  <2>5. items \in Int /\ uncounted \in Nat
    BY DEF Types, Memory
  <2> QED
    BY <1>1, <2>1, <2>4, <2>5 DEF Counter
<1> QED
  BY <1>2, <1>3

(* Every step keeps the counter on the items, unless it faults.            *)
LEMMA NextCounter ==
  ASSUME Types, Counter, [Next]_vars
  PROVE  Counter'
<1>1. CASE Steady
  <2>1. Cardinality(Live') = Cardinality(Live)
    BY <1>1 DEF Steady
  <2> QED
    BY <1>1, <2>1 DEF Counter, Steady
<1>2. CASE CloneItem
  <2>1. /\ items' = items /\ uncounted' = uncounted + 1 /\ state' = state
        /\ \E j \in ItemId \ Live : Live' = Live \cup {j}
    BY <1>2, CloneItemTypes
  <2> QED
    BY <2>1, UncountedItem
<1>3. CASE CopyElement
  <2>1. Shared \/ Doubled
    BY <1>3, CopyElementTypes
  <2>2. CASE Shared
    BY <2>2, <1>1 DEF Shared
  <2>3. CASE Doubled
    <3>1. /\ items' = items /\ uncounted' = uncounted + 1 /\ state' = state
          /\ \E j \in ItemId \ Live : Live' = Live \cup {j}
      BY <2>3 DEF Doubled
    <3> QED
      BY <3>1, UncountedItem
  <2> QED
    BY <2>1, <2>2, <2>3
<1> QED
  BY <1>1, <1>2, <1>3, NextIs, SteadyNextTypes, StutterTypes, DeleteItemCounter,
     CreateItemCounter

(* The counter the creators consult is the number of items that exist, but *)
(* for those that Clone makes, at every step of an engine that goes on.    *)
THEOREM CounterIsItems == Spec => [](Types /\ Counter)
<1>1. Init => Types /\ Counter
  <2>1. Init => Cardinality(Live) = 0 /\ items = 0 /\ uncounted = 0
    BY FS_EmptySet DEF Init, Live
  <2> QED
    BY <2>1, InitTypes DEF Counter
<1>2. Types /\ Counter /\ [Next]_vars => (Types /\ Counter)'
  BY NextTypes, NextCounter
<1> QED
  BY <1>1, <1>2, PTL DEF Spec

(* The counter is right between two instructions: CounterTracksItems.      *)
THEOREM CounterTracks == Spec => []CounterTracksItems
<1>1. Types /\ Counter => CounterTracksItems
  BY DEF Counter, CounterTracksItems
<1> QED
  BY <1>1, CounterIsItems, PTL

----------------------------------------------------------------------------
(* How long lists are.                                                     *)
(*                                                                         *)
(* Only six steps make a list longer: Add, the store that Set leaves       *)
(* behind, MapSet, which looks at the size itself, Fill, a creator with    *)
(* elements and the copies of a Clone.  All other steps are modest, and    *)
(* programs are made of modest steps but for a few places: APPEND behind   *)
(* its check of the size, SETITEM on a map, the ends of PACK, NEWARRAY and *)
(* NEWSTRUCT once the number is known, KEYS and VALUES, and what is left   *)
(* to store or to copy.  Each of them comes with what it relies on, that   *)
(* the list has room for what comes next.                                  *)

(* How long a list may be: a map is a list of keys and values.             *)
Cap(type) == IF type = "Map" THEN 2 * MaxArray ELSE MaxArray

FitsIn(h) == \A i \in DOMAIN h : Len(h[i].kids) <= Cap(h[i].type)

(* Nothing is in a heap that is not in another, nor is it longer there.    *)
Shrinks(g, h) ==
  \A i \in DOMAIN g :
    /\ i \in DOMAIN h /\ g[i].type = h[i].type
    /\ Len(g[i].kids) <= Len(h[i].kids)

(* The programs that make no list longer, but a copy of one, unless they   *)
(* go on with one of the guarded parts.                                    *)
Harmless == Plain \cup {Unstack("x1"), UnclaimAndFree("x1")}

Filling == {FilledArray(part) : part \in {"keys", "values"}}

Guards ==
  {When("item", List, Appending), When("item", {"Map"}, Pairing)}
    \cup {When("item", {"Map"}, f) : f \in Filling}

Modest == Nest(Nest(Harmless)) \cup Guards

(* What such a step does at most.                                          *)
ModestStep(s) ==
  /\ s.op \notin {"add", "mapSet", "fill", "store", "mapStore", "copy"}
  /\ s.op = "create" => s.elements \in {FALSE}
  /\ s.op = "choose" => \A n \in DOMAIN s.from : s.from[n] \in Seq(Modest)
  /\ s.op \in {"if", "ifMade"} => s.then \in Seq(Modest)
  /\ s.op \in {"room", "read", "number", "mapGet"} => s.otherwise \in Seq(Modest)
  /\ s.op = "check" =>
       \/ s.otherwise \in Seq(Modest)
       \/ s.otherwise \in {Appending} \cup Filling
       \/ s = When("item", {"Map"}, Pairing)
  /\ s.op = "loop" => s.body \in Seq(Modest)

(* The ends of PACK, NEWARRAY and NEWSTRUCT.                               *)
Packing == <<Loop(<<Pop("value"), Add("ret", "value")>>), Push("ret")>>

Ask(n) == Number("item", n, <<Free("item"), Fault>>)

(* A creator, and what is done with what it made.                          *)
Ending(t, b, f) == <<Create(t, b, "ret"), IfMade("ret", f)>>

Endings ==
  {Ending("Array", FALSE, Packing)} \cup {Ending(t, TRUE, <<Push("ret")>>) : t \in List}

(* What is left of the program, and what it relies on.                     *)
AtModest == todo \in Seq(Modest)

(* An element or a pair is to be stored, where its place is.               *)
AtStore ==
  /\ todo # << >> /\ Step.op \in {"store", "mapStore"} /\ Rest \in Seq(Modest)
  /\ Step.op = "store" /\ Step.index = 0 /\ In \in Live =>
       Len(Elements) < Cap(heap[In].type)

(* The number is still to be read, then it is at most MAX_ARRAY_SIZE.      *)
AtAsk ==
  \E n \in {"count", "size"}, e \in Endings :
    \/ todo = <<Need("eval", 1), Pop("item"), Ask(n), Free("item")>> \o e
    \/ todo = <<Pop("item"), Ask(n), Free("item")>> \o e
    \/ todo = <<Ask(n), Free("item")>> \o e

AtSized ==
  /\ number <= MaxArray
  /\ \E e \in Endings : todo = <<Free("item")>> \o e \/ todo = e

(* APPEND has to check the size, KEYS and VALUES have to create.           *)
AtGuarded == todo \in {Appending} \cup Filling

(* APPEND found room for one more element.                                 *)
AtRoom ==
  /\ doomed = << >> /\ todo = Tail(Appending)
  /\ reg["item"] \in Live /\ Len(heap[reg["item"]].kids) < MaxArray

(* SETITEM found a map.                                                    *)
AtPair ==
  /\ doomed = << >> /\ todo = Pairing
  /\ reg["item"] \in Live /\ heap[reg["item"]].type = "Map"

(* An empty array was made, to be filled by KEYS, by VALUES or by PACK.    *)
Made0 == doomed = << >> /\ reg["ret"] \in Live /\ heap[reg["ret"]].kids = << >>

AtMade ==
  /\ Made0
  /\ \/ \E f \in Filling : todo = Tail(f)
     \/ number <= MaxArray /\ todo = <<IfMade("ret", Packing)>>

AtFill ==
  /\ Made0
  /\ \E part \in {"keys", "values"} :
       todo = <<Fill("item", part, "ret"), Push("ret"), Free("item")>>

(* PACK: what is in the array and what is still to be popped.              *)
AtPacking ==
  /\ doomed = << >> /\ reg["ret"] \in Live
  /\ \/ todo = Packing /\ Len(heap[reg["ret"]].kids) + number <= MaxArray
     \/ /\ \/ todo = <<Pop("value"), Add("ret", "value")>> \o Packing
           \/ todo = <<Add("ret", "value")>> \o Packing
        /\ Len(heap[reg["ret"]].kids) + number < MaxArray

(* The copies of a Clone, each with room for its list.                     *)
CopiesFit(f, h) ==
  /\ \A k \in DOMAIN f :
       /\ f[k].into \in DOMAIN h
       /\ Len(f[k].list) + Len(h[f[k].into].kids) <= Cap(h[f[k].into].type)
  /\ \A k, l \in DOMAIN f : f[k].into = f[l].into => k = l

AtCopies ==
  /\ doomed = << >>
  /\ \E f \in Seq(CopySteps) \ {<< >>}, g \in Seq(Modest) :
       todo = f \o g /\ CopiesFit(f, heap)

Fitting ==
  \/ AtModest \/ AtStore \/ AtAsk \/ AtSized \/ AtGuarded \/ AtRoom \/ AtPair
  \/ AtMade \/ AtFill \/ AtPacking \/ AtCopies

(* The inductive invariant: after a fault nothing is executed any more.    *)
Bounded == misused \/ state = "FAULT" \/ (FitsIn(heap) /\ Fitting)

----------------------------------------------------------------------------
(* Programs.                                                               *)

(* A step that makes no list longer is as modest as the definition says.   *)
LEMMA HarmlessIsModest ==
  ASSUME NEW s \in Harmless
  PROVE  ModestStep(s)
<1>1. CASE s \in Creates({FALSE})
  <2>1. \A B : s \in Creates(B) => s.op = "create" /\ s.elements \in B
    BY DEF Creates, Create
  <2>2. s.op = "create" /\ s.elements \in {FALSE}
    BY <1>1, <2>1, Zenon
  <2> QED
    BY <2>2 DEF ModestStep
<1>2. CASE s \in Needs \cup Takes \cup Peeks \cup Inserts \cup Frees \cup Frees2 \cup Frees3
  <2>1. s.op \in {"need", "take", "peek", "insert", "free", "free2", "free3"}
    BY <1>2 DEF Needs, Need, Takes, Take, Peeks, Peek, Inserts, Insert, Frees, Free,
       Frees2, Free2, Frees3, Free3
  <2> QED
    BY <2>1 DEF ModestStep
<1>3. CASE s \in Gets \cup Sets \cup Erases \cup Reverses \cup PushAlls \cup Clones
                   \cup MapRemoves \cup Assigns \cup {Fault} \cup Releases
  <2>1. s.op \in {"get", "set", "erase", "reverse", "pushAll", "clone", "mapRemove",
                  "assign", "fault", "release"}
    BY <1>3 DEF Gets, Get, Sets, Set, Erases, Erase, Reverses, Reversed, PushAlls,
       PushAll, Clones, Clone, MapRemoves, MapRemove, Assigns, Assign, Fault, Releases,
       UnclaimAndFree
  <2> QED
    BY <2>1 DEF ModestStep
<1>4. CASE s \in {Unstack("x1"), UnclaimAndFree("x1")}
  <2>1. s.op \in {"unstack", "release"}
    BY <1>4 DEF Unstack, UnclaimAndFree
  <2> QED
    BY <2>1 DEF ModestStep
<1> QED
  BY <1>1, <1>2, <1>3, <1>4 DEF Harmless, Plain

(* So is one that goes on with modest programs,                            *)
LEMMA NestIsModest ==
  ASSUME NEW P, P \subseteq Modest, NEW s \in Nest(P) \ P
  PROVE  ModestStep(s)
<1>0. Seq(P) \subseteq Seq(Modest)
  OBVIOUS
<1>1. CASE s \in Chooses(P)
  <2>1. PICK f \in Seq(Seq(P)) : s = Choose(f)
    BY <1>1 DEF Chooses
  <2>2. \A n \in DOMAIN f : f[n] \in Seq(Modest)
    BY <1>0
  <2> QED
    BY <2>1, <2>2 DEF Choose, ModestStep
<1>2. CASE s \in Ifs(P) \cup IfMades(P)
  <2>1. s.op \in {"if", "ifMade"} /\ s.then \in Seq(Modest)
    BY <1>0, <1>2 DEF Ifs, If, IfMades, IfMade
  <2> QED
    BY <2>1 DEF ModestStep
<1>3. CASE s \in Checks(P)
  <2>1. s.op = "check" /\ s.otherwise \in Seq(Modest)
    BY <1>0, <1>3 DEF Checks, Check
  <2> QED
    BY <2>1 DEF ModestStep
<1>4. CASE s \in Reads(P) \cup Numbers(P)
  <2>1. s.op \in {"read", "number"} /\ s.otherwise \in Seq(Modest)
    BY <1>0, <1>4 DEF Reads, Read, Numbers, Number
  <2> QED
    BY <2>1 DEF ModestStep
<1>5. CASE s \in Rooms(P)
  <2>1. s.op = "room" /\ s.otherwise \in Seq(Modest)
    BY <1>0, <1>5 DEF Rooms, Room
  <2> QED
    BY <2>1 DEF ModestStep
<1>6. CASE s \in Loops(P)
  <2>1. s.op = "loop" /\ s.body \in Seq(Modest)
    BY <1>0, <1>6 DEF Loops, Loop
  <2> QED
    BY <2>1 DEF ModestStep
<1>7. CASE s \in MapGets(P)
  <2>1. s.op = "mapGet" /\ s.otherwise \in Seq(Modest)
    BY <1>0, <1>7 DEF MapGets, MapGet
  <2> QED
    BY <2>1 DEF ModestStep
<1> QED
  BY <1>1, <1>2, <1>3, <1>4, <1>5, <1>6, <1>7 DEF Nest

(* and every step of them.                                                 *)
LEMMA ModestIsModest ==
  ASSUME NEW s \in Modest
  PROVE  ModestStep(s)
<1>1. Harmless \subseteq Nest(Harmless) /\ Nest(Harmless) \subseteq Modest
  <2>1. \A P : P \subseteq Nest(P)
    BY DEF Nest
  <2> QED
    BY <2>1 DEF Modest
<1>2. CASE s \in Harmless
  BY <1>2, HarmlessIsModest
<1>3. CASE s \in Nest(Harmless) \ Harmless
  BY <1>1, <1>3, NestIsModest
<1>4. CASE s \in Nest(Nest(Harmless)) \ Nest(Harmless)
  BY <1>1, <1>4, NestIsModest
<1>5. CASE s \in Guards
  <2>1. CASE s = When("item", {"Map"}, Pairing)
    BY <2>1 DEF ModestStep, When, Check
  <2>2. CASE \E t : \E f \in {Appending} \cup Filling : s = When("item", t, f)
    BY <2>2 DEF ModestStep, When, Check
  <2> QED
    BY <1>5, <2>1, <2>2 DEF Guards
<1> QED
  BY <1>2, <1>3, <1>4, <1>5 DEF Modest

(* The modest programs hold the pieces of which the cases are made.        *)
LEMMA ModestLevels ==
  /\ HasPlain(Harmless) /\ HasPlain(Nest(Harmless)) /\ HasPlain(Modest)
  /\ HasNested(Harmless, Nest(Harmless)) /\ HasNested(Nest(Harmless), Modest)
  /\ HasGrowing(Modest)
<1>1. HasPlain(Harmless)
  BY PlainHasPlain DEF Harmless
<1>2. /\ HasPlain(Nest(Harmless)) /\ HasNested(Harmless, Nest(Harmless))
      /\ HasNested(Nest(Harmless), Nest(Nest(Harmless)))
  BY <1>1, NestHasNested
<1>3. HasNested(Nest(Harmless), Modest)
  BY <1>2 DEF HasNested, Modest
<1>4. Plain \subseteq Modest
  <2>1. \A P : P \subseteq Nest(P)
    BY DEF Nest
  <2>2. Plain \subseteq Harmless
    BY DEF Harmless
  <2> QED
    BY <2>1, <2>2 DEF Modest
<1>5. HasPlain(Modest)
  BY <1>4, PlainHasPlain
<1>6. HasGrowing(Modest)
  BY DEF HasGrowing, Modest, Guards, Filling
<1> QED
  BY <1>1, <1>2, <1>3, <1>5, <1>6

(* Every case but PACK, NEWARRAY and NEWSTRUCT is a modest program.        *)
LEMMA ProgramsAreModest ==
  ASSUME NEW op \in Opcodes \cap Opcode, op \notin {"PACK", "NEWARRAY", "NEWSTRUCT"}
  PROVE  Program(op) \in Seq(Modest)
<1> DEFINE P == Harmless
           Q == Nest(Harmless)
<1>0. /\ HasPlain(P) /\ HasPlain(Q) /\ HasPlain(Modest) /\ HasNested(P, Q)
      /\ HasNested(Q, Modest) /\ HasGrowing(Modest)
  BY ModestLevels
<1>5. CASE op = "DROP"
  <2>1. {Unstack("x1"), UnclaimAndFree("x1")} \subseteq Modest
    <3>1. \A S : S \subseteq Nest(S)
      BY DEF Nest
    <3> QED
      BY <3>1 DEF Modest, Harmless
  <2>2. Drop \in Seq(Modest)
    BY <1>0, <2>1, Names DEF Drop, HasPlain
  <2>3. op \in StackOpcode /\ op \notin ContainerOpcode /\ op # "CALL_ED"
    BY <1>5 DEF StackOpcode, ContainerOpcode
  <2>4. StackProgram("DROP") = Drop
    BY DEF StackProgram
  <2> QED
    BY <1>5, <2>2, <2>3, <2>4 DEF Program
<1> HIDE DEF P, Q
<1>1. CASE op \in StackOpcode \ {"DROP"}
  <2>1. StackProgram(op) \in Seq(Modest)
    BY <1>0, <1>1, StackPrograms
  <2>2. op \notin ContainerOpcode /\ op # "CALL_ED"
    BY <1>1 DEF ContainerOpcode, StackOpcode
  <2> QED
    BY <2>1, <2>2, <1>1 DEF Program
<1>2. CASE op \in ContainerOpcode
  <2>1. /\ ArraySize \in Seq(Modest) /\ Unpack \in Seq(Modest)
        /\ NewMap \in Seq(Modest) /\ ReverseItems \in Seq(Modest)
    BY <1>0, PlainArrayPrograms
  <2>2. PickItem \in Seq(Modest) /\ RemoveItem \in Seq(Modest) /\ HasKey \in Seq(Modest)
    BY <1>0, ElementPrograms
  <2>3. /\ AppendItem \in Seq(Modest) /\ SetItem \in Seq(Modest)
        /\ Keys \in Seq(Modest) /\ Values \in Seq(Modest)
    BY <1>0, GrowingPrograms
  <2>4. ContainerProgram(op) \in Seq(Modest)
    BY <1>2, <2>1, <2>2, <2>3 DEF ContainerProgram, ContainerOpcode
  <2>5. op \notin StackOpcode /\ op # "CALL_ED"
    BY <1>2 DEF ContainerOpcode, StackOpcode
  <2> QED
    BY <2>4, <2>5, <1>2 DEF Program
<1>3. CASE op = "CALL_ED"
  <2>1. CallED \in Seq(Modest)
    BY <1>0, <1>3, CallEDProgram
  <2>2. op \notin StackOpcode /\ op \notin ContainerOpcode
    BY <1>3 DEF ContainerOpcode, StackOpcode
  <2>3. Program(op) = CallED
    BY <2>2, <1>3 DEF Program
  <2> QED
    BY <2>1, <2>3
<1>4. CASE op \notin StackOpcode /\ op \notin ContainerOpcode /\ op # "CALL_ED"
  <2>1. op \in UnaryOpcode \cup ArithmeticOpcode \cup CompareOpcode
                 \cup HashOpcode \cup DataOpcode
    BY <1>4 DEF Opcode
  <2>2. DataProgram(op) \in Seq(Modest)
    BY <2>1, <1>0, DataPrograms
  <2> QED
    BY <2>2, <1>4 DEF Program
<1> QED
  BY <1>1, <1>2, <1>3, <1>4, <1>5

----------------------------------------------------------------------------
(* Where a program stands.                                                 *)

(* What the end of one of these three looks like: a creator that makes an  *)
(* empty array which is then filled, or a list that is only pushed.        *)
LEMMA EndingIs ==
  ASSUME NEW e \in Endings
  PROVE  \E f, c :
           /\ e = <<c, IfMade("ret", f)>> /\ c.op = "create" /\ c.to = "ret"
           /\ (f = Packing /\ c.elements \in {FALSE}) \/ f = <<Push("ret")>>
<1>1. \A t, b, f : /\ Create(t, b, "ret").op = "create" /\ Create(t, b, "ret").to = "ret"
  BY DEF Create
<1>2. \A B : \A t : \A b \in B : Create(t, b, "ret").elements \in B
  BY DEF Create
<1>3. Create("Array", FALSE, "ret").elements \in {FALSE}
  BY <1>2, Zenon
<1>4. CASE e = Ending("Array", FALSE, Packing)
  BY <1>1, <1>3, <1>4 DEF Ending, List
<1>5. CASE e \in {Ending(t, TRUE, <<Push("ret")>>) : t \in List}
  BY <1>1, <1>5 DEF Ending
<1> QED
  BY <1>4, <1>5 DEF Endings

(* They ask for a number in three steps.                                   *)
LEMMA AskSteps ==
  ASSUME AtAsk
  PROVE  /\ todo # << >>
         /\ \E n \in {"count", "size"}, e \in Endings :
              \/ /\ Step = Need("eval", 1)
                 /\ Rest = <<Pop("item"), Ask(n), Free("item")>> \o e
              \/ Step = Pop("item") /\ Rest = <<Ask(n), Free("item")>> \o e
              \/ Step = Ask(n) /\ Rest = <<Free("item")>> \o e
<1>1. PICK n \in {"count", "size"}, e \in Endings :
         \/ todo = <<Need("eval", 1), Pop("item"), Ask(n), Free("item")>> \o e
         \/ todo = <<Pop("item"), Ask(n), Free("item")>> \o e
         \/ todo = <<Ask(n), Free("item")>> \o e
  BY DEF AtAsk
<1>2. PICK c, d : e = <<c, d>>
  BY EndingIs
<1> DEFINE a == Need("eval", 1)
           b == Pop("item")
           k == Ask(n)
           f == Free("item")
<1> HIDE DEF a, b, k, f
<1>3. CASE todo = <<a, b, k, f>> \o e
  <2>1. todo # << >> /\ Head(todo) = a /\ Tail(todo) = <<b, k, f>> \o e
    BY <1>2, <1>3
  <2> QED
    BY <2>1 DEF a, b, k, f, Step, Rest
<1>4. CASE todo = <<b, k, f>> \o e
  <2>1. todo # << >> /\ Head(todo) = b /\ Tail(todo) = <<k, f>> \o e
    BY <1>2, <1>4
  <2> QED
    BY <2>1 DEF a, b, k, f, Step, Rest
<1>5. CASE todo = <<k, f>> \o e
  <2>1. todo # << >> /\ Head(todo) = k /\ Tail(todo) = <<f>> \o e
    BY <1>2, <1>5
  <2> QED
    BY <2>1 DEF a, b, k, f, Step, Rest
<1> QED
  BY <1>1, <1>3, <1>4, <1>5 DEF a, b, k, f

(* A step in front of a program.                                           *)
LEMMA InFront ==
  ASSUME NEW S, NEW a \in S, NEW s \in Seq(S)
  PROVE  /\ <<a>> \o s # << >> /\ Head(<<a>> \o s) = a /\ Tail(<<a>> \o s) = s
         /\ <<a>> \o s \in Seq(S)
OBVIOUS

(* Two steps in front of a program.                                        *)
LEMMA TwoInFront ==
  ASSUME NEW S, NEW a \in S, NEW b \in S, NEW s \in Seq(S)
  PROVE  /\ <<a, b>> \o s # << >> /\ Head(<<a, b>> \o s) = a
         /\ Tail(<<a, b>> \o s) = <<b>> \o s
OBVIOUS

(* When they have the number they free it and create.                      *)
LEMMA SizedSteps ==
  ASSUME AtSized
  PROVE  /\ todo # << >> /\ number <= MaxArray
         /\ \/ Step = Free("item") /\ Rest \in Endings
            \/ todo \in Endings
<1>1. PICK e \in Endings : todo = <<Free("item")>> \o e \/ todo = e
  BY DEF AtSized
<1>2. PICK c, d : e = <<c, d>>
  BY EndingIs
<1> DEFINE f == Free("item")
<1> HIDE DEF f
<1>3. CASE todo = <<f>> \o e
  <2>0. e \in Seq({f, c, d})
    BY <1>2
  <2>1. <<f>> \o e # << >> /\ Head(<<f>> \o e) = f /\ Tail(<<f>> \o e) = e
    BY <2>0, InFront
  <2>2. todo # << >> /\ Step = f /\ Rest = e
    BY <1>3, <2>1 DEF Step, Rest
  <2> QED
    BY <2>2 DEF f, AtSized
<1>4. CASE todo = e
  BY <1>2, <1>4 DEF AtSized
<1> QED
  BY <1>1, <1>3, <1>4 DEF f

(* The guarded parts, step by step.                                        *)
LEMMA GuardedSteps ==
  /\ Appending # << >> /\ Pairing # << >> /\ Packing # << >>
  /\ Head(Appending) = Room("item", <<Fault, Free("item")>>)
  /\ Tail(Appending) = <<Add("item", "value"), Free("item")>>
  /\ Head(Pairing) = MapSet("item", "key", "value")
  /\ Tail(Pairing) = <<Free3("key", "value", "item")>>
  /\ Head(Packing) = Loop(<<Pop("value"), Add("ret", "value")>>)
  /\ Tail(Packing) = <<Push("ret")>>
BY DEF Appending, Pairing, Packing

(* KEYS and VALUES create an empty array and fill it.                      *)
LEMMA FillingSteps ==
  ASSUME NEW g \in Filling
  PROVE  \E part \in {"keys", "values"} : \E c :
           /\ g = <<c, IfMade("ret", <<Fill("item", part, "ret"), Push("ret")>>),
                    Free("item")>>
           /\ g # << >> /\ Head(g) = c /\ Tail(g) = 
                <<IfMade("ret", <<Fill("item", part, "ret"), Push("ret")>>), Free("item")>>
           /\ c.op = "create" /\ c.to = "ret" /\ c.elements \in {FALSE}
<1>1. PICK part \in {"keys", "values"} : g = FilledArray(part)
  BY DEF Filling
<1>2. \A t, b : Create(t, b, "ret").op = "create" /\ Create(t, b, "ret").to = "ret"
  BY DEF Create
<1>3. \A B : \A t : \A b \in B : Create(t, b, "ret").elements \in B
  BY DEF Create
<1>4. Create("Array", FALSE, "ret").elements \in {FALSE}
  BY <1>3, Zenon
<1> DEFINE c == Create("Array", FALSE, "ret")
           m == IfMade("ret", <<Fill("item", part, "ret"), Push("ret")>>)
           f == Free("item")
<1>5. g = <<c, m, f>>
  BY <1>1 DEF FilledArray
<1>6. c.op = "create" /\ c.to = "ret" /\ c.elements \in {FALSE}
  BY <1>2, <1>4
<1> HIDE DEF c, m, f
<1>7. g # << >> /\ Head(g) = c /\ Tail(g) = <<m, f>>
  BY <1>5
<1> QED
  BY <1>5, <1>6, <1>7 DEF m, f

(* PACK adds one element after the other.                                  *)
LEMMA PackingSteps ==
  ASSUME AtPacking
  PROVE  /\ todo # << >>
         /\ \/ /\ Step = Loop(<<Pop("value"), Add("ret", "value")>>)
               /\ Rest = <<Push("ret")>> /\ todo = Packing
               /\ Len(heap[reg["ret"]].kids) + number <= MaxArray
            \/ /\ \/ Step = Pop("value") /\ Rest = <<Add("ret", "value")>> \o Packing
                  \/ Step = Add("ret", "value") /\ Rest = Packing
               /\ Len(heap[reg["ret"]].kids) + number < MaxArray
<1> DEFINE a == Pop("value")
           b == Add("ret", "value")
           l == Loop(<<a, b>>)
           p == Push("ret")
<1>1. Packing = <<l, p>>
  BY DEF Packing
<1> HIDE DEF a, b, l, p
<1>2. Packing \in Seq({a, b, l, p})
  BY <1>1
<1>3. CASE todo = Packing /\ Len(heap[reg["ret"]].kids) + number <= MaxArray
  <2>1. todo # << >> /\ Step = l /\ Rest = <<p>>
    BY <1>1, <1>3 DEF Step, Rest
  <2> QED
    BY <1>3, <2>1 DEF a, b, l, p
<1>4. CASE /\ todo = <<a, b>> \o Packing
           /\ Len(heap[reg["ret"]].kids) + number < MaxArray
  <2>1. /\ <<a, b>> \o Packing # << >> /\ Head(<<a, b>> \o Packing) = a
        /\ Tail(<<a, b>> \o Packing) = <<b>> \o Packing
    BY <1>2, TwoInFront
  <2>2. todo # << >> /\ Step = a /\ Rest = <<b>> \o Packing
    BY <1>4, <2>1 DEF Step, Rest
  <2> QED
    BY <1>4, <2>2 DEF a, b
<1>5. CASE /\ todo = <<b>> \o Packing
           /\ Len(heap[reg["ret"]].kids) + number < MaxArray
  <2>1. /\ <<b>> \o Packing # << >> /\ Head(<<b>> \o Packing) = b
        /\ Tail(<<b>> \o Packing) = Packing
    BY <1>2, InFront
  <2>2. todo # << >> /\ Step = b /\ Rest = Packing
    BY <1>5, <2>1 DEF Step, Rest
  <2> QED
    BY <1>5, <2>2 DEF a, b
<1> QED
  BY <1>3, <1>4, <1>5 DEF AtPacking, a, b

(* The first step of two programs one after the other.                     *)
LEMMA ConcatFirst ==
  ASSUME NEW S, NEW f \in Seq(S), f # << >>, NEW g \in Seq(S)
  PROVE  /\ f \o g # << >> /\ Head(f \o g) = Head(f) /\ Tail(f \o g) = Tail(f) \o g
         /\ Head(f) \in S /\ Tail(f) \in Seq(S)
<1>1. Head(f) \in S /\ Tail(f) \in Seq(S)
  BY HeadTailProperties
<1>2. f \o g # << >> /\ Head(f \o g) = Head(f) /\ Tail(f \o g) = Tail(f) \o g
  BY ConcatProperties
<1> QED
  BY <1>1, <1>2

(* What comes first when there are copies to make.                         *)
LEMMA CopiesFirst ==
  ASSUME NEW f \in Seq(CopySteps) \ {<< >>}, NEW g \in Seq(Modest), todo = f \o g
  PROVE  /\ todo # << >> /\ Step = Head(f) /\ Rest = Tail(f) \o g
         /\ Step \in CopySteps /\ Step.op = "copy" /\ Tail(f) \in Seq(CopySteps)
<1>1. f \in Seq(CopySteps \cup Modest) /\ g \in Seq(CopySteps \cup Modest)
  OBVIOUS
<1>2. todo # << >> /\ Step = Head(f) /\ Rest = Tail(f) \o g
  BY <1>1, ConcatFirst DEF Step, Rest
<1>3. Head(f) \in CopySteps /\ Tail(f) \in Seq(CopySteps)
  BY HeadTailProperties
<1>4. \A s \in CopySteps : s.op = "copy"
  BY DEF CopySteps, Copy
<1> QED
  BY <1>2, <1>3, <1>4

(* What comes first in a modest program.                                   *)
LEMMA ModestFirst ==
  ASSUME AtModest, todo # << >>
  PROVE  ModestStep(Step) /\ Rest \in Seq(Modest)
<1>1. Step \in Modest /\ Rest \in Seq(Modest)
  BY HeadTailProperties DEF AtModest, Step, Rest
<1> QED
  BY <1>1, ModestIsModest

(* Which first step tells where the program stands.                        *)
LEMMA FirstIs ==
  ASSUME Fitting, todo # << >>
  PROVE  \/ AtModest /\ ModestStep(Step) /\ Rest \in Seq(Modest)
         \/ AtStore /\ Step.op \in {"store", "mapStore"}
         \/ AtAsk /\ Step.op \in {"need", "take", "number"}
         \/ AtSized /\ Step.op \in {"free", "create"}
         \/ todo = Appending /\ Step.op = "room"
         \/ todo \in Filling /\ Step.op = "create"
         \/ AtRoom /\ Step.op = "add"
         \/ AtPair /\ Step.op = "mapSet"
         \/ AtMade /\ Step.op = "ifMade"
         \/ AtFill /\ Step.op = "fill"
         \/ AtPacking /\ Step.op \in {"loop", "take", "add"}
         \/ AtCopies /\ Step.op = "copy"
<1>1. CASE AtModest
  BY <1>1, ModestFirst
<1>2. CASE AtStore
  BY <1>2 DEF AtStore
<1>3. CASE AtAsk
  <2>1. \/ Step = Need("eval", 1) \/ Step = Pop("item")
        \/ \E n : Step = Ask(n)
    BY <1>3, AskSteps
  <2>2. Step.op \in {"need", "take", "number"}
    BY <2>1 DEF Need, Pop, Take, Ask, Number
  <2> QED
    BY <1>3, <2>2
<1>4. CASE AtSized
  <2>1. CASE Step = Free("item")
    BY <1>4, <2>1 DEF Free
  <2>2. CASE todo \in Endings
    <3>1. PICK c, d : todo = <<c, d>> /\ c.op = "create"
      BY <2>2, EndingIs
    <3>2. Step.op = "create"
      BY <3>1 DEF Step
    <3> QED
      BY <1>4, <3>2
  <2> QED
    BY <1>4, <2>1, <2>2, SizedSteps
<1>5. CASE AtGuarded
  <2>1. CASE todo = Appending
    <3>1. Step.op = "room"
      BY <2>1, GuardedSteps DEF Step, Room
    <3> QED
      BY <2>1, <3>1
  <2>2. CASE todo \in Filling
    <3>1. Step.op = "create"
      BY <2>2, FillingSteps DEF Step
    <3> QED
      BY <2>2, <3>1
  <2> QED
    BY <1>5, <2>1, <2>2 DEF AtGuarded
<1>6. CASE AtRoom
  <2>1. Step = Add("item", "value")
    <3>1. todo = <<Add("item", "value"), Free("item")>>
      BY <1>6, GuardedSteps DEF AtRoom
    <3> QED
      BY <3>1 DEF Step
  <2> QED
    BY <1>6, <2>1 DEF Add
<1>7. CASE AtPair
  <2>1. Step = MapSet("item", "key", "value")
    BY <1>7, GuardedSteps DEF AtPair, Step
  <2> QED
    BY <1>7, <2>1 DEF MapSet
<1>8. CASE AtMade
  <2>1. \E p : Step = IfMade("ret", p)
    <3>1. \E p, q : todo = <<IfMade("ret", p), q>> \/ todo = <<IfMade("ret", p)>>
      BY <1>8, FillingSteps DEF AtMade
    <3> QED
      BY <3>1 DEF Step
  <2> QED
    BY <1>8, <2>1 DEF IfMade
<1>9. CASE AtFill
  <2>1. \E part : Step = Fill("item", part, "ret")
    BY <1>9 DEF AtFill, Step
  <2> QED
    BY <1>9, <2>1 DEF Fill
<1>10. CASE AtPacking
  <2>1. \/ Step = Loop(<<Pop("value"), Add("ret", "value")>>)
        \/ Step = Pop("value") \/ Step = Add("ret", "value")
    BY <1>10, PackingSteps
  <2> QED
    BY <1>10, <2>1 DEF Loop, Pop, Take, Add
<1>11. CASE AtCopies
  BY <1>11, CopiesFirst DEF AtCopies
<1> QED
  BY <1>1, <1>2, <1>3, <1>4, <1>5, <1>6, <1>7, <1>8, <1>9, <1>10, <1>11 DEF Fitting

----------------------------------------------------------------------------
(* What the operations on the heap do to the lists.                        *)

SameLists(g, h) ==
  /\ DOMAIN g = DOMAIN h
  /\ \A i \in DOMAIN h : g[i].type = h[i].type /\ g[i].kids = h[i].kids

(* No type has a limit that is not a number.                               *)
LEMMA CapType ==
  /\ \A t : Cap(t) \in Nat /\ Cap(t) >= MaxArray
  /\ Cap("Map") = 2 * MaxArray
BY LifetimeAssumption DEF Cap

(* To give up a claim changes no list,                                     *)
LEMMA UnClaimLists ==
  ASSUME NEW h, HeapOK(h), NEW i
  PROVE  SameLists(UnClaim(h, i), h)
<1>1. DOMAIN UnClaim(h, i) = DOMAIN h
  BY DEF UnClaim
<1>2. \A j \in DOMAIN h :
        UnClaim(h, i)[j].type = h[j].type /\ UnClaim(h, i)[j].kids = h[j].kids
  BY DEF UnClaim, WithClaims, NewItem, HeapOK
<1> QED
  BY <1>1, <1>2 DEF SameLists

(* nor does it to claim.                                                   *)
LEMMA ClaimAllLists ==
  ASSUME NEW h, NEW list
  PROVE  SameLists(ClaimAll(h, list), h)
BY DEF SameLists, ClaimAll, WithClaims, NewItem

(* Lists that fit, fit where they are the same.                            *)
LEMMA SameListsFit ==
  ASSUME NEW h, FitsIn(h), NEW g, SameLists(g, h)
  PROVE  FitsIn(g)
BY DEF SameLists, FitsIn

(* One list is replaced, the others are as they were.                      *)
LEMMA HoldingLists ==
  ASSUME NEW h, HeapOK(h), NEW i \in DOMAIN h, NEW kids
  PROVE  /\ DOMAIN Holding(h, i, kids) = DOMAIN h
         /\ \A j \in DOMAIN h : /\ Holding(h, i, kids)[j].type = h[j].type
                                /\ j # i => Holding(h, i, kids)[j].kids = h[j].kids
         /\ Holding(h, i, kids)[i].kids = kids
BY DEF Holding, NewItem, HeapOK

(* A list that is short enough fits in the place of another.               *)
LEMMA HoldingFits ==
  ASSUME NEW h, HeapOK(h), FitsIn(h), NEW i \in DOMAIN h, NEW kids,
         Len(kids) <= Cap(h[i].type)
  PROVE  FitsIn(Holding(h, i, kids))
<1> DEFINE g == Holding(h, i, kids)
<1>1. /\ DOMAIN g = DOMAIN h
      /\ \A j \in DOMAIN h : g[j].type = h[j].type /\ (j # i => g[j].kids = h[j].kids)
      /\ g[i].kids = kids
  BY HoldingLists
<1> HIDE DEF g
<1>2. FitsIn(g)
  BY <1>1 DEF FitsIn
<1> QED
  BY <1>2 DEF g

(* A new item, and the lists of the others.                                *)
LEMMA MakingLists ==
  ASSUME NEW h, NEW j, j \notin DOMAIN h, NEW item
  PROVE  /\ DOMAIN Making(h, j, item) = DOMAIN h \cup {j} /\ Making(h, j, item)[j] = item
         /\ \A i \in DOMAIN h : Making(h, j, item)[i] = h[i]
BY DEF Making

(* It fits when its list does.                                             *)
LEMMA MakingFits ==
  ASSUME NEW h, FitsIn(h), NEW j, j \notin DOMAIN h, NEW item,
         Len(item.kids) <= Cap(item.type)
  PROVE  FitsIn(Making(h, j, item))
<1> DEFINE g == Making(h, j, item)
<1>1. /\ DOMAIN g = DOMAIN h \cup {j} /\ g[j] = item
      /\ \A i \in DOMAIN h : g[i] = h[i]
  BY DEF Making
<1> HIDE DEF g
<1>2. FitsIn(g)
  BY <1>1 DEF FitsIn
<1> QED
  BY <1>2 DEF g

(* Lists that get shorter fit.                                             *)
LEMMA ShrinksFit ==
  ASSUME NEW g, NEW h, HeapOK(g), HeapOK(h), FitsIn(h), Shrinks(g, h)
  PROVE  FitsIn(g)
<1> SUFFICES ASSUME NEW i \in DOMAIN g
             PROVE  Len(g[i].kids) <= Cap(g[i].type)
  BY DEF FitsIn
<1>1. i \in DOMAIN h /\ g[i].type = h[i].type /\ Len(g[i].kids) <= Len(h[i].kids)
  BY DEF Shrinks
<1>2. g[i].kids \in Seq(ItemId) /\ h[i].kids \in Seq(ItemId)
  BY <1>1, ItemFields
<1>3. Len(g[i].kids) \in Nat /\ Len(h[i].kids) \in Nat /\ Cap(h[i].type) \in Nat
  BY <1>2, LenProperties, CapType
<1>4. Len(h[i].kids) <= Cap(h[i].type)
  BY <1>1 DEF FitsIn
<1> QED
  BY <1>1, <1>3, <1>4

(* What FitsIn says of one list.                                           *)
LEMMA FitsOne ==
  ASSUME NEW h, HeapOK(h), FitsIn(h), NEW i \in DOMAIN h
  PROVE  /\ Len(h[i].kids) \in Nat /\ Len(h[i].kids) <= Cap(h[i].type)
         /\ Len(h[i].kids) <= 2 * MaxArray /\ Cap(h[i].type) \in Nat
         /\ h[i].type # "Map" => Cap(h[i].type) = MaxArray
<1>1. h[i].kids \in Seq(ItemId)
  BY ItemFields
<1>2. Len(h[i].kids) \in Nat
  BY <1>1, LenProperties
<1>3. Len(h[i].kids) <= Cap(h[i].type)
  BY DEF FitsIn
<1> QED
  BY <1>2, <1>3, LifetimeAssumption DEF Cap

(* A step that goes on.                                                    *)
LEMMA GoesOn ==
  ASSUME NEW d, NEW p, NEW l, NEW n, NEW t, Go(d, p, l, n, t)
  PROVE  /\ doomed' = d /\ todo' = p
         /\ p # << >> => reg' = l /\ number' = n
BY DEF Go

(* The heap of the current state is well typed.                            *)
LEMMA HeapNow ==
  ASSUME Types
  PROVE  HeapOK(heap) /\ DOMAIN heap = Live /\ number \in Nat /\ MaxArray \in Nat
BY MemoryHeap, LifetimeAssumption DEF Types, Flow

----------------------------------------------------------------------------
(* The lists, action by action.                                            *)

Fits == FitsIn(heap) /\ Fitting

(* A modest program is a place where the lists fit.                        *)
LEMMA ModestThen ==
  ASSUME todo' \in Seq(Modest)
  PROVE  Fitting'
BY DEF Fitting, AtModest

(* Most steps are only first in a modest program.                          *)
LEMMA OnlyModest ==
  ASSUME Fitting, todo # << >>,
         Step.op \in {"unstack", "peek", "insert", "pushAll", "release", "free2", "free3",
                      "get", "set", "erase", "reverse", "clone", "mapGet", "mapRemove",
                      "fault", "choose", "if", "check", "assign", "read"}
  PROVE  AtModest /\ ModestStep(Step) /\ Rest \in Seq(Modest)
BY FirstIs

(* Two modest programs one after the other.                                *)
LEMMA ModestConcat ==
  ASSUME NEW f \in Seq(Modest), NEW g \in Seq(Modest)
  PROVE  f \o g \in Seq(Modest)
OBVIOUS

(* Free is modest.                                                         *)
LEMMA ModestFree ==
  ASSUME NEW r \in Register
  PROVE  Free(r) \in Modest
BY ModestLevels DEF HasPlain

(* Steps that leave the lists alone.                                       *)
LEMMA PeekItemFits ==
  ASSUME Fits, PeekItem \/ UnstackItem \/ GetElement
  PROVE  Fits'
<1>1. todo # << >> /\ Step.op \in {"peek", "unstack", "get"} /\ todo' = Rest /\ heap' = heap
  BY DEF PeekItem, UnstackItem, GetElement, Does, Assigned, Go
<1>2. Fitting'
  BY <1>1, OnlyModest, ModestThen DEF Fits
<1> QED
  BY <1>1, <1>2 DEF Fits

(* Neither does the search in a map.                                       *)
LEMMA GetValueFits ==
  ASSUME Fits, GetValue
  PROVE  Fits'
<1>1. todo # << >> /\ Step.op = "mapGet" /\ heap' = heap /\ todo' \in {Rest, Step.otherwise}
  BY DEF GetValue, Does, Assigned, Continue, Go
<1>2. Rest \in Seq(Modest) /\ Step.otherwise \in Seq(Modest)
  BY <1>1, OnlyModest DEF Fits, ModestStep
<1>3. Fitting'
  BY <1>1, <1>2, ModestThen
<1> QED
  BY <1>1, <1>3 DEF Fits

(* Push, Insert and UNPACK only claim.                                     *)
LEMMA InsertItemFits ==
  ASSUME Fits, InsertItem \/ PushElements
  PROVE  Fits'
<1>1. /\ todo # << >> /\ Step.op \in {"insert", "pushAll"} /\ todo' = Rest
      /\ \E list : heap' = ClaimAll(heap, list)
  BY DEF InsertItem, PushElements, Does, Continue, Go
<1>2. Fitting'
  BY <1>1, OnlyModest, ModestThen DEF Fits
<1>3. FitsIn(heap')
  BY <1>1, ClaimAllLists, SameListsFit DEF Fits
<1> QED
  BY <1>2, <1>3 DEF Fits

(* UnclaimAndFree only gives up a claim.                                   *)
LEMMA ReleaseFits ==
  ASSUME Types, Fits, Release
  PROVE  Fits'
<1>1. /\ todo # << >> /\ Step.op = "release" /\ todo' = Rest
      /\ heap' = UnClaim(heap, reg[Step.item])
  BY DEF Release, Does, After, Go
<1>2. Fitting'
  BY <1>1, OnlyModest, ModestThen DEF Fits
<1>3. FitsIn(heap')
  BY <1>1, HeapNow, UnClaimLists, SameListsFit DEF Fits
<1> QED
  BY <1>2, <1>3 DEF Fits

(* Free of two variables leaves the lists to the destructors.              *)
LEMMA FreeTwoFits ==
  ASSUME Types, Fits, FreeTwo
  PROVE  Fits'
<1> DEFINE second == <<Free(Step.other)>>
<1>1. /\ todo # << >> /\ Step.op = "free2" /\ heap' = heap
      /\ todo' \in {<< >> \o Rest, second \o Rest}
  BY DEF FreeTwo, Does, Continue, Go
<1>2. Rest \in Seq(Modest)
  BY <1>1, OnlyModest DEF Fits
<1>3. Step.other \in Register
  BY <1>1, FirstStep DEF Types, Formed, Operands
<1>4. second \in Seq(Modest) /\ << >> \in Seq(Modest)
  BY <1>3, ModestFree
<1> HIDE DEF second
<1>5. todo' \in Seq(Modest)
  BY <1>1, <1>2, <1>4, ModestConcat
<1> QED
  BY <1>1, <1>5, ModestThen DEF Fits

(* Free of three variables is up to three of one.                          *)
LEMMA FreeThreeFits ==
  ASSUME Types, Fits, FreeThree
  PROVE  Fits'
<1> DEFINE S == {Free(Step.item), Free(Step.other), Free(Step.third)}
<1>1. todo # << >> /\ Step.op = "free3" /\ heap' = heap
  BY DEF FreeThree, Does
<1>2. Rest \in Seq(Modest)
  BY <1>1, OnlyModest DEF Fits
<1>3. Step.item \in Register /\ Step.other \in Register /\ Step.third \in Register
  BY <1>1, FirstStep DEF Types, Formed, Operands
<1>4. S \subseteq Modest
  BY <1>3, ModestFree
<1>5. PICK f \in Seq(S) : Continue(f \o Rest)
  BY FreeThreeGoes
<1> HIDE DEF S
<1>6. f \o Rest \in Seq(Modest) /\ todo' = f \o Rest
  BY <1>2, <1>4, <1>5, ModestConcat DEF Continue, Go
<1> QED
  BY <1>1, <1>6, ModestThen DEF Fits

(* PACK asks for a number, creates an array and fills it.                  *)
LEMMA PackIs ==
  Pack = <<Need("eval", 1), Pop("item"), Ask("count"), Free("item")>>
           \o Ending("Array", FALSE, Packing)
<1> DEFINE a == Need("eval", 1)
           b == Pop("item")
           c == Ask("count")
           d == Free("item")
           m == Create("Array", FALSE, "ret")
           i == IfMade("ret", Packing)
           s == <<a, b, c, d, m, i>>
           e == <<m, i>>
           t == <<a, b, c, d>> \o e
<1>1. Pack = s
  BY DEF Pack, Packing, Ask
<1>2. Ending("Array", FALSE, Packing) = e
  BY DEF Ending
<1> HIDE DEF a, b, c, d, m, i
<1> DEFINE S == {a, b, c, d, m, i}
<1>3. s \in Seq(S) /\ e \in Seq(S) /\ t \in Seq(S)
  OBVIOUS
<1>4. Len(s) = 6 /\ Len(t) = 6
  OBVIOUS
<1>5. t[1] = a /\ t[2] = b /\ t[3] = c /\ t[4] = d /\ t[5] = m /\ t[6] = i
  OBVIOUS
<1>6. \A n \in 1 .. 6 : s[n] = t[n]
  BY <1>5
<1>7. s = t
  <2> HIDE DEF s, t, S
  <2> QED
    BY <1>3, <1>4, <1>6, SeqEqual
<1> QED
  BY <1>1, <1>2, <1>7 DEF a, b, c, d

(* The program of every opcode begins where lists fit.                     *)
LEMMA FetchFits ==
  ASSUME Fits, Fetch
  PROVE  Fits'
<1>1. PICK op \in Opcodes : todo' = Program(op)
  BY DEF Fetch
<1>2. op \in Opcodes \cap Opcode /\ heap' = heap
  BY OpcodesAssumption DEF Fetch
<1>3. CASE op \notin {"PACK", "NEWARRAY", "NEWSTRUCT"}
  BY <1>1, <1>2, <1>3, ProgramsAreModest, ModestThen DEF Fits
<1>4. CASE op \in {"PACK", "NEWARRAY", "NEWSTRUCT"}
  <2>1. op \in ContainerOpcode /\ op \notin StackOpcode /\ op # "CALL_ED"
    BY <1>4 DEF ContainerOpcode, StackOpcode
  <2>2. Program(op) = ContainerProgram(op)
    BY <2>1 DEF Program
  <2>3. \/ Program(op) = Pack
        \/ \E t \in List : Program(op) = NewContainer(t)
    BY <1>4, <2>2 DEF ContainerProgram, NewArray, NewStruct, List
  <2>4. \A t : NewContainer(t) = <<Need("eval", 1), Pop("item"), Ask("size"), Free("item")>>
                                   \o Ending(t, TRUE, <<Push("ret")>>)
    BY DEF NewContainer, Make, Ending, Ask
  <2>5. /\ Ending("Array", FALSE, Packing) \in Endings
        /\ \A t \in List : Ending(t, TRUE, <<Push("ret")>>) \in Endings
    BY DEF Endings
  <2>6. \E n \in {"count", "size"}, e \in Endings :
          todo' = <<Need("eval", 1), Pop("item"), Ask(n), Free("item")>> \o e
    BY <1>1, <2>3, <2>4, <2>5, PackIs
  <2>7. AtAsk'
    BY <2>6 DEF AtAsk
  <2> QED
    BY <1>2, <2>7 DEF Fits, Fitting
<1> QED
  BY <1>3, <1>4

(* The check of the stack goes on, or faults.                              *)
LEMMA NeedItemsFits ==
  ASSUME Fits, NeedItems
  PROVE  Fits' \/ state' = "FAULT"
<1>1. /\ todo # << >> /\ Step.op = "need" /\ heap' = heap
      /\ todo' = Rest \/ state' = "FAULT"
  BY DEF NeedItems, Does, Continue, Go
<1>2. CASE AtModest /\ Rest \in Seq(Modest)
  BY <1>1, <1>2, ModestThen DEF Fits
<1>3. CASE AtAsk
  <2>1. PICK n \in {"count", "size"}, e \in Endings :
          \/ Step = Need("eval", 1) /\ Rest = <<Pop("item"), Ask(n), Free("item")>> \o e
          \/ Step = Pop("item")
          \/ Step = Ask(n)
    BY <1>3, AskSteps
  <2>2. Step # Pop("item") /\ Step # Ask(n)
    BY <1>1 DEF Pop, Take, Ask, Number
  <2>3. todo' = Rest => AtAsk'
    BY <2>1, <2>2 DEF AtAsk
  <2> QED
    BY <1>1, <2>3 DEF Fits, Fitting
<1> QED
  BY <1>1, <1>2, <1>3, FirstIs DEF Fits

(* Pop and Remove only give up a claim.                                    *)
LEMMA TakeItemFits ==
  ASSUME Types, Fits, TakeItem
  PROVE  Fits'
<1> DEFINE i == At(Step.stack, Index(Step.index))
           l == [reg EXCEPT ![Step.to] = i]
           t == tangled \/ Tangles(i, Range(reg) \ {Null})
<1>1. /\ todo # << >> /\ Step.op = "take" /\ doomed = << >>
      /\ heap' = UnClaim(heap, i) /\ Go(<< >>, Rest, l, number, t)
  BY DEF TakeItem, Does
<1>2. doomed' = << >> /\ todo' = Rest /\ (Rest # << >> => reg' = l /\ number' = number)
  BY <1>1, GoesOn
<1>3. SameLists(heap', heap) /\ FitsIn(heap') /\ DOMAIN heap = Live
  BY <1>1, HeapNow, UnClaimLists, SameListsFit DEF Fits
<1> HIDE DEF i, t
<1>4. CASE AtModest /\ Rest \in Seq(Modest)
  BY <1>2, <1>3, <1>4, ModestThen DEF Fits
<1>5. CASE AtAsk
  <2>1. PICK n \in {"count", "size"}, e \in Endings :
          \/ Step = Need("eval", 1)
          \/ Step = Pop("item") /\ Rest = <<Ask(n), Free("item")>> \o e
          \/ Step = Ask(n)
    BY <1>5, AskSteps
  <2>2. Step # Need("eval", 1) /\ Step # Ask(n)
    BY <1>1 DEF Need, Ask, Number
  <2>3. AtAsk'
    BY <1>2, <2>1, <2>2 DEF AtAsk
  <2> QED
    BY <1>3, <2>3 DEF Fits, Fitting
<1>6. CASE AtPacking
  <2>1. /\ Step = Pop("value") /\ Rest = <<Add("ret", "value")>> \o Packing
        /\ Len(heap[reg["ret"]].kids) + number < MaxArray
    <3>1. Step.op \notin {"loop", "add"}
      BY <1>1
    <3>2. Step # Add("ret", "value") /\ \A p : Step # Loop(p)
      BY <3>1 DEF Loop, Add
    <3> QED
      BY <1>6, <3>2, PackingSteps
  <2>2. Rest # << >>
    <3>1. \E S : Packing \in Seq(S) /\ Add("ret", "value") \in S
      <4> DEFINE a == Loop(<<Pop("value"), Add("ret", "value")>>)
                 b == Push("ret")
                 c == Add("ret", "value")
      <4>1. Packing = <<a, b>>
        BY DEF Packing
      <4> HIDE DEF a, b, c
      <4>2. Packing \in Seq({a, b, c})
        BY <4>1
      <4> QED
        BY <4>2 DEF c
    <3> QED
      BY <2>1, <3>1, InFront
  <2>3. reg' = l /\ number' = number /\ Step.to = "value" /\ reg \in Locals
    BY <1>2, <2>1, <2>2 DEF Pop, Take, Types, Flow
  <2>4. reg'["ret"] = reg["ret"]
    BY <2>3, Names DEF Locals
  <2>5. reg'["ret"] \in Live' /\ heap'[reg'["ret"]].kids = heap[reg["ret"]].kids
    BY <1>3, <1>6, <2>4 DEF SameLists, AtPacking, Live
  <2>6. AtPacking'
    BY <1>2, <2>1, <2>3, <2>5 DEF AtPacking
  <2> QED
    BY <1>3, <2>6 DEF Fits, Fitting
<1> QED
  BY <1>1, <1>4, <1>5, <1>6, FirstIs DEF Fits

(* Free of one variable leaves the lists to the destructors.               *)
LEMMA FreeOneFits ==
  ASSUME Types, Fits, FreeOne
  PROVE  Fits'
<1>1. /\ todo # << >> /\ Step.op = "free" /\ heap' = heap /\ todo' = Rest
      /\ Rest # << >> => number' = number
  BY DEF FreeOne, Does, Continue, Go
<1>2. CASE AtModest /\ Rest \in Seq(Modest)
  BY <1>1, <1>2, ModestThen DEF Fits
<1>3. CASE AtSized
  <2>1. Rest \in Endings /\ number <= MaxArray
    <3>1. todo \notin Endings
      <4> SUFFICES ASSUME todo \in Endings PROVE FALSE
        OBVIOUS
      <4>1. PICK c, d : todo = <<c, d>> /\ c.op = "create"
        BY EndingIs
      <4> QED
        BY <1>1, <4>1 DEF Step
    <3> QED
      BY <1>3, <3>1, SizedSteps
  <2>2. Rest # << >>
    <3>1. PICK c, d : Rest = <<c, d>>
      BY <2>1, EndingIs
    <3> QED
      BY <3>1
  <2>3. AtSized'
    BY <1>1, <2>1, <2>2 DEF AtSized
  <2> QED
    BY <1>1, <2>3 DEF Fits, Fitting
<1> QED
  BY <1>1, <1>2, <1>3, FirstIs DEF Fits

(* A destructor makes lists shorter, and deletes them.                     *)
LEMMA DeleteItemShrinks ==
  ASSUME Types, DeleteItem
  PROVE  Shrinks(heap', heap) /\ HeapOK(heap')
<1> DEFINE i == Head(doomed)
           kids == heap[i].kids
           g == Holding(heap, i, Tail(kids))
<1>1. i \in Live /\ HeapOK(heap) /\ DOMAIN heap = Live
  BY HeapNow DEF DeleteItem, Dying
<1>2. HeapOK(heap')
  BY DeleteItemTypes DEF Types, Memory, HeapOK, Live
<1>3. kids \in Seq(ItemId) /\ \A j \in Live : heap[j].kids \in Seq(ItemId)
  BY <1>1, ItemFields
<1>4. \A j \in Live : Len(heap[j].kids) \in Nat
  BY <1>3, LenProperties
<1>5. CASE kids = << >>
  <2>1. heap' = [j \in Live \ {i} |-> heap[j]]
    BY <1>5 DEF DeleteItem
  <2> QED
    BY <1>1, <1>2, <1>4, <2>1 DEF Shrinks
<1>6. CASE kids # << >>
  <2>1. heap' = UnClaim(g, Head(kids))
    BY <1>6 DEF DeleteItem
  <2>2. Tail(kids) \in Seq(ItemId) /\ Len(Tail(kids)) = Len(kids) - 1
    BY <1>3, <1>6, HeadTailProperties
  <2> HIDE DEF kids
  <2>3. /\ DOMAIN g = DOMAIN heap
        /\ \A j \in DOMAIN heap : g[j].type = heap[j].type
                                  /\ (j # i => g[j].kids = heap[j].kids)
        /\ g[i].kids = Tail(kids) /\ HeapOK(g)
    <3>1. i \in DOMAIN heap
      BY <1>1
    <3>2. HeapOK(g)
      BY <1>1, <2>2, <3>1, HoldingHeap
    <3> QED
      BY <1>1, <3>1, <3>2 DEF Holding, NewItem, HeapOK
  <2> HIDE DEF g
  <2>4. SameLists(heap', g)
    BY <2>1, <2>3, UnClaimLists
  <2>5. Len(Tail(kids)) <= Len(heap[i].kids)
    BY <1>1, <1>4, <2>2 DEF kids
  <2>6. \A j \in DOMAIN heap' : /\ j \in DOMAIN heap /\ heap'[j].type = heap[j].type
                                /\ j # i => heap'[j].kids = heap[j].kids
                                /\ j = i => heap'[j].kids = Tail(kids)
    BY <2>3, <2>4 DEF SameLists
  <2>7. ASSUME NEW j \in DOMAIN heap'
        PROVE  Len(heap'[j].kids) <= Len(heap[j].kids)
    <3>1. CASE j = i
      BY <2>5, <2>6, <3>1
    <3>2. CASE j # i
      <4>1. heap'[j].kids = heap[j].kids /\ Len(heap[j].kids) \in Nat
        BY <1>1, <1>4, <2>6, <3>2
      <4> QED
        BY <4>1
    <3> QED
      BY <3>1, <3>2
  <2> QED
    BY <1>2, <2>6, <2>7 DEF Shrinks
<1> QED
  BY <1>5, <1>6

(* So they fit, and an element that is about to be stored has its place    *)
(* still.                                                                  *)
LEMMA DeleteItemFits ==
  ASSUME Types, Fits, DeleteItem
  PROVE  Fits'
<1>1. /\ doomed # << >> /\ todo' = todo
      /\ todo # << >> => reg' = reg /\ number' = number
  BY DEF DeleteItem, After, Go
<1>2. Shrinks(heap', heap) /\ HeapOK(heap') /\ HeapOK(heap)
  BY DeleteItemShrinks, HeapNow
<1>3. FitsIn(heap')
  BY <1>2, ShrinksFit DEF Fits
<1>4. CASE AtModest
  BY <1>1, <1>3, <1>4, ModestThen DEF AtModest, Fits
<1>5. CASE AtAsk
  <2>1. AtAsk'
    BY <1>1, <1>5 DEF AtAsk
  <2> QED
    BY <1>3, <2>1 DEF Fits, Fitting
<1>6. CASE AtGuarded
  <2>1. AtGuarded'
    BY <1>1, <1>6 DEF AtGuarded
  <2> QED
    BY <1>3, <2>1 DEF Fits, Fitting
<1>7. CASE AtSized
  <2>1. todo # << >>
    BY <1>7, SizedSteps
  <2>2. AtSized'
    BY <1>1, <1>7, <2>1 DEF AtSized
  <2> QED
    BY <1>3, <2>2 DEF Fits, Fitting
<1>8. CASE AtStore
  <2>1. todo # << >> /\ Step' = Step /\ Rest' = Rest /\ In' = In
    BY <1>1, <1>8 DEF AtStore, Step, Rest, In
  <2>2. ASSUME Step.op = "store", Step.index = 0, In \in DOMAIN heap'
        PROVE  Len(heap'[In].kids) < Cap(heap'[In].type)
    <3>1. In \in DOMAIN heap /\ heap'[In].type = heap[In].type
          /\ Len(heap'[In].kids) <= Len(heap[In].kids)
      BY <1>2, <2>2 DEF Shrinks
    <3>2. Len(heap[In].kids) < Cap(heap[In].type)
      BY <1>8, <2>2, <3>1 DEF AtStore, Live, Elements
    <3>3. heap'[In].kids \in Seq(ItemId) /\ heap[In].kids \in Seq(ItemId)
      BY <1>2, <2>2, <3>1, ItemFields
    <3>4. Len(heap'[In].kids) \in Nat /\ Len(heap[In].kids) \in Nat
          /\ Cap(heap[In].type) \in Nat
      BY <3>3, LenProperties, CapType
    <3> QED
      BY <3>1, <3>2, <3>4
  <2>3. AtStore'
    BY <1>1, <1>8, <2>1, <2>2 DEF AtStore, Elements, Live
  <2> QED
    BY <1>3, <2>3 DEF Fits, Fitting
<1> QED
  BY <1>1, <1>4, <1>5, <1>6, <1>7, <1>8
     DEF Fits, Fitting, AtRoom, AtPair, AtMade, Made0, AtFill, AtPacking, AtCopies

(* What a creator makes has as many elements as it was asked for.          *)
LEMMA MadeLists ==
  ASSUME NEW h, HeapOK(h), FitsIn(h), NEW t \in Type, NEW m \in Nat, m <= Cap(t),
         NEW new, NewIds(m + 1, new, ItemId \ DOMAIN h)
  PROVE  /\ FitsIn(Made(h, t, new)) /\ new[1] \in DOMAIN Made(h, t, new)
         /\ m = 0 => Made(h, t, new)[new[1]].kids = << >>
<1> DEFINE g == Made(h, t, new)
<1>1. new \in [1 .. m + 1 -> ItemId \ DOMAIN h] /\ 1 \in 1 .. m + 1
  BY DEF NewIds
<1>2. new \in Seq(ItemId) /\ Len(new) = m + 1 /\ new # << >>
  BY <1>1
<1>3. Tail(new) \in Seq(ItemId) /\ Len(Tail(new)) = m
  BY <1>2, HeadTailProperties
<1>4. m = 0 => Tail(new) = << >>
  BY <1>3, EmptySeq
<1>5. new[1] \in Range(new) /\ new[1] \notin DOMAIN h
  BY <1>1 DEF Range
<1>6. /\ DOMAIN g = DOMAIN h \cup Range(new)
      /\ \A i \in DOMAIN h : g[i] = h[i]
      /\ g[new[1]] = NewItem(t, 0, Tail(new))
      /\ \A i \in DOMAIN g : \/ i \in DOMAIN h \/ i = new[1]
                             \/ g[i] = NewItem("Value", 1, << >>)
  BY <1>5 DEF Made
<1>7. g[new[1]].type = t /\ g[new[1]].kids = Tail(new)
  BY <1>6 DEF NewItem
<1> HIDE DEF g
<1>8. \A i \in DOMAIN g : Len(g[i].kids) <= Cap(g[i].type)
  <2> TAKE i \in DOMAIN g
  <2>1. CASE i \in DOMAIN h
    BY <1>6, <2>1 DEF FitsIn
  <2>2. CASE i = new[1]
    BY <1>3, <1>7, <2>2
  <2>3. CASE g[i] = NewItem("Value", 1, << >>)
    <3>1. g[i].type = "Value" /\ g[i].kids = << >>
      BY <2>3 DEF NewItem
    <3> QED
      BY <3>1, CapType
  <2> QED
    BY <1>6, <2>1, <2>2, <2>3
<1> QED
  BY <1>4, <1>5, <1>6, <1>7, <1>8 DEF g, FitsIn

(* What a creator makes, by the steps that may be first.                   *)
LEMMA CreateItemMakes ==
  ASSUME Types, FitsIn(heap), CreateItem, NEW m \in Nat, m <= MaxArray,
         Increment(Step.elements) = m + 1
  PROVE  \/ state' = "FAULT"
         \/ /\ FitsIn(heap') /\ doomed' = << >> /\ todo' = Rest
            /\ \E j \in Live' :
                 /\ Assigned(Step.to, j)
                 /\ m = 0 => heap'[j].kids = << >>
<1>1. Creation /\ Step.type \in Type
  BY CreateItemTypes
<1>2. SUFFICES ASSUME state' # "FAULT"
               PROVE  /\ FitsIn(heap') /\ doomed' = << >> /\ todo' = Rest
                      /\ \E j \in Live' : /\ Assigned(Step.to, j)
                                          /\ m = 0 => heap'[j].kids = << >>
  OBVIOUS
<1>3. PICK n \in Nat : \E new : /\ NewIds(n + 1, new, ItemId \ Live)
                               /\ heap' = Made(heap, Step.type, new)
                               /\ items' = items + n + 1
                               /\ Assigned(Step.to, new[1])
  BY <1>1, <1>2 DEF Creation
<1>4. PICK new : /\ NewIds(n + 1, new, ItemId \ Live)
                 /\ heap' = Made(heap, Step.type, new)
                 /\ items' = items + n + 1
                 /\ Assigned(Step.to, new[1])
  BY <1>3
<1>5. n = m
  <2>1. items' = items + (m + 1) /\ items \in Int
    BY DEF CreateItem, Types, Memory
  <2> QED
    BY <1>4, <2>1
<1>6. HeapOK(heap) /\ DOMAIN heap = Live /\ m <= Cap(Step.type)
  <2>1. Cap(Step.type) \in Nat /\ Cap(Step.type) >= MaxArray /\ MaxArray \in Nat
    BY CapType, LifetimeAssumption
  <2> QED
    BY <2>1, HeapNow
<1>7. /\ FitsIn(heap') /\ new[1] \in DOMAIN heap'
      /\ m = 0 => heap'[new[1]].kids = << >>
  BY <1>1, <1>4, <1>5, <1>6, MadeLists
<1>8. doomed' = << >> /\ todo' = Rest
  BY <1>4 DEF Assigned, Go
<1> QED
  BY <1>4, <1>7, <1>8 DEF Live

(* To push what was made is modest.                                        *)
LEMMA PushMadeIsModest == <<IfMade("ret", <<Push("ret")>>)>> \in Seq(Modest)
<1>1. Push("ret") \in Nest(Harmless)
  BY ModestLevels, Names DEF HasPlain
<1>2. <<Push("ret")>> \in Seq(Nest(Harmless))
  BY <1>1
<1>3. IfMade("ret", <<Push("ret")>>) \in Modest
  BY <1>2, ModestLevels, Names DEF HasNested
<1> QED
  BY <1>3

(* An empty array was made for what comes next.                            *)
LEMMA MadeFor ==
  ASSUME NEW j \in Live', heap'[j].kids = << >>, doomed' = << >>, todo' = Rest,
         Rest # << >>, Step.to = "ret", Assigned(Step.to, j), Types
  PROVE  Made0' /\ number' = number
<1>1. reg' = [reg EXCEPT !["ret"] = j] /\ number' = number
  BY DEF Assigned, Go
<1>2. reg'["ret"] = j
  BY <1>1, Names DEF Types, Flow, Locals
<1> QED
  BY <1>1, <1>2 DEF Made0

(* The creators make lists that fit, or fault.                             *)
LEMMA CreateItemFits ==
  ASSUME Types, Fits, CreateItem
  PROVE  Fits' \/ state' = "FAULT"
<1>1. todo # << >> /\ Step.op = "create"
  BY DEF CreateItem, Does
<1>2. number \in Nat /\ MaxArray \in Nat /\ FitsIn(heap)
  BY HeapNow DEF Fits
<1>3. ASSUME Step.elements \in {FALSE}
      PROVE  \/ state' = "FAULT"
             \/ /\ FitsIn(heap') /\ doomed' = << >> /\ todo' = Rest
                /\ \E j \in Live' : Assigned(Step.to, j) /\ heap'[j].kids = << >>
  <2>1. Increment(Step.elements) = 1
    BY <1>3, Zenon DEF Increment
  <2>2. Increment(Step.elements) = 0 + 1 /\ 0 \in Nat /\ 0 <= MaxArray
    BY <1>2, <2>1
  <2> QED
    BY <1>2, <2>2, CreateItemMakes
<1>4. CASE AtModest /\ ModestStep(Step) /\ Rest \in Seq(Modest)
  BY <1>1, <1>3, <1>4, ModestThen DEF ModestStep, Fits
<1>5. CASE AtSized
  <2>1. number <= MaxArray /\ todo \in Endings
    <3>1. Step # Free("item")
      BY <1>1 DEF Free
    <3> QED
      BY <1>5, <3>1, SizedSteps
  <2>2. PICK c, f : /\ todo = <<c, IfMade("ret", f)>> /\ c.to = "ret"
                    /\ (f = Packing /\ c.elements \in {FALSE}) \/ f = <<Push("ret")>>
    BY <2>1, EndingIs
  <2>3. Step = c /\ Rest = <<IfMade("ret", f)>> /\ Rest # << >>
    BY <2>2 DEF Step, Rest
  <2>4. CASE f = Packing /\ c.elements \in {FALSE}
    <3>1. \/ state' = "FAULT"
          \/ Made0' /\ FitsIn(heap') /\ todo' = <<IfMade("ret", Packing)>> /\ number' = number
      BY <1>3, <2>2, <2>3, <2>4, MadeFor
    <3>2. AtMade' \/ state' = "FAULT"
      BY <2>1, <3>1 DEF AtMade
    <3> QED
      BY <3>1, <3>2 DEF Fits, Fitting
  <2>5. CASE f = <<Push("ret")>>
    <3>1. Step.elements \in BOOLEAN
      BY <1>1, FirstStep DEF Types, Formed, Operands
    <3>2. Increment(Step.elements) = number + 1 \/ Increment(Step.elements) = 0 + 1
      BY <3>1 DEF Increment
    <3>3. state' = "FAULT" \/ (FitsIn(heap') /\ todo' = Rest)
      BY <1>2, <2>1, <3>2, CreateItemMakes
    <3> QED
      BY <2>3, <2>5, <3>3, PushMadeIsModest, ModestThen DEF Fits
  <2> QED
    BY <2>2, <2>4, <2>5
<1>6. CASE todo \in Filling
  <2>1. PICK c : /\ todo # << >> /\ Head(todo) = c /\ Tail(todo) # << >>
                 /\ c.to = "ret" /\ c.elements \in {FALSE}
    <3>1. PICK part \in {"keys", "values"} : \E c :
            /\ todo # << >> /\ Head(todo) = c
            /\ Tail(todo) = <<IfMade("ret", <<Fill("item", part, "ret"), Push("ret")>>),
                              Free("item")>>
            /\ c.to = "ret" /\ c.elements \in {FALSE}
      BY <1>6, FillingSteps
    <3>2. Tail(todo) # << >>
      BY <3>1
    <3> QED
      BY <3>1, <3>2
  <2>2. Step.elements \in {FALSE} /\ Step.to = "ret" /\ Rest # << >>
    <3>1. Step = c
      BY <2>1 DEF Step
    <3>2. Rest # << >>
      BY <2>1 DEF Rest
    <3> QED
      BY <2>1, <3>1, <3>2
  <2>3. state' = "FAULT" \/ (Made0' /\ FitsIn(heap') /\ todo' = Rest)
    BY <1>3, <2>2, MadeFor
  <2>4. AtMade' \/ state' = "FAULT"
    BY <1>6, <2>3 DEF AtMade, Rest
  <2> QED
    BY <2>3, <2>4 DEF Fits, Fitting
<1> QED
  BY <1>1, <1>4, <1>5, <1>6, FirstIs DEF Fits

(* Two steps and a third.                                                  *)
LEMMA TwoAndOne ==
  ASSUME NEW a, NEW b, NEW c
  PROVE  <<a, b>> \o <<c>> = <<a, b, c>>
<1> DEFINE S == {a, b, c}
           s == <<a, b>> \o <<c>>
           t == <<a, b, c>>
<1>1. s \in Seq(S) /\ t \in Seq(S) /\ Len(s) = 3 /\ Len(t) = 3
  OBVIOUS
<1>2. s[1] = a /\ s[2] = b /\ s[3] = c
  OBVIOUS
<1>3. \A n \in 1 .. 3 : s[n] = t[n]
  BY <1>2
<1> HIDE DEF s, t, S
<1>4. s = t
  BY <1>1, <1>3, SeqEqual
<1> QED
  BY <1>4 DEF s, t

(* The branches of a modest program, which leave it only for a guarded     *)
(* part.                                                                   *)
LEMMA ModestControlFits ==
  ASSUME Types, Fits, Control, AtModest, ModestStep(Step), Rest \in Seq(Modest)
  PROVE  Fits'
<1>1. /\ todo # << >> /\ heap' = heap /\ doomed = << >> /\ Defined /\ FitsIn(heap')
      /\ Step.op \in {"choose", "if", "ifMade", "check", "room", "loop", "assign",
                      "read", "number"}
  BY DEF Control, Does, Fits
<1>2. CASE Step.op = "choose"
  <2>1. PICK n \in DOMAIN Step.from : Continue(Step.from[n] \o Rest)
    BY <1>2 DEF Control, Branch
  <2>2. Step.from[n] \o Rest \in Seq(Modest)
    BY <1>2, <2>1, ModestConcat DEF ModestStep
  <2> QED
    BY <1>1, <2>1, <2>2, ModestThen DEF Continue, Go, Fits
<1>3. CASE Step.op \in {"if", "ifMade"}
  <2>1. Step.then \o Rest \in Seq(Modest)
    BY <1>3, ModestConcat DEF ModestStep
  <2>2. todo' \in {Step.then \o Rest, Rest}
    BY <1>3 DEF Control, Branch, Continue, Go
  <2> QED
    BY <1>1, <2>1, <2>2, ModestThen DEF Fits
<1>4. CASE Step.op \in {"room", "read", "number"}
  <2>1. Step.otherwise \in Seq(Modest)
    BY <1>4 DEF ModestStep
  <2>2. todo' \in {Step.otherwise, Rest}
    BY <1>4 DEF Control, Branch, ReadsValue, ReadsNumber, Continue, Go
  <2> QED
    BY <1>1, <2>1, <2>2, ModestThen DEF Fits
<1>5. CASE Step.op = "loop"
  <2>1. Step.body \o todo \in Seq(Modest)
    BY <1>5, ModestConcat DEF ModestStep, AtModest
  <2>2. todo' \in {Step.body \o todo, Rest}
    BY <1>5 DEF Control, Branch, Continue, Go
  <2> QED
    BY <1>1, <2>1, <2>2, ModestThen DEF Fits
<1>6. CASE Step.op = "assign"
  <2>1. todo' = Rest
    BY <1>6 DEF Control, Branch, Assigned, Go
  <2> QED
    BY <1>1, <2>1, ModestThen DEF Fits
<1>7. CASE Step.op = "check"
  <2>1. Continue(IF heap[reg[Step.item]].type \in Step.types THEN Rest ELSE Step.otherwise)
    BY <1>7 DEF Control, Branch
  <2>2. CASE todo' = Rest \/ Step.otherwise \in Seq(Modest)
    BY <1>1, <2>1, <2>2, ModestThen DEF Continue, Go, Fits
  <2>3. CASE Step.otherwise \in {Appending} \cup Filling /\ todo' = Step.otherwise
    <3>1. AtGuarded'
      BY <2>3 DEF AtGuarded
    <3> QED
      BY <1>1, <3>1 DEF Fits, Fitting
  <2>4. CASE Step = When("item", {"Map"}, Pairing) /\ todo' # Rest
    <3>1. /\ Step.item = "item" /\ Step.types = Type \ {"Map"} /\ Step.otherwise = Pairing
          /\ Step.uses = {"item"}
      BY <2>4 DEF When, Check
    <3>2. reg["item"] \in Live
      BY <1>1, <3>1, UsedIsLive
    <3>3. heap[reg["item"]].type \in Type
      BY <3>2, HeapNow, ItemFields
    <3>4. heap[reg["item"]].type \notin Step.types
      BY <2>1, <2>4, <3>1 DEF Continue, Go
    <3>5. heap[reg["item"]].type = "Map"
      BY <3>1, <3>3, <3>4
    <3>6. Continue(Pairing) /\ Pairing # << >>
      BY <2>1, <3>1, <3>4, GuardedSteps
    <3>7. doomed' = << >> /\ todo' = Pairing /\ reg' = reg
      BY <3>6 DEF Continue, Go
    <3>8. AtPair'
      BY <1>1, <3>2, <3>5, <3>7 DEF AtPair, Live
    <3> QED
      BY <1>1, <3>8 DEF Fits, Fitting
  <2> QED
    BY <1>7, <2>1, <2>2, <2>3, <2>4 DEF ModestStep, Continue, Go
<1> QED
  BY <1>1, <1>2, <1>3, <1>4, <1>5, <1>6, <1>7

(* What is done when a check of the guarded parts fails.                   *)
LEMMA FaultsAreModest ==
  <<Fault, Free("item")>> \in Seq(Modest) /\ <<Free("item"), Fault>> \in Seq(Modest)
BY ModestLevels, Names DEF HasPlain

(* The number that is read for a length is at most MAX_ARRAY_SIZE.         *)
LEMMA AskControlFits ==
  ASSUME Types, Fits, Control, AtAsk
  PROVE  Fits'
<1>1. /\ todo # << >> /\ heap' = heap /\ FitsIn(heap')
      /\ Step.op \in {"choose", "if", "ifMade", "check", "room", "loop", "assign",
                      "read", "number"}
  BY DEF Control, Does, Fits
<1>2. PICK n \in {"count", "size"}, e \in Endings :
         \/ Step = Need("eval", 1) \/ Step = Pop("item")
         \/ Step = Ask(n) /\ Rest = <<Free("item")>> \o e
  BY AskSteps
<1>3. Step = Ask(n) /\ Rest = <<Free("item")>> \o e
  BY <1>1, <1>2 DEF Need, Pop, Take
<1>4. /\ Step.op = "number" /\ Step.range = n /\ Step.item = "item"
      /\ Step.otherwise = <<Free("item"), Fault>>
  BY <1>3 DEF Ask, Number
<1>5. ReadsNumber
  BY <1>4 DEF Control, Branch
<1>6. CASE Continue(Step.otherwise)
  BY <1>1, <1>4, <1>6, FaultsAreModest, ModestThen DEF Continue, Go, Fits
<1>7. ASSUME NEW k \in InRange(Step.range), Go(<< >>, Rest, reg, k, tangled)
      PROVE  Fits'
  <2>1. k <= MaxArray
    <3>1. stack.eval \in Seq(ItemId)
      BY DEF Types, Memory
    <3>2. Len(stack.eval) \in Nat /\ MaxArray \in Nat
      BY <3>1, LenProperties, HeapNow
    <3>3. CASE n = "count"
      <4>1. k \in 0 .. (IF Len(stack.eval) < MaxArray THEN Len(stack.eval) ELSE MaxArray)
        BY <1>4, <1>7, <3>3 DEF InRange
      <4> QED
        BY <3>2, <4>1
    <3>4. CASE n = "size"
      BY <1>4, <1>7, <3>2, <3>4 DEF InRange
    <3> QED
      BY <3>3, <3>4
  <2>2. PICK c, d : e = <<c, d>>
    BY EndingIs
  <2>3. Rest # << >>
    <3>1. e \in Seq({Free("item"), c, d})
      BY <2>2
    <3> QED
      BY <1>3, <3>1, InFront
  <2>4. todo' = <<Free("item")>> \o e /\ number' = k
    BY <1>3, <1>7, <2>3 DEF Go
  <2>5. AtSized'
    BY <2>1, <2>4 DEF AtSized
  <2> QED
    BY <1>1, <2>5 DEF Fits, Fitting
<1> QED
  BY <1>5, <1>6, <1>7 DEF ReadsNumber

(* APPEND goes on when there is room for one more element.                 *)
LEMMA RoomControlFits ==
  ASSUME Types, Fits, Control, todo = Appending, Step.op = "room"
  PROVE  Fits'
<1>1. heap' = heap /\ FitsIn(heap') /\ Defined
  BY DEF Control, Does, Fits
<1>2. Step = Room("item", <<Fault, Free("item")>>) /\ Rest = Tail(Appending)
  BY GuardedSteps DEF Step, Rest
<1>3. /\ Step.item = "item" /\ Step.otherwise = <<Fault, Free("item")>>
      /\ Step.uses = {"item"}
  BY <1>2 DEF Room
<1>4. reg["item"] \in Live
  BY <1>1, <1>3, UsedIsLive
<1>5. Continue(IF Len(heap[reg["item"]].kids) < MaxArray THEN Rest ELSE Step.otherwise)
  BY <1>3 DEF Control, Branch
<1>6. CASE Len(heap[reg["item"]].kids) < MaxArray
  <2>1. Rest # << >>
    <3>1. Rest = <<Add("item", "value"), Free("item")>>
      BY <1>2, GuardedSteps
    <3> QED
      BY <3>1
  <2>2. doomed' = << >> /\ todo' = Tail(Appending) /\ reg' = reg
    BY <1>2, <1>5, <1>6, <2>1 DEF Continue, Go
  <2>3. AtRoom'
    BY <1>1, <1>4, <1>6, <2>2 DEF AtRoom, Live
  <2> QED
    BY <1>1, <2>3 DEF Fits, Fitting
<1>7. CASE ~(Len(heap[reg["item"]].kids) < MaxArray)
  BY <1>1, <1>3, <1>5, <1>7, FaultsAreModest, ModestThen DEF Continue, Go, Fits
<1> QED
  BY <1>6, <1>7

(* What was made is not null: PACK, KEYS and VALUES fill it.               *)
LEMMA MadeControlFits ==
  ASSUME Types, Fits, Control, AtMade, Step.op = "ifMade"
  PROVE  Fits'
<1>1. heap' = heap /\ FitsIn(heap') /\ reg["ret"] \in Live
  BY DEF Control, Does, Fits, AtMade, Made0
<1>2. reg["ret"] # Null
  BY <1>1, HeapNow, LifetimeAssumption DEF HeapOK, Null
<1>3. Continue(IF reg[Step.item] # Null THEN Step.then \o Rest ELSE Rest)
  BY DEF Control, Branch
<1>4. ASSUME NEW g \in Filling, todo = Tail(g)
      PROVE  Fits'
  <2>1. PICK part \in {"keys", "values"} :
          todo = <<IfMade("ret", <<Fill("item", part, "ret"), Push("ret")>>), Free("item")>>
    BY <1>4, FillingSteps
  <2>2. /\ Step = IfMade("ret", <<Fill("item", part, "ret"), Push("ret")>>)
        /\ Rest = <<Free("item")>>
    BY <2>1 DEF Step, Rest
  <2>3. Step.item = "ret" /\ Step.then = <<Fill("item", part, "ret"), Push("ret")>>
    BY <2>2 DEF IfMade
  <2>4. Step.then \o Rest = <<Fill("item", part, "ret"), Push("ret"), Free("item")>>
    BY <2>2, <2>3, TwoAndOne
  <2>5. Continue(<<Fill("item", part, "ret"), Push("ret"), Free("item")>>)
    BY <1>2, <1>3, <2>3, <2>4
  <2>6. /\ todo' = <<Fill("item", part, "ret"), Push("ret"), Free("item")>>
        /\ doomed' = << >> /\ reg' = reg
    BY <2>5 DEF Continue, Go
  <2>7. Made0'
    BY <1>1, <2>6 DEF AtMade, Made0, Live
  <2>8. AtFill'
    BY <2>6, <2>7 DEF AtFill
  <2> QED
    BY <1>1, <2>8 DEF Fits, Fitting
<1>5. CASE number <= MaxArray /\ todo = <<IfMade("ret", Packing)>>
  <2>1. Step = IfMade("ret", Packing) /\ Rest = << >>
    BY <1>5 DEF Step, Rest
  <2>2. Step.item = "ret" /\ Step.then = Packing
    BY <2>1 DEF IfMade
  <2>3. Packing \o << >> = Packing /\ Packing # << >>
    <3> DEFINE a == Loop(<<Pop("value"), Add("ret", "value")>>)
               b == Push("ret")
    <3>1. Packing = <<a, b>>
      BY DEF Packing
    <3> HIDE DEF a, b
    <3>2. Packing \in Seq({a, b})
      BY <3>1
    <3> QED
      BY <3>2, GuardedSteps, ConcatEmptySeq
  <2>4. Continue(Packing)
    BY <1>2, <1>3, <2>1, <2>2, <2>3
  <2>5. todo' = Packing /\ doomed' = << >> /\ reg' = reg /\ number' = number
    BY <2>3, <2>4 DEF Continue, Go
  <2>6. heap[reg["ret"]].kids = << >> /\ number \in Nat
    BY HeapNow DEF AtMade, Made0
  <2>7. Len(heap'[reg'["ret"]].kids) + number' <= MaxArray
    <3>1. heap'[reg'["ret"]].kids = << >>
      BY <1>1, <2>5, <2>6
    <3> QED
      BY <1>5, <2>5, <2>6, <3>1
  <2>8. AtPacking'
    BY <1>1, <2>5, <2>7 DEF AtPacking, Live
  <2> QED
    BY <1>1, <2>8 DEF Fits, Fitting
<1> QED
  BY <1>4, <1>5 DEF AtMade

(* PACK: what is in the array and what is still to come are no more than   *)
(* MAX_ARRAY_SIZE.                                                         *)
LEMMA LoopControlFits ==
  ASSUME Types, Fits, Control, AtPacking, Step.op = "loop"
  PROVE  Fits'
<1> DEFINE body == <<Pop("value"), Add("ret", "value")>>
<1>1. heap' = heap /\ FitsIn(heap') /\ reg["ret"] \in Live /\ number \in Nat
  BY HeapNow DEF Control, Does, Fits, AtPacking
<1>2. /\ Step = Loop(body) /\ Rest = <<Push("ret")>> /\ todo = Packing
      /\ Len(heap[reg["ret"]].kids) + number <= MaxArray
  <2>1. Step # Pop("value") /\ Step # Add("ret", "value")
    BY DEF Pop, Take, Add
  <2> QED
    BY <2>1, PackingSteps
<1>3. Step.body = body
  BY <1>2 DEF Loop
<1>4. IF number = 0 THEN Continue(Rest)
      ELSE Go(<< >>, body \o Packing, reg, number - 1, tangled)
  BY <1>2, <1>3 DEF Control, Branch
<1> HIDE DEF body
<1>5. CASE number = 0
  <2>1. todo' = <<Push("ret")>>
    BY <1>2, <1>4, <1>5 DEF Continue, Go
  <2>2. Push("ret") \in Modest
    BY ModestLevels, Names DEF HasPlain
  <2>3. todo' \in Seq(Modest)
    BY <2>1, <2>2
  <2> QED
    BY <1>1, <2>3, ModestThen DEF Fits
<1>6. CASE number # 0
  <2>1. body \o Packing # << >>
    <3> DEFINE a == Pop("value")
               b == Add("ret", "value")
               p == Push("ret")
               l == Loop(<<a, b>>)
    <3>1. body = <<a, b>> /\ Packing = <<l, p>>
      BY DEF body, Packing
    <3> HIDE DEF a, b, p, l
    <3>2. Packing \in Seq({a, b, l, p})
      BY <3>1
    <3> QED
      BY <3>1, <3>2, TwoInFront
  <2>2. /\ doomed' = << >> /\ todo' = body \o Packing /\ reg' = reg
        /\ number' = number - 1
    BY <1>4, <1>6, <2>1 DEF Go
  <2>3. heap[reg["ret"]].kids \in Seq(ItemId) /\ MaxArray \in Nat
    BY <1>1, HeapNow, ItemFields
  <2>4. Len(heap[reg["ret"]].kids) \in Nat
    BY <2>3, LenProperties
  <2>5. Len(heap'[reg'["ret"]].kids) + number' < MaxArray
    BY <1>1, <1>2, <2>2, <2>3, <2>4
  <2>6. AtPacking'
    BY <1>1, <2>2, <2>5 DEF AtPacking, Live, body
  <2> QED
    BY <1>1, <2>6 DEF Fits, Fitting
<1> QED
  BY <1>5, <1>6

(* The steps that only say how the program goes on.                        *)
LEMMA ControlFits ==
  ASSUME Types, Fits, Control
  PROVE  Fits'
<1>1. /\ todo # << >>
      /\ Step.op \in {"choose", "if", "ifMade", "check", "room", "loop", "assign",
                      "read", "number"}
  BY DEF Control, Does
<1> QED
  BY <1>1, FirstIs, ModestControlFits, AskControlFits, RoomControlFits, MadeControlFits,
     LoopControlFits DEF Fits

(* The items of a list that is held longer than it is.                     *)
LEMMA AppendedFits ==
  ASSUME NEW h, HeapOK(h), FitsIn(h), NEW i \in DOMAIN h, NEW x \in ItemId,
         Len(h[i].kids) < Cap(h[i].type)
  PROVE  /\ FitsIn(Holding(h, i, Append(h[i].kids, x)))
         /\ HeapOK(Holding(h, i, Append(h[i].kids, x)))
         /\ DOMAIN Holding(h, i, Append(h[i].kids, x)) = DOMAIN h
         /\ Len(Append(h[i].kids, x)) = Len(h[i].kids) + 1
         /\ Append(h[i].kids, x) \in Seq(ItemId)
<1>1. h[i].kids \in Seq(ItemId)
  BY ItemFields
<1>2. Append(h[i].kids, x) \in Seq(ItemId) /\ Len(Append(h[i].kids, x)) = Len(h[i].kids) + 1
  BY <1>1
<1>3. Len(h[i].kids) \in Nat /\ Cap(h[i].type) \in Nat
  BY <1>1, LenProperties, CapType
<1>4. Len(Append(h[i].kids, x)) <= Cap(h[i].type)
  BY <1>2, <1>3
<1> QED
  BY <1>2, <1>4, HoldingFits, HoldingHeap

(* Add comes where there is room, in APPEND and in PACK.                   *)
LEMMA AddElementFits ==
  ASSUME Types, Fits, AddElement
  PROVE  Fits'
<1> DEFINE x == reg[Step.item]
           h == Holding(heap, In, Append(heap[In].kids, x))
<1>1. /\ todo # << >> /\ Step.op = "add" /\ Defined /\ FitsIn(heap)
      /\ heap' = ClaimAll(h, <<x>>) /\ Continue(Rest)
  BY DEF AddElement, Does, Fits, Elements
<1>2. In \in Live /\ HeapOK(heap) /\ DOMAIN heap = Live /\ Elements \in Seq(ItemId)
  BY <1>1, ListStep
<1>3. x \in ItemId
  <2>1. Step.item \in Step.uses
    BY <1>1, FirstStep DEF Types, Formed, Operands
  <2> QED
    BY <1>1, <1>2, <2>1, UsedIsLive, ItemFields
<1>4. Len(Elements) \in Nat /\ MaxArray \in Nat /\ number \in Nat /\ Cap(heap[In].type) \in Nat
      /\ Cap(heap[In].type) >= MaxArray
  BY <1>2, HeapNow, LenProperties, CapType
<1>5. doomed' = << >> /\ todo' = Rest /\ (Rest # << >> => reg' = reg /\ number' = number)
  BY <1>1 DEF Continue, Go
<1> HIDE DEF x
<1>6. ASSUME Len(Elements) < MaxArray
      PROVE  /\ FitsIn(heap') /\ SameLists(heap', h) /\ DOMAIN h = Live
             /\ h[In].kids = Append(heap[In].kids, x)
             /\ Len(Append(heap[In].kids, x)) = Len(Elements) + 1
  <2>1. Len(heap[In].kids) < Cap(heap[In].type)
    BY <1>4, <1>6 DEF Elements
  <2>2. /\ FitsIn(h) /\ DOMAIN h = DOMAIN heap
        /\ Len(Append(heap[In].kids, x)) = Len(Elements) + 1
    BY <1>1, <1>2, <1>3, <2>1, AppendedFits DEF Elements
  <2>3. h[In].kids = Append(heap[In].kids, x)
    BY <1>2 DEF Holding, NewItem, HeapOK
  <2> HIDE DEF h
  <2> QED
    BY <1>1, <1>2, <2>2, <2>3, ClaimAllLists, SameListsFit
<1> HIDE DEF h
<1>7. CASE AtRoom
  <2>1. todo = <<Add("item", "value"), Free("item")>>
    BY <1>7, GuardedSteps DEF AtRoom
  <2>2. Step = Add("item", "value") /\ Rest = <<Free("item")>>
    BY <2>1 DEF Step, Rest
  <2>3. In = reg["item"]
    BY <2>2 DEF Add, In
  <2>4. Rest \in Seq(Modest)
    BY <2>2, ModestFree, Names
  <2>5. FitsIn(heap')
    BY <1>6, <1>7, <2>3 DEF AtRoom, Elements
  <2> QED
    BY <1>5, <2>4, <2>5, ModestThen DEF Fits
<1>8. CASE AtPacking
  <2>1. /\ Step = Add("ret", "value") /\ Rest = Packing
        /\ Len(heap[reg["ret"]].kids) + number < MaxArray
    <3>1. Step # Pop("value") /\ \A p : Step # Loop(p)
      BY <1>1 DEF Pop, Take, Loop
    <3> QED
      BY <1>8, <3>1, PackingSteps
  <2>2. In = reg["ret"] /\ Packing # << >>
    BY <2>1, GuardedSteps DEF Add, In
  <2>3. Len(Elements) + number < MaxArray
    BY <2>1, <2>2 DEF Elements
  <2>4. Len(Elements) < MaxArray
    BY <1>4, <2>3
  <2>5. reg' = reg /\ number' = number /\ todo' = Packing
    BY <1>5, <2>1, <2>2
  <2>6. reg["ret"] \in Live' /\ Len(heap'[reg["ret"]].kids) = Len(Elements) + 1
    BY <1>2, <1>6, <2>2, <2>4 DEF SameLists, Live
  <2>7. Len(heap'[reg'["ret"]].kids) + number' <= MaxArray
    BY <1>4, <2>3, <2>5, <2>6
  <2>8. AtPacking'
    BY <1>5, <2>5, <2>6, <2>7 DEF AtPacking
  <2> QED
    BY <1>6, <2>4, <2>8 DEF Fits, Fitting
<1> QED
  BY <1>1, <1>7, <1>8, FirstIs DEF Fits, ModestStep

(* A step in front of a modest program.                                    *)
LEMMA InFrontOfModest ==
  ASSUME NEW s, NEW p \in Seq(Modest)
  PROVE  <<s>> \o p # << >> /\ Head(<<s>> \o p) = s /\ Tail(<<s>> \o p) = p
<1>1. p \in Seq(Modest \cup {s})
  OBVIOUS
<1> QED
  BY <1>1, InFront

(* Set takes the element at index 0 out of the list, which has room for    *)
(* the new one then.                                                       *)
LEMMA SetElementFits ==
  ASSUME Types, Fits, SetElement
  PROVE  Fits'
<1> DEFINE one == <<reg[Step.item]>>
           old == Elements[number + 1]
           claimed == ClaimAll(heap, one)
           g == IF number = 0 THEN Holding(claimed, In, Tail(Elements)) ELSE claimed
           s == Store(Step.in, number, Step.item)
<1>1. /\ todo # << >> /\ Step.op = "set" /\ Defined /\ FitsIn(heap)
      /\ heap' = UnClaim(g, old)
      /\ \E d : After(d, <<s>> \o Rest)
  BY DEF SetElement, Does, Fits
<1>2. In \in Live /\ HeapOK(heap) /\ DOMAIN heap = Live /\ Elements \in Seq(ItemId)
  BY <1>1, ListStep
<1>3. Rest \in Seq(Modest)
  BY <1>1, OnlyModest DEF Fits
<1>4. one \in Seq(ItemId)
  <2>1. Step.item \in Step.uses
    BY <1>1, FirstStep DEF Types, Formed, Operands
  <2>2. reg[Step.item] \in ItemId
    BY <1>1, <1>2, <2>1, UsedIsLive, ItemFields
  <2> QED
    BY <2>2
<1>5. number < Len(Elements) /\ number \in Nat /\ Len(Elements) \in Nat
  BY <1>1, <1>2, HeapNow, LenProperties DEF Defined, InBounds
<1>6. /\ Tail(Elements) \in Seq(ItemId) /\ Len(Tail(Elements)) = Len(Elements) - 1
  <2>1. Elements # << >>
    BY <1>5
  <2> QED
    BY <1>2, <2>1, HeadTailProperties
<1> HIDE DEF one, old
<1>7. SameLists(claimed, heap) /\ HeapOK(claimed) /\ DOMAIN claimed = Live
  BY <1>2, <1>4, ClaimAllLists, ClaimAllHeap
<1> HIDE DEF claimed
<1>8. FitsIn(claimed) /\ claimed[In].type = heap[In].type
  BY <1>1, <1>2, <1>7, SameListsFit DEF SameLists
<1>9. Cap(heap[In].type) \in Nat /\ Len(Elements) <= Cap(heap[In].type)
  BY <1>1, <1>2, FitsOne DEF Elements
<1>10. Len(Tail(Elements)) < Cap(heap[In].type)
  BY <1>5, <1>6, <1>9
<1>11. /\ FitsIn(g) /\ HeapOK(g) /\ DOMAIN g = Live /\ g[In].type = heap[In].type
       /\ number = 0 => Len(g[In].kids) < Cap(heap[In].type)
  <2>1. CASE number = 0
    <3> DEFINE k == Holding(claimed, In, Tail(Elements))
    <3>0. g = k
      BY <2>1
    <3>3. In \in DOMAIN claimed /\ Len(Tail(Elements)) <= Cap(claimed[In].type)
      BY <1>2, <1>6, <1>7, <1>8, <1>9, <1>10, <1>5
    <3>4. FitsIn(k)
      BY <1>7, <1>8, <3>3, HoldingFits
    <3>1. FitsIn(k) /\ HeapOK(k) /\ DOMAIN k = Live
      BY <1>6, <1>7, <3>3, <3>4, HoldingHeap
    <3>2. k[In].type = heap[In].type /\ k[In].kids = Tail(Elements)
      BY <1>2, <1>7, <1>8 DEF Holding, NewItem, HeapOK
    <3> HIDE DEF g, k
    <3> QED
      BY <3>0, <3>1, <3>2, <1>10
  <2>2. CASE number # 0
    BY <2>2, <1>7, <1>8
  <2> QED
    BY <2>1, <2>2
<1> HIDE DEF g
<1>12. SameLists(heap', g) /\ FitsIn(heap')
  BY <1>1, <1>11, UnClaimLists, SameListsFit
<1>13. /\ <<s>> \o Rest # << >> /\ Head(<<s>> \o Rest) = s /\ Tail(<<s>> \o Rest) = Rest
  BY <1>3, InFrontOfModest
<1>14. todo' = <<s>> \o Rest /\ reg' = reg
  BY <1>1, <1>13 DEF After, Go
<1>15. s.op = "store" /\ s.index = number /\ s.in = Step.in
  BY DEF Store
<1> HIDE DEF s
<1>16. Step' = s /\ Rest' = Rest /\ todo' # << >>
  BY <1>13, <1>14 DEF Step, Rest
<1>17. In' = In
  BY <1>14, <1>15, <1>16 DEF In
<1>18. number = 0 => Len(heap'[In].kids) < Cap(heap'[In].type)
  BY <1>2, <1>11, <1>12 DEF SameLists
<1>19. AtStore'
  BY <1>3, <1>15, <1>16, <1>17, <1>18 DEF AtStore, Elements
<1> QED
  BY <1>12, <1>19 DEF Fits, Fitting

(* The element is stored there, or in the place of another.                *)
LEMMA StoreElementFits ==
  ASSUME Types, Fits, StoreElement
  PROVE  Fits'
<1>1. /\ todo # << >> /\ Step.op = "store" /\ Defined /\ FitsIn(heap)
      /\ heap' = Holding(heap, In, Stored) /\ todo' = Rest
  BY DEF StoreElement, Does, Fits, Continue, Go
<1>2. In \in Live /\ HeapOK(heap) /\ DOMAIN heap = Live /\ Elements \in Seq(ItemId)
  BY <1>1, ListStep
<1>3. AtStore /\ Rest \in Seq(Modest)
  BY <1>1, FirstIs DEF Fits, ModestStep, AtStore
<1>4. Cap(heap[In].type) \in Nat /\ Len(Elements) \in Nat /\ Len(Elements) <= Cap(heap[In].type)
  BY <1>1, <1>2, FitsOne DEF Elements
<1>5. reg[Step.item] \in ItemId
  BY <1>1, StoreStep
<1>6. Len(Stored) <= Cap(heap[In].type)
  <2>1. CASE Step.index = 0
    <3>1. Len(Elements) < Cap(heap[In].type)
      BY <1>1, <1>2, <1>3, <2>1 DEF AtStore
    <3>2. Len(<<reg[Step.item]>> \o Elements) = Len(Elements) + 1
      BY <1>2, <1>5
    <3> QED
      BY <1>4, <2>1, <3>1, <3>2 DEF Stored
  <2>2. CASE Step.index # 0
    <3>1. Len([Elements EXCEPT ![Step.index + 1] = reg[Step.item]]) = Len(Elements)
      BY <1>2
    <3> QED
      BY <1>4, <2>2, <3>1 DEF Stored
  <2> QED
    BY <2>1, <2>2
<1>7. FitsIn(heap')
  BY <1>1, <1>2, <1>6, HoldingFits
<1> QED
  BY <1>1, <1>3, <1>7, ModestThen DEF Fits

(* A value of a map is stored in the place of another.                     *)
LEMMA StoreValueFits ==
  ASSUME Types, Fits, StoreValue
  PROVE  Fits'
<1> DEFINE x == reg[Step.item]
           l == [Elements EXCEPT ![Step.index] = x]
           h == Holding(heap, In, l)
<1>1. /\ todo # << >> /\ Step.op = "mapStore" /\ Defined /\ FitsIn(heap)
      /\ heap' = ClaimAll(h, <<x>>) /\ todo' = Rest
  BY DEF StoreValue, Does, Fits, Continue, Go
<1>2. In \in Live /\ HeapOK(heap) /\ DOMAIN heap = Live /\ Elements \in Seq(ItemId)
  BY <1>1, ListStep
<1>3. Rest \in Seq(Modest)
  BY <1>1, FirstIs DEF Fits, ModestStep, AtStore
<1>4. Len(l) = Len(Elements)
  BY <1>2
<1>5. Len(Elements) <= Cap(heap[In].type)
  BY <1>1, <1>2, FitsOne DEF Elements
<1> HIDE DEF l, x
<1>6. FitsIn(h)
  BY <1>1, <1>2, <1>4, <1>5, HoldingFits
<1> HIDE DEF h
<1>7. FitsIn(heap')
  BY <1>1, <1>6, ClaimAllLists, SameListsFit
<1> QED
  BY <1>1, <1>3, <1>7, ModestThen DEF Fits

(* RemoveAt makes the list shorter.                                        *)
LEMMA EraseElementFits ==
  ASSUME Types, Fits, EraseElement
  PROVE  Fits'
<1> DEFINE l == RemoveAt(Elements, number + 1)
           h == Holding(heap, In, l)
<1>1. /\ todo # << >> /\ Step.op = "erase" /\ Defined /\ FitsIn(heap)
      /\ \E i : heap' = UnClaim(h, i) /\ todo' = Rest
  BY DEF EraseElement, Does, Fits, After, Go
<1>2. In \in Live /\ HeapOK(heap) /\ DOMAIN heap = Live /\ Elements \in Seq(ItemId)
  BY <1>1, ListStep
<1>3. Rest \in Seq(Modest)
  BY <1>1, OnlyModest DEF Fits
<1>4. number + 1 \in 1 .. Len(Elements)
  BY <1>1, <1>2, HeapNow, LenProperties DEF Defined, InBounds
<1>5. l \in Seq(ItemId) /\ Len(l) = Len(Elements) - 1
  BY <1>2, <1>4, CountRemoveAt
<1>6. Len(Elements) \in Nat /\ Len(Elements) <= Cap(heap[In].type) /\ Cap(heap[In].type) \in Nat
  BY <1>1, <1>2, FitsOne DEF Elements
<1> HIDE DEF l
<1>7. Len(l) <= Cap(heap[In].type)
  BY <1>5, <1>6
<1>8. FitsIn(h) /\ HeapOK(h)
  BY <1>1, <1>2, <1>5, <1>7, HoldingFits, HoldingHeap
<1> HIDE DEF h
<1>9. FitsIn(heap')
  BY <1>1, <1>8, UnClaimLists, SameListsFit
<1> QED
  BY <1>1, <1>3, <1>9, ModestThen DEF Fits

(* Reverse keeps its length.                                               *)
LEMMA ReverseElementsFits ==
  ASSUME Types, Fits, ReverseElements
  PROVE  Fits'
<1>1. /\ todo # << >> /\ Step.op = "reverse" /\ Defined /\ FitsIn(heap)
      /\ heap' = Holding(heap, In, Reverse(Elements)) /\ todo' = Rest
  BY DEF ReverseElements, Does, Fits, Continue, Go
<1>2. In \in Live /\ HeapOK(heap) /\ DOMAIN heap = Live /\ Elements \in Seq(ItemId)
  BY <1>1, ListStep
<1>3. Rest \in Seq(Modest)
  BY <1>1, OnlyModest DEF Fits
<1>4. Len(Reverse(Elements)) = Len(Elements)
  BY <1>2 DEF Reverse
<1>5. FitsIn(heap')
  BY <1>1, <1>2, <1>4, FitsOne, HoldingFits DEF Elements
<1> QED
  BY <1>1, <1>3, <1>5, ModestThen DEF Fits

(* Set of a map replaces a value, or adds a pair and faults when there     *)
(* are too many.                                                           *)
LEMMA SetValueFits ==
  ASSUME Types, Fits, SetValue
  PROVE  Fits' \/ state' = "FAULT"
<1>1. todo # << >> /\ Step.op = "mapSet" /\ Defined /\ FitsIn(heap)
  BY DEF SetValue, Does, Fits
<1>2. /\ In \in Live /\ HeapOK(heap) /\ DOMAIN heap = Live /\ Elements \in Seq(ItemId)
      /\ Live \subseteq ItemId
  BY <1>1, ListStep
<1>3. AtPair
  BY <1>1, FirstIs DEF Fits, ModestStep
<1>4. Step = MapSet("item", "key", "value") /\ Rest = <<Free3("key", "value", "item")>>
  BY <1>3, GuardedSteps DEF AtPair, Step, Rest
<1>5. In = reg["item"] /\ heap[In].type = "Map"
  BY <1>3, <1>4 DEF AtPair, MapSet, In
<1>6. Rest \in Seq(Modest)
  <2>1. Free3("key", "value", "item") \in Modest
    BY ModestLevels, Names DEF HasPlain
  <2> QED
    BY <1>4, <2>1
<1>7. CASE Continue(Rest) /\ heap' = heap
  BY <1>1, <1>6, <1>7, ModestThen DEF Fits, Continue, Go
<1>8. CASE AddingPair
  <2> DEFINE pair == <<reg[Step.key], reg[Step.item]>>
             l == Elements \o pair
             h == Holding(heap, In, l)
  <2>1. /\ heap' = ClaimAll(h, pair) /\ Continue(Rest)
        /\ state' = "FAULT" \/ ~TooLong(l)
    BY <1>8 DEF AddingPair
  <2>2. reg[Step.key] \in ItemId /\ reg[Step.item] \in ItemId
    <3>1. Step.key \in Step.uses /\ Step.item \in Step.uses
      BY <1>4 DEF MapSet
    <3> QED
      BY <1>1, <1>2, <3>1, UsedIsLive
  <2>3. pair \in Seq(ItemId)
    BY <2>2
  <2> HIDE DEF pair
  <2>4. l \in Seq(ItemId)
    BY <1>2, <2>3, ConcatProperties
  <2>5. Len(l) \in Nat /\ MaxArray \in Nat
    BY <2>4, LenProperties, HeapNow
  <2> HIDE DEF l
  <2>6. CASE ~TooLong(l)
    <3>1. Len(l) <= Cap(heap[In].type)
      BY <1>5, <2>5, <2>6 DEF TooLong, Cap
    <3>2. FitsIn(h)
      BY <1>1, <1>2, <3>1, HoldingFits
    <3> HIDE DEF h
    <3>3. FitsIn(heap')
      BY <2>1, <3>2, ClaimAllLists, SameListsFit
    <3> QED
      BY <1>6, <2>1, <3>3, ModestThen DEF Fits, Continue, Go
  <2> QED
    BY <2>1, <2>6
<1>9. ASSUME NEW n \in KeyPositions, Replacing(n)
      PROVE  Fits'
  <2> DEFINE s == MapStore(Step.in, n + 1, Step.item)
  <2>1. heap' = UnClaim(heap, Elements[n + 1]) /\ \E d : After(d, <<s>> \o Rest)
    BY <1>9 DEF Replacing
  <2>2. FitsIn(heap')
    BY <1>1, <1>2, <2>1, UnClaimLists, SameListsFit
  <2>3. s.op = "mapStore"
    BY DEF MapStore
  <2> HIDE DEF s
  <2>4. /\ <<s>> \o Rest # << >> /\ Head(<<s>> \o Rest) = s /\ Tail(<<s>> \o Rest) = Rest
    BY <1>6, InFrontOfModest
  <2>5. todo' = <<s>> \o Rest
    BY <2>1 DEF After, Go
  <2>6. Step' = s /\ Rest' = Rest /\ todo' # << >>
    BY <2>4, <2>5 DEF Step, Rest
  <2>7. AtStore'
    BY <1>6, <2>3, <2>6 DEF AtStore
  <2> QED
    BY <2>2, <2>7 DEF Fits, Fitting
<1> QED
  BY <1>7, <1>8, <1>9, SetValueCases

(* Remove takes a pair out of the map.                                     *)
LEMMA RemovePairFits ==
  ASSUME Types, Fits, RemovePair
  PROVE  Fits'
<1>1. todo # << >> /\ Step.op = "mapRemove" /\ Defined /\ FitsIn(heap)
  BY DEF RemovePair, Does, Fits
<1>2. In \in Live /\ HeapOK(heap) /\ DOMAIN heap = Live /\ Elements \in Seq(ItemId)
  BY <1>1, ListStep
<1>3. Rest \in Seq(Modest)
  BY <1>1, OnlyModest DEF Fits
<1>4. CASE Continue(Rest) /\ UNCHANGED heap
  BY <1>1, <1>3, <1>4, ModestThen DEF Fits, Continue, Go
<1>5. ASSUME NEW n \in KeyPositions,
             heap' = UnClaim(UnClaim(Holding(heap, In, Without(Elements, n)),
                                     Elements[n]), Elements[n + 1]),
             todo' = <<Free2("x1", "x2")>>
                       \o (IF Elements[n] = reg[Step.key] THEN <<Assign("key", "x1")>>
                                                          ELSE << >>) \o Rest
      PROVE  Fits'
  <2> DEFINE w == Without(Elements, n)
             g == Holding(heap, In, w)
             h == UnClaim(g, Elements[n])
             b == IF Elements[n] = reg[Step.key] THEN <<Assign("key", "x1")>> ELSE << >>
  <2>1. w \in Seq(ItemId) /\ Len(w) = Len(Elements) - 2
    BY <1>2, WithoutPair
  <2>2. Len(Elements) \in Nat /\ Len(Elements) <= Cap(heap[In].type) /\ Cap(heap[In].type) \in Nat
    BY <1>1, <1>2, FitsOne DEF Elements
  <2>3. todo' \in Seq(Modest)
    <3>1. Free2("x1", "x2") \in Modest /\ Assign("key", "x1") \in Modest
      BY ModestLevels, Names DEF HasPlain
    <3>2. <<Free2("x1", "x2")>> \in Seq(Modest) /\ b \in Seq(Modest)
      BY <3>1
    <3>3. todo' = <<Free2("x1", "x2")>> \o b \o Rest
      BY <1>5
    <3> HIDE DEF b
    <3> QED
      BY <1>3, <3>2, <3>3, ModestConcat
  <2>4. heap' = UnClaim(h, Elements[n + 1])
    BY <1>5
  <2> HIDE DEF w, b
  <2>5. Len(w) <= Cap(heap[In].type)
    BY <2>1, <2>2
  <2>6. FitsIn(g) /\ HeapOK(g)
    BY <1>1, <1>2, <2>1, <2>5, HoldingFits, HoldingHeap
  <2> HIDE DEF g
  <2>7. FitsIn(h) /\ HeapOK(h)
    BY <2>6, UnClaimLists, UnClaimHeap, SameListsFit
  <2> HIDE DEF h
  <2>8. FitsIn(heap')
    BY <2>4, <2>7, UnClaimLists, SameListsFit
  <2> QED
    BY <2>3, <2>8, ModestThen DEF Fits
<1>6. \/ Continue(Rest) /\ UNCHANGED heap
      \/ \E n \in KeyPositions :
           /\ heap' = UnClaim(UnClaim(Holding(heap, In, Without(Elements, n)),
                                      Elements[n]), Elements[n + 1])
           /\ todo' = <<Free2("x1", "x2")>>
                        \o (IF Elements[n] = reg[Step.key] THEN <<Assign("key", "x1")>>
                                                           ELSE << >>) \o Rest
  BY DEF RemovePair, Go
<1> QED
  BY <1>4, <1>5, <1>6

(* The first of the copies that are left, and the others.                  *)
Apart(t, i) == \A k \in DOMAIN t : t[k].into # i

(* One more list to copy, in front of the others.                          *)
LEMMA CopiesInFront ==
  ASSUME NEW h, NEW t \in Seq(CopySteps), CopiesFit(t, h),
         NEW list \in Seq(ItemId), NEW i \in DOMAIN h, i \in ItemId, Apart(t, i),
         Len(list) + Len(h[i].kids) <= Cap(h[i].type)
  PROVE  Copies(list, i) \o t \in Seq(CopySteps) /\ CopiesFit(Copies(list, i) \o t, h)
<1>1. CASE list = << >>
  <2>1. Copies(list, i) \o t = t
    BY <1>1, ConcatEmptySeq DEF Copies
  <2> QED
    BY <2>1
<1>2. CASE list # << >>
  <2> DEFINE c == Copy(list, i)
             f == <<c>> \o t
  <2>1. c \in CopySteps /\ c.list = list /\ c.into = i /\ Copies(list, i) \o t = f
    <3>1. Copies(list, i) = <<c>>
      BY <1>2 DEF Copies
    <3>2. c \in CopySteps
      BY <1>2 DEF CopySteps
    <3>3. c.list = list /\ c.into = i
      BY DEF Copy
    <3> QED
      BY <3>1, <3>2, <3>3
  <2> HIDE DEF c
  <2>2. /\ f \in Seq(CopySteps) /\ Len(f) = Len(t) + 1 /\ f[1] = c
        /\ \A k \in 1 .. Len(f) : k = 1 \/ (k - 1 \in 1 .. Len(t) /\ f[k] = t[k - 1])
    BY <2>1
  <2> HIDE DEF f
  <2>3. DOMAIN f = 1 .. Len(f) /\ DOMAIN t = 1 .. Len(t) /\ Len(t) \in Nat
    BY <2>2, LenProperties
  <2>4. ASSUME NEW k \in DOMAIN f
        PROVE  /\ f[k].into \in DOMAIN h
               /\ Len(f[k].list) + Len(h[f[k].into].kids) <= Cap(h[f[k].into].type)
    <3>1. CASE k = 1
      BY <2>1, <2>2, <3>1
    <3>2. CASE k # 1
      BY <2>2, <2>3, <2>4, <3>2 DEF CopiesFit
    <3> QED
      BY <3>1, <3>2
  <2>5. ASSUME NEW k \in DOMAIN f, NEW l \in DOMAIN f, f[k].into = f[l].into
        PROVE  k = l
    <3>1. \A m \in DOMAIN f : m # 1 => f[m].into # i
      BY <2>2, <2>3 DEF Apart
    <3>2. CASE k = 1 \/ l = 1
      BY <2>1, <2>2, <2>5, <3>1, <3>2
    <3>3. CASE k # 1 /\ l # 1
      <4>1. /\ k - 1 \in DOMAIN t /\ l - 1 \in DOMAIN t
            /\ f[k] = t[k - 1] /\ f[l] = t[l - 1]
        BY <2>2, <2>3, <3>3
      <4>2. k - 1 = l - 1
        BY <2>5, <4>1 DEF CopiesFit
      <4> QED
        BY <2>3, <4>2
    <3> QED
      BY <3>2, <3>3
  <2> QED
    BY <2>1, <2>2, <2>4, <2>5 DEF CopiesFit
<1> QED
  BY <1>1, <1>2

(* The copies and what is left after them.                                 *)
LEMMA CopiesThen ==
  ASSUME NEW f \in Seq(CopySteps), CopiesFit(f, heap'), NEW g \in Seq(Modest),
         todo' = f \o g, doomed' = << >>
  PROVE  Fitting'
<1>1. CASE f = << >>
  <2>1. todo' = g
    BY <1>1, ConcatEmptySeq
  <2> QED
    BY <2>1, ModestThen
<1>2. CASE f # << >>
  <2>1. AtCopies'
    BY <1>2 DEF AtCopies
  <2> QED
    BY <2>1 DEF Fitting
<1> QED
  BY <1>1, <1>2

(* Without its first, the copies are no more, and none is into the same.   *)
LEMMA CopiesAfterFirst ==
  ASSUME NEW f \in Seq(CopySteps) \ {<< >>}, NEW h, CopiesFit(f, h)
  PROVE  /\ Tail(f) \in Seq(CopySteps) /\ CopiesFit(Tail(f), h)
         /\ Apart(Tail(f), Head(f).into) /\ Head(f) \in CopySteps
         /\ Head(f).into \in DOMAIN h
         /\ Len(Head(f).list) + Len(h[Head(f).into].kids) <= Cap(h[Head(f).into].type)
<1>1. /\ Tail(f) \in Seq(CopySteps) /\ Head(f) \in CopySteps /\ Head(f) = f[1]
      /\ Len(Tail(f)) = Len(f) - 1 /\ Len(f) \in Nat /\ Len(f) > 0
      /\ \A k \in 1 .. Len(Tail(f)) : Tail(f)[k] = f[k + 1]
  BY HeadTailProperties, LenProperties
<1> DEFINE t == Tail(f)
<1> HIDE DEF t
<1>2. DOMAIN f = 1 .. Len(f) /\ DOMAIN t = 1 .. (Len(f) - 1)
  BY <1>1, LenProperties DEF t
<1>3. \A k \in DOMAIN t : k + 1 \in DOMAIN f /\ t[k] = f[k + 1] /\ k + 1 # 1 /\ k \in Int
  BY <1>1, <1>2 DEF t
<1>4. 1 \in DOMAIN f
  BY <1>1, <1>2
<1>5. CopiesFit(t, h)
  <2>1. \A k, l \in DOMAIN t : t[k].into = t[l].into => k = l
    <3> SUFFICES ASSUME NEW k \in DOMAIN t, NEW l \in DOMAIN t, t[k].into = t[l].into
                 PROVE  k = l
      OBVIOUS
    <3>1. k + 1 = l + 1
      BY <1>3 DEF CopiesFit
    <3> QED
      BY <1>3, <3>1
  <2> QED
    BY <1>3, <2>1 DEF CopiesFit
<1>6. Apart(t, f[1].into)
  BY <1>3, <1>4 DEF CopiesFit, Apart
<1> QED
  BY <1>1, <1>4, <1>5, <1>6 DEF t, CopiesFit

(* Programs one after the other, bracketed anew.                           *)
LEMMA ConcatThree ==
  ASSUME NEW a \in Seq(CopySteps), NEW b \in Seq(CopySteps), NEW g \in Seq(Modest)
  PROVE  a \o (b \o g) = (a \o b) \o g
<1>1. /\ a \in Seq(CopySteps \cup Modest) /\ b \in Seq(CopySteps \cup Modest)
      /\ g \in Seq(CopySteps \cup Modest)
  OBVIOUS
<1> QED
  BY <1>1, ConcatAssociative

(* What is left of a list to copy is copies, or nothing.                   *)
LEMMA CopiesAreCopies ==
  ASSUME NEW list \in Seq(ItemId), NEW i \in ItemId
  PROVE  Copies(list, i) \in Seq(CopySteps)
<1>1. CASE list = << >>
  BY <1>1 DEF Copies
<1>2. CASE list # << >>
  <2>1. Copies(list, i) = <<Copy(list, i)>> /\ Copy(list, i) \in CopySteps
    BY <1>2 DEF Copies, CopySteps
  <2> QED
    BY <2>1
<1> QED
  BY <1>1, <1>2

(* Copies fit where nothing changes but a list none of them is for.        *)
LEMMA CopiesStillFit ==
  ASSUME NEW h, NEW g, NEW t, CopiesFit(t, h), NEW i, Apart(t, i),
         DOMAIN h \subseteq DOMAIN g,
         \A j \in DOMAIN h : j # i => g[j].type = h[j].type /\ g[j].kids = h[j].kids
  PROVE  CopiesFit(t, g)
<1>1. ASSUME NEW k \in DOMAIN t
      PROVE  /\ t[k].into \in DOMAIN g
             /\ Len(t[k].list) + Len(g[t[k].into].kids) <= Cap(g[t[k].into].type)
  <2>1. /\ t[k].into \in DOMAIN h /\ t[k].into # i
        /\ Len(t[k].list) + Len(h[t[k].into].kids) <= Cap(h[t[k].into].type)
    BY DEF CopiesFit, Apart
  <2>2. /\ g[t[k].into].kids = h[t[k].into].kids /\ g[t[k].into].type = h[t[k].into].type
    BY <2>1
  <2> QED
    BY <2>1, <2>2
<1> QED
  BY <1>1 DEF CopiesFit

(* Copies into one item are apart from another.                            *)
LEMMA CopiesAreApart ==
  ASSUME NEW t \in Seq(CopySteps), NEW i, Apart(t, i), NEW list \in Seq(ItemId),
         NEW j \in ItemId, i # j
  PROVE  Apart(Copies(list, j) \o t, i)
<1>1. CASE list = << >>
  <2>1. Copies(list, j) \o t = t
    BY <1>1, ConcatEmptySeq DEF Copies
  <2> QED
    BY <2>1
<1>2. CASE list # << >>
  <2> DEFINE c == Copy(list, j)
             f == <<c>> \o t
  <2>1. Copies(list, j) \o t = f /\ c.into = j /\ c \in CopySteps
    <3>1. Copies(list, j) = <<c>>
      BY <1>2 DEF Copies
    <3>2. c \in CopySteps
      BY <1>2 DEF CopySteps
    <3>3. c.into = j
      BY DEF Copy
    <3> QED
      BY <3>1, <3>2, <3>3
  <2> HIDE DEF c
  <2>2. /\ f \in Seq(CopySteps) /\ Len(f) = Len(t) + 1 /\ f[1] = c
        /\ \A k \in 1 .. Len(f) : k = 1 \/ (k - 1 \in 1 .. Len(t) /\ f[k] = t[k - 1])
    BY <2>1
  <2> HIDE DEF f
  <2>3. DOMAIN f = 1 .. Len(f) /\ DOMAIN t = 1 .. Len(t)
    BY <2>2, LenProperties
  <2> QED
    BY <2>1, <2>2, <2>3 DEF Apart
<1> QED
  BY <1>1, <1>2

(* The clone is empty, and its list is to be copied.                       *)
LEMMA CloneItemFits ==
  ASSUME Types, Fits, CloneItem
  PROVE  Fits'
<1> DEFINE i == reg[Step.item]
           j == FreshIds(1)[1]
           t == heap[i].type
           kids == heap[i].kids
           item == NewItem(t, 0, << >>)
           none == << >>
           left == Copies(kids, j) \o Rest
           l == [reg EXCEPT !["ret"] = i, ![Step.item] = j]
<1>1. /\ todo # << >> /\ Step.op = "clone" /\ Defined /\ Fresh # {} /\ FitsIn(heap)
      /\ heap' = Making(heap, j, item) /\ Go(<< >>, left, l, number, tangled)
  BY DEF CloneItem, Does, Fits
<1>2. HeapOK(heap) /\ DOMAIN heap = Live
  BY HeapNow
<1>3. i \in Live
  BY <1>1, FirstStep, UsedIsLive DEF Types, Formed, Operands
<1>4. j \in ItemId \ Live
  BY <1>1, FirstFresh
<1>5. Rest \in Seq(Modest)
  BY <1>1, OnlyModest DEF Fits
<1>6. /\ kids \in Seq(ItemId) /\ Len(kids) \in Nat /\ Len(kids) <= Cap(t)
      /\ Cap(t) \in Nat
  BY <1>1, <1>2, <1>3, FitsOne, ItemFields
<1>7. item.type = t /\ item.kids = none /\ Len(none) = 0 /\ none \in Seq(CopySteps)
  BY DEF NewItem
<1>8. doomed' = << >> /\ todo' = left
  BY <1>1 DEF Go
<1> HIDE DEF i, t, kids, j, item, none
<1>9. /\ FitsIn(heap') /\ j \in DOMAIN heap' /\ heap'[j] = item
  <2>1. Len(item.kids) <= Cap(item.type) /\ j \notin DOMAIN heap
    BY <1>2, <1>4, <1>6, <1>7
  <2>2. FitsIn(heap')
    BY <1>1, <2>1, MakingFits
  <2>3. j \in DOMAIN heap' /\ heap'[j] = item
    BY <1>1 DEF Making
  <2> QED
    BY <2>2, <2>3
<1>10. CopiesFit(none, heap') /\ Apart(none, j)
  BY DEF CopiesFit, Apart, none
<1>11. Len(kids) + Len(heap'[j].kids) <= Cap(heap'[j].type)
  BY <1>6, <1>7, <1>9
<1>12. Copies(kids, j) \o none \in Seq(CopySteps) /\ CopiesFit(Copies(kids, j) \o none, heap')
  BY <1>4, <1>6, <1>7, <1>9, <1>10, <1>11, CopiesInFront
<1>13. Copies(kids, j) \o none = Copies(kids, j)
  BY DEF Copies, none
<1>14. Fitting'
  BY <1>5, <1>8, <1>12, <1>13, CopiesThen
<1> QED
  BY <1>9, <1>14 DEF Fits

(* One more element is copied; the list of a Struct is to be copied in     *)
(* turn, into the Struct that was made for it.                             *)
LEMMA CopyElementFits ==
  ASSUME Types, Fits, CopyElement
  PROVE  Fits'
<1> DEFINE i == Head(Step.list)
           into == Step.into
           more == Copies(Tail(Step.list), into)
           added(x) == Holding(heap, into, Append(heap[into].kids, x))
<1>1. todo # << >> /\ Step.op = "copy" /\ Defined /\ FitsIn(heap)
  BY DEF CopyElement, Does, Fits
<1>2. /\ into \in Live /\ i \in Live /\ Tail(Step.list) \in Seq(ItemId)
      /\ into \in ItemId /\ i \in ItemId
  BY <1>1, CopyStep
<1>3. HeapOK(heap) /\ DOMAIN heap = Live
  BY HeapNow
<1>4. PICK f \in Seq(CopySteps) \ {<< >>}, g \in Seq(Modest) :
         todo = f \o g /\ CopiesFit(f, heap)
  <2>1. AtCopies
    BY <1>1, FirstIs DEF Fits, ModestStep
  <2> QED
    BY <2>1 DEF AtCopies
<1> DEFINE t == Tail(f)
<1>5. Step = Head(f) /\ Rest = t \o g /\ Step \in CopySteps
  BY <1>4, CopiesFirst
<1>6. /\ t \in Seq(CopySteps) /\ CopiesFit(t, heap) /\ Apart(t, into)
      /\ Len(Step.list) + Len(heap[into].kids) <= Cap(heap[into].type)
  BY <1>4, <1>5, CopiesAfterFirst
<1>7. Step.list \in Seq(ItemId) /\ Step.list # << >>
  BY <1>5 DEF CopySteps, Copy
<1>8. Len(Step.list) \in Nat /\ Len(Step.list) > 0 /\ Len(Tail(Step.list)) = Len(Step.list) - 1
  BY <1>7, HeadTailProperties, LenProperties, EmptySeq
<1>0. \A a, b \in Nat, c \in Nat :
        a > 0 /\ a + b <= c => b < c /\ (a - 1) + (b + 1) <= c
  OBVIOUS
<1>9. /\ Len(heap[into].kids) \in Nat /\ Cap(heap[into].type) \in Nat
      /\ Len(heap[into].kids) < Cap(heap[into].type)
  <2>1. Len(heap[into].kids) \in Nat /\ Cap(heap[into].type) \in Nat
    BY <1>1, <1>2, <1>3, FitsOne
  <2> QED
    BY <1>0, <1>6, <1>8, <2>1, Zenon
<1>10. ASSUME NEW x \in ItemId
       PROVE  /\ FitsIn(added(x)) /\ HeapOK(added(x)) /\ DOMAIN added(x) = Live
              /\ \A k \in Live : added(x)[k].type = heap[k].type
                                 /\ (k # into => added(x)[k].kids = heap[k].kids)
              /\ Len(added(x)[into].kids) = Len(heap[into].kids) + 1
  <2>1. /\ FitsIn(added(x)) /\ HeapOK(added(x)) /\ DOMAIN added(x) = Live
        /\ Len(Append(heap[into].kids, x)) = Len(heap[into].kids) + 1
    BY <1>1, <1>2, <1>3, <1>9, AppendedFits
  <2>2. /\ \A k \in Live : added(x)[k].type = heap[k].type
                           /\ (k # into => added(x)[k].kids = heap[k].kids)
        /\ added(x)[into].kids = Append(heap[into].kids, x)
    BY <1>2, <1>3 DEF Holding, NewItem, HeapOK
  <2> QED
    BY <2>1, <2>2
<1> HIDE DEF i, t, added
<1>11. ASSUME Live \subseteq DOMAIN heap',
              \A k \in Live : heap'[k].type = heap[k].type
                              /\ (k # into => heap'[k].kids = heap[k].kids),
              Len(heap'[into].kids) = Len(heap[into].kids) + 1
       PROVE  /\ CopiesFit(t, heap')
              /\ Len(Tail(Step.list)) + Len(heap'[into].kids) <= Cap(heap'[into].type)
  <2>1. CopiesFit(t, heap')
    BY <1>3, <1>6, <1>11, CopiesStillFit
  <2> HIDE DEF into
  <2>2. Len(Tail(Step.list)) + (Len(heap[into].kids) + 1) <= Cap(heap[into].type)
    BY <1>0, <1>6, <1>8, <1>9, Zenon DEF into
  <2>3. heap'[into].type = heap[into].type
    BY <1>2, <1>11
  <2> QED
    BY <1>11, <2>1, <2>2, <2>3
<1>12. CASE heap[i].type # "Struct"
  <2>1. heap' = ClaimAll(added(i), <<i>>) /\ Continue(more \o Rest)
    BY <1>12 DEF CopyElement, i, added
  <2>2. /\ FitsIn(added(i)) /\ DOMAIN added(i) = Live
        /\ \A k \in Live : added(i)[k].type = heap[k].type
                           /\ (k # into => added(i)[k].kids = heap[k].kids)
        /\ Len(added(i)[into].kids) = Len(heap[into].kids) + 1
    BY <1>2, <1>10
  <2>3. SameLists(heap', added(i)) /\ FitsIn(heap')
    BY <2>1, <2>2, ClaimAllLists, SameListsFit
  <2> HIDE DEF into, more
  <2>4. /\ DOMAIN heap' = Live
        /\ \A k \in Live : heap'[k].type = heap[k].type
                           /\ (k # into => heap'[k].kids = heap[k].kids)
        /\ Len(heap'[into].kids) = Len(heap[into].kids) + 1
    BY <1>2, <2>2, <2>3 DEF SameLists
  <2>5. /\ CopiesFit(t, heap')
        /\ Len(Tail(Step.list)) + Len(heap'[into].kids) <= Cap(heap'[into].type)
    BY <1>11, <2>4
  <2>6. more \o t \in Seq(CopySteps) /\ CopiesFit(more \o t, heap')
    BY <1>2, <1>6, <2>4, <2>5, CopiesInFront DEF more
  <2>7. more \o Rest = (more \o t) \o g
    <3>1. more \in Seq(CopySteps)
      BY <1>2, CopiesAreCopies DEF more, into
    <3> QED
      BY <1>5, <1>6, <3>1, ConcatThree
  <2>8. doomed' = << >> /\ todo' = (more \o t) \o g
    BY <2>1, <2>7 DEF Continue, Go
  <2>9. Fitting'
    BY <2>6, <2>8, CopiesThen
  <2> QED
    BY <2>3, <2>9 DEF Fits
<1>13. CASE heap[i].type = "Struct"
  <2> DEFINE j == FreshIds(1)[1]
             item == NewItem("Struct", 1, << >>)
             deep == Copies(heap[i].kids, j)
  <2>1. heap' = Making(added(j), j, item) /\ Continue((more \o deep) \o Rest) /\ Fresh # {}
    BY <1>13 DEF CopyElement, i, added
  <2>2. j \in ItemId \ Live
    BY <2>1, FirstFresh
  <2>3. item.type = "Struct" /\ item.kids = << >> /\ Len(item.kids) = 0
    BY DEF NewItem
  <2>4. Cap("Struct") \in Nat /\ heap[i].kids \in Seq(ItemId) /\ Len(heap[i].kids) \in Nat
        /\ Len(heap[i].kids) <= Cap("Struct")
    BY <1>1, <1>2, <1>3, <1>13, FitsOne, ItemFields
  <2> HIDE DEF into, more, j, item
  <2>5. /\ FitsIn(added(j)) /\ DOMAIN added(j) = Live
        /\ \A k \in Live : added(j)[k].type = heap[k].type
                           /\ (k # into => added(j)[k].kids = heap[k].kids)
        /\ Len(added(j)[into].kids) = Len(heap[into].kids) + 1
    BY <1>10, <2>2 DEF into
  <2>6. /\ DOMAIN heap' = Live \cup {j} /\ heap'[j] = item
        /\ \A k \in Live : heap'[k] = added(j)[k]
    BY <2>1, <2>2, <2>5 DEF Making
  <2>7. FitsIn(heap')
    BY <2>1, <2>2, <2>3, <2>4, <2>5, MakingFits
  <2>8. /\ Live \subseteq DOMAIN heap' /\ into \in DOMAIN heap' /\ j \in DOMAIN heap'
        /\ \A k \in Live : heap'[k].type = heap[k].type
                           /\ (k # into => heap'[k].kids = heap[k].kids)
        /\ Len(heap'[into].kids) = Len(heap[into].kids) + 1
    BY <1>2, <2>5, <2>6 DEF into
  <2>9. /\ CopiesFit(t, heap')
        /\ Len(Tail(Step.list)) + Len(heap'[into].kids) <= Cap(heap'[into].type)
    BY <1>11, <2>8
  <2>10. Apart(t, j)
    BY <1>3, <1>6, <2>2 DEF Apart, CopiesFit
  <2>11. Len(heap[i].kids) + Len(heap'[j].kids) <= Cap(heap'[j].type)
    <3>1. Len(heap[i].kids) + Len(item.kids) <= Cap(item.type)
      BY <2>3, <2>4
    <3> QED
      BY <2>6, <3>1
  <2>12. deep \o t \in Seq(CopySteps) /\ CopiesFit(deep \o t, heap')
    BY <1>6, <2>2, <2>4, <2>8, <2>9, <2>10, <2>11, CopiesInFront
  <2>13. Apart(deep \o t, into)
    BY <1>2, <1>6, <2>2, <2>4, CopiesAreApart DEF into
  <2>14. more \o (deep \o t) \in Seq(CopySteps) /\ CopiesFit(more \o (deep \o t), heap')
    BY <1>2, <2>8, <2>9, <2>12, <2>13, CopiesInFront DEF more, into
  <2>15. (more \o deep) \o Rest = (more \o (deep \o t)) \o g
    <3>1. more \in Seq(CopySteps) /\ deep \in Seq(CopySteps)
      BY <1>2, <2>2, <2>4, CopiesAreCopies DEF more, into
    <3> HIDE DEF deep
    <3>2. (more \o deep) \o (t \o g) = (more \o (deep \o t)) \o g
      <4>1. g \in Seq(Modest) /\ t \in Seq(CopySteps)
        BY <1>4, <1>6
      <4>2. more \o deep \in Seq(CopySteps) /\ (more \o deep) \o t = more \o (deep \o t)
        BY <3>1, <4>1, ConcatAssociative, ConcatProperties
      <4>3. (more \o deep) \o (t \o g) = ((more \o deep) \o t) \o g
        BY <4>1, <4>2, ConcatThree
      <4> QED
        BY <4>2, <4>3
    <3> QED
      BY <1>5, <3>2
  <2>16. doomed' = << >> /\ todo' = (more \o (deep \o t)) \o g
    BY <2>1, <2>15 DEF Continue, Go
  <2>17. Fitting'
    BY <2>14, <2>16, CopiesThen
  <2> QED
    BY <2>7, <2>17 DEF Fits
<1> QED
  BY <1>12, <1>13

(* FillKeys and FillValues copy half of the elements of a map into the     *)
(* empty array.                                                            *)
LEMMA FillArrayFits ==
  ASSUME Types, Fits, FillArray
  PROVE  Fits'
<1> DEFINE first == IF Step.part = "keys" THEN 1 ELSE 2
           m == Len(Elements) \div 2
           l == [n \in 1 .. m |-> Elements[2 * n - 2 + first]]
           r == reg["ret"]
           none == << >>
<1>1. /\ todo # << >> /\ Step.op = "fill" /\ Defined /\ FitsIn(heap)
      /\ heap' = heap /\ Continue(Copies(l, reg[Step.item]) \o Rest)
  BY DEF FillArray, Does, Fits
<1>2. In \in Live /\ HeapOK(heap) /\ DOMAIN heap = Live /\ Elements \in Seq(ItemId)
      /\ Live \subseteq ItemId
  BY <1>1, ListStep
<1>3. AtFill
  BY <1>1, FirstIs DEF Fits, ModestStep
<1>4. Step.item = "ret" /\ Rest = <<Push("ret"), Free("item")>>
  <2>1. PICK part : todo = <<Fill("item", part, "ret"), Push("ret"), Free("item")>>
    BY <1>3 DEF AtFill
  <2>2. Step = Fill("item", part, "ret") /\ Rest = <<Push("ret"), Free("item")>>
    BY <2>1 DEF Step, Rest
  <2> QED
    BY <2>2 DEF Fill
<1>5. Rest \in Seq(Modest)
  <2>1. Push("ret") \in Modest /\ Free("item") \in Modest
    BY ModestLevels, Names DEF HasPlain
  <2> QED
    BY <1>4, <2>1
<1>6. r \in Live /\ heap[r].kids = none /\ Len(none) = 0 /\ none \in Seq(CopySteps)
  BY <1>3 DEF AtFill, Made0
<1>7. /\ first \in {1, 2} /\ Len(Elements) \in Nat /\ m \in Nat /\ 2 * m <= Len(Elements)
      /\ Len(Elements) <= 2 * MaxArray /\ MaxArray \in Nat
  <2>1. Len(Elements) \in Nat /\ Len(Elements) <= 2 * MaxArray /\ MaxArray \in Nat
    BY <1>1, <1>2, FitsOne, HeapNow DEF Elements
  <2> QED
    BY <2>1
<1>8. l \in Seq(ItemId) /\ Len(l) = m
  <2>1. \A n \in 1 .. m : 2 * n - 2 + first \in 1 .. Len(Elements)
    BY <1>7
  <2>2. \A n \in 1 .. m : Elements[2 * n - 2 + first] \in ItemId
    BY <1>2, <2>1, ElementOfSeq
  <2>3. m \in Nat
    BY <1>7
  <2> HIDE DEF m, first
  <2>4. l \in [1 .. m -> ItemId]
    BY <2>2
  <2> QED
    BY <2>3, <2>4
<1>9. m <= Cap(heap[r].type)
  <2>1. Cap(heap[r].type) \in Nat /\ Cap(heap[r].type) >= MaxArray /\ m <= MaxArray
    BY <1>7, CapType
  <2> QED
    BY <1>7, <2>1
<1>10. todo' = Copies(l, r) \o Rest /\ doomed' = << >>
  BY <1>1, <1>4 DEF Continue, Go
<1>11. m \in Nat
  BY <1>7
<1> HIDE DEF l, m, none
<1>12. CopiesFit(none, heap) /\ Apart(none, r)
  BY DEF CopiesFit, Apart, none
<1>13. Len(l) + Len(heap[r].kids) <= Cap(heap[r].type)
  BY <1>6, <1>8, <1>9, <1>11
<1>14. Copies(l, r) \o none \in Seq(CopySteps) /\ CopiesFit(Copies(l, r) \o none, heap')
  BY <1>1, <1>2, <1>6, <1>8, <1>12, <1>13, CopiesInFront
<1>15. Copies(l, r) \o none = Copies(l, r)
  BY DEF Copies, none
<1>16. Fitting'
  BY <1>5, <1>10, <1>14, <1>15, CopiesThen
<1> QED
  BY <1>1, <1>16 DEF Fits

(* What was used after it was deleted is not forgotten.                    *)
LEMMA MisuseStays ==
  ASSUME [Next]_vars, misused
  PROVE  misused'
<1>1. CASE Fetch \/ UseAfterFree \/ DeleteItem \/ UNCHANGED vars
  BY <1>1 DEF Fetch, UseAfterFree, DeleteItem, vars
<1>2. CASE ~(Fetch \/ UseAfterFree \/ DeleteItem \/ UNCHANGED vars)
  <2>1. \E ops : Does(ops)
    BY <1>2 DEF Next, Control, SetFault, NeedItems, TakeItem, UnstackItem, PeekItem,
      InsertItem, PushElements, FreeOne, Release, FreeTwo, FreeThree, CreateItem,
      GetElement, AddElement, SetElement, StoreElement, EraseElement, ReverseElements,
      CloneItem, CopyElement, GetValue, SetValue, StoreValue, RemovePair, FillArray
  <2> QED
    BY <2>1 DEF Does
<1> QED
  BY <1>1, <1>2

(* Nor is a fault.                                                         *)
LEMMA FaultStays ==
  ASSUME Types, [Next]_vars, state = "FAULT"
  PROVE  state' = "FAULT"
<1>1. CASE SteadyNext
  BY <1>1, SteadyNextTypes DEF Steady, Types, Memory
<1>2. CASE DeleteItem \/ UNCHANGED vars
  BY <1>2 DEF DeleteItem, vars
<1>3. CASE CreateItem \/ CloneItem \/ CopyElement
  BY <1>3 DEF CreateItem, CloneItem, CopyElement
<1> QED
  BY <1>1, <1>2, <1>3, NextIs

(* A step that changes nothing.                                            *)
LEMMA StutterBounded ==
  ASSUME Bounded, UNCHANGED vars
  PROVE  Bounded'
<1>1. Fitting => Fitting'
  <2>1. (AtModest => AtModest') /\ (AtStore => AtStore') /\ (AtAsk => AtAsk')
    BY DEF vars, AtModest, AtStore, AtAsk, Step, Rest, In, Elements, Live
  <2>2. (AtSized => AtSized') /\ (AtGuarded => AtGuarded') /\ (AtRoom => AtRoom')
    BY DEF vars, AtSized, AtGuarded, AtRoom, Live
  <2>3. (AtPair => AtPair') /\ (AtMade => AtMade') /\ (AtFill => AtFill')
    BY DEF vars, AtPair, AtMade, AtFill, Made0, Live
  <2>4. (AtPacking => AtPacking') /\ (AtCopies => AtCopies')
    BY DEF vars, AtPacking, AtCopies, Live
  <2> QED
    BY <2>1, <2>2, <2>3, <2>4 DEF Fitting
<1> QED
  BY <1>1 DEF Bounded, vars

(* Every step keeps lists as short as they have to be, and what is left of *)
(* the program knows of it.                                                *)
LEMMA NextBounded ==
  ASSUME Types, Bounded, [Next]_vars
  PROVE  Bounded'
<1>1. CASE misused
  BY <1>1, MisuseStays DEF Bounded
<1>2. CASE state = "FAULT"
  BY <1>2, FaultStays DEF Bounded
<1>3. CASE ~misused /\ state # "FAULT"
  <2>0. Fits
    BY <1>3 DEF Bounded, Fits
  <2>1. Fits' => Bounded'
    BY DEF Bounded, Fits
  <2>2. CASE UseAfterFree \/ SetFault \/ UNCHANGED vars
    BY <2>2, StutterBounded DEF UseAfterFree, SetFault, Bounded
  <2>3. CASE Fetch \/ Control \/ NeedItems
    BY <2>0, <2>1, <2>3, FetchFits, ControlFits, NeedItemsFits DEF Bounded
  <2>4. CASE TakeItem \/ UnstackItem \/ PeekItem \/ InsertItem \/ PushElements
    BY <2>0, <2>1, <2>4, TakeItemFits, PeekItemFits, InsertItemFits
  <2>5. CASE FreeOne \/ Release \/ FreeTwo \/ FreeThree \/ DeleteItem
    BY <2>0, <2>1, <2>5, FreeOneFits, ReleaseFits, FreeTwoFits, FreeThreeFits,
       DeleteItemFits
  <2>6. CASE CreateItem
    BY <2>0, <2>1, <2>6, CreateItemFits DEF Bounded
  <2>7. CASE \/ GetElement \/ AddElement \/ SetElement \/ StoreElement \/ EraseElement
             \/ ReverseElements \/ CloneItem \/ CopyElement
    BY <2>0, <2>1, <2>7, PeekItemFits, AddElementFits, SetElementFits, StoreElementFits,
       EraseElementFits, ReverseElementsFits, CloneItemFits, CopyElementFits
  <2>8. CASE GetValue \/ StoreValue \/ RemovePair \/ FillArray
    BY <2>0, <2>1, <2>8, GetValueFits, StoreValueFits, RemovePairFits, FillArrayFits
  <2>9. CASE SetValue
    BY <2>0, <2>1, <2>9, SetValueFits DEF Bounded
  <2> QED
    BY <2>2, <2>3, <2>4, <2>5, <2>6, <2>7, <2>8, <2>9 DEF Next
<1> QED
  BY <1>1, <1>2, <1>3

(* At first there is no list.                                              *)
LEMMA InitBounded == Init => Bounded
<1> SUFFICES ASSUME Init PROVE FitsIn(heap) /\ Fitting
  BY DEF Bounded
<1>1. DOMAIN heap = {}
  BY DEF Init
<1>2. todo \in Seq(Modest)
  BY DEF Init
<1> QED
  BY <1>1, <1>2 DEF FitsIn, Fitting, AtModest

(* No list or map of an engine that goes on is longer than MAX_ARRAY_SIZE  *)
(* between two instructions: ContainersAreBounded, for every limit,        *)
(* whatever instructions are executed.                                     *)
THEOREM ContainersBounded == Spec => []ContainersAreBounded
<1>1. Init => Bounded
  BY InitBounded
<1>2. Types /\ Bounded /\ [Next]_vars => Bounded'
  BY NextBounded
<1>3. Bounded => ContainersAreBounded
  <2> SUFFICES ASSUME Bounded, AtRest, state = "NONE", NEW i \in Live
               PROVE  Len(heap[i].kids)
                        <= (IF heap[i].type = "Map" THEN 2 ELSE 1) * MaxArray
    BY DEF ContainersAreBounded
  <2>1. Len(heap[i].kids) <= Cap(heap[i].type)
    BY DEF Bounded, AtRest, FitsIn, Live
  <2>2. Cap(heap[i].type) = (IF heap[i].type = "Map" THEN 2 ELSE 1) * MaxArray
    BY LifetimeAssumption DEF Cap
  <2> QED
    BY <2>1, <2>2
<1>4. Spec => []Types
  BY CounterIsItems, PTL
<1> QED
  BY <1>1, <1>2, <1>3, <1>4, PTL DEF Spec
=============================================================================
