---------------------------- MODULE ItemLifetime ----------------------------
(***************************************************************************)
(* The life of stack items: who claims them, when they are deleted, and    *)
(* how the engine counts them.                                             *)
(*                                                                         *)
(* A case of the interpreter's switch is a program over a few primitives:  *)
(* the operations of StackItems, StackItemHelper, ArrayStackItem and       *)
(* MapStackItem, the creators of ExecutionEngine.h, and the branches the   *)
(* case takes.  A primitive is a step of the model, and so is the deletion *)
(* of one item: deleting a container releases its elements one by one and  *)
(* may delete them first.  Registers are the local variables of the case.  *)
(*                                                                         *)
(* What an item holds is left out: a number read from it, the equality of  *)
(* two keys, a size that is too large are choices.  One frame runs, and    *)
(* gas, jumps and calls are the subject of ExecutionEngine; CHECKMULTISIG  *)
(* is left out.                                                            *)
(***************************************************************************)
EXTENDS Integers, Sequences, FiniteSets, SequencesExt, Functions, TLC

CONSTANTS
  ItemId,           \* the addresses items can have, numbers
  MaxItems,         \* MAX_STACK_SIZE, 2048
  MaxArray,         \* MAX_ARRAY_SIZE, 1024
  Opcodes,          \* the opcodes that are executed
  MaxInstructions   \* bound: how many instructions are executed

ASSUME LifetimeAssumption ==
  /\ ItemId \subseteq Nat /\ IsFiniteSet(ItemId) /\ 0 \notin ItemId
  /\ MaxItems \in Nat /\ MaxArray \in Nat /\ MaxInstructions \in Nat

VARIABLES
  state,      \* _state, NONE or FAULT
  stack,      \* the evaluation and the alt stack of the frame, top at the end
  heap,       \* the items that exist: type, claims, elements
  items,      \* _items of the IStackItemCounter
  doomed,     \* the items whose destructors run, the innermost first
  todo,       \* the primitives of the current case that are left
  reg,        \* its local variables
  number,     \* the number it read last
  tangled,    \* history: an operand contains another one, or itself
  misused,    \* history: an item that does not exist was used
  uncounted,  \* history: items Clone made that exist or existed
  executed    \* how many instructions were started

vars == <<state, stack, heap, items, doomed, todo, reg, number, tangled, misused,
          uncounted, executed>>

Null == 0

Register == {"x1", "x2", "x3", "key", "item", "value", "ret"}

NoLocals == [r \in Register |-> Null]

List == {"Array", "Struct"}

Container == List \cup {"Map"}

Type == Container \cup {"Value"}

Init ==
  /\ state = "NONE" /\ stack = [eval |-> << >>, alt |-> << >>]
  /\ heap = << >> /\ items = 0
  /\ doomed = << >> /\ todo = << >> /\ reg = NoLocals /\ number = 0
  /\ tangled = FALSE /\ misused = FALSE /\ uncounted = 0 /\ executed = 0

----------------------------------------------------------------------------
(* The primitives, as steps of a program.  `uses' names the registers that *)
(* a step dereferences.  An index of -1 stands for the number read last.   *)
(* A check that fails replaces the rest of the program by `otherwise'.     *)

Need(s, count) == [op |-> "need", uses |-> {}, stack |-> s, count |-> count]

(* StackItems::Remove and Pop: unclaim, and do not delete.                 *)
Take(s, index, r) ==
  [op |-> "take", uses |-> {}, stack |-> s, index |-> index, to |-> r]

(* Stack::Pop under StackItems: the item keeps its claim.                  *)
Unstack(r) == [op |-> "unstack", uses |-> {}, to |-> r]

Peek(s, index, r) ==
  [op |-> "peek", uses |-> {}, stack |-> s, index |-> index, to |-> r]

Insert(s, index, r) ==
  [op |-> "insert", uses |-> {r}, stack |-> s, index |-> index, item |-> r]

Pop(r) == Take("eval", 0, r)

Push(r) == Insert("eval", 0, r)

(* StackItemHelper::Free of one, two and three variables.                  *)
Free(r) == [op |-> "free", uses |-> {}, item |-> r]

(* Mutant: two variables are freed one after the other.                    *)
FreeEach(r, s) ==
  [op |-> "choose", uses |-> {}, from |-> << <<Free(r), Free(s)>> >>]

Free2(r, s) == [op |-> "free2", uses |-> {}, item |-> r, other |-> s]

Free3(r, s, t) ==
  [op |-> "free3", uses |-> {}, item |-> r, other |-> s, third |-> t]

(* It gives up a claim first.                                              *)
UnclaimAndFree(r) == [op |-> "release", uses |-> {r}, item |-> r]

Fault == [op |-> "fault", uses |-> {}]

Choose(programs) == [op |-> "choose", uses |-> {}, from |-> programs]

If(r, types, program) ==
  [op |-> "if", uses |-> {r}, item |-> r, types |-> types, then |-> program]

IfMade(r, program) ==
  [op |-> "ifMade", uses |-> {}, item |-> r, then |-> program]

Check(r, types, otherwise) ==
  [op |-> "check", uses |-> {r}, item |-> r, types |-> types,
   otherwise |-> otherwise]

When(r, types, program) == Check(r, Type \ types, program)

(* A container has no bytes and no number: reading one fails.              *)
Read(registers, otherwise) ==
  [op |-> "read", uses |-> registers, otherwise |-> otherwise]

(* GetInt32 and the check of its range.                                    *)
Number(r, range, otherwise) ==
  [op |-> "number", uses |-> {r}, item |-> r, range |-> range,
   otherwise |-> otherwise]

(* Mutant: the length is not checked.                                      *)
AlwaysRoom(r, otherwise) == If(r, {}, << >>)

Room(r, otherwise) ==
  [op |-> "room", uses |-> {r}, item |-> r, otherwise |-> otherwise]

(* The creators.  With elements, as many as the number read last.          *)
Create(type, elements, r) ==
  [op |-> "create", uses |-> {}, type |-> type, elements |-> elements, to |-> r]

(* The body, as many times as the number read last.                        *)
Loop(program) == [op |-> "loop", uses |-> {}, body |-> program]

(* ArrayStackItem: Get, Add, Set, RemoveAt and Reverse; Set stores the     *)
(* element in a second step, when the old one is gone.                     *)
Get(c, r) == [op |-> "get", uses |-> {c}, in |-> c, to |-> r]
Add(c, r) == [op |-> "add", uses |-> {c, r}, in |-> c, item |-> r]
Set(c, r) == [op |-> "set", uses |-> {c, r}, in |-> c, item |-> r]
Store(c, index, r) ==
  [op |-> "store", uses |-> {c}, in |-> c, index |-> index, item |-> r]
Erase(c) == [op |-> "erase", uses |-> {c}, in |-> c]
Reversed(c) == [op |-> "reverse", uses |-> {c}, in |-> c]
PushAll(c) == [op |-> "pushAll", uses |-> {c}, in |-> c]

(* Clone puts the clone in the register and the original in "ret".         *)
Clone(r) == [op |-> "clone", uses |-> {r}, item |-> r]
Copy(list, i) == [op |-> "copy", uses |-> {}, list |-> list, into |-> i]
Copies(list, i) == IF list = << >> THEN << >> ELSE <<Copy(list, i)>>

(* MapStackItem: Get, Set, Remove, FillKeys and FillValues.                *)
MapGet(m, k, r, otherwise) ==
  [op |-> "mapGet", uses |-> {m, k}, in |-> m, key |-> k, to |-> r,
   otherwise |-> otherwise]
MapSet(m, k, r) ==
  [op |-> "mapSet", uses |-> {m, k, r}, in |-> m, key |-> k, item |-> r]
MapStore(m, index, r) ==
  [op |-> "mapStore", uses |-> {m, r}, in |-> m, index |-> index, item |-> r]
MapRemove(m, k) == [op |-> "mapRemove", uses |-> {m, k}, in |-> m, key |-> k]
Assign(r, s) == [op |-> "assign", uses |-> {}, item |-> s, to |-> r]
Fill(m, part, r) ==
  [op |-> "fill", uses |-> {m, r}, in |-> m, part |-> part, item |-> r]

----------------------------------------------------------------------------
(* The cases of the switch.                                                *)

(* A creator, and the push of what it made.                                *)
Make(type, elements) ==
  <<Create(type, elements, "ret"), IfMade("ret", <<Push("ret")>>)>>

MakeValue == Make("Value", FALSE)

DupFromAltStack == <<Need("alt", 1), Peek("alt", 0, "x1"), Push("x1")>>
ToAltStack == <<Need("eval", 1), Pop("x1"), Insert("alt", 0, "x1")>>
FromAltStack == <<Need("alt", 1), Take("alt", 0, "x1"), Push("x1")>>

(* XDROP, XSWAP, XTUCK, PICK and ROLL pop a number first.  XSWAP and ROLL  *)
(* return early when it is 0, which leaves the stack as the steps do.      *)
WithNumber(range, program) ==
  <<Need("eval", 1), Pop("x1"), Number("x1", range, <<Free("x1"), Fault>>),
    Free("x1")>> \o program

XDrop == WithNumber("position", <<Take("eval", -1, "x2"), Free("x2")>>)
XSwap ==
  WithNumber("position",
    <<Peek("eval", -1, "x3"), Take("eval", 0, "x2"), Insert("eval", 0, "x3"),
      Take("eval", -1, "x3"), Insert("eval", -1, "x2")>>)
XTuck ==
  WithNumber("depth", <<Peek("eval", 0, "x2"), Insert("eval", -1, "x2")>>)
Pick == WithNumber("position", <<Peek("eval", -1, "x2"), Push("x2")>>)
Roll == WithNumber("position", <<Take("eval", -1, "x2"), Push("x2")>>)

Drop == <<Need("eval", 1), Unstack("x1"), UnclaimAndFree("x1")>>
Dup == <<Need("eval", 1), Peek("eval", 0, "x1"), Push("x1")>>
Nip == <<Need("eval", 2), Take("eval", 1, "x1"), Free("x1")>>
Over == <<Need("eval", 2), Peek("eval", 1, "x1"), Push("x1")>>
Rot == <<Need("eval", 3), Take("eval", 2, "x1"), Push("x1")>>
Swap == <<Need("eval", 2), Take("eval", 1, "x1"), Push("x1")>>
Tuck == <<Need("eval", 2), Peek("eval", 0, "x1"), Insert("eval", 2, "x1")>>

(* Opcodes on one, two or three operands that leave a number, a string or  *)
(* a boolean.  The order in which the operands are freed differs.          *)
ReadAndFree(r) == <<Read({r}, <<Free(r), Fault>>), Free(r)>>

(* Mutant: the operand is not freed.                                       *)
UnaryThatLeaks ==
  <<Need("eval", 1), Pop("x1"), Read({"x1"}, <<Fault>>)>> \o MakeValue

Unary == <<Need("eval", 1), Pop("x1")>> \o ReadAndFree("x1") \o MakeValue
Hash == Unary
Not ==
  <<Need("eval", 1), Pop("x1"), Create("Value", FALSE, "ret"), Free("x1"),
    IfMade("ret", <<Push("ret")>>)>>

Pop2 == <<Need("eval", 2), Pop("x2"), Pop("x1")>>

Binary(free) ==
  Pop2 \o <<Read({"x1", "x2"}, <<free, Fault>>), free>> \o MakeValue

Cat == Binary(Free2("x2", "x1"))
AndOrXor == Binary(Free2("x1", "x2"))
Arithmetic == Binary(Free2("x2", "x1"))
Shift == Binary(Free2("x2", "x1"))
Compare == Binary(Free2("x1", "x2"))
MinMax == Binary(Free2("x1", "x2"))
Equal ==
  Pop2 \o <<Create("Value", FALSE, "ret"), Free2("x2", "x1"),
            IfMade("ret", <<Push("ret")>>)>>
BoolAndOr == Equal
CheckSig == Pop2 \o <<Free2("x2", "x1")>> \o MakeValue

(* CALL_ED of a script that returns at once.  The hash it pops is given up *)
(* twice, by Pop and by UnclaimAndFree.                                    *)
CallED ==
  <<Need("eval", 1), Pop("key"),
    Choose(<< <<Fault, UnclaimAndFree("key")>>,
              <<UnclaimAndFree("key"), Fault>>,
              <<UnclaimAndFree("key")>> >>)>>

Substr ==
  <<Need("eval", 3), Pop("x1")>> \o ReadAndFree("x1")
    \o <<Pop("x1")>> \o ReadAndFree("x1")
    \o <<Pop("x1")>> \o ReadAndFree("x1") \o MakeValue
LeftRight ==
  <<Need("eval", 2), Pop("x1")>> \o ReadAndFree("x1")
    \o <<Pop("x1")>> \o ReadAndFree("x1") \o MakeValue

Pop3 == <<Need("eval", 3), Pop("x3"), Pop("x2"), Pop("x1")>>

Within ==
  Pop3 \o <<Read({"x1", "x2", "x3"},
                 <<Free3("x3", "x2", "x1"), Fault>>),
            Free3("x3", "x2", "x1")>> \o MakeValue
Verify ==
  Pop3 \o <<Choose(<< <<Free3("x3", "x2", "x1")>>,
                      <<Free3("x1", "x3", "x2")>> >>)>> \o MakeValue

----------------------------------------------------------------------------
(* The cases of the containers.                                            *)

ArraySize ==
  <<Need("eval", 1), Pop("item"),
    When("item", Container, <<Free("item")>> \o MakeValue)>>
    \o ReadAndFree("item") \o MakeValue

Pack ==
  <<Need("eval", 1), Pop("item"),
    Number("item", "count", <<Free("item"), Fault>>), Free("item"),
    Create("Array", FALSE, "ret"),
    IfMade("ret",
           <<Loop(<<Pop("value"), Add("ret", "value")>>), Push("ret")>>)>>

Unpack ==
  <<Need("eval", 1), Pop("item"),
    Check("item", {"Array"}, <<Free("item"), Fault>>),
    PushAll("item"), Free("item")>> \o MakeValue

(* Mutant: a Struct is shared, not copied.                                 *)
SharedStruct(r) == If(r, {}, << >>)

(* A Struct is cloned where it is read or stored.                          *)
CopiedStruct(r) == If(r, {"Struct"}, <<Clone(r), Free("ret")>>)

PopKey(otherwise) == <<Pop("key"), Check("key", {"Value"}, otherwise)>>

PickItem ==
  LET fault == <<Free2("key", "item"), Fault>>
      push == <<CopiedStruct("value"), Push("value"), Free2("key", "item")>>
  IN  <<Need("eval", 2)>> \o PopKey(<<Free("key"), Fault>>)
        \o <<Pop("item"),
             When("item", List, <<Number("key", "element", fault),
                                  Get("item", "value")>> \o push),
             When("item", {"Map"},
                  <<MapGet("item", "key", "value", fault)>> \o push)>>
        \o fault

SetItem ==
  <<Need("eval", 3), Pop("value"), CopiedStruct("value")>>
    \o PopKey(<<Free2("key", "value"), Fault>>)
    \o <<Pop("item"),
         When("item", List,
              <<Number("key", "element",
                       <<Free3("key", "item", "value"), Fault>>),
                Set("item", "value"), Free2("key", "item")>>),
         When("item", {"Map"},
              <<MapSet("item", "key", "value"),
                Free3("key", "value", "item")>>),
         Free3("key", "value", "item"), Fault>>

NewContainer(type) ==
  <<Need("eval", 1), Pop("item"),
    Number("item", "size", <<Free("item"), Fault>>), Free("item")>>
    \o Make(type, TRUE)

NewArray == NewContainer("Array")
NewStruct == NewContainer("Struct")
NewMap == Make("Map", FALSE)

(* An array that is full stays as it is, and the new item is not freed.    *)
AppendItem ==
  <<Need("eval", 2), Pop("value"), CopiedStruct("value"), Pop("item"),
    When("item", List,
         <<Room("item", <<Fault, Free("item")>>),
           Add("item", "value"), Free("item")>>),
    Free2("value", "item"), Fault>>

ReverseItems ==
  <<Need("eval", 1), Pop("item"),
    Check("item", List, <<Free("item"), Fault>>),
    Reversed("item"), Free("item")>>

RemoveItem ==
  LET fault == <<Free2("key", "item"), Fault>>
  IN  <<Need("eval", 2)>> \o PopKey(<<Free("key"), Fault>>)
        \o <<Pop("item"),
             When("item", List, <<Number("key", "element", fault),
                                  Erase("item"), Free2("key", "item")>>),
             When("item", {"Map"}, <<MapRemove("item", "key"),
                                     Free2("key", "item")>>)>>
        \o fault

HasKey ==
  LET fault == <<Free2("key", "item"), Fault>>
      answer == <<Create("Value", FALSE, "ret"), Free2("key", "item"),
                  IfMade("ret", <<Push("ret")>>)>>
  IN  <<Need("eval", 2)>> \o PopKey(<<Free("key"), Fault>>)
        \o <<Pop("item"),
             When("item", List, <<Read({"key"}, fault)>> \o answer),
             When("item", {"Map"}, answer)>>
        \o fault

FilledArray(part) ==
  <<Create("Array", FALSE, "ret"),
    IfMade("ret", <<Fill("item", part, "ret"), Push("ret")>>), Free("item")>>

Keys ==
  <<Need("eval", 1), Pop("item"), When("item", {"Map"}, FilledArray("keys")),
    Free("item"), Fault>>

Values ==
  <<Need("eval", 1), Pop("item"),
    When("item", List, <<Clone("item"), Push("item"), Free("ret")>>),
    When("item", {"Map"}, FilledArray("values")),
    Free("item"), Fault>>

(* The opcodes that compute from one and from two operands.                *)
UnaryOpcode ==
  {"SIZE", "INVERT", "INC", "DEC", "SIGN", "NEGATE", "ABS", "NZ"}

ArithmeticOpcode == {"ADD", "SUB", "MUL", "DIV", "MOD"}

CompareOpcode == {"NUMEQUAL", "NUMNOTEQUAL", "LT", "GT", "LTE", "GTE"}

HashOpcode == {"SHA1", "SHA256", "HASH160", "HASH256"}

StackOpcode ==
  {"PUSH", "DEPTH", "DUPFROMALTSTACK", "TOALTSTACK", "FROMALTSTACK", "XDROP",
   "XSWAP", "XTUCK", "DROP", "DUP", "NIP", "OVER", "PICK", "ROLL", "ROT",
   "SWAP", "TUCK"}

DataOpcode ==
  {"CAT", "SUBSTR", "LEFT", "RIGHT", "AND", "OR", "XOR", "EQUAL", "NOT", "SHL",
   "SHR", "BOOLAND", "BOOLOR", "MIN", "MAX", "WITHIN", "CHECKSIG", "VERIFY"}

ContainerOpcode ==
  {"ARRAYSIZE", "PACK", "UNPACK", "PICKITEM", "SETITEM", "NEWARRAY",
   "NEWSTRUCT", "NEWMAP", "APPEND", "REVERSE", "REMOVE", "HASKEY", "KEYS",
   "VALUES"}

Opcode ==
  UnaryOpcode \cup ArithmeticOpcode \cup CompareOpcode \cup HashOpcode
    \cup StackOpcode \cup DataOpcode \cup ContainerOpcode \cup {"CALL_ED"}

ASSUME OpcodesAssumption == Opcodes \subseteq Opcode

StackProgram(op) ==
  CASE op \in {"PUSH", "DEPTH"} -> MakeValue
    [] op = "DUPFROMALTSTACK" -> DupFromAltStack
    [] op = "TOALTSTACK" -> ToAltStack
    [] op = "FROMALTSTACK" -> FromAltStack
    [] op = "XDROP" -> XDrop
    [] op = "XSWAP" -> XSwap
    [] op = "XTUCK" -> XTuck
    [] op = "DROP" -> Drop
    [] op = "DUP" -> Dup
    [] op = "NIP" -> Nip
    [] op = "OVER" -> Over
    [] op = "PICK" -> Pick
    [] op = "ROLL" -> Roll
    [] op = "ROT" -> Rot
    [] op = "SWAP" -> Swap
    [] op = "TUCK" -> Tuck

DataProgram(op) ==
  CASE op \in UnaryOpcode -> Unary
    [] op \in ArithmeticOpcode -> Arithmetic
    [] op \in CompareOpcode -> Compare
    [] op \in HashOpcode -> Hash
    [] op \in {"AND", "OR", "XOR"} -> AndOrXor
    [] op \in {"SHL", "SHR"} -> Shift
    [] op \in {"BOOLAND", "BOOLOR"} -> BoolAndOr
    [] op \in {"MIN", "MAX"} -> MinMax
    [] op \in {"LEFT", "RIGHT"} -> LeftRight
    [] op = "CAT" -> Cat
    [] op = "SUBSTR" -> Substr
    [] op = "EQUAL" -> Equal
    [] op = "NOT" -> Not
    [] op = "WITHIN" -> Within
    [] op = "CHECKSIG" -> CheckSig
    [] op = "VERIFY" -> Verify

ContainerProgram(op) ==
  CASE op = "ARRAYSIZE" -> ArraySize
    [] op = "PACK" -> Pack
    [] op = "UNPACK" -> Unpack
    [] op = "PICKITEM" -> PickItem
    [] op = "SETITEM" -> SetItem
    [] op = "NEWARRAY" -> NewArray
    [] op = "NEWSTRUCT" -> NewStruct
    [] op = "NEWMAP" -> NewMap
    [] op = "APPEND" -> AppendItem
    [] op = "REVERSE" -> ReverseItems
    [] op = "REMOVE" -> RemoveItem
    [] op = "HASKEY" -> HasKey
    [] op = "KEYS" -> Keys
    [] op = "VALUES" -> Values

Program(op) ==
  CASE op \in StackOpcode -> StackProgram(op)
    [] op \in ContainerOpcode -> ContainerProgram(op)
    [] op = "CALL_ED" -> CallED
    [] OTHER -> DataProgram(op)

----------------------------------------------------------------------------
(* Items, claims and the stacks.                                           *)

Live == DOMAIN heap

Occurrences(i, list) == Cardinality({n \in DOMAIN list : list[n] = i})

NewItem(type, claims, kids) == [type |-> type, claims |-> claims, kids |-> kids]

WithClaims(item, n) == NewItem(item.type, n, item.kids)

(* Mutant: the elements are shared without a claim.                        *)
ClaimNone(h, list) == h

ClaimAll(h, list) ==
  [i \in DOMAIN h |-> WithClaims(h[i], h[i].claims + Occurrences(i, list))]

(* Mutant: two claims are given up where one was made.                     *)
UnClaimTwice(h, i) == [h EXCEPT ![i] = WithClaims(@, @.claims - 2)]

UnClaim(h, i) == [h EXCEPT ![i] = WithClaims(@, @.claims - 1)]

(* The elements of a container are replaced.                               *)
Holding(h, i, kids) == [h EXCEPT ![i] = NewItem(@.type, @.claims, kids)]

Making(h, i, item) ==
  [j \in DOMAIN h \cup {i} |-> IF j = i THEN item ELSE h[j]]

(* UnclaimAndFree deletes the item when that was the last claim.           *)
FreeIfUnClaimed(h, i) == IF h[i].claims = 0 THEN <<i>> ELSE << >>

(* Addresses that are free and that nothing still points to.               *)
Fresh ==
  ItemId \ (Live \cup Range(reg) \cup Range(stack.eval) \cup Range(stack.alt)
              \cup UNION {Range(heap[i].kids) : i \in Live})

(* Any n of them, one after the other.                                     *)
FreshIds(n) ==
  CHOOSE f \in [1 .. n -> Fresh] :
    \A k, l \in 1 .. n : f[k] = f[l] => k = l

Index(n) == IF n = -1 THEN number ELSE n

At(s, index) == stack[s][Len(stack[s]) - index]

(* The items that an item holds, directly or not.                          *)
Inside(i) ==
  LET kids(set) == UNION {Range(heap[j].kids) : j \in set \cap Live}
      below[n \in Nat] ==
        IF n = 0 THEN kids({i}) ELSE below[n - 1] \cup kids(below[n - 1])
  IN  below[Cardinality(Live)]

(* An operand is one of, or in one of, the operands the case holds.        *)
Tangles(i, operands) ==
  \/ i \in Inside(i)
  \/ \E j \in operands : i \in Inside(j) \/ j \in Inside(i)

----------------------------------------------------------------------------
(* Running a program.  When it ends its locals are gone.                   *)

(* What the innermost destructor touches: its item, and the first element. *)
Dying ==
  LET i == Head(doomed)
  IN  {i} \cup (IF i \in Live /\ heap[i].kids # << >> THEN {Head(heap[i].kids)}
                ELSE {})

Step == Head(todo)

Rest == Tail(todo)

(* The container the first step works on, and its elements.                *)
In == reg[Step.in]

Elements == heap[In].kids

(* The items the first step dereferences.                                  *)
Touched ==
  {reg[r] : r \in Step.uses}
    \cup (CASE Step.op \in {"free", "free2"} -> {reg[Step.item]} \ {Null}
            [] Step.op = "unstack" -> {At("eval", 0)}
            [] Step.op = "take" -> {At(Step.stack, Index(Step.index))}
            [] Step.op = "copy" -> {Head(Step.list), Step.into}
            [] OTHER -> {})

(* Its index is one of the stack or the list: the operations of Stack      *)
(* return a null pointer for one that is not, std::list walks past its end.*)
InBounds ==
  CASE Step.op = "unstack" -> stack.eval # << >>
    [] Step.op \in {"take", "peek"} ->
         Index(Step.index) \in 0 .. (Len(stack[Step.stack]) - 1)
    [] Step.op = "insert" -> Index(Step.index) \in 0 .. Len(stack[Step.stack])
    [] Step.op \in {"get", "set", "erase"} ->
         In \in Live => number < Len(Elements)
    [] Step.op = "store" ->
         In \in Live => Step.index = 0 \/ Step.index < Len(Elements)
    [] Step.op = "mapStore" -> In \in Live => Step.index \in DOMAIN Elements
    [] OTHER -> TRUE

Defined == InBounds /\ Touched \subseteq Live

Does(ops) ==
  /\ doomed = << >> /\ todo # << >> /\ Step.op \in ops /\ Defined
  /\ UNCHANGED <<misused, executed>>

(* The case goes on, when the destructors of `dying' are through.          *)
Go(dying, program, locals, n, t) ==
  /\ doomed' = dying /\ todo' = program
  /\ IF dying = << >> /\ program = << >>
     THEN reg' = NoLocals /\ number' = 0 /\ tangled' = FALSE
     ELSE reg' = locals /\ number' = n /\ tangled' = t

Continue(program) == Go(<< >>, program, reg, number, tangled)

After(dying, program) == Go(dying, program, reg, number, tangled)

Assigned(r, i) == Go(<< >>, Rest, [reg EXCEPT ![r] = i], number, tangled)

(* A case begins when the one before is done.                              *)
Fetch ==
  /\ doomed = << >> /\ todo = << >> /\ state = "NONE" /\ ~misused
  /\ executed < MaxInstructions /\ executed' = executed + 1
  /\ \E op \in Opcodes : todo' = Program(op)
  /\ UNCHANGED <<state, stack, heap, items, doomed, reg, number, tangled,
                 misused, uncounted>>

(* What a step that uses a deleted item does is undefined: it is recorded, *)
(* and nothing is said of what happens next.                               *)
UseAfterFree ==
  /\ \/ doomed # << >> /\ ~(Dying \subseteq Live)
     \/ doomed = << >> /\ todo # << >> /\ ~Defined
  /\ misused' = TRUE
  /\ doomed' = << >> /\ todo' = << >> /\ reg' = NoLocals /\ number' = 0
  /\ UNCHANGED <<state, stack, heap, items, tangled, uncounted, executed>>

(* Steps that only say how the program goes on.                            *)
Branch ==
  \/ /\ Step.op = "choose"
     /\ \E n \in DOMAIN Step.from : Continue(Step.from[n] \o Rest)
  \/ /\ Step.op = "if"
     /\ Continue(IF heap[reg[Step.item]].type \in Step.types
                 THEN Step.then \o Rest ELSE Rest)
  \/ /\ Step.op = "ifMade"
     /\ Continue(IF reg[Step.item] # Null THEN Step.then \o Rest ELSE Rest)
  \/ /\ Step.op = "check"
     /\ Continue(IF heap[reg[Step.item]].type \in Step.types
                 THEN Rest ELSE Step.otherwise)
  \/ /\ Step.op = "room"
     /\ Continue(IF Len(heap[reg[Step.item]].kids) < MaxArray
                 THEN Rest ELSE Step.otherwise)
  \/ /\ Step.op = "loop"
     /\ IF number = 0 THEN Continue(Rest)
        ELSE Go(<< >>, Step.body \o todo, reg, number - 1, tangled)
  \/ /\ Step.op = "assign"
     /\ Assigned(Step.to, reg[Step.item])

(* An operand is read: containers have no value, others may have none.     *)
ReadsValue ==
  \/ Continue(Step.otherwise)
  \/ /\ \A r \in Step.uses : heap[reg[r]].type = "Value"
     /\ Continue(Rest)

InRange(range) ==
  CASE range = "position" -> 0 .. (Len(stack.eval) - 1)
    [] range = "depth" -> 1 .. Len(stack.eval)
    [] range = "count" -> 0 .. (IF Len(stack.eval) < MaxArray
                                THEN Len(stack.eval) ELSE MaxArray)
    [] range = "size" -> 0 .. MaxArray
    [] range = "element" -> 0 .. (Len(heap[reg["item"]].kids) - 1)

ReadsNumber ==
  \/ Continue(Step.otherwise)
  \/ /\ heap[reg[Step.item]].type = "Value"
     /\ \E n \in InRange(Step.range) : Go(<< >>, Rest, reg, n, tangled)

Control ==
  /\ Does({"choose", "if", "ifMade", "check", "room", "loop", "assign",
           "read", "number"})
  /\ \/ Branch
     \/ Step.op = "read" /\ ReadsValue
     \/ Step.op = "number" /\ ReadsNumber
  /\ UNCHANGED <<state, stack, heap, items, uncounted>>

SetFault ==
  /\ Does({"fault"})
  /\ state' = "FAULT" /\ Continue(Rest)
  /\ UNCHANGED <<stack, heap, items, uncounted>>

NeedItems ==
  /\ Does({"need"})
  /\ IF Len(stack[Step.stack]) >= Step.count
     THEN Continue(Rest) /\ UNCHANGED state
     ELSE Continue(<< >>) /\ state' = "FAULT"
  /\ UNCHANGED <<stack, heap, items, uncounted>>

----------------------------------------------------------------------------
(* StackItems.                                                             *)

TakeItem ==
  /\ Does({"take"})
  /\ LET index == Index(Step.index)
         i == At(Step.stack, index)
     IN  /\ stack' = [stack EXCEPT ![Step.stack] = RemoveAt(@, Len(@) - index)]
         /\ heap' = UnClaim(heap, i)
         /\ Go(<< >>, Rest, [reg EXCEPT ![Step.to] = i], number,
               tangled \/ Tangles(i, Range(reg) \ {Null}))
  /\ UNCHANGED <<state, items, uncounted>>

UnstackItem ==
  /\ Does({"unstack"})
  /\ stack' = [stack EXCEPT !.eval = Front(@)]
  /\ Assigned(Step.to, At("eval", 0))
  /\ UNCHANGED <<state, heap, items, uncounted>>

PeekItem ==
  /\ Does({"peek"})
  /\ Assigned(Step.to, At(Step.stack, Index(Step.index)))
  /\ UNCHANGED <<state, stack, heap, items, uncounted>>

InsertItem ==
  /\ Does({"insert"})
  /\ stack' = [stack EXCEPT ![Step.stack] =
                 InsertAt(@, Len(@) - Index(Step.index) + 1, reg[Step.item])]
  /\ heap' = ClaimAll(heap, <<reg[Step.item]>>)
  /\ Continue(Rest)
  /\ UNCHANGED <<state, items, uncounted>>

PushElements ==
  /\ Does({"pushAll"})
  /\ LET kids == heap[reg[Step.in]].kids IN
     /\ stack' = [stack EXCEPT !.eval = @ \o Reverse(kids)]
     /\ heap' = ClaimAll(heap, kids)
  /\ Continue(Rest)
  /\ UNCHANGED <<state, items, uncounted>>

----------------------------------------------------------------------------
(* StackItemHelper, the creators and the destructors.                      *)

Unclaimed(r) == reg[r] # Null /\ heap[reg[r]].claims = 0

FreeOne ==
  /\ Does({"free"})
  /\ IF Unclaimed(Step.item)
     THEN Go(<<reg[Step.item]>>, Rest, [reg EXCEPT ![Step.item] = Null],
             number, tangled)
     ELSE Continue(Rest)
  /\ UNCHANGED <<state, stack, heap, items, uncounted>>

Release ==
  /\ Does({"release"})
  /\ LET i == reg[Step.item]
         h == UnClaim(heap, i)
     IN  heap' = h /\ After(FreeIfUnClaimed(h, i), Rest)
  /\ UNCHANGED <<state, stack, items, uncounted>>

(* The second is looked at when the first, and what only the first held,   *)
(* is gone.                                                                *)
FreeTwo ==
  /\ Does({"free2"})
  /\ LET a == reg[Step.item]
         second == <<Free(Step.other)>>
     IN  IF Unclaimed(Step.item)
         THEN Go(<<a>>,
                 (IF reg[Step.other] = a THEN << >> ELSE second) \o Rest,
                 [r \in Register |->
                    IF r \in {Step.item, Step.other} /\ reg[r] = a THEN Null
                    ELSE reg[r]],
                 number, tangled)
         ELSE Continue(second \o Rest)
  /\ UNCHANGED <<state, stack, heap, items, uncounted>>

FreeThree ==
  /\ Does({"free3"})
  /\ LET a == Step.item
         b == Step.other
         c == Step.third
         same(r, s) == reg[r] # Null /\ reg[r] = reg[s]
     IN  Continue((CASE same(a, b) /\ reg[b] = reg[c] -> <<Free(a)>>
                     [] same(a, b) /\ reg[b] # reg[c] -> <<Free(a), Free(c)>>
                     [] ~same(a, b) /\ same(b, c) -> <<Free(b), Free(a)>>
                     [] ~same(a, b) /\ same(a, c) -> <<Free(a), Free(b)>>
                     [] OTHER -> <<Free(a), Free(b), Free(c)>>) \o Rest)
  /\ UNCHANGED <<state, stack, heap, items, uncounted>>

(* The destructor of a container gives up its elements one by one, and     *)
(* that of IStackItem takes the item out of the count.                     *)
DeleteItem ==
  /\ doomed # << >> /\ Dying \subseteq Live
  /\ LET i == Head(doomed)
         kids == heap[i].kids
     IN  IF kids = << >>
         THEN /\ heap' = [j \in Live \ {i} |-> heap[j]]
              /\ items' = items - 1
              /\ After(Tail(doomed), todo)
         ELSE LET h == UnClaim(Holding(heap, i, Tail(kids)), Head(kids))
              IN  /\ heap' = h /\ UNCHANGED items
                  /\ After(FreeIfUnClaimed(h, Head(kids)) \o doomed, todo)
  /\ UNCHANGED <<state, stack, misused, uncounted, executed>>

(* Mutant: the elements of a new array are not counted.                    *)
IncrementWithoutElements(elements) == 1

Increment(elements) == IF elements THEN number + 1 ELSE 1

(* ItemCounterInc counts first and compares then.                          *)
CreateItem ==
  /\ Does({"create"})
  /\ items' = items + Increment(Step.elements)
  /\ IF items' > MaxItems
     THEN /\ state' = "FAULT" /\ Assigned(Step.to, Null) /\ UNCHANGED heap
     ELSE LET size == IF Step.elements THEN number ELSE 0
              new == FreshIds(size + 1)
          IN  /\ Cardinality(Fresh) > size
              /\ heap' = [i \in Live \cup Range(new) |->
                            IF i \in Live THEN heap[i]
                            ELSE IF i = new[1]
                                 THEN NewItem(Step.type, 0, Tail(new))
                                 ELSE NewItem("Value", 1, << >>)]
              /\ Assigned(Step.to, new[1]) /\ UNCHANGED state
  /\ UNCHANGED <<stack, uncounted>>

----------------------------------------------------------------------------
(* ArrayStackItem.                                                         *)

GetElement ==
  /\ Does({"get"})
  /\ Assigned(Step.to, Elements[number + 1])
  /\ UNCHANGED <<state, stack, heap, items, uncounted>>

AddElement ==
  /\ Does({"add"})
  /\ heap' = ClaimAll(Holding(heap, In, Append(Elements, reg[Step.item])),
                      <<reg[Step.item]>>)
  /\ Continue(Rest)
  /\ UNCHANGED <<state, stack, items, uncounted>>

(* The element at index 0 leaves the list before it is freed, another one  *)
(* stays in its place until the new one is stored.                         *)
SetElement ==
  /\ Does({"set"})
  /\ LET old == Elements[number + 1]
         claimed == ClaimAll(heap, <<reg[Step.item]>>)
         h == UnClaim(IF number = 0
                      THEN Holding(claimed, In, Tail(Elements))
                      ELSE claimed, old)
     IN  /\ heap' = h
         /\ After(FreeIfUnClaimed(h, old),
                  <<Store(Step.in, number, Step.item)>> \o Rest)
  /\ UNCHANGED <<state, stack, items, uncounted>>

Stored ==
  IF Step.index = 0 THEN <<reg[Step.item]>> \o Elements
  ELSE [Elements EXCEPT ![Step.index + 1] = reg[Step.item]]

StoreElement ==
  /\ Does({"store"})
  /\ heap' = Holding(heap, In, Stored)
  /\ Continue(Rest)
  /\ UNCHANGED <<state, stack, items, uncounted>>

EraseElement ==
  /\ Does({"erase"})
  /\ LET old == Elements[number + 1]
         h == UnClaim(Holding(heap, In, RemoveAt(Elements, number + 1)), old)
     IN  heap' = h /\ After(FreeIfUnClaimed(h, old), Rest)
  /\ UNCHANGED <<state, stack, items, uncounted>>

ReverseElements ==
  /\ Does({"reverse"})
  /\ heap' = Holding(heap, In, Reverse(Elements))
  /\ Continue(Rest)
  /\ UNCHANGED <<state, stack, items, uncounted>>

(* Clone does not ask the counter.                                         *)
CloneItem ==
  /\ Does({"clone"})
  /\ Fresh # {}
  /\ LET i == reg[Step.item]
         j == FreshIds(1)[1]
     IN  /\ heap' = Making(heap, j, NewItem(heap[i].type, 0, << >>))
         /\ Go(<< >>, Copies(heap[i].kids, j) \o Rest,
               [reg EXCEPT !["ret"] = i, ![Step.item] = j], number, tangled)
  /\ uncounted' = uncounted + 1
  /\ UNCHANGED <<state, stack, items>>

(* A Struct in the list is cloned in turn, when the list is done; any      *)
(* other item is shared.  The order of the lists in the queue cannot be    *)
(* seen: nothing but copies is made until all are done.                    *)
CopyElement ==
  /\ Does({"copy"})
  /\ LET i == Head(Step.list)
         added(h, k) == Holding(h, Step.into, Append(heap[Step.into].kids, k))
     IN  \/ /\ heap[i].type # "Struct"
            /\ heap' = ClaimAll(added(heap, i), <<i>>)
            /\ Continue(Copies(Tail(Step.list), Step.into) \o Rest)
            /\ UNCHANGED uncounted
         \/ /\ heap[i].type = "Struct" /\ Fresh # {}
            /\ LET j == FreshIds(1)[1]
               IN  /\ heap' = Making(added(heap, j), j,
                                     NewItem("Struct", 1, << >>))
                   /\ Continue(Copies(Tail(Step.list), Step.into)
                                 \o Copies(heap[i].kids, j) \o Rest)
            /\ uncounted' = uncounted + 1
  /\ UNCHANGED <<state, stack, items>>

----------------------------------------------------------------------------
(* MapStackItem.  The elements are key, value, key, value; their order is  *)
(* that of the keys' addresses, which nothing here depends on.             *)

KeyPositions == {n \in 1 .. (Len(Elements) - 1) : n % 2 = 1}

(* The keys that may be found equal: an item is equal to itself.           *)
CanBeEqual(n) ==
  \/ Elements[n] = reg[Step.key]
  \/ \A m \in KeyPositions : Elements[m] # reg[Step.key]

Without(list, n) == RemoveAt(RemoveAt(list, n), n)

NotFound == \A n \in KeyPositions : Elements[n] # reg[Step.key]

(* Mutant: the number of pairs is not checked.                             *)
NeverTooLong(list) == FALSE

(* Count() > MAX_ARRAY_SIZE.                                               *)
TooLong(list) == Len(list) > 2 * MaxArray

GetValue ==
  /\ Does({"mapGet"})
  /\ \/ NotFound /\ Continue(Step.otherwise)
     \/ \E n \in KeyPositions :
          CanBeEqual(n) /\ Assigned(Step.to, Elements[n + 1])
  /\ UNCHANGED <<state, stack, heap, items, uncounted>>

(* The old value is freed before the new one is claimed.                   *)
SetValue ==
  /\ Does({"mapSet"})
  /\ \/ \E n \in KeyPositions :
          LET old == Elements[n + 1]
              h == UnClaim(heap, old)
          IN  /\ CanBeEqual(n)
              /\ IF old = reg[Step.item]
                 THEN Continue(Rest) /\ UNCHANGED heap
                 ELSE /\ heap' = h
                      /\ After(FreeIfUnClaimed(h, old),
                               <<MapStore(Step.in, n + 1, Step.item)>> \o Rest)
          /\ UNCHANGED state
     \/ /\ NotFound
        /\ LET pair == <<reg[Step.key], reg[Step.item]>> IN
           /\ heap' = ClaimAll(Holding(heap, In, Elements \o pair), pair)
           /\ state' = IF TooLong(Elements \o pair) THEN "FAULT" ELSE state
        /\ Continue(Rest)
  /\ UNCHANGED <<stack, items, uncounted>>

StoreValue ==
  /\ Does({"mapStore"})
  /\ heap' = ClaimAll(Holding(heap, In,
                               [Elements EXCEPT ![Step.index] = reg[Step.item]]),
                      <<reg[Step.item]>>)
  /\ Continue(Rest)
  /\ UNCHANGED <<state, stack, items, uncounted>>

(* The key of the pair may be another item than the operand.               *)
RemovePair ==
  /\ Does({"mapRemove"})
  /\ \/ NotFound /\ Continue(Rest) /\ UNCHANGED heap
     \/ \E n \in KeyPositions :
          LET key == Elements[n]
              value == Elements[n + 1]
          IN  /\ CanBeEqual(n)
              /\ heap' =
                   UnClaim(UnClaim(Holding(heap, In, Without(Elements, n)), key),
                           value)
              /\ Go(<< >>,
                    <<Free2("x1", "x2")>>
                      \o (IF key = reg[Step.key] THEN <<Assign("key", "x1")>>
                                                 ELSE << >>) \o Rest,
                    [reg EXCEPT !["x1"] = key, !["x2"] = value], number,
                    tangled)
  /\ UNCHANGED <<state, stack, items, uncounted>>

FillArray ==
  /\ Does({"fill"})
  /\ LET first == IF Step.part = "keys" THEN 1 ELSE 2 IN
     Continue(Copies([n \in 1 .. (Len(Elements) \div 2) |->
                        Elements[2 * n - 2 + first]], reg[Step.item]) \o Rest)
  /\ UNCHANGED <<state, stack, heap, items, uncounted>>

----------------------------------------------------------------------------

Next ==
  \/ Fetch \/ UseAfterFree
  \/ Control \/ SetFault \/ NeedItems
  \/ TakeItem \/ UnstackItem \/ PeekItem \/ InsertItem \/ PushElements
  \/ FreeOne \/ Release \/ FreeTwo \/ FreeThree \/ DeleteItem \/ CreateItem
  \/ GetElement \/ AddElement \/ SetElement \/ StoreElement \/ EraseElement
  \/ ReverseElements \/ CloneItem \/ CopyElement
  \/ GetValue \/ SetValue \/ StoreValue \/ RemovePair \/ FillArray

Spec == Init /\ [][Next]_vars

----------------------------------------------------------------------------
(* Properties.                                                             *)

AtRest == doomed = << >> /\ todo = << >> /\ ~misused

(* The places of an item in the stacks and in other items.                 *)
References(i) ==
  Occurrences(i, stack.eval) + Occurrences(i, stack.alt)
    + Cardinality(UNION {{j} \X {n \in DOMAIN heap[j].kids : heap[j].kids[n] = i}
                         : j \in Live})

(* An element is about to be stored in the place of another one.           *)
Storing == todo # << >> /\ Step.op \in {"store", "mapStore"}

(* Every variable has its type.  Claims are not given up that were not     *)
(* made, but by a container that is deleted while it stores an element.    *)
LifetimeTypeOK ==
  /\ state \in {"NONE", "FAULT"}
  /\ heap \in [Live -> [type : Type, claims : Int, kids : Seq(ItemId)]]
  /\ Live \subseteq ItemId
  /\ stack \in [eval : Seq(ItemId), alt : Seq(ItemId)]
  /\ doomed \in Seq(ItemId)
  /\ items \in Int /\ uncounted \in Nat /\ number \in Nat
  /\ reg \in [Register -> ItemId \cup {Null}]
  /\ tangled \in BOOLEAN /\ misused \in BOOLEAN
  /\ misused \/ Storing \/ \A i \in Live : heap[i].claims >= 0
  /\ executed \in 0 .. MaxInstructions

(* Between two instructions the claims of an item are the references to it *)
(* from the stacks and from other items, and all references are to items   *)
(* that exist: what Push, Pop, Add, Set, RemoveAt, Clone and the map claim *)
(* and give up, in each order the cases call them, is balanced.            *)
ClaimsAreReferences ==
  AtRest =>
    /\ \A i \in Live : heap[i].claims = References(i)
    /\ Range(stack.eval) \cup Range(stack.alt)
         \cup UNION {Range(heap[i].kids) : i \in Live} \subseteq Live

(* An instruction that does not fault frees every operand it consumed and  *)
(* everything it made and did not keep.  One that faults may not (APPEND   *)
(* to a full array).                                                       *)
NoLeakWithoutFault ==
  AtRest /\ state = "NONE" => \A i \in Live : heap[i].claims > 0

(* The counter the creators consult is the number of items that exist, but *)
(* for those that Clone makes and does not count.                          *)
CounterTracksItems ==
  AtRest /\ state = "NONE" => items = Cardinality(Live) - uncounted

(* A deleted item is used, or a claim given up that was not made, only by  *)
(* a case one of whose operands contains another, or itself: PICKITEM,     *)
(* SETITEM, REMOVE, Free(a, b) and the rest are safe on operands that do   *)
(* not share, and index no stack or list past its end.                     *)
UsesDeletedOnlyIfTangled ==
  misused \/ (\E i \in Live : heap[i].claims < 0) => tangled

(* A Struct is never in itself through Structs alone, so that Clone, which *)
(* copies Structs and shares everything else, ends: a Struct is cloned     *)
(* each time it is stored or read.                                         *)
StructsAreFinite ==
  LET structs(set) ==
        {j \in UNION {Range(heap[i].kids) : i \in set} \cap Live :
           heap[j].type = "Struct"}
      below[n \in Nat] ==
        [i \in {j \in Live : heap[j].type = "Struct"} |->
           IF n = 0 THEN structs({i})
           ELSE below[n - 1][i] \cup structs(below[n - 1][i])]
  IN  \A i \in Live : heap[i].type = "Struct" =>
        i \notin below[Cardinality(Live)][i]

(* No list or map of an engine that goes on is longer than MAX_ARRAY_SIZE: *)
(* APPEND checks before it adds, SETITEM after, PACK and NEWARRAY check the *)
(* number they read, KEYS, VALUES and Clone not at all.                    *)
ContainersAreBounded ==
  AtRest /\ state = "NONE" =>
    \A i \in Live :
      Len(heap[i].kids) <= (IF heap[i].type = "Map" THEN 2 ELSE 1) * MaxArray

(* No instruction uses an item that has been deleted.                      *)
NoUseAfterFree == ~misused

(* An item that is given up twice, as a duplicate, is not deleted while a  *)
(* stack holds it: CALL_ED and CALL_EDT, which call UnclaimAndFree on what *)
(* Pop has unclaimed.                                                      *)
StackedItemsExist ==
  AtRest => Range(stack.eval) \cup Range(stack.alt) \subseteq Live

(* An engine that goes on has no more items than MAX_STACK_SIZE.           *)
ItemLimit == AtRest /\ state = "NONE" => Cardinality(Live) <= MaxItems
=============================================================================
