-------------------------- MODULE ExecutionEngine --------------------------
(***************************************************************************)
(* The interpreter of ExecutionEngine.cpp: the invocation stack, the gas,  *)
(* the four states, and the host that loads scripts and runs them through  *)
(* the C API.  A step of the model is one call of InternalStepInto, or one *)
(* call of the host while no instruction is running.                       *)
(*                                                                         *)
(* Scripts are byte strings and the instruction pointer moves by bytes, so *)
(* an operand can be executed as an opcode, as in the code.                *)
(***************************************************************************)
EXTENDS ExecutionContext, FiniteSets

CONSTANTS
  EntryScripts,   \* the scripts the host loads
  RvCounts,       \* the result counts it loads them with
  Callbacks,      \* the callbacks it gave the engine, the others are null
  Table,          \* the scripts the host's script table can deliver
  Hash,           \* the hash of each of them, a byte string
  HashLength,     \* ExecutionScript::ScriptHashLength, 20 bytes
  MaxInvocation,  \* MAX_INVOCATION_STACK_SIZE, 1024
  DefaultGas,     \* the gas limit of a cleaned engine, 0xFFFFFFFF
  MaxItemLength,  \* MAX_ITEM_LENGTH, 1 MB
  GasModulus,     \* 2^64, the width of the gas counter
  IndexModulus,   \* 2^8, the width of the index LoadScript takes
  LimitModulus,   \* 2^32, the width of the limit Execute takes
  GasLimits,      \* the limits the host passes to Execute
  HostCosts,      \* what the host charges through IncreaseGas
  DataCosts,      \* what a data opcode can cost
  DataResults,    \* what a data opcode can leave in place of its operands,
                  \* and the host in a system call
  MaxHostCalls,   \* bound: the calls the host makes
  MaxScripts      \* bound: the host loads no script beyond this many

ASSUME EngineAssumption ==
  /\ EntryScripts \subseteq Seq(Byte) /\ Table \subseteq Seq(Byte)
  /\ RvCounts \subseteq -1 .. 255
  /\ Hash \in [EntryScripts \cup Table -> Seq(Byte)]
  /\ HashLength \in Nat \ {0} /\ MaxInvocation \in Nat \ {0}
  /\ GasModulus \in Nat \ {0} /\ IndexModulus \in Nat \ {0}
  /\ LimitModulus \in Nat \ {0}
  /\ DefaultGas \in Nat /\ MaxItemLength \in Nat /\ GasLimits \subseteq Nat
  /\ HostCosts \subseteq Nat /\ DataCosts \subseteq Nat
  /\ DataResults \subseteq Seq(Item)
  /\ MaxHostCalls \in Nat /\ MaxScripts \in Nat

VARIABLES
  state,         \* _state
  consumedGas,   \* _consumedGas
  maxGas,        \* _maxGas
  invocation,    \* InvocationStack, the running frame at the end
  resultStack,   \* ResultStack
  scripts,       \* Scripts, every script loaded so far
  running,       \* the API call that is running instructions, and its count
  hostCalls      \* how many calls the host has made

vars == <<state, consumedGas, maxGas, invocation, resultStack, scripts,
          running, hostCalls>>

EVMState == {"NONE", "HALT", "FAULT", "FAULT_BY_GAS"}

Idle == [api |-> "none", count |-> 0]

Init ==
  /\ state = "NONE" /\ consumedGas = 0 /\ maxGas = DefaultGas
  /\ invocation = << >> /\ resultStack = << >> /\ scripts = << >>
  /\ running = Idle /\ hostCalls = 0

----------------------------------------------------------------------------
(* Reading the running frame, and charging.                                *)

Top == Last(invocation)

Cur == Fetched(Top)

Opcode == NextInstruction(Top)

WithTop(c) == Append(Front(invocation), c)

(* Mutant: a counter that does not wrap.                                   *)
AddGasUnbounded(gas, cost) == gas + cost

AddGas(gas, cost) == (gas + cost) % GasModulus

(* Mutant: the gas is compared before the cost is added.                   *)
AffordableBefore(gas) == consumedGas <= maxGas

(* AddGasCost compares after adding, and keeps what it added.              *)
Affordable(gas) == gas <= maxGas

(* The price an opcode's case charges before it does anything else.  The   *)
(* jumps are charged where JMP, CALL and CALL_I meet, at JmpLabel.         *)
Cost(op) ==
  CASE op = PUSH0 \/ op \in PUSH1 .. PUSH16 \/ op \in {NOP, JMP, SYSCALL} -> 0
    [] op \in {APPCALL, TAILCALL} -> 10
    [] op \in DataOpcode -> 0
    [] OTHER -> 1

Charged == AddGas(consumedGas, Cost(Opcode))

(* A case of the switch, once its first charge is paid.                    *)
Case(ops) ==
  /\ Opcode \in ops
  /\ Cost(Opcode) = 0 \/ Affordable(Charged)

(* The ways a case ends: a state and a stack, SetFault, or carrying on.    *)
Leave(s, stack) ==
  /\ state' = s /\ invocation' = stack
  /\ UNCHANGED <<resultStack, scripts>>

SetFault(c) == Leave("FAULT", WithTop(c))

Continue(c) == Leave(state, WithTop(c))

(* CreateByteArray, CreateInteger and Push.  The item counter, which may   *)
(* refuse, is the subject of ItemLifetime.                                 *)
PushNew(c, item) ==
  \/ Continue([c EXCEPT !.eval = Append(@, item)])
  \/ SetFault(c)

(* AddGasCost fails: the opcode has been read and nothing else is done.    *)
OutOfGas ==
  /\ Cost(Opcode) > 0 /\ ~Affordable(Charged)
  /\ consumedGas' = Charged
  /\ Leave("FAULT_BY_GAS", WithTop(Cur))

----------------------------------------------------------------------------
(* Push opcodes.                                                           *)

Push ==
  /\ Case({PUSH0, PUSHM1} \cup (PUSH1 .. PUSH16))
  /\ consumedGas' = Charged
  /\ PushNew(Cur, CASE Opcode = PUSH0 -> << >>
                    [] Opcode = PUSHM1 -> <<255>>
                    [] OTHER -> <<Opcode - PUSH1 + 1>>)

(* PUSHBYTES1 to 75 hold their length, PUSHDATA1, 2 and 4 read it.         *)
PushData(c, length) ==
  IF CanRead(c, length) THEN PushNew(Read(c, length), Data(c, length))
                        ELSE SetFault(Read(c, length))

PushBytes ==
  /\ Case(PUSHBYTES1 .. PUSHBYTES75)
  /\ consumedGas' = Charged
  /\ PushData(Cur, Opcode)

(* PUSHDATA4 refuses a negative length and one over MAX_ITEM_LENGTH.       *)
PushData124 ==
  /\ Case({PUSHDATA1, PUSHDATA2, PUSHDATA4})
  /\ consumedGas' = Charged
  /\ LET width == CASE Opcode = PUSHDATA1 -> 1 [] Opcode = PUSHDATA2 -> 2
                    [] OTHER -> 4
         length == CASE width = 1 -> UInt8(Cur) [] width = 2 -> UInt16(Cur)
                     [] OTHER -> UInt32(Cur)
     IN  IF CanRead(Cur, width)
            /\ (width = 4 => Data(Cur, 4)[4] < 128 /\ length <= MaxItemLength)
         THEN PushData(Read(Cur, width), length)
         ELSE SetFault(Read(Cur, width))

----------------------------------------------------------------------------
(* Jumps and calls inside a script.                                        *)

Nop == Case({NOP}) /\ consumedGas' = Charged /\ Continue(Cur)

(* Mutant: jumps are free.                                                 *)
NoJumpCost == 0

JumpCost == 1

(* JmpLabel: the frame c, on top of the frames `below', pays for a jump,   *)
(* reads the offset and jumps relative to the byte before the offset.      *)
JmpLabel(below, c, gas) ==
  LET at == Read(c, 2)
      offset == Int16(c) - 3
      paid == AddGas(gas, JumpCost)
  IN  /\ consumedGas' = paid
      /\ IF ~Affordable(paid)
         THEN Leave("FAULT_BY_GAS", Append(below, c))
         ELSE IF CanRead(c, 2) /\ CouldSeekFromHere(at, offset)
              THEN Leave(state, Append(below, SeekFromHere(at, offset)))
              ELSE Leave("FAULT", Append(below, at))

Jmp == Case({JMP}) /\ JmpLabel(Front(invocation), Cur, consumedGas)

(* A target outside the script faults whether the jump is taken or not,    *)
(* and leaves the condition on the stack.                                  *)
JmpIf ==
  /\ Case({JMPIF, JMPIFNOT})
  /\ consumedGas' = Charged
  /\ LET at == Read(Cur, 2)
         offset == Int16(Cur) - 3
         popped == [at EXCEPT !.eval = Front(@)]
     IN  IF Cur.eval = << >> THEN SetFault(Cur)
         ELSE IF ~CanRead(Cur, 2) \/ ~CouldSeekFromHere(at, offset)
              THEN SetFault(at)
         ELSE IF (Opcode = JMPIF) = GetBoolean(Last(Cur.eval))
              THEN Continue(SeekFromHere(popped, offset))
              ELSE Continue(popped)

(* Mutant: the limit is exceeded by one.                                   *)
FullByOneMore == Len(invocation) > MaxInvocation

Full == Len(invocation) >= MaxInvocation

(* Mutant: the caller does not skip the operand.                           *)
CallStays ==
  /\ Case({CALL})
  /\ IF Full
     THEN consumedGas' = Charged /\ SetFault(Cur)
     ELSE JmpLabel(WithTop(Cloned(Cur, -1)), Clone(Cur, -1, -1), Charged)

(* CALL hands all the items to a clone of the frame and jumps there.  The  *)
(* caller skips the operand, unless that leaves the script.                *)
Call ==
  /\ Case({CALL})
  /\ IF Full
     THEN consumedGas' = Charged /\ SetFault(Cur)
     ELSE JmpLabel(WithTop(SeekFromHere(Cloned(Cur, -1), 2)),
                   Clone(Cur, -1, -1), Charged)

(* CALL_I reads how many results it wants and how many items it hands over.*)
CallI ==
  /\ Case({CALL_I})
  /\ LET at == Read(Cur, 2)
         rvcount == Data(Cur, 2)[1]
         pcount == Data(Cur, 2)[2]
         fault == consumedGas' = Charged
     IN  IF Full THEN fault /\ SetFault(Cur)
         ELSE IF ~CanRead(Cur, 2) \/ Len(Cur.eval) < pcount
              THEN fault /\ SetFault(at)
         ELSE JmpLabel(WithTop(SeekFromHere(Cloned(at, pcount), 2)),
                       Clone(at, rvcount, pcount), Charged)

(* Mutant: the entry frame gets the results.                               *)
DeliverToEntry(below, items) ==
  IF below = << >>
  THEN /\ resultStack' = resultStack \o items
       /\ invocation' = << >> /\ state' = "HALT"
  ELSE /\ UNCHANGED <<resultStack, state>>
       /\ invocation' = [below EXCEPT ![1].eval = @ \o items]

(* A frame that has ended gives its results to the frame below or, when it *)
(* was the last, to the ResultStack.                                       *)
Deliver(below, items) ==
  IF below = << >>
  THEN /\ resultStack' = resultStack \o items
       /\ invocation' = << >> /\ state' = "HALT"
  ELSE /\ UNCHANGED <<resultStack, state>>
       /\ invocation' = Append(Front(below),
                               [Last(below) EXCEPT !.eval = @ \o items])

(* RET: the frame is gone even if it holds too few items.                  *)
Ret ==
  /\ Case({RET})
  /\ consumedGas' = Charged
  /\ IF Cur.rv > Len(Cur.eval)
     THEN Leave("FAULT", Front(invocation))
     ELSE Deliver(Front(invocation), Sent(Cur.eval, Cur.rv))
          /\ UNCHANGED scripts

----------------------------------------------------------------------------
(* Calls to other scripts.                                                 *)

(* Scripts with a hash that were loaded before.  A call whose hash is in   *)
(* the calling script looks here first; otherwise OnLoadScript asks the    *)
(* host, which loads the script, and so adds it to Scripts, or refuses.    *)
Cached(hash) == {s \in Range(scripts) : Hash[s] = hash}

Found(hash, dynamic) ==
  IF ~dynamic /\ Cached(hash) # {}
  THEN {[script |-> s, scripts |-> scripts] : s \in Cached(hash)}
  ELSE {[script |-> s, scripts |-> Append(scripts, s)] :
          s \in {t \in Table : Hash[t] = hash}}

(* Mutant: nothing is checked once the script is loaded.                   *)
NeverFull == FALSE

(* APPCALL and TAILCALL look at the depth after they loaded the script.    *)
FullOnceLoaded == Len(invocation) + 1 >= MaxInvocation

(* The frame c calls the script with this hash: the new frame is to        *)
(* deliver rvcount results and receives pcount items, and a tail call      *)
(* drops c.  When `limited', a full invocation stack faults after loading. *)
Enter(c, hash, dynamic, rvcount, pcount, tail, limited) ==
  \/ \E found \in Found(hash, dynamic) :
       LET new == NewContext(found.script, 0, rvcount)
           loaded == [new EXCEPT !.eval = Sent(c.eval, pcount),
                                 !.due = IF tail /\ rvcount # -1 THEN c.due ELSE @]
       IN  /\ scripts' = found.scripts /\ UNCHANGED resultStack
           /\ IF limited /\ FullOnceLoaded
              THEN state' = "FAULT" /\ invocation' = Append(WithTop(c), new)
              ELSE /\ UNCHANGED state
                   /\ invocation' =
                        IF tail THEN WithTop(loaded)
                        ELSE Append(WithTop(Cloned(c, pcount)), loaded)
  \/ (dynamic \/ Cached(hash) = {}) /\ SetFault(c)

(* Mutant: a tail call may deliver any number of results.                  *)
CannotCallAnyTail(c, rvcount, pcount, dynamic, tail) ==
  Len(c.eval) < pcount \/ (dynamic /\ Len(c.eval) < pcount + 1)

CannotCall(c, rvcount, pcount, dynamic, tail) ==
  \/ Len(c.eval) < pcount
  \/ tail /\ c.rv # rvcount
  \/ dynamic /\ Len(c.eval) < pcount + 1

(* CALL_E and its variants: D takes the hash from the evaluation stack, T  *)
(* replaces the caller, which must be due to deliver as many results.      *)
CallE ==
  /\ Case(CALL_E .. CALL_EDT)
  /\ consumedGas' = Charged
  /\ LET dynamic == Opcode \in {CALL_ED, CALL_EDT}
         tail == Opcode \in {CALL_ET, CALL_EDT}
         at == Read(Cur, 2)
         rvcount == Data(Cur, 2)[1]
         pcount == Data(Cur, 2)[2]
         popped == [at EXCEPT !.eval = Front(@)]
         hash == IF dynamic THEN Last(Cur.eval) ELSE Data(at, HashLength)
     IN  IF "LoadScript" \notin Callbacks THEN SetFault(Cur)
         ELSE IF ~CanRead(Cur, 2) \/ CannotCall(Cur, rvcount, pcount, dynamic, tail)
         THEN SetFault(at)
         ELSE IF dynamic
              THEN IF Len(hash) # HashLength THEN SetFault(popped)
                   ELSE Enter(popped, hash, TRUE, rvcount, pcount, tail, FALSE)
              ELSE IF ~CanRead(at, HashLength)
                   THEN SetFault(Read(at, HashLength))
                   ELSE Enter(Read(at, HashLength), hash, FALSE, rvcount,
                              pcount, tail, FALSE)

(* APPCALL and TAILCALL hand over everything and want everything back.  A  *)
(* hash of zeros means that the hash is on the evaluation stack, where the *)
(* first bytes of a longer item will do.                                   *)
AppCall ==
  /\ Case({APPCALL, TAILCALL})
  /\ consumedGas' = Charged
  /\ LET tail == Opcode = TAILCALL
         at == Read(Cur, HashLength)
         dynamic == \A i \in 1 .. HashLength : Data(Cur, HashLength)[i] = 0
         popped == [at EXCEPT !.eval = Front(@)]
         item == Last(Cur.eval)
     IN  IF "LoadScript" \notin Callbacks THEN SetFault(Cur)
         ELSE IF ~CanRead(Cur, HashLength) \/ (dynamic /\ Cur.eval = << >>)
         THEN SetFault(at)
         ELSE IF ~dynamic
              THEN Enter(at, Data(Cur, HashLength), FALSE, -1, -1, tail, TRUE)
         ELSE IF Len(item) < HashLength THEN SetFault(popped)
         ELSE Enter(popped, SubSeq(item, 1, HashLength), TRUE, -1, -1, tail,
                    TRUE)

(* SYSCALL reads a method name and calls the host, which may charge gas,   *)
(* may change what is on the evaluation stack, and may fail.               *)
SysCall ==
  /\ Case({SYSCALL})
  /\ LET at == ReadVarBytes(Cur)
         length == VarLength(Cur)
     IN  IF "InvokeInterop" \notin Callbacks
         THEN consumedGas' = Charged /\ SetFault(Cur)
         ELSE IF ~CanReadVarBytes(Cur, 252) \/ length = 0 \/ ~CanRead(at, length)
         THEN /\ consumedGas' = Charged
              /\ SetFault(IF CanReadVarBytes(Cur, 252) THEN Read(at, length)
                                                       ELSE at)
         ELSE \E cost \in HostCosts \cup {0}, ok \in BOOLEAN,
                pops \in 0 .. Len(Cur.eval), result \in DataResults \cup {<< >>} :
                LET gas == AddGas(consumedGas, cost) IN
                /\ consumedGas' = gas
                /\ Leave(IF cost > 0 /\ ~Affordable(gas) THEN "FAULT_BY_GAS"
                         ELSE IF ok \/ state = "FAULT_BY_GAS" THEN state
                         ELSE "FAULT",
                         WithTop([Read(at, length) EXCEPT
                                    !.eval = Kept(@, pops) \o result]))

----------------------------------------------------------------------------
(* The other cases: they work on the stacks of the running frame.          *)

(* DROP, DUP and the moves between the two stacks.                         *)
StackOp ==
  /\ Case({DROP, DUP, TOALTSTACK, FROMALTSTACK})
  /\ consumedGas' = Charged
  /\ LET from == IF Opcode = FROMALTSTACK THEN Cur.alt ELSE Cur.eval IN
     IF from = << >> THEN SetFault(Cur)
     ELSE Continue(
       CASE Opcode = DROP -> [Cur EXCEPT !.eval = Front(@)]
         [] Opcode = DUP -> [Cur EXCEPT !.eval = Append(@, Last(@))]
         [] Opcode = TOALTSTACK -> [Cur EXCEPT !.eval = Front(@),
                                               !.alt = Append(@, Last(from))]
         [] OTHER -> [Cur EXCEPT !.alt = Front(@),
                                 !.eval = Append(@, Last(from))])

(* THROWIFNOT pops a condition, THROW and undefined bytes fault at once.   *)
Throw ==
  /\ Case(Byte \ ((ControlOpcode \ {THROW}) \cup DataOpcode))
  /\ consumedGas' = Charged
  /\ SetFault(Cur)

ThrowIfNot ==
  /\ Case({THROWIFNOT})
  /\ consumedGas' = Charged
  /\ LET popped == [Cur EXCEPT !.eval = Front(@)] IN
     IF Cur.eval = << >> THEN SetFault(Cur)
     ELSE IF GetBoolean(Last(Cur.eval)) THEN Continue(popped)
     ELSE SetFault(popped)

(* A data opcode charges at some point of its case, replaces some of the   *)
(* top items by others, and continues or faults.                           *)
DataOp ==
  /\ Case(DataOpcode)
  /\ \E cost \in DataCosts, pops \in 0 .. Len(Cur.eval),
        result \in DataResults, next \in {state, "FAULT"} :
       /\ consumedGas' = AddGas(consumedGas, cost)
       /\ Leave(IF Affordable(AddGas(consumedGas, cost)) THEN next
                                                         ELSE "FAULT_BY_GAS",
                WithTop([Cur EXCEPT !.eval = Kept(@, pops) \o result]))

(* InternalStepInto with no frame to run.                                  *)
NoContext ==
  /\ state' = "HALT"
  /\ UNCHANGED <<consumedGas, invocation, resultStack, scripts>>

(* The loops of Execute, StepInto, StepOver and StepOut run InternalStepInto *)
(* again, or return to the host.                                           *)
LoopAgain(run, s, depth) ==
  CASE run.api = "Execute" -> s = "NONE"
    [] run.api = "StepOver" -> s = "NONE" /\ depth > run.count
    [] run.api = "StepOut" -> s = "NONE" /\ depth >= run.count
    [] OTHER -> FALSE

InternalStepInto ==
  /\ running # Idle
  /\ IF invocation = << >> THEN NoContext
     ELSE \/ OutOfGas
          \/ Push \/ PushBytes \/ PushData124
          \/ Nop \/ Jmp \/ JmpIf \/ Call \/ CallI \/ Ret
          \/ CallE \/ AppCall \/ SysCall
          \/ StackOp \/ Throw \/ ThrowIfNot \/ DataOp
  /\ running' = IF LoopAgain(running, state', Len(invocation'))
                THEN running ELSE Idle
  /\ UNCHANGED <<maxGas, hostCalls>>

----------------------------------------------------------------------------
(* The host, through the C API, when no instruction is running.            *)

HostCall ==
  /\ running = Idle
  /\ hostCalls < MaxHostCalls /\ hostCalls' = hostCalls + 1

LoadScript(s, rvcount) ==
  /\ HostCall /\ Len(scripts) < MaxScripts
  /\ invocation' = Append(invocation, NewContext(s, 0, rvcount))
  /\ scripts' = Append(scripts, s)
  /\ UNCHANGED <<state, consumedGas, maxGas, resultStack, running>>

(* The index arrives as an int32 and is narrowed to a byte.                *)
LoadCachedScript(index, rvcount) ==
  /\ HostCall
  /\ LET scriptIndex == index % IndexModulus IN
     invocation' = IF scriptIndex < Len(scripts)
                   THEN Append(invocation,
                               NewContext(scripts[scriptIndex + 1], 0, rvcount))
                   ELSE invocation
  /\ UNCHANGED <<state, consumedGas, maxGas, resultStack, scripts, running>>

IncreaseGas(cost) ==
  /\ HostCall
  /\ consumedGas' = AddGas(consumedGas, cost)
  /\ state' = IF Affordable(AddGas(consumedGas, cost)) THEN state
                                                     ELSE "FAULT_BY_GAS"
  /\ UNCHANGED <<maxGas, invocation, resultStack, scripts, running>>

Clean ==
  /\ HostCall
  /\ state' = "NONE" /\ consumedGas' = 0 /\ maxGas' = DefaultGas
  /\ invocation' = << >> /\ resultStack' = << >>
  /\ UNCHANGED <<scripts, running>>

(* Execute runs an instruction whatever the state is.  The limit, 64 bits  *)
(* wide in the C# library, is narrowed to 32.                              *)
Execute(gas) ==
  /\ HostCall
  /\ maxGas' = gas % LimitModulus
  /\ running' = [api |-> "Execute", count |-> 0]
  /\ UNCHANGED <<state, consumedGas, invocation, resultStack, scripts>>

(* The three step calls do nothing once the engine has stopped.            *)
Step(api) ==
  /\ HostCall
  /\ running' = IF state = "NONE"
                THEN [api |-> api, count |-> Len(invocation)] ELSE Idle
  /\ UNCHANGED <<state, consumedGas, maxGas, invocation, resultStack, scripts>>

Host ==
  \/ \E s \in EntryScripts, rvcount \in RvCounts : LoadScript(s, rvcount)
  \/ \E index \in 0 .. (2 * IndexModulus - 1), rvcount \in RvCounts :
       LoadCachedScript(index, rvcount)
  \/ \E cost \in HostCosts : IncreaseGas(cost)
  \/ Clean
  \/ \E gas \in GasLimits : Execute(gas)
  \/ \E api \in {"StepInto", "StepOver", "StepOut"} : Step(api)

Next == InternalStepInto \/ Host

Spec == Init /\ [][Next]_vars

(* An API call that is running instructions runs on: nothing in the engine *)
(* waits.  The host need not call anything.                                *)
FairSpec == Spec /\ WF_vars(InternalStepInto)

----------------------------------------------------------------------------
(* Properties.                                                             *)

TypeOK ==
  /\ state \in EVMState
  /\ consumedGas \in 0 .. (GasModulus - 1) /\ maxGas \in Nat
  /\ invocation \in Seq(Context)
  /\ resultStack \in Seq(Item)
  /\ scripts \in Seq(Seq(Byte))
  /\ running \in [api : {"none", "Execute", "StepInto", "StepOver", "StepOut"},
                  count : Nat]
  /\ hostCalls \in 0 .. MaxHostCalls

(* No jump, call or read takes the instruction pointer of any frame, the   *)
(* suspended ones included, out of its script: the raw pointer that        *)
(* ReadNextInstruction dereferences is one into Content.                   *)
InstructionPointerInScript ==
  \A i \in 1 .. Len(invocation) :
    invocation[i].ip \in 0 .. Len(invocation[i].script)

(* A suspended frame is out of reach of the frames above it: its pointer,  *)
(* its alt stack and the items it kept stay as they were until it is on    *)
(* top again, and all that a RET does to it is to add results.             *)
StackIsolation ==
  [][\A i \in 1 .. (Len(invocation) - 1) : i \in DOMAIN invocation' =>
       /\ IsPrefix(invocation[i].eval, invocation'[i].eval)
       /\ invocation'[i] = [invocation[i] EXCEPT !.eval = invocation'[i].eval]
       /\ i < Len(invocation') => invocation'[i] = invocation[i]]_vars

(* NEP8: a frame that was asked for a number of results is bound to        *)
(* deliver that number, however many CALL_ET and CALL_EDT replaced it      *)
(* since (TAILCALL, older than NEP8, makes it deliver everything).         *)
ResultContract ==
  \A i \in 1 .. Len(invocation) :
    invocation[i].rv = invocation[i].due

(* No instruction makes the invocation stack deeper than the limit and     *)
(* lets the engine go on.  CALL and CALL_I check before they push a frame, *)
(* APPCALL and TAILCALL after, CALL_E and its variants not at all.         *)
GoesTooDeep(ops) ==
  /\ running # Idle /\ invocation # << >> /\ Opcode \in ops
  /\ Len(invocation') > Len(invocation) /\ state' = "NONE"
  /\ Len(invocation') > MaxInvocation

NestingBound == [][~GoesTooDeep(Byte \ (CALL_E .. CALL_EDT))]_vars

NestingBoundOfCallE == [][~GoesTooDeep(CALL_E .. CALL_EDT)]_vars

(* Gas is never spent beyond the limit by an engine that goes on or halts: *)
(* CALL's second charge, the host's charges and those of a resumed run     *)
(* included.                                                               *)
GasBudget ==
  [][consumedGas' > consumedGas /\ state' \in {"NONE", "HALT"}
       => consumedGas' <= maxGas']_vars

(* A frame that ends without a fault delivers what the call that led to it *)
(* asked for, from the top of its stack and in order, to the frame below   *)
(* or to the ResultStack, and nothing else reaches them.                   *)
ReturnDelivers ==
  [][Len(invocation') < Len(invocation) /\ state' # "FAULT" /\ running # Idle
       => LET due == Sent(Top.eval, Top.due) IN
          IF Len(invocation) = 1
          THEN resultStack' = resultStack \o due
          ELSE Last(invocation').eval =
                 invocation[Len(invocation) - 1].eval \o due]_vars

(* Every call that runs instructions returns: only jumps and calls can     *)
(* repeat an instruction, and they are charged.                            *)
RunReturns == running # Idle ~> running = Idle

(* When CALL leaves the caller suspended, the caller is past the operand,  *)
(* but for an operand that ends the script: the seek is refused then, and  *)
(* the caller is at the operand, whose bytes run when the callee returns.  *)
CallSkipsOperand ==
  [][(running # Idle /\ invocation # << >> /\ Opcode = CALL
        /\ Len(invocation') > Len(invocation) /\ state' = "NONE")
       => invocation'[Len(invocation)].ip =
            IF Top.ip + 3 < Len(Top.script) THEN Top.ip + 3 ELSE Top.ip + 1]_vars
=============================================================================
