# Verification of neo-hypervm

TLA+ models of the NEO virtual machine in `src/Neo.HyperVM` (C++), TLC
configurations that check them on small instances, and TLAPS proofs.  Paths
below are relative to the repository; file names without a path are in
`src/Neo.HyperVM`.

## The system

A host (the C# library in `interop/`, through the C functions of `HyperVM.h`)
creates an engine, loads scripts and runs them.  The engine is single-threaded:
nothing interleaves inside it, but control passes back and forth.  The host
calls `Execute` or a step function, the interpreter calls the host back to load
a script or to run a system call, and the host may charge gas or load scripts
from within the callback.  Between two run calls it may do anything the C API
offers, whatever state the last run left.

| Component | State | Operations | Talks to |
|---|---|---|---|
| `ExecutionEngine` | `_state`, `_consumedGas`, `_maxGas`, `Scripts`, `InvocationStack`, `ResultStack`, `_counter` | `LoadScript` (3 forms), `Execute`, `StepInto`, `StepOver`, `StepOut`, `Clean`, `AddGasCost`, the creators, `InternalStepInto` with one case per opcode | all of the below, host callbacks |
| `ExecutionContext` (a frame) | script, `_instructionIndex`, `RVCount`, `EvaluationStack`, `AltStack` | `Read*`, `SeekFromHere`, `Clone`, `Clear` | its script, the item stacks |
| `ExecutionContextStack` | the frames, and the list of those to delete | `Push`, `Pop`, `Top`, `Clear`, destructor | engine |
| `Stack`, `StackItems` | an array that grows | `Push`, `Pop`, `Insert`, `Remove`, `Drop`, `Peek`, `SendTo`, `Clear` | items: a stack claims what it holds |
| Items (`IStackItem` and six classes) | type, value, `_claims` | conversions, `Equals`, destructor | the counter |
| `ArrayStackItem` (arrays and structs), `MapStackItem` | elements, each of them claimed | `Get`, `Set`, `Add`, `RemoveAt`, `Clone`, `Remove`, `FillKeys`, `FillValues` | `StackItemHelper` |
| `StackItemHelper` | none | `Free` of 1, 2, 3 items, `UnclaimAndFree` | items |
| `IStackItemCounter` | `_items`, and claims of its own | `Inc`, `Inc(n)`, `Dec`, `Clean` | creators, item destructors |
| `BigInteger`, `BigIntegerBuilder` | words | arithmetic, shifts, conversions | integer items |
| `Crypto` | none | hashes, signatures | data opcodes |
| C API, C# interop | handles | everything above | host programs |

What is hard here, and what makes each part correct:

- *Control.*  Scripts are bytes and jumps are relative to bytes, so an operand
  can be run as an opcode; four kinds of call build frames with different
  result counts; tail calls drop frames; the gas runs out between two steps of
  one instruction; a faulted engine can be run again.  Correct means: pointers
  stay in scripts, a frame is isolated from those above it, depth and gas are
  bounded, a return delivers what the call asked for, every run returns.
- *Item lifetime.*  Items are counted by hand: each case of the switch decides
  what it unclaims, frees and in which order, with an early return after every
  check.  Operands may be the same item, contain each other, or be in a cycle.
  Correct means: claims are references, nothing is used after its deletion or
  leaked, the item counter follows the items, containers stay within limits.
- *Data.*  Big integers, conversions between item types, equality of nested
  structs, signature matching.  Correct means: equal to their mathematical
  definitions within the size limits.

`PROJECT.json` lists the hazards of the code, each at its line, with the
properties that cover it or the reason why none does yet.

## Modules

    EVMOpCode                opcode bytes
      ExecutionContext       a frame: reads, seeks, Clone, SendTo
        ExecutionEngine      interpreter, host, properties of control
          ExecutionEngineProofs      typing
            ExecutionEngineSafety    the other safety properties; that the
                                     engine is a CallReturn machine
          EngineRefinement   what the engine is as a CallReturn machine
            ExecutionEngineMC        scripts for TLC
    CallReturn               abstract: frames that owe items to each other
    FrameLifetime            items, frames, the counter and the host
      FrameLifetimeProofs            leaks, claims, counter (with Counting)
    ItemLifetime             items, claims, every data opcode but one
      ItemLifetimeProofs             types, counter, bounds (with Counting)
        ItemLifetimeSafety           claims
          ItemLifetimeLeaks          nothing is lost
      ItemLifetimeMC                 sets of opcodes for TLC
    BigIntegerBuilder        registers of words
      BigInteger             numbers
        ItemValues           items: conversions and equality
          ValueOpcodes       the opcodes that compute (with CheckMultisig)
            ValueOpcodesMC           stacks for TLC
    CheckMultisig            the loop that matches signatures and keys
      CheckMultisigProofs            what it accepts and refuses
    Counting                 theory: induction, counting in sequences

The models overlap where they must.  What an instruction does to control is in
`ExecutionEngine`, what it does to the claims of items in `ItemLifetime`, what
calls and the host do to them in `FrameLifetime`, and what it computes in
`ValueOpcodes`; each of the four replaces what the others say by a choice.

### ExecutionEngine (with ExecutionContext and EVMOpCode)

A step is one `InternalStepInto`, or one call of the host while no instruction
runs (`running = Idle`).  The variables are the engine's members; `running`
says which API call loops and the stack depth it remembered (`StepOver`,
`StepOut`).  A frame is a record with the frame's members and a history field
`due`: the number of results the call that led to the frame asked for, which
tail calls pass on.  An item is the byte string it converts to.

Each case of the switch that decides control is an action: the push opcodes,
`JMP`, `JMPIF`, `JMPIFNOT`, `CALL`, `CALL_I`, `CALL_E` with its three variants,
`APPCALL`, `TAILCALL`, `RET`, `SYSCALL`, `THROW` (and every undefined byte),
`THROWIFNOT` and four moves of items.  `OutOfGas` is the early return of
`AddGasCost` at the head of the cases; `JmpLabel`, where `JMP`, `CALL` and
`CALL_I` meet by `goto`, charges by itself.  The remaining data opcodes are one
action, `DataOp`: some items of the running frame are replaced, some gas is
spent, and the engine goes on or faults.

Creating an item may be refused by the item counter; here that is a choice
(`PushNew`).  The host may deliver a script for a hash, or refuse; it is assumed
to load exactly one script when it says that it did.  Within `SYSCALL` it may
charge, answer yes or no, and replace items of the running frame.  It gave the
engine both callbacks, one or none (`Callbacks`): the opcodes that need one that
is null fault before they read their operands.  It loads scripts with any of
`RvCounts`, -1 (all results) to 255.  The limit it passes to `Execute` is narrowed
from the 64 bits of the C# wrapper to 32 (`LimitModulus`).

### CallReturn and EngineRefinement

`CallReturn` is what the engine promises to those who write scripts and those
who host them, without scripts, instructions, gas or limits.  A frame owes its
caller a number of items, or all it has.  The running frame may change its own
items (`Work`), hand some to a new frame (`Call`), hand some to a frame that
takes its place and its debt (`TailCall`), pay and be gone (`Return`), or be
gone without paying, which is a fault (`Default`).  The host may load a frame
with any debt, stop the machine or clean it.  `EngineRefinement` maps the engine to it: a
frame is its `due` and its evaluation stack, and the two faults are one.  A
call divides the caller's items in order (`HandsOver`), where the dynamic calls
may spend the one that is the hash; `TAILCALL`, which is older than the result
counts of NEP8, may turn the debt into a debt of everything.

### ItemLifetime

A case of the switch is written as a short program over the operations it
calls: pop, push, free one, two or three variables, make an item, read a
number or fault, and so on (the section "The cases of the switch").  The
registers are the local variables of the case.  `Next` runs the program one
operation at a time.  `doomed` is the stack of destructors that run, the
innermost first, and the program waits for them: the destructor of a container
gives up its elements one by one, and one that nobody claims any more goes
first, which is where the order of operations shows.  `heap` maps the addresses
of the items that exist to their type, claims and elements.  A step that touches
an address not in `heap`, or an index past the end of a stack or a list
(`Defined`), sets `misused`, and the behaviour ends there: what C++ does next is
undefined.

`Set` of an array and of a map stores the new element in a step of its own
(`StoreElement`, `StoreValue`), after the destructor of the old one.  `Clone`
copies one element at a time (`CopyElement`) and goes on with the lists of the
Structs it meets.  `Opcodes` says which opcodes are executed, any of `Opcode`
(`OpcodesAssumption`): the runs and the proofs need it, the engine executes all.

What an item holds is left out.  A number that is read is any number in the
range the case accepts, or a fault; whether two different keys are equal is a
choice, except that an item is equal to itself.  Four history variables serve
the properties: `tangled` (two operands of the current case contain one
another, or one is in a cycle), `misused`, `uncounted` (items made by `Clone`),
and `executed`.  One frame runs.

### FrameLifetime

The same claims, seen from the frames: items that hold no other item, on the
two stacks of any number of frames, on the `ResultStack`, and in handles of the
host.  Calls, tail calls and `RET` move and release them; `Clean` and the
destructor forget the frames; the item counter refuses at its limit, is set to
0 by `Clean`, and is itself an object that the engine and every item claim and
the last of them deletes.  Contexts are never deleted: the loop that should
(ExecutionContextStack.h:61) looks for them on the stack it has just cleared,
so `contexts` only grows, and the host's pointers to their stacks stay valid.

The host creates, pops, peeks, pushes, drops and frees items on every stack it
has ever seen, in every state; its steps between two instructions also stand
for what it does inside a callback.  `StackItem_Create` at the limit claims a
null pointer, which ends the process (`CRASHED`).  Which instruction comes next
is a choice.

### BigIntegerBuilder, BigInteger, ItemValues, ValueOpcodes

The arithmetic of the virtual machine, down to its words: `BigIntegerBuilder`
has the registers, addition with carry, subtraction with borrow, schoolbook
multiplication, and the long division that guesses a digit, corrects it and
adds back; `BigInteger` has the two forms of a number (a value that fits
`int32`, or a sign and words), the conversions from and to bytes, bitwise
operations and shifts by two's complements in words.  The width of a word and
the bytes in it are constants.  A word that is read but was not written, or
that lies behind the end of an array, is a choice among `Uninitialised`.

`ItemValues` has what each type of item converts to and when two are equal.  A
conversion is a set, empty when it fails.  `Equals` of structs is the code's
loop with two stacks.  `ValueOpcodes` has the cases that compute: an action for
arithmetic, logic and comparison, one each for `VERIFY`, `CHECKSIG` and
`EQUAL`, and four for `CHECKMULTISIG`, whose two rounds read keys and
signatures, go on after a fault, and enter the loop of `CheckMultisig`.
`CRASHED` is a process that did not survive: a null pointer, a recursion without
end, or a message that is read or deleted after its deletion.  The last is
undefined, so the process may also go on, with any answer.

### CheckMultisig

The matching loop, one answer of `Crypto::VerifySignature` at a time.  What
OpenSSL says of a signature and a key is an arbitrary function, fixed at the
start; bytes that do not have the form of one are answered with -1.  A key of 65
bytes that begins with 4 makes `VerifySignature` take the message for the key
(Crypto.cpp:65) and delete it at the end (132): from then on (`deleted`) it may
answer anything.  The host is assumed to give a message that it has not deleted
each time the engine asks for one.  `MatchNext` lets the loop run on any lists, which is what the proof is
about; `ValueOpcodes` enters it from the opcode.

## What TLC checks

All runs allow deadlock: an engine stops when the host makes no more calls, and
the other models end after a fault or at their bounds.

| Run | Instance | What it shows |
|---|---|---|
| `engine_programs` | every program of one to three of 14 instructions (offsets before, inside and past the script, `CALL` with and without operand), and eight scripts that loop through jumps, calls and system calls; loaded and run by one API call, depth 3, gas 7 | `InstructionPointerInScript`, `StackIsolation`, `NestingBound`, `GasBudget`, `ReturnDelivers`, `CallSkipsOperand`, and `RunReturns`, that each API call returns |
| `engine_host` | about 40 scripts with calls of every kind to two table scripts and themselves, loaded for all results or for one, four host calls, 2^64 shrunk to 64, 2^32 to 32 with a gas limit of 44, 2^8 to 1 | `TypeOK`, `ResultContract`, the same action properties when engines are resumed, stepped, charged and cleaned, and `CallsAndReturns`: the engine implements `CallReturn` |
| `frames` | a limit of one item, depth 3, up to three contexts, two items ever made, one refusal between two `Clean`s, two claims on an item | `FramesTypeOK`, `ClaimsAreHeld`, `LeaksAreNamed`, `CountedSinceClean`, `LimitHolds`, `CounterOutlivesItems` |
| `lifetime_all` | every opcode but `CHECKMULTISIG` and `CALL_ED`, six instructions, 4 items, arrays of 2 | `LifetimeTypeOK`, `ClaimsAreReferences`, `NoLeakWithoutFault`, `CounterTracksItems`, `UsesDeletedOnlyIfTangled`, `StructsAreFinite`, `ContainersAreBounded` |
| `lifetime_maps` | ten opcodes around maps, nine instructions, 5 items, one pair | the order of frees and claims in maps, and the bound on pairs, which is exceeded before it is checked |
| `values` | every opcode on every pair of 42 items that are numbers or convert, two opcodes in a row on triples, `EQUAL` on every pair of scalars and containers, `CHECKMULTISIG` on operands of every form, an uncompressed key among them, under every answer of OpenSSL | `ValuesTypeOK`, `NumbersAreExact`, `ResultsFit`, `EqualIsSameness`, `EqualItemsConvertAlike`, `CrashesAreKnown`, `MatchIsExact` |
| `call_e_depth` | a script that calls itself | *violated:* `NestingBoundOfCallE` |
| `shift_sign` | shifts of negative numbers to the right | *violated:* `ShiftsKeepSign` |
| `malformed_signatures` | `CHECKMULTISIG` with bytes that are no signature or no key | *violated:* `AcceptsOnlyTrue` |
| `operands_that_share` | `PUSH DUP PACK ADD` in any order | *violated:* `NoUseAfterFree` |
| `clones_are_not_counted` | copies of an array of structs | *violated:* `ItemLimit` |
| `dynamic_call` | `PUSH DUP CALL_ED` in any order | *violated:* `StackedItemsExist` |

Bounds.  Limits of the code (1024 frames, 2048 items, 1024 elements, 2^64) are
CONSTANTS set small enough that the runs reach them from both sides.  Three
frames distinguish the running frame, its caller and the frames further below.
Three instructions are enough for a jump into the operand of another
instruction and back; four host calls for load, run, interfere, run again.
`ItemId` has nine addresses; with the limits of the runs no instruction is ever
kept from running by it.  `MaxHostCalls`, `MaxScripts`, `MaxInstructions`,
`MaxBorn`, `MaxRefused`, `MaxContexts` and `MaxClaims` only end behaviours.  Two
items, one that is older than a `Clean` and one that is younger, are what the
counter can get wrong, and a third context is one that is loaded after another
was dropped.

In `values` a word has 6 bits (`WordBits`) and two bytes of 3 bits, a number at
most 6 bytes (`MaxSize`), so three words, as the code's numbers have eight of 32
bits: division needs three for its dividend to be longer by one word than a
divisor of two.  The numbers lie around 0, the end of the packed form, one, two
and three words and the size limit, and include pairs for which the first guess
of a digit of a quotient is one and two too large, which is where TLC finds a
wrong guess.  Fresh memory holds all zeros or all ones.  `MaxShift` is 20, past
the last of three words.  Keys are of 3 bytes and signatures of 2, so that shorter ones
exist.

Fairness.  `FairSpec` has weak fairness of `InternalStepInto`: while an API
call runs, the engine's loop waits for nothing.  The host is not assumed to
call anything.

### Disagreements found

Six runs are violated:

1. `CALL_E`, `CALL_ED`, `CALL_ET` and `CALL_EDT` (ExecutionEngine.cpp:543-700) do
   not check the depth of the invocation stack, against the limit of
   Limits.h:18-20.
2. `Free(a, b)` (StackItemHelper.cpp:68-91) reads `b` after deleting `a`, also
   when `a` was the last to hold `b`.
3. `Clone` (ArrayStackItem.cpp:16-50) makes items without the counter, whose
   deletion is counted.
4. `CALL_ED` and `CALL_EDT` (600-610) give up two claims of the hash they pop.
5. `SHR` of a negative number by whole words is 0 when the result is the negative
   of a power of the base: the last complement (BigInteger.cpp:430-453) has no
   word for its carry.  With words of 32 bits, -(2^64 - 1) >> 32 is 0 and not
   -2^32.  EVMOpCode.h:171 says "Shifts a right b bits, preserving sign".
6. `CHECKMULTISIG` takes the answer -1 of `VerifySignature` for a match
   (ExecutionEngine.cpp:3172), where Crypto.h:24 says "-1=ERROR , 0= False ,
   1=True" and `CHECKSIG` and `VERIFY` want 1: a signature of the wrong length
   is accepted for any key.

2 and 4 bound what the passing runs can say: `UsesDeletedOnlyIfTangled` states
that sharing between operands is the only way to use a deleted item, and
`lifetime_all` leaves `CALL_ED` out.

Others are exceptions that are named in the passing properties, and each run
shows that there are no more of the kind:

- `CallSkipsOperand`: `CALL` at the end of a script (ExecutionEngine.cpp:497).
  The seek of the caller over the operand is checked, refused, and the refusal
  ignored, so the operand is executed after the return; the comment on the line
  says that there is no check.
- `NumbersAreExact`: the shifts to the right of 5 (`LosesCarry`), by `SHR` or by
  `SHL` of a negative count, when no more words are left than the power has
  zeros.
- `CrashesAreKnown`: `EQUAL` of an Array and a Struct (ArrayStackItem.cpp:57-104)
  calls itself with the same two items without end, where the comment at 57 says
  that an Array is equal to itself only.  `CHECKMULTISIG` whose keys are all
  that is on the stack uses a null item (ExecutionEngine.cpp:3075).  `VERIFY`,
  `CHECKSIG` and `CHECKMULTISIG` with an uncompressed key delete a message that
  is read or deleted again by themselves or the host (Crypto.cpp:65, 132,
  ExecutionEngine.cpp:2980).  `CRASHED` in `FrameLifetime` is `StackItem_Create`
  at the limit of items (HyperVM.cpp:268).
- `MatchIsExact`, `AcceptsOnlyTrue`: nothing is claimed once the message is gone.
  That the loop accepts only what can be matched is claimed by `MatchIsExact`
  when all bytes have the form of a signature or of a key, since of others it is
  false (6); that it refuses nothing else is claimed of all.
- `ResultsFit`: `DIV` of the least number of the size limit by -1 is one byte
  longer than the limit, and seven opcodes check no size.
- `LeaksAreNamed`: a frame that left the invocation stack keeps its items when
  `RET` found too few results (ExecutionEngine.cpp:672), when `Clean` or the
  destructor dropped it (20, 54), or when the host pushed to it afterwards, and
  as contexts are never deleted, for ever.
- `CountedSinceClean`, `LimitHolds`: `Clean` sets the counter to 0 while items
  of the host exist, which it counts down when they are freed.

## What TLAPS proves

`ExecutionEngineProofs` begins with the lemmas about a frame: every read and
seek leaves a well-formed frame with its pointer in the script, and `SendTo`
splits a stack in two parts that make up the whole.  It proves, for all scripts,
script tables, gas limits and sizes that satisfy `EngineAssumption`:

- `TypeCorrect`: `Spec => []TypeOK`
- `PointersStayInScript`: `Spec => []InstructionPointerInScript`

The inductive invariant is the conjunction `Inv` of the two.  Neither part
stands alone: a seek keeps the pointer in the script because it starts there,
and that the script is a sequence of bytes is what makes an offset an integer
and a byte that is read an opcode.  The argument goes through one lemma per
action, each of which shows `Stepped`: what the five variables an instruction
changes are afterwards.  `InvInvariant` puts them together.

`ExecutionEngineSafety` proves the other safety properties that the engine runs
check, from the same assumption:

- `ResultsAsAsked`: `Spec => []ResultContract`
- `GasWithinLimit`: `Spec => GasBudget`
- `NestingWithinLimit`: `Spec => NestingBound`
- `SuspendedFramesIsolated`: `Spec => StackIsolation`
- `ReturnsDeliver`: `Spec => ReturnDelivers`

The inductive invariant is `Contract`, which is `Inv` and `ResultContract`: a
return delivers by the frame's `rv`, so what it delivers is what was asked for
only while `rv` is what was asked for.  The argument again goes through one
lemma per action.  It shows that an instruction has one of a few outcomes
(`Outcome`): the running frame is replaced by itself at another place with
other items, or by the frame of a tail call; or a frame is pushed above it and
receives some of its items; or it is dropped by a fault because it has too few;
or it returns; and that the gas is unchanged, within the limit, or the engine
has faulted.  The five theorems read the frames off the outcome and treat the
host's calls apart.  `ResultContract` holds of tail calls because `CALL_ET` and
`CALL_EDT` compare the counts (ExecutionEngine.cpp:575), which is the one
place of the proof where the comparison is used; `NestingBound` holds of
`CALL` because it checks before it pushes and of `APPCALL` because it checks
after.

The second half of `ExecutionEngineSafety` proves that the engine implements the
abstract machine, for all scripts, tables, prices and limits:

- `EngineCallsAndReturns`: `Spec => CallsAndReturns`

Each outcome is one of the machine's steps, with a lemma of its own
(`ReplacedIsWork`, `ReplacedIsTailCall`, `PushedIsCall`, `DroppedIsDefault`,
`ReturnedIsReturn`), and each call of the host is one or a stutter.  `Contract`
is needed again: the machine pays by `due`, the code by `rv`.

`CheckMultisigProofs` proves, for any number of keys and signatures and
whatever OpenSSL answers:

- `MultisigIsExact`: `MatchSpec => []MatchIsExact`

The loop is greedy, so the inductive invariant (`MatchInv`) has two halves:
no assignment of all the signatures gives the next one a key that was tried
(`Greedy`), and what is matched has keys among those tried (`Sound`).  They are
the two halves of the theorem: that the loop refuses nothing that can be
matched, and that it accepts nothing else.  What a signature and a key should
give is `Valid`, which is the answer 1 of `VerifySignature`; the loop's own
condition is any answer but 0.  `AnswersTell` relates them: an answer of 0 means
that the pair is not valid, whatever the bytes are, so `Greedy` holds always,
while any other answer means that it is valid only if both have their form, so
`Sound` needs `WellFormed`.  Both need a message that is still there, which is
what `deleted` says.  The invariant also needs that the loop goes on exactly
while enough keys are left (`Running`).
`Assignment` says that the keys of two signatures are at least as far apart as
the signatures; with "in increasing order" instead, which is the same, the step
that gives up would need an induction as well.

`FrameLifetimeProofs` proves, for all limits, any number of frames and whatever
the host does with the stacks it has seen:

- `NamedLeaks`: `Spec => []LeaksAreNamed`

The invariant is inductive with the shape of two sequences (`Shape`: the
invocation stack holds contexts).  Each step is one of a few that the lemmas
treat (`KeptLeaves`, `WrittenLeaves`, `EnteredLeaves`, `LoadedLeaves`,
`ReturnedLeaves`): it leaves a frame that is out of use as it is or empties it,
and what it writes otherwise is in use afterwards, or `abandoned`.  That the
host's pops and drops are harmless is the invariant itself: a frame it finds an
item in is in use or abandoned.

The second half of `FrameLifetimeProofs` proves the other invariants of the
`frames` run, for all limits, any number of frames, stacks of any length, and
any order of calls of the host:

- `FramesType`: `Spec => []FramesTypeOK`
- `ClaimsHeld`: `Spec => []ClaimsAreHeld`
- `ItemsCounted`: `Spec => []CountedSinceClean`
- `LimitOfItems`: `Spec => []LimitHolds`
- `CounterOutlives`: `Spec => []CounterOutlivesItems`

They are parts of one inductive invariant (`IInv`, which the `frames` run checks
under its parts and `Invariant` proves).  Besides the leaks it has `Control`: a
context is on the invocation stack at most once, since a `RET` of a frame that
is there twice would release its items twice.  And it has `MemInv`: the memory
is `Sound` for the table `Refs` of references, which is the handles of the host
plus the places that hold the item in the stacks of all frames and in the
`ResultStack`.  None of the five stands alone.  That an item is not deleted
while it is held needs its claims to be the references; that the counter follows
needs that an item is deleted once; that the counter's own claims are the items
and the engine needs both.

The argument has two halves that the step lemmas bring together.  A *memory*
half says what a claim, an unclaim, a creation and a `Clear` do to a sound
memory, given what they do to the table (`GainStep`, `LoseStep`, `MoveStep`,
`CreateStep`, `AdoptStep`, `ClearStep`); a *places* half says what a push, a
pop, a transfer or the end of a frame does to the places of every item.
`Clear` gives up the items of a stack one by one, and may delete an item that
stands there twice on its second visit only: `ClearSound` follows the loop by
induction.  The library's induction theorems take an operator as a parameter,
which the provers cannot instantiate; `Counting` proves induction over an
interval and over the naturals for sets instead, from the least element of a
nonempty set of naturals, and on it the counting of places in sequences and in
families of sequences.

`ItemLifetimeProofs` proves of the data opcodes, for all limits, any finite set
of addresses, any set of opcodes and any number of instructions:

- `CounterTracks`: `Spec => []CounterTracksItems`
- `ContainersBounded`: `Spec => []ContainersAreBounded`

The inductive invariant is `Types /\ Counter`.  `Types` has to say what the
program that is left can be, and the cases are programs within programs: a
check contains what the case does when it fails.  `Flat` is the set of steps that
contain no program, `Nest(P)` adds those that contain programs over `P`, and two
levels of it (`Steps`) hold every case (`ProgramsAreSteps`).  A step of a case
goes on with such a program, so what each action may find in `todo` is known
without looking at the cases again.  Three things lie outside: the element that
`Set` has still to store, the same for a map, and the item `DROP` has taken and
not yet released (`Runs`).  `Counter` drops the condition that nothing is being
done: the counter is exact at every step, between two elements of a `Clone` too,
since each action that makes or deletes an item changes the counter with it.

That containers stay within `MAX_ARRAY_SIZE` cannot be seen from one step: the
check is in one step of a case and the list gets longer in another, with
destructors in between that may change any list.  The inductive invariant
`Bounded` says that every list is short enough (`FitsIn`) and where the case may
be (`Fitting`).  In most places what is left of it is `Modest`: no step of it
makes a list longer, but for a copy, which is as long as what it is made of.  The
other places are named, each with what it relies on: `APPEND` behind its check
has an array with room for one more (`AtRoom`), `SETITEM` has found a map, whose
size it checks after it added the pair (`AtPair`), `PACK` has as much in its array and still to pop as the script
asked for (`AtPacking`), `KEYS` and `VALUES` have an empty array (`AtMade`), an
element taken out at index 0 has left its place (`AtStore`), and each copy of a
`Clone` has a list that its copies fit in (`AtCopies`).  After a fault, or once a
deleted item was used, nothing is said, as in the property.

`ItemLifetimeSafety` proves, if `CALL_ED` is not among the opcodes:

- `ClaimsAreBalanced`: `Spec => []ClaimsAreReferences`
- `LifetimeTypes`: `Spec => []LifetimeTypeOK`

The hypothesis is needed: `CALL_ED` gives up the claim of its hash twice, and
the `dynamic_call` run shows the property that fails.  `CALL_EDT` is the same
case.  No other opcode has an exception, and operands may share, contain each
other or themselves.

`ClaimsAreReferences` speaks of the time between two instructions.  The inductive
invariant `Sound` says what it becomes within one.  Claims are counted against
the places in the two stacks and in all items (`Balanced`), but for two places
that are about to change: the list that an element is being stored in, which is
taken as it will be (`Settled`), and the item that `DROP` has taken, which still
counts as on the stack (`Stacked`).  An item whose destructor runs has no claim
(`Doom`), and so no place, so that when it is gone no list points to it.  The
exception is a container whose own destructor runs while it waits for an
element, which can happen through a cycle (ArrayStackItem.cpp:206): then nothing
is said (`Lost`), and the next step of the program is the use of a deleted item.
`Tidy` says that the place to be stored in is one of the list, whatever the
destructors did meanwhile.  Registers are not places: an operand that was popped
has lost its claim, and what the case makes has none until it is stored.  That
each of them is freed is the matter of `ItemLifetimeLeaks`.

The proofs use the theory of `Counting` twice, for the places of an item in one
list and for the sum over all lists.  Each action is a movement in one list with
the claims that go with it (`KidsMove`, `StackMove`), or the birth or death of an
item; the destructor needs both, and the argument that it does not disturb the
place that is `Settled` (`DeleteItemSound`).  TLC checked
`Sound` on the instances of `lifetime_all` and `lifetime_maps` before it was
proved.

`ItemLifetimeLeaks` proves, if `CALL_ED` is not among the opcodes:

- `NoLeaks`: `Spec => []NoLeakWithoutFault`

An item without claims is being deleted, or a register holds it that the case
will still free or store.  Which registers those are depends on the program
alone, not on what they hold.  A step that takes or makes an item adds its
register, a step that stores or frees it removes it (`Leaves`); a check goes on
in two ways, and a way that faults needs to free nothing (`Goes`).  `Handles(p,
R)` says that the program `p`, with the registers `R` still to be freed, frees
all of them along each way and overwrites none (`Allows`).  The loop of `PACK` is
as long as the script asks for, so this is not defined by recursion over the
steps: a set of pairs of program and registers is `Closed` if each step leads
from it into it, and `Handles` says that there is one.  `Leads(P, R, S)` says
what a part `P` of a case does to the registers, whatever follows it; the lemmas
compose such parts, and `ProgramsHandle` puts the cases together: each of them
handles its program from no register.

The inductive invariant `Kept` then relates the heap to the program that is left:
there are registers that it handles, and every item without claims is waiting to
be deleted or is in one of them (`Covers`).  It stands on `Types` and `Sound`,
which give that claims are never negative and that what is on a stack has one, so
that only what is taken or made needs a register.  There is one lemma per action.
Two cases need more.  What is freed together may be the same item in two
registers, so `Kept` does not ask for different items.  And `XSWAP` peeks an item,
puts it in a second place and then takes it from the first: that it still has a
claim, and so needs not be freed, is known from the stack and not from the
program, and `Exchanging` says where it is at each of the last steps.  After a
fault nothing is asked, as in the property: `APPEND` to a full array, for one,
leaves its operands behind.

Only model-checked: `NestingBoundOfCallE` and the other violated properties, which
are false of the code; `CallSkipsOperand`; `RunReturns`, as liveness is
out of the prover's reach; of `ItemLifetime`, `UsesDeletedOnlyIfTangled`, which needs for every place in
every case what its registers hold, and `StructsAreFinite`, a property of paths
in the heap; the conversions and the equality of `ValueOpcodes`, whose
operators on words and on nested structs are declared `RECURSIVE`.  That `ValueOpcodes` enters the loop of
`CheckMultisig` as `MatchBegins` does is by construction, and `values` checks
`MatchIsExact` from the opcode.

## Not modelled

- The splicing of bytes (`CAT`, `SUBSTR`, `LEFT`, `RIGHT`, `SIZE`) and the
  hashes compute a choice; of what they do, claims and control are modelled.
- What only the C API calls: `Serialize`, `ReadByteArray` of a part, `Insert`
  and `IndexOf` of arrays, the functions that work inside arrays and maps.
- The order of the keys of a map, which is that of their addresses.
- OpenSSL: what it answers is an arbitrary function.
- Growth of `Stack`, allocation failure, logging, the lazy hash of a script.
- A host that answers that it loaded a script and did not, or that runs or cleans
  the engine or loads scripts from within the callback of a system call.
- Result counts of the host beyond -1 and one byte.
- How long `EQUAL` of shared structs takes.
- Marshalling in C#, and its wrappers of arrays and maps.
- Build files, packaging, tests and benchmarks have no state of the program.

## What could be added

1. The C API inside arrays and maps, as operations between two instructions in
   `ItemLifetime`: an index that is stale, an item that is inserted into itself.
2. `ItemLifetime` and `FrameLifetime` composed, to let containers cross frames.
3. A proof of `UsesDeletedOnlyIfTangled`, on top of `Sound` and `Kept`: for
   every place in every case, which registers may hold an item that a destructor
   reached.
4. Proofs about `BigIntegerBuilder`: that the loops of a sum and of a product
   are exact for every width of words and every length.
