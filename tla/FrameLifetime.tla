--------------------------- MODULE FrameLifetime ---------------------------
(***************************************************************************)
(* What becomes of the items of a frame when it is called, returns, is     *)
(* replaced by a tail call, or is dropped by Clean or with the engine, and *)
(* of those the host holds (ExecutionEngine, ExecutionContextStack,        *)
(* StackItems, IStackItemCounter, HyperVM).                                *)
(*                                                                         *)
(* An item is a number, the one of its creation, and holds no other: what  *)
(* containers add is the subject of ItemLifetime.  So is a context, which  *)
(* stays in `contexts' for ever, as nothing deletes one.  Scripts and gas  *)
(* are the subject of ExecutionEngine: which instruction comes next is a   *)
(* choice.                                                                 *)
(***************************************************************************)
EXTENDS Integers, Sequences, FiniteSets, SequencesExt

CONSTANTS
  MaxItems,        \* MAX_STACK_SIZE, 2048
  MaxInvocation,   \* MAX_INVOCATION_STACK_SIZE, 1024
  Counts,          \* what scripts ask for as arguments and results, bytes
  MaxBorn,         \* bound: how many items are ever made
  MaxRefused,      \* bound: how many are refused between two Cleans
  MaxContexts,     \* bound: how many contexts are ever made
  MaxClaims        \* bound: how many claims an item has

ASSUME FramesAssumption ==
  /\ MaxItems \in Nat /\ MaxInvocation \in Nat
  /\ Counts \subseteq Nat
  /\ MaxBorn \in Nat /\ MaxRefused \in Nat /\ MaxContexts \in Nat /\ MaxClaims \in Nat

VARIABLES
  state,        \* _state, or GONE for an engine that was freed, or CRASHED
  invocation,   \* _stack of the InvocationStack, the top last
  contexts,     \* every context: its stacks and its RVCount
  result,       \* the ResultStack
  memory,       \* the claims of the items that exist, and the counter
  held,         \* the handles of the host, a bag of items
  born,         \* history: how many items were made
  survivors,    \* history: the items that existed at the last Clean
  refused,      \* history: how many were refused since
  abandoned     \* history: the contexts that were dropped with their items

vars == <<state, invocation, contexts, result, memory, held, born, survivors,
          refused, abandoned>>

----------------------------------------------------------------------------
(* Items and their counter, which items and the engine claim.              *)

Memory(claims, items, counter, misused) ==
  [claims |-> claims, items |-> items, counter |-> counter, misused |-> misused]

NewMemory == Memory(<< >>, 0, 1, FALSE)

Exists(m, i) == i \in DOMAIN m.claims

Misuse(m) == Memory(m.claims, m.items, m.counter, TRUE)

Claimed(m, i, claims) ==
  IF Exists(m, i)
  THEN Memory([m.claims EXCEPT ![i] = claims], m.items, m.counter, m.misused)
  ELSE Misuse(m)

Claim(m, i) == Claimed(m, i, m.claims[i] + 1)

UnClaim(m, i) == Claimed(m, i, m.claims[i] - 1)

Without(claims, i) == [j \in DOMAIN claims \ {i} |-> claims[j]]

(* Mutant: nothing is counted down.                                        *)
DeleteUncounted(m, i) ==
  Memory(Without(m.claims, i), m.items, m.counter - 1, m.misused \/ m.counter <= 0)

(* ~IStackItem: the last one to give up the counter deletes it, the others *)
(* count down.                                                             *)
Delete(m, i) ==
  Memory(Without(m.claims, i), IF m.counter = 1 THEN m.items ELSE m.items - 1,
         m.counter - 1, m.misused \/ m.counter <= 0)

Free(m, i) == IF Exists(m, i) /\ m.claims[i] = 0 THEN Delete(m, i) ELSE m

UnclaimAndFree(m, i) == Free(UnClaim(m, i), i)

(* StackItems::Clear, from the top: what is left after n items.            *)
Cleared(m, stack) ==
  LET after[n \in 0 .. Len(stack)] ==
        IF n = 0 THEN m ELSE UnclaimAndFree(after[n - 1], stack[Len(stack) + 1 - n])
  IN  after[Len(stack)]

(* Mutant: the counter is compared before it is increased.                 *)
RefusesLate(m) == m.items > MaxItems

(* ItemCounterInc, which keeps the item it refuses.                        *)
Refuses(m) == m.items + 1 > MaxItems

CanCreate == born < MaxBorn /\ refused < MaxRefused

(* The creators.                                                           *)
Created(m) ==
  IF Refuses(m) THEN Memory(m.claims, m.items + 1, m.counter, m.misused)
  ELSE Memory([j \in DOMAIN m.claims \cup {born + 1} |->
                 IF j = born + 1 THEN 0 ELSE m.claims[j]],
              m.items + 1, m.counter + 1, m.misused)

----------------------------------------------------------------------------
(* Frames.                                                                 *)

Frame(eval, alt, rv) == [eval |-> eval, alt |-> alt, rv |-> rv]

Init ==
  /\ state = "NONE" /\ invocation = << >> /\ contexts = << >> /\ result = << >>
  /\ memory = NewMemory /\ held = EmptyBag
  /\ born = 0 /\ survivors = {} /\ refused = 0 /\ abandoned = {}

Alive == state \notin {"GONE", "CRASHED"}

Top == Last(invocation)

Cur == contexts[Top]

Full == Len(invocation) >= MaxInvocation

(* SendTo(count), of items whose claims go with them; -1 is all.           *)
SentCount(stack, count) == IF count = -1 THEN Len(stack) ELSE count

Sent(stack, count) ==
  SubSeq(stack, Len(stack) - SentCount(stack, count) + 1, Len(stack))

Kept(stack, count) ==
  SubSeq(stack, 1, Len(stack) - SentCount(stack, count))

(* Mutant: the alt stack is forgotten.                                     *)
EmptiedOfEval(c) == Frame(<< >>, c.alt, c.rv)

(* Clear of an ExecutionContext: what it does to the frame and to memory.  *)
Emptied(c) == Frame(<< >>, << >>, c.rv)

Released(m, c) == Cleared(Cleared(m, c.eval), c.alt)

----------------------------------------------------------------------------
(* Instructions.  Execute runs one in any state.                           *)

Instruction == Alive /\ invocation # << >>

HostUnchanged == UNCHANGED <<held, survivors>>

SetFault == state' = "FAULT"

(* What a case that changes no frame but the running one leaves alone.     *)
InFrame(eval, alt) ==
  /\ contexts' = [contexts EXCEPT ![Top] = Frame(eval, alt, Cur.rv)]
  /\ HostUnchanged
  /\ UNCHANGED <<invocation, result, abandoned>>

(* Any case may fault before it has changed anything.                      *)
Fault ==
  /\ Instruction /\ SetFault
  /\ HostUnchanged
  /\ UNCHANGED <<invocation, contexts, result, memory, born, refused, abandoned>>

(* With no frame the engine halts.                                         *)
NoContext ==
  /\ Alive /\ invocation = << >> /\ state' = "HALT"
  /\ HostUnchanged
  /\ UNCHANGED <<invocation, contexts, result, memory, born, refused, abandoned>>

(* An item is made and pushed.                                             *)
PushNew ==
  /\ Instruction /\ CanCreate
  /\ IF Refuses(memory)
     THEN /\ SetFault /\ refused' = refused + 1
          /\ memory' = Created(memory) /\ InFrame(Cur.eval, Cur.alt)
          /\ UNCHANGED born
     ELSE /\ memory' = Claim(Created(memory), born + 1) /\ born' = born + 1
          /\ InFrame(Append(Cur.eval, born + 1), Cur.alt)
          /\ UNCHANGED <<state, refused>>

Dup ==
  /\ Instruction /\ Cur.eval # << >>
  /\ memory.claims[Last(Cur.eval)] < MaxClaims
  /\ memory' = Claim(memory, Last(Cur.eval))
  /\ InFrame(Append(Cur.eval, Last(Cur.eval)), Cur.alt)
  /\ UNCHANGED <<state, born, refused>>

Drop ==
  /\ Instruction /\ Cur.eval # << >>
  /\ memory' = UnclaimAndFree(memory, Last(Cur.eval))
  /\ InFrame(Front(Cur.eval), Cur.alt)
  /\ UNCHANGED <<state, born, refused>>

ToAltStack ==
  /\ Instruction /\ Cur.eval # << >>
  /\ InFrame(Front(Cur.eval), Append(Cur.alt, Last(Cur.eval)))
  /\ UNCHANGED <<state, memory, born, refused>>

FromAltStack ==
  /\ Instruction /\ Cur.alt # << >>
  /\ InFrame(Append(Cur.eval, Last(Cur.alt)), Front(Cur.alt))
  /\ UNCHANGED <<state, memory, born, refused>>

(* Mutant: contexts are numbered from 0.                                   *)
NewFromZero == Len(contexts)

(* A new context, to be pushed on the invocation stack.                    *)
New == Len(contexts) + 1

CanPush == New <= MaxContexts

Pushed(eval, rv) == Append(contexts, Frame(eval, << >>, rv))

Send(c, count) == Frame(Kept(c.eval, count), c.alt, c.rv)

(* CALL and CALL_I, whose jump may fault when the frame is there.          *)
Call(rvcount, pcount) ==
  /\ Instruction /\ CanPush /\ ~Full
  /\ pcount <= Len(Cur.eval)
  /\ contexts' = [Pushed(Sent(Cur.eval, pcount), rvcount) EXCEPT
                    ![Top] = Send(Cur, pcount)]
  /\ invocation' = Append(invocation, New)
  /\ UNCHANGED state \/ SetFault
  /\ HostUnchanged /\ UNCHANGED <<result, memory, born, refused, abandoned>>

(* The items that are sent to the frame that was loaded, and those of the  *)
(* caller, which a tail call drops and clears.                             *)
Loaded(pcount, rvcount, tail) ==
  LET sender == Send(Cur, pcount) IN
  /\ contexts' = [Pushed(Sent(Cur.eval, pcount), rvcount) EXCEPT
                    ![Top] = IF tail THEN Emptied(sender) ELSE sender]
  /\ invocation' = Append(IF tail THEN Front(invocation) ELSE invocation, New)
  /\ memory' = IF tail THEN Released(memory, sender) ELSE memory

(* CALL_E and CALL_ET; the two others differ in the hash they pop, which   *)
(* is the subject of ItemLifetime.                                         *)
CallE(rvcount, pcount, tail) ==
  /\ Instruction /\ CanPush
  /\ pcount <= Len(Cur.eval)
  /\ tail => rvcount = Cur.rv
  /\ Loaded(pcount, rvcount, tail)
  /\ HostUnchanged /\ UNCHANGED <<state, result, born, refused, abandoned>>

(* APPCALL and TAILCALL, which fault on the depth with the frame loaded.   *)
AppCall(tail) ==
  /\ Instruction /\ CanPush
  /\ IF Len(invocation) + 1 >= MaxInvocation
     THEN /\ SetFault
          /\ contexts' = Pushed(<< >>, -1)
          /\ invocation' = Append(invocation, New)
          /\ UNCHANGED memory
     ELSE Loaded(-1, -1, tail) /\ UNCHANGED state
  /\ HostUnchanged /\ UNCHANGED <<result, born, refused, abandoned>>

(* The frame is popped before its results are counted, and cleared when    *)
(* they were sent.                                                         *)
Ret ==
  /\ Instruction
  /\ invocation' = Front(invocation)
  /\ IF Cur.rv > Len(Cur.eval)
     THEN /\ SetFault /\ abandoned' = abandoned \cup {Top}
          /\ UNCHANGED <<contexts, result, memory>>
     ELSE LET sent    == Sent(Cur.eval, Cur.rv)
              sender  == Send(Cur, Cur.rv)
              dropped == [contexts EXCEPT ![Top] = Emptied(sender)]
          IN  /\ memory' = Released(memory, sender)
              /\ UNCHANGED abandoned
              /\ IF Len(invocation) = 1
                 THEN /\ state' = "HALT"
                      /\ result' = result \o sent /\ contexts' = dropped
                 ELSE /\ UNCHANGED <<state, result>>
                      /\ contexts' = [dropped EXCEPT
                                        ![Last(Front(invocation))] =
                                          Frame(@.eval \o sent, @.alt, @.rv)]
  /\ HostUnchanged /\ UNCHANGED <<born, refused>>

----------------------------------------------------------------------------
(* The host, between two instructions or in a callback from one.  It uses  *)
(* the stacks of any context it has ever seen: their addresses stay valid. *)

EngineUnchanged == UNCHANGED <<invocation, survivors, abandoned>>

LoadScript ==
  /\ Alive /\ CanPush
  /\ contexts' = Pushed(<< >>, -1)
  /\ invocation' = Append(invocation, New)
  /\ UNCHANGED <<state, result, memory, held, born, survivors, refused, abandoned>>

(* StackItem_Create claims what it made, without a look at whether it did. *)
HostCreate ==
  /\ Alive /\ CanCreate
  /\ IF Refuses(memory)
     THEN /\ state' = "CRASHED" /\ refused' = refused + 1
          /\ memory' = Created(memory) /\ UNCHANGED <<held, born>>
     ELSE /\ memory' = Claim(Created(memory), born + 1) /\ born' = born + 1
          /\ held' = held (+) SetToBag({born + 1})
          /\ UNCHANGED <<state, refused>>
  /\ EngineUnchanged /\ UNCHANGED <<contexts, result>>

(* The stacks whose addresses the host has.                                *)
Place == {<<0, "result">>} \cup ((DOMAIN contexts) \X {"eval", "alt"})

At(place) ==
  IF place[1] = 0 THEN result
  ELSE IF place[2] = "eval" THEN contexts[place[1]].eval ELSE contexts[place[1]].alt

Store(place, stack) ==
  IF place[1] = 0 THEN result' = stack /\ UNCHANGED contexts
  ELSE LET c == contexts[place[1]] IN
       /\ contexts' = [contexts EXCEPT
                        ![place[1]] = IF place[2] = "eval" THEN Frame(stack, c.alt, c.rv)
                                                          ELSE Frame(c.eval, stack, c.rv)]
       /\ UNCHANGED result

(* Mutant: it takes over the claim of the stack, which Pop has given up.   *)
NotClaimed(m, i) == m

(* The C# host claims an item as soon as it has its address.               *)
Adopted(m, i) == Claim(m, i)

HostPop(place) ==
  /\ Alive /\ At(place) # << >>
  /\ LET i == Last(At(place)) IN
     /\ memory' = Adopted(UnClaim(memory, i), i)
     /\ held' = held (+) SetToBag({i})
  /\ Store(place, Front(At(place)))
  /\ EngineUnchanged /\ UNCHANGED <<state, born, refused>>

HostPeek(place) ==
  /\ Alive
  /\ \E x \in DOMAIN At(place) :
       LET i == At(place)[x] IN
       /\ memory.claims[i] < MaxClaims
       /\ memory' = Adopted(memory, i)
       /\ held' = held (+) SetToBag({i})
  /\ EngineUnchanged /\ UNCHANGED <<state, contexts, result, born, refused>>

HostPush(place) ==
  /\ Alive
  /\ \E i \in BagToSet(held) :
       /\ memory.claims[i] < MaxClaims
       /\ memory' = Claim(memory, i)
       /\ Store(place, Append(At(place), i))
  /\ abandoned' = abandoned \cup ({place[1]} \ (ToSet(invocation) \cup {0}))
  /\ UNCHANGED <<state, invocation, held, born, survivors, refused>>

HostDrop(place) ==
  /\ Alive
  /\ \E count \in 1 .. Len(At(place)) :
       /\ memory' = Cleared(memory, Sent(At(place), count))
       /\ Store(place, Kept(At(place), count))
  /\ EngineUnchanged /\ UNCHANGED <<state, held, born, refused>>

(* StackItem_Free, which needs no engine.                                  *)
HostFree ==
  /\ state # "CRASHED"
  /\ \E i \in BagToSet(held) :
       /\ memory' = UnclaimAndFree(memory, i)
       /\ held' = held (-) SetToBag({i})
  /\ EngineUnchanged /\ UNCHANGED <<state, contexts, result, born, refused>>

(* The frames are forgotten, not cleared; the items left are not counted.  *)
Clean ==
  /\ Alive
  /\ state' = "NONE" /\ invocation' = << >> /\ result' = << >>
  /\ LET m == Cleared(memory, result) IN
     /\ memory' = Memory(m.claims, 0, m.counter, m.misused)
     /\ survivors' = DOMAIN m.claims
  /\ refused' = 0 /\ abandoned' = abandoned \cup ToSet(invocation)
  /\ UNCHANGED <<contexts, held, born>>

(* Mutant: the engine deletes the counter it made.                         *)
DeleteCounter(m) == Memory(m.claims, m.items, 0, m.misused)

(* The engine gives up the counter first, which the last item deletes.     *)
UnClaimCounter(m) == Memory(m.claims, m.items, m.counter - 1, m.misused)

(* The contexts to delete are looked up on _stack, which was cleared: none.*)
EngineFree ==
  /\ Alive
  /\ state' = "GONE" /\ invocation' = << >> /\ result' = << >>
  /\ memory' = Cleared(UnClaimCounter(memory), result)
  /\ abandoned' = abandoned \cup ToSet(invocation)
  /\ UNCHANGED <<contexts, held, born, survivors, refused>>

----------------------------------------------------------------------------
(* The engine goes on, or the host does something.                         *)
InternalStepInto ==
  \/ NoContext \/ Fault \/ PushNew \/ Dup \/ Drop \/ ToAltStack \/ FromAltStack \/ Ret
  \/ Call(-1, -1)
  \/ \E rvcount, pcount \in Counts : Call(rvcount, pcount)
  \/ \E rvcount, pcount \in Counts, tail \in BOOLEAN : CallE(rvcount, pcount, tail)
  \/ \E tail \in BOOLEAN : AppCall(tail)

Host ==
  \/ LoadScript \/ HostCreate \/ HostFree \/ Clean \/ EngineFree
  \/ \E place \in Place :
       HostPop(place) \/ HostPeek(place) \/ HostPush(place) \/ HostDrop(place)

Next == InternalStepInto \/ Host

Spec == Init /\ [][Next]_vars

----------------------------------------------------------------------------
(* Properties.                                                             *)

Live == DOMAIN memory.claims

Handles(i) == IF BagIn(i, held) THEN held[i] ELSE 0

Places(i) ==
  UNION {{place} \X {x \in DOMAIN At(place) : At(place)[x] = i} : place \in Place}

References(i) == Handles(i) + Cardinality(Places(i))

FramesTypeOK ==
  /\ state \in {"NONE", "HALT", "FAULT", "GONE", "CRASHED"}
  /\ IsInjective(invocation) /\ ToSet(invocation) \subseteq DOMAIN contexts
  /\ \A c \in DOMAIN contexts : contexts[c].rv \in Nat \cup {-1}
  /\ Live \subseteq 1 .. born /\ survivors \subseteq 1 .. born
  /\ memory.items \in Int /\ memory.counter \in Int
  /\ abandoned \subseteq DOMAIN contexts

(* Claims move with the items from frame to frame: at every moment an item *)
(* has as many as there are places in stacks, of dropped frames too, and   *)
(* handles of the host that hold it, and it exists while there is one.     *)
ClaimsAreHeld ==
  /\ \A i \in Live : memory.claims[i] = References(i) /\ References(i) > 0
  /\ \A i \in 1 .. born \ Live : References(i) = 0

(* A frame that left the invocation stack holds nothing, whether it        *)
(* returned or a tail call replaced it, unless RET found too few results,  *)
(* Clean or the destructor dropped it, or the host pushed to it since.     *)
LeaksAreNamed ==
  \A c \in DOMAIN contexts \ (ToSet(invocation) \cup abandoned) :
    contexts[c].eval = << >> /\ contexts[c].alt = << >>

(* The counter is what was made since the last Clean and still exists, and *)
(* what was refused, less the older items that were deleted since: a host  *)
(* that frees what it got before a Clean raises the limit.                 *)
CountedSinceClean ==
  memory.counter > 0 =>
    memory.items = Cardinality(Live \ survivors) + refused
                     - Cardinality(survivors \ Live)

(* There are never more items than the limit, but for those that survived  *)
(* the last Clean.                                                         *)
LimitHolds == Cardinality(Live) <= MaxItems + Cardinality(survivors)

(* The counter lives as long as the engine or an item that uses it, and is *)
(* deleted once, by the last of them: items of the host outlive the engine.*)
CounterOutlivesItems ==
  /\ ~memory.misused
  /\ memory.counter = (IF state = "GONE" THEN 0 ELSE 1) + Cardinality(Live)
=============================================================================
