------------------------- MODULE ItemLifetimeSafety -------------------------
(***************************************************************************)
(* That the claims of items are the references to them, for all limits,    *)
(* any number of addresses and any order of the instructions that a        *)
(* script can run, but for CALL_ED.                                        *)
(***************************************************************************)
EXTENDS ItemLifetimeProofs

----------------------------------------------------------------------------
(* The claims of each item are the references to it.                       *)

(* Where references are: in items, in the evaluation and in the alt stack. *)
Spots == ItemId \cup {0, -1}

ViewOf(h, st) ==
  [p \in Spots |-> IF p = 0 THEN st.eval ELSE IF p = -1 THEN st.alt ELSE Elems(h, p)]

Balances(h, F) == \A v \in ItemId : Held(h, v) = Total(F, v)

Balanced(h, st) == Balances(h, ViewOf(h, st))

(* The claims in g are those in h, but for a list that went and one that   *)
(* came.                                                                   *)
Passes(g, h, gone, come) ==
  \A v \in ItemId : Held(g, v) + Count(gone, v) = Held(h, v) + Count(come, v)

OtherStack(st, su, s) == \A t \in StackName \ {s} : su[t] = st[t]

(* The spots are finitely many, and the view has a list at each.           *)
LEMMA ViewType ==
  ASSUME NEW h, HeapOK(h), NEW st \in StackType
  PROVE  /\ ViewOf(h, st) \in Families(Spots, ItemId) /\ IsFiniteSet(Spots)
         /\ 0 \in Spots /\ -1 \in Spots
         /\ ViewOf(h, st)[0] = st.eval /\ ViewOf(h, st)[-1] = st.alt
         /\ \A p \in ItemId : /\ p \in Spots /\ p # 0 /\ p # -1
                              /\ ViewOf(h, st)[p] = Elems(h, p)
<1>1. \A p \in ItemId : p \in Spots /\ p # 0 /\ p # -1
  BY LifetimeAssumption DEF Spots
<1>2. IsFiniteSet(Spots)
  <2>1. IsFiniteSet({0, -1}) /\ IsFiniteSet(ItemId)
    <3>1. IsFiniteSet({0}) /\ {0, -1} = {0} \cup {-1}
      BY FS_Singleton
    <3> QED
      BY <3>1, LifetimeAssumption, FS_AddElement
  <2> QED
    BY <2>1, FS_Union DEF Spots
<1>3. 0 \in Spots /\ -1 \in Spots /\ 0 # -1
  BY DEF Spots
<1>4. st.eval \in Seq(ItemId) /\ st.alt \in Seq(ItemId)
  BY DEF StackType
<1>5. \A p : Elems(h, p) \in Seq(ItemId)
  BY HeldType
<1>6. ViewOf(h, st) \in Families(Spots, ItemId)
  BY <1>4, <1>5 DEF ViewOf, Families
<1> QED
  BY <1>1, <1>2, <1>3, <1>6 DEF ViewOf

(* References that move in one list, and claims that move with them.       *)
LEMMA BalanceMoves ==
  ASSUME NEW g, NEW h, HeapOK(g), HeapOK(h), IsFiniteSet(Spots),
         NEW F \in Families(Spots, ItemId), NEW G \in Families(Spots, ItemId),
         NEW p \in Spots, Agree(Spots \ {p}, F, G),
         Balances(h, F), Passes(g, h, F[p], G[p])
  PROVE  Balances(g, G)
<1> SUFFICES ASSUME NEW v \in ItemId
             PROVE  Held(g, v) = Total(G, v)
  BY DEF Balances
<1>1. /\ Total(G, v) + Count(F[p], v) = Total(F, v) + Count(G[p], v)
      /\ Total(F, v) \in Nat /\ Total(G, v) \in Nat
      /\ Count(F[p], v) \in Nat /\ Count(G[p], v) \in Nat
  BY TotalChanged
<1>2. /\ Held(h, v) = Total(F, v)
      /\ Held(g, v) + Count(F[p], v) = Held(h, v) + Count(G[p], v)
  BY DEF Balances, Passes
<1>3. Held(g, v) \in Int /\ Held(h, v) \in Int
  BY HeldType
<1> QED
  BY <1>1, <1>2, <1>3

(* They move in the list of one item.                                      *)
LEMMA KidsMove ==
  ASSUME NEW g, NEW h, HeapOK(g), HeapOK(h), NEW st \in StackType, NEW i \in ItemId,
         OthersAlike(g, h, i), Passes(g, h, Elems(h, i), Elems(g, i)), Balanced(h, st)
  PROVE  Balanced(g, st)
<1> DEFINE F == ViewOf(h, st)
           G == ViewOf(g, st)
<1>1. /\ F \in Families(Spots, ItemId) /\ IsFiniteSet(Spots)
      /\ G \in Families(Spots, ItemId) /\ i \in Spots
      /\ F[i] = Elems(h, i) /\ G[i] = Elems(g, i)
  BY ViewType
<1>2. Agree(Spots \ {i}, F, G)
  <2>1. F[0] = G[0] /\ F[-1] = G[-1] /\ \A p \in ItemId \ {i} : F[p] = G[p]
    BY ViewType DEF OthersAlike
  <2> QED
    BY <2>1 DEF Agree, Spots
<1>3. Balances(h, F) /\ Passes(g, h, F[i], G[i])
  BY <1>1 DEF Balanced
<1> HIDE DEF F, G
<1>4. Balances(g, G)
  BY <1>1, <1>2, <1>3, BalanceMoves
<1> QED
  BY <1>4 DEF Balanced, G

(* They move in one stack.                                                 *)
LEMMA StackMove ==
  ASSUME NEW g, NEW h, HeapOK(g), HeapOK(h), NEW st \in StackType, NEW su \in StackType,
         NEW s \in StackName, OtherStack(st, su, s), SameKids(g, h),
         Passes(g, h, st[s], su[s]), Balanced(h, st)
  PROVE  Balanced(g, su)
<1> DEFINE F == ViewOf(h, st)
           G == ViewOf(g, su)
           p == IF s = "eval" THEN 0 ELSE -1
<1>1. /\ F \in Families(Spots, ItemId) /\ IsFiniteSet(Spots)
      /\ G \in Families(Spots, ItemId) /\ p \in Spots
  BY ViewType
<1>2. F[p] = st[s] /\ G[p] = su[s]
  BY ViewType DEF StackName
<1>3. \A q \in ItemId : F[q] = G[q]
  BY ViewType DEF SameKids
<1>4. Agree(Spots \ {p}, F, G)
  <2>1. CASE s = "eval"
    <3>1. F[-1] = G[-1]
      BY <2>1, ViewType DEF OtherStack, StackName
    <3> QED
      BY <1>3, <2>1, <3>1 DEF Agree, Spots
  <2>2. CASE s = "alt"
    <3>1. F[0] = G[0]
      BY <2>2, ViewType DEF OtherStack, StackName
    <3> QED
      BY <1>3, <2>2, <3>1 DEF Agree, Spots
  <2> QED
    BY <2>1, <2>2 DEF StackName
<1>5. Balances(h, F) /\ Passes(g, h, F[p], G[p])
  BY <1>2 DEF Balanced
<1> HIDE DEF F, G, p
<1>6. Balances(g, G)
  BY <1>1, <1>4, <1>5, BalanceMoves
<1> QED
  BY <1>6 DEF Balanced, G

(* Nothing moves.                                                          *)
LEMMA NothingMoves ==
  ASSUME NEW g, NEW h, NEW st, \A v : Elems(g, v) = Elems(h, v) /\ Held(g, v) = Held(h, v),
         Balanced(h, st)
  PROVE  Balanced(g, st)
<1>1. ViewOf(g, st) = ViewOf(h, st)
  BY DEF ViewOf
<1> QED
  BY <1>1 DEF Balanced, Balances

(* An item has at least as many claims as it has places in one list.       *)
LEMMA KidsAreClaimed ==
  ASSUME NEW h, HeapOK(h), NEW st \in StackType, Balanced(h, st),
         NEW i \in ItemId, NEW v \in ItemId
  PROVE  /\ Count(Elems(h, i), v) \in Nat /\ Count(Elems(h, i), v) <= Held(h, v)
         /\ Count(Elems(h, i), v) > 0 => v \in DOMAIN h
<1> DEFINE F == ViewOf(h, st)
<1>1. F \in Families(Spots, ItemId) /\ IsFiniteSet(Spots) /\ i \in Spots
      /\ F[i] = Elems(h, i)
  BY ViewType
<1>2. Held(h, v) = Total(F, v)
  BY DEF Balanced, Balances
<1> HIDE DEF F
<1>3. /\ Cardinality(Others(F, i, v)) \in Nat /\ Total(F, v) \in Nat
      /\ Total(F, v) = Cardinality(Others(F, i, v)) + Count(F[i], v)
  BY <1>1, TotalSplit
<1>4. Elems(h, i) \in Seq(ItemId)
  BY HeldType
<1>5. Count(Elems(h, i), v) \in Nat
  BY <1>4, CountType
<1>6. Count(Elems(h, i), v) <= Held(h, v)
  BY <1>1, <1>2, <1>3, <1>5
<1>7. v \notin DOMAIN h => Held(h, v) = 0
  BY DEF Held
<1> QED
  BY <1>5, <1>6, <1>7

(* What is in a list occurs in it.                                         *)
LEMMA PresentCount ==
  ASSUME NEW S, NEW s \in Seq(S), NEW k \in 1 .. Len(s)
  PROVE  Count(s, s[k]) \in Nat /\ Count(s, s[k]) > 0
<1>1. k \in Where(s, s[k])
  BY LenProperties DEF Where
<1> QED
  BY <1>1, CountType

(* A claim for each place in a list of items that exist.                   *)
LEMMA ClaimList ==
  ASSUME NEW h, HeapOK(h), NEW list \in Seq(ItemId),
         \A v \in ItemId : v \notin DOMAIN h => Count(list, v) = 0
  PROVE  /\ HeapOK(ClaimAll(h, list)) /\ SameKids(ClaimAll(h, list), h)
         /\ DOMAIN ClaimAll(h, list) = DOMAIN h
         /\ \A v \in ItemId :
              Held(ClaimAll(h, list), v) = Held(h, v) + Count(list, v)
<1>1. /\ HeapOK(ClaimAll(h, list)) /\ DOMAIN ClaimAll(h, list) = DOMAIN h
      /\ SameKids(ClaimAll(h, list), h)
      /\ \A v \in DOMAIN h : Held(ClaimAll(h, list), v) = Held(h, v) + Count(list, v)
  BY ClaimAllHeap
<1>2. \A v \in ItemId : v \notin DOMAIN h =>
        Held(ClaimAll(h, list), v) = Held(h, v) + Count(list, v)
  <2> TAKE v \in ItemId
  <2> HAVE v \notin DOMAIN h
  <2>1. Held(ClaimAll(h, list), v) = 0 /\ Held(h, v) = 0
    BY <1>1 DEF Held
  <2> QED
    BY <2>1
<1> QED
  BY <1>1, <1>2

(* A claim on an item adds one to what the heap holds of it.               *)
LEMMA ClaimOne ==
  ASSUME NEW h, HeapOK(h), NEW i \in DOMAIN h
  PROVE  /\ HeapOK(ClaimAll(h, <<i>>)) /\ SameKids(ClaimAll(h, <<i>>), h)
         /\ DOMAIN ClaimAll(h, <<i>>) = DOMAIN h
         /\ \A v \in ItemId : Held(ClaimAll(h, <<i>>), v) = Held(h, v) + One(i, v)
<1> DEFINE one == <<i>>
<1>1. i \in ItemId
  BY DEF HeapOK
<1>2. one \in Seq(ItemId) /\ \A v : Count(one, v) = One(i, v)
  BY <1>1, OneItem
<1>3. \A v \in ItemId : v \notin DOMAIN h => One(i, v) = 0
  BY DEF One
<1> HIDE DEF one
<1>4. \A v \in ItemId : v \notin DOMAIN h => Count(one, v) = 0
  BY <1>2, <1>3
<1>5. /\ HeapOK(ClaimAll(h, one)) /\ SameKids(ClaimAll(h, one), h)
      /\ DOMAIN ClaimAll(h, one) = DOMAIN h
      /\ \A v \in ItemId : Held(ClaimAll(h, one), v) = Held(h, v) + Count(one, v)
  BY <1>2, <1>4, ClaimList
<1> QED
  BY <1>2, <1>5 DEF one

----------------------------------------------------------------------------
(* The invariant.  While an element is about to be stored, the heap is     *)
(* looked at as if it was; while DROP holds what it took, as if it was in  *)
(* its place.                                                              *)

Pending == IF Step.op = "store" THEN Stored ELSE RemoveAt(Elements, Step.index)

Settled == IF Storing THEN Holding(heap, In, Pending) ELSE heap

Stacked ==
  IF todo = Discarding THEN [eval |-> Append(stack.eval, reg["x1"]), alt |-> stack.alt]
  ELSE stack

(* The place is one of the list, and DROP took an item.                    *)
Tidy == (Storing => InBounds) /\ (todo = Discarding => reg["x1"] \in ItemId)

(* Nobody claims an item whose destructor runs.                            *)
Doom == \A i \in Range(doomed) : Held(heap, i) = 0

(* A deleted item was used, or is the next one to be.                      *)
Lost == misused \/ (Storing /\ (In \notin Live \/ In \in Range(doomed)))

Sound == Lost \/ (Balanced(Settled, Stacked) /\ Doom /\ Tidy)

(* The next step is not one of those.                                      *)
Idle(program) ==
  program # << >> => Head(program).op \notin {"store", "mapStore", "release"}

(* A program of a case neither waits to store an element nor is about to   *)
(* release what DROP took.                                                 *)
LEMMA WorkIsIdle ==
  ASSUME "CALL_ED" \notin Opcodes
  PROVE  \A program \in Work \cup {Drop, Unstacking} : Idle(program)
<1>1. ASSUME NEW program \in Work
      PROVE  Idle(program)
  <2>1. CASE program # << >>
    <3>1. Head(program) \in Steps \cup CopySteps
      BY <2>1 DEF Work
    <3>2. CASE Head(program) \in CopySteps
      <4>1. \A s \in CopySteps : s.op = "copy"
        BY DEF CopySteps, Copy
      <4> QED
        BY <3>2, <4>1 DEF Idle
    <3>3. CASE Head(program) \in Steps
      <4>1. Formed(Head(program)) /\ "release" # "store"
        BY <3>3, StepsAreFormed
      <4>2. Head(program).op \notin {"store", "mapStore", "release"}
        BY <4>1 DEF Formed, Static
      <4> QED
        BY <4>2 DEF Idle
    <3> QED
      BY <3>1, <3>2, <3>3
  <2> QED
    BY <2>1 DEF Idle
<1>2. Idle(Drop) /\ Idle(Unstacking)
  BY DEF Idle, Drop, Unstacking, Need, Unstack
<1> QED
  BY <1>1, <1>2

(* Nothing is pending then.                                                *)
LEMMA IdleNow ==
  ASSUME Idle(todo)
  PROVE  ~Storing /\ todo # Discarding
BY DEF Idle, Storing, Discarding, UnclaimAndFree, Step

(* And nothing after the step.                                             *)
LEMMA IdleThen ==
  ASSUME Idle(todo')
  PROVE  ~Storing' /\ todo' # Discarding
BY DEF Idle, Storing, Discarding, UnclaimAndFree, Step

(* What the invariant says before and after an ordinary step.              *)
LEMMA SoundNow ==
  ASSUME Sound, Idle(todo), ~misused
  PROVE  Balanced(heap, stack) /\ Doom
BY IdleNow DEF Sound, Lost, Settled, Stacked

(* After a step that leaves nothing pending, soundness is balance and the  *)
(* destructors' stack.                                                     *)
LEMMA SoundThen ==
  ASSUME Idle(todo'), ~misused => (Balanced(heap', stack') /\ Doom'),
         UNCHANGED misused
  PROVE  Sound'
BY IdleThen DEF Sound, Lost, Settled, Stacked, Tidy

(* Nothing is deleted.                                                     *)
LEMMA NoDoom == doomed' = << >> => Doom'
BY DEF Doom, Range

(* A step that goes on with a program and deletes nothing has to balance.  *)
LEMMA ProceedsSound ==
  ASSUME "CALL_ED" \notin Opcodes, Proceeds, UNCHANGED misused,
         ~misused => Balanced(heap', stack')
  PROVE  Sound'
BY WorkIsIdle, NoDoom, SoundThen DEF Proceeds

(* The heap and the stack stay as they are.                                *)
LEMMA SameSound ==
  ASSUME "CALL_ED" \notin Opcodes, Sound, Idle(todo), UNCHANGED <<heap, stack, misused>>,
         todo' \in Work \cup {Drop, Unstacking}, doomed' = << >>
  PROVE  Sound'
BY WorkIsIdle, NoDoom, SoundNow, SoundThen

(* Fetch preserves Sound.                                                  *)
LEMMA FetchSound ==
  ASSUME "CALL_ED" \notin Opcodes, Types, Sound, Fetch
  PROVE  Sound'
<1>1. todo = << >> /\ UNCHANGED <<heap, stack, misused>>
  BY DEF Fetch
<1> QED
  BY <1>1, FetchTypes, SameSound DEF Idle

(* After a use of a deleted item nothing is said.                          *)
LEMMA UseAfterFreeSound ==
  ASSUME UseAfterFree
  PROVE  Sound'
BY DEF UseAfterFree, Sound, Lost

(* Branches, reads and faults touch neither claims nor places.             *)
LEMMA ControlSound ==
  ASSUME "CALL_ED" \notin Opcodes, Types, Sound, Control \/ SetFault \/ NeedItems
  PROVE  Sound'
<1>1. Idle(todo) /\ UNCHANGED <<heap, stack, misused>>
  BY DEF Control, SetFault, NeedItems, Does, Idle, Step
<1>2. todo' \in Work \cup {Drop, Unstacking} /\ doomed' = << >>
  BY ControlTypes, SetFaultTypes, NeedItemsTypes DEF Proceeds
<1> QED
  BY <1>1, <1>2, SameSound

(* Nor do the steps that only read items.                                  *)
LEMMA ReadingSound ==
  ASSUME "CALL_ED" \notin Opcodes, Types, Sound,
         PeekItem \/ FreeThree \/ GetElement \/ GetValue \/ FillArray
  PROVE  Sound'
<1>1. Idle(todo) /\ UNCHANGED <<heap, stack, misused>>
  BY DEF PeekItem, FreeThree, GetElement, GetValue, FillArray, Does, Idle, Step
<1>2. todo' \in Work \cup {Drop, Unstacking} /\ doomed' = << >>
  BY PeekItemTypes, FreeThreeTypes, GetElementTypes, GetValueTypes, FillArrayTypes
     DEF Proceeds
<1> QED
  BY <1>1, <1>2, SameSound

(* Free starts a destructor only for an item without claims, which has no  *)
(* place.                                                                  *)
LEMMA FreeSound ==
  ASSUME "CALL_ED" \notin Opcodes, Types, Sound, FreeOne \/ FreeTwo
  PROVE  Sound'
<1>1. /\ todo # << >> /\ Step.op \in {"free", "free2"} /\ Touched \subseteq Live
      /\ UNCHANGED <<heap, stack, misused>>
  BY DEF FreeOne, FreeTwo, Does, Defined
<1>2. Idle(todo)
  BY <1>1 DEF Idle, Step
<1>3. todo' \in Work /\ (doomed' = << >> \/ (doomed' = <<reg[Step.item]>> /\ Unclaimed(Step.item)))
  BY FreeOneTypes, FreeTwoTypes DEF Freed
<1>4. Doom'
  <2>1. CASE doomed' = << >>
    BY <2>1, NoDoom
  <2>2. CASE doomed' = <<reg[Step.item]>> /\ Unclaimed(Step.item)
    <3>1. Range(doomed') = {reg[Step.item]}
      BY <2>2 DEF Range
    <3>2. Held(heap, reg[Step.item]) = 0
      BY <2>2 DEF Held, Unclaimed, Live
    <3> QED
      BY <1>1, <3>1, <3>2 DEF Doom
  <2> QED
    BY <1>3, <2>1, <2>2
<1> QED
  BY <1>1, <1>2, <1>3, <1>4, WorkIsIdle, SoundNow, SoundThen

(* One claim less, and one place less in a list.                           *)
LEMMA PassesOut ==
  ASSUME NEW g, NEW h, NEW a \in Seq(ItemId), NEW b \in Seq(ItemId), NEW i, HeapOK(h),
         \A v \in ItemId : Held(g, v) = Held(h, v) - One(i, v),
         \A v : Count(b, v) = Count(a, v) - One(i, v)
  PROVE  Passes(g, h, a, b)
<1> SUFFICES ASSUME NEW v \in ItemId
             PROVE  Held(g, v) + Count(a, v) = Held(h, v) + Count(b, v)
  BY DEF Passes
<1>1. Held(h, v) \in Int /\ Count(a, v) \in Nat /\ One(i, v) \in Nat
  BY HeldType, CountType DEF One
<1> QED
  BY <1>1

(* One claim more, and one place more.                                     *)
LEMMA PassesIn ==
  ASSUME NEW g, NEW h, NEW a \in Seq(ItemId), NEW b \in Seq(ItemId), NEW i, HeapOK(h),
         \A v \in ItemId : Held(g, v) = Held(h, v) + One(i, v),
         \A v : Count(b, v) = Count(a, v) + One(i, v)
  PROVE  Passes(g, h, a, b)
<1> SUFFICES ASSUME NEW v \in ItemId
             PROVE  Held(g, v) + Count(a, v) = Held(h, v) + Count(b, v)
  BY DEF Passes
<1>1. Held(h, v) \in Int /\ Count(a, v) \in Nat /\ One(i, v) \in Nat
  BY HeldType, CountType DEF One
<1> QED
  BY <1>1

(* A list in the place of another on a stack.                              *)
LEMMA StackChanged ==
  ASSUME NEW st \in StackType, NEW s \in StackName, NEW l \in Seq(ItemId)
  PROVE  /\ [st EXCEPT ![s] = l] \in StackType /\ [st EXCEPT ![s] = l][s] = l
         /\ OtherStack(st, [st EXCEPT ![s] = l], s)
BY StackLists DEF OtherStack

(* Pop and Remove give up the place and its claim together.                *)
LEMMA TakeItemSound ==
  ASSUME "CALL_ED" \notin Opcodes, Types, Sound, TakeItem
  PROVE  Sound'
<1> DEFINE s == Step.stack
           index == Index(Step.index)
           i == At(s, index)
           k == Len(stack[s]) - index
           l == RemoveAt(stack[s], k)
           su == [stack EXCEPT ![s] = l]
<1>1. /\ todo # << >> /\ Step.op = "take" /\ Defined /\ UNCHANGED misused
      /\ stack' = su /\ heap' = UnClaim(heap, i)
  BY DEF TakeItem, Does
<1>2. Idle(todo) /\ Proceeds
  BY <1>1, TakeItemTypes DEF Idle, Step
<1>3. s \in StackName /\ index \in 0 .. (Len(stack[s]) - 1)
  BY <1>1, FirstStep DEF Types, Formed, Operands, Defined, InBounds
<1>4. k \in 1 .. Len(stack[s]) /\ i = stack[s][k] /\ i \in Live
  BY <1>1, <1>3, AtType DEF Types, Defined, Touched
<1>5. stack \in StackType /\ stack[s] \in Seq(ItemId) /\ HeapOK(heap) /\ DOMAIN heap = Live
  BY <1>3, StackLists, MemoryHeap DEF Types, Memory, StackType
<1> HIDE DEF s, index, i, k
<1>6. l \in Seq(ItemId) /\ \A v : Count(l, v) = Count(stack[s], v) - One(i, v)
  <2>1. ASSUME NEW v
        PROVE  l \in Seq(ItemId) /\ Count(l, v) = Count(stack[s], v) - One(stack[s][k], v)
    BY <1>4, <1>5, CountRemoveAt
  <2> QED
    BY <2>1, <1>4
<1> HIDE DEF l
<1>7. su \in StackType /\ su[s] = l /\ OtherStack(stack, su, s)
  BY <1>3, <1>5, <1>6, StackChanged
<1> HIDE DEF su
<1>8. /\ HeapOK(heap') /\ SameKids(heap', heap)
      /\ \A v : Held(heap', v) = Held(heap, v) - One(i, v)
  BY <1>1, <1>4, <1>5, UnClaimHeap
<1>9. Passes(heap', heap, stack[s], su[s])
  BY <1>5, <1>6, <1>7, <1>8, PassesOut
<1>10. ~misused => Balanced(heap', stack')
  BY <1>1, <1>2, <1>3, <1>5, <1>7, <1>8, <1>9, SoundNow, StackMove
<1> QED
  BY <1>1, <1>2, <1>10, ProceedsSound

(* Push and Insert add a place and its claim together.                     *)
LEMMA InsertItemSound ==
  ASSUME "CALL_ED" \notin Opcodes, Types, Sound, InsertItem
  PROVE  Sound'
<1> DEFINE s == Step.stack
           i == reg[Step.item]
           k == Len(stack[s]) - Index(Step.index) + 1
           l == InsertAt(stack[s], k, i)
           su == [stack EXCEPT ![s] = l]
<1>1. /\ todo # << >> /\ Step.op = "insert" /\ Defined /\ UNCHANGED misused
      /\ stack' = su /\ heap' = ClaimAll(heap, <<i>>)
  BY DEF InsertItem, Does
<1>2. Idle(todo) /\ Proceeds
  BY <1>1, InsertItemTypes DEF Idle, Step
<1>3. /\ s \in StackName /\ Index(Step.index) \in 0 .. Len(stack[s])
      /\ Step.uses = {Step.item}
  BY <1>1, FirstStep DEF Types, Formed, Operands, Defined, InBounds
<1>4. stack \in StackType /\ stack[s] \in Seq(ItemId) /\ HeapOK(heap) /\ DOMAIN heap = Live
  BY <1>3, StackLists, MemoryHeap DEF Types, Memory, StackType
<1>5. k \in 1 .. Len(stack[s]) + 1
  BY <1>3, <1>4, LenProperties
<1>6. i \in Live /\ i \in ItemId
  BY <1>1, <1>3, UsedIsLive DEF Types, Memory
<1> HIDE DEF s, i, k
<1>7. l \in Seq(ItemId) /\ \A v : Count(l, v) = Count(stack[s], v) + One(i, v)
  BY <1>4, <1>5, <1>6, CountInsertAt
<1> HIDE DEF l
<1>8. su \in StackType /\ su[s] = l /\ OtherStack(stack, su, s)
  BY <1>3, <1>4, <1>7, StackChanged
<1> HIDE DEF su
<1>9. /\ HeapOK(heap') /\ SameKids(heap', heap)
      /\ \A v \in ItemId : Held(heap', v) = Held(heap, v) + One(i, v)
  BY <1>1, <1>4, <1>6, ClaimOne
<1>10. Passes(heap', heap, stack[s], su[s])
  BY <1>4, <1>7, <1>8, <1>9, PassesIn
<1>11. ~misused => Balanced(heap', stack')
  BY <1>1, <1>2, <1>3, <1>4, <1>8, <1>9, <1>10, SoundNow, StackMove
<1> QED
  BY <1>1, <1>2, <1>11, ProceedsSound

(* UNPACK claims each element as often as it pushes it.                    *)
LEMMA PushElementsSound ==
  ASSUME "CALL_ED" \notin Opcodes, Types, Sound, PushElements
  PROVE  Sound'
<1> DEFINE i == reg[Step.in]
           kids == heap[i].kids
           l == stack["eval"] \o Reverse(kids)
           su == [stack EXCEPT !["eval"] = l]
<1>1. /\ todo # << >> /\ Step.op = "pushAll" /\ Defined /\ UNCHANGED misused
      /\ stack' = su /\ heap' = ClaimAll(heap, kids)
  BY DEF PushElements, Does
<1>2. Idle(todo) /\ Proceeds
  BY <1>1, PushElementsTypes DEF Idle, Step
<1> SUFFICES ASSUME ~misused
             PROVE  Balanced(heap', stack')
  BY <1>1, <1>2, ProceedsSound
<1>3. Balanced(heap, stack)
  BY <1>2, SoundNow
<1>4. i \in Live
  BY <1>1, FirstStep, UsedIsLive DEF Types, Formed, Operands
<1>5. /\ "eval" \in StackName /\ stack \in StackType /\ stack["eval"] \in Seq(ItemId)
      /\ HeapOK(heap) /\ DOMAIN heap = Live
  BY MemoryHeap, StackLists DEF Types, Memory, StackType, StackName
<1>6. kids \in Seq(ItemId) /\ i \in ItemId /\ kids = Elems(heap, i)
  BY <1>4, <1>5, ItemFields DEF Elems
<1> HIDE DEF i, kids
<1>7. \A v \in ItemId : v \notin DOMAIN heap => Count(kids, v) = 0
  BY <1>3, <1>5, <1>6, KidsAreClaimed
<1>8. /\ HeapOK(heap') /\ SameKids(heap', heap)
      /\ \A v \in ItemId : Held(heap', v) = Held(heap, v) + Count(kids, v)
  BY <1>1, <1>5, <1>6, <1>7, ClaimList
<1>9. l \in Seq(ItemId) /\ \A v : Count(l, v) = Count(stack["eval"], v) + Count(kids, v)
  <2>1. Reverse(kids) \in Seq(ItemId) /\ \A v : Count(Reverse(kids), v) = Count(kids, v)
    BY <1>6, CountReverse
  <2> QED
    BY <1>5, <2>1, CountConcat, ConcatProperties
<1> HIDE DEF l
<1>10. su \in StackType /\ su["eval"] = l /\ OtherStack(stack, su, "eval")
  BY <1>5, <1>9, StackChanged
<1>11. Passes(heap', heap, stack["eval"], su["eval"])
  <2> SUFFICES ASSUME NEW v \in ItemId
               PROVE  Held(heap', v) + Count(stack["eval"], v)
                        = Held(heap, v) + Count(su["eval"], v)
    BY DEF Passes
  <2>1. Held(heap, v) \in Int /\ Count(kids, v) \in Nat /\ Count(stack["eval"], v) \in Nat
    BY <1>5, <1>6, HeldType, CountType
  <2> QED
    BY <1>8, <1>9, <1>10, <2>1
<1> HIDE DEF su
<1> QED
  BY <1>1, <1>3, <1>5, <1>8, <1>10, <1>11, StackMove

(* DROP takes the item from the top, with its claim.                       *)
LEMMA UnstackItemSound ==
  ASSUME "CALL_ED" \notin Opcodes, Types, Sound, UnstackItem
  PROVE  Sound'
<1> DEFINE e == stack.eval
           i == reg'["x1"]
<1>1. /\ todo = Unstacking /\ todo' = Discarding /\ doomed' = << >>
      /\ e # << >> /\ At("eval", 0) \in Live
  BY UnstackItemTypes
<1>2. /\ UNCHANGED <<heap, misused>> /\ stack' = [stack EXCEPT !.eval = Front(stack.eval)]
      /\ Assigned(Step.to, At("eval", 0))
  BY DEF UnstackItem, Does
<1>3. stack \in StackType /\ e \in Seq(ItemId) /\ Live \subseteq ItemId /\ HeapOK(heap)
  BY MemoryHeap DEF Types, Memory, StackType
<1>4. Step.to = "x1"
  BY <1>1 DEF Unstacking, Unstack, Step
<1>5. i = Last(e)
  <2>1. reg' = [reg EXCEPT !["x1"] = At("eval", 0)]
    <3>1. todo' # << >>
      BY <1>1 DEF Discarding
    <3>2. Rest = todo'
      BY <1>2 DEF Assigned, Go
    <3> QED
      BY <1>2, <1>4, <3>1, <3>2 DEF Assigned, Go
  <2>2. reg'["x1"] = At("eval", 0)
    BY <2>1, Names DEF Types, Flow, Locals
  <2>3. At("eval", 0) = e[Len(e) - 0] /\ Len(e) - 0 = Len(e)
    BY <1>3, LenProperties DEF At
  <2> QED
    BY <2>2, <2>3 DEF Last
<1>6. /\ Front(e) \in Seq(ItemId) /\ Last(e) \in ItemId
      /\ \A v : Count(e, v) = Count(Front(e), v) + One(Last(e), v)
  BY <1>1, <1>3, CountLast
<1>7. stack'.eval = Front(e) /\ stack'.alt = stack.alt
  BY <1>2, <1>3 DEF StackType
<1> DEFINE l == Append(Front(e), i)
           su == [eval |-> l, alt |-> stack.alt]
<1> HIDE DEF e, i
<1>8. l \in Seq(ItemId) /\ \A v : Count(l, v) = Count(e, v)
  BY <1>5, <1>6, CountAppend
<1>9. Stacked' = su
  BY <1>1, <1>7 DEF Stacked, i
<1> HIDE DEF l
<1>10. /\ su \in StackType /\ OtherStack(stack, su, "eval") /\ su["eval"] = l
       /\ stack["eval"] = e /\ "eval" \in StackName
  BY <1>3, <1>8 DEF StackType, OtherStack, StackName, e
<1> HIDE DEF su
<1>11. Passes(heap, heap, stack["eval"], su["eval"]) /\ SameKids(heap, heap)
  BY <1>8, <1>10 DEF Passes, SameKids
<1>12. ~misused => Balanced(heap, stack) /\ Doom
  <2>1. Idle(todo)
    BY <1>1 DEF Unstacking, Unstack, Idle
  <2> QED
    BY <2>1, SoundNow
<1>13. ~misused => Balanced(heap, su)
  BY <1>3, <1>10, <1>11, <1>12, StackMove
<1>14. ~Storing'
  BY <1>1 DEF Discarding, UnclaimAndFree, Storing, Step
<1>15. Settled' = heap /\ Doom' /\ Tidy'
  BY <1>1, <1>2, <1>5, <1>6, <1>14, NoDoom DEF Settled, Tidy, i
<1> QED
  BY <1>2, <1>9, <1>13, <1>15 DEF Sound, Lost

(* What UnclaimAndFree deletes has no claims.                              *)
LEMMA FreedIsUnclaimed ==
  ASSUME NEW h, NEW i \in DOMAIN h
  PROVE  \A v \in Range(FreeIfUnClaimed(h, i)) : Held(h, v) = 0 /\ v = i
BY DEF FreeIfUnClaimed, Range, Held

(* DROP gives up the claim.                                                *)
LEMMA ReleaseSound ==
  ASSUME "CALL_ED" \notin Opcodes, Types, Sound, Release
  PROVE  Sound'
<1> DEFINE i == reg["x1"]
           e == stack["eval"]
           l == Append(e, i)
           su == [eval |-> l, alt |-> stack.alt]
<1>1. /\ todo = Discarding /\ todo' = Rest
      /\ doomed' = FreeIfUnClaimed(heap', reg[Step.item])
  BY ReleaseTypes
<1>2. Step.item = "x1" /\ Step.uses = {"x1"} /\ Rest = << >>
  BY <1>1 DEF Discarding, UnclaimAndFree, Step, Rest
<1>3. /\ heap' = UnClaim(heap, i) /\ UNCHANGED <<stack, misused>> /\ Defined
  BY <1>2 DEF Release, Does
<1>4. i \in Live
  BY <1>2, <1>3, UsedIsLive
<1>5. /\ stack \in StackType /\ e \in Seq(ItemId) /\ HeapOK(heap) /\ DOMAIN heap = Live
      /\ i \in ItemId
  BY <1>4, MemoryHeap DEF Types, Memory, StackType
<1>6. Stacked = su /\ ~Storing
  BY <1>1 DEF Stacked, Discarding, UnclaimAndFree, Storing, Step
<1> HIDE DEF i
<1>7. l \in Seq(ItemId) /\ \A v : Count(l, v) = Count(e, v) + One(i, v)
  BY <1>5, CountAppend
<1> HIDE DEF l
<1>8. su \in StackType /\ OtherStack(su, stack, "eval") /\ su["eval"] = l /\ "eval" \in StackName
  BY <1>5, <1>7 DEF StackType, OtherStack, StackName
<1> HIDE DEF su
<1>9. /\ HeapOK(heap') /\ SameKids(heap', heap) /\ DOMAIN heap' = Live
      /\ \A v : Held(heap', v) = Held(heap, v) - One(i, v)
  BY <1>3, <1>4, <1>5, UnClaimHeap
<1>10. Passes(heap', heap, su["eval"], e)
  <2>1. \A v : Count(e, v) = Count(l, v) - One(i, v)
    <3> TAKE v
    <3>1. Count(e, v) \in Nat /\ One(i, v) \in Nat
      BY <1>5, CountType DEF One
    <3> QED
      BY <1>7, <3>1
  <2> QED
    BY <1>5, <1>7, <1>8, <1>9, <2>1, PassesOut
<1>11. ~misused => Balanced(heap', stack)
  <2>1. ~misused => Balanced(heap, su)
    BY <1>6 DEF Sound, Lost, Settled
  <2> QED
    BY <1>5, <1>8, <1>9, <1>10, <2>1, StackMove
<1>12. Doom' /\ Idle(todo')
  <2>1. \A v \in Range(FreeIfUnClaimed(heap', i)) : Held(heap', v) = 0
    BY <1>4, <1>9, FreedIsUnclaimed
  <2> QED
    BY <1>1, <1>2, <2>1 DEF Doom, Idle, i
<1> QED
  BY <1>3, <1>11, <1>12, SoundThen

(* New elements have the claim of the container that holds them.           *)
LEMMA CreateItemSound ==
  ASSUME "CALL_ED" \notin Opcodes, Types, Sound, CreateItem
  PROVE  Sound'
<1>1. /\ todo # << >> /\ Step.op = "create" /\ UNCHANGED misused
  BY DEF CreateItem, Does
<1>2. Idle(todo) /\ Proceeds /\ Creation /\ stack' = stack /\ Step.type \in Type
  BY <1>1, CreateItemTypes DEF Idle, Step
<1> SUFFICES ASSUME ~misused
             PROVE  Balanced(heap', stack)
  BY <1>1, <1>2, ProceedsSound
<1>3. Balanced(heap, stack)
  BY <1>2, SoundNow
<1>4. CASE heap' = heap
  BY <1>3, <1>4
<1>5. ASSUME NEW m \in Nat, NEW new, NewIds(m + 1, new, ItemId \ Live),
             heap' = Made(heap, Step.type, new)
      PROVE  Balanced(heap', stack)
  <2> DEFINE i == new[1]
             l == Tail(new)
  <2>1. HeapOK(heap) /\ DOMAIN heap = Live /\ stack \in StackType
    BY MemoryHeap DEF Types, Memory, StackType
  <2>2. /\ HeapOK(heap') /\ i \in ItemId \ Live /\ Elems(heap', i) = l
        /\ OthersAlike(heap', heap, i)
        /\ \A v : Held(heap', v) = Held(heap, v) + Count(l, v)
    <3> DEFINE t == Step.type
    <3>1. NewIds(m + 1, new, ItemId \ DOMAIN heap) /\ t \in Type
      BY <1>2, <1>5, <2>1
    <3> HIDE DEF t
    <3>2. /\ HeapOK(Made(heap, t, new))
          /\ new[1] \in ItemId \ DOMAIN heap
          /\ Elems(Made(heap, t, new), new[1]) = Tail(new)
      BY <2>1, <3>1, MadeHeap
    <3>3. OthersAlike(Made(heap, t, new), heap, new[1])
      BY <2>1, <3>1, MadeHeap
    <3>4. \A v : Held(Made(heap, t, new), v) = Held(heap, v) + Count(Tail(new), v)
      BY <2>1, <3>1, MadeHeap
    <3>5. heap' = Made(heap, t, new)
      BY <1>5 DEF t
    <3> QED
      BY <2>1, <3>2, <3>3, <3>4, <3>5
  <2> HIDE DEF i, l
  <2>3. Elems(heap, i) = << >>
    BY <2>1, <2>2 DEF Elems
  <2>4. Passes(heap', heap, Elems(heap, i), Elems(heap', i))
    <3> SUFFICES ASSUME NEW v \in ItemId
                 PROVE  Held(heap', v) + Count(Elems(heap, i), v)
                          = Held(heap, v) + Count(Elems(heap', i), v)
      BY DEF Passes
    <3>1. Count(Elems(heap, i), v) = 0
      BY <2>3, CountEmpty
    <3>2. Held(heap', v) \in Int
      BY <2>2, HeldType
    <3> QED
      BY <2>2, <3>1, <3>2
  <2> QED
    BY <1>3, <2>1, <2>2, <2>4, KidsMove
<1> QED
  BY <1>2, <1>4, <1>5 DEF Creation

----------------------------------------------------------------------------
(* The operations on the elements of an item.                              *)

(* The list of one item changes, and the claims with it.                   *)
LEMMA ListMoves ==
  ASSUME "CALL_ED" \notin Opcodes, Types, Sound, Idle(todo), HeapOK(heap'),
         NEW i \in ItemId, OthersAlike(heap', heap, i),
         Passes(heap', heap, Elems(heap, i), Elems(heap', i)),
         Idle(todo'), Doom', UNCHANGED <<stack, misused>>
  PROVE  Sound'
<1>1. HeapOK(heap) /\ stack \in StackType
  BY MemoryHeap DEF Types, Memory, StackType
<1>2. ~misused => Balanced(heap', stack)
  BY <1>1, SoundNow, KidsMove
<1> QED
  BY <1>2, SoundThen

(* Add claims what it appends.                                             *)
LEMMA AddElementSound ==
  ASSUME "CALL_ED" \notin Opcodes, Types, Sound, AddElement
  PROVE  Sound'
<1> DEFINE i == reg[Step.item]
           l == Append(Elements, i)
           h == Holding(heap, In, l)
           one == <<i>>
<1>1. /\ todo # << >> /\ Step.op = "add" /\ Defined
      /\ UNCHANGED <<misused, stack>> /\ heap' = ClaimAll(h, one)
  BY DEF AddElement, Does
<1>2. Idle(todo) /\ Proceeds
  BY <1>1, AddElementTypes DEF Idle, Step
<1>3. /\ In \in Live /\ Elements \in Seq(ItemId) /\ HeapOK(heap) /\ DOMAIN heap = Live
      /\ Live \subseteq ItemId /\ Elems(heap, In) = Elements
  BY <1>1, ListStep
<1>4. i \in Live /\ i \in ItemId
  BY <1>1, <1>3, FirstStep, UsedIsLive DEF Types, Formed, Operands
<1> HIDE DEF i
<1>5. l \in Seq(ItemId) /\ \A v : Count(l, v) = Count(Elements, v) + One(i, v)
  BY <1>3, <1>4, CountAppend
<1> HIDE DEF l
<1>6. /\ HeapOK(h) /\ DOMAIN h = Live /\ Elems(h, In) = l
      /\ \A v : v # In => Elems(h, v) = Elems(heap, v)
      /\ \A v : Held(h, v) = Held(heap, v)
  BY <1>3, <1>5, HoldingHeap
<1> HIDE DEF h
<1>7. /\ HeapOK(heap') /\ SameKids(heap', h)
      /\ \A v \in ItemId : Held(heap', v) = Held(h, v) + One(i, v)
  BY <1>1, <1>4, <1>6, ClaimOne
<1>8. OthersAlike(heap', heap, In) /\ Elems(heap', In) = l
  BY <1>6, <1>7 DEF OthersAlike, SameKids
<1>9. Passes(heap', heap, Elems(heap, In), Elems(heap', In))
  <2>1. \A v \in ItemId : Held(heap', v) = Held(heap, v) + One(i, v)
    BY <1>6, <1>7
  <2> QED
    BY <1>3, <1>5, <1>8, <2>1, PassesIn
<1>10. Idle(todo') /\ Doom' /\ In \in ItemId
  BY <1>2, <1>3, WorkIsIdle, NoDoom DEF Proceeds
<1> QED
  BY <1>1, <1>2, <1>7, <1>8, <1>9, <1>10, ListMoves

(* The list loses an element, which loses a claim.                         *)
LEMMA LostElement ==
  ASSUME NEW h, HeapOK(h), NEW i \in DOMAIN h, NEW l \in Seq(ItemId), NEW k \in DOMAIN h,
         \A v : Count(l, v) = Count(Elems(h, i), v) - One(k, v), NEW g,
         g = UnClaim(Holding(h, i, l), k)
  PROVE  /\ HeapOK(g) /\ DOMAIN g = DOMAIN h
         /\ Elems(g, i) = l /\ OthersAlike(g, h, i) /\ Passes(g, h, Elems(h, i), Elems(g, i))
         /\ \A v : Held(g, v) = Held(h, v) - One(k, v)
<1> DEFINE f == Holding(h, i, l)
<1>1. /\ HeapOK(f) /\ DOMAIN f = DOMAIN h /\ Elems(f, i) = l
      /\ \A v : v # i => Elems(f, v) = Elems(h, v)
      /\ \A v : Held(f, v) = Held(h, v)
  BY HoldingHeap
<1> HIDE DEF f
<1>2. /\ HeapOK(g) /\ DOMAIN g = DOMAIN f /\ SameKids(g, f)
      /\ \A v : Held(g, v) = Held(f, v) - One(k, v)
  BY <1>1, UnClaimHeap DEF f
<1>3. OthersAlike(g, h, i) /\ Elems(g, i) = l
  BY <1>1, <1>2 DEF OthersAlike, SameKids
<1>4. Elems(h, i) \in Seq(ItemId)
  BY HeldType
<1>5. \A v : Held(g, v) = Held(h, v) - One(k, v)
  BY <1>1, <1>2
<1>6. Passes(g, h, Elems(h, i), Elems(g, i))
  BY <1>3, <1>4, <1>5, PassesOut
<1> QED
  BY <1>1, <1>2, <1>3, <1>5, <1>6

(* An item in a list exists, when claims are references.                   *)
LEMMA ElementIsLive ==
  ASSUME NEW h, HeapOK(h), NEW st \in StackType, Balanced(h, st), NEW i \in ItemId,
         NEW n \in 1 .. Len(Elems(h, i))
  PROVE  /\ Elems(h, i)[n] \in DOMAIN h /\ Elems(h, i)[n] \in ItemId
         /\ Held(h, Elems(h, i)[n]) > 0
<1> DEFINE l == Elems(h, i)
           k == l[n]
<1>1. l \in Seq(ItemId)
  BY HeldType
<1>2. k \in ItemId
  BY <1>1
<1>3. Count(l, k) \in Nat /\ Count(l, k) > 0
  <2>1. n \in 1 .. Len(l)
    OBVIOUS
  <2> HIDE DEF l
  <2> QED
    BY <1>1, <2>1, PresentCount
<1>4. /\ Count(l, k) <= Held(h, k) /\ (Count(l, k) > 0 => k \in DOMAIN h)
  BY <1>2, KidsAreClaimed
<1>5. Held(h, k) \in Int
  BY HeldType
<1> QED
  BY <1>2, <1>3, <1>4, <1>5

(* RemoveAt gives up the claim of the place it removes, and deletes an     *)
(* element that has none left.                                             *)
LEMMA EraseElementSound ==
  ASSUME "CALL_ED" \notin Opcodes, Types, Sound, EraseElement
  PROVE  Sound'
<1> DEFINE n == number + 1
           k == Elements[n]
           l == RemoveAt(Elements, n)
<1>1. /\ todo # << >> /\ Step.op = "erase" /\ Defined
      /\ UNCHANGED <<misused, stack>> /\ heap' = UnClaim(Holding(heap, In, l), k)
  BY DEF EraseElement, Does
<1>2. /\ Idle(todo) /\ todo' \in Work /\ doomed' = FreeIfUnClaimed(heap', k)
  BY <1>1, EraseElementTypes DEF Idle, Step
<1>3. /\ In \in Live /\ Elements \in Seq(ItemId) /\ HeapOK(heap) /\ DOMAIN heap = Live
      /\ Live \subseteq ItemId /\ Elems(heap, In) = Elements /\ stack \in StackType
  BY <1>1, ListStep DEF Types, Memory, StackType
<1>4. n \in 1 .. Len(Elements)
  BY <1>1, <1>3 DEF Defined, InBounds, Types, Flow
<1> SUFFICES ASSUME ~misused
             PROVE  Sound'
  BY <1>1 DEF Sound, Lost
<1>5. k \in Live
  <2>1. Balanced(heap, stack)
    BY <1>2, SoundNow
  <2>2. n \in 1 .. Len(Elems(heap, In)) /\ In \in ItemId
    BY <1>3, <1>4
  <2> HIDE DEF n
  <2> QED
    BY <1>3, <2>1, <2>2, ElementIsLive
<1>6. l \in Seq(ItemId) /\ \A v : Count(l, v) = Count(Elements, v) - One(k, v)
  <2> HIDE DEF n
  <2>1. ASSUME NEW v
        PROVE  l \in Seq(ItemId) /\ Count(l, v) = Count(Elements, v) - One(Elements[n], v)
    BY <1>3, <1>4, CountRemoveAt
  <2> QED
    BY <2>1
<1> HIDE DEF l, k
<1>7. /\ HeapOK(heap') /\ DOMAIN heap' = Live /\ OthersAlike(heap', heap, In)
      /\ Passes(heap', heap, Elems(heap, In), Elems(heap', In))
  BY <1>1, <1>3, <1>5, <1>6, LostElement
<1>8. Doom'
  BY <1>2, <1>5, <1>7, FreedIsUnclaimed DEF Doom
<1>9. Idle(todo') /\ In \in ItemId
  BY <1>2, <1>3, WorkIsIdle
<1> QED
  BY <1>1, <1>2, <1>7, <1>8, <1>9, ListMoves

(* Reverse changes the order of places only.                               *)
LEMMA ReverseElementsSound ==
  ASSUME "CALL_ED" \notin Opcodes, Types, Sound, ReverseElements
  PROVE  Sound'
<1> DEFINE l == Reverse(Elements)
<1>1. /\ todo # << >> /\ Step.op = "reverse" /\ Defined
      /\ UNCHANGED <<misused, stack>> /\ heap' = Holding(heap, In, l)
  BY DEF ReverseElements, Does
<1>2. Idle(todo) /\ Proceeds
  BY <1>1, ReverseElementsTypes DEF Idle, Step
<1>3. /\ In \in Live /\ Elements \in Seq(ItemId) /\ HeapOK(heap) /\ DOMAIN heap = Live
      /\ Live \subseteq ItemId /\ Elems(heap, In) = Elements
  BY <1>1, ListStep
<1>4. l \in Seq(ItemId) /\ \A v : Count(l, v) = Count(Elements, v)
  BY <1>3, CountReverse
<1> HIDE DEF l
<1>5. /\ HeapOK(heap') /\ Elems(heap', In) = l
      /\ \A v : v # In => Elems(heap', v) = Elems(heap, v)
      /\ \A v : Held(heap', v) = Held(heap, v)
  BY <1>1, <1>3, <1>4, HoldingHeap
<1>6. OthersAlike(heap', heap, In)
  BY <1>5 DEF OthersAlike
<1>7. Passes(heap', heap, Elems(heap, In), Elems(heap', In))
  BY <1>3, <1>4, <1>5 DEF Passes
<1>8. Idle(todo') /\ Doom' /\ In \in ItemId
  BY <1>2, <1>3, WorkIsIdle, NoDoom DEF Proceeds
<1> QED
  BY <1>1, <1>2, <1>5, <1>6, <1>7, <1>8, ListMoves

----------------------------------------------------------------------------
(* Clone, and the maps.                                                    *)

(* Clone makes an item that is nowhere yet and holds nothing.              *)
LEMMA CloneItemSound ==
  ASSUME "CALL_ED" \notin Opcodes, Types, Sound, CloneItem
  PROVE  Sound'
<1>1. todo # << >> /\ Step.op = "clone" /\ UNCHANGED <<misused, stack>>
  BY DEF CloneItem, Does
<1>2. Idle(todo) /\ Proceeds
  BY <1>1, CloneItemTypes DEF Idle, Step
<1>3. PICK j \in ItemId \ Live, t \in Type : heap' = Making(heap, j, NewItem(t, 0, << >>))
  BY CloneItemTypes
<1> DEFINE item == NewItem(t, 0, << >>)
<1>4. item \in ItemSet /\ item.claims = 0 /\ item.kids = << >>
  <2>1. << >> \in Seq(ItemId)
    OBVIOUS
  <2> QED
    BY <2>1 DEF NewItem, ItemSet
<1>5. heap' = Making(heap, j, item)
  BY <1>3
<1> HIDE DEF item
<1>6. HeapOK(heap) /\ DOMAIN heap = Live
  BY MemoryHeap DEF Types
<1>7. /\ Elems(heap', j) = << >> /\ Held(heap', j) = 0
      /\ AlikeBut(heap', heap, j)
  <2>1. j \in ItemId \ DOMAIN heap
    BY <1>6
  <2>2. item \in ItemSet /\ HeapOK(heap)
    BY <1>4, <1>6
  <2>3. HasItem(heap', j, item) /\ AlikeBut(heap', heap, j)
    BY <1>5, <2>1, <2>2, NewItemHeap
  <2> QED
    BY <1>4, <2>3 DEF HasItem
<1>8. Elems(heap, j) = << >> /\ Held(heap, j) = 0
  BY <1>6 DEF Elems, Held
<1>9. \A v : Elems(heap', v) = Elems(heap, v) /\ Held(heap', v) = Held(heap, v)
  BY <1>7, <1>8 DEF AlikeBut
<1>10. ~misused => Balanced(heap', stack')
  BY <1>1, <1>2, <1>9, SoundNow, NothingMoves
<1> QED
  BY <1>1, <1>2, <1>10, ProceedsSound

(* A list gets one more element, which gets one more claim.                *)
LEMMA GainedElement ==
  ASSUME NEW h, HeapOK(h), NEW i \in DOMAIN h, NEW k \in ItemId, NEW l \in Seq(ItemId),
         \A v : Count(l, v) = Count(Elems(h, i), v) + One(k, v), NEW g,
         Elems(g, i) = l, OthersAlike(g, h, i),
         \A v \in ItemId : Held(g, v) = Held(h, v) + One(k, v)
  PROVE  Passes(g, h, Elems(h, i), Elems(g, i))
<1>1. Elems(h, i) \in Seq(ItemId)
  BY HeldType
<1> QED
  BY <1>1, PassesIn

(* An element is shared with the copy, or a Struct is made for it.         *)
LEMMA CopyElementSound ==
  ASSUME "CALL_ED" \notin Opcodes, Types, Sound, CopyElement
  PROVE  Sound'
<1> DEFINE into == Step.into
           kids == heap[into].kids
<1>1. todo # << >> /\ Step.op = "copy" /\ UNCHANGED <<misused, stack>> /\ Defined
  BY DEF CopyElement, Does
<1>2. Idle(todo) /\ Proceeds /\ (Shared \/ Doubled)
  BY <1>1, CopyElementTypes DEF Idle, Step
<1>3. HeapOK(heap) /\ DOMAIN heap = Live /\ into \in Live /\ into \in ItemId
      /\ Head(Step.list) \in Live /\ Head(Step.list) \in ItemId
  BY <1>1, CopyStep, MemoryHeap DEF Types
<1>4. kids \in Seq(ItemId) /\ kids = Elems(heap, into)
  BY <1>3, ItemFields DEF Elems
<1>5. Idle(todo') /\ Doom'
  BY <1>2, WorkIsIdle, NoDoom DEF Proceeds
<1>6. CASE Shared
  <2> DEFINE i == Head(Step.list)
             l == Append(kids, i)
             h == Holding(heap, into, l)
             one == <<i>>
  <2>1. heap' = ClaimAll(h, one)
    BY <1>6 DEF Shared
  <2>2. i \in Live /\ i \in ItemId
    BY <1>3
  <2> HIDE DEF i, kids, into
  <2>3. l \in Seq(ItemId) /\ \A v : Count(l, v) = Count(kids, v) + One(i, v)
    BY <1>4, <2>2, CountAppend
  <2> HIDE DEF l
  <2>4. /\ HeapOK(h) /\ DOMAIN h = Live /\ Elems(h, into) = l
        /\ \A v : v # into => Elems(h, v) = Elems(heap, v)
        /\ \A v : Held(h, v) = Held(heap, v)
    BY <1>3, <2>3, HoldingHeap
  <2> HIDE DEF h
  <2>5. /\ HeapOK(heap') /\ SameKids(heap', h)
        /\ \A v \in ItemId : Held(heap', v) = Held(h, v) + One(i, v)
    BY <2>1, <2>2, <2>4, ClaimOne
  <2>6. OthersAlike(heap', heap, into) /\ Elems(heap', into) = l
    BY <2>4, <2>5 DEF OthersAlike, SameKids
  <2>7. \A v \in ItemId : Held(heap', v) = Held(heap, v) + One(i, v)
    BY <2>4, <2>5
  <2>8. Passes(heap', heap, Elems(heap, into), Elems(heap', into))
    BY <1>3, <1>4, <2>2, <2>3, <2>6, <2>7, GainedElement
  <2> QED
    BY <1>1, <1>2, <1>3, <1>5, <2>5, <2>6, <2>8, ListMoves
<1>7. CASE Doubled
  <2>1. PICK j \in ItemId \ Live :
          heap' = Making(Holding(heap, Step.into, Append(heap[Step.into].kids, j)),
                         j, NewItem("Struct", 1, << >>))
    BY <1>7 DEF Doubled
  <2> DEFINE l == Append(kids, j)
             h == Holding(heap, into, l)
             item == NewItem("Struct", 1, << >>)
  <2>2. item \in ItemSet /\ item.claims = 1 /\ item.kids = << >>
    <3>1. << >> \in Seq(ItemId) /\ "Struct" \in Type
      BY Names
    <3> QED
      BY <3>1 DEF NewItem, ItemSet
  <2>3. heap' = Making(h, j, item)
    BY <2>1
  <2> HIDE DEF item, kids, into
  <2>4. l \in Seq(ItemId) /\ \A v : Count(l, v) = Count(kids, v) + One(j, v)
    BY <1>4, <2>1, CountAppend
  <2> HIDE DEF l
  <2>5. /\ HeapOK(h) /\ DOMAIN h = Live /\ Elems(h, into) = l
        /\ \A v : v # into => Elems(h, v) = Elems(heap, v)
        /\ \A v : Held(h, v) = Held(heap, v)
    BY <1>3, <2>4, HoldingHeap
  <2> HIDE DEF h
  <2>6. /\ HeapOK(heap') /\ Elems(heap', j) = << >> /\ Held(heap', j) = 1
        /\ AlikeBut(heap', h, j)
    <3>1. j \in ItemId \ DOMAIN h
      BY <2>1, <2>5
    <3>2. item \in ItemSet /\ HeapOK(h)
      BY <2>2, <2>5
    <3>3. HeapOK(heap') /\ HasItem(heap', j, item) /\ AlikeBut(heap', h, j)
      BY <2>3, <3>1, <3>2, NewItemHeap
    <3> QED
      BY <2>2, <3>3 DEF HasItem
  <2>7. into # j /\ Elems(heap, j) = << >> /\ Held(heap, j) = 0
    BY <1>3, <2>1 DEF Elems, Held
  <2>8. OthersAlike(heap', heap, into) /\ Elems(heap', into) = l
    BY <2>5, <2>6, <2>7 DEF OthersAlike, AlikeBut
  <2>9. \A v \in ItemId : Held(heap', v) = Held(heap, v) + One(j, v)
    <3> TAKE v \in ItemId
    <3>1. Held(heap, v) \in Int
      BY <1>3, HeldType
    <3> QED
      BY <2>5, <2>6, <2>7, <3>1 DEF One, AlikeBut
  <2>10. Passes(heap', heap, Elems(heap, into), Elems(heap', into))
    BY <1>3, <1>4, <2>1, <2>4, <2>8, <2>9, GainedElement
  <2> QED
    BY <1>1, <1>2, <1>3, <1>5, <2>6, <2>8, <2>10, ListMoves
<1> QED
  BY <1>2, <1>6, <1>7

(* A pair leaves the map, and its key and its value lose a claim each.     *)
LEMMA RemovePairSound ==
  ASSUME "CALL_ED" \notin Opcodes, Types, Sound, RemovePair
  PROVE  Sound'
<1>1. todo # << >> /\ Step.op = "mapRemove" /\ UNCHANGED <<misused, stack>> /\ Defined
  BY DEF RemovePair, Does
<1>2. Idle(todo) /\ Proceeds /\ (heap' = heap \/ \E n \in KeyPositions : Removing(n))
  BY <1>1, RemovePairTypes DEF Idle, Step
<1>3. /\ In \in Live /\ Elements \in Seq(ItemId) /\ HeapOK(heap) /\ DOMAIN heap = Live
      /\ Live \subseteq ItemId /\ Elems(heap, In) = Elements /\ stack \in StackType
  BY <1>1, ListStep DEF Types, Memory, StackType
<1>4. Idle(todo') /\ Doom' /\ In \in ItemId
  BY <1>2, <1>3, WorkIsIdle, NoDoom DEF Proceeds
<1>5. CASE heap' = heap
  BY <1>1, <1>2, <1>5, SoundNow, ProceedsSound
<1>6. ASSUME NEW n \in KeyPositions, Removing(n), ~misused
      PROVE  Sound'
  <2> DEFINE a == Elements[n]
             b == Elements[n + 1]
             l == Without(Elements, n)
             f == Holding(heap, In, l)
             g == UnClaim(f, a)
  <2>1. heap' = UnClaim(g, b)
    BY <1>6 DEF Removing
  <2>2. a \in Live /\ b \in Live
    <3>1. Balanced(heap, stack)
      BY <1>2, <1>6, SoundNow
    <3>2. n \in 1 .. Len(Elements) /\ n + 1 \in 1 .. Len(Elements)
      BY <1>3, PairPlaces
    <3> DEFINE m == n + 1
    <3>3. m \in 1 .. Len(Elems(heap, In)) /\ n \in 1 .. Len(Elems(heap, In))
      BY <1>3, <3>2
    <3>4. Elems(heap, In)[n] \in DOMAIN heap
      BY <1>3, <1>4, <3>1, <3>3, ElementIsLive
    <3> HIDE DEF m
    <3>5. Elems(heap, In)[m] \in DOMAIN heap
      BY <1>3, <1>4, <3>1, <3>3, ElementIsLive
    <3> QED
      BY <1>3, <3>4, <3>5 DEF m
  <2>3. /\ l \in Seq(ItemId)
        /\ \A v : Count(l, v) = Count(Elements, v) - One(a, v) - One(b, v)
    BY <1>3, WithoutPair
  <2> HIDE DEF a, b, l
  <2>4. /\ HeapOK(f) /\ DOMAIN f = Live /\ Elems(f, In) = l
        /\ \A v : v # In => Elems(f, v) = Elems(heap, v)
        /\ \A v : Held(f, v) = Held(heap, v)
    BY <1>3, <2>3, HoldingHeap
  <2> HIDE DEF f
  <2>5. /\ HeapOK(g) /\ DOMAIN g = Live /\ SameKids(g, f)
        /\ \A v : Held(g, v) = Held(f, v) - One(a, v)
    BY <2>2, <2>4, UnClaimHeap
  <2> HIDE DEF g
  <2>6. /\ HeapOK(heap') /\ SameKids(heap', g)
        /\ \A v : Held(heap', v) = Held(g, v) - One(b, v)
    BY <2>1, <2>2, <2>5, UnClaimHeap
  <2>7. OthersAlike(heap', heap, In) /\ Elems(heap', In) = l
    BY <2>4, <2>5, <2>6 DEF OthersAlike, SameKids
  <2>8. Passes(heap', heap, Elems(heap, In), Elems(heap', In))
    <3> SUFFICES ASSUME NEW v \in ItemId
                 PROVE  Held(heap', v) + Count(Elements, v) = Held(heap, v) + Count(l, v)
      BY <1>3, <2>7 DEF Passes
    <3>1. /\ Held(heap, v) \in Int /\ Count(Elements, v) \in Nat
          /\ One(a, v) \in Nat /\ One(b, v) \in Nat
      BY <1>3, HeldType, CountType DEF One
    <3>2. Held(heap', v) = Held(heap, v) - One(a, v) - One(b, v)
      BY <2>4, <2>5, <2>6
    <3> QED
      BY <2>3, <3>1, <3>2
  <2> QED
    BY <1>1, <1>2, <1>4, <2>6, <2>7, <2>8, ListMoves
<1>7. CASE misused
  BY <1>1, <1>7 DEF Sound, Lost
<1> QED
  BY <1>2, <1>5, <1>6, <1>7

----------------------------------------------------------------------------
(* An element in the place of another one.                                 *)

(* The list of one item is about to change, and the claims have.           *)
LEMMA StoreMoves ==
  ASSUME "CALL_ED" \notin Opcodes, Types, Sound, Idle(todo), HeapOK(Settled'),
         NEW i \in ItemId, OthersAlike(Settled', heap, i),
         Passes(Settled', heap, Elems(heap, i), Elems(Settled', i)),
         Stacked' = stack, Doom', Tidy', UNCHANGED misused
  PROVE  Sound'
<1>1. HeapOK(heap) /\ stack \in StackType
  BY MemoryHeap DEF Types, Memory, StackType
<1>2. ~misused => Balanced(Settled', stack)
  BY <1>1, SoundNow, KidsMove
<1> QED
  BY <1>2 DEF Sound, Lost

(* The first step is to store an element in a list of the item at hand.    *)
LEMMA StoreNext ==
  ASSUME NEW s, s.op \in {"store", "mapStore"}, NEW program \in Work,
         s.in = Step.in, NEW dying,
         After(dying, <<s>> \o program), todo' = <<s>> \o program
  PROVE  /\ Storing' /\ todo' # Discarding /\ Step' = s /\ In' = In /\ reg' = reg
<1>1. /\ <<s>> \o program # << >> /\ Head(<<s>> \o program) = s
  BY DEF Work
<1>2. reg' = reg
  BY <1>1 DEF After, Go
<1>3. Step' = s
  BY <1>1 DEF Step
<1>4. todo' # Discarding
  <2>1. Head(Discarding).op = "release"
    BY DEF Discarding, UnclaimAndFree
  <2>2. Head(todo').op # "release"
    BY <1>1
  <2> QED
    BY <2>1, <2>2
<1>5. In' = In
  BY <1>2, <1>3 DEF In
<1> QED
  BY <1>1, <1>2, <1>3, <1>4, <1>5 DEF Storing

(* SETITEM of a list claims the new element, and gives up the old one.     *)
LEMMA SetElementSound ==
  ASSUME "CALL_ED" \notin Opcodes, Types, Sound, SetElement
  PROVE  Sound'
<1> DEFINE i == reg[Step.item]
           n == number + 1
           old == Elements[n]
           one == <<i>>
           claimed == ClaimAll(heap, one)
           l == IF number = 0 THEN Tail(Elements) ELSE Elements
           g == IF number = 0 THEN Holding(claimed, In, Tail(Elements)) ELSE claimed
           s == Store(Step.in, number, Step.item)
           m == IF number = 0 THEN <<i>> \o Tail(Elements) ELSE [Elements EXCEPT ![n] = i]
<1>1. /\ todo # << >> /\ Step.op = "set" /\ Defined
      /\ UNCHANGED <<misused, stack>> /\ heap' = UnClaim(g, old)
      /\ After(FreeIfUnClaimed(UnClaim(g, old), old), <<s>> \o Rest)
  BY DEF SetElement, Does
<1>2. /\ Idle(todo) /\ todo' = <<s>> \o Rest /\ doomed' = FreeIfUnClaimed(heap', old)
  BY <1>1, SetElementTypes DEF Idle, Step
<1>3. /\ In \in Live /\ Elements \in Seq(ItemId) /\ HeapOK(heap) /\ DOMAIN heap = Live
      /\ Live \subseteq ItemId /\ Elems(heap, In) = Elements /\ stack \in StackType
      /\ Rest \in Work
  BY <1>1, ListStep DEF Types, Memory, StackType
<1>4. n \in 1 .. Len(Elements) /\ number \in Nat /\ Elements # << >> /\ number < Len(Elements)
  <2>1. number \in Nat /\ number < Len(Elements)
    BY <1>1, <1>3 DEF Defined, InBounds, Types, Flow
  <2>2. Len(Elements) \in Nat
    BY <1>3, LenProperties
  <2>3. Len(Elements) # 0
    BY <2>1, <2>2
  <2> QED
    BY <2>1, <2>2, <2>3, <1>3
<1>5. i \in Live /\ i \in ItemId
  BY <1>1, <1>3, FirstStep, UsedIsLive DEF Types, Formed, Operands
<1> SUFFICES ASSUME ~misused
             PROVE  Sound'
  BY <1>1 DEF Sound, Lost
<1>6. old \in Live
  <2>1. Balanced(heap, stack)
    BY <1>2, SoundNow
  <2>2. n \in 1 .. Len(Elems(heap, In)) /\ In \in ItemId
    BY <1>3, <1>4
  <2> HIDE DEF n
  <2> QED
    BY <1>3, <2>1, <2>2, ElementIsLive
<1>7. /\ s.op = "store" /\ s.in = Step.in /\ s.index = number /\ s.item = Step.item
  BY DEF Store
<1>8. /\ Storing' /\ todo' # Discarding /\ Step' = s /\ In' = In /\ reg' = reg
  <2> DEFINE dying == FreeIfUnClaimed(UnClaim(g, old), old)
  <2>1. s.op \in {"store", "mapStore"} /\ After(dying, <<s>> \o Rest)
    BY <1>1, <1>7
  <2> HIDE DEF s, g, old, dying
  <2> QED
    BY <1>2, <1>3, <1>7, <2>1, StoreNext
<1>9. /\ Tail(Elements) \in Seq(ItemId) /\ l \in Seq(ItemId) /\ m \in Seq(ItemId)
      /\ \A v : Count(m, v) = Count(Elements, v) - One(old, v) + One(i, v)
  <2>1. CASE number = 0
    <3>1. old = Head(Elements) /\ m = <<i>> \o Tail(Elements) /\ l = Tail(Elements)
      BY <1>3, <1>4, <2>1
    <3> HIDE DEF i, m, l, old
    <3>2. Tail(Elements) \in Seq(ItemId)
      BY <1>3, <1>4, CountTail
    <3>3. \A v : Count(Elements, v) = One(Head(Elements), v) + Count(Tail(Elements), v)
      BY <1>3, <1>4, CountTail
    <3> DEFINE e == Tail(Elements)
    <3>4. e \in Seq(ItemId)
      BY <3>2
    <3> HIDE DEF e
    <3>5. <<i>> \o e \in Seq(ItemId) /\ \A v : Count(<<i>> \o e, v) = One(i, v) + Count(e, v)
      BY <1>5, <3>4, CountInFront
    <3>6. ASSUME NEW v
          PROVE  Count(m, v) = Count(Elements, v) - One(old, v) + One(i, v)
      <4>1. Count(e, v) \in Nat /\ One(old, v) \in Nat /\ One(i, v) \in Nat
        BY <3>4, CountType DEF One
      <4>2. /\ Count(Elements, v) = One(old, v) + Count(e, v)
            /\ Count(m, v) = One(i, v) + Count(e, v)
        BY <3>1, <3>3, <3>5 DEF e
      <4> QED
        BY <4>1, <4>2
    <3> QED
      BY <3>1, <3>2, <3>5, <3>6 DEF e
  <2>2. CASE number # 0
    <3>1. m = [Elements EXCEPT ![n] = i] /\ l = Elements
      BY <2>2
    <3>2. Tail(Elements) \in Seq(ItemId)
      BY <1>3, <1>4, CountTail
    <3> HIDE DEF i, m, l, n
    <3>3. ASSUME NEW v
          PROVE  /\ [Elements EXCEPT ![n] = i] \in Seq(ItemId)
                 /\ Count([Elements EXCEPT ![n] = i], v)
                      = Count(Elements, v) - One(Elements[n], v) + One(i, v)
      BY <1>3, <1>4, <1>5, CountReplace
    <3> QED
      BY <1>3, <3>1, <3>2, <3>3
  <2> QED
    BY <2>1, <2>2
<1>10. /\ HeapOK(g) /\ DOMAIN g = Live /\ Elems(g, In) = l /\ OthersAlike(g, heap, In)
       /\ \A v \in ItemId : Held(g, v) = Held(heap, v) + One(i, v)
  <2> HIDE DEF i
  <2>1. /\ HeapOK(claimed) /\ DOMAIN claimed = Live /\ SameKids(claimed, heap)
        /\ \A v \in ItemId : Held(claimed, v) = Held(heap, v) + One(i, v)
    BY <1>3, <1>5, ClaimOne
  <2> HIDE DEF claimed
  <2>2. CASE number = 0
    <3>1. g = Holding(claimed, In, Tail(Elements)) /\ l = Tail(Elements)
      BY <2>2
    <3> DEFINE f == Holding(claimed, In, l)
    <3>2. g = f
      BY <3>1
    <3> HIDE DEF g, l
    <3>3. /\ HeapOK(f) /\ DOMAIN f = Live /\ Elems(f, In) = l
          /\ \A v : v # In => Elems(f, v) = Elems(claimed, v)
          /\ \A v : Held(f, v) = Held(claimed, v)
      BY <1>3, <1>9, <2>1, HoldingHeap
    <3> HIDE DEF f
    <3> QED
      BY <2>1, <3>2, <3>3 DEF OthersAlike, SameKids
  <2>3. CASE number # 0
    <3>1. g = claimed /\ l = Elements
      BY <2>3
    <3> HIDE DEF g, l
    <3> QED
      BY <1>3, <2>1, <3>1 DEF OthersAlike, SameKids
  <2> QED
    BY <2>2, <2>3
<1> HIDE DEF g
<1>11. /\ HeapOK(heap') /\ DOMAIN heap' = Live /\ SameKids(heap', g)
       /\ \A v : Held(heap', v) = Held(g, v) - One(old, v)
  BY <1>1, <1>6, <1>10, UnClaimHeap
<1>12. Elements' = l
  BY <1>3, <1>8, <1>10, <1>11 DEF Elements, SameKids, Elems
<1>13. Stored' = m
  BY <1>7, <1>8, <1>12 DEF Stored
<1>14. Settled' = Holding(heap', In, m)
  BY <1>7, <1>8, <1>13 DEF Settled, Pending
<1> HIDE DEF m
<1>15. /\ HeapOK(Settled') /\ Elems(Settled', In) = m
       /\ \A v : v # In => Elems(Settled', v) = Elems(heap', v)
       /\ \A v : Held(Settled', v) = Held(heap', v)
  BY <1>3, <1>9, <1>11, <1>14, HoldingHeap
<1>16. OthersAlike(Settled', heap, In)
  BY <1>10, <1>11, <1>15 DEF OthersAlike, SameKids
<1>17. Passes(Settled', heap, Elems(heap, In), Elems(Settled', In))
  <2> HIDE DEF i, old
  <2> SUFFICES ASSUME NEW v \in ItemId
               PROVE  Held(Settled', v) + Count(Elements, v) = Held(heap, v) + Count(m, v)
    BY <1>3, <1>15 DEF Passes
  <2>1. /\ Held(heap, v) \in Int /\ Count(Elements, v) \in Nat
        /\ One(i, v) \in Nat /\ One(old, v) \in Nat
    BY <1>3, HeldType, CountType DEF One
  <2>2. Held(Settled', v) = Held(heap, v) + One(i, v) - One(old, v)
    BY <1>10, <1>11, <1>15, <2>1
  <2> QED
    BY <1>9, <2>1, <2>2
<1>18. Doom'
  <2> HIDE DEF old
  <2> QED
    BY <1>2, <1>6, <1>11, FreedIsUnclaimed DEF Doom
<1>19. Tidy'
  <2>1. InBounds'
    <3>1. CASE number = 0
      BY <3>1, <1>7, <1>8 DEF InBounds
    <3>2. CASE number # 0
      BY <3>2, <1>4, <1>7, <1>8, <1>12 DEF InBounds
    <3> QED
      BY <3>1, <3>2
  <2> QED
    BY <1>8, <2>1 DEF Tidy
<1>20. Stacked' = stack /\ In \in ItemId
  BY <1>1, <1>3, <1>8 DEF Stacked
<1> QED
  BY <1>1, <1>2, <1>15, <1>16, <1>17, <1>18, <1>19, <1>20, StoreMoves

(* The new element takes the place that SETITEM has kept for it.           *)
LEMMA StoreElementSound ==
  ASSUME "CALL_ED" \notin Opcodes, Types, Sound, StoreElement
  PROVE  Sound'
<1>1. /\ todo # << >> /\ Step.op = "store" /\ Defined /\ doomed = << >>
      /\ UNCHANGED <<misused, stack>> /\ heap' = Holding(heap, In, Stored)
  BY DEF StoreElement, Does
<1>2. Proceeds /\ In \in Live
  BY <1>1, StoreElementTypes, ListStep
<1>3. Storing /\ todo # Discarding
  <2>1. Head(Discarding).op = "release"
    BY DEF Discarding, UnclaimAndFree
  <2> QED
    BY <1>1, <2>1 DEF Storing, Step
<1>4. heap' = Settled /\ stack' = Stacked
  BY <1>1, <1>3 DEF Settled, Pending, Stacked
<1>5. ~misused => Balanced(heap', stack')
  BY <1>1, <1>2, <1>4 DEF Sound, Lost, Range
<1> QED
  BY <1>1, <1>2, <1>5, ProceedsSound

(* SETITEM of a map claims the new value once the old one is gone.         *)
LEMMA StoreValueSound ==
  ASSUME "CALL_ED" \notin Opcodes, Types, Sound, StoreValue
  PROVE  Sound'
<1> DEFINE i == reg[Step.item]
           n == Step.index
           l == [Elements EXCEPT ![n] = i]
           m == RemoveAt(Elements, n)
           g == Holding(heap, In, l)
           f == Holding(heap, In, m)
           one == <<i>>
<1>1. /\ todo # << >> /\ Step.op = "mapStore" /\ Defined /\ doomed = << >>
      /\ UNCHANGED <<misused, stack>> /\ heap' = ClaimAll(g, one)
  BY DEF StoreValue, Does
<1>2. /\ In \in Live /\ Elements \in Seq(ItemId) /\ HeapOK(heap) /\ DOMAIN heap = Live
      /\ Live \subseteq ItemId /\ Elems(heap, In) = Elements /\ stack \in StackType
      /\ Proceeds /\ In \in ItemId
  BY <1>1, ListStep, StoreValueTypes DEF Types, Memory, StackType
<1>3. i \in Live /\ i \in ItemId
  BY <1>1, <1>2, StoreStep, UsedIsLive
<1>4. n \in 1 .. Len(Elements)
  BY <1>1, <1>2, StoreStep, LenProperties DEF Defined, InBounds
<1>5. Storing /\ todo # Discarding
  <2>1. Head(Discarding).op = "release"
    BY DEF Discarding, UnclaimAndFree
  <2> QED
    BY <1>1, <2>1 DEF Storing, Step
<1>6. Settled = f /\ stack = Stacked
  BY <1>1, <1>5 DEF Settled, Pending, Stacked
<1>7. ~misused => Balanced(f, stack)
  BY <1>1, <1>2, <1>6 DEF Sound, Lost, Range
<1> HIDE DEF i, n
<1>8. /\ l \in Seq(ItemId) /\ m \in Seq(ItemId)
      /\ \A v : Count(l, v) = Count(m, v) + One(i, v)
  <2>1. ASSUME NEW v
        PROVE  /\ l \in Seq(ItemId)
               /\ Count(l, v) = Count(Elements, v) - One(Elements[n], v) + One(i, v)
    BY <1>2, <1>3, <1>4, CountReplace
  <2>2. ASSUME NEW v
        PROVE  /\ m \in Seq(ItemId)
               /\ Count(m, v) = Count(Elements, v) - One(Elements[n], v)
    BY <1>2, <1>3, <1>4, CountRemoveAt
  <2> QED
    BY <2>1, <2>2
<1> HIDE DEF l, m
<1>9. /\ HeapOK(g) /\ DOMAIN g = Live /\ Elems(g, In) = l
      /\ \A v : v # In => Elems(g, v) = Elems(heap, v)
      /\ \A v : Held(g, v) = Held(heap, v)
  BY <1>2, <1>8, HoldingHeap
<1>10. /\ HeapOK(f) /\ DOMAIN f = Live /\ Elems(f, In) = m
       /\ \A v : v # In => Elems(f, v) = Elems(heap, v)
       /\ \A v : Held(f, v) = Held(heap, v)
  BY <1>2, <1>8, HoldingHeap
<1> HIDE DEF f, g
<1>11. /\ HeapOK(heap') /\ SameKids(heap', g)
       /\ \A v \in ItemId : Held(heap', v) = Held(g, v) + One(i, v)
  BY <1>1, <1>3, <1>9, ClaimOne
<1>12. OthersAlike(heap', f, In) /\ Elems(heap', In) = l
  BY <1>9, <1>10, <1>11 DEF OthersAlike, SameKids
<1>13. \A v \in ItemId : Held(heap', v) = Held(f, v) + One(i, v)
  BY <1>9, <1>10, <1>11
<1>14. Passes(heap', f, Elems(f, In), Elems(heap', In))
  BY <1>8, <1>10, <1>12, <1>13, PassesIn
<1>15. ~misused => Balanced(heap', stack)
  BY <1>2, <1>7, <1>10, <1>11, <1>12, <1>14, KidsMove
<1> QED
  BY <1>1, <1>2, <1>15, ProceedsSound

(* SETITEM adds a pair to a map, or gives up the value of one it has.      *)
LEMMA SetValueSound ==
  ASSUME "CALL_ED" \notin Opcodes, Types, Sound, SetValue
  PROVE  Sound'
<1>1. /\ todo # << >> /\ Step.op = "mapSet" /\ Defined /\ UNCHANGED misused
  BY DEF SetValue, Does
<1>2. /\ Idle(todo) /\ stack' = stack
      /\ \/ Proceeds /\ (heap' = heap \/ AddingPair)
         \/ \E n \in KeyPositions :
              /\ Replacing(n)
              /\ todo' = <<MapStore(Step.in, n + 1, Step.item)>> \o Rest
              /\ doomed' = FreeIfUnClaimed(heap', Elements[n + 1])
  BY <1>1, SetValueTypes DEF Idle, Step
<1>3. /\ In \in Live /\ Elements \in Seq(ItemId) /\ HeapOK(heap) /\ DOMAIN heap = Live
      /\ Live \subseteq ItemId /\ Elems(heap, In) = Elements /\ stack \in StackType
      /\ Rest \in Work /\ In \in ItemId
  BY <1>1, ListStep DEF Types, Memory, StackType
<1>4. /\ reg[Step.key] \in Live /\ reg[Step.key] \in ItemId
      /\ reg[Step.item] \in Live /\ reg[Step.item] \in ItemId
  BY <1>1, <1>3, FirstStep, UsedIsLive DEF Types, Formed, Operands
<1> SUFFICES ASSUME ~misused
             PROVE  Sound'
  BY <1>1 DEF Sound, Lost
<1>5. Balanced(heap, stack)
  BY <1>2, SoundNow
<1>6. CASE Proceeds /\ heap' = heap
  BY <1>1, <1>2, <1>5, <1>6, ProceedsSound
<1>7. CASE Proceeds /\ AddingPair
  <2> DEFINE a == reg[Step.key]
             b == reg[Step.item]
             pair == <<a, b>>
             l == Elements \o pair
             g == Holding(heap, In, l)
  <2>1. heap' = ClaimAll(g, pair)
    BY <1>7 DEF AddingPair
  <2>2. pair = <<a>> \o <<b>> /\ pair \in Seq(ItemId)
    BY <1>4
  <2>3. a \in Live /\ b \in Live
    BY <1>4
  <2>4. \A v : Count(pair, v) = One(a, v) + One(b, v)
    <3> DEFINE s == <<a>>
               t == <<b>>
    <3>1. /\ s \in Seq(ItemId) /\ \A v : Count(s, v) = One(a, v)
          /\ t \in Seq(ItemId) /\ \A v : Count(t, v) = One(b, v)
      BY <1>4, CountSingle
    <3>2. pair = s \o t
      BY <2>2
    <3> HIDE DEF s, t, pair, a, b
    <3>3. \A v : Count(s \o t, v) = Count(s, v) + Count(t, v)
      BY <3>1, CountConcat
    <3> QED
      BY <3>1, <3>2, <3>3
  <2> HIDE DEF a, b, pair
  <2>5. l \in Seq(ItemId) /\ \A v : Count(l, v) = Count(Elements, v) + Count(pair, v)
    BY <1>3, <2>2, CountConcat, ConcatProperties
  <2> HIDE DEF l
  <2>6. /\ HeapOK(g) /\ DOMAIN g = Live /\ Elems(g, In) = l
        /\ \A v : v # In => Elems(g, v) = Elems(heap, v)
        /\ \A v : Held(g, v) = Held(heap, v)
    BY <1>3, <2>5, HoldingHeap
  <2> HIDE DEF g
  <2>7. \A v \in ItemId : v \notin DOMAIN g => Count(pair, v) = 0
    BY <2>3, <2>4, <2>6 DEF One
  <2>8. /\ HeapOK(heap') /\ SameKids(heap', g)
        /\ \A v \in ItemId : Held(heap', v) = Held(g, v) + Count(pair, v)
    BY <2>1, <2>2, <2>6, <2>7, ClaimList
  <2>9. OthersAlike(heap', heap, In) /\ Elems(heap', In) = l
    BY <2>6, <2>8 DEF OthersAlike, SameKids
  <2>10. Passes(heap', heap, Elems(heap, In), Elems(heap', In))
    <3> SUFFICES ASSUME NEW v \in ItemId
                 PROVE  Held(heap', v) + Count(Elements, v) = Held(heap, v) + Count(l, v)
      BY <1>3, <2>9 DEF Passes
    <3>1. /\ Held(heap, v) \in Int /\ Count(Elements, v) \in Nat /\ Count(pair, v) \in Nat
      BY <1>3, <2>2, HeldType, CountType
    <3>2. Held(heap', v) = Held(heap, v) + Count(pair, v)
      BY <2>6, <2>8
    <3> QED
      BY <2>5, <3>1, <3>2
  <2>11. Idle(todo') /\ Doom'
    BY <1>7, WorkIsIdle, NoDoom DEF Proceeds
  <2> QED
    BY <1>1, <1>2, <1>3, <2>8, <2>9, <2>10, <2>11, ListMoves
<1>8. ASSUME NEW n \in KeyPositions, Replacing(n),
             todo' = <<MapStore(Step.in, n + 1, Step.item)>> \o Rest,
             doomed' = FreeIfUnClaimed(heap', Elements[n + 1])
      PROVE  Sound'
  <2> DEFINE k == n + 1
             old == Elements[k]
             s == MapStore(Step.in, k, Step.item)
             m == RemoveAt(Elements, k)
             dying == FreeIfUnClaimed(UnClaim(heap, old), old)
  <2>1. /\ heap' = UnClaim(heap, old) /\ After(dying, <<s>> \o Rest)
        /\ todo' = <<s>> \o Rest /\ doomed' = dying
    BY <1>8 DEF Replacing
  <2>2. k \in 1 .. Len(Elements)
    BY <1>3, PairPlaces
  <2>3. s.op = "mapStore" /\ s.in = Step.in /\ s.index = k /\ s.item = Step.item
    BY DEF MapStore
  <2> HIDE DEF k
  <2>4. old \in Live
    <3>1. k \in 1 .. Len(Elems(heap, In))
      BY <1>3, <2>2
    <3> QED
      BY <1>3, <1>5, <3>1, ElementIsLive
  <2>5. m \in Seq(ItemId) /\ \A v : Count(m, v) = Count(Elements, v) - One(old, v)
    <3>1. ASSUME NEW v
          PROVE  m \in Seq(ItemId) /\ Count(m, v) = Count(Elements, v) - One(Elements[k], v)
      BY <1>3, <2>2, CountRemoveAt
    <3> QED
      BY <3>1
  <2> HIDE DEF old, s, m
  <2>6. /\ HeapOK(heap') /\ DOMAIN heap' = Live /\ SameKids(heap', heap)
        /\ \A v : Held(heap', v) = Held(heap, v) - One(old, v)
    BY <1>3, <2>1, <2>4, UnClaimHeap
  <2>7. Doom'
    BY <2>1, <2>4, <2>6, FreedIsUnclaimed DEF Doom
  <2> HIDE DEF dying
  <2>8. /\ Storing' /\ todo' # Discarding /\ Step' = s /\ In' = In /\ reg' = reg
    <3>1. s.op \in {"store", "mapStore"} /\ s.in = Step.in /\ Rest \in Work
      BY <1>3, <2>3
    <3>2. After(dying, <<s>> \o Rest) /\ todo' = <<s>> \o Rest
      BY <2>1
    <3> QED
      BY <3>1, <3>2, StoreNext
  <2>9. Elements' = Elements
    BY <1>3, <2>6, <2>8 DEF Elements, SameKids, Elems
  <2>10. Settled' = Holding(heap', In, m)
    BY <2>3, <2>8, <2>9 DEF Settled, Pending, m
  <2>11. /\ HeapOK(Settled') /\ Elems(Settled', In) = m
         /\ \A v : v # In => Elems(Settled', v) = Elems(heap', v)
         /\ \A v : Held(Settled', v) = Held(heap', v)
    BY <1>3, <2>5, <2>6, <2>10, HoldingHeap
  <2>12. OthersAlike(Settled', heap, In)
    BY <2>6, <2>11 DEF OthersAlike, SameKids
  <2>13. Passes(Settled', heap, Elems(heap, In), Elems(Settled', In))
    <3>1. \A v \in ItemId : Held(Settled', v) = Held(heap, v) - One(old, v)
      BY <2>6, <2>11
    <3> QED
      BY <1>3, <2>5, <2>11, <3>1, PassesOut
  <2>14. Tidy'
    <3>1. DOMAIN Elements = 1 .. Len(Elements)
      BY <1>3, LenProperties
    <3>2. InBounds'
      BY <2>2, <2>3, <2>8, <2>9, <3>1 DEF InBounds
    <3> QED
      BY <2>8, <3>2 DEF Tidy
  <2>15. Stacked' = stack
    BY <1>2, <2>8 DEF Stacked
  <2> QED
    BY <1>1, <1>2, <1>3, <2>7, <2>11, <2>12, <2>13, <2>14, <2>15, StoreMoves
<1> QED
  BY <1>2, <1>6, <1>7, <1>8

----------------------------------------------------------------------------
(* The destructors.                                                        *)

(* A heap as if the element that is about to be stored was.                *)
Settle(h) == IF Storing THEN Holding(h, In, Pending) ELSE h

SameClaims(g, h) == \A v : Held(g, v) = Held(h, v)

(* The lists are those of the heap, but for the one to be changed.         *)
SettledLists(g, h) ==
  /\ \A v : ~(Storing /\ v = In) => Elems(g, v) = Elems(h, v)
  /\ Storing => Elems(g, In) = Pending

(* What is stored is a list of items, when the place is one of the list.   *)
LEMMA PendingType ==
  ASSUME Types, Storing, In \in Live, InBounds
  PROVE  Pending \in Seq(ItemId)
<1>1. todo # << >> /\ Step.op \in {"store", "mapStore"}
  BY DEF Storing
<1>2. CASE Step.op = "store"
  BY <1>1, <1>2, StoredType DEF Pending
<1>3. CASE Step.op = "mapStore"
  <2>1. Elements \in Seq(ItemId)
    BY MemoryHeap, ItemFields DEF Types, Elements
  <2>2. Step.index \in 1 .. Len(Elements)
    BY <1>3, <2>1, LenProperties DEF InBounds
  <2> DEFINE n == Step.index
             e == Elements
  <2>3. e \in Seq(ItemId) /\ n \in 1 .. Len(e)
    BY <2>1, <2>2
  <2>4. Pending = RemoveAt(e, n)
    BY <1>3 DEF Pending
  <2> HIDE DEF n, e
  <2>5. RemoveAt(e, n) \in Seq(ItemId)
    BY <2>3, CountRemoveAt
  <2> QED
    BY <2>4, <2>5
<1> QED
  BY <1>1, <1>2, <1>3

(* Putting what is pending in its place keeps types, claims and items.     *)
LEMMA SettledHeap ==
  ASSUME NEW h, HeapOK(h), Storing => In \in DOMAIN h /\ Pending \in Seq(ItemId)
  PROVE  /\ HeapOK(Settle(h)) /\ SameClaims(Settle(h), h) /\ SettledLists(Settle(h), h)
         /\ DOMAIN Settle(h) = DOMAIN h
<1>1. CASE Storing
  <2>1. In \in DOMAIN h /\ Pending \in Seq(ItemId) /\ Settle(h) = Holding(h, In, Pending)
    BY <1>1 DEF Settle
  <2>2. /\ HeapOK(Holding(h, In, Pending)) /\ DOMAIN Holding(h, In, Pending) = DOMAIN h
        /\ Elems(Holding(h, In, Pending), In) = Pending
        /\ \A v : v # In => Elems(Holding(h, In, Pending), v) = Elems(h, v)
        /\ \A v : Held(Holding(h, In, Pending), v) = Held(h, v)
    BY <2>1, HoldingHeap
  <2> QED
    BY <1>1, <2>1, <2>2 DEF SameClaims, SettledLists
<1>2. CASE ~Storing
  BY <1>2 DEF Settle, SameClaims, SettledLists
<1> QED
  BY <1>1, <1>2

(* A destructor does not change what the case is about to do.              *)
LEMMA DeleteKeeps ==
  ASSUME Types, DeleteItem
  PROVE  /\ todo' = todo /\ (todo # << >> => reg' = reg) /\ UNCHANGED <<stack, misused>>
         /\ Storing' = Storing /\ Stacked' = Stacked
         /\ todo = Discarding => reg'["x1"] = reg["x1"]
<1>1. todo' = todo /\ (todo # << >> => reg' = reg) /\ UNCHANGED <<stack, misused>>
  BY DEF DeleteItem, After, Go
<1>2. Storing' = Storing
  BY <1>1 DEF Storing, Step
<1>3. Discarding # << >>
  BY DEF Discarding
<1>4. Stacked' = Stacked
  BY <1>1, <1>3 DEF Stacked
<1> QED
  BY <1>1, <1>2, <1>3, <1>4

(* An element is stored in an item that is not deleted.                    *)
LEMMA DeleteSettles ==
  ASSUME Types, DeleteItem,
         Storing => (In \in Live /\ In \in Live' /\ heap'[In].kids = heap[In].kids)
  PROVE  /\ Settled' = Settle(heap') /\ Settled = Settle(heap)
         /\ (Storing => InBounds) => (Storing' => InBounds')
<1>1. Settled = Settle(heap)
  BY DEF Settled, Settle
<1>2. CASE ~Storing
  BY <1>1, <1>2, DeleteKeeps DEF Settled, Settle
<1>3. CASE Storing
  <2>1. /\ todo # << >> /\ Step.op \in {"store", "mapStore"}
        /\ todo' = todo /\ reg' = reg /\ Storing'
    BY <1>3, DeleteKeeps DEF Storing
  <2>2. Step' = Step /\ In' = In
    BY <2>1 DEF Step, In
  <2>3. Elements' = Elements
    BY <1>3, <2>2 DEF Elements
  <2>4. Stored' = Stored
    BY <2>1, <2>2, <2>3 DEF Stored
  <2>5. Pending' = Pending
    BY <2>2, <2>3, <2>4 DEF Pending
  <2>6. Settled' = Settle(heap')
    BY <1>3, <2>1, <2>2, <2>5 DEF Settled, Settle
  <2>7. InBounds => InBounds'
    BY <1>3, <2>1, <2>2, <2>3 DEF InBounds
  <2> QED
    BY <1>1, <1>3, <2>6, <2>7
<1> QED
  BY <1>2, <1>3

(* The list that is about to be changed stays in the way of no deletion.   *)
LEMMA DeleteLoses ==
  ASSUME Types, DeleteItem, Storing, In \notin Live \/ In \in Range(doomed),
         Live' \subseteq Live, Head(doomed) = In => In \notin Live' \/ In \in Range(doomed'),
         \A v \in Range(doomed) : v = Head(doomed) \/ v \in Range(doomed')
  PROVE  Sound'
<1>1. todo # << >> /\ todo' = todo /\ reg' = reg /\ Storing'
  BY DeleteKeeps DEF Storing
<1>2. In' = In
  BY <1>1 DEF In, Step
<1>3. In \notin Live' \/ In \in Range(doomed')
  OBVIOUS
<1> QED
  BY <1>1, <1>2, <1>3 DEF Sound, Lost

(* The heap and the lists after a step, and those before it, as if the     *)
(* element was stored.                                                     *)
LEMMA SettledMove ==
  ASSUME NEW g, NEW h, NEW gs, NEW hs, NEW i,
         SameClaims(gs, g), SameClaims(hs, h), SettledLists(gs, g), SettledLists(hs, h),
         OthersAlike(g, h, i), ~(Storing /\ i = In),
         Passes(g, h, Elems(h, i), Elems(g, i))
  PROVE  OthersAlike(gs, hs, i) /\ Passes(gs, hs, Elems(hs, i), Elems(gs, i))
<1>1. Elems(gs, i) = Elems(g, i) /\ Elems(hs, i) = Elems(h, i)
  BY DEF SettledLists
<1>2. \A v : Held(gs, v) = Held(g, v) /\ Held(hs, v) = Held(h, v)
  BY DEF SameClaims
<1>3. OthersAlike(gs, hs, i)
  <2> SUFFICES ASSUME NEW v \in ItemId \ {i}
               PROVE  Elems(gs, v) = Elems(hs, v)
    BY DEF OthersAlike
  <2>1. CASE Storing /\ v = In
    BY <2>1 DEF SettledLists
  <2>2. CASE ~(Storing /\ v = In)
    BY <2>2 DEF SettledLists, OthersAlike
  <2> QED
    BY <2>1, <2>2
<1>4. Passes(gs, hs, Elems(hs, i), Elems(gs, i))
  BY <1>1, <1>2 DEF Passes
<1> QED
  BY <1>3, <1>4

(* A destructor that is through, and one that gives up an element.         *)
Deleted(i) ==
  /\ heap[i].kids = << >> /\ heap' = [j \in DOMAIN heap \ {i} |-> heap[j]]
  /\ doomed' = Tail(doomed)

GivesUp(i, k) ==
  /\ heap[i].kids # << >> /\ k = Head(heap[i].kids) /\ k \in Live
  /\ heap' = UnClaim(Holding(heap, i, Tail(heap[i].kids)), k)
  /\ doomed' = FreeIfUnClaimed(heap', k) \o doomed

(* A destructor is through, or gives up its next element.                  *)
LEMMA DeleteCases ==
  ASSUME Types, DeleteItem
  PROVE  \E i \in Live : /\ doomed # << >> /\ i = Head(doomed)
                         /\ Deleted(i) \/ \E k : GivesUp(i, k)
<1> DEFINE i == Head(doomed)
<1>1. doomed # << >> /\ i \in Live /\ Dying \subseteq Live
  BY DEF DeleteItem, Dying
<1>2. CASE heap[i].kids = << >>
  <2>1. heap' = [j \in Live \ {i} |-> heap[j]] /\ doomed' = Tail(doomed)
    BY <1>2 DEF DeleteItem, After, Go
  <2> QED
    BY <1>1, <1>2, <2>1 DEF Deleted, Live
<1>3. CASE heap[i].kids # << >>
  <2> DEFINE k == Head(heap[i].kids)
  <2>1. k \in Live
    BY <1>1, <1>3 DEF Dying
  <2>2. /\ heap' = UnClaim(Holding(heap, i, Tail(heap[i].kids)), k)
        /\ doomed' = FreeIfUnClaimed(heap', k) \o doomed
    BY <1>3 DEF DeleteItem, After, Go
  <2>3. GivesUp(i, k)
    BY <1>3, <2>1, <2>2 DEF GivesUp
  <2> QED
    BY <1>1, <2>3
<1> QED
  BY <1>2, <1>3

(* The claims of what is deleted first.                                    *)
LEMMA DoomHead ==
  ASSUME NEW S, NEW s \in Seq(S), s # << >>
  PROVE  /\ Head(s) \in Range(s) /\ Head(s) \in S
         /\ \A v \in Range(s) : v = Head(s) \/ v \in Range(Tail(s))
         /\ \A v \in Range(Tail(s)) : v \in Range(s)
<1>1. /\ Len(s) \in Nat /\ DOMAIN s = 1 .. Len(s) /\ Len(s) # 0
  BY LenProperties, EmptySeq
<1>2. Head(s) = s[1] /\ 1 \in DOMAIN s
  BY <1>1
<1>3. /\ Tail(s) \in Seq(S) /\ Len(Tail(s)) = Len(s) - 1
      /\ \A k \in 1 .. Len(Tail(s)) : Tail(s)[k] = s[k + 1]
  BY HeadTailProperties
<1>4. DOMAIN Tail(s) = 1 .. Len(s) - 1
  BY <1>3, LenProperties
<1>5. \A k \in DOMAIN s : k = 1 \/ (k - 1 \in DOMAIN Tail(s) /\ s[k] = Tail(s)[k - 1])
  BY <1>1, <1>3, <1>4
<1>6. \A k \in DOMAIN Tail(s) : k + 1 \in DOMAIN s /\ Tail(s)[k] = s[k + 1]
  BY <1>1, <1>3, <1>4
<1> QED
  BY <1>2, <1>5, <1>6, ElementOfSeq DEF Range

(* The destructor of an item that holds nothing is through.                *)
LEMMA DeletedSound ==
  ASSUME Types, Sound, ~misused, DeleteItem, NEW i \in Live, doomed # << >>,
         i = Head(doomed), Deleted(i)
  PROVE  Sound'
<1>1. /\ HeapOK(heap) /\ DOMAIN heap = Live /\ Live \subseteq ItemId
      /\ doomed \in Seq(ItemId)
  BY MemoryHeap DEF Types, Flow
<1>2. Elems(heap, i) = << >>
  BY <1>1 DEF Elems, Deleted
<1>3. /\ HeapOK(heap') /\ DOMAIN heap' = Live \ {i} /\ AlikeBut(heap', heap, i)
      /\ Elems(heap', i) = << >> /\ Held(heap', i) = 0
  <2>1. heap' = [j \in DOMAIN heap \ {i} |-> heap[j]]
    BY DEF Deleted
  <2> QED
    BY <1>1, <2>1, DeletedHeap
<1>4. Live' = Live \ {i} /\ doomed' = Tail(doomed)
  BY <1>3 DEF Live, Deleted
<1>5. /\ i \in Range(doomed) /\ \A v \in Range(doomed) : v = i \/ v \in Range(doomed')
      /\ \A v \in Range(doomed') : v \in Range(doomed)
  BY <1>1, <1>4, DoomHead
<1>6. CASE Storing /\ (In \notin Live \/ In \in Range(doomed))
  BY <1>4, <1>5, <1>6, DeleteLoses
<1>7. CASE ~(Storing /\ (In \notin Live \/ In \in Range(doomed)))
  <2>1. Balanced(Settled, Stacked) /\ Doom /\ Tidy
    BY <1>7 DEF Sound, Lost
  <2>2. Held(heap, i) = 0
    BY <1>5, <2>1 DEF Doom
  <2>3. Storing => /\ In \in Live /\ In # i /\ In \in Live'
                   /\ heap'[In].kids = heap[In].kids
    <3>1. Storing => In \in Live /\ In # i
      BY <1>5, <1>7
    <3>2. \A j \in Live \ {i} : heap'[j] = heap[j]
      BY <1>1 DEF Deleted
    <3> QED
      BY <1>4, <3>1, <3>2
  <2>4. /\ Settled' = Settle(heap') /\ Settled = Settle(heap)
        /\ (Storing => InBounds) => (Storing' => InBounds')
    BY <2>3, DeleteSettles
  <2>5. Storing => Pending \in Seq(ItemId)
    BY <2>1, <2>3, PendingType DEF Tidy
  <2>6. SameClaims(Settle(heap), heap) /\ SettledLists(Settle(heap), heap)
    BY <1>1, <2>3, <2>5, SettledHeap
  <2>7. SameClaims(Settle(heap'), heap') /\ SettledLists(Settle(heap'), heap')
    <3>1. Storing => In \in DOMAIN heap' /\ Pending \in Seq(ItemId)
      BY <1>3, <2>3, <2>5
    <3> QED
      BY <1>3, <3>1, SettledHeap
  <2> DEFINE g == Settle(heap')
             h == Settle(heap)
  <2>8. SameClaims(h, heap) /\ SettledLists(h, heap) /\ SameClaims(g, heap') /\ SettledLists(g, heap')
    BY <2>6, <2>7
  <2>9. Settled' = g /\ Settled = h
    BY <2>4
  <2> HIDE DEF g, h
  <2>10. ASSUME NEW v
         PROVE  Elems(g, v) = Elems(h, v) /\ Held(g, v) = Held(h, v)
    <3>1. Held(heap', v) = Held(heap, v) /\ Elems(heap', v) = Elems(heap, v)
      BY <1>2, <1>3, <2>2 DEF AlikeBut
    <3>2. Held(g, v) = Held(h, v)
      BY <2>8, <3>1 DEF SameClaims
    <3>3. Elems(g, v) = Elems(h, v)
      BY <2>8, <3>1 DEF SettledLists
    <3> QED
      BY <3>2, <3>3
  <2>11. Balanced(g, Stacked)
    BY <2>1, <2>9, <2>10, NothingMoves
  <2>12. Doom'
    <3> SUFFICES ASSUME NEW v \in Range(doomed')
                 PROVE  Held(heap', v) = 0
      BY DEF Doom
    <3>1. Held(heap, v) = 0
      BY <1>5, <2>1 DEF Doom
    <3> QED
      BY <1>3, <3>1 DEF AlikeBut
  <2>13. Tidy'
    BY <2>1, <2>4, DeleteKeeps DEF Tidy
  <2> QED
    BY <2>9, <2>11, <2>12, <2>13, DeleteKeeps DEF Sound
<1> QED
  BY <1>6, <1>7

(* The destructor of a container gives up its first element.               *)
LEMMA GivesUpSound ==
  ASSUME Types, Sound, ~misused, DeleteItem, NEW i \in Live, doomed # << >>,
         i = Head(doomed), NEW k, GivesUp(i, k)
  PROVE  Sound'
<1> DEFINE kids == heap[i].kids
           l == Tail(kids)
<1>1. /\ HeapOK(heap) /\ DOMAIN heap = Live /\ Live \subseteq ItemId
      /\ doomed \in Seq(ItemId) /\ i \in ItemId
  BY MemoryHeap DEF Types, Flow
<1>2. /\ kids \in Seq(ItemId) /\ kids # << >> /\ k = Head(kids) /\ Elems(heap, i) = kids
      /\ k \in Live /\ k \in ItemId /\ heap' = UnClaim(Holding(heap, i, l), k)
      /\ doomed' = FreeIfUnClaimed(heap', k) \o doomed
  BY <1>1, ItemFields DEF Elems, GivesUp
<1> HIDE DEF kids
<1>3. /\ l \in Seq(ItemId)
      /\ \A v : Count(l, v) = Count(kids, v) - One(k, v)
      /\ Count(kids, k) \in Nat /\ Count(kids, k) > 0
  <2>1. l \in Seq(ItemId)
    BY <1>2, CountTail
  <2>2. ASSUME NEW v
        PROVE  Count(kids, v) = One(Head(kids), v) + Count(l, v)
    BY <1>2, CountTail
  <2> HIDE DEF l
  <2>3. ASSUME NEW v
        PROVE  Count(l, v) = Count(kids, v) - One(k, v)
    <3>1. Count(l, v) \in Nat /\ One(k, v) \in Nat
      BY <2>1, CountType DEF One
    <3> QED
      BY <1>2, <2>2, <3>1
  <2>4. Count(kids, k) \in Nat /\ Count(kids, k) > 0
    <3>1. Count(l, k) \in Nat /\ One(k, k) = 1
      BY <2>1, CountType DEF One
    <3> QED
      BY <1>2, <2>2, <3>1
  <2> QED
    BY <2>1, <2>3, <2>4
<1> HIDE DEF l
<1>4. /\ HeapOK(heap') /\ DOMAIN heap' = Live /\ Elems(heap', i) = l
      /\ OthersAlike(heap', heap, i) /\ Passes(heap', heap, Elems(heap, i), Elems(heap', i))
      /\ \A v : Held(heap', v) = Held(heap, v) - One(k, v)
  BY <1>1, <1>2, <1>3, LostElement
<1>5. Live' = Live
  BY <1>4 DEF Live
<1> DEFINE dying == FreeIfUnClaimed(heap', k)
<1>6. /\ i \in Range(doomed) /\ \A v \in Range(doomed) : v \in Range(doomed')
      /\ \A v \in Range(doomed') : v \in Range(doomed) \/ v \in Range(dying)
  <2>1. dying \in Seq(ItemId)
    BY <1>2, FreeIfUnClaimedType
  <2> HIDE DEF dying
  <2>2. Range(dying \o doomed) = Range(dying) \cup Range(doomed)
    BY <1>1, <2>1, RangeConcatenation
  <2>3. doomed' = dying \o doomed
    BY <1>2 DEF dying
  <2> QED
    BY <1>1, <2>2, <2>3, DoomHead
<1>7. CASE Storing /\ (In \notin Live \/ In \in Range(doomed))
  BY <1>5, <1>6, <1>7, DeleteLoses
<1>8. CASE ~(Storing /\ (In \notin Live \/ In \in Range(doomed)))
  <2>1. Balanced(Settled, Stacked) /\ Doom /\ Tidy
    BY <1>8 DEF Sound, Lost
  <2>2. Storing => /\ In \in Live /\ In # i /\ In \in Live'
                   /\ heap'[In].kids = heap[In].kids
    <3>1. Storing => In \in Live /\ In # i
      BY <1>6, <1>8
    <3>2. \A j \in ItemId \ {i} : Elems(heap', j) = Elems(heap, j)
      BY <1>4 DEF OthersAlike
    <3>3. \A j \in Live \ {i} : heap'[j].kids = heap[j].kids
      BY <1>1, <1>4, <3>2 DEF Elems
    <3> QED
      BY <1>5, <3>1, <3>3
  <2>3. /\ Settled' = Settle(heap') /\ Settled = Settle(heap)
        /\ (Storing => InBounds) => (Storing' => InBounds')
    BY <2>2, DeleteSettles
  <2>4. Storing => Pending \in Seq(ItemId)
    BY <2>1, <2>2, PendingType DEF Tidy
  <2> DEFINE g == Settle(heap')
             h == Settle(heap)
  <2>5. HeapOK(h) /\ SameClaims(h, heap) /\ SettledLists(h, heap) /\ DOMAIN h = Live
    BY <1>1, <2>2, <2>4, SettledHeap
  <2>6. HeapOK(g) /\ SameClaims(g, heap') /\ SettledLists(g, heap')
    <3>1. Storing => In \in DOMAIN heap' /\ Pending \in Seq(ItemId)
      BY <1>4, <2>2, <2>4
    <3> QED
      BY <1>4, <3>1, SettledHeap
  <2>7. Settled' = g /\ Settled = h
    BY <2>3
  <2> HIDE DEF g, h
  <2>8. OthersAlike(g, h, i) /\ Passes(g, h, Elems(h, i), Elems(g, i))
    BY <1>4, <2>2, <2>5, <2>6, SettledMove
  <2>9. Stacked \in StackType
    <3>1. reg["x1"] \in ItemId => [eval |-> Append(stack.eval, reg["x1"]), alt |-> stack.alt]
                                    \in StackType
      BY DEF Types, Memory, StackType
    <3>2. stack \in StackType
      BY DEF Types, Memory, StackType
    <3> QED
      BY <2>1, <3>1, <3>2 DEF Tidy, Stacked
  <2>10. Balanced(g, Stacked)
    BY <1>1, <2>1, <2>5, <2>6, <2>7, <2>8, <2>9, KidsMove
  <2>11. Doom'
    <3>1. k \notin Range(doomed)
      <4>1. Count(Elems(h, i), k) <= Held(h, k)
        BY <1>1, <1>2, <2>1, <2>5, <2>7, <2>9, KidsAreClaimed
      <4>2. Elems(h, i) = kids /\ Held(h, k) = Held(heap, k)
        BY <1>2, <2>2, <2>5 DEF SettledLists, SameClaims
      <4>3. Held(heap, k) # 0
        BY <1>3, <4>1, <4>2
      <4> QED
        BY <2>1, <4>3 DEF Doom
    <3>2. \A v \in Range(doomed) : Held(heap', v) = 0
      BY <1>4, <2>1, <3>1 DEF Doom, One
    <3>3. \A v \in Range(dying) : Held(heap', v) = 0
      BY <1>2, <1>4, FreedIsUnclaimed
    <3> QED
      BY <1>6, <3>2, <3>3 DEF Doom
  <2>12. Tidy'
    BY <2>1, <2>3, DeleteKeeps DEF Tidy
  <2> QED
    BY <2>7, <2>10, <2>11, <2>12, DeleteKeeps DEF Sound
<1> QED
  BY <1>7, <1>8

(* A step of a destructor preserves Sound, in whatever a container of the  *)
(* chain is waiting for.                                                   *)
LEMMA DeleteItemSound ==
  ASSUME Types, Sound, DeleteItem
  PROVE  Sound'
<1>1. CASE misused
  BY <1>1, DeleteKeeps DEF Sound, Lost
<1>2. CASE ~misused
  BY <1>2, DeleteCases, DeletedSound, GivesUpSound
<1> QED
  BY <1>1, <1>2

----------------------------------------------------------------------------
(* The invariant holds.                                                    *)

(* There are no items at first, and nothing refers to one.                 *)
LEMMA InitSound == Init => Sound
<1> SUFFICES ASSUME Init PROVE Sound
  OBVIOUS
<1> DEFINE F == ViewOf(heap, stack)
<1>1. DOMAIN heap = {} /\ stack.eval = << >> /\ stack.alt = << >>
  BY DEF Init
<1>2. DOMAIN F = Spots /\ \A p \in Spots : F[p] = << >>
  BY <1>1 DEF ViewOf, Elems
<1>3. \A v : Held(heap, v) = 0
  BY <1>1 DEF Held
<1> HIDE DEF F
<1>4. ASSUME NEW v
      PROVE  Total(F, v) = 0
  <2>1. \A p \in Spots : Where(F[p], v) = {}
    BY <1>2 DEF Where
  <2>2. Positions(F, v) = {}
    BY <1>2, <2>1 DEF Positions, PositionsIn
  <2> QED
    BY <2>2, FS_EmptySet DEF Total
<1>5. Balanced(heap, stack)
  BY <1>3, <1>4 DEF Balanced, Balances, F
<1>6. todo = << >> /\ doomed = << >>
  BY DEF Init
<1>7. Idle(todo) /\ Doom
  BY <1>6 DEF Idle, Doom, Range
<1> QED
  BY <1>5, <1>7, IdleNow DEF Sound, Lost, Settled, Stacked, Tidy

(* A step that changes nothing preserves Sound.                            *)
LEMMA StutterSound ==
  ASSUME Sound, UNCHANGED vars
  PROVE  Sound'
BY DEF vars, Sound, Lost, Settled, Stacked, Tidy, Doom, Storing, InBounds, Pending,
       Stored, Elements, In, Live, Step, Index

(* Every step preserves Sound.                                             *)
LEMMA NextSound ==
  ASSUME "CALL_ED" \notin Opcodes, Types, Sound, [Next]_vars
  PROVE  Sound'
<1>1. CASE SteadyNext
  BY <1>1, FetchSound, UseAfterFreeSound, ControlSound, ReadingSound, FreeSound,
     TakeItemSound, UnstackItemSound, InsertItemSound, PushElementsSound, ReleaseSound,
     AddElementSound, SetElementSound, StoreElementSound, EraseElementSound,
     ReverseElementsSound, SetValueSound, StoreValueSound, RemovePairSound DEF SteadyNext
<1> QED
  BY <1>1, NextIs, StutterSound, DeleteItemSound, CreateItemSound, CloneItemSound,
     CopyElementSound

(* In every state the claims of an item are its places in the stacks and   *)
(* in other items, once what the case is about to store is stored, until   *)
(* the engine uses an item that was deleted.                               *)
THEOREM Soundness ==
  ASSUME "CALL_ED" \notin Opcodes
  PROVE  Spec => [](Types /\ Sound)
<1>1. Init => Types /\ Sound
  BY InitTypes, InitSound
<1>2. Types /\ Sound /\ [Next]_vars => (Types /\ Sound)'
  BY NextTypes, NextSound
<1> QED
  BY <1>1, <1>2, PTL DEF Spec

----------------------------------------------------------------------------
(* What it implies.                                                        *)

(* What is in one of the lists exists.                                     *)
LEMMA SpotIsClaimed ==
  ASSUME NEW h, HeapOK(h), NEW st \in StackType, Balanced(h, st), NEW p \in Spots,
         NEW v \in Range(ViewOf(h, st)[p])
  PROVE  v \in DOMAIN h
<1> DEFINE F == ViewOf(h, st)
<1>1. F \in Families(Spots, ItemId) /\ IsFiniteSet(Spots) /\ F[p] \in Seq(ItemId)
  BY ViewType DEF Families
<1>2. v \in ItemId
  BY <1>1, RangeOfSeq
<1>3. Held(h, v) = Total(F, v)
  BY <1>2 DEF Balanced, Balances
<1>4. v \in Range(F[p])
  OBVIOUS
<1> HIDE DEF F
<1>5. Count(F[p], v) \in Nat /\ Count(F[p], v) # 0
  <2>1. Where(F[p], v) # {}
    BY <1>4 DEF Range, Where
  <2> QED
    BY <1>1, <2>1, CountType
<1>6. Cardinality(Others(F, p, v)) \in Nat /\ Total(F, v) = Cardinality(Others(F, p, v)) + Count(F[p], v)
  BY <1>1, TotalSplit
<1>7. Held(h, v) # 0
  BY <1>3, <1>5, <1>6
<1> QED
  BY <1>7 DEF Held

(* The references to an item, summed up.                                   *)
LEMMA ReferencesAreTotal ==
  ASSUME Types, NEW i \in Live
  PROVE  References(i) = Total(ViewOf(heap, stack), i)
<1> DEFINE none == << >>
           st == [eval |-> none, alt |-> none]
           F == ViewOf(heap, stack)
           G == ViewOf(heap, st)
<1>1. none \in Seq(ItemId)
  OBVIOUS
<1>2. HeapOK(heap) /\ DOMAIN heap = Live /\ Live \subseteq ItemId /\ stack \in StackType
  BY MemoryHeap DEF Types, Memory, StackType
<1>3. st \in StackType /\ st.eval = none /\ st.alt = none
  BY <1>1 DEF StackType
<1> HIDE DEF st
<1>4. /\ F \in Families(Spots, ItemId) /\ IsFiniteSet(Spots) /\ 0 \in Spots /\ -1 \in Spots
      /\ F[0] = stack.eval /\ F[-1] = stack.alt
      /\ \A p \in ItemId : p # 0 /\ p # -1 /\ F[p] = Elems(heap, p)
  BY <1>2, ViewType
<1>5. /\ G \in Families(Spots, ItemId) /\ G[0] = none /\ G[-1] = none
      /\ \A p \in ItemId : G[p] = Elems(heap, p)
  BY <1>2, <1>3, ViewType
<1> HIDE DEF F, G
<1>6. Agree(Spots \ {0, -1}, F, G)
  BY <1>4, <1>5 DEF Agree, Spots
<1>7. Total(G, i) + (Count(F[0], i) + Count(F[-1], i))
        = Total(F, i) + (Count(G[0], i) + Count(G[-1], i))
  <2> DEFINE p == 0
             q == -1
  <2>1. p \in Spots /\ q \in Spots /\ p # q /\ Agree(Spots \ {p, q}, F, G)
    BY <1>4, <1>6
  <2> HIDE DEF p, q
  <2>2. Total(G, i) + (Count(F[p], i) + Count(F[q], i))
          = Total(F, i) + (Count(G[p], i) + Count(G[q], i))
    BY <1>4, <1>5, <2>1, TotalChangedTwice
  <2> QED
    BY <2>2 DEF p, q
<1>8. Count(G[0], i) = 0 /\ Count(G[-1], i) = 0
  BY <1>5, CountEmpty
<1> DEFINE here(j) == {j} \X {n \in DOMAIN heap[j].kids : heap[j].kids[n] = i}
           held == UNION {here(j) : j \in Live}
<1>9. Positions(G, i) = held
  <2>1. DOMAIN G = Spots
    BY <1>5 DEF Families
  <2>2. \A j \in Live : {j} \X Where(G[j], i) = here(j)
    BY <1>2, <1>5 DEF Elems, Where
  <2>3. \A p \in Spots \ Live : Where(G[p], i) = {}
    BY <1>2, <1>5 DEF Elems, Where, Spots
  <2>4. \A p \in Spots \ Live : {p} \X Where(G[p], i) = {}
    BY <2>3
  <2>5. \A x : x \in Positions(G, i) <=> \E p \in Spots : x \in {p} \X Where(G[p], i)
    BY <2>1 DEF Positions, PositionsIn
  <2>6. \A x : x \in held <=> \E j \in Live : x \in here(j)
    OBVIOUS
  <2>7. Live \subseteq Spots
    BY <1>2 DEF Spots
  <2> HIDE DEF here, held
  <2>8. \A x : x \in Positions(G, i) <=> x \in held
    BY <2>2, <2>4, <2>5, <2>6, <2>7
  <2> QED
    BY <2>8
<1>10. Total(G, i) = Cardinality(held)
  BY <1>9 DEF Total
<1>11. References(i) = Count(F[0], i) + Count(F[-1], i) + Cardinality(held)
  BY <1>4, OccurrencesCount DEF References
<1>12. /\ Total(G, i) \in Nat /\ Total(F, i) \in Nat
       /\ Count(F[0], i) \in Nat /\ Count(F[-1], i) \in Nat
  <2>1. Total(G, i) \in Nat /\ Total(F, i) \in Nat
    BY <1>4, <1>5, TotalSplit
  <2>2. F[0] \in Seq(ItemId) /\ F[-1] \in Seq(ItemId)
    BY <1>4 DEF Families
  <2> QED
    BY <2>1, <2>2, CountType
<1> HIDE DEF held
<1> QED
  BY <1>7, <1>8, <1>10, <1>11, <1>12 DEF F

(* ClaimsAreReferences: between two instructions the claims of an item are *)
(* the references to it, and all references are to items that exist.       *)
THEOREM ClaimsAreBalanced ==
  ASSUME "CALL_ED" \notin Opcodes
  PROVE  Spec => []ClaimsAreReferences
<1>1. Types /\ Sound => ClaimsAreReferences
  <2> SUFFICES ASSUME Types, Sound, AtRest
               PROVE  /\ \A i \in Live : heap[i].claims = References(i)
                      /\ Range(stack.eval) \cup Range(stack.alt)
                           \cup UNION {Range(heap[i].kids) : i \in Live} \subseteq Live
    BY DEF ClaimsAreReferences
  <2>1. Balanced(heap, stack)
    BY SoundNow DEF AtRest, Idle
  <2>2. HeapOK(heap) /\ DOMAIN heap = Live /\ Live \subseteq ItemId /\ stack \in StackType
    BY MemoryHeap DEF Types, Memory, StackType
  <2>3. ASSUME NEW i \in Live
        PROVE  heap[i].claims = References(i)
    <3>1. heap[i].claims = Held(heap, i)
      BY <2>2 DEF Held
    <3>2. Held(heap, i) = Total(ViewOf(heap, stack), i)
      BY <2>1, <2>2 DEF Balanced, Balances
    <3> QED
      BY <3>1, <3>2, ReferencesAreTotal
  <2> DEFINE F == ViewOf(heap, stack)
  <2>4. \A p \in Spots : Range(F[p]) \subseteq Live
    BY <2>1, <2>2, SpotIsClaimed
  <2>5. /\ 0 \in Spots /\ -1 \in Spots /\ F[0] = stack.eval /\ F[-1] = stack.alt
        /\ \A p \in ItemId : p \in Spots /\ F[p] = Elems(heap, p)
    BY <2>2, ViewType
  <2> HIDE DEF F
  <2>6. Range(stack.eval) \subseteq Live /\ Range(stack.alt) \subseteq Live
    BY <2>4, <2>5
  <2>7. \A i \in Live : Range(heap[i].kids) \subseteq Live
    <3> TAKE i \in Live
    <3>1. F[i] = heap[i].kids /\ i \in Spots
      BY <2>2, <2>5 DEF Elems
    <3> QED
      BY <2>4, <3>1
  <2> QED
    BY <2>3, <2>6, <2>7
<1> QED
  BY <1>1, Soundness, PTL

(* LifetimeTypeOK: the variables have their types, and no claim is given   *)
(* up that was not made, unless a container stores an element while it is  *)
(* deleted.                                                                *)
THEOREM LifetimeTypes ==
  ASSUME "CALL_ED" \notin Opcodes
  PROVE  Spec => []LifetimeTypeOK
<1>1. Types /\ Sound => LifetimeTypeOK
  <2> SUFFICES ASSUME Types, Sound
               PROVE  LifetimeTypeOK
    OBVIOUS
  <2>1. /\ state \in {"NONE", "FAULT"}
        /\ heap \in [Live -> [type : Type, claims : Int, kids : Seq(ItemId)]]
        /\ Live \subseteq ItemId
        /\ stack \in [eval : Seq(ItemId), alt : Seq(ItemId)]
        /\ items \in Int /\ uncounted \in Nat
    BY DEF Types, Memory, ItemSet
  <2>2. /\ doomed \in Seq(ItemId) /\ number \in Nat
        /\ reg \in [Register -> ItemId \cup {Null}]
        /\ tangled \in BOOLEAN /\ misused \in BOOLEAN
        /\ executed \in 0 .. MaxInstructions
    BY DEF Types, Flow, Locals
  <2>3. ASSUME ~misused, ~Storing, NEW i \in Live
        PROVE  heap[i].claims >= 0
    <3>1. Balanced(heap, Stacked) /\ Tidy
      BY <2>3 DEF Sound, Lost, Settled
    <3>2. HeapOK(heap) /\ DOMAIN heap = Live /\ i \in ItemId
      BY <2>1, MemoryHeap DEF Types
    <3>3. Stacked \in StackType
      <4>1. reg["x1"] \in ItemId =>
              [eval |-> Append(stack.eval, reg["x1"]), alt |-> stack.alt] \in StackType
        BY <2>1 DEF StackType
      <4>2. stack \in StackType
        BY <2>1 DEF StackType
      <4> QED
        BY <3>1, <4>1, <4>2 DEF Tidy, Stacked
    <3> DEFINE F == ViewOf(heap, Stacked)
    <3>4. F \in Families(Spots, ItemId) /\ IsFiniteSet(Spots) /\ i \in Spots
      BY <3>2, <3>3, ViewType
    <3>5. Held(heap, i) = Total(F, i) /\ Held(heap, i) = heap[i].claims
      BY <3>1, <3>2 DEF Balanced, Balances, Held
    <3> HIDE DEF F
    <3>6. Total(F, i) \in Nat
      BY <3>4, TotalSplit
    <3> QED
      BY <3>5, <3>6
  <2> QED
    BY <2>1, <2>2, <2>3 DEF LifetimeTypeOK
<1> QED
  BY <1>1, Soundness, PTL
=============================================================================
