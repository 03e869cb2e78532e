------------------------ MODULE FrameLifetimeProofs ------------------------
(***************************************************************************)
(* Frames, items, the counter and the host, for all limits, any number of  *)
(* frames and items and whatever the host does: first that the frames that *)
(* leak are the named ones, then that claims are references and that the   *)
(* counter counts.                                                         *)
(*                                                                         *)
(* What a step does to a frame that is left is either nothing, or it       *)
(* empties it; every other frame that it writes to is on the invocation    *)
(* stack afterwards, or is abandoned.  The memory is sound for a table     *)
(* that says how many references there are to each item; what a step does  *)
(* to the memory is compared with what it does to the places that hold     *)
(* items.                                                                  *)
(***************************************************************************)
EXTENDS FrameLifetime, Counting, TLAPS, SequenceTheorems

(* The invocation stack holds contexts.                                    *)
Shape ==
  /\ contexts \in Seq(Range(contexts))
  /\ invocation \in Seq(DOMAIN contexts)

LeakInv == Shape /\ LeaksAreNamed

Empty(c) == c.eval = << >> /\ c.alt = << >>

Left == DOMAIN contexts \ (ToSet(invocation) \cup abandoned)

(* What a step may do.                                                     *)
Leaves ==
  /\ Shape'
  /\ \A c \in Left' : \/ c \in Left /\ contexts'[c] = contexts[c]
                      \/ Empty(contexts'[c])

(* A step that only leaves frames so keeps the invariant.                  *)
LEMMA LeavesNamed ==
  ASSUME LeakInv, Leaves
  PROVE  LeakInv'
BY DEF LeakInv, LeaksAreNamed, Leaves, Left, Empty

----------------------------------------------------------------------------
(* Sequences.                                                              *)

(* A sequence is one of its own elements.                                  *)
LEMMA SequenceOfItsOwn ==
  ASSUME NEW S, NEW s \in Seq(S)
  PROVE  s \in Seq(Range(s)) /\ DOMAIN s = 1 .. Len(s) /\ Len(s) \in Nat
<1>1. DOMAIN s = 1 .. Len(s) /\ Len(s) \in Nat
  BY LenProperties
<1>2. s \in [1 .. Len(s) -> Range(s)]
  BY <1>1 DEF Range
<1> QED
  BY <1>1, <1>2, SeqDef

(* Append: the elements, the length and the domain.                        *)
LEMMA Grown ==
  ASSUME NEW S, NEW s \in Seq(S), NEW v
  PROVE  /\ Append(s, v) \in Seq(S \cup {v})
         /\ Len(Append(s, v)) = Len(s) + 1
         /\ DOMAIN Append(s, v) = DOMAIN s \cup {Len(s) + 1}
         /\ \A i \in DOMAIN s : Append(s, v)[i] = s[i]
         /\ ToSet(Append(s, v)) = ToSet(s) \cup {v}
<1>1. s \in Seq(S \cup {v}) /\ Len(s) \in Nat /\ DOMAIN s = 1 .. Len(s)
  BY LenProperties
<1>2. /\ Append(s, v) \in Seq(S \cup {v}) /\ Len(Append(s, v)) = Len(s) + 1
      /\ \A i \in 1 .. Len(s) : Append(s, v)[i] = s[i]
      /\ Append(s, v)[Len(s) + 1] = v
  BY <1>1, AppendProperties
<1>3. DOMAIN Append(s, v) = 1 .. (Len(s) + 1)
  BY <1>1, <1>2, LenProperties
<1>4. 1 .. (Len(s) + 1) = 1 .. Len(s) \cup {Len(s) + 1}
  BY <1>1
<1>5. ToSet(Append(s, v)) = ToSet(s) \cup {v}
  BY <1>1, <1>2, <1>3, <1>4 DEF ToSet
<1> QED
  BY <1>1, <1>2, <1>3, <1>4, <1>5

(* EXCEPT on a sequence: the elements and the domain.                      *)
LEMMA Updated ==
  ASSUME NEW S, NEW s \in Seq(S), NEW i \in DOMAIN s, NEW v
  PROVE  /\ [s EXCEPT ![i] = v] \in Seq(S \cup {v})
         /\ DOMAIN [s EXCEPT ![i] = v] = DOMAIN s
         /\ [s EXCEPT ![i] = v][i] = v
         /\ \A j \in DOMAIN s \ {i} : [s EXCEPT ![i] = v][j] = s[j]
<1>1. s \in Seq(S \cup {v}) /\ DOMAIN s = 1 .. Len(s)
  BY LenProperties
<1> QED
  BY <1>1, ExceptSeq

(* Front and Last: the elements and the length.                            *)
LEMMA Shortened ==
  ASSUME NEW S, NEW s \in Seq(S), s # << >>
  PROVE  /\ Front(s) \in Seq(S) /\ Len(s) \in Nat \ {0}
         /\ Len(Front(s)) = Len(s) - 1
         /\ Last(s) \in S /\ Last(s) \in ToSet(s)
         /\ ToSet(s) = ToSet(Front(s)) \cup {Last(s)}
<1> DEFINE n == Len(s) - 1
<1>1. DOMAIN s = 1 .. Len(s) /\ Len(s) \in Nat \ {0}
  BY LenProperties, EmptySeq
<1>2. n \in Nat /\ 1 \in Int /\ Len(s) = n + 1
  BY <1>1
<1>3. \A i \in 1 .. n : s[i] \in S
  BY <1>1, ElementOfSeq
<1>4. Front(s) = SubSeq(s, 1, n)
  BY DEF Front
<1> HIDE DEF n
<1>5. /\ SubSeq(s, 1, n) \in Seq(S)
      /\ Len(SubSeq(s, 1, n)) = IF 1 <= n THEN n - 1 + 1 ELSE 0
      /\ \A i \in 1 .. n - 1 + 1 : SubSeq(s, 1, n)[i] = s[1 + i - 1]
  BY <1>2, <1>3, SubSeqProperties
<1>6. /\ Front(s) \in Seq(S) /\ Len(Front(s)) = n
      /\ \A i \in 1 .. n : Front(s)[i] = s[i]
  BY <1>2, <1>4, <1>5
<1>7. DOMAIN Front(s) = 1 .. n
  BY <1>6, LenProperties
<1>8. Last(s) = s[n + 1] /\ n + 1 \in DOMAIN s
  BY <1>1, <1>2 DEF Last
<1>9. 1 .. (n + 1) = 1 .. n \cup {n + 1}
  BY <1>2
<1>10. ToSet(s) = ToSet(Front(s)) \cup {Last(s)}
  BY <1>1, <1>2, <1>6, <1>7, <1>8, <1>9 DEF ToSet
<1> QED
  BY <1>1, <1>2, <1>6, <1>8, <1>10, ElementOfSeq

(* The frame that runs is a context, and on the stack.                     *)
LEMMA TopIsContext ==
  ASSUME Shape, invocation # << >>
  PROVE  /\ Top \in DOMAIN contexts /\ Top \in ToSet(invocation)
         /\ Front(invocation) \in Seq(DOMAIN contexts)
         /\ ToSet(invocation) = ToSet(Front(invocation)) \cup {Top}
BY Shortened DEF Shape, Top

----------------------------------------------------------------------------
(* The ways a step treats frames.                                          *)

(* It writes to none; those that leave the stack are abandoned.            *)
LEMMA KeptLeaves ==
  ASSUME LeakInv, UNCHANGED contexts, invocation' \in Seq(DOMAIN contexts),
         ToSet(invocation) \cup abandoned \subseteq ToSet(invocation') \cup abandoned'
  PROVE  Leaves
<1>1. Shape'
  BY DEF LeakInv, Shape
<1>2. \A c \in Left' : c \in Left /\ contexts'[c] = contexts[c]
  BY DEF Left
<1> QED
  BY <1>1, <1>2 DEF Leaves

(* It writes to one, and leaves it in its place or abandoned.              *)
LEMMA WrittenLeaves ==
  ASSUME LeakInv, NEW i \in DOMAIN contexts, NEW f,
         contexts' = [contexts EXCEPT ![i] = f],
         UNCHANGED invocation, abandoned \subseteq abandoned',
         i \in ToSet(invocation) \cup abandoned'
  PROVE  Leaves
<1>1. contexts \in Seq(Range(contexts)) /\ invocation \in Seq(DOMAIN contexts)
  BY DEF LeakInv, Shape
<1>2. /\ contexts' \in Seq(Range(contexts) \cup {f}) /\ DOMAIN contexts' = DOMAIN contexts
      /\ \A j \in DOMAIN contexts \ {i} : contexts'[j] = contexts[j]
  BY <1>1, Updated
<1>3. contexts' \in Seq(Range(contexts'))
  BY <1>2, SequenceOfItsOwn
<1>4. Shape'
  BY <1>1, <1>2, <1>3 DEF Shape, Range
<1>5. \A c \in Left' : c \in Left /\ contexts'[c] = contexts[c]
  BY <1>2 DEF Left, ToSet
<1> QED
  BY <1>4, <1>5 DEF Leaves

(* It pushes a frame, and writes to another that stays, or empties it.     *)
LEMMA EnteredLeaves ==
  ASSUME LeakInv, NEW f, NEW base \in Seq(DOMAIN contexts),
         invocation' = Append(base, New),
         NEW i \in DOMAIN contexts, NEW g,
         contexts' = [Append(contexts, f) EXCEPT ![i] = g],
         i \in ToSet(base) \/ Empty(g),
         ToSet(invocation) \subseteq ToSet(base) \cup {i},
         UNCHANGED abandoned
  PROVE  Leaves
<1> DEFINE D == DOMAIN contexts
           pushed == Append(contexts, f)
<1>1. contexts \in Seq(Range(contexts))
  BY DEF LeakInv, Shape
<1>2. /\ pushed \in Seq(Range(contexts) \cup {f}) /\ DOMAIN pushed = D \cup {New}
      /\ \A j \in D : pushed[j] = contexts[j]
  BY <1>1, Grown DEF New
<1> HIDE DEF pushed
<1>3. i \in DOMAIN pushed /\ contexts' = [pushed EXCEPT ![i] = g]
  BY <1>2 DEF pushed
<1>4. /\ contexts' \in Seq(Range(contexts) \cup {f} \cup {g})
      /\ DOMAIN contexts' = DOMAIN pushed /\ contexts'[i] = g
      /\ \A j \in DOMAIN pushed \ {i} : contexts'[j] = pushed[j]
  <2> DEFINE S == Range(contexts) \cup {f}
  <2>1. pushed \in Seq(S)
    BY <1>2
  <2> HIDE DEF S
  <2>2. /\ [pushed EXCEPT ![i] = g] \in Seq(S \cup {g})
        /\ DOMAIN [pushed EXCEPT ![i] = g] = DOMAIN pushed
        /\ [pushed EXCEPT ![i] = g][i] = g
        /\ \A j \in DOMAIN pushed \ {i} : [pushed EXCEPT ![i] = g][j] = pushed[j]
    BY <1>3, <2>1, Updated
  <2> QED
    BY <1>3, <2>2 DEF S
<1>5. contexts' \in Seq(Range(contexts'))
  BY <1>4, SequenceOfItsOwn
<1>6. /\ invocation' \in Seq(D \cup {New})
      /\ ToSet(invocation') = ToSet(base) \cup {New}
  <2> DEFINE n == New
  <2>1. base \in Seq(D) /\ invocation' = Append(base, n)
    OBVIOUS
  <2> HIDE DEF D, n
  <2>2. /\ Append(base, n) \in Seq(D \cup {n})
        /\ ToSet(Append(base, n)) = ToSet(base) \cup {n}
    <3>1. Append(base, n) \in Seq(D \cup {n})
      BY <2>1, Grown
    <3>2. ToSet(Append(base, n)) = ToSet(base) \cup {n}
      BY <2>1, Grown DEF ToSet
    <3> QED
      BY <3>1, <3>2
  <2>3. ToSet(invocation') = ToSet(Append(base, n))
    BY <2>1
  <2>4. invocation' \in Seq(D \cup {n}) /\ ToSet(invocation') = ToSet(base) \cup {n}
    BY <2>1, <2>2, <2>3
  <2> QED
    BY <2>4 DEF n
<1>7. Shape'
  <2>1. Range(contexts)' = Range(contexts')
    BY DEF Range
  <2> QED
    BY <1>2, <1>4, <1>5, <1>6, <2>1 DEF Shape
<1>8. ASSUME NEW c \in Left'
      PROVE  (c \in Left /\ contexts'[c] = contexts[c]) \/ Empty(contexts'[c])
  <2>1. c \in D /\ c \notin ToSet(base) /\ c \notin abandoned
    <3>1. c \in DOMAIN contexts' /\ c \notin ToSet(invocation') /\ c \notin abandoned'
      BY <1>8 DEF Left, ToSet
    <3> QED
      BY <1>2, <1>4, <1>6, <3>1
  <2>2. CASE c = i
    BY <1>4, <2>1, <2>2
  <2>3. CASE c # i
    BY <1>2, <1>4, <2>1, <2>3 DEF Left
  <2> QED
    BY <2>2, <2>3
<1> QED
  BY <1>7, <1>8 DEF Leaves

(* It loads a frame.                                                       *)
LEMMA LoadedLeaves ==
  ASSUME LeakInv, NEW f, invocation' = Append(invocation, New),
         contexts' = Append(contexts, f), UNCHANGED abandoned
  PROVE  Leaves
<1> DEFINE D == DOMAIN contexts
<1>1. contexts \in Seq(Range(contexts)) /\ invocation \in Seq(D)
  BY DEF LeakInv, Shape
<1>2. /\ contexts' \in Seq(Range(contexts) \cup {f}) /\ DOMAIN contexts' = D \cup {New}
      /\ \A j \in D : contexts'[j] = contexts[j]
  BY <1>1, Grown DEF New
<1>3. contexts' \in Seq(Range(contexts'))
  BY <1>2, SequenceOfItsOwn
<1>4. /\ invocation' \in Seq(D \cup {New})
      /\ ToSet(invocation') = ToSet(invocation) \cup {New}
  <2> DEFINE n == New
  <2>1. invocation \in Seq(D) /\ invocation' = Append(invocation, n)
    BY <1>1
  <2> HIDE DEF D, n
  <2>2. /\ Append(invocation, n) \in Seq(D \cup {n})
        /\ ToSet(Append(invocation, n)) = ToSet(invocation) \cup {n}
    <3>1. Append(invocation, n) \in Seq(D \cup {n})
      BY <2>1, Grown
    <3>2. ToSet(Append(invocation, n)) = ToSet(invocation) \cup {n}
      BY <2>1, Grown DEF ToSet
    <3> QED
      BY <3>1, <3>2
  <2>3. ToSet(invocation') = ToSet(Append(invocation, n))
    BY <2>1
  <2>4. invocation' \in Seq(D \cup {n}) /\ ToSet(invocation') = ToSet(invocation) \cup {n}
    BY <2>1, <2>2, <2>3
  <2> QED
    BY <2>4 DEF n
<1>5. Shape'
  <2>1. Range(contexts)' = Range(contexts')
    BY DEF Range
  <2> QED
    BY <1>2, <1>3, <1>4, <2>1 DEF Shape
<1>6. ASSUME NEW c \in Left'
      PROVE  c \in Left /\ contexts'[c] = contexts[c]
  <2>1. c \in DOMAIN contexts' /\ c \notin ToSet(invocation') /\ c \notin abandoned'
    BY <1>6 DEF Left, ToSet
  <2> QED
    BY <1>2, <1>4, <2>1 DEF Left
<1> QED
  BY <1>5, <1>6 DEF Leaves

(* It returns from the topmost, which it empties, to the one below or to   *)
(* the result stack.                                                       *)
LEMMA ReturnedLeaves ==
  ASSUME LeakInv, invocation # << >>, NEW g, Empty(g), NEW i, NEW h,
         \/ contexts' = [contexts EXCEPT ![Top] = g]
         \/ /\ i \in ToSet(Front(invocation))
            /\ contexts' = [[contexts EXCEPT ![Top] = g] EXCEPT ![i] = h],
         invocation' = Front(invocation), UNCHANGED abandoned
  PROVE  Leaves
<1> DEFINE D == DOMAIN contexts
           dropped == [contexts EXCEPT ![Top] = g]
<1>1. contexts \in Seq(Range(contexts)) /\ invocation \in Seq(D)
  BY DEF LeakInv, Shape
<1>2. /\ Top \in D /\ Front(invocation) \in Seq(D)
      /\ ToSet(invocation) = ToSet(Front(invocation)) \cup {Top}
  BY TopIsContext DEF LeakInv
<1>3. ToSet(Front(invocation)) \subseteq D
  <2>1. \A s \in Seq(D) : ToSet(s) \subseteq D
    BY LenProperties, ElementOfSeq DEF ToSet
  <2> QED
    BY <1>2, <2>1
<1>4. /\ dropped \in Seq(Range(contexts) \cup {g}) /\ DOMAIN dropped = D
      /\ dropped[Top] = g
      /\ \A j \in D \ {Top} : dropped[j] = contexts[j]
  <2> DEFINE t == Top
             S == Range(contexts)
  <2>1. t \in DOMAIN contexts /\ contexts \in Seq(S)
    BY <1>1, <1>2
  <2> HIDE DEF t, S
  <2>2. /\ [contexts EXCEPT ![t] = g] \in Seq(S \cup {g})
        /\ DOMAIN [contexts EXCEPT ![t] = g] = DOMAIN contexts
        /\ [contexts EXCEPT ![t] = g][t] = g
        /\ \A j \in DOMAIN contexts \ {t} : [contexts EXCEPT ![t] = g][j] = contexts[j]
    BY <2>1, Updated
  <2> QED
    BY <2>2 DEF t, S
<1> HIDE DEF dropped
<1>5. /\ contexts' \in Seq(Range(contexts) \cup {g} \cup {h})
      /\ DOMAIN contexts' = D
      /\ \A j \in D : \/ j \in ToSet(Front(invocation))
                      \/ j = Top /\ contexts'[j] = g
                      \/ contexts'[j] = contexts[j]
  <2>1. CASE contexts' = dropped
    <3>1. dropped \in Seq(Range(contexts) \cup {g} \cup {h})
      BY <1>4, LenProperties, SeqDef
    <3> QED
      BY <1>4, <2>1, <3>1
  <2>2. CASE /\ i \in ToSet(Front(invocation))
             /\ contexts' = [dropped EXCEPT ![i] = h]
    <3> DEFINE S == Range(contexts) \cup {g}
    <3>1. dropped \in Seq(S) /\ i \in DOMAIN dropped
      BY <1>3, <1>4, <2>2
    <3> HIDE DEF S
    <3>2. /\ [dropped EXCEPT ![i] = h] \in Seq(S \cup {h})
          /\ DOMAIN [dropped EXCEPT ![i] = h] = DOMAIN dropped
          /\ \A j \in DOMAIN dropped \ {i} : [dropped EXCEPT ![i] = h][j] = dropped[j]
      BY <3>1, Updated
    <3> QED
      BY <1>4, <2>2, <3>2 DEF S
  <2> QED
    BY <2>1, <2>2 DEF dropped
<1>6. contexts' \in Seq(Range(contexts'))
  BY <1>5, SequenceOfItsOwn
<1>7. Shape'
  <2>1. Range(contexts)' = Range(contexts')
    BY DEF Range
  <2> QED
    BY <1>2, <1>5, <1>6, <2>1 DEF Shape
<1>8. ASSUME NEW c \in Left'
      PROVE  (c \in Left /\ contexts'[c] = contexts[c]) \/ Empty(contexts'[c])
  <2>1. c \in DOMAIN contexts' /\ c \notin ToSet(invocation') /\ c \notin abandoned'
    BY <1>8 DEF Left, ToSet
  <2>2. c \in D /\ c \notin ToSet(Front(invocation)) /\ c \notin abandoned
    BY <1>5, <2>1
  <2> QED
    BY <1>2, <1>5, <2>2 DEF Left
<1> QED
  BY <1>7, <1>8 DEF Leaves

(* The host stores to a place of a frame that is called or abandoned.      *)
LEMMA StoredLeaves ==
  ASSUME LeakInv, NEW place \in Place, NEW s, Store(place, s),
         UNCHANGED invocation, abandoned \subseteq abandoned',
         place[1] \in ToSet(invocation) \cup abandoned' \cup {0}
  PROVE  Leaves
<1>1. CASE place[1] = 0
  BY <1>1, KeptLeaves DEF Store, LeakInv, Shape
<1>2. CASE place[1] # 0
  <2>1. place[1] \in DOMAIN contexts
    BY <1>2 DEF Place
  <2>2. PICK f : contexts' = [contexts EXCEPT ![place[1]] = f]
    BY <1>2 DEF Store
  <2> QED
    BY <1>2, <2>1, <2>2, WrittenLeaves
<1> QED
  BY <1>1, <1>2

----------------------------------------------------------------------------
(* The steps.                                                              *)

(* A case that changes no frame but the running one.                       *)
LEMMA InFrameLeaves ==
  ASSUME LeakInv, invocation # << >>, NEW eval, NEW alt, InFrame(eval, alt)
  PROVE  Leaves
<1>1. Top \in DOMAIN contexts /\ Top \in ToSet(invocation)
  BY TopIsContext DEF LeakInv
<1>2. PICK f : contexts' = [contexts EXCEPT ![Top] = f]
  BY DEF InFrame
<1>3. UNCHANGED <<invocation, abandoned>>
  BY DEF InFrame
<1> DEFINE t == Top
<1>4. t \in DOMAIN contexts /\ t \in ToSet(invocation) /\ contexts' = [contexts EXCEPT ![t] = f]
  BY <1>1, <1>2
<1> HIDE DEF t
<1> QED
  BY <1>3, <1>4, WrittenLeaves

(* Those that write to no frame.                                           *)
LEMMA QuietLeaves ==
  ASSUME LeakInv,
         NoContext \/ Fault \/ HostCreate \/ HostFree \/ Clean \/ EngineFree
  PROVE  Leaves
<1>1. UNCHANGED contexts
  BY DEF NoContext, Fault, HostCreate, HostFree, Clean, EngineFree
<1>2. CASE UNCHANGED <<invocation, abandoned>>
  BY <1>1, <1>2, KeptLeaves DEF LeakInv, Shape
<1>3. CASE invocation' = << >> /\ abandoned' = abandoned \cup ToSet(invocation)
  <2>1. invocation' \in Seq(DOMAIN contexts)
    BY <1>3
  <2> QED
    BY <1>1, <1>3, <2>1, KeptLeaves
<1> QED
  BY <1>2, <1>3
  DEF NoContext, Fault, HostCreate, HostFree, Clean, EngineFree, HostUnchanged,
      EngineUnchanged

(* The instructions on the items of the running frame.                     *)
LEMMA ItemsLeave ==
  ASSUME LeakInv, PushNew \/ Dup \/ Drop \/ ToAltStack \/ FromAltStack
  PROVE  Leaves
<1>1. invocation # << >> /\ \E eval, alt : InFrame(eval, alt)
  BY DEF PushNew, Dup, Drop, ToAltStack, FromAltStack, Instruction
<1> QED
  BY <1>1, InFrameLeaves

(* LoadScript pushes an empty frame.                                       *)
LEMMA LoadScriptLeaves ==
  ASSUME LeakInv, LoadScript
  PROVE  Leaves
<1>1. /\ contexts' = Append(contexts, Frame(<< >>, << >>, -1))
      /\ invocation' = Append(invocation, New) /\ UNCHANGED abandoned
  BY DEF LoadScript, Pushed
<1> QED
  BY <1>1, LoadedLeaves

(* CALL pushes a frame on the one that runs.                               *)
LEMMA CallLeaves ==
  ASSUME LeakInv, NEW rvcount, NEW pcount, Call(rvcount, pcount)
  PROVE  Leaves
<1>1. Top \in DOMAIN contexts /\ Top \in ToSet(invocation)
  BY TopIsContext DEF LeakInv, Call, Instruction
<1>2. invocation \in Seq(DOMAIN contexts)
  BY DEF LeakInv, Shape
<1>3. PICK f, g : contexts' = [Append(contexts, f) EXCEPT ![Top] = g]
  BY DEF Call, Pushed
<1>4. invocation' = Append(invocation, New) /\ UNCHANGED abandoned
  BY DEF Call
<1> DEFINE t == Top
<1>5. /\ t \in DOMAIN contexts /\ t \in ToSet(invocation)
      /\ contexts' = [Append(contexts, f) EXCEPT ![t] = g]
  BY <1>1, <1>3
<1> HIDE DEF t
<1> QED
  BY <1>2, <1>4, <1>5, EnteredLeaves

(* A tail call puts the frame in the place of the caller's, and empties it.*)
LEMMA LoadedFrameLeaves ==
  ASSUME LeakInv, invocation # << >>, NEW pcount, NEW rvcount, NEW tail \in BOOLEAN,
         Loaded(pcount, rvcount, tail), UNCHANGED abandoned
  PROVE  Leaves
<1> DEFINE base == IF tail THEN Front(invocation) ELSE invocation
           f == Frame(Sent(Cur.eval, pcount), << >>, rvcount)
           g == IF tail THEN Emptied(Send(Cur, pcount)) ELSE Send(Cur, pcount)
           t == Top
<1>1. /\ t \in DOMAIN contexts /\ base \in Seq(DOMAIN contexts)
      /\ ToSet(invocation) \subseteq ToSet(base) \cup {t}
      /\ tail \/ t \in ToSet(base)
  BY TopIsContext DEF LeakInv, Shape
<1>2. tail => Empty(g)
  BY DEF Empty, Emptied, Frame
<1>3. /\ invocation' = Append(base, New)
      /\ contexts' = [Append(contexts, f) EXCEPT ![t] = g]
  BY DEF Loaded, Pushed
<1> HIDE DEF base, f, g, t
<1> QED
  BY <1>1, <1>2, <1>3, EnteredLeaves

(* CALL_E and CALL_ET push a frame or replace the one that runs by it.     *)
LEMMA CallELeaves ==
  ASSUME LeakInv, NEW rvcount, NEW pcount, NEW tail \in BOOLEAN,
         CallE(rvcount, pcount, tail)
  PROVE  Leaves
BY LoadedFrameLeaves DEF CallE, Instruction

(* So do APPCALL and TAILCALL, which may fault on the depth instead.       *)
LEMMA AppCallLeaves ==
  ASSUME LeakInv, NEW tail \in BOOLEAN, AppCall(tail)
  PROVE  Leaves
<1>1. invocation # << >> /\ UNCHANGED abandoned
  BY DEF AppCall, Instruction
<1>2. CASE Loaded(-1, -1, tail)
  BY <1>1, <1>2, LoadedFrameLeaves
<1>3. CASE contexts' = Pushed(<< >>, -1) /\ invocation' = Append(invocation, New)
  <2>1. contexts' = Append(contexts, Frame(<< >>, << >>, -1))
    BY <1>3 DEF Pushed
  <2> QED
    BY <1>1, <1>3, <2>1, LoadedLeaves
<1> QED
  BY <1>2, <1>3 DEF AppCall

(* RET empties the frame it pops, or abandons it.                          *)
LEMMA RetLeaves ==
  ASSUME LeakInv, Ret
  PROVE  Leaves
<1>1. invocation # << >> /\ invocation' = Front(invocation)
  BY DEF Ret, Instruction
<1>2. /\ Front(invocation) \in Seq(DOMAIN contexts)
      /\ ToSet(invocation) = ToSet(Front(invocation)) \cup {Top}
  BY <1>1, TopIsContext DEF LeakInv
<1>3. CASE UNCHANGED contexts /\ abandoned' = abandoned \cup {Top}
  BY <1>1, <1>2, <1>3, KeptLeaves
<1>4. CASE ~(Cur.rv > Len(Cur.eval))
  <2> DEFINE g == Emptied(Send(Cur, Cur.rv))
             dropped == [contexts EXCEPT ![Top] = g]
             i == Last(Front(invocation))
             h == Frame(dropped[i].eval \o Sent(Cur.eval, Cur.rv), dropped[i].alt, dropped[i].rv)
  <2>1. Empty(g)
    BY DEF Empty, Emptied, Frame
  <2>2. UNCHANGED abandoned
    BY <1>4 DEF Ret
  <2>3. CASE Len(invocation) = 1
    <3>1. contexts' = dropped
      BY <1>4, <2>3 DEF Ret
    <3> HIDE DEF g, i, h
    <3> QED
      BY <1>1, <2>1, <2>2, <3>1, ReturnedLeaves
  <2>4. CASE Len(invocation) # 1
    <3>1. contexts' = [dropped EXCEPT ![i] = h]
      BY <1>4, <2>4 DEF Ret
    <3>2. i \in ToSet(Front(invocation))
      <4>1. Front(invocation) # << >>
        <5>1. Len(invocation) \in Nat \ {0} /\ Len(Front(invocation)) = Len(invocation) - 1
          BY <1>1, Shortened DEF LeakInv, Shape
        <5> QED
          BY <2>4, <5>1, EmptySeq
      <4> QED
        BY <1>2, <4>1, Shortened
    <3> HIDE DEF g, i, h
    <3> QED
      BY <1>1, <2>1, <2>2, <3>1, <3>2, ReturnedLeaves
  <2> QED
    BY <2>3, <2>4
<1> QED
  BY <1>3, <1>4 DEF Ret

(* What the host may take from is called, abandoned or the result stack.   *)
LEMMA HostLeaves ==
  ASSUME LeakInv, NEW place \in Place,
         HostPop(place) \/ HostPeek(place) \/ HostPush(place) \/ HostDrop(place)
  PROVE  Leaves
<1>1. CASE HostPeek(place)
  BY <1>1, KeptLeaves DEF HostPeek, EngineUnchanged, LeakInv, Shape
<1>2. CASE HostPush(place)
  <2>1. PICK s : Store(place, s)
    BY <1>2 DEF HostPush
  <2>2. /\ UNCHANGED invocation
        /\ abandoned' = abandoned \cup ({place[1]} \ (ToSet(invocation) \cup {0}))
    BY <1>2 DEF HostPush
  <2> QED
    BY <2>1, <2>2, StoredLeaves
<1>3. CASE HostPop(place) \/ HostDrop(place)
  <2>1. PICK s : Store(place, s)
    BY <1>3 DEF HostPop, HostDrop
  <2>2. UNCHANGED <<invocation, abandoned>>
    BY <1>3 DEF HostPop, HostDrop, EngineUnchanged
  <2>3. At(place) # << >>
    BY <1>3 DEF HostPop, HostDrop
  <2>4. place[1] \in ToSet(invocation) \cup abandoned \cup {0}
    <3>1. SUFFICES ASSUME place[1] # 0, place[1] \notin ToSet(invocation) \cup abandoned
                   PROVE  FALSE
      OBVIOUS
    <3>2. place[1] \in DOMAIN contexts
      BY <3>1 DEF Place
    <3>3. Empty(contexts[place[1]])
      BY <3>1, <3>2 DEF LeakInv, LeaksAreNamed, Empty
    <3> QED
      BY <2>3, <3>1, <3>3 DEF At, Empty
  <2> QED
    BY <2>1, <2>2, <2>4, StoredLeaves
<1> QED
  BY <1>1, <1>2, <1>3

----------------------------------------------------------------------------
(* Nothing was called yet.                                                 *)
LEMMA LeakInvInit ==
  ASSUME Init
  PROVE  LeakInv
BY DEF Init, LeakInv, Shape, LeaksAreNamed

(* Every step leaves frames so.                                            *)
LEMMA LeakInvNext ==
  ASSUME LeakInv, [Next]_vars
  PROVE  LeakInv'
<1>1. CASE UNCHANGED vars
  BY <1>1, KeptLeaves, LeavesNamed DEF vars, LeakInv, Shape
<1>2. CASE InternalStepInto
  <2>1. Leaves
    BY <1>2, QuietLeaves, ItemsLeave, RetLeaves, CallLeaves, CallELeaves, AppCallLeaves
    DEF InternalStepInto
  <2> QED
    BY <2>1, LeavesNamed
<1>3. CASE Host
  <2>1. Leaves
    BY <1>3, QuietLeaves, LoadScriptLeaves, HostLeaves DEF Host
  <2> QED
    BY <2>1, LeavesNamed
<1> QED
  BY <1>1, <1>2, <1>3 DEF Next

(* A frame that left the invocation stack holds nothing, unless RET found  *)
(* too few results, Clean or the destructor dropped it, or the host pushed *)
(* to it since: Clear of an ExecutionContext is called for all others.     *)
THEOREM NamedLeaks == Spec => []LeaksAreNamed
<1>1. Init => LeakInv
  BY LeakInvInit
<1>2. LeakInv /\ [Next]_vars => LeakInv'
  BY LeakInvNext
<1>3. LeakInv => LeaksAreNamed
  BY DEF LeakInv
<1> QED
  BY <1>1, <1>2, <1>3, PTL DEF Spec


----------------------------------------------------------------------------
(* Finite sets.                                                            *)

(* An item less: what it does to the items counted and to those counted    *)
(* off.                                                                    *)
LEMMA Removed ==
  ASSUME NEW L, IsFiniteSet(L), NEW S, IsFiniteSet(S), NEW i \in L
  PROVE  /\ IsFiniteSet(L \ {i}) /\ Cardinality(L) \in Nat
         /\ Cardinality(L \ {i}) = Cardinality(L) - 1
         /\ Cardinality(L \ S) \in Nat /\ Cardinality(S \ L) \in Nat
         /\ Cardinality((L \ {i}) \ S) - Cardinality(S \ (L \ {i}))
              = Cardinality(L \ S) - Cardinality(S \ L) - 1
<1>1. /\ IsFiniteSet(L \ S) /\ IsFiniteSet(S \ L)
      /\ Cardinality(L \ S) \in Nat /\ Cardinality(S \ L) \in Nat
      /\ Cardinality(L) \in Nat
  BY FS_Difference, FS_CardinalityType
<1>2. IsFiniteSet(L \ {i}) /\ Cardinality(L \ {i}) = Cardinality(L) - 1
  BY FS_RemoveElement
<1>3. CASE i \in S
  <2>1. (L \ {i}) \ S = L \ S /\ S \ (L \ {i}) = (S \ L) \cup {i} /\ i \notin S \ L
    BY <1>3
  <2>2. Cardinality((S \ L) \cup {i}) = Cardinality(S \ L) + 1
    BY <1>1, <2>1, FS_AddElement
  <2>3. Cardinality(S \ (L \ {i})) = Cardinality(S \ L) + 1
    BY <2>1, <2>2
  <2>4. Cardinality((L \ {i}) \ S) = Cardinality(L \ S)
    BY <2>1
  <2> QED
    BY <1>1, <1>2, <2>3, <2>4
<1>4. CASE i \notin S
  <2>1. (L \ {i}) \ S = (L \ S) \ {i} /\ S \ (L \ {i}) = S \ L /\ i \in L \ S
    BY <1>4
  <2>2. Cardinality((L \ S) \ {i}) = Cardinality(L \ S) - 1
    BY <1>1, <2>1, FS_RemoveElement
  <2>3. Cardinality((L \ {i}) \ S) = Cardinality(L \ S) - 1
    BY <2>1, <2>2
  <2>4. Cardinality(S \ (L \ {i})) = Cardinality(S \ L)
    BY <2>1
  <2> QED
    BY <1>1, <1>2, <2>3, <2>4
<1> QED
  BY <1>3, <1>4

(* An item more.                                                           *)
LEMMA Added ==
  ASSUME NEW L, IsFiniteSet(L), NEW S, IsFiniteSet(S), NEW i, i \notin L, i \notin S
  PROVE  /\ IsFiniteSet(L \cup {i}) /\ Cardinality(L) \in Nat
         /\ Cardinality(L \cup {i}) = Cardinality(L) + 1
         /\ Cardinality(L \ S) \in Nat /\ Cardinality(S \ L) \in Nat
         /\ Cardinality((L \cup {i}) \ S) = Cardinality(L \ S) + 1
         /\ Cardinality(S \ (L \cup {i})) = Cardinality(S \ L)
<1>1. /\ IsFiniteSet(L \ S) /\ IsFiniteSet(S \ L)
      /\ Cardinality(L \ S) \in Nat /\ Cardinality(S \ L) \in Nat
      /\ Cardinality(L) \in Nat
  BY FS_Difference, FS_CardinalityType
<1>2. IsFiniteSet(L \cup {i}) /\ Cardinality(L \cup {i}) = Cardinality(L) + 1
  BY FS_AddElement
<1>3. (L \cup {i}) \ S = (L \ S) \cup {i} /\ S \ (L \cup {i}) = S \ L /\ i \notin L \ S
  OBVIOUS
<1>4. Cardinality((L \ S) \cup {i}) = Cardinality(L \ S) + 1
  BY <1>1, <1>3, FS_AddElement
<1>5. Cardinality((L \cup {i}) \ S) = Cardinality(L \ S) + 1
  BY <1>3, <1>4
<1>6. Cardinality(S \ (L \cup {i})) = Cardinality(S \ L)
  BY <1>3
<1> QED
  BY <1>1, <1>2, <1>5, <1>6

----------------------------------------------------------------------------
(* The memory.                                                             *)

(* The items 1 .. n that have references exist, with as many claims.       *)
Accounts(m, n, R) ==
  /\ DOMAIN m.claims = {i \in 1 .. n : R[i] > 0}
  /\ m.claims = [i \in DOMAIN m.claims |-> R[i]]

(* The counter is used by every item, and by the engine or not; it counts  *)
(* what is new and was refused less what was old, as long as it exists.    *)
Counted(m, e, S, r) ==
  /\ ~m.misused
  /\ m.counter = e + Cardinality(DOMAIN m.claims)
  /\ m.items \in Int
  /\ m.counter > 0 =>
       m.items = r + (Cardinality(DOMAIN m.claims \ S) - Cardinality(S \ DOMAIN m.claims))

Sound(m, n, R, e, S, r) == Accounts(m, n, R) /\ Counted(m, e, S, r)

Table(n) == [1 .. n -> Nat]

(* No item is new.                                                         *)
Fewer(d, m) == DOMAIN d.claims \subseteq DOMAIN m.claims

(* The items that exist are finitely many, and were made.                  *)
LEMMA LiveFinite ==
  ASSUME NEW n \in Nat, NEW R, NEW m, Accounts(m, n, R)
  PROVE  IsFiniteSet(DOMAIN m.claims) /\ DOMAIN m.claims \subseteq 1 .. n
<1>1. DOMAIN m.claims \subseteq 1 .. n
  BY DEF Accounts
<1>2. IsFiniteSet(1 .. n)
  BY FS_Interval
<1> QED
  BY <1>1, <1>2, FS_Subset

(* A claim for another reference to an item that has one.                  *)
LEMMA ClaimSound ==
  ASSUME NEW n \in Nat, NEW R \in Table(n), NEW Q \in Table(n), NEW m, NEW e, NEW S, NEW r,
         Sound(m, n, R, e, S, r), NEW i \in 1 .. n, R[i] > 0,
         \A j \in 1 .. n : Q[j] = R[j] + One(i, j)
  PROVE  Sound(Claim(m, i), n, Q, e, S, r)
<1>1. Exists(m, i) /\ m.claims[i] = R[i]
  BY DEF Sound, Accounts, Exists
<1>2. Claim(m, i) = Memory([m.claims EXCEPT ![i] = m.claims[i] + 1], m.items, m.counter, m.misused)
  BY <1>1 DEF Claim, Claimed
<1> DEFINE k == [m.claims EXCEPT ![i] = m.claims[i] + 1]
<1>3. DOMAIN k = DOMAIN m.claims
  OBVIOUS
<1>4. DOMAIN m.claims = {j \in 1 .. n : Q[j] > 0}
  <2>1. \A j \in 1 .. n : R[j] > 0 <=> Q[j] > 0
    BY DEF One, Table
  <2> QED
    BY <2>1 DEF Sound, Accounts
<1>5. k = [j \in DOMAIN k |-> Q[j]]
  <2>1. DOMAIN m.claims \subseteq 1 .. n /\ m.claims = [j \in DOMAIN m.claims |-> R[j]]
    BY <1>4 DEF Sound, Accounts
  <2>2. ASSUME NEW j \in DOMAIN m.claims
        PROVE  k[j] = Q[j]
    <3>1. j \in 1 .. n /\ m.claims[j] = R[j]
      BY <2>1
    <3>2. k[j] = IF j = i THEN R[i] + 1 ELSE R[j]
      BY <1>1, <3>1
    <3> QED
      BY <3>1, <3>2 DEF One, Table
  <2> QED
    BY <1>3, <2>2
<1> HIDE DEF k
<1>6. /\ Claim(m, i).claims = k /\ Claim(m, i).items = m.items
      /\ Claim(m, i).counter = m.counter /\ Claim(m, i).misused = m.misused
  BY <1>2 DEF Memory, k
<1>7. Accounts(Claim(m, i), n, Q)
  BY <1>3, <1>4, <1>5, <1>6 DEF Accounts
<1>8. Counted(Claim(m, i), e, S, r)
  BY <1>3, <1>6 DEF Counted, Sound
<1> QED
  BY <1>7, <1>8 DEF Sound

(* A reference less: the item is deleted with the last one.                *)
LEMMA FreeSound ==
  ASSUME NEW n \in Nat, NEW R \in Table(n), NEW Q \in Table(n), NEW m, NEW e \in {0, 1},
         NEW S \in SUBSET (1 .. n), NEW r \in Nat,
         Sound(m, n, R, e, S, r), NEW i \in 1 .. n,
         \A j \in 1 .. n : R[j] = Q[j] + One(i, j)
  PROVE  /\ Sound(UnclaimAndFree(m, i), n, Q, e, S, r)
         /\ Fewer(UnclaimAndFree(m, i), m)
<1>1. R[i] = Q[i] + 1 /\ Q[i] \in Nat
  BY DEF One, Table
<1>2. Exists(m, i) /\ m.claims[i] = R[i] /\ m.claims = [j \in DOMAIN m.claims |-> R[j]]
  BY <1>1 DEF Sound, Accounts, Exists
<1> DEFINE k == [m.claims EXCEPT ![i] = m.claims[i] - 1]
           u == UnClaim(m, i)
<1>3. u = Memory(k, m.items, m.counter, m.misused)
  BY <1>2 DEF UnClaim, Claimed
<1>4. DOMAIN k = DOMAIN m.claims
  OBVIOUS
<1>5. k = [j \in DOMAIN m.claims |-> Q[j]]
  <2>1. DOMAIN m.claims \subseteq 1 .. n
    BY DEF Sound, Accounts
  <2>2. \A j \in DOMAIN m.claims : k[j] = Q[j]
    BY <1>1, <1>2, <2>1 DEF One, Table
  <2> QED
    BY <1>4, <2>2
<1>6. u.claims = k /\ u.items = m.items /\ u.counter = m.counter /\ u.misused = m.misused
  BY <1>3 DEF Memory
<1>7. IsFiniteSet(DOMAIN m.claims) /\ IsFiniteSet(S)
  <2>1. IsFiniteSet(1 .. n)
    BY FS_Interval
  <2> QED
    BY <2>1, LiveFinite, FS_Subset DEF Sound
<1> HIDE DEF k, u
<1>8. CASE Q[i] > 0
  <2>1. UnclaimAndFree(m, i) = u
    BY <1>2, <1>4, <1>5, <1>6, <1>8 DEF UnclaimAndFree, Free, Exists, u
  <2>2. DOMAIN m.claims = {j \in 1 .. n : Q[j] > 0}
    <3>1. \A j \in 1 .. n : R[j] > 0 <=> Q[j] > 0
      BY <1>8 DEF One, Table
    <3> QED
      BY <3>1 DEF Sound, Accounts
  <2>3. Accounts(u, n, Q)
    BY <1>4, <1>5, <1>6, <2>2 DEF Accounts
  <2>4. Counted(u, e, S, r)
    BY <1>4, <1>6 DEF Counted, Sound
  <2> QED
    BY <1>4, <1>6, <2>1, <2>3, <2>4 DEF Sound, Fewer
<1>9. CASE Q[i] = 0
  <2>1. UnclaimAndFree(m, i) = Delete(u, i)
    BY <1>2, <1>4, <1>5, <1>6, <1>9 DEF UnclaimAndFree, Free, Exists, u
  <2> DEFINE L == DOMAIN m.claims
             w == Without(k, i)
             d == Delete(u, i)
  <2>2. d = Memory(w, IF m.counter = 1 THEN m.items ELSE m.items - 1, m.counter - 1,
                   m.misused \/ m.counter <= 0)
    BY <1>6 DEF Delete
  <2>3. w = [j \in L \ {i} |-> Q[j]]
    BY <1>4, <1>5 DEF Without
  <2>4. L \ {i} = {j \in 1 .. n : Q[j] > 0}
    <3>1. \A j \in 1 .. n : Q[j] > 0 <=> j # i /\ R[j] > 0
      BY <1>9 DEF One, Table
    <3> QED
      BY <3>1 DEF Sound, Accounts
  <2>5. i \in L
    BY <1>2 DEF Exists
  <2> HIDE DEF w, d
  <2>6. /\ d.claims = w /\ d.counter = m.counter - 1
        /\ d.items = IF m.counter = 1 THEN m.items ELSE m.items - 1
        /\ d.misused = (m.misused \/ m.counter <= 0)
    BY <2>2 DEF Memory
  <2>7. Accounts(d, n, Q) /\ DOMAIN d.claims = L \ {i}
    BY <2>3, <2>4, <2>6 DEF Accounts
  <2>8. /\ Cardinality(L) \in Nat /\ Cardinality(L \ {i}) = Cardinality(L) - 1
        /\ IsFiniteSet(L \ {i})
        /\ Cardinality(L \ S) \in Nat /\ Cardinality(S \ L) \in Nat
        /\ Cardinality((L \ {i}) \ S) - Cardinality(S \ (L \ {i}))
             = Cardinality(L \ S) - Cardinality(S \ L) - 1
    BY <1>7, <2>5, Removed
  <2>9. Cardinality(L \ {i}) \in Nat
    BY <2>8, FS_CardinalityType
  <2>10. Cardinality((L \ {i}) \ S) \in Nat /\ Cardinality(S \ (L \ {i})) \in Nat
    BY <1>7, <2>8, FS_Difference, FS_CardinalityType
  <2>11. /\ ~m.misused /\ m.counter = e + Cardinality(L) /\ m.items \in Int
         /\ m.counter > 0 => m.items = r + (Cardinality(L \ S) - Cardinality(S \ L))
    BY DEF Sound, Counted
  <2> HIDE DEF L
  <2>12. ~d.misused /\ d.counter = e + Cardinality(L \ {i}) /\ d.items \in Int
    <3>1. m.counter # 0
      BY <2>8, <2>9, <2>11
    <3>2. m.counter \in Nat
      BY <2>8, <2>11
    <3>3. ~(m.counter <= 0)
      BY <3>1, <3>2
    <3>4. ~d.misused
      BY <2>6, <2>11, <3>3
    <3>5. d.counter = e + Cardinality(L \ {i})
      BY <2>6, <2>8, <2>9, <2>11
    <3> QED
      BY <2>6, <2>11, <3>4, <3>5
  <2>13. d.counter > 0 =>
           d.items = r + (Cardinality((L \ {i}) \ S) - Cardinality(S \ (L \ {i})))
    BY <2>6, <2>8, <2>9, <2>10, <2>11
  <2>14. Counted(d, e, S, r)
    BY <2>7, <2>12, <2>13 DEF Counted
  <2> QED
    BY <2>1, <2>7, <2>14 DEF Sound, Fewer, d, L
<1> QED
  BY <1>1, <1>8, <1>9

(* What the host takes over is unclaimed, not freed, and claimed again.    *)
LEMMA AdoptSound ==
  ASSUME NEW n \in Nat, NEW R \in Table(n), NEW m, NEW e, NEW S, NEW r,
         Sound(m, n, R, e, S, r), NEW i \in 1 .. n, R[i] > 0
  PROVE  Sound(Adopted(UnClaim(m, i), i), n, R, e, S, r)
<1> DEFINE k == [m.claims EXCEPT ![i] = m.claims[i] - 1]
           l == [k EXCEPT ![i] = k[i] + 1]
           u == UnClaim(m, i)
           a == Adopted(u, i)
<1>1. /\ i \in DOMAIN m.claims /\ m.claims[i] = R[i] /\ R[i] \in Nat
      /\ m.claims = [j \in DOMAIN m.claims |-> R[j]]
  BY DEF Sound, Accounts, Table
<1>2. u = Memory(k, m.items, m.counter, m.misused)
  BY <1>1 DEF UnClaim, Claimed, Exists
<1>3. DOMAIN k = DOMAIN m.claims /\ k[i] = R[i] - 1
  BY <1>1
<1>4. l = m.claims
  BY <1>1, <1>3
<1> HIDE DEF k, l, u
<1>5. u.claims = k /\ u.items = m.items /\ u.counter = m.counter /\ u.misused = m.misused
  BY <1>2 DEF Memory
<1>6. a = Memory(l, m.items, m.counter, m.misused)
  BY <1>1, <1>3, <1>5 DEF Adopted, Claim, Claimed, Exists, l
<1> HIDE DEF a
<1>7. /\ a.claims = m.claims /\ a.items = m.items /\ a.counter = m.counter
      /\ a.misused = m.misused
  BY <1>4, <1>6 DEF Memory
<1>8. Sound(a, n, R, e, S, r)
  BY <1>7 DEF Sound, Accounts, Counted
<1> QED
  BY <1>8 DEF a, u

(* A new item, with its first reference.                                   *)
LEMMA CreateSound ==
  ASSUME NEW R \in Table(born), NEW Q \in Table(born + 1), NEW m, NEW S \in SUBSET (1 .. born),
         NEW e \in {0, 1}, NEW r \in Nat, born \in Nat,
         Sound(m, born, R, e, S, r), m.counter > 0, ~Refuses(m), MaxItems \in Nat,
         \A j \in 1 .. born : Q[j] = R[j], Q[born + 1] = 1
  PROVE  /\ Sound(Claim(Created(m), born + 1), born + 1, Q, e, S, r)
         /\ Cardinality(DOMAIN Claim(Created(m), born + 1).claims)
              <= MaxItems + Cardinality(S)
<1> DEFINE b == born + 1
           L == DOMAIN m.claims
           z == [j \in L \cup {b} |-> IF j = b THEN 0 ELSE m.claims[j]]
           k == [z EXCEPT ![b] = z[b] + 1]
           c == Created(m)
           d == Claim(c, b)
<1>1. /\ L \subseteq 1 .. born /\ L = {j \in 1 .. born : R[j] > 0}
      /\ m.claims = [j \in L |-> R[j]]
  BY DEF Sound, Accounts
<1>2. b \notin 1 .. born /\ 1 .. b = (1 .. born) \cup {b} /\ b \in Nat
  OBVIOUS
<1>3. c = Memory(z, m.items + 1, m.counter + 1, m.misused)
  BY DEF Created
<1>4. DOMAIN k = L \cup {b} /\ z[b] = 0 /\ DOMAIN z = L \cup {b}
  OBVIOUS
<1>5. k = [j \in L \cup {b} |-> Q[j]]
  <2>1. k[b] = Q[b]
    BY <1>4
  <2>2. ASSUME NEW j \in L
        PROVE  k[j] = Q[j]
    <3>1. j # b /\ j \in 1 .. born /\ m.claims[j] = R[j]
      BY <1>1, <1>2
    <3>2. k[j] = m.claims[j]
      BY <3>1
    <3> QED
      BY <3>1, <3>2
  <2> QED
    BY <1>4, <2>1, <2>2
<1>6. L \cup {b} = {j \in 1 .. b : Q[j] > 0}
  <2>1. \A j \in 1 .. born : j # b
    BY <1>2
  <2> QED
    BY <1>1, <1>2, <2>1
<1> HIDE DEF z, k, c
<1>7. c.claims = z /\ c.items = m.items + 1 /\ c.counter = m.counter + 1 /\ c.misused = m.misused
  BY <1>3 DEF Memory
<1>8. d = Memory(k, m.items + 1, m.counter + 1, m.misused)
  BY <1>4, <1>7 DEF Claim, Claimed, Exists, k
<1> HIDE DEF d
<1>9. d.claims = k /\ d.items = m.items + 1 /\ d.counter = m.counter + 1 /\ d.misused = m.misused
  BY <1>8 DEF Memory
<1>10. Accounts(d, b, Q) /\ DOMAIN d.claims = L \cup {b}
  BY <1>4, <1>5, <1>6, <1>9 DEF Accounts
<1>11. IsFiniteSet(L) /\ IsFiniteSet(S) /\ b \notin L /\ b \notin S
  <2>1. IsFiniteSet(1 .. born)
    BY FS_Interval
  <2> QED
    BY <1>1, <1>2, <2>1, FS_Subset
<1> HIDE DEF b, L
<1>12. /\ IsFiniteSet(L \cup {b}) /\ Cardinality(L) \in Nat
       /\ Cardinality(L \cup {b}) = Cardinality(L) + 1
       /\ Cardinality(L \ S) \in Nat /\ Cardinality(S \ L) \in Nat
       /\ Cardinality((L \cup {b}) \ S) = Cardinality(L \ S) + 1
       /\ Cardinality(S \ (L \cup {b})) = Cardinality(S \ L)
  BY <1>11, Added
<1>13. /\ ~m.misused /\ m.counter = e + Cardinality(L) /\ m.items \in Int
       /\ m.items = r + (Cardinality(L \ S) - Cardinality(S \ L))
  BY DEF Sound, Counted, L
<1>14. Counted(d, e, S, r)
  BY <1>9, <1>10, <1>12, <1>13 DEF Counted
<1>15. Cardinality(L \cup {b}) <= MaxItems + Cardinality(S)
  <2>1. m.items + 1 <= MaxItems
    BY <1>13 DEF Refuses
  <2>2. Cardinality(L \ S) = Cardinality(L) - Cardinality(L \cap S)
    BY <1>11, FS_Difference
  <2>3. Cardinality(S \ L) = Cardinality(S) - Cardinality(S \cap L)
    BY <1>11, FS_Difference
  <2>4. S \cap L = L \cap S
    OBVIOUS
  <2>5. Cardinality(S \ L) = Cardinality(S) - Cardinality(L \cap S)
    BY <2>3, <2>4
  <2>6. IsFiniteSet(L \cap S)
    BY <1>11, FS_Subset
  <2>7. Cardinality(L \cap S) \in Nat /\ Cardinality(S) \in Nat
    BY <1>11, <2>6, FS_CardinalityType
  <2>8. Cardinality(L) + 1 <= MaxItems + Cardinality(S)
    <3>1. Cardinality(L \ S) + 1 <= MaxItems + Cardinality(S \ L)
      BY <1>12, <1>13, <2>1
    <3> QED
      BY <1>12, <2>2, <2>5, <2>7, <3>1
  <2> QED
    BY <1>12, <2>8
<1> QED
  BY <1>10, <1>14, <1>15 DEF Sound, d, c, b

(* An item that is refused is counted.                                     *)
LEMMA RefuseSound ==
  ASSUME NEW n \in Nat, NEW R \in Table(n), NEW m, NEW S \in SUBSET (1 .. n),
         NEW e \in {0, 1}, NEW r \in Nat, Sound(m, n, R, e, S, r), Refuses(m)
  PROVE  Sound(Created(m), n, R, e, S, r + 1) /\ Fewer(Created(m), m)
<1> DEFINE c == Created(m)
           L == DOMAIN m.claims
<1>1. c = Memory(m.claims, m.items + 1, m.counter, m.misused)
  BY DEF Created
<1> HIDE DEF c
<1>2. /\ c.claims = m.claims /\ c.items = m.items + 1 /\ c.counter = m.counter
      /\ c.misused = m.misused
  BY <1>1 DEF Memory
<1>3. Cardinality(L \ S) \in Nat /\ Cardinality(S \ L) \in Nat
  <2>1. IsFiniteSet(1 .. n)
    BY FS_Interval
  <2>2. IsFiniteSet(L \ S) /\ IsFiniteSet(S \ L)
    BY <2>1, LiveFinite, FS_Subset, FS_Difference DEF Sound
  <2> QED
    BY <2>2, FS_CardinalityType
<1>4. /\ ~m.misused /\ m.counter = e + Cardinality(L) /\ m.items \in Int
      /\ m.counter > 0 => m.items = r + (Cardinality(L \ S) - Cardinality(S \ L))
  BY DEF Sound, Counted
<1>5. Accounts(c, n, R)
  BY <1>2 DEF Sound, Accounts
<1>6. /\ ~c.misused /\ c.counter = e + Cardinality(L) /\ c.items \in Int
      /\ c.counter > 0 => c.items = (r + 1) + (Cardinality(L \ S) - Cardinality(S \ L))
  <2> HIDE DEF L
  <2> QED
    BY <1>2, <1>3, <1>4
<1>7. Counted(c, e, S, r + 1)
  BY <1>2, <1>6 DEF Counted
<1> QED
  BY <1>2, <1>5, <1>7 DEF Sound, Fewer, c

(* Clean starts to count again, from the items there are.                  *)
LEMMA RestartSound ==
  ASSUME NEW n \in Nat, NEW R, NEW m, NEW S, NEW e, NEW r, Sound(m, n, R, e, S, r)
  PROVE  Sound(Memory(m.claims, 0, m.counter, m.misused), n, R, e, DOMAIN m.claims, 0)
<1> DEFINE c == Memory(m.claims, 0, m.counter, m.misused)
<1>1. c.claims = m.claims /\ c.items = 0 /\ c.counter = m.counter /\ c.misused = m.misused
  BY DEF Memory
<1> HIDE DEF c
<1>2. Cardinality(DOMAIN c.claims \ DOMAIN m.claims) = 0
      /\ Cardinality(DOMAIN m.claims \ DOMAIN c.claims) = 0
  BY <1>1, FS_EmptySet
<1>3. Counted(c, e, DOMAIN m.claims, 0)
  BY <1>1, <1>2 DEF Sound, Counted
<1>4. Accounts(c, n, R)
  BY <1>1 DEF Sound, Accounts
<1> QED
  BY <1>3, <1>4 DEF Sound, c

(* The engine gives up the counter.                                        *)
LEMMA GiveUpSound ==
  ASSUME NEW n \in Nat, NEW R, NEW m, NEW S, NEW r, Sound(m, n, R, 1, S, r)
  PROVE  Sound(UnClaimCounter(m), n, R, 0, S, r) /\ UnClaimCounter(m).claims = m.claims
<1> DEFINE c == UnClaimCounter(m)
<1>1. /\ c.claims = m.claims /\ c.items = m.items /\ c.counter = m.counter - 1
      /\ c.misused = m.misused
  BY DEF Memory, UnClaimCounter
<1>2. Cardinality(DOMAIN m.claims) \in Nat
  BY LiveFinite, FS_CardinalityType DEF Sound
<1> HIDE DEF c
<1>3. Counted(c, 0, S, r)
  BY <1>1, <1>2 DEF Sound, Counted
<1>4. Accounts(c, n, R)
  BY <1>1 DEF Sound, Accounts
<1> QED
  BY <1>1, <1>3, <1>4 DEF Sound, c

(* Clear goes through the states of the memory, an item at a time.         *)
LEMMA ClearedSteps ==
  ASSUME NEW S, NEW s \in Seq(S), NEW m
  PROVE  \E f : /\ f[0] = m
                /\ \A n \in 1 .. Len(s) : f[n] = UnclaimAndFree(f[n - 1], s[Len(s) + 1 - n])
                /\ Cleared(m, s) = f[Len(s)]
<1> DEFINE l == Len(s)
           step(f, n) == IF n = 0 THEN m ELSE UnclaimAndFree(f[n - 1], s[l + 1 - n])
           N == {k \in 0 .. l : \E f : f = [n \in 0 .. k |-> step(f, n)]}
<1>1. l \in Nat
  BY LenProperties
<1>2. 0 \in N
  <2> DEFINE f == [n \in 0 .. 0 |-> m]
  <2>1. \A n \in 0 .. 0 : f[n] = step(f, n)
    OBVIOUS
  <2>2. f = [n \in 0 .. 0 |-> f[n]]
    OBVIOUS
  <2> HIDE DEF f, step
  <2>3. f = [n \in 0 .. 0 |-> step(f, n)]
    BY <2>1, <2>2
  <2> QED
    BY <1>1, <2>3
<1>3. ASSUME NEW k \in 0 .. l - 1, k \in N
      PROVE  k + 1 \in N
  <2>1. PICK f : f = [n \in 0 .. k |-> step(f, n)]
    BY <1>3
  <2> DEFINE g == [n \in 0 .. k + 1 |-> IF n = k + 1 THEN step(f, k + 1) ELSE f[n]]
  <2>2. ASSUME NEW n \in 0 .. k + 1
        PROVE  g[n] = step(g, n)
    <3>1. CASE n = k + 1
      <4>1. g[n] = step(f, k + 1) /\ g[n - 1] = f[k]
        BY <1>1, <3>1
      <4> QED
        BY <1>1, <3>1, <4>1
    <3>2. CASE n # k + 1
      <4>1. n \in 0 .. k
        BY <3>2
      <4>2. g[n] = f[n] /\ f[n] = step(f, n)
        BY <2>1, <4>1
      <4>3. n # 0 => g[n - 1] = f[n - 1]
        BY <4>1
      <4> QED
        BY <4>2, <4>3
    <3> QED
      BY <3>1, <3>2
  <2>3. g = [n \in 0 .. k + 1 |-> step(g, n)]
    BY <2>2
  <2> HIDE DEF g, step
  <2> QED
    BY <1>1, <2>3
<1>4. l \in N
  <2> HIDE DEF N, step
  <2>1. \A n \in 0 .. l : n \in N
    BY <1>1, <1>2, <1>3, IntervalByInduction
  <2> QED
    BY <1>1, <2>1
<1> DEFINE after == CHOOSE f : f = [n \in 0 .. l |-> step(f, n)]
<1>5. after = [n \in 0 .. l |-> step(after, n)]
  <2>1. \E f : f = [n \in 0 .. l |-> step(f, n)]
    BY <1>4
  <2> HIDE DEF step
  <2> QED
    BY <2>1
<1>6. Cleared(m, s) = after[l]
  BY DEF Cleared
<1> HIDE DEF after
<1>7. after[0] = m
  BY <1>1, <1>5
<1>8. ASSUME NEW n \in 1 .. l
      PROVE  after[n] = UnclaimAndFree(after[n - 1], s[l + 1 - n])
  <2>1. n \in 0 .. l /\ n # 0
    BY <1>1
  <2>2. after[n] = step(after, n)
    <3> HIDE DEF step
    <3> QED
      BY <1>5, <2>1
  <2> QED
    BY <2>1, <2>2
<1> QED
  BY <1>6, <1>7, <1>8

(* Every place of the sequence that is cleared was a reference.            *)
LEMMA ClearSound ==
  ASSUME NEW n \in Nat, NEW R \in Table(n), NEW Q \in Table(n), NEW m, NEW e \in {0, 1},
         NEW S \in SUBSET (1 .. n), NEW r \in Nat,
         Sound(m, n, R, e, S, r), NEW s \in Seq(1 .. n),
         \A j \in 1 .. n : R[j] = Q[j] + Count(s, j)
  PROVE  /\ Sound(Cleared(m, s), n, Q, e, S, r)
         /\ Fewer(Cleared(m, s), m)
<1> DEFINE l == Len(s)
<1>1. l \in Nat
  BY LenProperties
<1>2. PICK f : /\ f[0] = m
               /\ \A k \in 1 .. l : f[k] = UnclaimAndFree(f[k - 1], s[l + 1 - k])
               /\ Cleared(m, s) = f[l]
  BY ClearedSteps
<1> DEFINE P(k) == [j \in 1 .. n |-> Q[j] + Count(SubSeq(s, 1, l - k), j)]
           N == {k \in 0 .. l : /\ Sound(f[k], n, P(k), e, S, r)
                                /\ Fewer(f[k], m)}
<1>3. \A k \in 0 .. l : P(k) \in Table(n)
  <2>1. ASSUME NEW k \in 0 .. l, NEW j \in 1 .. n
        PROVE  Count(SubSeq(s, 1, l - k), j) \in Nat
    <3>1. l - k \in 0 .. Len(s)
      BY <1>1
    <3>2. SubSeq(s, 1, l - k) \in Seq(1 .. n)
      BY <3>1, Cut
    <3> QED
      BY <3>2, CountType
  <2> QED
    BY <2>1 DEF Table
<1>4. P(0) = R
  <2>1. SubSeq(s, 1, l - 0) = s
    BY <1>1, SubSeqFull
  <2> QED
    BY <2>1 DEF Table
<1>5. 0 \in N
  <2> HIDE DEF P
  <2> QED
    BY <1>1, <1>2, <1>4 DEF Fewer
<1>6. ASSUME NEW k \in 0 .. l - 1, k \in N
      PROVE  k + 1 \in N
  <2> DEFINE i == s[l - k]
             A == P(k)
             B == P(k + 1)
  <2>1. l - k \in 1 .. Len(s) /\ k \in 0 .. l /\ k + 1 \in 1 .. l /\ k + 1 \in 0 .. l
    BY <1>1
  <2>2. i \in 1 .. n
    BY <2>1, ElementOfSeq
  <2>3. f[k + 1] = UnclaimAndFree(f[k], i)
    <3>1. (k + 1) - 1 = k /\ l + 1 - (k + 1) = l - k
      BY <1>1
    <3> QED
      BY <1>2, <2>1, <3>1
  <2>4. \A j \in 1 .. n : A[j] = B[j] + One(i, j)
    <3>1. SUFFICES ASSUME NEW j \in 1 .. n PROVE A[j] = B[j] + One(i, j)
      OBVIOUS
    <3>2. Count(SubSeq(s, 1, l - k), j) = Count(SubSeq(s, 1, l - k - 1), j) + One(i, j)
      BY <2>1, CountPrefix
    <3>3. l - (k + 1) = l - k - 1
      BY <1>1
    <3>4. A[j] = Q[j] + Count(SubSeq(s, 1, l - k), j)
      OBVIOUS
    <3>5. B[j] = Q[j] + Count(SubSeq(s, 1, l - k - 1), j)
      BY <3>3
    <3>6. B \in Table(n) /\ Q[j] \in Nat /\ One(i, j) \in Nat
      BY <1>3, <2>1 DEF Table, One
    <3>7. Count(SubSeq(s, 1, l - k - 1), j) \in Nat
      <4>1. l - k - 1 \in 0 .. Len(s)
        BY <1>1
      <4>2. SubSeq(s, 1, l - k - 1) \in Seq(1 .. n)
        BY <4>1, Cut
      <4> QED
        BY <4>2, CountType
    <3> HIDE DEF A, B, i
    <3> QED
      BY <3>2, <3>4, <3>5, <3>6, <3>7
  <2>5. A \in Table(n) /\ B \in Table(n)
    BY <1>3, <2>1
  <2>6. Sound(f[k], n, A, e, S, r) /\ Fewer(f[k], m)
    BY <1>6
  <2> DEFINE c == f[k]
  <2>7. Sound(c, n, A, e, S, r)
    BY <2>6
  <2> HIDE DEF A, B, i, P, l, c, N
  <2>8. Sound(UnclaimAndFree(c, i), n, B, e, S, r) /\ Fewer(UnclaimAndFree(c, i), c)
    <3>1. \A d : \A K, L \in Table(n) : \A x \in 1 .. n :
            Sound(d, n, K, e, S, r) /\ (\A j \in 1 .. n : K[j] = L[j] + One(x, j)) =>
              Sound(UnclaimAndFree(d, x), n, L, e, S, r) /\ Fewer(UnclaimAndFree(d, x), d)
      BY FreeSound
    <3> QED
      BY <2>2, <2>4, <2>5, <2>7, <3>1
  <2>9. Sound(f[k + 1], n, B, e, S, r) /\ Fewer(f[k + 1], m)
    BY <2>3, <2>6, <2>8 DEF c, Fewer
  <2> QED
    BY <2>1, <2>9 DEF B, N
<1>7. l \in N
  <2> HIDE DEF N
  <2>1. \A k \in 0 .. l : k \in N
    BY <1>1, <1>5, <1>6, IntervalByInduction
  <2> QED
    BY <1>1, <2>1
<1>8. P(l) = Q
  <2>1. SubSeq(s, 1, l - l) = << >>
    <3>1. 0 \in 0 .. Len(s) /\ l - l = 0
      BY <1>1
    <3>2. SubSeq(s, 1, 0) \in Seq(1 .. n) /\ Len(SubSeq(s, 1, 0)) = 0
      BY <3>1, Cut
    <3> QED
      BY <3>1, <3>2, EmptySeq
  <2>2. \A j \in 1 .. n : Count(SubSeq(s, 1, l - l), j) = 0
    BY <2>1, CountEmpty
  <2> QED
    BY <2>2 DEF Table
<1> HIDE DEF P
<1> QED
  BY <1>2, <1>7, <1>8

----------------------------------------------------------------------------
(* The stacks.                                                             *)

FrameSet(S) == [eval : Seq(S), alt : Seq(S), rv : Nat \cup {-1}]

Spots(cs) == {<<0, "result">>} \cup ((DOMAIN cs) \X {"eval", "alt"})

StackAt(cs, res, p) ==
  IF p[1] = 0 THEN res ELSE IF p[2] = "eval" THEN cs[p[1]].eval ELSE cs[p[1]].alt

StacksOf(cs, res) == [p \in Spots(cs) |-> StackAt(cs, res, p)]

(* How many places of the stacks hold an item.                             *)
Held(cs, res, v) == Total(StacksOf(cs, res), v)

Both(f, v) == Count(f.eval, v) + Count(f.alt, v)

(* There are finitely many stacks, and they hold items.                    *)
LEMMA StacksType ==
  ASSUME NEW S, NEW cs \in Seq(FrameSet(S)), NEW res \in Seq(S)
  PROVE  /\ IsFiniteSet(Spots(cs)) /\ StacksOf(cs, res) \in [Spots(cs) -> Seq(S)]
         /\ DOMAIN cs = 1 .. Len(cs) /\ Len(cs) \in Nat
<1>1. DOMAIN cs = 1 .. Len(cs) /\ Len(cs) \in Nat
  BY LenProperties
<1>2. IsFiniteSet(DOMAIN cs)
  BY <1>1, FS_Interval
<1>3. IsFiniteSet({"eval", "alt"})
  <2>1. IsFiniteSet({"eval"})
    BY FS_Singleton
  <2>2. IsFiniteSet({"eval"} \cup {"alt"})
    BY <2>1, FS_AddElement
  <2>3. {"eval"} \cup {"alt"} = {"eval", "alt"}
    OBVIOUS
  <2> QED
    BY <2>2, <2>3
<1>4. IsFiniteSet((DOMAIN cs) \X {"eval", "alt"}) /\ IsFiniteSet({<<0, "result">>})
  BY <1>2, <1>3, FS_Product, FS_Singleton
<1>5. IsFiniteSet(Spots(cs))
  BY <1>4, FS_Union DEF Spots
<1>6. ASSUME NEW p \in Spots(cs)
      PROVE  StackAt(cs, res, p) \in Seq(S)
  <2>1. CASE p[1] = 0
    BY <2>1 DEF StackAt
  <2>2. CASE p[1] # 0
    <3>1. p[1] \in DOMAIN cs
      BY <2>2 DEF Spots
    <3>2. cs[p[1]] \in FrameSet(S)
      BY <1>1, <3>1, ElementOfSeq
    <3> QED
      BY <2>2, <3>2 DEF StackAt, FrameSet
  <2> QED
    BY <2>1, <2>2
<1> QED
  BY <1>1, <1>5, <1>6 DEF StacksOf

(* What stacks hold is counted in the naturals.                            *)
LEMMA HeldType ==
  ASSUME NEW S, NEW cs \in Seq(FrameSet(S)), NEW res \in Seq(S), NEW v
  PROVE  Held(cs, res, v) \in Nat
<1> DEFINE F == StacksOf(cs, res)
           D == Spots(cs)
<1>1. IsFiniteSet(D) /\ F \in [D -> Seq(S)] /\ <<0, "result">> \in D
  BY StacksType DEF Spots
<1> HIDE DEF F, D
<1>2. Total(F, v) \in Nat
  BY <1>1, TotalSplit DEF Families
<1> QED
  BY <1>2 DEF F, Held

(* What a stack holds is held.                                             *)
LEMMA HeldAt ==
  ASSUME NEW S, NEW cs \in Seq(FrameSet(S)), NEW res \in Seq(S), NEW p \in Spots(cs),
         NEW x \in DOMAIN StackAt(cs, res, p)
  PROVE  Held(cs, res, StackAt(cs, res, p)[x]) > 0
<1> DEFINE F == StacksOf(cs, res)
           D == Spots(cs)
           s == F[p]
           v == s[x]
<1>1. IsFiniteSet(D) /\ F \in [D -> Seq(S)] /\ p \in D /\ s = StackAt(cs, res, p)
  BY StacksType DEF StacksOf
<1>2. s \in Seq(S) /\ x \in DOMAIN s
  BY <1>1
<1> HIDE DEF F, D
<1>3. /\ Total(F, v) = Cardinality(Others(F, p, v)) + Count(F[p], v)
      /\ Cardinality(Others(F, p, v)) \in Nat
  BY <1>1, TotalSplit DEF Families
<1> HIDE DEF s
<1>4. Count(s, v) \in Nat /\ Count(s, v) # 0
  <2>1. x \in Where(s, v)
    BY <1>2 DEF Where
  <2> QED
    BY <1>2, <2>1, CountType
<1>5. Total(F, v) > 0
  BY <1>3, <1>4 DEF s
<1> QED
  BY <1>1, <1>5 DEF F, Held

(* Nothing else is.                                                        *)
LEMMA HeldOutside ==
  ASSUME NEW S, NEW cs \in Seq(FrameSet(S)), NEW res \in Seq(S), NEW v, v \notin S
  PROVE  Held(cs, res, v) = 0
<1> DEFINE F == StacksOf(cs, res)
<1>1. F \in [Spots(cs) -> Seq(S)]
  BY StacksType
<1> HIDE DEF F
<1>2. \A p \in DOMAIN F : Where(F[p], v) = {}
  <2>1. ASSUME NEW p \in DOMAIN F, NEW x \in DOMAIN F[p]
        PROVE  F[p][x] # v
    <3>1. F[p] \in Seq(S)
      BY <1>1
    <3>2. F[p][x] \in S
      BY <3>1, LenProperties, ElementOfSeq
    <3> QED
      BY <3>2
  <2> QED
    BY <2>1 DEF Where
<1>3. Positions(F, v) = {}
  BY <1>2 DEF Positions, PositionsIn
<1> QED
  BY <1>3, FS_EmptySet DEF Total, Held, F

(* One frame is different.                                                 *)
LEMMA FrameReplaced ==
  ASSUME NEW S, NEW cs \in Seq(FrameSet(S)), NEW ds \in Seq(FrameSet(S)), NEW res \in Seq(S),
         DOMAIN ds = DOMAIN cs, NEW c \in DOMAIN cs,
         Agree(DOMAIN cs \ {c}, cs, ds), NEW v
  PROVE  Held(ds, res, v) + Both(cs[c], v) = Held(cs, res, v) + Both(ds[c], v)
<1> DEFINE F == StacksOf(cs, res)
           G == StacksOf(ds, res)
           D == Spots(cs)
           p == <<c, "eval">>
           q == <<c, "alt">>
<1>1. /\ IsFiniteSet(D) /\ F \in [D -> Seq(S)] /\ G \in [D -> Seq(S)]
      /\ Spots(ds) = D /\ c # 0
  <2>1. Spots(ds) = D
    BY DEF Spots
  <2>2. IsFiniteSet(D) /\ F \in [D -> Seq(S)] /\ c # 0
    BY StacksType
  <2>3. G \in [Spots(ds) -> Seq(S)]
    BY StacksType
  <2> QED
    BY <2>1, <2>2, <2>3
<1>2. p \in D /\ q \in D /\ p # q /\ p[1] = c /\ q[1] = c /\ p[2] = "eval" /\ q[2] = "alt"
  BY DEF Spots
<1>3. F[p] = cs[c].eval /\ F[q] = cs[c].alt /\ G[p] = ds[c].eval /\ G[q] = ds[c].alt
  BY <1>1, <1>2 DEF StacksOf, StackAt
<1>4. \A d \in D \ {p, q} : G[d] = F[d]
  <2>1. SUFFICES ASSUME NEW d \in D \ {p, q} PROVE StackAt(ds, res, d) = StackAt(cs, res, d)
    BY <1>1 DEF StacksOf
  <2>2. CASE d[1] = 0
    BY <2>2 DEF StackAt
  <2>3. CASE d[1] # 0
    <3>1. d[1] \in DOMAIN cs /\ d[1] # c
      BY <2>1, <2>3 DEF Spots
    <3>2. ds[d[1]] = cs[d[1]]
      BY <3>1 DEF Agree
    <3> QED
      BY <3>2 DEF StackAt
  <2> QED
    BY <2>2, <2>3
<1>5. F \in Families(D, S) /\ G \in Families(D, S)
  BY <1>1 DEF Families
<1> HIDE DEF F, G, D, p, q
<1>6. Agree(D \ {p, q}, F, G)
  BY <1>4 DEF Agree
<1>7. Total(G, v) + (Count(F[p], v) + Count(F[q], v))
        = Total(F, v) + (Count(G[p], v) + Count(G[q], v))
  <2>1. IsFiniteSet(D)
    BY <1>1
  <2>2. p \in D /\ q \in D /\ p # q
    BY <1>2
  <2> QED
    BY <1>6, <1>5, <2>1, <2>2, TotalChangedTwice
<1> QED
  BY <1>3, <1>7 DEF Held, Both, F, G

(* One frame is new.                                                       *)
LEMMA FramePushed ==
  ASSUME NEW S, NEW cs \in Seq(FrameSet(S)), NEW ds \in Seq(FrameSet(S)), NEW res \in Seq(S),
         NEW c, c # 0, c \notin DOMAIN cs, DOMAIN ds = DOMAIN cs \cup {c},
         Agree(DOMAIN cs, cs, ds), NEW v
  PROVE  Held(ds, res, v) = Held(cs, res, v) + Both(ds[c], v)
<1> DEFINE F == StacksOf(cs, res)
           G == StacksOf(ds, res)
           D == Spots(ds)
           p == <<c, "eval">>
           q == <<c, "alt">>
<1>1. /\ IsFiniteSet(D) /\ F \in [Spots(cs) -> Seq(S)] /\ G \in [D -> Seq(S)]
      /\ Spots(cs) \subseteq D
  BY StacksType DEF Spots
<1>2. /\ p \in D /\ q \in D /\ p # q /\ p[1] = c /\ q[1] = c /\ p[2] = "eval" /\ q[2] = "alt"
      /\ p \notin Spots(cs) /\ q \notin Spots(cs) /\ D = Spots(cs) \cup {p, q}
  BY DEF Spots
<1>3. G[p] = ds[c].eval /\ G[q] = ds[c].alt
  BY <1>1, <1>2 DEF StacksOf, StackAt
<1>4. \A d \in Spots(cs) : G[d] = F[d]
  <2>1. SUFFICES ASSUME NEW d \in Spots(cs) PROVE StackAt(ds, res, d) = StackAt(cs, res, d)
    BY <1>1 DEF StacksOf
  <2>2. CASE d[1] = 0
    BY <2>2 DEF StackAt
  <2>3. CASE d[1] # 0
    <3>1. d[1] \in DOMAIN cs
      BY <2>1, <2>3 DEF Spots
    <3>2. ds[d[1]] = cs[d[1]]
      BY <3>1 DEF Agree
    <3> QED
      BY <3>2 DEF StackAt
  <2> QED
    BY <2>2, <2>3
<1> DEFINE C == Spots(cs)
<1>5. F \in Families(C, S) /\ G \in Families(D, S)
  BY <1>1 DEF Families
<1> HIDE DEF F, G, D, p, q, C
<1>6. p \notin C /\ q \notin C /\ D = C \cup {p, q} /\ Agree(C, F, G)
  BY <1>2, <1>4 DEF C, Agree
<1>7. Total(G, v) = Total(F, v) + (Count(G[p], v) + Count(G[q], v))
  <2>1. IsFiniteSet(D)
    BY <1>1
  <2>2. p # q
    BY <1>2
  <2> QED
    BY <1>5, <1>6, <2>1, <2>2, TotalGrown
<1> QED
  BY <1>3, <1>7 DEF Held, Both, F, G

(* The result stack is.                                                    *)
LEMMA ResultReplaced ==
  ASSUME NEW S, NEW cs \in Seq(FrameSet(S)), NEW res \in Seq(S), NEW new \in Seq(S), NEW v
  PROVE  Held(cs, new, v) + Count(res, v) = Held(cs, res, v) + Count(new, v)
<1> DEFINE F == StacksOf(cs, res)
           G == StacksOf(cs, new)
           D == Spots(cs)
           p == <<0, "result">>
<1>1. IsFiniteSet(D) /\ F \in [D -> Seq(S)] /\ G \in [D -> Seq(S)] /\ 0 \notin DOMAIN cs
  BY StacksType
<1>2. p \in D /\ p[1] = 0
  BY DEF Spots
<1>3. F[p] = res /\ G[p] = new
  BY <1>2 DEF StacksOf, StackAt
<1>4. \A d \in D \ {p} : G[d] = F[d]
  <2>1. SUFFICES ASSUME NEW d \in D \ {p} PROVE StackAt(cs, new, d) = StackAt(cs, res, d)
    BY DEF StacksOf
  <2>2. d[1] # 0
    BY <1>1, <2>1 DEF Spots
  <2> QED
    BY <2>2 DEF StackAt
<1> HIDE DEF F, G, D, p
<1>5. Total(G, v) + Count(F[p], v) = Total(F, v) + Count(G[p], v)
  <2>1. F \in Families(D, S) /\ G \in Families(D, S) /\ Agree(D \ {p}, F, G)
    BY <1>1, <1>4 DEF Families, Agree
  <2> QED
    <3>1. IsFiniteSet(D) /\ p \in D
      BY <1>1, <1>2
    <3> QED
      BY <2>1, <3>1, TotalChanged
<1> QED
  BY <1>3, <1>5 DEF Held, F, G

(* Items that are made later are others.                                   *)
LEMMA Wider ==
  ASSUME NEW S, NEW T, S \subseteq T
  PROVE  /\ \A s \in Seq(S) : s \in Seq(T)
         /\ \A f \in FrameSet(S) : f \in FrameSet(T)
         /\ \A cs \in Seq(FrameSet(S)) : cs \in Seq(FrameSet(T))
<1>1. \A s \in Seq(S) : s \in Seq(T)
  BY LenProperties, SeqDef
<1>2. \A f \in FrameSet(S) : f \in FrameSet(T)
  BY <1>1 DEF FrameSet
<1>3. ASSUME NEW cs \in Seq(FrameSet(S))
      PROVE  cs \in Seq(FrameSet(T))
  <2>1. \A A, B : A \subseteq B => \A s \in Seq(A) : s \in Seq(B)
    BY LenProperties, SeqDef
  <2>2. FrameSet(S) \subseteq FrameSet(T)
    BY <1>2
  <2> HIDE DEF FrameSet
  <2> QED
    BY <2>1, <2>2
<1> QED
  BY <1>1, <1>2, <1>3

(* So is what a frame holds.                                               *)
LEMMA BothType ==
  ASSUME NEW S, NEW f \in FrameSet(S), NEW v
  PROVE  Count(f.eval, v) \in Nat /\ Count(f.alt, v) \in Nat /\ Both(f, v) \in Nat
<1>1. f.eval \in Seq(S) /\ f.alt \in Seq(S)
  BY DEF FrameSet
<1>2. Count(f.eval, v) \in Nat /\ Count(f.alt, v) \in Nat
  BY <1>1, CountType
<1> QED
  BY <1>2 DEF Both

(* Frame makes a frame of two stacks and RVCount.                          *)
LEMMA FrameIs ==
  ASSUME NEW S, NEW eval \in Seq(S), NEW alt \in Seq(S), NEW rv \in Nat \cup {-1}
  PROVE  /\ Frame(eval, alt, rv) \in FrameSet(S) /\ Frame(eval, alt, rv).rv = rv
         /\ Frame(eval, alt, rv).eval = eval /\ Frame(eval, alt, rv).alt = alt
BY DEF Frame, FrameSet

Written(cs, ds, c, f) == ds = [cs EXCEPT ![c] = f]

Extended(cs, ds, f) == ds = Append(cs, f)

Continues(cs, ds) == DOMAIN cs \subseteq DOMAIN ds /\ \A d \in DOMAIN cs : ds[d] = cs[d]

HeldMore(cs, ds, res, f) == \A v : Held(ds, res, v) = Held(cs, res, v) + Both(f, v)

(* A frame is written to.                                                  *)
LEMMA FrameStep ==
  ASSUME NEW S, NEW cs \in Seq(FrameSet(S)), NEW res \in Seq(S),
         NEW c \in DOMAIN cs, NEW f \in FrameSet(S), NEW ds, Written(cs, ds, c, f)
  PROVE  /\ ds \in Seq(FrameSet(S)) /\ DOMAIN ds = DOMAIN cs /\ ds[c] = f
         /\ cs[c] \in FrameSet(S)
         /\ \A d \in DOMAIN cs \ {c} : ds[d] = cs[d]
         /\ \A v : Held(ds, res, v) + Both(cs[c], v) = Held(cs, res, v) + Both(f, v)
<1>1. /\ ds \in Seq(FrameSet(S) \cup {f}) /\ DOMAIN ds = DOMAIN cs /\ ds[c] = f
      /\ \A d \in DOMAIN cs \ {c} : ds[d] = cs[d]
  <2> DEFINE X == FrameSet(S)
  <2> HIDE DEF X
  <2>1. cs \in Seq(X)
    BY DEF X
  <2>2. /\ ds \in Seq(X \cup {f}) /\ DOMAIN ds = DOMAIN cs /\ ds[c] = f
        /\ \A d \in DOMAIN cs \ {c} : ds[d] = cs[d]
    BY <2>1, Updated DEF Written
  <2> QED
    BY <2>2 DEF X
<1>2. FrameSet(S) \cup {f} = FrameSet(S)
  OBVIOUS
<1>3. ds \in Seq(FrameSet(S))
  BY <1>1, <1>2
<1>4. cs[c] \in FrameSet(S)
  BY LenProperties, ElementOfSeq
<1>5. ASSUME NEW v
      PROVE  Held(ds, res, v) + Both(cs[c], v) = Held(cs, res, v) + Both(ds[c], v)
  <2>1. Agree(DOMAIN cs \ {c}, cs, ds)
    BY <1>1 DEF Agree
  <2>2. DOMAIN ds = DOMAIN cs
    BY <1>1
  <2> QED
    BY <1>3, <2>1, <2>2, FrameReplaced
<1> QED
  BY <1>1, <1>3, <1>4, <1>5

(* A frame is added.                                                       *)
LEMMA PushStep ==
  ASSUME NEW S, NEW cs \in Seq(FrameSet(S)), NEW res \in Seq(S),
         NEW f \in FrameSet(S), NEW ds, Extended(cs, ds, f)
  PROVE  ds \in Seq(FrameSet(S)) /\ Continues(cs, ds) /\ HeldMore(cs, ds, res, f)
<1> DEFINE k == Len(cs) + 1
<1>1. DOMAIN cs = 1 .. Len(cs) /\ Len(cs) \in Nat
  BY LenProperties
<1>2. /\ ds \in Seq(FrameSet(S)) /\ Len(ds) = k /\ ds[k] = f
      /\ \A d \in 1 .. Len(cs) : ds[d] = cs[d]
  <2> DEFINE X == FrameSet(S)
  <2> HIDE DEF X
  <2>1. cs \in Seq(X) /\ f \in X
    BY DEF X
  <2>2. /\ ds \in Seq(X) /\ Len(ds) = k /\ ds[k] = f
        /\ \A d \in 1 .. Len(cs) : ds[d] = cs[d]
    BY <2>1, AppendProperties DEF Extended
  <2> QED
    BY <2>2 DEF X
<1>3. DOMAIN ds = DOMAIN cs \cup {k} /\ k \notin DOMAIN cs /\ k # 0
  BY <1>1, <1>2, LenProperties
<1> HIDE DEF k
<1>4. ASSUME NEW v
      PROVE  Held(ds, res, v) = Held(cs, res, v) + Both(ds[k], v)
  <2>1. Agree(DOMAIN cs, cs, ds)
    BY <1>1, <1>2 DEF Agree
  <2>2. ds \in Seq(FrameSet(S))
    BY <1>2
  <2> QED
    BY <1>3, <2>1, <2>2, FramePushed
<1> QED
  BY <1>1, <1>2, <1>3, <1>4 DEF k, Continues, HeldMore

----------------------------------------------------------------------------
(* The invariant.                                                          *)

HandlesIn(h, i) == IF i \in DOMAIN h THEN h[i] ELSE 0

HandleBag(n, h) == DOMAIN h \subseteq 1 .. n /\ h \in [DOMAIN h -> Nat \ {0}]

Refs(n, h, cs, res) == [i \in 1 .. n |-> HandlesIn(h, i) + Held(cs, res, i)]

(* Handles and stacks hold items that were made.                           *)
Stored(n, h, cs, res) ==
  /\ n \in Nat /\ HandleBag(n, h)
  /\ cs \in Seq(FrameSet(1 .. n)) /\ res \in Seq(1 .. n)

(* The claim of the engine on the counter.                                 *)
Engine == IF state = "GONE" THEN 0 ELSE 1

MemInv ==
  /\ Stored(born, held, contexts, result)
  /\ refused \in Nat /\ survivors \subseteq 1 .. born
  /\ Sound(memory, born, Refs(born, held, contexts, result), Engine, survivors, refused)
  /\ LimitHolds

(* The table of references is one.                                         *)
LEMMA RefsType ==
  ASSUME NEW n, NEW h, NEW cs, NEW res, Stored(n, h, cs, res)
  PROVE  /\ Refs(n, h, cs, res) \in Table(n) /\ n \in Nat
         /\ \A i : HandlesIn(h, i) \in Nat /\ Held(cs, res, i) \in Nat
<1>1. \A i : HandlesIn(h, i) \in Nat
  BY DEF HandlesIn, HandleBag, Stored
<1>2. \A i : Held(cs, res, i) \in Nat
  BY HeldType DEF Stored
<1> QED
  BY <1>1, <1>2 DEF Refs, Table, Stored

(* A reference in a stack, or a handle.                                    *)
LEMMA Referenced ==
  ASSUME NEW n, NEW h, NEW cs, NEW res, Stored(n, h, cs, res), NEW i \in 1 .. n,
         HandlesIn(h, i) > 0 \/ Held(cs, res, i) > 0
  PROVE  Refs(n, h, cs, res)[i] > 0
<1>1. HandlesIn(h, i) \in Nat /\ Held(cs, res, i) \in Nat
  BY RefsType
<1>2. Refs(n, h, cs, res)[i] = HandlesIn(h, i) + Held(cs, res, i)
  BY DEF Refs
<1> QED
  BY <1>1, <1>2

(* A step that makes no item and starts no new count.                      *)
LEMMA MemStep ==
  ASSUME MemInv, UNCHANGED <<born, survivors>>, Engine' = Engine, refused' \in Nat,
         Stored(born, held', contexts', result'),
         Sound(memory', born, Refs(born, held', contexts', result'), Engine, survivors, refused'),
         Fewer(memory', memory)
  PROVE  MemInv'
<1>1. LimitHolds'
  <2> DEFINE L == Live
             K == Live'
  <2>1. K \subseteq L
    BY DEF Fewer, Live
  <2>2. IsFiniteSet(L)
    BY LiveFinite DEF MemInv, Sound, Live, Stored
  <2>3. Cardinality(L) <= MaxItems + Cardinality(survivors)
    BY DEF MemInv, LimitHolds
  <2>4. Cardinality(survivors) \in Nat
    <3>1. IsFiniteSet(1 .. born)
      BY FS_Interval DEF MemInv, Stored
    <3>2. IsFiniteSet(survivors)
      BY <3>1, FS_Subset DEF MemInv
    <3> QED
      BY <3>2, FS_CardinalityType
  <2> HIDE DEF L, K
  <2>5. IsFiniteSet(K) /\ Cardinality(K) <= Cardinality(L)
    BY <2>1, <2>2, FS_Subset
  <2>6. Cardinality(K) \in Nat /\ Cardinality(L) \in Nat
    BY <2>2, <2>5, FS_CardinalityType
  <2>7. Cardinality(K) <= MaxItems + Cardinality(survivors)
    BY <2>3, <2>4, <2>5, <2>6, FramesAssumption
  <2> QED
    BY <2>7 DEF LimitHolds, K
<1> QED
  BY <1>1 DEF MemInv

(* The references move, or do not.                                         *)
LEMMA MoveStep ==
  ASSUME MemInv, UNCHANGED <<memory, born, survivors, refused>>, Engine' = Engine,
         Stored(born, held', contexts', result'),
         \A j \in 1 .. born : HandlesIn(held', j) + Held(contexts', result', j)
                                = HandlesIn(held, j) + Held(contexts, result, j)
  PROVE  MemInv'
<1>1. Refs(born, held', contexts', result') = Refs(born, held, contexts, result)
  BY DEF Refs
<1>2. /\ Sound(memory', born, Refs(born, held', contexts', result'), Engine, survivors, refused')
      /\ refused' \in Nat
  BY <1>1 DEF MemInv
<1>3. Fewer(memory', memory)
  BY DEF Fewer
<1> QED
  BY <1>2, <1>3, MemStep

(* An item has a reference more, and a claim.                              *)
LEMMA GainStep ==
  ASSUME MemInv, UNCHANGED <<born, survivors, refused>>, Engine' = Engine,
         Stored(born, held', contexts', result'), NEW i \in 1 .. born,
         HandlesIn(held, i) > 0 \/ Held(contexts, result, i) > 0,
         memory' = Claim(memory, i),
         \A j \in 1 .. born : HandlesIn(held', j) + Held(contexts', result', j)
                                = HandlesIn(held, j) + Held(contexts, result, j) + One(i, j)
  PROVE  MemInv'
<1> DEFINE n == born
           R == Refs(born, held, contexts, result)
           Q == Refs(born, held', contexts', result')
           m == memory
           d == memory'
           e == Engine
           S == survivors
           r == refused
<1>1. R \in Table(n) /\ Q \in Table(n) /\ n \in Nat
  BY RefsType DEF MemInv
<1>2. \A j \in 1 .. n : Q[j] = R[j] + One(i, j)
  BY DEF Refs
<1>3. R[i] > 0
  BY Referenced DEF MemInv
<1>4. Sound(m, n, R, e, S, r) /\ d = Claim(m, i)
  BY DEF MemInv
<1>5. Exists(m, i) /\ Fewer(d, m)
  <2>1. i \in DOMAIN m.claims
    BY <1>3, <1>4 DEF Sound, Accounts
  <2>2. d = Memory([m.claims EXCEPT ![i] = m.claims[i] + 1], m.items, m.counter, m.misused)
    BY <1>4, <2>1 DEF Claim, Claimed, Exists
  <2> HIDE DEF m, d
  <2> QED
    BY <2>1, <2>2 DEF Memory, Fewer, Exists
<1> HIDE DEF n, R, Q, m, d, e, S, r
<1>6. Sound(Claim(m, i), n, Q, e, S, r)
  BY <1>1, <1>2, <1>3, <1>4, ClaimSound DEF n
<1> QED
  BY <1>4, <1>5, <1>6, MemStep DEF n, Q, m, d, e, S, r, MemInv

(* An item has a reference less.                                           *)
LEMMA LoseStep ==
  ASSUME MemInv, UNCHANGED <<born, survivors, refused>>, Engine' = Engine,
         Stored(born, held', contexts', result'), NEW i \in 1 .. born,
         memory' = UnclaimAndFree(memory, i),
         \A j \in 1 .. born : HandlesIn(held, j) + Held(contexts, result, j)
                                = HandlesIn(held', j) + Held(contexts', result', j) + One(i, j)
  PROVE  MemInv'
<1> DEFINE n == born
           R == Refs(born, held, contexts, result)
           Q == Refs(born, held', contexts', result')
           m == memory
           d == memory'
           e == Engine
           S == survivors
           r == refused
<1>1. R \in Table(n) /\ Q \in Table(n) /\ n \in Nat
  BY RefsType DEF MemInv
<1>2. \A j \in 1 .. n : R[j] = Q[j] + One(i, j)
  BY DEF Refs
<1>3. Sound(m, n, R, e, S, r) /\ d = UnclaimAndFree(m, i)
  BY DEF MemInv
<1>4. e \in {0, 1} /\ r \in Nat /\ S \in SUBSET (1 .. n) /\ i \in 1 .. n
  BY DEF MemInv, Engine
<1> HIDE DEF n, R, Q, m, d, e, S, r
<1>5. Sound(UnclaimAndFree(m, i), n, Q, e, S, r) /\ Fewer(UnclaimAndFree(m, i), m)
  BY <1>1, <1>2, <1>3, <1>4, FreeSound
<1> QED
  BY <1>3, <1>4, <1>5, MemStep DEF n, Q, m, d, e, S, r, MemInv

(* Two sequences of items are cleared, of which each place was a reference.*)
LEMMA ClearTwiceSound ==
  ASSUME NEW n \in Nat, NEW R \in Table(n), NEW Q \in Table(n), NEW m, NEW e \in {0, 1},
         NEW S \in SUBSET (1 .. n), NEW r \in Nat, Sound(m, n, R, e, S, r),
         NEW s \in Seq(1 .. n), NEW t \in Seq(1 .. n),
         \A j \in 1 .. n : R[j] = Q[j] + (Count(s, j) + Count(t, j))
  PROVE  /\ Sound(Cleared(Cleared(m, s), t), n, Q, e, S, r)
         /\ Fewer(Cleared(Cleared(m, s), t), m)
<1> DEFINE P == [j \in 1 .. n |-> Q[j] + Count(t, j)]
           d == Cleared(m, s)
<1>1. \A j \in 1 .. n : Count(s, j) \in Nat /\ Count(t, j) \in Nat /\ Q[j] \in Nat
  BY CountType DEF Table
<1>2. P \in Table(n)
  <2>1. \A j \in 1 .. n : Q[j] + Count(t, j) \in Nat
    BY <1>1
  <2> QED
    BY <2>1 DEF Table
<1>3. \A j \in 1 .. n : R[j] = P[j] + Count(s, j) /\ P[j] = Q[j] + Count(t, j)
  BY <1>1
<1> HIDE DEF P
<1>4. Sound(d, n, P, e, S, r) /\ Fewer(d, m)
  BY <1>2, <1>3, ClearSound
<1> HIDE DEF d
<1>5. Sound(Cleared(d, t), n, Q, e, S, r) /\ Fewer(Cleared(d, t), d)
  BY <1>2, <1>3, <1>4, ClearSound
<1> QED
  BY <1>4, <1>5 DEF d, Fewer

(* The two stacks of a frame are cleared, and no longer hold what they     *)
(* held.                                                                   *)
LEMMA ClearStep ==
  ASSUME MemInv, UNCHANGED <<born, survivors, refused>>, Engine' = Engine,
         Stored(born, held', contexts', result'),
         NEW s \in Seq(1 .. born), NEW t \in Seq(1 .. born),
         memory' = Cleared(Cleared(memory, s), t),
         \A j \in 1 .. born : HandlesIn(held, j) + Held(contexts, result, j)
                                = HandlesIn(held', j) + Held(contexts', result', j)
                                    + (Count(s, j) + Count(t, j))
  PROVE  MemInv'
<1> DEFINE n == born
           R == Refs(born, held, contexts, result)
           Q == Refs(born, held', contexts', result')
           m == memory
           d == memory'
           e == Engine
           S == survivors
           r == refused
<1>1. R \in Table(n) /\ Q \in Table(n) /\ n \in Nat
  BY RefsType DEF MemInv
<1>2. \A j \in 1 .. n : R[j] = Q[j] + (Count(s, j) + Count(t, j))
  BY DEF Refs
<1>3. Sound(m, n, R, e, S, r) /\ d = Cleared(Cleared(m, s), t)
  BY DEF MemInv
<1>4. e \in {0, 1} /\ r \in Nat /\ S \in SUBSET (1 .. n) /\ s \in Seq(1 .. n) /\ t \in Seq(1 .. n)
  BY DEF MemInv, Engine
<1> HIDE DEF n, R, Q, m, d, e, S, r
<1>5. Sound(Cleared(Cleared(m, s), t), n, Q, e, S, r) /\ Fewer(Cleared(Cleared(m, s), t), m)
  BY <1>1, <1>2, <1>3, <1>4, ClearTwiceSound
<1> QED
  BY <1>3, <1>4, <1>5, MemStep DEF n, Q, m, d, e, S, r, MemInv

(* Nothing to clear.                                                       *)
LEMMA ClearNothing ==
  ASSUME NEW m
  PROVE  Cleared(m, << >>) = m
<1> DEFINE s == << >>
<1>1. s \in Seq({}) /\ Len(s) = 0
  OBVIOUS
<1> HIDE DEF s
<1>2. PICK f : /\ f[0] = m
               /\ \A n \in 1 .. Len(s) : f[n] = UnclaimAndFree(f[n - 1], s[Len(s) + 1 - n])
               /\ Cleared(m, s) = f[Len(s)]
  BY <1>1, ClearedSteps
<1> QED
  BY <1>1, <1>2 DEF s

(* One stack, or a part of one, is cleared.                                *)
LEMMA ClearOneStep ==
  ASSUME MemInv, UNCHANGED <<born, survivors, refused>>, Engine' = Engine,
         Stored(born, held', contexts', result'), NEW s \in Seq(1 .. born),
         memory' = Cleared(memory, s),
         \A j \in 1 .. born : HandlesIn(held, j) + Held(contexts, result, j)
                                = HandlesIn(held', j) + Held(contexts', result', j) + Count(s, j)
  PROVE  MemInv'
<1> DEFINE t == << >>
<1>1. t \in Seq(1 .. born) /\ memory' = Cleared(Cleared(memory, s), t)
  BY ClearNothing
<1>2. \A j \in 1 .. born : HandlesIn(held, j) + Held(contexts, result, j)
                             = HandlesIn(held', j) + Held(contexts', result', j)
                                 + (Count(s, j) + Count(t, j))
  BY CountEmpty, CountType
<1> HIDE DEF t
<1> QED
  BY <1>1, <1>2, ClearStep

(* An item is made, and gets its first reference.                          *)
LEMMA CreateStep ==
  ASSUME MemInv, born' = born + 1, UNCHANGED <<survivors, refused>>, Engine' = Engine,
         Engine = 1, ~Refuses(memory), memory' = Claim(Created(memory), born + 1),
         Stored(born + 1, held', contexts', result'),
         \A j : HandlesIn(held', j) + Held(contexts', result', j)
                  = HandlesIn(held, j) + Held(contexts, result, j) + One(born + 1, j)
  PROVE  MemInv'
<1> DEFINE R == Refs(born, held, contexts, result)
           Q == Refs(born + 1, held', contexts', result')
           m == memory
           d == memory'
           e == Engine
           S == survivors
           r == refused
<1>1. R \in Table(born) /\ Q \in Table(born + 1) /\ born \in Nat
  BY RefsType DEF MemInv
<1>2. \A j \in 1 .. born : Q[j] = R[j]
  <2>1. SUFFICES ASSUME NEW j \in 1 .. born
                 PROVE  Q[j] = R[j]
    OBVIOUS
  <2>2. HandlesIn(held, j) \in Nat /\ Held(contexts, result, j) \in Nat
    BY RefsType DEF MemInv
  <2>3. j \in 1 .. born + 1 /\ One(born + 1, j) = 0
    BY <1>1 DEF One
  <2> QED
    BY <2>2, <2>3 DEF Refs
<1>3. Q[born + 1] = 1
  <2>1. HandlesIn(held, born + 1) = 0
    BY <1>1 DEF HandlesIn, HandleBag, MemInv, Stored
  <2>2. Held(contexts, result, born + 1) = 0
    <3>1. born + 1 \notin 1 .. born
      BY <1>1
    <3> QED
      BY <3>1, HeldOutside DEF MemInv, Stored
  <2>3. born + 1 \in 1 .. born + 1
    BY <1>1
  <2> QED
    BY <2>1, <2>2, <2>3 DEF Refs, One
<1>4. Sound(m, born, R, e, S, r) /\ e \in {0, 1} /\ r \in Nat /\ S \in SUBSET (1 .. born)
  BY DEF MemInv, Engine
<1>5. m.counter > 0
  <2>1. Cardinality(DOMAIN m.claims) \in Nat
    BY <1>1, <1>4, LiveFinite, FS_CardinalityType DEF Sound
  <2> QED
    BY <1>4, <2>1 DEF Sound, Counted
<1>6. MaxItems \in Nat
  BY FramesAssumption
<1> HIDE DEF R, Q, m, d, e, S, r
<1>7. ~Refuses(m) /\ d = Claim(Created(m), born + 1)
  BY DEF m, d
<1>8. /\ Sound(Claim(Created(m), born + 1), born + 1, Q, e, S, r)
      /\ Cardinality(DOMAIN Claim(Created(m), born + 1).claims) <= MaxItems + Cardinality(S)
  BY <1>1, <1>2, <1>3, <1>4, <1>5, <1>6, <1>7, CreateSound
<1>9. Sound(d, born + 1, Q, e, S, r) /\ Cardinality(DOMAIN d.claims) <= MaxItems + Cardinality(S)
  BY <1>7, <1>8
<1>10. LimitHolds'
  BY <1>9 DEF LimitHolds, Live, d, S
<1>11. Stored(born', held', contexts', result') /\ Sound(memory', born', Q, Engine', survivors', refused')
  BY <1>9 DEF d, e, S, r
<1>12. survivors' \subseteq 1 .. born'
  BY <1>1, <1>4 DEF S
<1> QED
  BY <1>4, <1>10, <1>11, <1>12 DEF MemInv, Q, r

(* An item is refused.                                                     *)
LEMMA RefuseStep ==
  ASSUME MemInv, UNCHANGED <<born, survivors, held, contexts, result>>, Engine' = Engine,
         refused' = refused + 1, Refuses(memory), memory' = Created(memory)
  PROVE  MemInv'
<1> DEFINE n == born
           R == Refs(born, held, contexts, result)
           m == memory
           d == memory'
           e == Engine
           S == survivors
           r == refused
<1>1. R \in Table(n) /\ n \in Nat
  BY RefsType DEF MemInv
<1>2. Sound(m, n, R, e, S, r) /\ d = Created(m) /\ Refuses(m)
  BY DEF MemInv
<1>3. e \in {0, 1} /\ r \in Nat /\ S \in SUBSET (1 .. n)
  BY DEF MemInv, Engine
<1> HIDE DEF n, R, m, d, e, S, r
<1>4. Sound(Created(m), n, R, e, S, r + 1) /\ Fewer(Created(m), m)
  BY <1>1, <1>2, <1>3, RefuseSound
<1>5. Fewer(d, m) /\ Sound(d, n, R, e, S, r + 1)
  BY <1>2, <1>4
<1>6. /\ refused' \in Nat /\ Stored(born, held', contexts', result')
      /\ Refs(born, held', contexts', result') = R
  BY <1>3 DEF MemInv, r, R
<1> QED
  BY <1>5, <1>6, MemStep DEF n, R, m, d, e, S, r

(* The host takes an item over.                                            *)
LEMMA AdoptStep ==
  ASSUME MemInv, UNCHANGED <<born, survivors, refused>>, Engine' = Engine,
         Stored(born, held', contexts', result'), NEW i \in 1 .. born,
         HandlesIn(held, i) > 0 \/ Held(contexts, result, i) > 0,
         memory' = Adopted(UnClaim(memory, i), i),
         \A j \in 1 .. born : HandlesIn(held', j) + Held(contexts', result', j)
                                = HandlesIn(held, j) + Held(contexts, result, j)
  PROVE  MemInv'
<1> DEFINE n == born
           R == Refs(born, held, contexts, result)
           Q == Refs(born, held', contexts', result')
           m == memory
           d == memory'
           e == Engine
           S == survivors
           r == refused
<1>1. R \in Table(n) /\ Q = R /\ n \in Nat
  BY RefsType DEF MemInv, Refs
<1>2. R[i] > 0
  BY Referenced DEF MemInv
<1>3. Sound(m, n, R, e, S, r) /\ d = Adopted(UnClaim(m, i), i) /\ i \in 1 .. n
  BY DEF MemInv
<1> HIDE DEF n, R, Q, m, d, e, S, r
<1>4. Sound(d, n, R, e, S, r)
  BY <1>1, <1>2, <1>3, AdoptSound
<1>5. Fewer(d, m)
  <2>1. DOMAIN d.claims = {j \in 1 .. n : R[j] > 0} /\ DOMAIN m.claims = {j \in 1 .. n : R[j] > 0}
    BY <1>3, <1>4 DEF Sound, Accounts
  <2> QED
    BY <2>1 DEF Fewer
<1>6. refused' \in Nat /\ Sound(memory', born, Q, Engine, survivors, refused')
  BY <1>1, <1>4 DEF n, m, d, e, S, r, MemInv
<1> QED
  BY <1>5, <1>6, MemStep DEF Q, m, d

----------------------------------------------------------------------------
(* What the steps do to handles and stacks.                                *)

(* The host gets a handle.                                                 *)
LEMMA HandleMore ==
  ASSUME NEW n, NEW h, HandleBag(n, h), NEW i \in 1 .. n
  PROVE  /\ HandleBag(n, h (+) SetToBag({i}))
         /\ \A j : HandlesIn(h (+) SetToBag({i}), j) = HandlesIn(h, j) + One(i, j)
<1> DEFINE g == h (+) SetToBag({i})
<1>1. /\ DOMAIN g = DOMAIN h \cup {i}
      /\ \A j \in DOMAIN h \cup {i} :
           g[j] = (IF j \in DOMAIN h THEN h[j] ELSE 0) + (IF j \in {i} THEN 1 ELSE 0)
      /\ g = [j \in DOMAIN g |-> g[j]]
  BY DEF (+), SetToBag, BagToSet, BagIn, HandleBag
<1>2. DOMAIN h \subseteq 1 .. n /\ h \in [DOMAIN h -> Nat \ {0}]
  BY DEF HandleBag
<1> HIDE DEF g
<1>3. HandleBag(n, g)
  BY <1>1, <1>2 DEF HandleBag
<1>4. ASSUME NEW j
      PROVE  HandlesIn(g, j) = HandlesIn(h, j) + One(i, j)
  <2>1. CASE j \in DOMAIN g
    BY <1>1, <1>2, <2>1 DEF HandlesIn, One
  <2>2. CASE j \notin DOMAIN g
    BY <1>1, <2>2 DEF HandlesIn, One
  <2> QED
    BY <2>1, <2>2
<1> QED
  BY <1>3, <1>4 DEF g

(* The host gives a handle up.                                             *)
LEMMA HandleLess ==
  ASSUME NEW n, NEW h, HandleBag(n, h), NEW i \in DOMAIN h
  PROVE  /\ HandleBag(n, h (-) SetToBag({i}))
         /\ \A j : HandlesIn(h, j) = HandlesIn(h (-) SetToBag({i}), j) + One(i, j)
<1> DEFINE g == h (-) SetToBag({i})
<1>1. DOMAIN h \subseteq 1 .. n /\ h \in [DOMAIN h -> Nat \ {0}]
  BY DEF HandleBag
<1>2. /\ DOMAIN g = {j \in DOMAIN h : j # i \/ h[j] > 1}
      /\ \A j \in DOMAIN g : g[j] = IF j = i THEN h[j] - 1 ELSE h[j]
      /\ g = [j \in DOMAIN g |-> g[j]]
  BY <1>1 DEF (-), SetToBag, BagToSet, BagIn
<1> HIDE DEF g
<1>3. HandleBag(n, g)
  <2>1. \A j \in DOMAIN g : g[j] \in Nat \ {0}
    BY <1>1, <1>2
  <2> QED
    BY <1>1, <1>2, <2>1 DEF HandleBag
<1>4. ASSUME NEW j
      PROVE  HandlesIn(h, j) = HandlesIn(g, j) + One(i, j)
  <2>1. CASE j \in DOMAIN g
    BY <1>1, <1>2, <2>1 DEF HandlesIn, One
  <2>2. CASE j \notin DOMAIN g
    <3>1. CASE j = i
      <4>1. ~(h[i] > 1) /\ h[i] \in Nat \ {0}
        BY <1>1, <1>2, <2>2, <3>1
      <4>2. h[i] = 1
        BY <4>1
      <4> QED
        BY <2>2, <3>1, <4>2 DEF HandlesIn, One
    <3>2. CASE j # i
      BY <1>2, <2>2, <3>2 DEF HandlesIn, One
    <3> QED
      BY <3>1, <3>2
  <2> QED
    BY <2>1, <2>2
<1> QED
  BY <1>3, <1>4 DEF g

(* The frame that runs is a frame.                                         *)
LEMMA CurIs ==
  ASSUME MemInv, Shape, invocation # << >>
  PROVE  /\ Top \in DOMAIN contexts /\ Cur \in FrameSet(1 .. born)
         /\ Cur.eval \in Seq(1 .. born) /\ Cur.alt \in Seq(1 .. born) /\ Cur.rv \in Nat \cup {-1}
<1>1. Top \in DOMAIN contexts
  BY TopIsContext
<1>2. contexts \in Seq(FrameSet(1 .. born))
  BY DEF MemInv, Stored
<1>3. contexts[Top] \in FrameSet(1 .. born)
  <2> DEFINE X == FrameSet(1 .. born)
             t == Top
  <2> HIDE DEF X, t
  <2>1. contexts \in Seq(X) /\ t \in DOMAIN contexts
    BY <1>1, <1>2 DEF X, t
  <2>2. contexts[t] \in X
    BY <2>1, LenProperties, ElementOfSeq
  <2> QED
    BY <2>2 DEF X, t
<1> QED
  BY <1>1, <1>3 DEF Cur, FrameSet

(* A case that changes no frame but the running one.                       *)
LEMMA InFrameHeld ==
  ASSUME MemInv, Shape, invocation # << >>, NEW n \in Nat, born <= n,
         NEW eval \in Seq(1 .. n), NEW alt \in Seq(1 .. n), InFrame(eval, alt)
  PROVE  /\ Stored(n, held', contexts', result')
         /\ \A v : /\ Held(contexts', result', v) + (Count(Cur.eval, v) + Count(Cur.alt, v))
                        = Held(contexts, result, v) + (Count(eval, v) + Count(alt, v))
                   /\ Held(contexts', result', v) \in Nat /\ Held(contexts, result, v) \in Nat
                   /\ HandlesIn(held', v) = HandlesIn(held, v) /\ HandlesIn(held, v) \in Nat
<1> DEFINE f == Frame(eval, alt, Cur.rv)
           cs == contexts
           ds == contexts'
           c == Top
           S == 1 .. n
<1>1. born \in Nat /\ 1 .. born \subseteq S
  BY DEF MemInv, Stored
<1>2. cs \in Seq(FrameSet(S)) /\ result \in Seq(S) /\ HandleBag(n, held)
  <2>1. cs \in Seq(FrameSet(1 .. born)) /\ result \in Seq(1 .. born) /\ HandleBag(born, held)
    BY DEF MemInv, Stored
  <2> HIDE DEF S
  <2>2. cs \in Seq(FrameSet(S)) /\ result \in Seq(S)
    BY <1>1, <2>1, Wider
  <2> QED
    BY <1>1, <2>1, <2>2 DEF HandleBag, S
<1>3. f \in FrameSet(S) /\ f.eval = eval /\ f.alt = alt
  BY CurIs, FrameIs
<1>4. c \in DOMAIN cs /\ Written(cs, ds, c, f)
  BY CurIs DEF InFrame, Written
<1>5. held' = held /\ result' = result
  BY DEF InFrame, HostUnchanged
<1> HIDE DEF f, cs, ds, c, S
<1>6. /\ ds \in Seq(FrameSet(S))
      /\ \A v : Held(ds, result, v) + Both(cs[c], v) = Held(cs, result, v) + Both(f, v)
  BY <1>2, <1>3, <1>4, FrameStep
<1>7. \A v : Both(cs[c], v) = Count(Cur.eval, v) + Count(Cur.alt, v)
  BY DEF Both, Cur, cs, c
<1>8. \A v : Both(f, v) = Count(eval, v) + Count(alt, v)
  BY <1>3 DEF Both
<1>9. Stored(n, held', contexts', result')
  BY <1>2, <1>5, <1>6 DEF Stored, ds, S
<1>10. \A v : /\ Held(contexts', result', v) \in Nat /\ Held(contexts, result, v) \in Nat
              /\ HandlesIn(held', v) = HandlesIn(held, v) /\ HandlesIn(held, v) \in Nat
  <2>1. \A v : Held(contexts', result', v) \in Nat
    BY <1>9, RefsType
  <2>2. \A v : Held(contexts, result, v) \in Nat /\ HandlesIn(held, v) \in Nat
    BY RefsType DEF MemInv
  <2> QED
    BY <1>5, <2>1, <2>2
<1>11. \A v : Held(contexts', result', v) + (Count(Cur.eval, v) + Count(Cur.alt, v))
                = Held(contexts, result, v) + (Count(eval, v) + Count(alt, v))
  BY <1>5, <1>6, <1>7, <1>8 DEF cs, ds
<1> QED
  BY <1>9, <1>10, <1>11

(* What is in a stack of a frame is held.                                  *)
LEMMA FrameHolds ==
  ASSUME NEW S, NEW cs \in Seq(FrameSet(S)), NEW res \in Seq(S), NEW c \in DOMAIN cs, NEW i,
         Count(cs[c].eval, i) > 0 \/ Count(cs[c].alt, i) > 0
  PROVE  Held(cs, res, i) > 0
<1>1. c # 0 /\ cs[c] \in FrameSet(S)
  BY LenProperties, ElementOfSeq
<1>2. cs[c].eval \in Seq(S) /\ cs[c].alt \in Seq(S)
  BY <1>1 DEF FrameSet
<1>3. CASE Count(cs[c].eval, i) > 0
  <2> DEFINE p == <<c, "eval">>
  <2>1. p \in Spots(cs) /\ StackAt(cs, res, p) = cs[c].eval
    BY <1>1 DEF Spots, StackAt
  <2>2. PICK x \in DOMAIN cs[c].eval : cs[c].eval[x] = i
    <3>1. Where(cs[c].eval, i) # {}
      BY <1>2, <1>3, CountType
    <3> QED
      BY <3>1 DEF Where
  <2> HIDE DEF p
  <2>3. Held(cs, res, StackAt(cs, res, p)[x]) > 0
    BY <2>1, <2>2, HeldAt
  <2> QED
    BY <2>1, <2>2, <2>3
<1>4. CASE Count(cs[c].alt, i) > 0
  <2> DEFINE p == <<c, "alt">>
  <2>1. p \in Spots(cs) /\ StackAt(cs, res, p) = cs[c].alt
    BY <1>1 DEF Spots, StackAt
  <2>2. PICK x \in DOMAIN cs[c].alt : cs[c].alt[x] = i
    <3>1. Where(cs[c].alt, i) # {}
      BY <1>2, <1>4, CountType
    <3> QED
      BY <3>1 DEF Where
  <2> HIDE DEF p
  <2>3. Held(cs, res, StackAt(cs, res, p)[x]) > 0
    BY <2>1, <2>2, HeldAt
  <2> QED
    BY <2>1, <2>2, <2>3
<1> QED
  BY <1>3, <1>4

----------------------------------------------------------------------------
(* The instructions.                                                       *)

(* An item is made and pushed, or refused.                                 *)
LEMMA PushNewMem ==
  ASSUME MemInv, Shape, PushNew
  PROVE  MemInv'
<1>1. Alive /\ invocation # << >> /\ born \in Nat
  BY DEF PushNew, Instruction, MemInv, Stored
<1>2. Cur.eval \in Seq(1 .. born) /\ Cur.alt \in Seq(1 .. born)
  BY <1>1, CurIs
<1>3. CASE Refuses(memory)
  <2>1. /\ InFrame(Cur.eval, Cur.alt) /\ refused' = refused + 1 /\ born' = born
        /\ memory' = Created(memory) /\ state' = "FAULT"
    BY <1>3 DEF PushNew, SetFault
  <2>2. UNCHANGED <<held, survivors, result>> /\ Engine' = Engine
    BY <1>1, <2>1 DEF InFrame, HostUnchanged, Engine, Alive
  <2>3. UNCHANGED contexts
    <3>1. contexts' = [contexts EXCEPT ![Top] = Frame(Cur.eval, Cur.alt, Cur.rv)]
      BY <2>1 DEF InFrame
    <3>2. Frame(Cur.eval, Cur.alt, Cur.rv) = Cur
      BY <1>1, CurIs DEF Frame, FrameSet
    <3>3. contexts = [c \in DOMAIN contexts |-> contexts[c]]
      BY LenProperties DEF MemInv, Stored
    <3> DEFINE t == Top
    <3>4. contexts' = [contexts EXCEPT ![t] = contexts[t]]
      BY <3>1, <3>2 DEF Cur
    <3> HIDE DEF t
    <3> QED
      BY <3>3, <3>4
  <2> QED
    BY <1>3, <2>1, <2>2, <2>3, RefuseStep
<1>4. CASE ~Refuses(memory)
  <2> DEFINE i == born + 1
             eval == Append(Cur.eval, i)
  <2>1. /\ InFrame(eval, Cur.alt) /\ born' = born + 1 /\ memory' = Claim(Created(memory), born + 1)
        /\ UNCHANGED <<state, refused>>
    BY <1>4 DEF PushNew
  <2>2. Cur.eval \in Seq(1 .. i) /\ Cur.alt \in Seq(1 .. i) /\ i \in Nat /\ i \in 1 .. i /\ born <= i
    <3>1. 1 .. born \subseteq 1 .. i /\ i \in Nat /\ i \in 1 .. i /\ born <= i
      BY <1>1
    <3> HIDE DEF i
    <3> QED
      BY <1>2, <3>1, Wider
  <2>3. eval \in Seq(1 .. i) /\ \A v : Count(eval, v) = Count(Cur.eval, v) + One(i, v)
    <3> HIDE DEF i
    <3>1. eval \in Seq(1 .. i)
      BY <2>2, AppendProperties
    <3>2. \A v : Count(eval, v) = Count(Cur.eval, v) + One(i, v)
      BY <2>2, CountAppend
    <3> QED
      BY <3>1, <3>2
  <2> HIDE DEF i, eval
  <2>4. /\ Stored(i, held', contexts', result')
        /\ \A v : /\ Held(contexts', result', v) + (Count(Cur.eval, v) + Count(Cur.alt, v))
                       = Held(contexts, result, v) + (Count(eval, v) + Count(Cur.alt, v))
                  /\ Held(contexts', result', v) \in Nat /\ Held(contexts, result, v) \in Nat
                  /\ HandlesIn(held', v) = HandlesIn(held, v) /\ HandlesIn(held, v) \in Nat
    BY <1>1, <2>1, <2>2, <2>3, InFrameHeld
  <2>5. \A v : Count(Cur.eval, v) \in Nat /\ Count(Cur.alt, v) \in Nat
    BY <1>2, CountType
  <2>6. \A v : HandlesIn(held', v) + Held(contexts', result', v)
                 = HandlesIn(held, v) + Held(contexts, result, v) + One(i, v)
    BY <2>3, <2>4, <2>5 DEF One
  <2>7. Engine' = Engine /\ Engine = 1 /\ UNCHANGED <<survivors, refused>>
    BY <1>1, <2>1 DEF Engine, Alive, InFrame, HostUnchanged
  <2> QED
    BY <1>4, <2>1, <2>4, <2>6, <2>7, CreateStep DEF i
<1> QED
  BY <1>3, <1>4

(* DUP: the stack has one place more, the item one claim more.             *)
LEMMA DupMem ==
  ASSUME MemInv, Shape, Dup
  PROVE  MemInv'
<1> DEFINE i == Last(Cur.eval)
           eval == Append(Cur.eval, i)
           S == 1 .. born
<1>1. /\ invocation # << >> /\ born \in Nat /\ Cur.eval # << >> /\ InFrame(eval, Cur.alt)
      /\ memory' = Claim(memory, i) /\ UNCHANGED <<born, refused, state>>
  BY DEF Dup, Instruction, MemInv, Stored
<1>2. Cur.eval \in Seq(S) /\ Cur.alt \in Seq(S) /\ Top \in DOMAIN contexts
  BY <1>1, CurIs
<1>3. /\ i \in S /\ Front(Cur.eval) \in Seq(S)
      /\ \A v : Count(Cur.eval, v) = Count(Front(Cur.eval), v) + One(i, v)
  <2> HIDE DEF S
  <2> QED
    BY <1>1, <1>2, CountLast
<1>4. eval \in Seq(S) /\ \A v : Count(eval, v) = Count(Cur.eval, v) + One(i, v)
  <2> HIDE DEF S, i
  <2>1. eval \in Seq(S)
    BY <1>2, <1>3, AppendProperties
  <2>2. \A v : Count(eval, v) = Count(Cur.eval, v) + One(i, v)
    BY <1>2, <1>3, CountAppend
  <2> QED
    BY <2>1, <2>2
<1> HIDE DEF i, eval
<1>5. /\ Stored(born, held', contexts', result')
      /\ \A v : /\ Held(contexts', result', v) + (Count(Cur.eval, v) + Count(Cur.alt, v))
                     = Held(contexts, result, v) + (Count(eval, v) + Count(Cur.alt, v))
                /\ Held(contexts', result', v) \in Nat /\ Held(contexts, result, v) \in Nat
                /\ HandlesIn(held', v) = HandlesIn(held, v) /\ HandlesIn(held, v) \in Nat
  <2>1. born <= born /\ eval \in Seq(1 .. born) /\ Cur.alt \in Seq(1 .. born)
    BY <1>1, <1>2, <1>4
  <2> QED
    BY <1>1, <2>1, InFrameHeld
<1>6. \A v : /\ Count(Cur.eval, v) \in Nat /\ Count(Cur.alt, v) \in Nat
             /\ Count(Front(Cur.eval), v) \in Nat
  BY <1>2, <1>3, CountType
<1>7. \A v : HandlesIn(held', v) + Held(contexts', result', v)
               = HandlesIn(held, v) + Held(contexts, result, v) + One(i, v)
  BY <1>4, <1>5, <1>6 DEF One
<1>8. Held(contexts, result, i) > 0
  <2>1. Count(Cur.eval, i) > 0
    BY <1>3, <1>6 DEF One
  <2> DEFINE c == Top
  <2>2. Count(contexts[c].eval, i) > 0 /\ c \in DOMAIN contexts
    BY <1>2, <2>1 DEF Cur
  <2>3. contexts \in Seq(FrameSet(S)) /\ result \in Seq(S)
    BY DEF MemInv, Stored
  <2> HIDE DEF c, S
  <2> QED
    BY <2>2, <2>3, FrameHolds
<1>9. Engine' = Engine /\ UNCHANGED <<born, survivors, refused>>
  BY <1>1 DEF Engine, InFrame, HostUnchanged
<1> QED
  BY <1>1, <1>3, <1>5, <1>7, <1>8, <1>9, GainStep

(* DROP: the stack has one place less, the item one claim less.            *)
LEMMA DropMem ==
  ASSUME MemInv, Shape, Drop
  PROVE  MemInv'
<1> DEFINE i == Last(Cur.eval)
           eval == Front(Cur.eval)
           S == 1 .. born
<1>1. /\ invocation # << >> /\ born \in Nat /\ Cur.eval # << >> /\ InFrame(eval, Cur.alt)
      /\ memory' = UnclaimAndFree(memory, i) /\ UNCHANGED <<born, refused, state>>
  BY DEF Drop, Instruction, MemInv, Stored
<1>2. Cur.eval \in Seq(S) /\ Cur.alt \in Seq(S)
  BY <1>1, CurIs
<1>3. /\ i \in S /\ eval \in Seq(S)
      /\ \A v : Count(Cur.eval, v) = Count(eval, v) + One(i, v)
  <2> HIDE DEF S
  <2> QED
    BY <1>1, <1>2, CountLast
<1> HIDE DEF i, eval
<1>4. /\ Stored(born, held', contexts', result')
      /\ \A v : /\ Held(contexts', result', v) + (Count(Cur.eval, v) + Count(Cur.alt, v))
                     = Held(contexts, result, v) + (Count(eval, v) + Count(Cur.alt, v))
                /\ Held(contexts', result', v) \in Nat /\ Held(contexts, result, v) \in Nat
                /\ HandlesIn(held', v) = HandlesIn(held, v) /\ HandlesIn(held, v) \in Nat
  BY <1>1, <1>2, <1>3, InFrameHeld
<1>5. \A v : Count(eval, v) \in Nat /\ Count(Cur.alt, v) \in Nat
  BY <1>2, <1>3, CountType
<1>6. \A v : HandlesIn(held, v) + Held(contexts, result, v)
               = HandlesIn(held', v) + Held(contexts', result', v) + One(i, v)
  BY <1>3, <1>4, <1>5 DEF One
<1>7. Engine' = Engine /\ UNCHANGED <<born, survivors, refused>>
  BY <1>1 DEF Engine, InFrame, HostUnchanged
<1> QED
  BY <1>1, <1>3, <1>4, <1>6, <1>7, LoseStep

(* An item goes from one stack of a frame to the other.                    *)
LEMMA AltMem ==
  ASSUME MemInv, Shape, ToAltStack \/ FromAltStack
  PROVE  MemInv'
<1> DEFINE S == 1 .. born
<1>1. invocation # << >> /\ born \in Nat /\ UNCHANGED <<born, refused, state, memory>>
  BY DEF ToAltStack, FromAltStack, Instruction, MemInv, Stored
<1>2. Cur.eval \in Seq(S) /\ Cur.alt \in Seq(S)
  BY <1>1, CurIs
<1>3. \A s \in Seq(S), w \in S :
        /\ Append(s, w) \in Seq(S)
        /\ \A v : Count(Append(s, w), v) = Count(s, v) + One(w, v)
  <2> HIDE DEF S
  <2> QED
    BY CountAppend, AppendProperties
<1>4. \A s \in Seq(S) : s # << >> =>
        /\ Last(s) \in S /\ Front(s) \in Seq(S)
        /\ \A v : Count(s, v) = Count(Front(s), v) + One(Last(s), v)
  <2> HIDE DEF S
  <2> QED
    BY CountLast
<1>5. \A v : Count(Cur.eval, v) \in Nat /\ Count(Cur.alt, v) \in Nat
  BY <1>2, CountType
<1>6. PICK eval \in Seq(S), alt \in Seq(S) :
        /\ InFrame(eval, alt)
        /\ \A v : Count(eval, v) + Count(alt, v) = Count(Cur.eval, v) + Count(Cur.alt, v)
  <2>1. CASE ToAltStack
    <3> DEFINE eval == Front(Cur.eval)
               alt == Append(Cur.alt, Last(Cur.eval))
    <3>1. InFrame(eval, alt) /\ Cur.eval # << >>
      BY <2>1 DEF ToAltStack
    <3>2. eval \in Seq(S) /\ alt \in Seq(S)
      BY <1>2, <1>3, <1>4, <3>1
    <3>3. \A v : /\ Count(alt, v) = Count(Cur.alt, v) + One(Last(Cur.eval), v)
                 /\ Count(Cur.eval, v) = Count(eval, v) + One(Last(Cur.eval), v)
                 /\ Count(eval, v) \in Nat
      BY <1>2, <1>3, <1>4, <3>1, <3>2, CountType
    <3> HIDE DEF eval, alt
    <3>4. \A v : Count(eval, v) + Count(alt, v) = Count(Cur.eval, v) + Count(Cur.alt, v)
      BY <1>5, <3>3 DEF One
    <3> QED
      BY <3>1, <3>2, <3>4
  <2>2. CASE FromAltStack
    <3> DEFINE alt == Front(Cur.alt)
               eval == Append(Cur.eval, Last(Cur.alt))
    <3>1. InFrame(eval, alt) /\ Cur.alt # << >>
      BY <2>2 DEF FromAltStack
    <3>2. eval \in Seq(S) /\ alt \in Seq(S)
      BY <1>2, <1>3, <1>4, <3>1
    <3>3. \A v : /\ Count(eval, v) = Count(Cur.eval, v) + One(Last(Cur.alt), v)
                 /\ Count(Cur.alt, v) = Count(alt, v) + One(Last(Cur.alt), v)
                 /\ Count(alt, v) \in Nat
      BY <1>2, <1>3, <1>4, <3>1, <3>2, CountType
    <3> HIDE DEF eval, alt
    <3>4. \A v : Count(eval, v) + Count(alt, v) = Count(Cur.eval, v) + Count(Cur.alt, v)
      BY <1>5, <3>3 DEF One
    <3> QED
      BY <3>1, <3>2, <3>4
  <2> QED
    BY <2>1, <2>2
<1>7. /\ Stored(born, held', contexts', result')
      /\ \A v : /\ Held(contexts', result', v) + (Count(Cur.eval, v) + Count(Cur.alt, v))
                     = Held(contexts, result, v) + (Count(eval, v) + Count(alt, v))
                /\ Held(contexts', result', v) \in Nat /\ Held(contexts, result, v) \in Nat
                /\ HandlesIn(held', v) = HandlesIn(held, v) /\ HandlesIn(held, v) \in Nat
  BY <1>1, <1>6, InFrameHeld
<1>8. \A v : HandlesIn(held', v) + Held(contexts', result', v)
               = HandlesIn(held, v) + Held(contexts, result, v)
  BY <1>5, <1>6, <1>7
<1>9. Engine' = Engine /\ UNCHANGED <<memory, born, survivors, refused>>
  BY <1>1, <1>6 DEF Engine, InFrame, HostUnchanged
<1> QED
  BY <1>7, <1>8, <1>9, MoveStep

----------------------------------------------------------------------------
(* Calls and returns.                                                      *)

(* What is sent and what is kept are the stack.                            *)
LEMMA SentAndKept ==
  ASSUME NEW S, NEW s \in Seq(S), NEW count \in Nat \cup {-1}, count <= Len(s)
  PROVE  /\ Sent(s, count) \in Seq(S) /\ Kept(s, count) \in Seq(S)
         /\ \A v : /\ Count(s, v) = Count(Kept(s, count), v) + Count(Sent(s, count), v)
                   /\ Count(Kept(s, count), v) \in Nat /\ Count(Sent(s, count), v) \in Nat
<1> DEFINE k == Len(s) - SentCount(s, count)
<1>1. Len(s) \in Nat
  BY LenProperties
<1>2. k \in 0 .. Len(s)
  BY <1>1 DEF SentCount
<1>3. Sent(s, count) = SubSeq(s, k + 1, Len(s)) /\ Kept(s, count) = SubSeq(s, 1, k)
  BY DEF Sent, Kept
<1> HIDE DEF k
<1>4. SubSeq(s, k + 1, Len(s)) \in Seq(S) /\ SubSeq(s, 1, k) \in Seq(S)
  BY <1>2, Cut
<1>5. \A v : Count(s, v) = Count(SubSeq(s, 1, k), v) + Count(SubSeq(s, k + 1, Len(s)), v)
  BY <1>2, CountCut
<1>6. \A v : Count(SubSeq(s, 1, k), v) \in Nat /\ Count(SubSeq(s, k + 1, Len(s)), v) \in Nat
  BY <1>4, CountType
<1> QED
  BY <1>3, <1>4, <1>5, <1>6

(* A frame is added, and the caller's written to.                          *)
LEMMA EnterHeld ==
  ASSUME MemInv, Shape, invocation # << >>, UNCHANGED <<held, result>>,
         NEW f \in FrameSet(1 .. born), NEW g \in FrameSet(1 .. born),
         contexts' = [Append(contexts, f) EXCEPT ![Top] = g]
  PROVE  /\ Stored(born, held', contexts', result')
         /\ \A v : /\ Held(contexts', result', v) + Both(Cur, v)
                        = Held(contexts, result, v) + Both(f, v) + Both(g, v)
                   /\ Held(contexts', result', v) \in Nat /\ Held(contexts, result, v) \in Nat
<1> DEFINE S == 1 .. born
           cs == contexts
           res == result
           es == Append(cs, f)
           ds == contexts'
           c == Top
<1>1. cs \in Seq(FrameSet(S)) /\ res \in Seq(S) /\ f \in FrameSet(S) /\ g \in FrameSet(S)
  BY DEF MemInv, Stored
<1>2. c \in DOMAIN cs /\ Extended(cs, es, f) /\ Written(es, ds, c, g) /\ Cur = cs[c]
  BY CurIs DEF Extended, Written, Cur
<1> HIDE DEF S, cs, es, ds, c, res
<1>3. /\ es \in Seq(FrameSet(S)) /\ DOMAIN cs \subseteq DOMAIN es
      /\ \A d \in DOMAIN cs : es[d] = cs[d]
      /\ \A v : Held(es, res, v) = Held(cs, res, v) + Both(f, v)
  <2>1. cs \in Seq(FrameSet(S)) /\ res \in Seq(S) /\ f \in FrameSet(S) /\ Extended(cs, es, f)
    BY <1>1, <1>2
  <2>2. es \in Seq(FrameSet(S)) /\ Continues(cs, es) /\ HeldMore(cs, es, res, f)
    BY <2>1, PushStep
  <2> QED
    BY <2>2 DEF Continues, HeldMore
<1>4. c \in DOMAIN es /\ es[c] = Cur
  BY <1>2, <1>3
<1>5. /\ ds \in Seq(FrameSet(S))
      /\ \A v : Held(ds, res, v) + Both(es[c], v) = Held(es, res, v) + Both(g, v)
  <2>1. es \in Seq(FrameSet(S)) /\ c \in DOMAIN es /\ Written(es, ds, c, g)
    BY <1>2, <1>3, <1>4
  <2> QED
    BY <1>1, <2>1, FrameStep
<1>6. Stored(born, held', contexts', result')
  BY <1>5 DEF MemInv, Stored, ds, S
<1>7. \A v : Held(contexts', result', v) \in Nat
  BY <1>6, RefsType
<1>8. \A v : Held(contexts, result, v) \in Nat
  BY RefsType DEF MemInv
<1>9. \A v : Held(ds, res, v) + Both(Cur, v) = Held(cs, res, v) + Both(f, v) + Both(g, v)
  BY <1>3, <1>4, <1>5
<1>10. \A v : Held(contexts', result', v) + Both(Cur, v)
                = Held(contexts, result, v) + Both(f, v) + Both(g, v)
  BY <1>9 DEF ds, cs, res
<1> QED
  BY <1>6, <1>7, <1>8, <1>10

(* A frame is added, which is empty.                                       *)
LEMMA LoadMem ==
  ASSUME MemInv, UNCHANGED <<held, result, memory, born, survivors, refused>>,
         Engine' = Engine, contexts' = Pushed(<< >>, -1)
  PROVE  MemInv'
<1> DEFINE S == 1 .. born
           f == Frame(<< >>, << >>, -1)
           cs == contexts
           ds == contexts'
           res == result
<1>1. f \in FrameSet(S) /\ f.eval = << >> /\ f.alt = << >>
  <2>1. << >> \in Seq(S) /\ -1 \in Nat \cup {-1}
    OBVIOUS
  <2> QED
    BY <2>1 DEF Frame, FrameSet
<1>2. cs \in Seq(FrameSet(S)) /\ res \in Seq(S) /\ Extended(cs, ds, f)
  BY DEF MemInv, Stored, Pushed, Extended
<1> HIDE DEF S, f, cs, ds, res
<1>3. /\ ds \in Seq(FrameSet(S)) /\ \A v : Held(ds, res, v) = Held(cs, res, v) + Both(f, v)
  <2>1. ds \in Seq(FrameSet(S)) /\ HeldMore(cs, ds, res, f)
    BY <1>1, <1>2, PushStep
  <2> QED
    BY <2>1 DEF HeldMore
<1>4. \A v : Both(f, v) = 0
  BY <1>1, CountEmpty DEF Both
<1>5. Stored(born, held', contexts', result')
  BY <1>3 DEF MemInv, Stored, ds, S
<1>6. \A v : Held(contexts', result', v) = Held(contexts, result, v)
  <2>1. \A v : Held(contexts, result, v) \in Nat
    BY RefsType DEF MemInv
  <2> QED
    BY <1>3, <1>4, <2>1 DEF ds, cs, res
<1> QED
  BY <1>5, <1>6, MoveStep

(* CALL moves items to the frame it pushes, with their claims.             *)
LEMMA CallMem ==
  ASSUME MemInv, Shape, NEW rvcount \in Nat \cup {-1}, NEW pcount \in Nat \cup {-1},
         Call(rvcount, pcount)
  PROVE  MemInv'
<1> DEFINE S == 1 .. born
           sent == Sent(Cur.eval, pcount)
           kept == Kept(Cur.eval, pcount)
           f == Frame(sent, << >>, rvcount)
           g == Frame(kept, Cur.alt, Cur.rv)
<1>1. /\ invocation # << >> /\ Alive /\ pcount <= Len(Cur.eval)
      /\ UNCHANGED <<held, survivors, result, memory, born, refused>>
      /\ state' = state \/ state' = "FAULT"
  BY DEF Call, Instruction, HostUnchanged, SetFault
<1>2. /\ Cur.eval \in Seq(S) /\ Cur.alt \in Seq(S) /\ Cur.rv \in Nat \cup {-1}
      /\ << >> \in Seq(S)
  BY <1>1, CurIs
<1>3. /\ sent \in Seq(S) /\ kept \in Seq(S)
      /\ \A v : /\ Count(Cur.eval, v) = Count(kept, v) + Count(sent, v)
                /\ Count(kept, v) \in Nat /\ Count(sent, v) \in Nat
  <2> HIDE DEF S
  <2> QED
    BY <1>1, <1>2, SentAndKept
<1>4. contexts' = [Append(contexts, f) EXCEPT ![Top] = g]
  BY DEF Call, Pushed, Send
<1> HIDE DEF sent, kept
<1>5. /\ f \in FrameSet(S) /\ g \in FrameSet(S)
      /\ f.eval = sent /\ f.alt = << >> /\ g.eval = kept /\ g.alt = Cur.alt
  BY <1>2, <1>3 DEF Frame, FrameSet
<1> HIDE DEF f, g
<1>6. /\ Stored(born, held', contexts', result')
      /\ \A v : /\ Held(contexts', result', v) + Both(Cur, v)
                     = Held(contexts, result, v) + Both(f, v) + Both(g, v)
                /\ Held(contexts', result', v) \in Nat /\ Held(contexts, result, v) \in Nat
  BY <1>1, <1>4, <1>5, EnterHeld
<1>7. \A v : Count(Cur.alt, v) \in Nat /\ Count(<< >>, v) = 0
  BY <1>2, CountType, CountEmpty
<1>8. \A v : Held(contexts', result', v) = Held(contexts, result, v)
  BY <1>3, <1>5, <1>6, <1>7 DEF Both
<1>9. Engine' = Engine
  BY <1>1 DEF Engine, Alive
<1> QED
  BY <1>1, <1>6, <1>8, <1>9, MoveStep

(* The frame that is loaded takes items, and a tail call clears the others.*)
LEMMA LoadedMem ==
  ASSUME MemInv, Shape, invocation # << >>,
         NEW rvcount \in Nat \cup {-1}, NEW pcount \in Nat \cup {-1}, NEW tail \in BOOLEAN,
         pcount <= Len(Cur.eval), Loaded(pcount, rvcount, tail),
         UNCHANGED <<held, survivors, result, born, refused, state>>
  PROVE  MemInv'
<1> DEFINE S == 1 .. born
           sent == Sent(Cur.eval, pcount)
           kept == Kept(Cur.eval, pcount)
           sender == Frame(kept, Cur.alt, Cur.rv)
           f == Frame(sent, << >>, rvcount)
           g == IF tail THEN Frame(<< >>, << >>, Cur.rv) ELSE sender
<1>1. /\ Cur.eval \in Seq(S) /\ Cur.alt \in Seq(S) /\ Cur.rv \in Nat \cup {-1}
      /\ << >> \in Seq(S)
  BY CurIs
<1>2. /\ sent \in Seq(S) /\ kept \in Seq(S)
      /\ \A v : /\ Count(Cur.eval, v) = Count(kept, v) + Count(sent, v)
                /\ Count(kept, v) \in Nat /\ Count(sent, v) \in Nat
  <2> HIDE DEF S
  <2> QED
    BY <1>1, SentAndKept
<1>3. sender.rv = Cur.rv
  BY DEF Frame
<1>4. /\ contexts' = [Append(contexts, f) EXCEPT ![Top] = g]
      /\ memory' = IF tail THEN Released(memory, sender) ELSE memory
  BY <1>3 DEF Loaded, Pushed, Send, Emptied
<1> HIDE DEF sent, kept
<1>5. /\ f \in FrameSet(S) /\ f.eval = sent /\ f.alt = << >>
      /\ sender \in FrameSet(S) /\ sender.eval = kept /\ sender.alt = Cur.alt
  BY <1>1, <1>2 DEF Frame, FrameSet
<1> HIDE DEF f, sender
<1>6. g \in FrameSet(S) /\ (~tail => g = sender) /\ (tail => g.eval = << >> /\ g.alt = << >>)
  BY <1>1, <1>5 DEF Frame, FrameSet
<1> HIDE DEF g
<1>7. /\ Stored(born, held', contexts', result')
      /\ \A v : /\ Held(contexts', result', v) + Both(Cur, v)
                     = Held(contexts, result, v) + Both(f, v) + Both(g, v)
                /\ Held(contexts', result', v) \in Nat /\ Held(contexts, result, v) \in Nat
  BY <1>4, <1>5, <1>6, EnterHeld
<1>8. \A v : Count(Cur.alt, v) \in Nat /\ Count(<< >>, v) = 0
  BY <1>1, CountType, CountEmpty
<1>9. Engine' = Engine
  BY DEF Engine
<1>10. CASE ~tail
  <2>1. \A v : Held(contexts', result', v) = Held(contexts, result, v)
    BY <1>2, <1>5, <1>6, <1>7, <1>8, <1>10 DEF Both
  <2>2. memory' = memory
    BY <1>4, <1>10
  <2> QED
    BY <1>7, <1>9, <2>1, <2>2, MoveStep
<1>11. CASE tail
  <2>1. \A v : Held(contexts, result, v)
                 = Held(contexts', result', v) + (Count(kept, v) + Count(Cur.alt, v))
    <3> TAKE v
    <3>1. Both(g, v) = 0 /\ Both(f, v) = Count(sent, v)
      BY <1>2, <1>5, <1>6, <1>8, <1>11 DEF Both
    <3>2. Both(Cur, v) = Count(kept, v) + Count(sent, v) + Count(Cur.alt, v)
      BY <1>2 DEF Both
    <3>3. /\ Count(kept, v) \in Nat /\ Count(sent, v) \in Nat /\ Count(Cur.alt, v) \in Nat
          /\ Held(contexts', result', v) + Both(Cur, v)
               = Held(contexts, result, v) + Both(f, v) + Both(g, v)
          /\ Held(contexts', result', v) \in Nat /\ Held(contexts, result, v) \in Nat
      BY <1>2, <1>7, <1>8
    <3> QED
      BY <3>1, <3>2, <3>3
  <2>2. memory' = Cleared(Cleared(memory, kept), Cur.alt)
    BY <1>4, <1>5, <1>11 DEF Released
  <2>3. \A v : HandlesIn(held, v) + Held(contexts, result, v)
                 = HandlesIn(held', v) + Held(contexts', result', v)
                     + (Count(kept, v) + Count(Cur.alt, v))
    <3> TAKE v
    <3>1. HandlesIn(held, v) \in Nat
      BY RefsType DEF MemInv
    <3>2. held' = held /\ HandlesIn(held', v) = HandlesIn(held, v)
      OBVIOUS
    <3>3. /\ Held(contexts', result', v) \in Nat
          /\ Count(kept, v) \in Nat /\ Count(Cur.alt, v) \in Nat
      BY <1>2, <1>7, <1>8
    <3>4. Held(contexts, result, v)
            = Held(contexts', result', v) + (Count(kept, v) + Count(Cur.alt, v))
      BY <2>1
    <3> QED
      BY <3>1, <3>2, <3>3, <3>4
  <2> QED
    BY <1>1, <1>2, <1>7, <1>9, <2>2, <2>3, ClearStep
<1> QED
  BY <1>10, <1>11

(* RET sends the results to the caller, or to the result stack, and clears *)
(* what is left of the frame.                                              *)
LEMMA RetMem ==
  ASSUME MemInv, Shape, Ret
  PROVE  MemInv'
<1>1. /\ invocation # << >> /\ Alive /\ invocation' = Front(invocation)
      /\ UNCHANGED <<held, survivors, born, refused>>
  BY DEF Ret, Instruction, HostUnchanged
<1>2. CASE Cur.rv > Len(Cur.eval)
  <2>1. UNCHANGED <<contexts, result, memory>> /\ state' = "FAULT"
    BY <1>2 DEF Ret, SetFault
  <2>2. Engine' = Engine
    BY <1>1, <2>1 DEF Engine, Alive
  <2>3. Stored(born, held', contexts', result')
    BY <1>1, <2>1 DEF MemInv
  <2> QED
    BY <1>1, <2>1, <2>2, <2>3, MoveStep
<1>3. CASE ~(Cur.rv > Len(Cur.eval))
  <2> DEFINE S == 1 .. born
             cs == contexts
             sent == Sent(Cur.eval, Cur.rv)
             kept == Kept(Cur.eval, Cur.rv)
             sender == Frame(kept, Cur.alt, Cur.rv)
             g == Frame(<< >>, << >>, Cur.rv)
             c == Top
             es == [cs EXCEPT ![c] = g]
             j == Last(Front(invocation))
             h == Frame(es[j].eval \o sent, es[j].alt, es[j].rv)
             res == result
  <2>1. /\ Cur.eval \in Seq(S) /\ Cur.alt \in Seq(S) /\ Cur.rv \in Nat \cup {-1}
        /\ << >> \in Seq(S) /\ c \in DOMAIN cs
    BY <1>1, CurIs
  <2>2. Cur.rv <= Len(Cur.eval)
    BY <1>3, <2>1, LenProperties
  <2>3. /\ sent \in Seq(S) /\ kept \in Seq(S)
        /\ \A v : /\ Count(Cur.eval, v) = Count(kept, v) + Count(sent, v)
                  /\ Count(kept, v) \in Nat /\ Count(sent, v) \in Nat
    <3> HIDE DEF S
    <3> QED
      BY <2>1, <2>2, SentAndKept
  <2>4. Send(Cur, Cur.rv) = sender /\ Emptied(sender) = g /\ sender.eval = kept /\ sender.alt = Cur.alt
    BY DEF Send, Emptied, Frame
  <2>5. /\ memory' = Cleared(Cleared(memory, kept), Cur.alt)
        /\ \/ state' = "HALT" /\ result' = res \o sent /\ contexts' = es
           \/ /\ Len(invocation) # 1 /\ UNCHANGED <<state, result>>
              /\ contexts' = [es EXCEPT ![j] = h]
    <3>1. memory' = Released(memory, sender)
      BY <1>3, <2>4 DEF Ret
    <3>2. CASE Len(invocation) = 1
      BY <1>3, <2>4, <3>1, <3>2 DEF Ret, Released
    <3>3. CASE Len(invocation) # 1
      BY <1>3, <2>4, <3>1, <3>3 DEF Ret, Released
    <3> QED
      BY <3>2, <3>3
  <2>6. cs \in Seq(FrameSet(S)) /\ res \in Seq(S) /\ Cur = cs[c]
    BY DEF MemInv, Stored, Cur
  <2>7. g \in FrameSet(S) /\ g.eval = << >> /\ g.alt = << >>
    BY <2>1 DEF Frame, FrameSet
  <2>8. Written(cs, es, c, g)
    BY DEF Written
  <2> HIDE DEF S, cs, sent, kept, g, c, es, res
  <2>9. /\ es \in Seq(FrameSet(S)) /\ DOMAIN es = DOMAIN cs
        /\ \A v : Held(es, res, v) + Both(Cur, v) = Held(cs, res, v) + Both(g, v)
    BY <2>1, <2>6, <2>7, <2>8, FrameStep
  <2>10. \A v : /\ Held(es, res, v) \in Nat /\ Held(cs, res, v) \in Nat
                /\ Held(cs, res, v) = Held(es, res, v)
                                        + (Count(kept, v) + Count(sent, v) + Count(Cur.alt, v))
                /\ Count(Cur.alt, v) \in Nat
    <3> TAKE v
    <3>1. Both(g, v) = 0
      BY <2>7, CountEmpty DEF Both
    <3>2. Both(Cur, v) = Count(kept, v) + Count(sent, v) + Count(Cur.alt, v)
      BY <2>3 DEF Both
    <3>3. Held(es, res, v) \in Nat /\ Held(cs, res, v) \in Nat
      BY <2>6, <2>9, HeldType
    <3>4. Count(kept, v) \in Nat /\ Count(sent, v) \in Nat /\ Count(Cur.alt, v) \in Nat
      BY <2>1, <2>3, CountType
    <3>5. Held(es, res, v) + Both(Cur, v) = Held(cs, res, v) + Both(g, v)
      BY <2>9
    <3> QED
      BY <3>1, <3>2, <3>3, <3>4, <3>5
  <2>11. /\ contexts' \in Seq(FrameSet(S)) /\ result' \in Seq(S)
         /\ \A v : Held(contexts', result', v) = Held(es, res, v) + Count(sent, v)
    <3>1. CASE result' = res \o sent /\ contexts' = es
      <4> DEFINE new == res \o sent
      <4>1. new \in Seq(S)
        BY <2>3, <2>6, ConcatProperties
      <4>2. \A v : Count(new, v) = Count(res, v) + Count(sent, v)
        BY <2>3, <2>6, CountConcat
      <4> HIDE DEF new
      <4>3. \A v : Held(es, new, v) + Count(res, v) = Held(es, res, v) + Count(new, v)
        BY <2>6, <2>9, <4>1, ResultReplaced
      <4>4. \A v : /\ Held(es, new, v) \in Nat /\ Held(es, res, v) \in Nat
                   /\ Count(res, v) \in Nat /\ Count(sent, v) \in Nat
        BY <2>3, <2>6, <2>9, <4>1, HeldType, CountType
      <4>5. \A v : Held(es, new, v) = Held(es, res, v) + Count(sent, v)
        BY <4>2, <4>3, <4>4
      <4>6. result' = new /\ contexts' = es
        BY <3>1 DEF new
      <4> QED
        BY <2>9, <4>1, <4>5, <4>6
    <3>2. CASE /\ Len(invocation) # 1 /\ UNCHANGED <<state, result>>
               /\ contexts' = [es EXCEPT ![j] = h]
      <4>1. j \in DOMAIN es
        <5>1. Front(invocation) \in Seq(DOMAIN contexts)
          BY <1>1, TopIsContext
        <5>2. Front(invocation) # << >>
          <6>1. Len(invocation) \in Nat \ {0} /\ Len(Front(invocation)) = Len(invocation) - 1
            BY <1>1, Shortened DEF Shape
          <6> QED
            BY <3>2, <6>1, EmptySeq
        <5>3. j \in DOMAIN contexts
          BY <5>1, <5>2, Shortened
        <5> QED
          BY <2>9, <5>3 DEF cs
      <4> HIDE DEF j
      <4>2. es[j] \in FrameSet(S)
        <5> DEFINE X == FrameSet(S)
        <5>1. es \in Seq(X) /\ j \in DOMAIN es
          BY <2>9, <4>1
        <5> HIDE DEF X
        <5>2. es[j] \in X
          BY <5>1, LenProperties, ElementOfSeq
        <5> QED
          BY <5>2 DEF X
      <4>3. es[j].eval \in Seq(S) /\ es[j].alt \in Seq(S) /\ es[j].rv \in Nat \cup {-1}
        BY <4>2 DEF FrameSet
      <4>4. es[j].eval \o sent \in Seq(S)
        BY <2>3, <4>3, ConcatProperties
      <4>5. h \in FrameSet(S) /\ h.eval = es[j].eval \o sent /\ h.alt = es[j].alt
        BY <4>3, <4>4 DEF Frame, FrameSet
      <4>6. \A v : Both(h, v) = Both(es[j], v) + Count(sent, v) /\ Both(es[j], v) \in Nat
        <5> TAKE v
        <5>1. Count(es[j].eval \o sent, v) = Count(es[j].eval, v) + Count(sent, v)
          BY <2>3, <4>3, CountConcat
        <5>2. Count(es[j].eval, v) \in Nat /\ Count(es[j].alt, v) \in Nat /\ Count(sent, v) \in Nat
          BY <2>3, <4>3, CountType
        <5> HIDE DEF h
        <5> QED
          BY <4>5, <5>1, <5>2 DEF Both
      <4> DEFINE ds == contexts'
      <4>7. Written(es, ds, j, h)
        BY <3>2 DEF Written
      <4> HIDE DEF h, ds
      <4>8. /\ ds \in Seq(FrameSet(S))
            /\ \A v : Held(ds, res, v) + Both(es[j], v) = Held(es, res, v) + Both(h, v)
        <5>1. es \in Seq(FrameSet(S)) /\ res \in Seq(S) /\ h \in FrameSet(S)
          BY <2>6, <2>9, <4>5
        <5> QED
          BY <4>1, <4>7, <5>1, FrameStep
      <4>9. \A v : Held(ds, res, v) = Held(es, res, v) + Count(sent, v)
        <5> TAKE v
        <5>1. Held(ds, res, v) \in Nat /\ Held(es, res, v) \in Nat /\ Count(sent, v) \in Nat
          BY <2>3, <2>6, <2>9, <4>8, HeldType
        <5> QED
          BY <4>6, <4>8, <5>1
      <4>10. result' = res
        BY <3>2 DEF res
      <4> QED
        BY <2>6, <4>8, <4>9, <4>10 DEF ds
    <3> QED
      BY <2>5, <3>1, <3>2
  <2>12. Engine' = Engine
    BY <1>1, <2>5 DEF Engine, Alive
  <2>13. Stored(born, held', contexts', result')
    BY <1>1, <2>11 DEF MemInv, Stored, S
  <2>14. \A v : HandlesIn(held, v) + Held(contexts, result, v)
                  = HandlesIn(held', v) + Held(contexts', result', v)
                      + (Count(kept, v) + Count(Cur.alt, v))
    <3> TAKE v
    <3>1. HandlesIn(held, v) \in Nat
      BY RefsType DEF MemInv
    <3>2. HandlesIn(held', v) = HandlesIn(held, v)
      BY <1>1
    <3>3. /\ Held(contexts, result, v) = Held(es, res, v)
                + (Count(kept, v) + Count(sent, v) + Count(Cur.alt, v))
          /\ Held(es, res, v) \in Nat /\ Count(Cur.alt, v) \in Nat
      BY <2>10 DEF cs, res
    <3>4. Held(contexts', result', v) = Held(es, res, v) + Count(sent, v)
      BY <2>11
    <3>5. Count(kept, v) \in Nat /\ Count(sent, v) \in Nat
      BY <2>3
    <3> QED
      BY <3>1, <3>2, <3>3, <3>4, <3>5
  <2>15. memory' = Cleared(Cleared(memory, kept), Cur.alt) /\ UNCHANGED <<born, survivors, refused>>
    BY <1>1, <2>5
  <2>16. kept \in Seq(1 .. born) /\ Cur.alt \in Seq(1 .. born)
    BY <2>1, <2>3 DEF S
  <2> QED
    BY <2>12, <2>13, <2>14, <2>15, <2>16, ClearStep
<1> QED
  BY <1>2, <1>3

----------------------------------------------------------------------------
(* The host.                                                               *)

(* A place of the host is a stack.                                         *)
LEMMA PlaceIs ==
  ASSUME MemInv, NEW place \in Place
  PROVE  /\ place \in Spots(contexts) /\ At(place) = StackAt(contexts, result, place)
         /\ At(place) \in Seq(1 .. born)
<1>1. place \in Spots(contexts) /\ At(place) = StackAt(contexts, result, place)
  BY DEF Place, Spots, At, StackAt
<1> DEFINE S == 1 .. born
<1>2. contexts \in Seq(FrameSet(S)) /\ result \in Seq(S)
  BY DEF MemInv, Stored
<1> HIDE DEF S
<1>3. StacksOf(contexts, result) \in [Spots(contexts) -> Seq(S)]
  BY <1>2, StacksType
<1>4. StackAt(contexts, result, place) \in Seq(S)
  BY <1>1, <1>3 DEF StacksOf
<1> QED
  BY <1>1, <1>4 DEF S

(* A stack of any frame, or the result stack, is written to.               *)
LEMMA StoreHeld ==
  ASSUME MemInv, NEW place \in Place, NEW s \in Seq(1 .. born), Store(place, s)
  PROVE  /\ contexts' \in Seq(FrameSet(1 .. born)) /\ result' \in Seq(1 .. born)
         /\ \A v : /\ Held(contexts', result', v) + Count(At(place), v)
                        = Held(contexts, result, v) + Count(s, v)
                   /\ Held(contexts', result', v) \in Nat /\ Held(contexts, result, v) \in Nat
                   /\ Count(At(place), v) \in Nat /\ Count(s, v) \in Nat
<1> DEFINE S == 1 .. born
           old == At(place)
           cs == contexts
           ds == contexts'
           res == result
           new == result'
           c == place[1]
<1>1. cs \in Seq(FrameSet(S)) /\ res \in Seq(S) /\ s \in Seq(S) /\ old \in Seq(S)
  BY PlaceIs DEF MemInv, Stored
<1>2. /\ ds \in Seq(FrameSet(S)) /\ new \in Seq(S)
      /\ \A v : Held(ds, new, v) + Count(old, v) = Held(cs, res, v) + Count(s, v)
  <2>1. CASE c = 0
    <3>1. new = s /\ ds = cs /\ old = res
      BY <2>1 DEF Store, At
    <3> HIDE DEF S, old, cs, ds, res, new, c
    <3>2. \A v : Held(cs, s, v) + Count(res, v) = Held(cs, res, v) + Count(s, v)
      BY <1>1, ResultReplaced
    <3> QED
      BY <1>1, <3>1, <3>2
  <2>2. CASE c # 0
    <3>1. c \in DOMAIN cs /\ place[2] \in {"eval", "alt"}
      BY <2>2 DEF Place
    <3>2. cs[c] \in FrameSet(S)
      <4> DEFINE X == FrameSet(S)
      <4>1. cs \in Seq(X) /\ c \in DOMAIN cs
        BY <1>1, <3>1
      <4> HIDE DEF X, cs, c
      <4>2. cs[c] \in X
        BY <4>1, LenProperties, ElementOfSeq
      <4> QED
        BY <4>2 DEF X
    <3> DEFINE f == IF place[2] = "eval" THEN Frame(s, cs[c].alt, cs[c].rv)
                                         ELSE Frame(cs[c].eval, s, cs[c].rv)
    <3>3. Written(cs, ds, c, f) /\ new = res
      BY <2>2 DEF Store, Written
    <3>4. f \in FrameSet(S)
      BY <1>1, <3>2 DEF Frame, FrameSet
    <3>5. \/ place[2] = "eval" /\ old = cs[c].eval /\ f.eval = s /\ f.alt = cs[c].alt
          \/ place[2] = "alt" /\ old = cs[c].alt /\ f.alt = s /\ f.eval = cs[c].eval
      <4>1. CASE place[2] = "eval"
        BY <2>2, <4>1 DEF At, Frame
      <4>2. CASE place[2] = "alt"
        BY <2>2, <4>2 DEF At, Frame
      <4> QED
        BY <3>1, <4>1, <4>2
    <3> HIDE DEF S, old, cs, ds, res, new, c, f
    <3>6. /\ ds \in Seq(FrameSet(S))
          /\ \A v : Held(ds, res, v) + Both(cs[c], v) = Held(cs, res, v) + Both(f, v)
      BY <1>1, <3>1, <3>3, <3>4, FrameStep
    <3>7. ASSUME NEW v
          PROVE  Held(ds, res, v) + Count(old, v) = Held(cs, res, v) + Count(s, v)
      <4>1. Held(ds, res, v) \in Nat /\ Held(cs, res, v) \in Nat
        BY <1>1, <3>6, HeldType
      <4>2. Count(cs[c].eval, v) \in Nat /\ Count(cs[c].alt, v) \in Nat /\ Count(s, v) \in Nat
        BY <1>1, <3>2, BothType, CountType
      <4>3. Held(ds, res, v) + Both(cs[c], v) = Held(cs, res, v) + Both(f, v)
        BY <3>6
      <4>4. CASE old = cs[c].eval /\ f.eval = s /\ f.alt = cs[c].alt
        BY <4>1, <4>2, <4>3, <4>4 DEF Both
      <4>5. CASE old = cs[c].alt /\ f.alt = s /\ f.eval = cs[c].eval
        BY <4>1, <4>2, <4>3, <4>5 DEF Both
      <4> QED
        BY <3>5, <4>4, <4>5
    <3> QED
      BY <1>1, <3>3, <3>6, <3>7
  <2> QED
    BY <2>1, <2>2
<1> HIDE DEF S, old, cs, ds, res, new, c
<1>3. \A v : /\ Held(ds, new, v) \in Nat /\ Held(cs, res, v) \in Nat
             /\ Count(old, v) \in Nat /\ Count(s, v) \in Nat
  BY <1>1, <1>2, HeldType, CountType
<1> QED
  BY <1>2, <1>3 DEF S, old, cs, ds, res, new

(* StackItem_Create, whose claim is the handle's.                          *)
LEMMA HostCreateMem ==
  ASSUME MemInv, HostCreate
  PROVE  MemInv'
<1>1. Alive /\ UNCHANGED <<contexts, result, survivors>>
  BY DEF HostCreate, EngineUnchanged
<1>2. CASE Refuses(memory)
  <2>1. /\ UNCHANGED <<held, born>> /\ refused' = refused + 1 /\ memory' = Created(memory)
        /\ state' = "CRASHED"
    BY <1>2 DEF HostCreate
  <2>2. Engine' = Engine
    BY <1>1, <2>1 DEF Engine, Alive
  <2> QED
    BY <1>1, <1>2, <2>1, <2>2, RefuseStep
<1>3. CASE ~Refuses(memory)
  <2> DEFINE i == born + 1
  <2>1. /\ held' = held (+) SetToBag({i}) /\ memory' = Claim(Created(memory), born + 1)
        /\ born' = born + 1 /\ UNCHANGED <<state, refused>>
    BY <1>3 DEF HostCreate
  <2>2. /\ born \in Nat /\ HandleBag(born, held) /\ contexts \in Seq(FrameSet(1 .. born))
        /\ result \in Seq(1 .. born)
    BY DEF MemInv, Stored
  <2>3. 1 .. born \subseteq 1 .. i /\ i \in 1 .. i /\ i \in Nat
    BY <2>2
  <2> HIDE DEF i
  <2>4. HandleBag(i, held)
    BY <2>2, <2>3 DEF HandleBag
  <2>5. /\ HandleBag(i, held')
        /\ \A v : HandlesIn(held', v) = HandlesIn(held, v) + One(i, v)
    BY <2>1, <2>3, <2>4, HandleMore
  <2>6. contexts' \in Seq(FrameSet(1 .. i)) /\ result' \in Seq(1 .. i)
    BY <1>1, <2>2, <2>3, Wider
  <2>7. Stored(born + 1, held', contexts', result')
    BY <2>3, <2>5, <2>6 DEF Stored, i
  <2>8. \A v : HandlesIn(held', v) + Held(contexts', result', v)
                 = HandlesIn(held, v) + Held(contexts, result, v) + One(born + 1, v)
    <3> TAKE v
    <3>1. HandlesIn(held, v) \in Nat /\ Held(contexts, result, v) \in Nat /\ One(i, v) \in Nat
      BY RefsType DEF MemInv, One
    <3>2. Held(contexts', result', v) = Held(contexts, result, v)
      BY <1>1
    <3> QED
      BY <2>5, <3>1, <3>2 DEF i
  <2>9. Engine' = Engine /\ Engine = 1
    BY <1>1, <2>1 DEF Engine, Alive
  <2> QED
    BY <1>1, <1>3, <2>1, <2>7, <2>8, <2>9, CreateStep
<1> QED
  BY <1>2, <1>3

(* Pop gives up the claim of the stack, and the host makes one at once.    *)
LEMMA HostPopMem ==
  ASSUME MemInv, NEW place \in Place, HostPop(place)
  PROVE  MemInv'
<1> DEFINE s == At(place)
           i == Last(s)
           S == 1 .. born
<1>1. /\ s # << >> /\ memory' = Adopted(UnClaim(memory, i), i) /\ held' = held (+) SetToBag({i})
      /\ Store(place, Front(s)) /\ UNCHANGED <<state, born, refused, survivors>>
  BY DEF HostPop, EngineUnchanged
<1>2. s \in Seq(S) /\ place \in Spots(contexts) /\ s = StackAt(contexts, result, place)
  BY PlaceIs
<1>3. /\ i \in S /\ Front(s) \in Seq(S)
      /\ \A v : Count(s, v) = Count(Front(s), v) + One(i, v)
  <2> HIDE DEF S, s
  <2> QED
    BY <1>1, <1>2, CountLast
<1>4. Held(contexts, result, i) > 0
  <2>1. contexts \in Seq(FrameSet(S)) /\ result \in Seq(S)
    BY DEF MemInv, Stored
  <2>2. Len(s) \in DOMAIN s /\ i = s[Len(s)]
    BY <1>1, <1>2, LenProperties, EmptySeq DEF Last
  <2> DEFINE t == StackAt(contexts, result, place)
             x == Len(s)
  <2>3. x \in DOMAIN t /\ i = t[x]
    BY <1>2, <2>2
  <2> HIDE DEF S, s, x
  <2>4. Held(contexts, result, t[x]) > 0
    BY <1>2, <2>1, <2>3, HeldAt
  <2> QED
    BY <2>3, <2>4
<1>5. /\ contexts' \in Seq(FrameSet(S)) /\ result' \in Seq(S)
      /\ \A v : /\ Held(contexts', result', v) + Count(s, v)
                     = Held(contexts, result, v) + Count(Front(s), v)
                /\ Held(contexts', result', v) \in Nat /\ Held(contexts, result, v) \in Nat
                /\ Count(s, v) \in Nat /\ Count(Front(s), v) \in Nat
  BY <1>1, <1>3, StoreHeld
<1> HIDE DEF s, i
<1>6. HandleBag(born, held) /\ born \in Nat
  BY DEF MemInv, Stored
<1>7. /\ HandleBag(born, held')
      /\ \A v : HandlesIn(held', v) = HandlesIn(held, v) + One(i, v)
  BY <1>1, <1>3, <1>6, HandleMore
<1>8. Stored(born, held', contexts', result')
  BY <1>5, <1>6, <1>7 DEF Stored
<1>9. \A v : HandlesIn(held', v) + Held(contexts', result', v)
               = HandlesIn(held, v) + Held(contexts, result, v)
  <2> TAKE v
  <2>1. HandlesIn(held, v) \in Nat /\ One(i, v) \in Nat
    BY RefsType DEF MemInv, One
  <2>2. /\ Held(contexts', result', v) + Count(s, v)
             = Held(contexts, result, v) + Count(Front(s), v)
        /\ Held(contexts', result', v) \in Nat /\ Held(contexts, result, v) \in Nat
        /\ Count(s, v) \in Nat /\ Count(Front(s), v) \in Nat
    BY <1>5
  <2>3. HandlesIn(held', v) = HandlesIn(held, v) + One(i, v)
    BY <1>7
  <2>4. Count(s, v) = Count(Front(s), v) + One(i, v)
    BY <1>3
  <2> QED
    BY <2>1, <2>2, <2>3, <2>4
<1>10. Engine' = Engine
  BY <1>1 DEF Engine
<1> QED
  BY <1>1, <1>3, <1>4, <1>8, <1>9, <1>10, AdoptStep

(* Peek: the host claims what the stack goes on to hold.                   *)
LEMMA HostPeekMem ==
  ASSUME MemInv, NEW place \in Place, HostPeek(place)
  PROVE  MemInv'
<1> DEFINE s == At(place)
           S == 1 .. born
<1>1. UNCHANGED <<state, contexts, result, born, refused, survivors>>
  BY DEF HostPeek, EngineUnchanged
<1>2. PICK x \in DOMAIN s :
        memory' = Adopted(memory, s[x]) /\ held' = held (+) SetToBag({s[x]})
  BY DEF HostPeek
<1> DEFINE i == s[x]
<1>3. s \in Seq(S) /\ place \in Spots(contexts) /\ s = StackAt(contexts, result, place)
  BY PlaceIs
<1>4. i \in S
  <2> HIDE DEF S, s
  <2> QED
    BY <1>3, LenProperties, ElementOfSeq
<1>5. Held(contexts, result, i) > 0
  <2>1. contexts \in Seq(FrameSet(S)) /\ result \in Seq(S)
    BY DEF MemInv, Stored
  <2> DEFINE t == StackAt(contexts, result, place)
  <2>2. x \in DOMAIN t /\ i = t[x]
    BY <1>3
  <2> HIDE DEF S, s
  <2>3. Held(contexts, result, t[x]) > 0
    BY <1>3, <2>1, <2>2, HeldAt
  <2> QED
    BY <2>2, <2>3
<1>6. memory' = Claim(memory, i) /\ held' = held (+) SetToBag({i})
  BY <1>2 DEF Adopted
<1> HIDE DEF s, i
<1>7. HandleBag(born, held) /\ born \in Nat
  BY DEF MemInv, Stored
<1>8. /\ HandleBag(born, held')
      /\ \A v : HandlesIn(held', v) = HandlesIn(held, v) + One(i, v)
  BY <1>4, <1>6, <1>7, HandleMore
<1>9. Stored(born, held', contexts', result')
  BY <1>1, <1>7, <1>8 DEF Stored, MemInv
<1>10. \A v : HandlesIn(held', v) + Held(contexts', result', v)
                = HandlesIn(held, v) + Held(contexts, result, v) + One(i, v)
  <2> TAKE v
  <2>1. HandlesIn(held, v) \in Nat /\ Held(contexts, result, v) \in Nat /\ One(i, v) \in Nat
    BY RefsType DEF MemInv, One
  <2>2. Held(contexts', result', v) = Held(contexts, result, v)
    BY <1>1
  <2> QED
    BY <1>8, <2>1, <2>2
<1>11. Engine' = Engine
  BY <1>1 DEF Engine
<1> QED
  BY <1>1, <1>4, <1>5, <1>6, <1>9, <1>10, <1>11, GainStep

(* Push: the stack claims what the host goes on to hold.                   *)
LEMMA HostPushMem ==
  ASSUME MemInv, NEW place \in Place, HostPush(place)
  PROVE  MemInv'
<1> DEFINE s == At(place)
           S == 1 .. born
<1>1. UNCHANGED <<state, held, born, refused, survivors>>
  BY DEF HostPush
<1>2. PICK i \in BagToSet(held) : memory' = Claim(memory, i) /\ Store(place, Append(s, i))
  BY DEF HostPush
<1>3. HandleBag(born, held) /\ born \in Nat
  BY DEF MemInv, Stored
<1>4. i \in S /\ HandlesIn(held, i) > 0
  BY <1>2, <1>3 DEF BagToSet, HandleBag, HandlesIn
<1>5. s \in Seq(S)
  BY PlaceIs
<1> DEFINE t == Append(s, i)
<1>6. t \in Seq(S) /\ \A v : Count(t, v) = Count(s, v) + One(i, v)
  <2> HIDE DEF S, s
  <2> QED
    BY <1>4, <1>5, CountAppend, AppendProperties
<1>7. /\ contexts' \in Seq(FrameSet(S)) /\ result' \in Seq(S)
      /\ \A v : /\ Held(contexts', result', v) + Count(s, v)
                     = Held(contexts, result, v) + Count(t, v)
                /\ Held(contexts', result', v) \in Nat /\ Held(contexts, result, v) \in Nat
                /\ Count(s, v) \in Nat /\ Count(t, v) \in Nat
  BY <1>2, <1>6, StoreHeld
<1> HIDE DEF s, t
<1>8. Stored(born, held', contexts', result')
  BY <1>1, <1>3, <1>7 DEF Stored
<1>9. \A v : HandlesIn(held', v) + Held(contexts', result', v)
               = HandlesIn(held, v) + Held(contexts, result, v) + One(i, v)
  <2> TAKE v
  <2>1. HandlesIn(held, v) \in Nat /\ One(i, v) \in Nat /\ HandlesIn(held', v) = HandlesIn(held, v)
    BY <1>1, RefsType DEF MemInv, One
  <2>2. /\ Held(contexts', result', v) + Count(s, v)
             = Held(contexts, result, v) + Count(t, v)
        /\ Held(contexts', result', v) \in Nat /\ Held(contexts, result, v) \in Nat
        /\ Count(s, v) \in Nat /\ Count(t, v) \in Nat
    BY <1>7
  <2>3. Count(t, v) = Count(s, v) + One(i, v)
    BY <1>6
  <2> QED
    BY <2>1, <2>2, <2>3
<1>10. Engine' = Engine
  BY <1>1 DEF Engine
<1> QED
  BY <1>1, <1>2, <1>4, <1>8, <1>9, <1>10, GainStep

(* Drop clears the top of a stack.                                         *)
LEMMA HostDropMem ==
  ASSUME MemInv, NEW place \in Place, HostDrop(place)
  PROVE  MemInv'
<1> DEFINE s == At(place)
           S == 1 .. born
<1>1. UNCHANGED <<state, held, born, refused, survivors>>
  BY DEF HostDrop, EngineUnchanged
<1>2. PICK count \in 1 .. Len(s) :
        memory' = Cleared(memory, Sent(s, count)) /\ Store(place, Kept(s, count))
  BY DEF HostDrop
<1>3. s \in Seq(S) /\ Len(s) \in Nat
  BY PlaceIs, LenProperties
<1>4. count \in Nat \cup {-1} /\ count <= Len(s)
  BY <1>2, <1>3
<1> DEFINE kept == Kept(s, count)
           sent == Sent(s, count)
<1>5. /\ sent \in Seq(S) /\ kept \in Seq(S)
      /\ \A v : /\ Count(s, v) = Count(kept, v) + Count(sent, v)
                /\ Count(kept, v) \in Nat /\ Count(sent, v) \in Nat
  <2> HIDE DEF S, s
  <2> QED
    BY <1>3, <1>4, SentAndKept
<1>6. /\ contexts' \in Seq(FrameSet(S)) /\ result' \in Seq(S)
      /\ \A v : /\ Held(contexts', result', v) + Count(s, v)
                     = Held(contexts, result, v) + Count(kept, v)
                /\ Held(contexts', result', v) \in Nat /\ Held(contexts, result, v) \in Nat
                /\ Count(s, v) \in Nat /\ Count(kept, v) \in Nat
  BY <1>2, <1>5, StoreHeld
<1> HIDE DEF s, kept, sent
<1>7. HandleBag(born, held) /\ born \in Nat
  BY DEF MemInv, Stored
<1>8. Stored(born, held', contexts', result')
  BY <1>1, <1>6, <1>7 DEF Stored
<1>9. \A v : HandlesIn(held, v) + Held(contexts, result, v)
               = HandlesIn(held', v) + Held(contexts', result', v) + Count(sent, v)
  <2> TAKE v
  <2>1. HandlesIn(held, v) \in Nat /\ HandlesIn(held', v) = HandlesIn(held, v)
    BY <1>1, RefsType DEF MemInv
  <2>2. /\ Held(contexts', result', v) + Count(s, v)
             = Held(contexts, result, v) + Count(kept, v)
        /\ Held(contexts', result', v) \in Nat /\ Held(contexts, result, v) \in Nat
        /\ Count(s, v) \in Nat /\ Count(kept, v) \in Nat
    BY <1>6
  <2>3. Count(s, v) = Count(kept, v) + Count(sent, v) /\ Count(sent, v) \in Nat
    BY <1>5
  <2> QED
    BY <2>1, <2>2, <2>3
<1>10. Engine' = Engine /\ memory' = Cleared(memory, sent)
  BY <1>1, <1>2 DEF Engine, sent, s
<1> QED
  BY <1>1, <1>5, <1>8, <1>9, <1>10, ClearOneStep

(* StackItem_Free gives up the claim of a handle.                          *)
LEMMA HostFreeMem ==
  ASSUME MemInv, HostFree
  PROVE  MemInv'
<1>1. UNCHANGED <<state, contexts, result, born, refused, survivors>>
  BY DEF HostFree, EngineUnchanged
<1>2. PICK i \in BagToSet(held) :
        memory' = UnclaimAndFree(memory, i) /\ held' = held (-) SetToBag({i})
  BY DEF HostFree
<1>3. HandleBag(born, held) /\ born \in Nat
  BY DEF MemInv, Stored
<1>4. i \in DOMAIN held /\ i \in 1 .. born
  BY <1>2, <1>3 DEF BagToSet, HandleBag
<1>5. /\ HandleBag(born, held')
      /\ \A v : HandlesIn(held, v) = HandlesIn(held', v) + One(i, v)
  BY <1>2, <1>3, <1>4, HandleLess
<1>6. Stored(born, held', contexts', result')
  BY <1>1, <1>3, <1>5 DEF Stored, MemInv
<1>7. \A v : HandlesIn(held, v) + Held(contexts, result, v)
               = HandlesIn(held', v) + Held(contexts', result', v) + One(i, v)
  <2> TAKE v
  <2>1. /\ HandlesIn(held', v) \in Nat /\ Held(contexts, result, v) \in Nat
        /\ Held(contexts', result', v) = Held(contexts, result, v) /\ One(i, v) \in Nat
    BY <1>1, <1>6, RefsType DEF MemInv, One
  <2>2. HandlesIn(held, v) = HandlesIn(held', v) + One(i, v)
    BY <1>5
  <2> QED
    BY <2>1, <2>2
<1>8. Engine' = Engine
  BY <1>1 DEF Engine
<1> QED
  BY <1>1, <1>2, <1>4, <1>6, <1>7, <1>8, LoseStep

(* The items of the result stack lose their places there.                  *)
LEMMA ResultDropped ==
  ASSUME MemInv, UNCHANGED <<contexts, held, born>>, result' = << >>
  PROVE  /\ Stored(born, held', contexts', result') /\ result \in Seq(1 .. born)
         /\ Refs(born, held, contexts, result) \in Table(born)
         /\ \A j \in 1 .. born : Refs(born, held, contexts, result)[j]
                = Refs(born, held', contexts', result')[j] + Count(result, j)
<1> DEFINE S == 1 .. born
<1>1. contexts \in Seq(FrameSet(S)) /\ result \in Seq(S) /\ << >> \in Seq(S)
  BY DEF MemInv, Stored
<1>2. Stored(born, held', contexts', result')
  BY <1>1 DEF MemInv, Stored
<1>3. \A v : Held(contexts, << >>, v) + Count(result, v)
               = Held(contexts, result, v) + Count(<< >>, v)
  <2> DEFINE none == << >>
  <2>1. none \in Seq(S)
    BY <1>1
  <2> HIDE DEF S, none
  <2>2. \A v : Held(contexts, none, v) + Count(result, v)
                 = Held(contexts, result, v) + Count(none, v)
    BY <1>1, <2>1, ResultReplaced
  <2> QED
    BY <2>2 DEF none
<1>4. ASSUME NEW j \in S
      PROVE  Refs(born, held, contexts, result)[j]
               = Refs(born, held', contexts', result')[j] + Count(result, j)
  <2>1. /\ HandlesIn(held, j) \in Nat /\ Held(contexts, result, j) \in Nat
        /\ Held(contexts', result', j) \in Nat
    BY <1>2, RefsType DEF MemInv
  <2>2. Held(contexts', result', j) + Count(result, j) = Held(contexts, result, j)
    <3>1. Count(<< >>, j) = 0
      BY CountEmpty
    <3>2. Held(contexts, << >>, j) + Count(result, j) = Held(contexts, result, j) + Count(<< >>, j)
      BY <1>3
    <3> QED
      BY <2>1, <3>1, <3>2
  <2>3. Count(result, j) \in Nat
    <3> HIDE DEF S
    <3> QED
      BY <1>1, CountType
  <2>4. /\ Refs(born, held, contexts, result)[j] = HandlesIn(held, j) + Held(contexts, result, j)
        /\ Refs(born, held', contexts', result')[j] = HandlesIn(held, j) + Held(contexts', result', j)
    BY <1>4 DEF Refs
  <2> QED
    BY <2>1, <2>2, <2>3, <2>4
<1> QED
  BY <1>1, <1>2, <1>4, RefsType DEF MemInv

(* Clean clears the result stack and counts from zero: what exists         *)
(* survived.                                                               *)
LEMMA CleanMem ==
  ASSUME MemInv, Clean
  PROVE  MemInv'
<1> DEFINE S == 1 .. born
           R == Refs(born, held, contexts, result)
           Q == Refs(born, held', contexts', result')
           m == Cleared(memory, result)
<1>1. /\ UNCHANGED <<contexts, held, born>> /\ result' = << >> /\ refused' = 0
      /\ memory' = Memory(m.claims, 0, m.counter, m.misused) /\ survivors' = DOMAIN m.claims
      /\ state' = "NONE" /\ state # "GONE"
  BY DEF Clean, Alive
<1>2. /\ Stored(born, held', contexts', result') /\ result \in Seq(S)
      /\ R \in Table(born) /\ \A j \in S : R[j] = Q[j] + Count(result, j)
  BY <1>1, ResultDropped
<1>3. Q \in Table(born) /\ born \in Nat
  BY <1>1, <1>2, RefsType
<1>4. /\ Sound(memory, born, R, 1, survivors, refused) /\ survivors \in SUBSET S
      /\ refused \in Nat /\ 1 \in {0, 1}
  BY <1>1 DEF MemInv, Engine
<1> DEFINE n == born
           T == survivors
           r == refused
           e == 1
<1>5. Sound(m, born, Q, 1, survivors, refused)
  <2>1. /\ n \in Nat /\ R \in Table(n) /\ Q \in Table(n) /\ T \in SUBSET (1 .. n) /\ r \in Nat
        /\ e \in {0, 1} /\ Sound(memory, n, R, e, T, r) /\ result \in Seq(1 .. n)
        /\ \A j \in 1 .. n : R[j] = Q[j] + Count(result, j)
    BY <1>2, <1>3, <1>4
  <2> HIDE DEF R, Q, n, T, r, e, m
  <2>2. Sound(Cleared(memory, result), n, Q, e, T, r)
    BY <2>1, ClearSound
  <2> QED
    BY <2>2 DEF n, T, r, e, m
<1> HIDE DEF m, Q
<1>6. Sound(memory', born, Q, 1, survivors', 0)
  BY <1>1, <1>3, <1>5, RestartSound
<1>7. survivors' = Live' /\ survivors' \subseteq S /\ IsFiniteSet(Live')
  <2>1. Live' = DOMAIN m.claims
    BY <1>1 DEF Live, Memory
  <2>2. Accounts(m, born, Q)
    BY <1>5 DEF Sound
  <2> QED
    BY <1>1, <1>3, <2>1, <2>2, LiveFinite
<1>8. LimitHolds'
  <2>1. Cardinality(survivors') \in Nat /\ MaxItems \in Nat
    BY <1>7, FS_CardinalityType, FramesAssumption
  <2> QED
    BY <1>7, <2>1 DEF LimitHolds
<1>9. Engine' = 1
  BY <1>1 DEF Engine
<1> QED
  BY <1>1, <1>2, <1>6, <1>7, <1>8, <1>9 DEF MemInv, Q

(* The engine gives up the counter, then clears the result stack.          *)
LEMMA EngineFreeMem ==
  ASSUME MemInv, EngineFree
  PROVE  MemInv'
<1> DEFINE S == 1 .. born
           R == Refs(born, held, contexts, result)
           Q == Refs(born, held', contexts', result')
           u == UnClaimCounter(memory)
<1>1. /\ UNCHANGED <<contexts, held, born, survivors, refused>> /\ result' = << >>
      /\ memory' = Cleared(u, result) /\ state' = "GONE" /\ state # "GONE"
  BY DEF EngineFree, Alive
<1>2. /\ Stored(born, held', contexts', result') /\ result \in Seq(S)
      /\ R \in Table(born) /\ \A j \in S : R[j] = Q[j] + Count(result, j)
  BY <1>1, ResultDropped
<1>3. Q \in Table(born) /\ born \in Nat
  BY <1>1, <1>2, RefsType
<1>4. /\ Sound(memory, born, R, 1, survivors, refused) /\ survivors \in SUBSET S
      /\ refused \in Nat /\ 0 \in {0, 1}
  BY <1>1 DEF MemInv, Engine
<1>5. Sound(u, born, R, 0, survivors, refused) /\ u.claims = memory.claims
  <2> HIDE DEF R
  <2> QED
    BY <1>3, <1>4, GiveUpSound
<1> DEFINE n == born
           T == survivors
           r == refused
           e == 0
<1>6. Sound(memory', born, Q, 0, survivors, refused) /\ Fewer(memory', u)
  <2>1. /\ n \in Nat /\ R \in Table(n) /\ Q \in Table(n) /\ T \in SUBSET (1 .. n) /\ r \in Nat
        /\ e \in {0, 1} /\ Sound(u, n, R, e, T, r) /\ result \in Seq(1 .. n)
        /\ \A j \in 1 .. n : R[j] = Q[j] + Count(result, j)
    BY <1>2, <1>3, <1>4, <1>5
  <2> HIDE DEF R, Q, n, T, r, e, u
  <2>2. Sound(Cleared(u, result), n, Q, e, T, r) /\ Fewer(Cleared(u, result), u)
    BY <2>1, ClearSound
  <2> QED
    BY <1>1, <2>2 DEF n, T, r, e
<1> HIDE DEF Q, u
<1>7. LimitHolds'
  <2>1. Live' \subseteq Live
    BY <1>5, <1>6 DEF Fewer, Live
  <2>2. IsFiniteSet(Live) /\ survivors' = survivors /\ IsFiniteSet(survivors)
    <3>1. Accounts(memory, born, R)
      BY <1>4 DEF Sound
    <3>2. IsFiniteSet(Live)
      <4> HIDE DEF R
      <4> QED
        BY <1>3, <3>1, LiveFinite DEF Live
    <3>3. IsFiniteSet(survivors)
      <4>1. IsFiniteSet(1 .. born) /\ survivors \subseteq 1 .. born
        BY <1>3, <1>4, FS_Interval
      <4> QED
        BY <4>1, FS_Subset
    <3> QED
      BY <1>1, <3>2, <3>3
  <2>3. Cardinality(Live') <= Cardinality(Live) /\ Cardinality(Live') \in Nat
        /\ Cardinality(Live) \in Nat
    BY <2>1, <2>2, FS_Subset, FS_CardinalityType
  <2>4. Cardinality(survivors) \in Nat /\ MaxItems \in Nat /\ LimitHolds
    BY <2>2, FS_CardinalityType, FramesAssumption DEF MemInv
  <2> QED
    BY <2>2, <2>3, <2>4 DEF LimitHolds
<1>8. Engine' = 0
  BY <1>1 DEF Engine
<1>9. UNCHANGED <<born, survivors, refused>>
  BY <1>1
<1> QED
  BY <1>2, <1>4, <1>6, <1>7, <1>8, <1>9 DEF MemInv, Q

(* Execute with no frame, or an instruction that faults at once.           *)
LEMMA QuietMem ==
  ASSUME MemInv, NoContext \/ Fault
  PROVE  MemInv'
<1>1. /\ UNCHANGED <<contexts, result, memory, born, survivors, refused, held>>
      /\ Alive /\ state' \in {"HALT", "FAULT"}
  BY DEF NoContext, Fault, Instruction, SetFault, HostUnchanged
<1>2. Engine' = Engine
  BY <1>1 DEF Engine, Alive
<1>3. Stored(born, held', contexts', result')
  BY <1>1 DEF MemInv
<1> QED
  BY <1>1, <1>2, <1>3, MoveStep

(* CALL_E and CALL_ET move items, and clear the frame that they replace.   *)
LEMMA CallEMem ==
  ASSUME MemInv, Shape, NEW rvcount \in Counts, NEW pcount \in Counts, NEW tail \in BOOLEAN,
         CallE(rvcount, pcount, tail)
  PROVE  MemInv'
<1>1. rvcount \in Nat \cup {-1} /\ pcount \in Nat \cup {-1}
  BY FramesAssumption
<1>2. /\ invocation # << >> /\ pcount <= Len(Cur.eval) /\ Loaded(pcount, rvcount, tail)
      /\ UNCHANGED <<held, survivors, result, born, refused, state>>
  BY DEF CallE, Instruction, HostUnchanged
<1> QED
  BY <1>1, <1>2, LoadedMem

(* APPCALL and TAILCALL move all items, or load an empty frame and fault.  *)
LEMMA AppCallMem ==
  ASSUME MemInv, Shape, NEW tail \in BOOLEAN, AppCall(tail)
  PROVE  MemInv'
<1>1. /\ invocation # << >> /\ Alive
      /\ UNCHANGED <<held, survivors, result, born, refused>>
  BY DEF AppCall, Instruction, HostUnchanged
<1>2. CASE Len(invocation) + 1 >= MaxInvocation
  <2>1. state' = "FAULT" /\ contexts' = Pushed(<< >>, -1) /\ UNCHANGED memory
    BY <1>2 DEF AppCall, SetFault
  <2>2. Engine' = Engine
    BY <1>1, <2>1 DEF Engine, Alive
  <2> QED
    BY <1>1, <2>1, <2>2, LoadMem
<1>3. CASE ~(Len(invocation) + 1 >= MaxInvocation)
  <2>1. Loaded(-1, -1, tail) /\ UNCHANGED state
    BY <1>3 DEF AppCall
  <2>2. -1 \in Nat \cup {-1} /\ -1 <= Len(Cur.eval)
    BY <1>1, CurIs, LenProperties
  <2> QED
    BY <1>1, <2>1, <2>2, LoadedMem
<1> QED
  BY <1>2, <1>3

(* LoadScript pushes an empty frame.                                       *)
LEMMA LoadScriptMem ==
  ASSUME MemInv, LoadScript
  PROVE  MemInv'
<1>1. /\ UNCHANGED <<held, result, memory, born, survivors, refused, state>>
      /\ contexts' = Pushed(<< >>, -1)
  BY DEF LoadScript
<1>2. Engine' = Engine
  BY <1>1 DEF Engine
<1> QED
  BY <1>1, <1>2, LoadMem

----------------------------------------------------------------------------
(* The invocation stack.                                                   *)

Control ==
  /\ state \in {"NONE", "HALT", "FAULT", "GONE", "CRASHED"}
  /\ IsInjective(invocation) /\ abandoned \subseteq DOMAIN contexts

(* What a step may do to it: drop the top, and push a context that is new. *)
Moves ==
  \/ invocation' = invocation
  \/ invocation' = << >>
  \/ invocation # << >> /\ invocation' = Front(invocation)
  \/ invocation' = Append(invocation, New)
  \/ invocation # << >> /\ invocation' = Append(Front(invocation), New)

(* Front of a stack of distinct contexts is one.                           *)
LEMMA FrontInjective ==
  ASSUME NEW S, NEW s \in Seq(S), s # << >>, IsInjective(s)
  PROVE  IsInjective(Front(s))
<1>1. /\ Len(s) \in Nat \ {0} /\ DOMAIN s = 1 .. Len(s) /\ Front(s) \in Seq(S)
      /\ Len(Front(s)) = Len(s) - 1
  BY Shortened, LenProperties
<1>2. DOMAIN Front(s) = 1 .. Len(s) - 1
  BY <1>1, LenProperties
<1>3. \A x \in 1 .. Len(s) - 1 : Front(s)[x] = s[x]
  <2> DEFINE k == Len(s) - 1
  <2>1. k \in 0 .. Len(s)
    BY <1>1
  <2>2. Front(s) = SubSeq(s, 1, k)
    BY DEF Front
  <2> HIDE DEF k
  <2>3. \A x \in 1 .. k : SubSeq(s, 1, k)[x] = s[x]
    BY <2>1, Cut
  <2> QED
    BY <2>2, <2>3 DEF k
<1> QED
  BY <1>1, <1>2, <1>3 DEF IsInjective

(* So is what Append makes of it with a context that is on no stack yet.   *)
LEMMA NewInjective ==
  ASSUME NEW S, NEW s \in Seq(S), IsInjective(s), NEW v, v \notin S
  PROVE  IsInjective(Append(s, v))
<1> DEFINE t == Append(s, v)
           last == Len(s) + 1
<1>1. DOMAIN t = DOMAIN s \cup {last} /\ \A i \in DOMAIN s : t[i] = s[i]
  BY Grown
<1>2. \A i \in DOMAIN s : s[i] \in S
  BY LenProperties, ElementOfSeq
<1>3. t[last] = v
  <2>1. s \in Seq(S \cup {v}) /\ v \in S \cup {v}
    BY LenProperties
  <2> QED
    BY <2>1, AppendProperties
<1> HIDE DEF t, last
<1>4. IsInjective(t)
  BY <1>1, <1>2, <1>3 DEF IsInjective
<1> QED
  BY <1>4 DEF t

(* So is the invocation stack, however a step moves it.                    *)
LEMMA MovesInjective ==
  ASSUME Shape, IsInjective(invocation), Moves
  PROVE  IsInjective(invocation')
<1>1. invocation \in Seq(DOMAIN contexts) /\ New \notin DOMAIN contexts
  BY LenProperties DEF Shape, New
<1>2. CASE invocation' = invocation
  BY <1>2
<1>3. CASE invocation' = << >>
  BY <1>3 DEF IsInjective
<1>4. CASE invocation' = Append(invocation, New)
  BY <1>1, <1>4, NewInjective
<1>5. CASE invocation # << >> /\ invocation' \in {Front(invocation), Append(Front(invocation), New)}
  <2> DEFINE s == Front(invocation)
  <2>1. s \in Seq(DOMAIN contexts) /\ IsInjective(s)
    BY <1>1, <1>5, FrontInjective, Shortened
  <2> HIDE DEF s
  <2>2. IsInjective(Append(s, New))
    BY <1>1, <2>1, NewInjective
  <2> QED
    BY <1>5, <2>1, <2>2 DEF s
<1> QED
  BY <1>2, <1>3, <1>4, <1>5 DEF Moves

(* The contexts stay, and there is a way to name what a step does to the   *)
(* invocation stack and to what is abandoned.                              *)
Steers ==
  /\ state' \in {"NONE", "HALT", "FAULT", "GONE", "CRASHED"}
  /\ Moves /\ DOMAIN contexts \subseteq DOMAIN contexts'
  /\ abandoned' \subseteq abandoned \cup DOMAIN contexts

(* The frames on the invocation stack stay distinct contexts.              *)
LEMMA SteersControl ==
  ASSUME Shape, Control, Steers
  PROVE  Control'
BY MovesInjective DEF Control, Steers

(* What the actions do to the contexts.                                    *)
LEMMA ContextsStay ==
  ASSUME Shape,
         \/ UNCHANGED contexts
         \/ \E c, f : contexts' = [contexts EXCEPT ![c] = f]
         \/ \E f : contexts' = Append(contexts, f)
         \/ \E c, f, g : contexts' = [Append(contexts, f) EXCEPT ![c] = g]
         \/ \E c, d, f, g : contexts' = [[contexts EXCEPT ![c] = f] EXCEPT ![d] = g]
  PROVE  DOMAIN contexts \subseteq DOMAIN contexts'
<1>1. \A f : DOMAIN contexts \subseteq DOMAIN Append(contexts, f)
  BY Grown DEF Shape
<1> QED
  BY <1>1

(* Every instruction moves the invocation stack in one of these ways.      *)
LEMMA InstructionSteers ==
  ASSUME Shape, Control, InternalStepInto
  PROVE  Steers
<1> USE DEF HostUnchanged, SetFault, Instruction, Alive
<1>1. /\ state \in {"NONE", "HALT", "FAULT", "GONE", "CRASHED"}
      /\ invocation # << >> => Top \in DOMAIN contexts
  BY TopIsContext DEF Control
<1>2. CASE NoContext \/ Fault
  BY <1>1, <1>2 DEF NoContext, Fault, Steers, Moves
<1>3. CASE PushNew \/ Dup \/ Drop \/ ToAltStack \/ FromAltStack
  <2>1. \E eval, alt : InFrame(eval, alt)
    BY <1>3 DEF PushNew, Dup, Drop, ToAltStack, FromAltStack
  <2>2. UNCHANGED state \/ state' = "FAULT"
    BY <1>3 DEF PushNew, Dup, Drop, ToAltStack, FromAltStack
  <2>3. UNCHANGED <<invocation, abandoned>> /\ \E c, f : contexts' = [contexts EXCEPT ![c] = f]
    BY <2>1 DEF InFrame
  <2>4. DOMAIN contexts \subseteq DOMAIN contexts'
    BY <2>3, ContextsStay
  <2> QED
    BY <1>1, <2>2, <2>3, <2>4 DEF Steers, Moves
<1>4. ASSUME NEW rvcount, NEW pcount, Call(rvcount, pcount)
      PROVE  Steers
  <2>1. /\ \E c, f, g : contexts' = [Append(contexts, f) EXCEPT ![c] = g]
        /\ invocation' = Append(invocation, New) /\ UNCHANGED abandoned
        /\ UNCHANGED state \/ state' = "FAULT"
    BY <1>4 DEF Call, Pushed
  <2>2. DOMAIN contexts \subseteq DOMAIN contexts'
    BY <2>1, ContextsStay
  <2> QED
    BY <1>1, <2>1, <2>2 DEF Steers, Moves
<1>5. ASSUME NEW rvcount, NEW pcount, NEW tail, invocation # << >>,
             Loaded(pcount, rvcount, tail), UNCHANGED <<state, abandoned>>
      PROVE  Steers
  <2>1. /\ \E c, f, g : contexts' = [Append(contexts, f) EXCEPT ![c] = g]
        /\ Moves
    BY <1>5 DEF Loaded, Pushed, Moves
  <2>2. DOMAIN contexts \subseteq DOMAIN contexts'
    BY <2>1, ContextsStay
  <2> QED
    BY <1>1, <1>5, <2>1, <2>2 DEF Steers
<1>6. ASSUME NEW rvcount, NEW pcount, NEW tail, CallE(rvcount, pcount, tail)
      PROVE  Steers
  BY <1>5, <1>6 DEF CallE
<1>7. ASSUME NEW tail, AppCall(tail)
      PROVE  Steers
  <2>1. CASE Len(invocation) + 1 >= MaxInvocation
    <3>1. /\ \E f : contexts' = Append(contexts, f) /\ invocation' = Append(invocation, New)
          /\ state' = "FAULT" /\ UNCHANGED abandoned
      BY <1>7, <2>1 DEF AppCall, Pushed
    <3>2. DOMAIN contexts \subseteq DOMAIN contexts'
      BY <3>1, ContextsStay
    <3> QED
      BY <3>1, <3>2 DEF Steers, Moves
  <2>2. CASE ~(Len(invocation) + 1 >= MaxInvocation)
    <3>1. /\ invocation # << >> /\ Loaded(-1, -1, tail) /\ UNCHANGED <<state, abandoned>>
      BY <1>7, <2>2 DEF AppCall
    <3> QED
      BY <1>5, <3>1
  <2> QED
    BY <2>1, <2>2
<1>8. CASE Ret
  <2>1. /\ invocation # << >> /\ invocation' = Front(invocation)
        /\ UNCHANGED state \/ state' \in {"FAULT", "HALT"}
        /\ abandoned' \subseteq abandoned \cup {Top}
    BY <1>8 DEF Ret
  <2>2. \/ UNCHANGED contexts
        \/ \E c, f : contexts' = [contexts EXCEPT ![c] = f]
        \/ \E c, d, f, g : contexts' = [[contexts EXCEPT ![c] = f] EXCEPT ![d] = g]
    BY <1>8 DEF Ret
  <2>3. DOMAIN contexts \subseteq DOMAIN contexts'
    BY <2>2, ContextsStay
  <2> QED
    BY <1>1, <2>1, <2>3 DEF Steers, Moves
<1> QED
  BY <1>2, <1>3, <1>4, <1>6, <1>7, <1>8 DEF InternalStepInto

(* So does the host, which pushes frames with LoadScript and drops them    *)
(* all.                                                                    *)
LEMMA HostSteers ==
  ASSUME Shape, Control, Host
  PROVE  Steers
<1>1. /\ state \in {"NONE", "HALT", "FAULT", "GONE", "CRASHED"}
      /\ ToSet(invocation) \subseteq DOMAIN contexts
  <2>1. ToSet(invocation) \subseteq DOMAIN contexts
    BY LenProperties, ElementOfSeq DEF Shape, ToSet
  <2> QED
    BY <2>1 DEF Control
<1>2. CASE LoadScript
  <2>1. /\ \E f : contexts' = Append(contexts, f) /\ invocation' = Append(invocation, New)
        /\ UNCHANGED <<state, abandoned>>
    BY <1>2 DEF LoadScript, Pushed
  <2>2. DOMAIN contexts \subseteq DOMAIN contexts'
    BY <2>1, ContextsStay
  <2> QED
    BY <1>1, <2>1, <2>2 DEF Steers, Moves
<1>3. CASE HostCreate \/ HostFree
  BY <1>1, <1>3 DEF HostCreate, HostFree, EngineUnchanged, Steers, Moves
<1>4. CASE Clean \/ EngineFree
  BY <1>1, <1>4 DEF Clean, EngineFree, Steers, Moves
<1>5. ASSUME NEW place \in Place, NEW s, Store(place, s)
      PROVE  DOMAIN contexts \subseteq DOMAIN contexts'
  <2>1. UNCHANGED contexts \/ \E c, f : contexts' = [contexts EXCEPT ![c] = f]
    BY <1>5 DEF Store
  <2> QED
    BY <2>1, ContextsStay
<1>6. ASSUME NEW place \in Place, HostPop(place) \/ HostPeek(place) \/ HostDrop(place)
      PROVE  Steers
  <2>1. UNCHANGED <<state, invocation, abandoned>>
    BY <1>6 DEF HostPop, HostPeek, HostDrop, EngineUnchanged
  <2>2. (\E s : Store(place, s)) \/ UNCHANGED contexts
    BY <1>6 DEF HostPop, HostPeek, HostDrop
  <2>3. DOMAIN contexts \subseteq DOMAIN contexts'
    BY <1>5, <2>2
  <2> QED
    BY <1>1, <2>1, <2>3 DEF Steers, Moves
<1>7. ASSUME NEW place \in Place, HostPush(place)
      PROVE  Steers
  <2>1. /\ UNCHANGED <<state, invocation>> /\ \E s : Store(place, s)
        /\ abandoned' = abandoned \cup ({place[1]} \ (ToSet(invocation) \cup {0}))
    BY <1>7 DEF HostPush
  <2>2. DOMAIN contexts \subseteq DOMAIN contexts'
    BY <1>5, <2>1
  <2>3. place[1] = 0 \/ place[1] \in DOMAIN contexts
    BY DEF Place
  <2> QED
    BY <1>1, <2>1, <2>2, <2>3 DEF Steers, Moves
<1> QED
  BY <1>2, <1>3, <1>4, <1>6, <1>7 DEF Host

----------------------------------------------------------------------------
(* The inductive invariant.                                                *)

IInv == LeakInv /\ Control /\ MemInv

(* A new engine has no items and the one claim on the counter.             *)
LEMMA IInvInit ==
  ASSUME Init
  PROVE  IInv
<1>1. LeakInv
  BY LeakInvInit
<1>2. Control
  BY DEF Init, Control, IsInjective
<1>3. Stored(born, held, contexts, result)
  BY DEF Init, Stored, HandleBag, EmptyBag, SetToBag
<1>4. Sound(memory, born, Refs(born, held, contexts, result), Engine, survivors, refused)
  <2>1. /\ born = 0 /\ memory = NewMemory /\ survivors = {} /\ refused = 0 /\ Engine = 1
    BY DEF Init, Engine
  <2>2. /\ memory.claims = << >> /\ memory.items = 0 /\ memory.counter = 1 /\ ~memory.misused
        /\ DOMAIN memory.claims = {}
    BY <2>1 DEF NewMemory, Memory
  <2>3. Accounts(memory, born, Refs(born, held, contexts, result))
    <3>1. 1 .. born = {}
      BY <2>1
    <3>2. memory.claims = [i \in {} |-> Refs(born, held, contexts, result)[i]]
      BY <2>2
    <3> QED
      BY <2>2, <3>1, <3>2 DEF Accounts
  <2>4. Counted(memory, Engine, survivors, refused)
    BY <2>1, <2>2, FS_EmptySet DEF Counted
  <2> QED
    BY <2>3, <2>4 DEF Sound
<1>5. LimitHolds
  <2>1. Live = {} /\ survivors = {}
    BY DEF Init, Live, NewMemory, Memory
  <2> QED
    BY <2>1, FS_EmptySet, FramesAssumption DEF LimitHolds
<1>6. refused \in Nat /\ survivors \subseteq 1 .. born
  BY DEF Init
<1> QED
  BY <1>1, <1>2, <1>3, <1>4, <1>5, <1>6 DEF IInv, MemInv

(* Every action keeps the memory sound.                                    *)
LEMMA MemPreserved ==
  ASSUME MemInv, Shape, Next
  PROVE  MemInv'
<1>1. CASE NoContext \/ Fault
  BY <1>1, QuietMem
<1>2. CASE PushNew
  BY <1>2, PushNewMem
<1>3. CASE Dup
  BY <1>3, DupMem
<1>4. CASE Drop
  BY <1>4, DropMem
<1>5. CASE ToAltStack \/ FromAltStack
  BY <1>5, AltMem
<1>6. CASE Ret
  BY <1>6, RetMem
<1>7. CASE Call(-1, -1)
  BY <1>7, CallMem
<1>8. ASSUME NEW rvcount \in Counts, NEW pcount \in Counts, Call(rvcount, pcount)
      PROVE  MemInv'
  <2>1. rvcount \in Nat \cup {-1} /\ pcount \in Nat \cup {-1}
    BY FramesAssumption
  <2> QED
    BY <1>8, <2>1, CallMem
<1>9. ASSUME NEW rvcount \in Counts, NEW pcount \in Counts, NEW tail \in BOOLEAN,
             CallE(rvcount, pcount, tail)
      PROVE  MemInv'
  BY <1>9, CallEMem
<1>10. ASSUME NEW tail \in BOOLEAN, AppCall(tail)
       PROVE  MemInv'
  BY <1>10, AppCallMem
<1>11. CASE LoadScript
  BY <1>11, LoadScriptMem
<1>12. CASE HostCreate
  BY <1>12, HostCreateMem
<1>13. CASE HostFree
  BY <1>13, HostFreeMem
<1>14. CASE Clean
  BY <1>14, CleanMem
<1>15. CASE EngineFree
  BY <1>15, EngineFreeMem
<1>16. ASSUME NEW place \in Place,
              HostPop(place) \/ HostPeek(place) \/ HostPush(place) \/ HostDrop(place)
       PROVE  MemInv'
  BY <1>16, HostPopMem, HostPeekMem, HostPushMem, HostDropMem
<1>17. InternalStepInto => MemInv'
  BY <1>1, <1>2, <1>3, <1>4, <1>5, <1>6, <1>7, <1>8, <1>9, <1>10 DEF InternalStepInto
<1>18. Host => MemInv'
  BY <1>11, <1>12, <1>13, <1>14, <1>15, <1>16 DEF Host
<1> QED
  BY <1>17, <1>18 DEF Next

(* The invariant is inductive.                                             *)
LEMMA IInvNext ==
  ASSUME IInv, [Next]_vars
  PROVE  IInv'
<1>1. LeakInv'
  BY LeakInvNext DEF IInv
<1>2. CASE Next
  <2>1. Control'
    BY <1>2, InstructionSteers, HostSteers, SteersControl DEF Next, IInv, LeakInv
  <2>2. MemInv'
    BY <1>2, MemPreserved DEF IInv, LeakInv
  <2> QED
    BY <1>1, <2>1, <2>2 DEF IInv
<1>3. CASE UNCHANGED vars
  BY <1>1, <1>3 DEF vars, IInv, Control, MemInv, Engine, LimitHolds, Live
<1> QED
  BY <1>2, <1>3

(* A place of the model is a spot, and what it holds the stack there.      *)
LEMMA ReferencesCounted ==
  ASSUME NEW i
  PROVE  References(i) = HandlesIn(held, i) + Held(contexts, result, i)
<1> DEFINE F == StacksOf(contexts, result)
<1>1. Place = Spots(contexts)
  BY DEF Place, Spots
<1>2. \A place \in Place : At(place) = F[place]
  BY <1>1 DEF At, StackAt, StacksOf
<1>3. DOMAIN F = Place
  BY <1>1 DEF StacksOf
<1>4. Positions(F, i) = Places(i)
  <2> HIDE DEF F
  <2>1. Positions(F, i) = UNION {{place} \X Where(F[place], i) : place \in Place}
    BY <1>3 DEF Positions, PositionsIn
  <2>2. \A place \in Place :
          Where(F[place], i) = {x \in DOMAIN At(place) : At(place)[x] = i}
    BY <1>2 DEF Where
  <2> QED
    BY <2>1, <2>2 DEF Places
<1>5. Handles(i) = HandlesIn(held, i)
  BY DEF Handles, HandlesIn, BagIn, BagToSet
<1> QED
  BY <1>4, <1>5 DEF References, Held, Total

(* It implies the five invariants that are checked.                        *)
LEMMA IInvImplies ==
  ASSUME IInv
  PROVE  FramesTypeOK /\ ClaimsAreHeld /\ CountedSinceClean /\ LimitHolds /\ CounterOutlivesItems
<1> DEFINE R == Refs(born, held, contexts, result)
<1>1. /\ Accounts(memory, born, R) /\ Counted(memory, Engine, survivors, refused)
      /\ Stored(born, held, contexts, result) /\ born \in Nat
  BY DEF IInv, MemInv, Sound, Stored
<1>2. \A i \in 1 .. born : R[i] = References(i) /\ R[i] \in Nat
  BY <1>1, RefsType, ReferencesCounted DEF Refs, Table
<1> HIDE DEF R
<1>3. IsFiniteSet(Live) /\ Live \subseteq 1 .. born /\ Cardinality(Live) \in Nat
  BY <1>1, LiveFinite, FS_CardinalityType DEF Live
<1>4. ClaimsAreHeld
  <2>1. Live = {i \in 1 .. born : R[i] > 0} /\ memory.claims = [i \in Live |-> R[i]]
    BY <1>1 DEF Accounts, Live
  <2>2. \A i \in Live : memory.claims[i] = References(i) /\ References(i) > 0
    BY <1>2, <2>1
  <2>3. \A i \in 1 .. born \ Live : References(i) = 0
    BY <1>2, <2>1
  <2> QED
    BY <2>2, <2>3 DEF ClaimsAreHeld
<1>5. CounterOutlivesItems
  BY <1>1 DEF Counted, CounterOutlivesItems, Engine, Live
<1>6. CountedSinceClean
  <2> DEFINE new == Cardinality(Live \ survivors)
             old == Cardinality(survivors \ Live)
  <2>1. IsFiniteSet(survivors) /\ refused \in Nat
    <3>1. survivors \subseteq 1 .. born /\ refused \in Nat /\ IsFiniteSet(1 .. born)
      BY <1>1, FS_Interval DEF IInv, MemInv
    <3> QED
      BY <3>1, FS_Subset
  <2>2. new \in Nat /\ old \in Nat
    BY <1>3, <2>1, FS_Difference, FS_CardinalityType
  <2>3. memory.counter > 0 => memory.items = refused + (new - old)
    BY <1>1 DEF Counted, Live
  <2> QED
    BY <2>1, <2>2, <2>3 DEF CountedSinceClean
<1>7. FramesTypeOK
  <2>1. /\ state \in {"NONE", "HALT", "FAULT", "GONE", "CRASHED"} /\ IsInjective(invocation)
        /\ abandoned \subseteq DOMAIN contexts /\ survivors \subseteq 1 .. born
    BY DEF IInv, Control, MemInv
  <2>2. ToSet(invocation) \subseteq DOMAIN contexts
    BY LenProperties, ElementOfSeq DEF IInv, LeakInv, Shape, ToSet
  <2>3. \A c \in DOMAIN contexts : contexts[c].rv \in Nat \cup {-1}
    <3> DEFINE X == FrameSet(1 .. born)
    <3>1. contexts \in Seq(X) /\ \A f \in X : f.rv \in Nat \cup {-1}
      BY <1>1 DEF Stored, FrameSet
    <3> HIDE DEF X
    <3> QED
      BY <3>1, LenProperties, ElementOfSeq
  <2>4. memory.items \in Int /\ memory.counter \in Int
    BY <1>1, <1>3 DEF Counted, Engine, Live
  <2> QED
    BY <1>3, <2>1, <2>2, <2>3, <2>4 DEF FramesTypeOK
<1> QED
  BY <1>4, <1>5, <1>6, <1>7 DEF IInv, MemInv

----------------------------------------------------------------------------
(* The memory is sound for the references there are, whatever the engine   *)
(* and the host do.                                                        *)
THEOREM Invariant == Spec => []IInv
<1>1. Init => IInv
  BY IInvInit
<1>2. IInv /\ [Next]_vars => IInv'
  BY IInvNext
<1> QED
  BY <1>1, <1>2, PTL DEF Spec

(* Frames on the invocation stack are distinct contexts, and what there is *)
(* was made.                                                               *)
THEOREM FramesType == Spec => []FramesTypeOK
<1>1. IInv => FramesTypeOK
  BY IInvImplies
<1> QED
  BY <1>1, Invariant, PTL

(* PushItem, Pop, SendTo, Clear and the host's Claim and Free keep an item *)
(* as long as a stack or the host has it, and no longer: nothing is leaked *)
(* but what stays on a dropped frame, and nothing is used after it was     *)
(* deleted.                                                                *)
THEOREM ClaimsHeld == Spec => []ClaimsAreHeld
<1>1. IInv => ClaimsAreHeld
  BY IInvImplies
<1> QED
  BY <1>1, Invariant, PTL

(* ItemCounterInc, ItemCounterDec and ItemCounterClean count what was made *)
(* and refused since Clean, less the items deleted, the older ones too.    *)
THEOREM ItemsCounted == Spec => []CountedSinceClean
<1>1. IInv => CountedSinceClean
  BY IInvImplies
<1> QED
  BY <1>1, Invariant, PTL

(* The limit that the creators check bounds the items that exist, over and *)
(* above those that survived Clean.                                        *)
THEOREM LimitOfItems == Spec => []LimitHolds
<1>1. IInv => LimitHolds
  BY IInvImplies
<1> QED
  BY <1>1, Invariant, PTL

(* The counter that the engine and the items share is deleted once, by the *)
(* last of them, and is never used afterwards.                             *)
THEOREM CounterOutlives == Spec => []CounterOutlivesItems
<1>1. IInv => CounterOutlivesItems
  BY IInvImplies
<1> QED
  BY <1>1, Invariant, PTL
=============================================================================
