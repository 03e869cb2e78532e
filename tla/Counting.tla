------------------------------ MODULE Counting ------------------------------
(***************************************************************************)
(* Induction over the naturals without a parameter that is an operator,    *)
(* and how often a value occurs in a sequence and in a family of them.     *)
(***************************************************************************)
EXTENDS Integers, Sequences, FiniteSets, SequencesExt, TLAPS, FiniteSetTheorems,
        FunctionTheorems, SequenceTheorems, WellFoundedInduction

(* The order of the naturals, as a relation.                               *)
NatOrder == {p \in Nat \X Nat : p[1] < p[2]}

(* < on the naturals, as a set of pairs, is well founded.                  *)
LEMMA NatOrderIsWellFounded == IsWellFoundedOn(NatOrder, Nat)
<1>1. OpToRel(<, Nat) = NatOrder
  BY DEF OpToRel, NatOrder
<1> QED
  BY <1>1, NatLessThanWellFounded

(* Every nonempty set of naturals has a least element.                     *)
LEMMA LeastNatural ==
  ASSUME NEW T, T \subseteq Nat, T # {}
  PROVE  \E x \in T : \A y \in T : x <= y
<1>1. \E x \in T : \A y \in T : <<y, x>> \notin NatOrder
  BY NatOrderIsWellFounded, WFMin
<1>2. PICK x \in T : \A y \in T : <<y, x>> \notin NatOrder
  BY <1>1
<1>3. ASSUME NEW y \in T
      PROVE  x <= y
  <2>1. /\ <<y, x>> \notin NatOrder /\ <<y, x>> \in Nat \X Nat
        /\ <<y, x>>[1] = y /\ <<y, x>>[2] = x
    BY <1>2
  <2>2. ~ (y < x)
    BY <2>1 DEF NatOrder
  <2> QED
    BY <2>2
<1> QED
  BY <1>3

(* Induction: what holds is a set.                                         *)
LEMMA NaturalsByInduction ==
  ASSUME NEW N, 0 \in N, \A n \in Nat : n \in N => n + 1 \in N
  PROVE  \A n \in Nat : n \in N
<1> SUFFICES ASSUME Nat \ N # {} PROVE FALSE
  OBVIOUS
<1>1. PICK x \in Nat \ N : \A y \in Nat \ N : x <= y
  BY LeastNatural
<1>2. x # 0 /\ x - 1 \in Nat /\ x - 1 + 1 = x
  BY <1>1
<1>3. x - 1 \in N
  BY <1>1, <1>2
<1> QED
  BY <1>1, <1>2, <1>3

(* Induction up to a bound.                                                *)
LEMMA IntervalByInduction ==
  ASSUME NEW m \in Nat, NEW N, 0 \in N, \A n \in 0 .. m - 1 : n \in N => n + 1 \in N
  PROVE  \A n \in 0 .. m : n \in N
<1> DEFINE M == {n \in Nat : n <= m => n \in N}
<1>1. 0 \in M /\ \A n \in Nat : n \in M => n + 1 \in M
  OBVIOUS
<1>2. \A n \in Nat : n \in M
  <2> HIDE DEF M
  <2> QED
    BY <1>1, NaturalsByInduction
<1> QED
  BY <1>2

----------------------------------------------------------------------------
(* Where a value is in a sequence, and how often.                          *)

Where(s, v) == {x \in DOMAIN s : s[x] = v}

Count(s, v) == Cardinality(Where(s, v))

One(v, w) == IF v = w THEN 1 ELSE 0

(* A count is a natural number, and zero where the value does not occur.   *)
LEMMA CountType ==
  ASSUME NEW S, NEW s \in Seq(S), NEW v
  PROVE  /\ IsFiniteSet(Where(s, v)) /\ Count(s, v) \in Nat
         /\ Count(s, v) = 0 <=> Where(s, v) = {}
<1>1. DOMAIN s = 1 .. Len(s) /\ Len(s) \in Nat
  BY LenProperties
<1>2. IsFiniteSet(1 .. Len(s))
  BY <1>1, FS_Interval
<1>3. IsFiniteSet(Where(s, v))
  BY <1>1, <1>2, FS_Subset DEF Where
<1> QED
  BY <1>3, FS_CardinalityType, FS_EmptySet DEF Count

(* The empty sequence holds nothing.                                       *)
LEMMA CountEmpty ==
  ASSUME NEW v
  PROVE  Count(<< >>, v) = 0
<1>1. Where(<< >>, v) = {}
  BY DEF Where
<1> QED
  BY <1>1, FS_EmptySet DEF Count

(* A set of naturals has as many elements when it is moved.                *)
LEMMA Shifted ==
  ASSUME NEW S, S \subseteq Nat, IsFiniteSet(S), NEW d \in Nat
  PROVE  /\ IsFiniteSet({x + d : x \in S})
         /\ Cardinality({x + d : x \in S}) = Cardinality(S)
<1> DEFINE T == {x + d : x \in S}
           f == [x \in S |-> x + d]
<1>1. f \in Bijection(S, T)
  <2>1. f \in [S -> T]
    OBVIOUS
  <2>2. \A x, y \in S : f[x] = f[y] => x = y
    OBVIOUS
  <2>3. \A t \in T : \E x \in S : f[x] = t
    OBVIOUS
  <2> HIDE DEF f, T
  <2>4. f \in Injection(S, T)
    BY <2>1, <2>2, Fun_IsInj
  <2>5. f \in Surjection(S, T)
    BY <2>1, <2>3, Fun_IsSurj
  <2> QED
    BY <2>4, <2>5 DEF Bijection
<1>2. ExistsBijection(S, T)
  BY <1>1 DEF ExistsBijection
<1> HIDE DEF T
<1>3. IsFiniteSet(T) /\ Cardinality(T) = Cardinality(S)
  BY <1>2, FS_Bijection
<1> QED
  BY <1>3 DEF T

(* The counts of two sequences add up.                                     *)
LEMMA CountConcat ==
  ASSUME NEW S, NEW s \in Seq(S), NEW t \in Seq(S), NEW v
  PROVE  Count(s \o t, v) = Count(s, v) + Count(t, v)
<1> DEFINE n == Len(s)
           A == Where(s, v)
           B == Where(t, v)
           C == {x + n : x \in B}
<1>1. /\ DOMAIN s = 1 .. Len(s) /\ Len(s) \in Nat
      /\ DOMAIN t = 1 .. Len(t) /\ Len(t) \in Nat
  BY LenProperties
<1>2. /\ s \o t \in Seq(S) /\ Len(s \o t) = Len(s) + Len(t)
      /\ \A i \in 1 .. Len(s) + Len(t) :
           (s \o t)[i] = IF i <= Len(s) THEN s[i] ELSE t[i - Len(s)]
  BY ConcatProperties
<1>3. DOMAIN (s \o t) = 1 .. Len(s) + Len(t)
  BY <1>2, LenProperties
<1>4. Where(s \o t, v) = A \cup C
  <2>1. ASSUME NEW x \in Where(s \o t, v)
        PROVE  x \in A \cup C
    <3>1. x \in 1 .. Len(s) + Len(t) /\ (s \o t)[x] = v
      BY <1>3, <2>1 DEF Where
    <3>2. CASE x <= Len(s)
      BY <1>1, <1>2, <3>1, <3>2 DEF Where
    <3>3. CASE ~ (x <= Len(s))
      <4>1. x - n \in 1 .. Len(t) /\ t[x - n] = v /\ x - n + n = x
        BY <1>1, <1>2, <3>1, <3>3
      <4>2. x - n \in B
        BY <1>1, <4>1 DEF Where
      <4> QED
        BY <4>1, <4>2
    <3> QED
      BY <3>2, <3>3
  <2>2. ASSUME NEW x \in A
        PROVE  x \in Where(s \o t, v)
    BY <1>1, <1>2, <1>3 DEF Where
  <2>3. ASSUME NEW y \in B
        PROVE  y + n \in Where(s \o t, v)
    <3>1. y \in 1 .. Len(t) /\ t[y] = v
      BY <1>1 DEF Where
    <3>2. y + n \in 1 .. Len(s) + Len(t) /\ ~ (y + n <= Len(s)) /\ y + n - Len(s) = y
      BY <1>1, <3>1
    <3>3. (s \o t)[y + n] = v
      BY <1>2, <3>1, <3>2
    <3> QED
      BY <1>3, <3>2, <3>3 DEF Where
  <2> QED
    BY <2>1, <2>2, <2>3
<1>5. A \cap C = {}
  BY <1>1 DEF Where
<1>6. /\ IsFiniteSet(A) /\ IsFiniteSet(B) /\ B \subseteq Nat
      /\ Count(s, v) \in Nat /\ Count(t, v) \in Nat
  <2>1. A \subseteq Nat /\ B \subseteq Nat
    BY <1>1 DEF Where
  <2> HIDE DEF A, B
  <2> QED
    BY <2>1, CountType DEF A, B
<1>7. IsFiniteSet(C) /\ Cardinality(C) = Cardinality(B)
  BY <1>1, <1>6, Shifted
<1>8. Cardinality(A \cup C) = Cardinality(A) + Cardinality(C) - Cardinality(A \cap C)
  BY <1>6, <1>7, FS_Union
<1>9. Cardinality(A \cap C) = 0
  BY <1>5, FS_EmptySet
<1> QED
  BY <1>4, <1>6, <1>7, <1>8, <1>9 DEF Count

(* A sequence of one element holds that one once.                          *)
LEMMA CountSingle ==
  ASSUME NEW v, NEW w
  PROVE  Count(<<w>>, v) = One(w, v)
<1>1. DOMAIN <<w>> = {1} /\ <<w>>[1] = w
  OBVIOUS
<1>2. CASE w = v
  <2>1. Where(<<w>>, v) = {1}
    BY <1>1, <1>2 DEF Where
  <2> QED
    BY <1>2, <2>1, FS_Singleton DEF Count, One
<1>3. CASE w # v
  <2>1. Where(<<w>>, v) = {}
    BY <1>1, <1>3 DEF Where
  <2> QED
    BY <1>3, <2>1, FS_EmptySet DEF Count, One
<1> QED
  BY <1>2, <1>3

(* Append adds one occurrence of what it appends.                          *)
LEMMA CountAppend ==
  ASSUME NEW S, NEW s \in Seq(S), NEW w \in S, NEW v
  PROVE  Count(Append(s, w), v) = Count(s, v) + One(w, v)
<1>1. Append(s, w) = s \o <<w>> /\ <<w>> \in Seq(S)
  BY AppendIsConcat
<1>2. Count(s \o <<w>>, v) = Count(s, v) + Count(<<w>>, v)
  BY <1>1, CountConcat
<1> QED
  BY <1>1, <1>2, CountSingle

(* A sequence cut in two.                                                  *)
LEMMA Cut ==
  ASSUME NEW S, NEW s \in Seq(S), NEW k \in 0 .. Len(s)
  PROVE  /\ SubSeq(s, 1, k) \in Seq(S) /\ Len(SubSeq(s, 1, k)) = k
         /\ \A x \in 1 .. k : SubSeq(s, 1, k)[x] = s[x]
         /\ SubSeq(s, k + 1, Len(s)) \in Seq(S)
         /\ Len(SubSeq(s, k + 1, Len(s))) = Len(s) - k
         /\ s = SubSeq(s, 1, k) \o SubSeq(s, k + 1, Len(s))
<1> DEFINE n == Len(s)
           a == SubSeq(s, 1, k)
           b == SubSeq(s, k + 1, n)
<1>1. DOMAIN s = 1 .. n /\ n \in Nat /\ k \in Nat /\ k <= n
  BY LenProperties
<1>2. \A x \in 1 .. n : s[x] \in S
  BY <1>1, ElementOfSeq
<1> HIDE DEF n
<1>3. /\ a \in Seq(S) /\ Len(a) = k /\ \A x \in 1 .. k : a[x] = s[x]
  <2>1. 1 \in Int /\ k \in Int /\ \A x \in 1 .. k : s[x] \in S
    BY <1>1, <1>2
  <2>2. /\ a \in Seq(S) /\ Len(a) = IF 1 <= k THEN k - 1 + 1 ELSE 0
        /\ \A x \in 1 .. k - 1 + 1 : a[x] = s[1 + x - 1]
    BY <2>1, SubSeqProperties
  <2> QED
    BY <1>1, <2>2
<1>4. /\ b \in Seq(S) /\ Len(b) = n - k /\ \A x \in 1 .. n - k : b[x] = s[k + x]
  <2>1. k + 1 \in Int /\ n \in Int /\ \A x \in k + 1 .. n : s[x] \in S
    BY <1>1, <1>2
  <2>2. /\ b \in Seq(S) /\ Len(b) = IF k + 1 <= n THEN n - (k + 1) + 1 ELSE 0
        /\ \A x \in 1 .. n - (k + 1) + 1 : b[x] = s[k + 1 + x - 1]
    BY <2>1, SubSeqProperties
  <2> QED
    BY <1>1, <2>2
<1> HIDE DEF a, b
<1>5. s = a \o b
  <2>1. /\ a \o b \in Seq(S) /\ Len(a \o b) = Len(a) + Len(b)
        /\ \A x \in 1 .. Len(a) + Len(b) :
             (a \o b)[x] = IF x <= Len(a) THEN a[x] ELSE b[x - Len(a)]
    BY <1>3, <1>4, ConcatProperties
  <2>2. Len(a \o b) = n /\ \A x \in 1 .. n : (a \o b)[x] = s[x]
    BY <1>1, <1>3, <1>4, <2>1
  <2> QED
    BY <1>1, <2>1, <2>2, SeqEqual DEF n
<1> QED
  BY <1>3, <1>4, <1>5 DEF n, a, b

(* A sequence that is cut in two keeps all that it held.                   *)
LEMMA CountCut ==
  ASSUME NEW S, NEW s \in Seq(S), NEW k \in 0 .. Len(s), NEW v
  PROVE  Count(s, v) = Count(SubSeq(s, 1, k), v) + Count(SubSeq(s, k + 1, Len(s)), v)
<1> DEFINE a == SubSeq(s, 1, k)
           b == SubSeq(s, k + 1, Len(s))
<1>1. a \in Seq(S) /\ b \in Seq(S) /\ s = a \o b
  BY Cut
<1> HIDE DEF a, b
<1>2. Count(a \o b, v) = Count(a, v) + Count(b, v)
  BY <1>1, CountConcat
<1>3. Count(s, v) = Count(a \o b, v)
  BY <1>1
<1> QED
  BY <1>2, <1>3 DEF a, b

(* The prefix that is one longer.                                          *)
LEMMA CountPrefix ==
  ASSUME NEW S, NEW s \in Seq(S), NEW k \in 1 .. Len(s), NEW v
  PROVE  Count(SubSeq(s, 1, k), v) = Count(SubSeq(s, 1, k - 1), v) + One(s[k], v)
<1> DEFINE a == SubSeq(s, 1, k - 1)
           b == <<s[k]>>
<1>1. Len(s) \in Nat /\ 1 \in 1 .. Len(s) /\ k - 1 \in 0 .. Len(s)
  BY LenProperties
<1>2. SubSeq(s, 1, k) = a \o b
  BY <1>1, SubSeqRecursiveSecond
<1>3. a \in Seq(S) /\ b \in Seq(S)
  BY <1>1, Cut, ElementOfSeq
<1>4. Count(b, v) = One(s[k], v)
  BY CountSingle
<1> HIDE DEF a, b
<1>5. Count(a \o b, v) = Count(a, v) + Count(b, v)
  BY <1>3, CountConcat
<1>6. Count(SubSeq(s, 1, k), v) = Count(a \o b, v)
  BY <1>2
<1> QED
  BY <1>4, <1>5, <1>6 DEF a

(* Last of a sequence occurs once more in it than in its Front.            *)
LEMMA CountLast ==
  ASSUME NEW S, NEW s \in Seq(S), s # << >>, NEW v
  PROVE  /\ Front(s) \in Seq(S) /\ Last(s) \in S
         /\ Count(s, v) = Count(Front(s), v) + One(Last(s), v)
<1>1. Len(s) \in Nat \ {0} /\ DOMAIN s = 1 .. Len(s)
  BY LenProperties, EmptySeq
<1>2. Last(s) = s[Len(s)] /\ Front(s) = SubSeq(s, 1, Len(s) - 1)
  BY DEF Last, Front
<1>3. SubSeq(s, 1, Len(s) - 1) \in Seq(S) /\ s[Len(s)] \in S
  BY <1>1, Cut, ElementOfSeq
<1>4. s = SubSeq(s, 1, Len(s))
  BY SubSeqFull
<1>5. Count(SubSeq(s, 1, Len(s)), v)
        = Count(SubSeq(s, 1, Len(s) - 1), v) + One(s[Len(s)], v)
  BY <1>1, CountPrefix
<1> QED
  BY <1>2, <1>3, <1>4, <1>5

(* A list is its head and the rest.                                        *)
LEMMA CountTail ==
  ASSUME NEW S, NEW s \in Seq(S), s # << >>, NEW v
  PROVE  /\ Head(s) \in S /\ Tail(s) \in Seq(S)
         /\ Count(s, v) = One(Head(s), v) + Count(Tail(s), v)
<1> DEFINE a == <<Head(s)>>
           b == Tail(s)
<1>1. Head(s) \in S /\ b \in Seq(S) /\ a \in Seq(S)
  BY HeadTailProperties
<1>2. s = a \o b
  <2>1. Len(s) \in Nat \ {0} /\ DOMAIN s = 1 .. Len(s)
    BY LenProperties, EmptySeq
  <2>2. Head(s) = s[1] /\ 1 \in 1 .. Len(s) /\ Len(s) \in 1 .. Len(s)
    BY <2>1
  <2>3. SubSeq(s, 1, Len(s)) = <<s[1]>> \o SubSeq(s, 1 + 1, Len(s))
    BY <2>2, SubSeqRecursiveFirst
  <2>4. SubSeq(s, 1, Len(s)) = s /\ Tail(s) = SubSeq(s, 2, Len(s))
    BY SubSeqFull, TailIsSubSeq
  <2> QED
    BY <2>2, <2>3, <2>4
<1>3. Count(a, v) = One(Head(s), v)
  BY CountSingle
<1> HIDE DEF a, b
<1>4. Count(a \o b, v) = Count(a, v) + Count(b, v)
  BY <1>1, CountConcat
<1> QED
  BY <1>1, <1>2, <1>3, <1>4 DEF b

(* A value in front.                                                       *)
LEMMA CountInFront ==
  ASSUME NEW S, NEW s \in Seq(S), NEW w \in S, NEW v
  PROVE  <<w>> \o s \in Seq(S) /\ Count(<<w>> \o s, v) = One(w, v) + Count(s, v)
<1> DEFINE a == <<w>>
<1>1. a \in Seq(S) /\ Count(a, v) = One(w, v)
  BY CountSingle
<1> HIDE DEF a
<1>2. a \o s \in Seq(S) /\ Count(a \o s, v) = Count(a, v) + Count(s, v)
  BY <1>1, CountConcat, ConcatProperties
<1> QED
  BY <1>1, <1>2 DEF a

(* One value is taken out.                                                 *)
LEMMA CountRemoveAt ==
  ASSUME NEW S, NEW s \in Seq(S), NEW k \in 1 .. Len(s), NEW v
  PROVE  /\ RemoveAt(s, k) \in Seq(S) /\ s[k] \in S
         /\ Len(RemoveAt(s, k)) = Len(s) - 1
         /\ \A x \in 1 .. k - 1 : RemoveAt(s, k)[x] = s[x]
         /\ \A x \in k .. Len(s) - 1 : RemoveAt(s, k)[x] = s[x + 1]
         /\ Count(RemoveAt(s, k), v) = Count(s, v) - One(s[k], v)
<1> DEFINE a == SubSeq(s, 1, k - 1)
           b == SubSeq(s, k + 1, Len(s))
<1>1. Len(s) \in Nat /\ k \in 0 .. Len(s) /\ k - 1 \in 0 .. Len(s) /\ k \in Nat
  BY LenProperties
<1>2. a \in Seq(S) /\ Len(a) = k - 1 /\ \A x \in 1 .. k - 1 : a[x] = s[x]
  BY <1>1, Cut
<1>3. b \in Seq(S) /\ Len(b) = Len(s) - k
  BY <1>1, Cut
<1>4. \A x \in 1 .. Len(s) - k : b[x] = s[k + x]
  <2>1. \A i \in k + 1 .. Len(s) : s[i] \in S
    BY <1>1, ElementOfSeq
  <2>2. k + 1 \in Int /\ Len(s) \in Int
    BY <1>1
  <2>3. \A i \in 1 .. Len(s) - (k + 1) + 1 : SubSeq(s, k + 1, Len(s))[i] = s[k + 1 + i - 1]
    BY <2>1, <2>2, SubSeqProperties
  <2> HIDE DEF b
  <2>4. \A x \in 1 .. Len(s) - k : b[x] = s[k + 1 + x - 1] /\ k + 1 + x - 1 = k + x
    BY <1>1, <2>3 DEF b
  <2> QED
    BY <2>4
<1>5. Count(s, v) = Count(SubSeq(s, 1, k), v) + Count(b, v)
  BY <1>1, CountCut
<1>6. Count(SubSeq(s, 1, k), v) = Count(a, v) + One(s[k], v)
  BY CountPrefix
<1>7. RemoveAt(s, k) = a \o b /\ s[k] \in S
  BY ElementOfSeq DEF RemoveAt
<1> HIDE DEF a, b
<1>8. Count(a \o b, v) = Count(a, v) + Count(b, v)
  BY <1>2, <1>3, CountConcat
<1>9. /\ a \o b \in Seq(S) /\ Len(a \o b) = Len(a) + Len(b)
      /\ \A i \in 1 .. Len(a) + Len(b) :
           (a \o b)[i] = IF i <= Len(a) THEN a[i] ELSE b[i - Len(a)]
  BY <1>2, <1>3, ConcatProperties
<1>10. Count(a, v) \in Nat /\ Count(b, v) \in Nat /\ One(s[k], v) \in Nat
  BY <1>2, <1>3, CountType DEF One
<1>11. Count(a \o b, v) = Count(s, v) - One(s[k], v)
  BY <1>5, <1>6, <1>8, <1>10
<1>12. \A x \in 1 .. k - 1 : (a \o b)[x] = s[x]
  BY <1>1, <1>2, <1>3, <1>9
<1>13. \A x \in k .. Len(s) - 1 : (a \o b)[x] = s[x + 1]
  <2> TAKE x \in k .. Len(s) - 1
  <2>1. x \in 1 .. Len(a) + Len(b) /\ ~(x <= Len(a)) /\ x - Len(a) \in 1 .. Len(s) - k
    BY <1>1, <1>2, <1>3
  <2>2. (a \o b)[x] = b[x - Len(a)] /\ b[x - Len(a)] = s[k + (x - Len(a))]
    BY <2>1, <1>9, <1>4
  <2>3. k + (x - Len(a)) = x + 1
    BY <1>1, <1>2
  <2> QED
    BY <2>2, <2>3
<1>14. Len(a \o b) = Len(s) - 1
  BY <1>1, <1>2, <1>3, <1>9
<1> QED
  BY <1>7, <1>9, <1>11, <1>12, <1>13, <1>14

(* One value is put in.                                                    *)
LEMMA CountInsertAt ==
  ASSUME NEW S, NEW s \in Seq(S), NEW k \in 1 .. Len(s) + 1, NEW w \in S, NEW v
  PROVE  /\ InsertAt(s, k, w) \in Seq(S)
         /\ Count(InsertAt(s, k, w), v) = Count(s, v) + One(w, v)
<1> DEFINE a == SubSeq(s, 1, k - 1)
           b == SubSeq(s, k, Len(s))
           c == <<w>>
<1>1. Len(s) \in Nat /\ k - 1 \in 0 .. Len(s) /\ k - 1 + 1 = k
  BY LenProperties
<1>2. a \in Seq(S) /\ b \in Seq(S)
  BY <1>1, Cut
<1>3. Count(s, v) = Count(a, v) + Count(b, v)
  BY <1>1, CountCut
<1>4. c \in Seq(S) /\ Count(c, v) = One(w, v)
  BY CountSingle
<1>5. InsertAt(s, k, w) = a \o c \o b
  BY DEF InsertAt
<1> HIDE DEF a, b, c
<1>6. a \o c \in Seq(S) /\ Count(a \o c, v) = Count(a, v) + Count(c, v)
  BY <1>2, <1>4, CountConcat, ConcatProperties
<1>7. a \o c \o b \in Seq(S) /\ Count(a \o c \o b, v) = Count(a \o c, v) + Count(b, v)
  BY <1>2, <1>6, CountConcat, ConcatProperties
<1>8. Count(a, v) \in Nat /\ Count(b, v) \in Nat /\ One(w, v) \in Nat
  BY <1>2, CountType DEF One
<1>9. Count(a \o c \o b, v) = Count(s, v) + One(w, v)
  BY <1>3, <1>4, <1>6, <1>7, <1>8
<1> QED
  BY <1>5, <1>7, <1>9

(* One value is replaced.                                                  *)
LEMMA CountReplace ==
  ASSUME NEW S, NEW s \in Seq(S), NEW k \in 1 .. Len(s), NEW w \in S, NEW v
  PROVE  /\ [s EXCEPT ![k] = w] \in Seq(S) /\ s[k] \in S
         /\ Count([s EXCEPT ![k] = w], v) = Count(s, v) - One(s[k], v) + One(w, v)
<1> DEFINE t == [s EXCEPT ![k] = w]
           W == Where(s, v)
           X == Where(t, v)
<1>1. /\ t \in Seq(S) /\ Len(t) = Len(s) /\ s[k] \in S
      /\ \A j \in 1 .. Len(s) : t[j] = IF j = k THEN w ELSE s[j]
  BY ExceptSeq, ElementOfSeq
<1>2. DOMAIN s = 1 .. Len(s) /\ DOMAIN t = 1 .. Len(s)
  BY <1>1, LenProperties
<1>3. /\ W \ {k} = X \ {k}
      /\ (k \in W) <=> (s[k] = v)
      /\ (k \in X) <=> (w = v)
  <2> HIDE DEF t
  <2> QED
    BY <1>1, <1>2 DEF Where
<1> HIDE DEF t
<1>4. /\ IsFiniteSet(W) /\ IsFiniteSet(X) /\ Cardinality(W) \in Nat
      /\ Cardinality(X) \in Nat
  BY <1>1, CountType DEF Count
<1>5. Cardinality(W \ {k}) = IF k \in W THEN Cardinality(W) - 1 ELSE Cardinality(W)
  BY <1>4, FS_RemoveElement
<1>6. Cardinality(X \ {k}) = IF k \in X THEN Cardinality(X) - 1 ELSE Cardinality(X)
  BY <1>4, FS_RemoveElement
<1>7. Count(s, v) = Cardinality(W) /\ Count(t, v) = Cardinality(X)
  BY DEF Count
<1>8. Cardinality(W \ {k}) = Cardinality(X \ {k})
  BY <1>3
<1> HIDE DEF W, X
<1>9. Count(t, v) = Count(s, v) - One(s[k], v) + One(w, v)
  BY <1>3, <1>4, <1>5, <1>6, <1>7, <1>8 DEF One
<1> QED
  BY <1>1, <1>9 DEF t

(* The other way round.                                                    *)
LEMMA CountReverse ==
  ASSUME NEW S, NEW s \in Seq(S), NEW v
  PROVE  Reverse(s) \in Seq(S) /\ Count(Reverse(s), v) = Count(s, v)
<1> DEFINE n == Len(s)
           t == Reverse(s)
           W == Where(s, v)
           X == Where(t, v)
           f == [x \in W |-> n - x + 1]
<1>1. DOMAIN s = 1 .. n /\ n \in Nat
  BY LenProperties
<1>2. \A x \in 1 .. n : n - x + 1 \in 1 .. n /\ s[n - x + 1] \in S
  BY <1>1, ElementOfSeq
<1>3. t = [x \in 1 .. n |-> s[n - x + 1]]
  BY DEF Reverse
<1>4. t \in Seq(S) /\ DOMAIN t = 1 .. n /\ \A x \in 1 .. n : t[x] = s[n - x + 1]
  BY <1>1, <1>2, <1>3
<1> HIDE DEF n, t
<1>5. f \in Bijection(W, X)
  <2>1. \A x \in W : x \in 1 .. n /\ s[x] = v
    BY <1>1 DEF Where
  <2>2. \A x \in 1 .. n : n - (n - x + 1) + 1 = x /\ n - x + 1 \in 1 .. n
    BY <1>1
  <2>3. f \in [W -> X]
    <3>1. ASSUME NEW x \in W PROVE n - x + 1 \in X
      <4>1. n - x + 1 \in DOMAIN t /\ t[n - x + 1] = s[n - (n - x + 1) + 1]
        BY <2>1, <2>2, <1>4
      <4>2. t[n - x + 1] = v
        BY <4>1, <2>1, <2>2
      <4> QED
        BY <4>1, <4>2 DEF Where
    <3> HIDE DEF W, X
    <3> QED
      BY <3>1
  <2>4. \A x, y \in W : f[x] = f[y] => x = y
    <3>1. \A x \in W : x \in Nat /\ f[x] = n - x + 1
      BY <2>1
    <3> HIDE DEF f, W
    <3> QED
      BY <3>1, <1>1
  <2>5. \A y \in X : \E x \in W : f[x] = y
    <3> TAKE y \in X
    <3>1. y \in 1 .. n /\ t[y] = v /\ t[y] = s[n - y + 1]
      BY <1>4 DEF Where
    <3>2. n - y + 1 \in W
      BY <3>1, <1>1, <2>2 DEF Where
    <3>3. f[n - y + 1] = y
      BY <3>1, <3>2, <2>2
    <3> QED
      BY <3>2, <3>3
  <2> HIDE DEF f, W, X
  <2> QED
    BY <2>3, <2>4, <2>5, Fun_IsBij
<1> HIDE DEF f
<1>6. IsFiniteSet(W)
  BY CountType
<1>7. Cardinality(X) = Cardinality(W)
  <2> HIDE DEF W, X
  <2>1. ExistsBijection(W, X)
    BY <1>5 DEF ExistsBijection
  <2> QED
    BY <2>1, <1>6, FS_Bijection
<1> QED
  BY <1>4, <1>7 DEF Count, t

----------------------------------------------------------------------------
(* Where a value is in a family of sequences, and how often.               *)

Families(D, S) == [D -> Seq(S)]

Agree(C, F, G) == \A d \in C : G[d] = F[d]

PositionsIn(E, F, v) == UNION {{p} \X Where(F[p], v) : p \in E}

Positions(F, v) == PositionsIn(DOMAIN F, F, v)

Total(F, v) == Cardinality(Positions(F, v))

Others(F, p, v) == PositionsIn(DOMAIN F \ {p}, F, v)

(* A finite family of sequences has finitely many positions.               *)
LEMMA PositionsFinite ==
  ASSUME NEW S, NEW D, IsFiniteSet(D), NEW F \in [D -> Seq(S)], NEW v, NEW E \in SUBSET D
  PROVE  IsFiniteSet(PositionsIn(E, F, v))
<1> DEFINE G == {{q} \X Where(F[q], v) : q \in E}
           f == [q \in E |-> {q} \X Where(F[q], v)]
<1>1. IsFiniteSet(E)
  BY FS_Subset
<1>2. f \in Surjection(E, G)
  <2>1. f \in [E -> G] /\ \A g \in G : \E q \in E : f[q] = g
    OBVIOUS
  <2> HIDE DEF f, G
  <2> QED
    BY <2>1, Fun_IsSurj
<1> HIDE DEF f
<1>3. IsFiniteSet(G)
  <2> HIDE DEF G
  <2> QED
    BY <1>1, <1>2, FS_Surjection
<1>4. \A g \in G : IsFiniteSet(g)
  <2>1. ASSUME NEW q \in E
        PROVE  IsFiniteSet({q} \X Where(F[q], v))
    <3>1. F[q] \in Seq(S)
      OBVIOUS
    <3>2. IsFiniteSet(Where(F[q], v))
      BY <3>1, CountType
    <3> QED
      BY <3>2, FS_Product, FS_Singleton
  <2> QED
    BY <2>1
<1> HIDE DEF G
<1>5. IsFiniteSet(UNION G)
  BY <1>3, <1>4, FS_UNION
<1> QED
  BY <1>5 DEF G, PositionsIn

(* The total is what one sequence holds and what the others hold.          *)
LEMMA TotalSplit ==
  ASSUME NEW S, NEW D, IsFiniteSet(D), NEW F \in Families(D, S), NEW v, NEW p \in D
  PROVE  /\ IsFiniteSet(Positions(F, v)) /\ Total(F, v) \in Nat
         /\ Cardinality(Others(F, p, v)) \in Nat
         /\ Total(F, v) = Cardinality(Others(F, p, v)) + Count(F[p], v)
<1> DEFINE A == Others(F, p, v)
           W == Where(F[p], v)
           B == {p} \X W
<1>0. F \in [D -> Seq(S)]
  BY DEF Families
<1>1. DOMAIN F = D /\ F[p] \in Seq(S) /\ D \subseteq D /\ D \ {p} \subseteq D
  BY <1>0
<1>2. IsFiniteSet(A) /\ IsFiniteSet(Positions(F, v))
  BY <1>0, <1>1, PositionsFinite DEF Others, Positions
<1>3. IsFiniteSet(W) /\ Cardinality(W) = Count(F[p], v) /\ Count(F[p], v) \in Nat
  BY <1>1, CountType DEF Count
<1>4. IsFiniteSet(B) /\ Cardinality(B) = Cardinality(W)
  <2>1. IsFiniteSet({p}) /\ Cardinality({p}) = 1
    BY FS_Singleton
  <2> HIDE DEF W
  <2>2. IsFiniteSet(B) /\ Cardinality(B) = Cardinality({p}) * Cardinality(W)
    BY <1>3, <2>1, FS_Product
  <2>3. Cardinality(W) \in Nat
    BY <1>3, FS_CardinalityType
  <2> QED
    BY <2>1, <2>2, <2>3
<1>5. Positions(F, v) = A \cup B
  BY <1>1 DEF Positions, Others, PositionsIn
<1>6. A \cap B = {}
  BY DEF Others, PositionsIn
<1> HIDE DEF A, B, W
<1>7. Cardinality(A \cup B) = Cardinality(A) + Cardinality(B) - Cardinality(A \cap B)
  BY <1>2, <1>4, FS_Union
<1>8. Cardinality(A \cap B) = 0
  BY <1>6, FS_EmptySet
<1>9. Cardinality(A) \in Nat /\ Cardinality(Positions(F, v)) \in Nat
  BY <1>2, FS_CardinalityType
<1> QED
  BY <1>2, <1>3, <1>4, <1>5, <1>7, <1>8, <1>9 DEF Total, A

(* Two families that differ in one sequence.                               *)
LEMMA TotalChanged ==
  ASSUME NEW S, NEW D, IsFiniteSet(D), NEW F \in Families(D, S), NEW G \in Families(D, S),
         NEW p \in D, Agree(D \ {p}, F, G), NEW v
  PROVE  /\ Total(G, v) + Count(F[p], v) = Total(F, v) + Count(G[p], v)
         /\ Total(F, v) \in Nat /\ Total(G, v) \in Nat
         /\ Count(F[p], v) \in Nat /\ Count(G[p], v) \in Nat
<1>1. /\ F \in [D -> Seq(S)] /\ G \in [D -> Seq(S)] /\ DOMAIN F = D /\ DOMAIN G = D
      /\ \A q \in D \ {p} : G[q] = F[q]
  BY DEF Families, Agree
<1>2. Others(G, p, v) = Others(F, p, v)
  BY <1>1 DEF Others, PositionsIn
<1>3. /\ Total(F, v) = Cardinality(Others(F, p, v)) + Count(F[p], v)
      /\ Total(F, v) \in Nat /\ Cardinality(Others(F, p, v)) \in Nat
  BY TotalSplit
<1>4. Total(G, v) = Cardinality(Others(G, p, v)) + Count(G[p], v) /\ Total(G, v) \in Nat
  BY TotalSplit
<1>5. Count(F[p], v) \in Nat /\ Count(G[p], v) \in Nat
  <2>1. F[p] \in Seq(S) /\ G[p] \in Seq(S)
    BY <1>1
  <2> QED
    BY <2>1, CountType
<1> QED
  BY <1>2, <1>3, <1>4, <1>5

(* It gets sequences that are empty.                                       *)
LEMMA TotalExtended ==
  ASSUME NEW F, NEW G, DOMAIN F \subseteq DOMAIN G,
         \A p \in DOMAIN F : G[p] = F[p],
         \A p \in DOMAIN G \ DOMAIN F : G[p] = << >>, NEW v
  PROVE  Total(G, v) = Total(F, v)
<1>1. \A p \in DOMAIN G \ DOMAIN F : Where(G[p], v) = {}
  BY DEF Where
<1>2. Positions(G, v) = Positions(F, v)
  BY <1>1 DEF Positions, PositionsIn
<1> QED
  BY <1>2 DEF Total

(* Two families that differ in two sequences.                              *)
LEMMA TotalChangedTwice ==
  ASSUME NEW S, NEW D, IsFiniteSet(D), NEW F \in Families(D, S), NEW G \in Families(D, S),
         NEW p \in D, NEW q \in D, p # q, Agree(D \ {p, q}, F, G), NEW v
  PROVE  Total(G, v) + (Count(F[p], v) + Count(F[q], v))
           = Total(F, v) + (Count(G[p], v) + Count(G[q], v))
<1> DEFINE E == [d \in D |-> IF d = p THEN G[p] ELSE F[d]]
<1>1. E \in Families(D, S) /\ E[p] = G[p] /\ E[q] = F[q]
  BY DEF Families
<1>2. Agree(D \ {p}, F, E) /\ Agree(D \ {q}, E, G)
  BY DEF Agree
<1> HIDE DEF E
<1>3. /\ Total(E, v) + Count(F[p], v) = Total(F, v) + Count(E[p], v)
      /\ Total(F, v) \in Nat /\ Total(E, v) \in Nat
      /\ Count(F[p], v) \in Nat /\ Count(E[p], v) \in Nat
  BY <1>1, <1>2, TotalChanged
<1>4. /\ Total(G, v) + Count(E[q], v) = Total(E, v) + Count(G[q], v)
      /\ Total(G, v) \in Nat /\ Count(E[q], v) \in Nat /\ Count(G[q], v) \in Nat
  BY <1>1, <1>2, TotalChanged
<1> QED
  BY <1>1, <1>3, <1>4

(* A family with two sequences more.                                       *)
LEMMA TotalGrown ==
  ASSUME NEW S, NEW C, NEW D, IsFiniteSet(D), NEW F \in Families(C, S), NEW G \in Families(D, S),
         NEW p, NEW q, p # q, p \notin C, q \notin C, D = C \cup {p, q},
         Agree(C, F, G), NEW v
  PROVE  Total(G, v) = Total(F, v) + (Count(G[p], v) + Count(G[q], v))
<1> DEFINE A == [d \in D |-> IF d \in C THEN F[d] ELSE << >>]
<1>1. /\ A \in Families(D, S) /\ DOMAIN A = D /\ DOMAIN F = C /\ DOMAIN G = D
      /\ \A d \in C : A[d] = F[d] /\ G[d] = A[d]
      /\ A[p] = << >> /\ A[q] = << >>
  <2>1. << >> \in Seq(S)
    OBVIOUS
  <2> QED
    BY <2>1 DEF Families, Agree
<1> HIDE DEF A
<1>2. Total(A, v) = Total(F, v)
  BY <1>1, TotalExtended
<1>3. /\ p \in D /\ q \in D /\ Agree(D \ {p, q}, A, G)
  BY <1>1 DEF Agree
<1>4. Total(G, v) + (Count(A[p], v) + Count(A[q], v))
        = Total(A, v) + (Count(G[p], v) + Count(G[q], v))
  BY <1>1, <1>3, TotalChangedTwice
<1>5. Count(A[p], v) = 0 /\ Count(A[q], v) = 0
  BY <1>1, CountEmpty
<1>6. Total(G, v) \in Nat
  BY <1>3, TotalSplit
<1> QED
  BY <1>2, <1>4, <1>5, <1>6
=============================================================================
