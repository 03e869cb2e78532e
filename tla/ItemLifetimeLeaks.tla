------------------------- MODULE ItemLifetimeLeaks -------------------------
(***************************************************************************)
(* That an instruction that does not fault frees what it consumed and what *)
(* it made and did not keep, for all limits, any number of addresses and   *)
(* any order of the instructions that a script can run, but for CALL_ED.   *)
(*                                                                         *)
(* An item without claims is about to be deleted, or a register that the   *)
(* case will still free or store has it.  Which registers a case must      *)
(* still free is a matter of its program alone: it is what its steps take  *)
(* and make, less what they store and free, along each way it can go and   *)
(* not fault.  The first part shows this of every program; the second that *)
(* each action keeps the invariant Kept, which relates the items without   *)
(* claims to these registers.  The last steps of XSWAP are an exception,   *)
(* for there it depends on the stack whether an item still has a claim.    *)
(***************************************************************************)
EXTENDS ItemLifetimeSafety

----------------------------------------------------------------------------
(* What a program still handles.                                           *)

(* The end of XSWAP takes an item that it has put in a second place: that  *)
(* it has a claim left is a matter of the stack, not of the program.       *)
Exchange ==
  <<Peek("eval", -1, "x3"), Take("eval", 0, "x2"), Insert("eval", 0, "x3"),
    Take("eval", -1, "x3"), Insert("eval", -1, "x2")>>

(* A register that must still be freed is not overwritten.                 *)
Allows(s, R) ==
  /\ s.op \in {"take", "create", "peek", "get", "assign", "mapGet", "unstack"} =>
       s.to \in Register \ R
  /\ s.op = "clone" => s.item \in Register \ {"ret"} /\ "ret" \notin R
  /\ s.op = "mapRemove" => "x1" \notin R /\ "x2" \notin R /\ s.key = "key"

(* The registers that must be freed after a step that goes on in one way.  *)
Leaves(s, R) ==
  CASE s.op \in {"take", "create"} -> R \cup {s.to}
    [] s.op \in {"insert", "add", "set", "free"} -> R \ {s.item}
    [] s.op = "free2" -> R \ {s.item, s.other}
    [] s.op = "free3" -> R \ {s.item, s.other, s.third}
    [] s.op = "clone" -> R \cup {s.item, "ret"}
    [] OTHER -> R

(* What is left of a program after its first step, and the registers it    *)
(* must free then, for each way the step can go without a fault.           *)
Goes(p, R) ==
  LET s == Head(p)
      rest == Tail(p)
  IN  CASE s.op = "fault" -> {}
        [] s.op = "choose" -> {<<s.from[n] \o rest, R>> : n \in DOMAIN s.from}
        [] s.op = "if" -> {<<s.then \o rest, R>>, <<rest, R>>}
        [] s.op = "ifMade" -> {<<s.then \o rest, R>>, <<rest, R \ {s.item}>>}
        [] s.op = "loop" -> {<<s.body \o p, R>>, <<rest, R>>}
        [] s.op \in {"check", "room", "read", "number", "mapGet"} ->
             {<<rest, R>>, <<s.otherwise, R>>}
        [] s.op = "mapRemove" -> {<<rest, R>>, <<rest, R \ {s.key}>>}
        [] OTHER -> {<<rest, Leaves(s, R)>>}

Sequence(p) == \E S : p \in Seq(S)

(* A program that has ended has nothing left to free.                      *)
Handled(G, p, R) ==
  /\ Sequence(p)
  /\ \/ p \in {<< >>, Exchange} /\ R = {}
     \/ p # << >> /\ Allows(Head(p), R) /\ Goes(p, R) \subseteq G

Closed(G) == \A p, R : <<p, R>> \in G => Handled(G, p, R)

(* On each way it can go, for ever if it loops, the program frees or       *)
(* stores what the registers of R have.                                    *)
Handles(p, R) == \E G : Closed(G) /\ <<p, R>> \in G

(* The first step of a program and what follows.                           *)
LEMMA SequenceParts ==
  ASSUME NEW p, Sequence(p), NEW s
  PROVE  /\ Sequence(<<s>> \o p) /\ <<s>> \o p # << >>
         /\ Head(<<s>> \o p) = s /\ Tail(<<s>> \o p) = p
<1>1. PICK S : p \in Seq(S)
  BY DEF Sequence
<1> DEFINE T == S \cup {s}
<1>2. p \in Seq(T) /\ <<s>> \in Seq(T)
  BY <1>1
<1> HIDE DEF T
<1>3. <<s>> \o p \in Seq(T)
  BY <1>2
<1> QED
  BY <1>2, <1>3 DEF Sequence

(* Programs can be put one after the other.                                *)
LEMMA SequenceConcat ==
  ASSUME NEW p, Sequence(p), NEW q, Sequence(q)
  PROVE  Sequence(p \o q) /\ p \o << >> = p
<1>1. PICK S : p \in Seq(S)
  BY DEF Sequence
<1>2. PICK T : q \in Seq(T)
  BY DEF Sequence
<1>3. p \in Seq(S \cup T) /\ q \in Seq(S \cup T)
  BY <1>1, <1>2
<1>4. p \o q \in Seq(S \cup T)
  BY <1>3
<1>5. p \o << >> = p
  BY <1>1
<1> QED
  BY <1>4, <1>5 DEF Sequence

(* And it does not matter which two of three are put together first.       *)
LEMMA SequenceAssociative ==
  ASSUME NEW p, Sequence(p), NEW q, Sequence(q), NEW r, Sequence(r)
  PROVE  (p \o q) \o r = p \o (q \o r)
<1>1. PICK S : p \in Seq(S)
  BY DEF Sequence
<1>2. PICK T : q \in Seq(T)
  BY DEF Sequence
<1>3. PICK U : r \in Seq(U)
  BY DEF Sequence
<1> DEFINE V == S \cup T \cup U
<1>4. p \in Seq(V) /\ q \in Seq(V) /\ r \in Seq(V)
  BY <1>1, <1>2, <1>3
<1> HIDE DEF V
<1> QED
  BY <1>4, ConcatAssociative

(* A list of steps is the first and the others: of two,                    *)
LEMMA TwoSteps ==
  ASSUME NEW a, NEW b
  PROVE  Sequence(<<a, b>>) /\ <<a, b>> = <<a>> \o <<b>>
<1> DEFINE T == {a, b}
<1>1. <<a, b>> = Append(<<a>>, b)
  OBVIOUS
<1>2. <<a>> \in Seq(T) /\ b \in T /\ <<a, b>> \in Seq(T)
  OBVIOUS
<1> HIDE DEF T
<1>3. <<a, b>> = <<a>> \o <<b>>
  BY <1>1, <1>2, AppendIsConcat
<1> QED
  BY <1>2, <1>3 DEF Sequence

(*  of three,                                                              *)
LEMMA ThreeSteps ==
  ASSUME NEW a, NEW b, NEW c
  PROVE  /\ Sequence(<<a, b, c>>)
         /\ <<a, b, c>> = <<a>> \o <<b, c>>
<1> DEFINE T == {a, b, c}
<1>1. a \in T /\ b \in T /\ c \in T
  OBVIOUS
<1> HIDE DEF T
<1>2. <<a, b, c>> \in Seq(T)
  BY <1>1
<1>3. <<a, b, c>> = <<a>> \o <<b, c>>
  BY <1>1
<1> QED
  BY <1>2, <1>3 DEF Sequence

(*  of four,                                                               *)
LEMMA FourSteps ==
  ASSUME NEW a, NEW b, NEW c, NEW d
  PROVE  /\ Sequence(<<a, b, c, d>>)
         /\ <<a, b, c, d>> = <<a>> \o <<b, c, d>>
<1> DEFINE T == {a, b, c, d}
<1>1. a \in T /\ b \in T /\ c \in T /\ d \in T
  OBVIOUS
<1> HIDE DEF T
<1>2. <<a, b, c, d>> \in Seq(T)
  BY <1>1
<1>3. <<a, b, c, d>> = <<a>> \o <<b, c, d>>
  BY <1>1
<1> QED
  BY <1>2, <1>3 DEF Sequence

(*  of five,                                                               *)
LEMMA FiveSteps ==
  ASSUME NEW a, NEW b, NEW c, NEW d, NEW e
  PROVE  /\ Sequence(<<a, b, c, d, e>>)
         /\ <<a, b, c, d, e>> = <<a>> \o <<b, c, d, e>>
<1> DEFINE T == {a, b, c, d, e}
<1>1. a \in T /\ b \in T /\ c \in T /\ d \in T /\ e \in T
  OBVIOUS
<1> HIDE DEF T
<1>2. <<a, b, c, d, e>> \in Seq(T)
  BY <1>1
<1>3. <<a, b, c, d, e>> = <<a>> \o <<b, c, d, e>>
  BY <1>1
<1> QED
  BY <1>2, <1>3 DEF Sequence

(*  of six,                                                                *)
LEMMA SixSteps ==
  ASSUME NEW a, NEW b, NEW c, NEW d, NEW e, NEW f
  PROVE  /\ Sequence(<<a, b, c, d, e, f>>)
         /\ <<a, b, c, d, e, f>> = <<a>> \o <<b, c, d, e, f>>
<1> DEFINE T == {a, b, c, d, e, f}
<1>1. a \in T /\ b \in T /\ c \in T /\ d \in T /\ e \in T /\ f \in T
  OBVIOUS
<1> HIDE DEF T
<1>2. <<a, b, c, d, e, f>> \in Seq(T)
  BY <1>1
<1>3. <<a, b, c, d, e, f>> = <<a>> \o <<b, c, d, e, f>>
  BY <1>1
<1> QED
  BY <1>2, <1>3 DEF Sequence

(*  of seven.                                                              *)
LEMMA SevenSteps ==
  ASSUME NEW a, NEW b, NEW c, NEW d, NEW e, NEW f, NEW g
  PROVE  /\ Sequence(<<a, b, c, d, e, f, g>>)
         /\ <<a, b, c, d, e, f, g>> = <<a>> \o <<b, c, d, e, f, g>>
<1> DEFINE T == {a, b, c, d, e, f, g}
<1>1. a \in T /\ b \in T /\ c \in T /\ d \in T /\ e \in T /\ f \in T /\ g \in T
  OBVIOUS
<1> HIDE DEF T
<1>2. <<a, b, c, d, e, f, g>> \in Seq(T)
  BY <1>1
<1>3. <<a, b, c, d, e, f, g>> = <<a>> \o <<b, c, d, e, f, g>>
  BY <1>1
<1> QED
  BY <1>2, <1>3 DEF Sequence

(* No step and one.                                                        *)
LEMMA ShortSequences ==
  /\ Sequence(<< >>)
  /\ \A a : Sequence(<<a>>)
<1>1. << >> \in Seq({})
  OBVIOUS
<1>2. \A a : <<a>> \in Seq({a})
  OBVIOUS
<1> QED
  BY <1>1, <1>2 DEF Sequence

(* What a program handles is handled after its first step.                 *)
LEMMA Unfold ==
  ASSUME NEW p, NEW R, Handles(p, R)
  PROVE  /\ Sequence(p)
         /\ p = << >> => R = {}
         /\ p # << >> /\ ~(p = Exchange /\ R = {}) =>
              /\ Allows(Head(p), R)
              /\ \A q, S : <<q, S>> \in Goes(p, R) => Handles(q, S)
<1>1. PICK G : Closed(G) /\ <<p, R>> \in G
  BY DEF Handles
<1>2. Handled(G, p, R)
  BY <1>1 DEF Closed
<1>3. ASSUME p # << >>, ~(p = Exchange /\ R = {})
      PROVE  /\ Allows(Head(p), R)
             /\ \A q, S : <<q, S>> \in Goes(p, R) => Handles(q, S)
  <2>1. Allows(Head(p), R) /\ Goes(p, R) \subseteq G
    BY <1>2, <1>3 DEF Handled
  <2>2. \A q, S : <<q, S>> \in Goes(p, R) => <<q, S>> \in G
    BY <2>1
  <2> QED
    BY <1>1, <2>1, <2>2 DEF Handles
<1>4. p = << >> => R = {}
  BY <1>2 DEF Handled
<1>5. Sequence(p)
  BY <1>2 DEF Handled
<1> QED
  BY <1>3, <1>4, <1>5

(* And the other way round, for a step with at most two ways to go.        *)
LEMMA Fold ==
  ASSUME NEW p, NEW R, Sequence(p), p # << >>, Allows(Head(p), R),
         NEW a, NEW A, Handles(a, A), NEW b, NEW B, Handles(b, B),
         Goes(p, R) \subseteq {<<a, A>>, <<b, B>>}
  PROVE  Handles(p, R)
<1>1. PICK G : Closed(G) /\ <<a, A>> \in G
  BY DEF Handles
<1>2. PICK H : Closed(H) /\ <<b, B>> \in H
  BY DEF Handles
<1> DEFINE J == G \cup H \cup {<<p, R>>}
<1>3. <<p, R>> \in J /\ Goes(p, R) \subseteq J /\ G \subseteq J /\ H \subseteq J
  BY <1>1, <1>2
<1>4. ASSUME NEW q, NEW S, <<q, S>> \in J
      PROVE  Handled(J, q, S)
  <2>1. CASE <<q, S>> \in G
    BY <1>1, <1>3, <2>1 DEF Closed, Handled
  <2>2. CASE <<q, S>> \in H
    BY <1>2, <1>3, <2>2 DEF Closed, Handled
  <2>3. CASE <<q, S>> = <<p, R>>
    <3>1. q = p /\ S = R
      BY <2>3
    <3> QED
      BY <3>1, <1>3 DEF Handled
  <2> QED
    BY <1>4, <2>1, <2>2, <2>3
<1> HIDE DEF J
<1>5. Closed(J)
  BY <1>4 DEF Closed
<1> QED
  BY <1>3, <1>5 DEF Handles

(* The same for a step with one.                                           *)
LEMMA FoldOne ==
  ASSUME NEW p, NEW R, Sequence(p), p # << >>, Allows(Head(p), R),
         NEW a, NEW A, Handles(a, A), Goes(p, R) \subseteq {<<a, A>>}
  PROVE  Handles(p, R)
<1>1. Goes(p, R) \subseteq {<<a, A>>, <<a, A>>}
  OBVIOUS
<1> QED
  BY <1>1, Fold

(* Nothing is left to do, and nothing to free.                             *)
LEMMA EmptyHandles == Handles(<< >>, {})
<1> DEFINE G == {<< << >>, {} >>}
<1>1. \A p, R : <<p, R>> \in G => p = << >> /\ R = {}
  OBVIOUS
<1>2. << << >>, {} >> \in G
  OBVIOUS
<1> HIDE DEF G
<1>3. Closed(G)
  BY <1>1, ShortSequences DEF Closed, Handled
<1> QED
  BY <1>2, <1>3 DEF Handles

(* The end of XSWAP.                                                       *)
LEMMA ExchangeHandles == Handles(Exchange, {})
<1> DEFINE G == {<<Exchange, {}>>}
<1>1. \A p, R : <<p, R>> \in G => p = Exchange /\ R = {}
  OBVIOUS
<1>2. <<Exchange, {}>> \in G
  OBVIOUS
<1>3. Sequence(Exchange)
  BY FiveSteps DEF Exchange
<1> HIDE DEF G
<1>4. Closed(G)
  BY <1>1, <1>3 DEF Closed, Handled
<1> QED
  BY <1>2, <1>4 DEF Handles

----------------------------------------------------------------------------
(* What a piece of a program does: of the registers of R it frees or       *)
(* stores all but those of S, and leaves these to what follows.            *)
Leads(P, R, S) ==
  Sequence(P) /\ \A q : Handles(q, S) => Handles(P \o q, R)

(* One piece after the other.                                              *)
LEMMA LeadsOn ==
  ASSUME NEW P, NEW Q, NEW R, NEW S, NEW T, Leads(P, R, S), Leads(Q, S, T)
  PROVE  Leads(P \o Q, R, T)
<1>1. Sequence(P) /\ Sequence(Q) /\ Sequence(P \o Q)
  BY SequenceConcat DEF Leads
<1>2. ASSUME NEW q, Handles(q, T)
      PROVE  Handles((P \o Q) \o q, R)
  <2> DEFINE whole == (P \o Q) \o q
             parts == P \o (Q \o q)
  <2>1. Handles(Q \o q, S)
    BY <1>2 DEF Leads
  <2>2. Handles(parts, R)
    BY <2>1 DEF Leads
  <2>3. Sequence(q)
    BY <1>2, Unfold
  <2>4. whole = parts
    BY <2>3, <1>1, SequenceAssociative
  <2> HIDE DEF whole, parts
  <2>5. Handles(whole, R)
    BY <2>2, <2>4
  <2> QED
    BY <2>5 DEF whole
<1> QED
  BY <1>1, <1>2 DEF Leads

(* A program that is whole.                                                *)
LEMMA LeadsToEnd ==
  ASSUME NEW P, NEW R, Leads(P, R, {})
  PROVE  Handles(P, R)
<1>1. Handles(P \o << >>, R)
  BY EmptyHandles DEF Leads
<1> QED
  BY <1>1, SequenceConcat, ShortSequences DEF Leads

(* One step, and the others: two,                                          *)
LEMMA Leads2 ==
  ASSUME NEW a, NEW b, NEW R, NEW S, NEW T, Leads(<<a>>, R, S), Leads(<<b>>, S, T)
  PROVE  Leads(<<a, b>>, R, T)
<1>1. Leads(<<a>> \o <<b>>, R, T)
  BY LeadsOn
<1>2. <<a, b>> = <<a>> \o <<b>>
  BY TwoSteps
<1> QED
  BY <1>1, <1>2

(*  three,                                                                 *)
LEMMA Leads3 ==
  ASSUME NEW a, NEW b, NEW c,
         NEW R, NEW S, NEW T, NEW U,
         Leads(<<a>>, R, S),
         Leads(<<b>>, S, T),
         Leads(<<c>>, T, U)
  PROVE  Leads(<<a, b, c>>, R, U)
<1>1. Leads(<<b, c>>, S, U)
  BY Leads2
<1>2. Leads(<<a>> \o <<b, c>>, R, U)
  BY <1>1, LeadsOn
<1>3. <<a, b, c>> = <<a>> \o <<b, c>>
  BY ThreeSteps
<1> QED
  BY <1>2, <1>3

(*  four,                                                                  *)
LEMMA Leads4 ==
  ASSUME NEW a, NEW b, NEW c, NEW d,
         NEW R, NEW S, NEW T, NEW U, NEW V,
         Leads(<<a>>, R, S),
         Leads(<<b>>, S, T),
         Leads(<<c>>, T, U),
         Leads(<<d>>, U, V)
  PROVE  Leads(<<a, b, c, d>>, R, V)
<1>1. Leads(<<b, c, d>>, S, V)
  BY Leads3
<1>2. Leads(<<a>> \o <<b, c, d>>, R, V)
  BY <1>1, LeadsOn
<1>3. <<a, b, c, d>> = <<a>> \o <<b, c, d>>
  BY FourSteps
<1> QED
  BY <1>2, <1>3

(*  five,                                                                  *)
LEMMA Leads5 ==
  ASSUME NEW a, NEW b, NEW c, NEW d, NEW e,
         NEW R, NEW S, NEW T, NEW U, NEW V, NEW W,
         Leads(<<a>>, R, S),
         Leads(<<b>>, S, T),
         Leads(<<c>>, T, U),
         Leads(<<d>>, U, V),
         Leads(<<e>>, V, W)
  PROVE  Leads(<<a, b, c, d, e>>, R, W)
<1>1. Leads(<<b, c, d, e>>, S, W)
  BY Leads4
<1>2. Leads(<<a>> \o <<b, c, d, e>>, R, W)
  BY <1>1, LeadsOn
<1>3. <<a, b, c, d, e>> = <<a>> \o <<b, c, d, e>>
  BY FiveSteps
<1> QED
  BY <1>2, <1>3

(*  six,                                                                   *)
LEMMA Leads6 ==
  ASSUME NEW a, NEW b, NEW c, NEW d, NEW e, NEW f,
         NEW R, NEW S, NEW T, NEW U, NEW V, NEW W, NEW X,
         Leads(<<a>>, R, S),
         Leads(<<b>>, S, T),
         Leads(<<c>>, T, U),
         Leads(<<d>>, U, V),
         Leads(<<e>>, V, W),
         Leads(<<f>>, W, X)
  PROVE  Leads(<<a, b, c, d, e, f>>, R, X)
<1>1. Leads(<<b, c, d, e, f>>, S, X)
  BY Leads5
<1>2. Leads(<<a>> \o <<b, c, d, e, f>>, R, X)
  BY <1>1, LeadsOn
<1>3. <<a, b, c, d, e, f>> = <<a>> \o <<b, c, d, e, f>>
  BY SixSteps
<1> QED
  BY <1>2, <1>3

(*  seven.                                                                 *)
LEMMA Leads7 ==
  ASSUME NEW a, NEW b, NEW c, NEW d, NEW e, NEW f, NEW g,
         NEW R, NEW S, NEW T, NEW U, NEW V, NEW W, NEW X, NEW Y,
         Leads(<<a>>, R, S),
         Leads(<<b>>, S, T),
         Leads(<<c>>, T, U),
         Leads(<<d>>, U, V),
         Leads(<<e>>, V, W),
         Leads(<<f>>, W, X),
         Leads(<<g>>, X, Y)
  PROVE  Leads(<<a, b, c, d, e, f, g>>, R, Y)
<1>1. Leads(<<b, c, d, e, f, g>>, S, Y)
  BY Leads6
<1>2. Leads(<<a>> \o <<b, c, d, e, f, g>>, R, Y)
  BY <1>1, LeadsOn
<1>3. <<a, b, c, d, e, f, g>> = <<a>> \o <<b, c, d, e, f, g>>
  BY SevenSteps
<1> QED
  BY <1>2, <1>3

(* A step with at most two ways to go.                                     *)
LEMMA LeadsStep ==
  ASSUME NEW s, NEW R, NEW S, Allows(s, R),
         \A q : Handles(q, S) =>
           \E a, A, b, B : /\ Handles(a, A) /\ Handles(b, B)
                          /\ Goes(<<s>> \o q, R) \subseteq {<<a, A>>, <<b, B>>}
  PROVE  Leads(<<s>>, R, S)
<1>1. ASSUME NEW q, Handles(q, S)
      PROVE  Handles(<<s>> \o q, R)
  <2>1. PICK a, A, b, B : /\ Handles(a, A) /\ Handles(b, B)
                          /\ Goes(<<s>> \o q, R) \subseteq {<<a, A>>, <<b, B>>}
    BY <1>1
  <2> DEFINE p == <<s>> \o q
  <2>2. Sequence(p) /\ p # << >> /\ Head(p) = s
    BY <1>1, Unfold, SequenceParts
  <2>3. Goes(p, R) \subseteq {<<a, A>>, <<b, B>>}
    BY <2>1
  <2> HIDE DEF p
  <2>4. Handles(p, R)
    BY <2>1, <2>2, <2>3, Fold
  <2> QED
    BY <2>4 DEF p
<1> QED
  BY <1>1, ShortSequences DEF Leads

(* The steps that have programs in them, and the ones that take or fault.  *)
Branching ==
  {"fault", "choose", "if", "ifMade", "loop", "check", "room", "read", "number",
   "mapGet", "mapRemove"}

(* A step with one way to go.                                              *)
LEMMA LeadsPlain ==
  ASSUME NEW s, NEW R, NEW S, s.op \notin Branching, Allows(s, R), S = Leaves(s, R)
  PROVE  Leads(<<s>>, R, S)
<1>1. ASSUME NEW q, Handles(q, S)
      PROVE  Goes(<<s>> \o q, R) = {<<q, S>>}
  <2>1. Head(<<s>> \o q) = s /\ Tail(<<s>> \o q) = q
    BY <1>1, Unfold, SequenceParts
  <2> QED
    BY <2>1 DEF Goes, Branching
<1>2. \A q : Handles(q, S) =>
           \E a, A, b, B : /\ Handles(a, A) /\ Handles(b, B)
                          /\ Goes(<<s>> \o q, R) \subseteq {<<a, A>>, <<b, B>>}
  BY <1>1
<1> QED
  BY <1>2, LeadsStep

(* A step that fails goes on with a program of its own, which is whole.    *)
LEMMA LeadsElse ==
  ASSUME NEW s, s.op \in {"check", "room", "read", "number", "mapGet"}, NEW R,
         Leads(s.otherwise, R, {}), Allows(s, R)
  PROVE  Leads(<<s>>, R, R)
<1>1. Handles(s.otherwise, R)
  BY LeadsToEnd
<1>2. ASSUME NEW q, Handles(q, R)
      PROVE  Goes(<<s>> \o q, R) = {<<q, R>>, <<s.otherwise, R>>}
  <2>1. Head(<<s>> \o q) = s /\ Tail(<<s>> \o q) = q
    BY <1>2, Unfold, SequenceParts
  <2> QED
    BY <2>1 DEF Goes
<1>3. \A q : Handles(q, R) =>
           \E a, A, b, B : /\ Handles(a, A) /\ Handles(b, B)
                          /\ Goes(<<s>> \o q, R) \subseteq {<<a, A>>, <<b, B>>}
  BY <1>1, <1>2
<1> QED
  BY <1>3, LeadsStep

(* A fault frees nothing and need not.                                     *)
LEMMA LeadsFault ==
  ASSUME NEW R, NEW S
  PROVE  Leads(<<Fault>>, R, S)
<1>1. Allows(Fault, R)
  BY DEF Allows, Fault
<1>2. ASSUME NEW q, Handles(q, S)
      PROVE  Goes(<<Fault>> \o q, R) = {}
  <2>1. Head(<<Fault>> \o q) = Fault
    BY <1>2, Unfold, SequenceParts
  <2> QED
    BY <2>1 DEF Goes, Fault
<1>3. \A q : Handles(q, S) =>
           \E a, A, b, B : /\ Handles(a, A) /\ Handles(b, B)
                          /\ Goes(<<Fault>> \o q, R) \subseteq {<<a, A>>, <<b, B>>}
  BY <1>2
<1> QED
  BY <1>1, <1>3, LeadsStep

(* A step that goes on with a program of its own or without, and then with *)
(* what follows.                                                           *)
LEMMA LeadsIf ==
  ASSUME NEW r, NEW t, NEW P, NEW R, Leads(P, R, R)
  PROVE  Leads(<<If(r, t, P)>>, R, R)
<1> DEFINE s == If(r, t, P)
<1>1. Allows(s, R)
  BY DEF Allows, If
<1>2. ASSUME NEW q, Handles(q, R)
      PROVE  Goes(<<s>> \o q, R) = {<<P \o q, R>>, <<q, R>>} /\ Handles(P \o q, R)
  <2>1. Head(<<s>> \o q) = s /\ Tail(<<s>> \o q) = q
    BY <1>2, Unfold, SequenceParts
  <2>2. s.op = "if" /\ s.then = P
    BY DEF If
  <2> HIDE DEF s
  <2>3. Goes(<<s>> \o q, R) = {<<P \o q, R>>, <<q, R>>}
    BY <2>1, <2>2 DEF Goes
  <2>4. Handles(P \o q, R)
    BY <1>2 DEF Leads
  <2> QED
    BY <2>3, <2>4
<1> HIDE DEF s
<1>3. \A q : Handles(q, R) =>
           \E a, A, b, B : /\ Handles(a, A) /\ Handles(b, B)
                          /\ Goes(<<s>> \o q, R) \subseteq {<<a, A>>, <<b, B>>}
  BY <1>2
<1>4. Leads(<<s>>, R, R)
  BY <1>1, <1>3, LeadsStep
<1> QED
  BY <1>4 DEF s

(* What a creator made, or not.                                            *)
LEMMA LeadsIfMade ==
  ASSUME NEW r, NEW P, NEW R, Leads(P, R, R \ {r})
  PROVE  Leads(<<IfMade(r, P)>>, R, R \ {r})
<1> DEFINE s == IfMade(r, P)
           S == R \ {r}
<1>1. Allows(s, R)
  BY DEF Allows, IfMade
<1>2. ASSUME NEW q, Handles(q, S)
      PROVE  Goes(<<s>> \o q, R) = {<<P \o q, R>>, <<q, S>>} /\ Handles(P \o q, R)
  <2>1. Head(<<s>> \o q) = s /\ Tail(<<s>> \o q) = q
    BY <1>2, Unfold, SequenceParts
  <2>2. s.op = "ifMade" /\ s.then = P /\ s.item = r
    BY DEF IfMade
  <2> HIDE DEF s
  <2>3. Goes(<<s>> \o q, R) = {<<P \o q, R>>, <<q, S>>}
    BY <2>1, <2>2 DEF Goes
  <2>4. Handles(P \o q, R)
    BY <1>2 DEF Leads
  <2> QED
    BY <2>3, <2>4
<1> HIDE DEF s
<1>3. \A q : Handles(q, S) =>
           \E a, A, b, B : /\ Handles(a, A) /\ Handles(b, B)
                          /\ Goes(<<s>> \o q, R) \subseteq {<<a, A>>, <<b, B>>}
  BY <1>2
<1>4. Leads(<<s>>, R, S)
  BY <1>1, <1>3, LeadsStep
<1> QED
  BY <1>4 DEF s

(* One of two programs.                                                    *)
LEMMA LeadsChoose ==
  ASSUME NEW P, NEW Q, NEW R, NEW S, Leads(P, R, S), Leads(Q, R, S)
  PROVE  Leads(<<Choose(<<P, Q>>)>>, R, S)
<1> DEFINE s == Choose(<<P, Q>>)
<1>1. Allows(s, R)
  BY DEF Allows, Choose
<1>2. ASSUME NEW q, Handles(q, S)
      PROVE  /\ Goes(<<s>> \o q, R) \subseteq {<<P \o q, R>>, <<Q \o q, R>>}
             /\ Handles(P \o q, R) /\ Handles(Q \o q, R)
  <2>1. Head(<<s>> \o q) = s /\ Tail(<<s>> \o q) = q
    BY <1>2, Unfold, SequenceParts
  <2>2. \A n \in DOMAIN s.from : s.from[n] \in {P, Q}
    BY DEF Choose
  <2>3. s.op = "choose"
    BY DEF Choose
  <2> HIDE DEF s
  <2>4. Goes(<<s>> \o q, R) = {<<s.from[n] \o q, R>> : n \in DOMAIN s.from}
    BY <2>1, <2>3 DEF Goes
  <2> QED
    BY <2>2, <2>4, <1>2 DEF Leads
<1> HIDE DEF s
<1>3. \A q : Handles(q, S) =>
           \E a, A, b, B : /\ Handles(a, A) /\ Handles(b, B)
                          /\ Goes(<<s>> \o q, R) \subseteq {<<a, A>>, <<b, B>>}
  BY <1>2
<1>4. Leads(<<s>>, R, S)
  BY <1>1, <1>3, LeadsStep
<1> QED
  BY <1>4 DEF s

----------------------------------------------------------------------------
(* The primitives.                                                         *)

(* A step that only looks at the stack, or changes what lists hold.        *)
LEMMA NeedLeads ==
  ASSUME NEW s, NEW n, NEW R, NEW S, S = R
  PROVE  Leads(<<Need(s, n)>>, R, S)
BY LeadsPlain DEF Branching, Allows, Leaves, Need

(* An item is taken from the stack without its claim.                      *)
LEMMA TakeLeads ==
  ASSUME NEW s, NEW n, NEW R, NEW r \in Register \ R, NEW S, S = R \cup {r}
  PROVE  Leads(<<Take(s, n, r)>>, R, S)
BY LeadsPlain DEF Branching, Allows, Leaves, Take

(* A register that must not be freed gets an item that has claims.         *)
LEMMA PeekLeads ==
  ASSUME NEW s, NEW n, NEW R, NEW r \in Register \ R, NEW S, S = R
  PROVE  Leads(<<Peek(s, n, r)>>, R, S)
BY LeadsPlain DEF Branching, Allows, Leaves, Peek

(* The same, when the item keeps its claim in the register.                *)
LEMMA UnstackLeads ==
  ASSUME NEW R, NEW r \in Register \ R, NEW S, S = R
  PROVE  Leads(<<Unstack(r)>>, R, S)
BY LeadsPlain DEF Branching, Allows, Leaves, Unstack

(* A claim is given up, and the item deleted if it was the last.           *)
LEMMA ReleaseLeads ==
  ASSUME NEW R, NEW r, NEW S, S = R
  PROVE  Leads(<<UnclaimAndFree(r)>>, R, S)
BY LeadsPlain DEF Branching, Allows, Leaves, UnclaimAndFree

(* An item on the stack is kept.                                           *)
LEMMA InsertLeads ==
  ASSUME NEW s, NEW n, NEW R, NEW r, NEW S, S = R \ {r}
  PROVE  Leads(<<Insert(s, n, r)>>, R, S)
BY LeadsPlain DEF Branching, Allows, Leaves, Insert

(* So is one in a list.                                                    *)
LEMMA AddLeads ==
  ASSUME NEW c, NEW R, NEW r, NEW S, S = R \ {r}
  PROVE  Leads(<<Add(c, r)>>, R, S)
BY LeadsPlain DEF Branching, Allows, Leaves, Add

(* Or one that replaces another.                                           *)
LEMMA SetLeads ==
  ASSUME NEW c, NEW R, NEW r, NEW S, S = R \ {r}
  PROVE  Leads(<<Set(c, r)>>, R, S)
BY LeadsPlain DEF Branching, Allows, Leaves, Set

(* What is freed is freed.                                                 *)
LEMMA FreeLeads ==
  ASSUME NEW R, NEW r, NEW S, S = R \ {r}
  PROVE  Leads(<<Free(r)>>, R, S)
BY LeadsPlain DEF Branching, Allows, Leaves, Free

(* Two registers.                                                          *)
LEMMA Free2Leads ==
  ASSUME NEW R, NEW r, NEW s, NEW S, S = R \ {r, s}
  PROVE  Leads(<<Free2(r, s)>>, R, S)
BY LeadsPlain DEF Branching, Allows, Leaves, Free2

(* Three registers.                                                        *)
LEMMA Free3Leads ==
  ASSUME NEW R, NEW r, NEW s, NEW u, NEW S, S = R \ {r, s, u}
  PROVE  Leads(<<Free3(r, s, u)>>, R, S)
BY LeadsPlain DEF Branching, Allows, Leaves, Free3

(* A new item must be kept or freed.                                       *)
LEMMA CreateLeads ==
  ASSUME NEW t, NEW b, NEW R, NEW r \in Register \ R, NEW S, S = R \cup {r}
  PROVE  Leads(<<Create(t, b, r)>>, R, S)
BY LeadsPlain DEF Branching, Allows, Leaves, Create

(* An element has a claim in its list.                                     *)
LEMMA GetLeads ==
  ASSUME NEW c, NEW R, NEW r \in Register \ R, NEW S, S = R
  PROVE  Leads(<<Get(c, r)>>, R, S)
BY LeadsPlain DEF Branching, Allows, Leaves, Get

(* What leaves a list is freed there.                                      *)
LEMMA EraseLeads ==
  ASSUME NEW c, NEW R, NEW S, S = R
  PROVE  Leads(<<Erase(c)>>, R, S)
BY LeadsPlain DEF Branching, Allows, Leaves, Erase

(* The order of a list does not matter.                                    *)
LEMMA ReversedLeads ==
  ASSUME NEW c, NEW R, NEW S, S = R
  PROVE  Leads(<<Reversed(c)>>, R, S)
BY LeadsPlain DEF Branching, Allows, Leaves, Reversed

(* The elements of a list go on the stack.                                 *)
LEMMA PushAllLeads ==
  ASSUME NEW c, NEW R, NEW S, S = R
  PROVE  Leads(<<PushAll(c)>>, R, S)
BY LeadsPlain DEF Branching, Allows, Leaves, PushAll

(* A clone, and the original that it replaces, are the case's to free.     *)
LEMMA CloneLeads ==
  ASSUME NEW R, NEW r \in Register \ {"ret"}, "ret" \notin R, NEW S, S = R \cup {r, "ret"}
  PROVE  Leads(<<Clone(r)>>, R, S)
BY LeadsPlain DEF Branching, Allows, Leaves, Clone

(* The value of a pair is replaced, or the pair is added.                  *)
LEMMA MapSetLeads ==
  ASSUME NEW m, NEW k, NEW r, NEW R, NEW S, S = R
  PROVE  Leads(<<MapSet(m, k, r)>>, R, S)
BY LeadsPlain DEF Branching, Allows, Leaves, MapSet

(* A list is filled with items that have claims.                           *)
LEMMA FillLeads ==
  ASSUME NEW m, NEW part, NEW r, NEW R, NEW S, S = R
  PROVE  Leads(<<Fill(m, part, r)>>, R, S)
BY LeadsPlain DEF Branching, Allows, Leaves, Fill

----------------------------------------------------------------------------
(* The pieces that cases share.                                            *)

(* The operands of two and of three are taken into registers.              *)
LEMMA PopsLead ==
  /\ Leads(Pop2, {}, {"x1", "x2"}) /\ Leads(Pop3, {}, {"x1", "x2", "x3"})
<1>1. /\ Leads(<<Need("eval", 2)>>, {}, {}) /\ Leads(<<Need("eval", 3)>>, {}, {})
  BY NeedLeads
<1>2. Leads(<<Pop("x2")>>, {}, {"x2"}) /\ Leads(<<Pop("x3")>>, {}, {"x3"})
  BY TakeLeads, Names DEF Pop
<1>3. Leads(<<Pop("x1")>>, {"x2"}, {"x1", "x2"})
  BY TakeLeads, Names DEF Pop
<1>4. Leads(<<Pop("x2")>>, {"x3"}, {"x2", "x3"})
  BY TakeLeads, Names DEF Pop
<1>5. Leads(<<Pop("x1")>>, {"x2", "x3"}, {"x1", "x2", "x3"})
  BY TakeLeads, Names DEF Pop
<1> QED
  BY <1>1, <1>2, <1>3, <1>4, <1>5, Leads3, Leads4 DEF Pop2, Pop3

(* A new item is pushed.                                                   *)
LEMMA PushMade == Leads(<<IfMade("ret", <<Push("ret")>>)>>, {"ret"}, {})
<1>1. Leads(<<Push("ret")>>, {"ret"}, {})
  BY InsertLeads DEF Push
<1>2. {"ret"} \ {"ret"} = {}
  OBVIOUS
<1> QED
  BY <1>1, <1>2, LeadsIfMade

(* A creator, and the push of what it made if there was room for it.       *)
LEMMA MakeLeads ==
  ASSUME NEW t, NEW b
  PROVE  Leads(Make(t, b), {}, {})
<1>1. Leads(<<Create(t, b, "ret")>>, {}, {"ret"})
  BY CreateLeads, Names
<1> QED
  BY <1>1, PushMade, Leads2 DEF Make

(* A program that ends with a fault.                                       *)
LEMMA FaultAfter ==
  ASSUME NEW s, NEW R, NEW S, Leads(<<s>>, R, S)
  PROVE  Leads(<<s, Fault>>, R, {})
<1>1. Leads(<<Fault>>, S, {})
  BY LeadsFault
<1> QED
  BY <1>1, Leads2

(* An operand is read and freed, whether it has a value or not.            *)
LEMMA ReadAndFreeLeads ==
  ASSUME NEW r, NEW R, NEW S, S = R \ {r}
  PROVE  Leads(ReadAndFree(r), R, S)
<1> DEFINE read == Read({r}, <<Free(r), Fault>>)
<1>1. Leads(<<Free(r)>>, R, S)
  BY FreeLeads
<1>2. Leads(<<Free(r), Fault>>, R, {})
  BY <1>1, FaultAfter
<1>3. Leads(<<read>>, R, R)
  BY <1>2, LeadsElse DEF Read, Allows
<1> HIDE DEF read
<1>4. Leads(<<read, Free(r)>>, R, S)
  BY <1>1, <1>3, Leads2
<1> QED
  BY <1>4 DEF ReadAndFree, read

(* A Struct in a register that must be freed is replaced by a clone.       *)
LEMMA CopiedStructLeads ==
  ASSUME NEW R, "value" \in R, "ret" \notin R
  PROVE  Leads(<<CopiedStruct("value")>>, R, R)
<1>1. Leads(<<Clone("value")>>, R, R \cup {"ret"})
  BY CloneLeads, Names
<1>2. Leads(<<Free("ret")>>, R \cup {"ret"}, R)
  BY FreeLeads
<1> QED
  BY <1>1, <1>2, Leads2, LeadsIf DEF CopiedStruct

(* A key that must be a value.                                             *)
LEMMA PopKeyLeads ==
  ASSUME NEW P, NEW R, NEW S, S = R \cup {"key"}, "key" \notin R, Leads(P, S, {})
  PROVE  Leads(PopKey(P), R, S)
<1>1. Leads(<<Pop("key")>>, R, S)
  BY TakeLeads, Names DEF Pop
<1>2. Leads(<<Check("key", {"Value"}, P)>>, S, S)
  BY LeadsElse DEF Check, Allows
<1> QED
  BY <1>1, <1>2, Leads2 DEF PopKey

(* A way to go for some types, which is whole.                             *)
LEMMA WhenLeads ==
  ASSUME NEW r, NEW t, NEW P, NEW R, Leads(P, R, {})
  PROVE  Leads(<<When(r, t, P)>>, R, R)
BY LeadsElse DEF When, Check, Allows

(* A number is taken and freed first.                                      *)
LEMMA WithNumberHandles ==
  ASSUME NEW n, NEW P, Handles(P, {})
  PROVE  Handles(WithNumber(n, P), {})
<1> DEFINE num == Number("x1", n, <<Free("x1"), Fault>>)
<1>1. Leads(<<Need("eval", 1)>>, {}, {})
  BY NeedLeads
<1>2. Leads(<<Pop("x1")>>, {}, {"x1"})
  BY TakeLeads, Names DEF Pop
<1>3. Leads(<<Free("x1")>>, {"x1"}, {})
  BY FreeLeads
<1>4. Leads(<<num>>, {"x1"}, {"x1"})
  BY <1>3, FaultAfter, LeadsElse DEF Number, Allows
<1> HIDE DEF num
<1>5. Leads(<<Need("eval", 1), Pop("x1"), num, Free("x1")>>, {}, {})
  BY <1>1, <1>2, <1>3, <1>4, Leads4
<1> QED
  BY <1>5 DEF Leads, WithNumber, num

----------------------------------------------------------------------------
(* The cases.                                                              *)

(* The cases that move items on the stacks.                                *)
LEMMA StackHandles ==
  ASSUME NEW op \in StackOpcode
  PROVE  Handles(StackProgram(op), {})
<1>1. Handles(MakeValue, {})
  BY MakeLeads, LeadsToEnd DEF MakeValue
<1>2. /\ \A s, n : Leads(<<Need(s, n)>>, {}, {})
      /\ \A s, n : Leads(<<Take(s, n, "x1")>>, {}, {"x1"})
      /\ \A s, n : Leads(<<Take(s, n, "x2")>>, {}, {"x2"})
  BY NeedLeads, TakeLeads, Names
<1>3. /\ \A s, n : Leads(<<Peek(s, n, "x1")>>, {}, {})
      /\ \A s, n : Leads(<<Peek(s, n, "x2")>>, {}, {})
  BY PeekLeads, Names
<1>4. /\ \A s, n : Leads(<<Insert(s, n, "x1")>>, {"x1"}, {})
      /\ \A s, n : Leads(<<Insert(s, n, "x2")>>, {"x2"}, {})
      /\ \A s, n, r : Leads(<<Insert(s, n, r)>>, {}, {})
  BY InsertLeads
<1>5. Leads(<<Free("x1")>>, {"x1"}, {}) /\ Leads(<<Free("x2")>>, {"x2"}, {})
  BY FreeLeads
<1>6. /\ Handles(DupFromAltStack, {}) /\ Handles(ToAltStack, {})
      /\ Handles(FromAltStack, {})
  <2>1. Leads(DupFromAltStack, {}, {})
    BY <1>2, <1>3, <1>4, Leads3 DEF DupFromAltStack, Push
  <2>2. Leads(ToAltStack, {}, {})
    BY <1>2, <1>4, Leads3 DEF ToAltStack, Pop
  <2>3. Leads(FromAltStack, {}, {})
    BY <1>2, <1>4, Leads3 DEF FromAltStack, Push
  <2> QED
    BY <2>1, <2>2, <2>3, LeadsToEnd
<1>7. Handles(Dup, {}) /\ Handles(Nip, {}) /\ Handles(Over, {})
  <2>1. Leads(Dup, {}, {})
    BY <1>2, <1>3, <1>4, Leads3 DEF Dup, Push
  <2>2. Leads(Nip, {}, {})
    BY <1>2, <1>5, Leads3 DEF Nip
  <2>3. Leads(Over, {}, {})
    BY <1>2, <1>3, <1>4, Leads3 DEF Over, Push
  <2> QED
    BY <2>1, <2>2, <2>3, LeadsToEnd
<1>8. Handles(Rot, {}) /\ Handles(Swap, {}) /\ Handles(Tuck, {})
  <2>1. Leads(Rot, {}, {})
    BY <1>2, <1>4, Leads3 DEF Rot, Push
  <2>2. Leads(Swap, {}, {})
    BY <1>2, <1>4, Leads3 DEF Swap, Push
  <2>3. Leads(Tuck, {}, {})
    BY <1>2, <1>3, <1>4, Leads3 DEF Tuck
  <2> QED
    BY <2>1, <2>2, <2>3, LeadsToEnd
<1>9. Handles(XDrop, {}) /\ Handles(XTuck, {})
  <2>1. Handles(<<Take("eval", -1, "x2"), Free("x2")>>, {})
    BY <1>2, <1>5, Leads2, LeadsToEnd
  <2>2. Handles(<<Peek("eval", 0, "x2"), Insert("eval", -1, "x2")>>, {})
    BY <1>3, <1>4, Leads2, LeadsToEnd
  <2> QED
    BY <2>1, <2>2, WithNumberHandles DEF XDrop, XTuck
<1>10. Handles(Pick, {}) /\ Handles(Roll, {})
  <2>1. Handles(<<Peek("eval", -1, "x2"), Push("x2")>>, {})
    BY <1>3, <1>4, Leads2, LeadsToEnd DEF Push
  <2>2. Handles(<<Take("eval", -1, "x2"), Push("x2")>>, {})
    BY <1>2, <1>4, Leads2, LeadsToEnd DEF Push
  <2> QED
    BY <2>1, <2>2, WithNumberHandles DEF Pick, Roll
<1>11. Handles(XSwap, {})
  BY ExchangeHandles, WithNumberHandles DEF XSwap, Exchange
<1>12. Handles(Drop, {})
  <2>1. Leads(<<Unstack("x1")>>, {}, {}) /\ Leads(<<UnclaimAndFree("x1")>>, {}, {})
    BY UnstackLeads, ReleaseLeads, Names
  <2>2. Leads(Drop, {}, {})
    BY <2>1, <1>2, Leads3 DEF Drop
  <2> QED
    BY <2>2, LeadsToEnd
<1> QED
  BY <1>1, <1>6, <1>7, <1>8, <1>9, <1>10, <1>11, <1>12 DEF StackProgram, StackOpcode

(* Two operands are read, freed, and a value made of them.                 *)
LEMMA BinaryHandles ==
  ASSUME NEW free, Leads(<<free>>, {"x1", "x2"}, {})
  PROVE  Handles(Binary(free), {})
<1> DEFINE read == Read({"x1", "x2"}, <<free, Fault>>)
<1>1. Leads(<<read>>, {"x1", "x2"}, {"x1", "x2"})
  BY FaultAfter, LeadsElse DEF Read, Allows
<1> HIDE DEF read
<1>2. Leads(<<read, free>>, {"x1", "x2"}, {})
  BY <1>1, Leads2
<1>3. Leads(Pop2 \o <<read, free>>, {}, {})
  BY <1>2, PopsLead, LeadsOn
<1>4. Leads(MakeValue, {}, {})
  BY MakeLeads DEF MakeValue
<1>5. Leads((Pop2 \o <<read, free>>) \o MakeValue, {}, {})
  BY <1>3, <1>4, LeadsOn
<1> QED
  BY <1>5, LeadsToEnd DEF Binary, read

(* The cases that compute from one, two and three operands.                *)
LEMMA DataHandles ==
  ASSUME NEW op \in UnaryOpcode \cup ArithmeticOpcode \cup CompareOpcode
                      \cup HashOpcode \cup DataOpcode
  PROVE  Handles(DataProgram(op), {})
<1>1. Leads(MakeValue, {}, {})
  BY MakeLeads DEF MakeValue
<1>2. Leads(<<Pop("x1")>>, {}, {"x1"})
  BY TakeLeads, Names DEF Pop
<1>3. Leads(ReadAndFree("x1"), {"x1"}, {})
  BY ReadAndFreeLeads
<1>4. \A n : Leads(<<Need("eval", n), Pop("x1")>>, {}, {"x1"})
  <2> TAKE n
  <2>1. Leads(<<Need("eval", n)>>, {}, {})
    BY NeedLeads
  <2> QED
    BY <2>1, <1>2, Leads2
<1>5. Handles(Unary, {}) /\ Handles(Hash, {})
  <2>1. Leads(<<Need("eval", 1), Pop("x1")>> \o ReadAndFree("x1"), {}, {})
    BY <1>3, <1>4, LeadsOn
  <2>2. Leads(Unary, {}, {})
    BY <2>1, <1>1, LeadsOn DEF Unary
  <2> QED
    BY <2>2, LeadsToEnd DEF Hash
<1>6. /\ Leads(<<Free2("x2", "x1")>>, {"x1", "x2"}, {})
      /\ Leads(<<Free2("x1", "x2")>>, {"x1", "x2"}, {})
  BY Free2Leads
<1>7. Handles(Cat, {}) /\ Handles(Arithmetic, {}) /\ Handles(Shift, {})
  BY <1>6, BinaryHandles DEF Cat, Arithmetic, Shift
<1>8. Handles(AndOrXor, {}) /\ Handles(Compare, {}) /\ Handles(MinMax, {})
  BY <1>6, BinaryHandles DEF AndOrXor, Compare, MinMax
<1>9. Handles(Not, {})
  <2> DEFINE new == Create("Value", FALSE, "ret")
             push == IfMade("ret", <<Push("ret")>>)
  <2>1. Leads(<<new>>, {"x1"}, {"x1", "ret"})
    BY CreateLeads, Names
  <2>2. Leads(<<Free("x1")>>, {"x1", "ret"}, {"ret"})
    BY FreeLeads
  <2>3. Leads(<<push>>, {"ret"}, {})
    BY PushMade
  <2>4. Leads(<<Need("eval", 1)>>, {}, {})
    BY NeedLeads
  <2> HIDE DEF new, push
  <2>5. Leads(<<Need("eval", 1), Pop("x1"), new, Free("x1"), push>>, {}, {})
    BY <2>1, <2>2, <2>3, <2>4, <1>2, Leads5
  <2> QED
    BY <2>5, LeadsToEnd DEF Not, new, push
<1>10. Handles(Equal, {}) /\ Handles(BoolAndOr, {})
  <2> DEFINE new == Create("Value", FALSE, "ret")
             push == IfMade("ret", <<Push("ret")>>)
  <2>1. Leads(<<new>>, {"x1", "x2"}, {"x1", "x2", "ret"})
    BY CreateLeads, Names
  <2>2. Leads(<<Free2("x2", "x1")>>, {"x1", "x2", "ret"}, {"ret"})
    BY Free2Leads
  <2>3. Leads(<<push>>, {"ret"}, {})
    BY PushMade
  <2> HIDE DEF new, push
  <2>4. Leads(<<new, Free2("x2", "x1"), push>>, {"x1", "x2"}, {})
    BY <2>1, <2>2, <2>3, Leads3
  <2>5. Leads(Pop2 \o <<new, Free2("x2", "x1"), push>>, {}, {})
    BY <2>4, PopsLead, LeadsOn
  <2> QED
    BY <2>5, LeadsToEnd DEF Equal, BoolAndOr, new, push
<1>11. Handles(CheckSig, {})
  <2>1. Leads(Pop2 \o <<Free2("x2", "x1")>>, {}, {})
    BY <1>6, PopsLead, LeadsOn
  <2>2. Leads(CheckSig, {}, {})
    BY <2>1, <1>1, LeadsOn DEF CheckSig
  <2> QED
    BY <2>2, LeadsToEnd
<1>12. Handles(Substr, {}) /\ Handles(LeftRight, {})
  <2> DEFINE one(n) == <<Need("eval", n), Pop("x1")>> \o ReadAndFree("x1")
             two(n) == one(n) \o <<Pop("x1")>> \o ReadAndFree("x1")
             three(n) == two(n) \o <<Pop("x1")>> \o ReadAndFree("x1")
  <2>1. \A n : Leads(one(n), {}, {})
    BY <1>3, <1>4, LeadsOn
  <2> HIDE DEF one
  <2>2. \A n : Leads(one(n) \o <<Pop("x1")>>, {}, {"x1"})
    BY <2>1, <1>2, LeadsOn
  <2>3. \A n : Leads(two(n), {}, {})
    BY <2>2, <1>3, LeadsOn
  <2> HIDE DEF two
  <2>4. \A n : Leads(two(n) \o <<Pop("x1")>>, {}, {"x1"})
    BY <2>3, <1>2, LeadsOn
  <2>5. \A n : Leads(three(n), {}, {})
    BY <2>4, <1>3, LeadsOn
  <2> HIDE DEF three
  <2>6. Leads(three(3) \o MakeValue, {}, {}) /\ Leads(two(2) \o MakeValue, {}, {})
    BY <2>3, <2>5, <1>1, LeadsOn
  <2> QED
    BY <2>6, LeadsToEnd DEF Substr, LeftRight, one, two, three
<1> DEFINE free == Free3("x3", "x2", "x1")
           all == {"x1", "x2", "x3"}
<1>13. Leads(<<free>>, all, {}) /\ Leads(<<Free3("x1", "x3", "x2")>>, all, {})
  BY Free3Leads
<1> HIDE DEF free
<1>14. Handles(Within, {})
  <2> DEFINE read == Read({"x1", "x2", "x3"}, <<free, Fault>>)
  <2>1. Leads(<<read>>, all, all)
    BY <1>13, FaultAfter, LeadsElse DEF Read, Allows
  <2> HIDE DEF read
  <2>2. Leads(<<read, free>>, all, {})
    BY <2>1, <1>13, Leads2
  <2>3. Leads(Pop3 \o <<read, free>>, {}, {})
    BY <2>2, PopsLead, LeadsOn
  <2>4. Leads((Pop3 \o <<read, free>>) \o MakeValue, {}, {})
    BY <2>3, <1>1, LeadsOn
  <2> QED
    BY <2>4, LeadsToEnd DEF Within, read, free
<1>15. Handles(Verify, {})
  <2> DEFINE either == Choose(<< <<free>>, <<Free3("x1", "x3", "x2")>> >>)
  <2>1. Leads(<<either>>, all, {})
    BY <1>13, LeadsChoose
  <2> HIDE DEF either
  <2>2. Leads(Pop3 \o <<either>>, {}, {})
    BY <2>1, PopsLead, LeadsOn
  <2>3. Leads((Pop3 \o <<either>>) \o MakeValue, {}, {})
    BY <2>2, <1>1, LeadsOn
  <2> QED
    BY <2>3, LeadsToEnd DEF Verify, either, free
<1> QED
  BY <1>5, <1>7, <1>8, <1>9, <1>10, <1>11, <1>12, <1>14, <1>15
     DEF DataProgram, UnaryOpcode, ArithmeticOpcode, CompareOpcode, HashOpcode,
         DataOpcode

(* Items are taken from the stack and put in an array, one by one.         *)
LEMMA PackLoop ==
  Leads(<<Loop(<<Pop("value"), Add("ret", "value")>>)>>, {"ret"}, {"ret"})
<1> DEFINE body == <<Pop("value"), Add("ret", "value")>>
           s == Loop(body)
<1>1. ASSUME NEW q, Handles(q, {"ret"})
      PROVE  Handles(<<s>> \o q, {"ret"})
  <2> DEFINE p == <<s>> \o q
             first == body \o p
             second == <<Add("ret", "value")>> \o p
  <2>1. PICK G : Closed(G) /\ <<q, {"ret"}>> \in G
    BY <1>1 DEF Handles
  <2>2. Sequence(p) /\ p # << >> /\ Head(p) = s /\ Tail(p) = q
    BY <1>1, Unfold, SequenceParts
  <2>3. s.op = "loop" /\ s.body = body
    BY DEF Loop
  <2> HIDE DEF p, s
  <2>4. /\ Sequence(second) /\ second # << >> /\ Head(second) = Add("ret", "value")
        /\ Tail(second) = p
    BY <2>2, SequenceParts
  <2> HIDE DEF second
  <2>5. first = <<Pop("value")>> \o second
    <3>1. body = <<Pop("value")>> \o <<Add("ret", "value")>>
      BY TwoSteps
    <3>2. Sequence(<<Pop("value")>>) /\ Sequence(<<Add("ret", "value")>>)
      BY ShortSequences
    <3> QED
      BY <2>2, <3>1, <3>2, SequenceAssociative DEF second
  <2>6. /\ Sequence(first) /\ first # << >> /\ Head(first) = Pop("value")
        /\ Tail(first) = second
    BY <2>4, <2>5, SequenceParts
  <2>7. Goes(p, {"ret"}) = {<<first, {"ret"}>>, <<q, {"ret"}>>} /\ Allows(s, {"ret"})
    BY <2>2, <2>3 DEF Goes, Allows
  <2> HIDE DEF first
  <2>8. /\ Goes(first, {"ret"}) = {<<second, {"ret", "value"}>>}
        /\ Allows(Pop("value"), {"ret"})
    BY <2>6, Names DEF Goes, Leaves, Allows, Pop, Take
  <2>9. /\ Goes(second, {"ret", "value"}) = {<<p, {"ret"}>>}
        /\ Allows(Add("ret", "value"), {"ret", "value"})
    BY <2>4 DEF Goes, Leaves, Allows, Add
  <2> DEFINE J == G \cup {<<p, {"ret"}>>, <<first, {"ret"}>>,
                          <<second, {"ret", "value"}>>}
  <2>10. /\ G \subseteq J /\ <<p, {"ret"}>> \in J /\ <<first, {"ret"}>> \in J
         /\ <<second, {"ret", "value"}>> \in J /\ <<q, {"ret"}>> \in J
    BY <2>1
  <2>11. ASSUME NEW r, NEW R, <<r, R>> \in J
         PROVE  Handled(J, r, R)
    <3>1. CASE <<r, R>> \in G
      BY <2>1, <2>10, <3>1 DEF Closed, Handled
    <3>2. CASE <<r, R>> = <<p, {"ret"}>>
      <4>1. r = p /\ R = {"ret"}
        BY <3>2
      <4> QED
        BY <4>1, <2>2, <2>7, <2>10 DEF Handled
    <3>3. CASE <<r, R>> = <<first, {"ret"}>>
      <4>1. r = first /\ R = {"ret"}
        BY <3>3
      <4> QED
        BY <4>1, <2>6, <2>8, <2>10 DEF Handled
    <3>4. CASE <<r, R>> = <<second, {"ret", "value"}>>
      <4>1. r = second /\ R = {"ret", "value"}
        BY <3>4
      <4> QED
        BY <4>1, <2>4, <2>9, <2>10 DEF Handled
    <3> QED
      BY <2>11, <3>1, <3>2, <3>3, <3>4
  <2> HIDE DEF J
  <2>12. Handles(p, {"ret"})
    BY <2>10, <2>11 DEF Closed, Handles
  <2> QED
    BY <2>12 DEF p, s
<1> HIDE DEF s
<1>2. Leads(<<s>>, {"ret"}, {"ret"})
  BY <1>1, ShortSequences DEF Leads
<1> QED
  BY <1>2 DEF s

(* A piece that follows with or without a program before it.               *)
LEMMA LeadsIfThen ==
  ASSUME NEW r, NEW t, NEW P, NEW Q, NEW R, NEW S, NEW T,
         Leads(P, R, T), Leads(Q, T, S), Leads(Q, R, S)
  PROVE  Leads(<<If(r, t, P)>> \o Q, R, S)
<1> DEFINE s == If(r, t, P)
<1>1. Allows(s, R) /\ s.op = "if" /\ s.then = P
  BY DEF Allows, If
<1> HIDE DEF s
<1>2. Sequence(<<s>>) /\ Sequence(P) /\ Sequence(Q) /\ Sequence(<<s>> \o Q)
  BY ShortSequences, SequenceConcat DEF Leads
<1>3. ASSUME NEW q, Handles(q, S)
      PROVE  Handles((<<s>> \o Q) \o q, R)
  <2> DEFINE rest == Q \o q
             p == <<s>> \o rest
  <2>1. Handles(rest, R) /\ Handles(rest, T)
    BY <1>3 DEF Leads
  <2> HIDE DEF rest
  <2>2. Handles(P \o rest, R)
    BY <2>1 DEF Leads
  <2>3. Sequence(p) /\ p # << >> /\ Head(p) = s /\ Tail(p) = rest
    BY <2>1, Unfold, SequenceParts
  <2>4. Goes(p, R) = {<<P \o rest, R>>, <<rest, R>>}
    BY <2>3, <1>1 DEF Goes
  <2> HIDE DEF p
  <2>5. Handles(p, R)
    BY <2>1, <2>2, <2>3, <2>4, <1>1, Fold
  <2>6. (<<s>> \o Q) \o q = <<s>> \o (Q \o q)
    BY <1>2, <1>3, Unfold, SequenceAssociative
  <2> QED
    BY <2>5, <2>6 DEF p, rest
<1>4. Leads(<<s>> \o Q, R, S)
  BY <1>2, <1>3 DEF Leads
<1> QED
  BY <1>4 DEF s

(* A piece that follows the removal of a pair, which may have freed the    *)
(* operand as the key of the pair.                                         *)
LEMMA LeadsRemove ==
  ASSUME NEW m, NEW k, k = "key", NEW Q, NEW R, NEW S, "x1" \notin R, "x2" \notin R,
         Leads(Q, R, S), Leads(Q, R \ {k}, S)
  PROVE  Leads(<<MapRemove(m, k)>> \o Q, R, S)
<1> DEFINE s == MapRemove(m, k)
<1>1. Allows(s, R) /\ s.op = "mapRemove" /\ s.key = k
  BY DEF Allows, MapRemove
<1> HIDE DEF s
<1>2. Sequence(<<s>>) /\ Sequence(Q) /\ Sequence(<<s>> \o Q)
  BY ShortSequences, SequenceConcat DEF Leads
<1>3. ASSUME NEW q, Handles(q, S)
      PROVE  Handles((<<s>> \o Q) \o q, R)
  <2> DEFINE rest == Q \o q
             p == <<s>> \o rest
  <2>1. Handles(rest, R) /\ Handles(rest, R \ {k})
    BY <1>3 DEF Leads
  <2> HIDE DEF rest
  <2>3. Sequence(p) /\ p # << >> /\ Head(p) = s /\ Tail(p) = rest
    BY <2>1, Unfold, SequenceParts
  <2>4. Goes(p, R) = {<<rest, R>>, <<rest, R \ {k}>>}
    BY <2>3, <1>1 DEF Goes
  <2> HIDE DEF p
  <2>5. Handles(p, R)
    BY <2>1, <2>3, <2>4, <1>1, Fold
  <2>6. (<<s>> \o Q) \o q = <<s>> \o (Q \o q)
    BY <1>2, <1>3, Unfold, SequenceAssociative
  <2> QED
    BY <2>5, <2>6 DEF p, rest
<1>4. Leads(<<s>> \o Q, R, S)
  BY <1>2, <1>3 DEF Leads
<1> QED
  BY <1>4 DEF s

(* The cases that make, take apart and change arrays.                      *)
LEMMA ArrayHandles ==
  /\ Handles(ArraySize, {}) /\ Handles(Pack, {}) /\ Handles(Unpack, {})
  /\ Handles(NewArray, {}) /\ Handles(NewStruct, {}) /\ Handles(NewMap, {})
  /\ Handles(AppendItem, {}) /\ Handles(ReverseItems, {})
<1> DEFINE item == {"item"}
           number_(n) == Number("item", n, <<Free("item"), Fault>>)
<1>1. Leads(MakeValue, {}, {})
  BY MakeLeads DEF MakeValue
<1>2. \A n : Leads(<<Need("eval", n)>>, {}, {})
  BY NeedLeads
<1>3. Leads(<<Pop("item")>>, {}, item)
  BY TakeLeads, Names DEF Pop
<1>4. Leads(<<Free("item")>>, item, {})
  BY FreeLeads
<1>5. Leads(<<Free("item"), Fault>>, item, {})
  BY <1>4, FaultAfter
<1>6. \A n : Leads(<<number_(n)>>, item, item)
  BY <1>5, LeadsElse DEF Number, Allows
<1> HIDE DEF number_
<1>7. Handles(ArraySize, {})
  <2> DEFINE when == When("item", Container, <<Free("item")>> \o MakeValue)
  <2>1. Leads(<<Free("item")>> \o MakeValue, item, {})
    BY <1>1, <1>4, LeadsOn
  <2>2. Leads(<<when>>, item, item)
    BY <2>1, WhenLeads
  <2> HIDE DEF when
  <2>3. Leads(<<Need("eval", 1), Pop("item"), when>>, {}, item)
    BY <2>2, <1>2, <1>3, Leads3
  <2>4. Leads(ReadAndFree("item"), item, {})
    BY ReadAndFreeLeads
  <2>5. Leads(<<Need("eval", 1), Pop("item"), when>> \o ReadAndFree("item"), {}, {})
    BY <2>3, <2>4, LeadsOn
  <2>6. Leads(ArraySize, {}, {})
    BY <2>5, <1>1, LeadsOn DEF ArraySize, when
  <2> QED
    BY <2>6, LeadsToEnd
<1>8. Handles(Pack, {})
  <2> DEFINE new == Create("Array", FALSE, "ret")
             loop == Loop(<<Pop("value"), Add("ret", "value")>>)
             made == IfMade("ret", <<loop, Push("ret")>>)
  <2>1. Leads(<<new>>, {}, {"ret"})
    BY CreateLeads, Names
  <2>2. Leads(<<loop>>, {"ret"}, {"ret"})
    BY PackLoop
  <2>3. Leads(<<Push("ret")>>, {"ret"}, {})
    BY InsertLeads DEF Push
  <2> HIDE DEF new, loop
  <2>4. Leads(<<loop, Push("ret")>>, {"ret"}, {})
    BY <2>2, <2>3, Leads2
  <2>5. {"ret"} \ {"ret"} = {}
    OBVIOUS
  <2>6. Leads(<<made>>, {"ret"}, {})
    BY <2>4, <2>5, LeadsIfMade
  <2> HIDE DEF made
  <2>7. Leads(<<Need("eval", 1), Pop("item"), number_("count"), Free("item"), new,
                made>>, {}, {})
    BY <2>1, <2>6, <1>2, <1>3, <1>4, <1>6, Leads6
  <2>8. Pack = <<Need("eval", 1), Pop("item"), number_("count"), Free("item"), new,
                 made>>
    BY DEF Pack, number_, new, loop, made
  <2> QED
    BY <2>7, <2>8, LeadsToEnd
<1>9. Handles(Unpack, {})
  <2> DEFINE check == Check("item", {"Array"}, <<Free("item"), Fault>>)
  <2>1. Leads(<<check>>, item, item)
    BY <1>5, LeadsElse DEF Check, Allows
  <2>2. Leads(<<PushAll("item")>>, item, item)
    BY PushAllLeads
  <2> HIDE DEF check
  <2>3. Leads(<<Need("eval", 1), Pop("item"), check, PushAll("item"), Free("item")>>,
              {}, {})
    BY <2>1, <2>2, <1>2, <1>3, <1>4, Leads5
  <2>4. Leads(Unpack, {}, {})
    BY <2>3, <1>1, LeadsOn DEF Unpack, check
  <2> QED
    BY <2>4, LeadsToEnd
<1>10. \A t : Handles(NewContainer(t), {})
  <2> TAKE t
  <2>1. Leads(<<Need("eval", 1), Pop("item"), number_("size"), Free("item")>>, {}, {})
    BY <1>2, <1>3, <1>4, <1>6, Leads4
  <2>2. Leads(<<Need("eval", 1), Pop("item"), number_("size"), Free("item")>>
                \o Make(t, TRUE), {}, {})
    BY <2>1, MakeLeads, LeadsOn
  <2> QED
    BY <2>2, LeadsToEnd DEF NewContainer, number_
<1>11. Handles(NewMap, {})
  BY MakeLeads, LeadsToEnd DEF NewMap
<1>12. Handles(AppendItem, {})
  <2> DEFINE both == {"value", "item"}
             room == Room("item", <<Fault, Free("item")>>)
             list == <<room, Add("item", "value"), Free("item")>>
             when == When("item", List, list)
             copied == CopiedStruct("value")
  <2>1. Leads(<<Fault, Free("item")>>, both, {})
    <3>1. Leads(<<Fault>>, both, item)
      BY LeadsFault
    <3> QED
      BY <3>1, <1>4, Leads2
  <2>2. Leads(<<room>>, both, both)
    BY <2>1, LeadsElse DEF Room, Allows
  <2> HIDE DEF room
  <2>3. Leads(<<Add("item", "value")>>, both, item)
    BY AddLeads
  <2>4. Leads(list, both, {})
    BY <2>2, <2>3, <1>4, Leads3
  <2> HIDE DEF list
  <2>5. Leads(<<when>>, both, both)
    BY <2>4, WhenLeads
  <2>6. Leads(<<copied>>, {"value"}, {"value"})
    BY CopiedStructLeads
  <2>7. Leads(<<Pop("value")>>, {}, {"value"}) /\ Leads(<<Pop("item")>>, {"value"}, both)
    BY TakeLeads, Names DEF Pop
  <2>8. Leads(<<Free2("value", "item")>>, both, {}) /\ Leads(<<Fault>>, {}, {})
    BY Free2Leads, LeadsFault
  <2> HIDE DEF when, copied
  <2>9. Leads(<<Need("eval", 2), Pop("value"), copied, Pop("item"), when,
                Free2("value", "item"), Fault>>, {}, {})
    BY <2>5, <2>6, <2>7, <2>8, <1>2, Leads7
  <2>10. AppendItem = <<Need("eval", 2), Pop("value"), copied, Pop("item"), when,
                        Free2("value", "item"), Fault>>
    BY DEF AppendItem, copied, when, list, room
  <2> QED
    BY <2>9, <2>10, LeadsToEnd
<1>13. Handles(ReverseItems, {})
  <2> DEFINE check == Check("item", List, <<Free("item"), Fault>>)
  <2>1. Leads(<<check>>, item, item)
    BY <1>5, LeadsElse DEF Check, Allows
  <2>2. Leads(<<Reversed("item")>>, item, item)
    BY ReversedLeads
  <2> HIDE DEF check
  <2>3. Leads(<<Need("eval", 1), Pop("item"), check, Reversed("item"), Free("item")>>,
              {}, {})
    BY <2>1, <2>2, <1>2, <1>3, <1>4, Leads5
  <2> QED
    BY <2>3, LeadsToEnd DEF ReverseItems, check
<1> QED
  BY <1>7, <1>8, <1>9, <1>10, <1>11, <1>12, <1>13 DEF NewArray, NewStruct

(* The cases that work on an element or a pair.                            *)
LEMMA ElementHandles ==
  /\ Handles(PickItem, {}) /\ Handles(SetItem, {}) /\ Handles(RemoveItem, {})
  /\ Handles(HasKey, {})
<1> DEFINE both == {"key", "item"}
           fault == <<Free2("key", "item"), Fault>>
           key == PopKey(<<Free("key"), Fault>>)
           num == Number("key", "element", fault)
<1>1. Leads(<<Free2("key", "item")>>, both, {})
  BY Free2Leads
<1>2. Leads(fault, both, {})
  BY <1>1, FaultAfter
<1> HIDE DEF fault
<1>3. Leads(<<num>>, both, both)
  BY <1>2, LeadsElse DEF Number, Allows
<1> HIDE DEF num
<1>4. Leads(<<Need("eval", 2)>> \o key, {}, {"key"})
  <2>1. Leads(<<Free("key")>>, {"key"}, {}) /\ Leads(<<Need("eval", 2)>>, {}, {})
    BY FreeLeads, NeedLeads
  <2>2. Leads(<<Free("key"), Fault>>, {"key"}, {})
    BY <2>1, FaultAfter
  <2>3. Leads(key, {}, {"key"})
    BY <2>2, PopKeyLeads
  <2> QED
    BY <2>1, <2>3, LeadsOn
<1> HIDE DEF key
<1>5. Leads(<<Pop("item")>>, {"key"}, both)
  BY TakeLeads, Names DEF Pop
<1>6. ASSUME NEW list, NEW map, Leads(list, both, {}), Leads(map, both, {})
      PROVE  Handles(<<Need("eval", 2)>> \o key
                       \o <<Pop("item"), When("item", List, list),
                            When("item", {"Map"}, map)>> \o fault, {})
  <2> DEFINE rest == <<Pop("item"), When("item", List, list), When("item", {"Map"}, map)>>
             start == <<Need("eval", 2)>> \o key
  <2>1. /\ Leads(<<When("item", List, list)>>, both, both)
        /\ Leads(<<When("item", {"Map"}, map)>>, both, both)
    BY <1>6, WhenLeads
  <2>2. Leads(rest, {"key"}, both)
    BY <2>1, <1>5, Leads3
  <2>3. Leads(start, {}, {"key"})
    BY <1>4
  <2> HIDE DEF rest, start
  <2>4. Leads(start \o rest, {}, both)
    BY <2>2, <2>3, LeadsOn
  <2>5. Leads((start \o rest) \o fault, {}, {})
    BY <2>4, <1>2, LeadsOn
  <2> QED
    BY <2>5, LeadsToEnd DEF rest, start
<1>7. Handles(PickItem, {})
  <2> DEFINE push == <<CopiedStruct("value"), Push("value"), Free2("key", "item")>>
             after == <<Push("value"), Free2("key", "item")>>
             three == {"key", "item", "value"}
             get == MapGet("item", "key", "value", fault)
  <2>1. Leads(<<Push("value")>>, three, both) /\ Leads(<<Push("value")>>, both, both)
    BY InsertLeads DEF Push
  <2>2. Leads(after, three, {}) /\ Leads(after, both, {})
    BY <2>1, <1>1, Leads2
  <2>3. Leads(<<Clone("value"), Free("ret")>>, both, three)
    <3>1. Leads(<<Clone("value")>>, both, {"key", "item", "value", "ret"})
      BY CloneLeads, Names
    <3>2. Leads(<<Free("ret")>>, {"key", "item", "value", "ret"}, three)
      BY FreeLeads
    <3> QED
      BY <3>1, <3>2, Leads2
  <2> HIDE DEF after
  <2>4. Leads(<<CopiedStruct("value")>> \o after, both, {})
    BY <2>2, <2>3, LeadsIfThen DEF CopiedStruct
  <2>5. push = <<CopiedStruct("value")>> \o after
    BY ThreeSteps DEF after
  <2>6. Leads(push, both, {})
    BY <2>4, <2>5
  <2> HIDE DEF push
  <2>7. Leads(<<Get("item", "value")>>, both, both)
    BY GetLeads, Names
  <2>8. Leads(<<num, Get("item", "value")>>, both, both)
    BY <2>7, <1>3, Leads2
  <2>9. Leads(<<num, Get("item", "value")>> \o push, both, {})
    BY <2>6, <2>8, LeadsOn
  <2>10. Leads(<<get>>, both, both)
    BY <1>2, LeadsElse, Names DEF MapGet, Allows
  <2>11. Leads(<<get>> \o push, both, {})
    BY <2>6, <2>10, LeadsOn
  <2> DEFINE list == <<num, Get("item", "value")>> \o push
             map == <<get>> \o push
  <2>12. Leads(list, both, {}) /\ Leads(map, both, {})
    BY <2>9, <2>11
  <2>13. PickItem = <<Need("eval", 2)>> \o key
                       \o <<Pop("item"), When("item", List, list),
                            When("item", {"Map"}, map)>> \o fault
    BY DEF PickItem, key, num, fault, push
  <2> HIDE DEF list, map
  <2> QED
    BY <2>12, <2>13, <1>6
<1>8. Handles(RemoveItem, {})
  <2> DEFINE list == <<num, Erase("item"), Free2("key", "item")>>
             map == <<MapRemove("item", "key"), Free2("key", "item")>>
  <2>1. Leads(<<Erase("item")>>, both, both)
    BY EraseLeads
  <2>2. Leads(list, both, {})
    BY <2>1, <1>1, <1>3, Leads3
  <2>3. Leads(<<Free2("key", "item")>>, both \ {"key"}, {})
    BY Free2Leads
  <2>4. Leads(<<MapRemove("item", "key")>> \o <<Free2("key", "item")>>, both, {})
    BY <2>3, <1>1, LeadsRemove
  <2>5. Leads(map, both, {})
    BY <2>4, TwoSteps
  <2>6. RemoveItem = <<Need("eval", 2)>> \o key
                       \o <<Pop("item"), When("item", List, list),
                            When("item", {"Map"}, map)>> \o fault
    BY DEF RemoveItem, key, num, fault
  <2> HIDE DEF list, map
  <2> QED
    BY <2>2, <2>5, <2>6, <1>6
<1>9. Handles(HasKey, {})
  <2> DEFINE new == Create("Value", FALSE, "ret")
             push == IfMade("ret", <<Push("ret")>>)
             answer == <<new, Free2("key", "item"), push>>
             list == <<Read({"key"}, fault)>> \o answer
  <2>1. Leads(<<new>>, both, {"key", "item", "ret"})
    BY CreateLeads, Names
  <2>2. Leads(<<Free2("key", "item")>>, {"key", "item", "ret"}, {"ret"})
    BY Free2Leads
  <2>3. Leads(<<push>>, {"ret"}, {})
    BY PushMade
  <2> HIDE DEF new, push
  <2>4. Leads(answer, both, {})
    BY <2>1, <2>2, <2>3, Leads3
  <2> HIDE DEF answer
  <2>5. Leads(<<Read({"key"}, fault)>>, both, both)
    BY <1>2, LeadsElse DEF Read, Allows
  <2>6. Leads(list, both, {})
    BY <2>4, <2>5, LeadsOn
  <2>7. HasKey = <<Need("eval", 2)>> \o key
                       \o <<Pop("item"), When("item", List, list),
                            When("item", {"Map"}, answer)>> \o fault
    BY DEF HasKey, key, fault, answer, new, push
  <2> HIDE DEF list
  <2> QED
    BY <2>4, <2>6, <2>7, <1>6
<1>10. Handles(SetItem, {})
  <2> DEFINE three == {"key", "item", "value"}
             copied == CopiedStruct("value")
             numb == Number("key", "element", <<Free3("key", "item", "value"), Fault>>)
             list == <<numb, Set("item", "value"), Free2("key", "item")>>
             map == <<MapSet("item", "key", "value"), Free3("key", "value", "item")>>
             pop == <<Need("eval", 3), Pop("value"), copied>>
             keys == PopKey(<<Free2("key", "value"), Fault>>)
             rest == <<Pop("item"), When("item", List, list),
                       When("item", {"Map"}, map), Free3("key", "value", "item"),
                       Fault>>
  <2>1. /\ Leads(<<Free3("key", "item", "value")>>, three, {})
        /\ Leads(<<Free3("key", "value", "item")>>, three, {})
    BY Free3Leads
  <2>2. Leads(<<numb>>, three, three)
    BY <2>1, FaultAfter, LeadsElse DEF Number, Allows
  <2> HIDE DEF numb
  <2>3. /\ Leads(<<Set("item", "value")>>, three, both)
        /\ Leads(<<MapSet("item", "key", "value")>>, three, three)
    BY SetLeads, MapSetLeads
  <2>4. Leads(list, three, {})
    BY <2>2, <2>3, <1>1, Leads3
  <2>5. Leads(map, three, {})
    BY <2>1, <2>3, Leads2
  <2> HIDE DEF list, map
  <2>6. /\ Leads(<<When("item", List, list)>>, three, three)
        /\ Leads(<<When("item", {"Map"}, map)>>, three, three)
    BY <2>4, <2>5, WhenLeads
  <2>7. Leads(<<Pop("item")>>, {"key", "value"}, three)
    BY TakeLeads, Names DEF Pop
  <2>8. Leads(<<Fault>>, {}, {})
    BY LeadsFault
  <2>9. Leads(rest, {"key", "value"}, {})
    BY <2>1, <2>6, <2>7, <2>8, Leads5
  <2> HIDE DEF rest
  <2>10. Leads(<<copied>>, {"value"}, {"value"})
    BY CopiedStructLeads
  <2> HIDE DEF copied
  <2>11. Leads(<<Need("eval", 3)>>, {}, {}) /\ Leads(<<Pop("value")>>, {}, {"value"})
    BY NeedLeads, TakeLeads, Names DEF Pop
  <2>12. Leads(pop, {}, {"value"})
    BY <2>10, <2>11, Leads3
  <2> HIDE DEF pop
  <2>13. Leads(keys, {"value"}, {"key", "value"})
    <3>1. Leads(<<Free2("key", "value")>>, {"key", "value"}, {})
      BY Free2Leads
    <3> QED
      BY <3>1, FaultAfter, PopKeyLeads
  <2> HIDE DEF keys
  <2>14. Leads(pop \o keys, {}, {"key", "value"})
    BY <2>12, <2>13, LeadsOn
  <2>15. Leads((pop \o keys) \o rest, {}, {})
    BY <2>9, <2>14, LeadsOn
  <2> QED
    BY <2>15, LeadsToEnd DEF SetItem, pop, keys, rest, list, map, numb, copied
<1> QED
  BY <1>7, <1>8, <1>9, <1>10

(* KEYS and VALUES.                                                        *)
LEMMA MapHandles == Handles(Keys, {}) /\ Handles(Values, {})
<1> DEFINE item == {"item"}
<1>1. Leads(<<Free("item")>>, item, {}) /\ Leads(<<Fault>>, {}, {})
  BY FreeLeads, LeadsFault
<1>2. Leads(<<Need("eval", 1)>>, {}, {}) /\ Leads(<<Pop("item")>>, {}, item)
  BY NeedLeads, TakeLeads, Names DEF Pop
<1>3. \A part : Leads(<<When("item", {"Map"}, FilledArray(part))>>, item, item)
  <2> TAKE part
  <2> DEFINE new == Create("Array", FALSE, "ret")
             made == IfMade("ret", <<Fill("item", part, "ret"), Push("ret")>>)
             two == {"item", "ret"}
  <2>1. Leads(<<new>>, item, two)
    BY CreateLeads, Names
  <2>2. Leads(<<Fill("item", part, "ret")>>, two, two)
    BY FillLeads
  <2>3. Leads(<<Push("ret")>>, two, item) /\ two \ {"ret"} = item
    BY InsertLeads DEF Push
  <2>4. Leads(<<Fill("item", part, "ret"), Push("ret")>>, two, item)
    BY <2>2, <2>3, Leads2
  <2>5. Leads(<<made>>, two, item)
    BY <2>3, <2>4, LeadsIfMade
  <2> HIDE DEF new, made
  <2>6. Leads(<<new, made, Free("item")>>, item, {})
    BY <2>1, <2>5, <1>1, Leads3
  <2>7. FilledArray(part) = <<new, made, Free("item")>>
    BY DEF FilledArray, new, made
  <2>8. Leads(FilledArray(part), item, {})
    BY <2>6, <2>7
  <2> QED
    BY <2>8, WhenLeads
<1>4. Leads(<<When("item", List, <<Clone("item"), Push("item"), Free("ret")>>)>>, item, item)
  <2>1. Leads(<<Clone("item")>>, item, {"item", "ret"})
    BY CloneLeads, Names
  <2>2. Leads(<<Push("item")>>, {"item", "ret"}, {"ret"})
    BY InsertLeads DEF Push
  <2>3. Leads(<<Free("ret")>>, {"ret"}, {})
    BY FreeLeads
  <2> QED
    BY <2>1, <2>2, <2>3, Leads3, WhenLeads
<1>5. Leads(Keys, {}, {})
  <2> DEFINE when == When("item", {"Map"}, FilledArray("keys"))
  <2>1. Leads(<<when>>, item, item)
    BY <1>3
  <2> HIDE DEF when
  <2>2. Leads(<<Need("eval", 1), Pop("item"), when, Free("item"), Fault>>, {}, {})
    BY <2>1, <1>1, <1>2, Leads5
  <2> QED
    BY <2>2 DEF Keys, when
<1>6. Leads(Values, {}, {})
  <2> DEFINE list == When("item", List, <<Clone("item"), Push("item"), Free("ret")>>)
             map == When("item", {"Map"}, FilledArray("values"))
  <2>1. Leads(<<list>>, item, item) /\ Leads(<<map>>, item, item)
    BY <1>3, <1>4
  <2> HIDE DEF list, map
  <2>2. Leads(<<Need("eval", 1), Pop("item"), list, map, Free("item"), Fault>>, {}, {})
    BY <2>1, <1>1, <1>2, Leads6
  <2> QED
    BY <2>2 DEF Values, list, map
<1> QED
  BY <1>5, <1>6, LeadsToEnd

(* Every case frees or stores what it takes and makes, on every way it can *)
(* go without a fault.                                                     *)
LEMMA ProgramsHandle ==
  ASSUME NEW op \in Opcode, op # "CALL_ED"
  PROVE  Handles(Program(op), {})
<1>1. CASE op \in StackOpcode
  <2>1. Handles(StackProgram(op), {})
    BY <1>1, StackHandles
  <2>2. op \notin ContainerOpcode
    BY <1>1 DEF ContainerOpcode, StackOpcode
  <2>3. Program(op) = StackProgram(op)
    BY <2>2, <1>1 DEF Program
  <2> QED
    BY <2>1, <2>3
<1>2. CASE op \in ContainerOpcode
  <2>1. Handles(ContainerProgram(op), {})
    BY <1>2, ArrayHandles, ElementHandles, MapHandles
       DEF ContainerProgram, ContainerOpcode
  <2>2. op \notin StackOpcode
    BY <1>2 DEF ContainerOpcode, StackOpcode
  <2> QED
    BY <2>1, <2>2, <1>2 DEF Program
<1>3. CASE op \notin StackOpcode /\ op \notin ContainerOpcode
  <2>1. op \in UnaryOpcode \cup ArithmeticOpcode \cup CompareOpcode
                 \cup HashOpcode \cup DataOpcode
    BY <1>3 DEF Opcode
  <2>2. Handles(DataProgram(op), {})
    BY <2>1, DataHandles
  <2> QED
    BY <2>2, <1>3 DEF Program
<1> QED
  BY <1>1, <1>2, <1>3

----------------------------------------------------------------------------
(* Who will free an item without claims.                                   *)

CoversWith(h, dying, locals, R) ==
  \A i \in DOMAIN h :
    Held(h, i) = 0 => i \in Range(dying) \/ \E r \in R \cap Register : locals[r] = i

(* An item that nobody claims is about to be deleted, or has a register.   *)
Covers(R) == CoversWith(heap, doomed, reg, R)

(* What is left of XSWAP, after each of its last steps but two.            *)
Taking ==
  <<Take("eval", 0, "x2"), Insert("eval", 0, "x3"), Take("eval", -1, "x3"),
    Insert("eval", -1, "x2")>>

Putting ==
  <<Insert("eval", 0, "x3"), Take("eval", -1, "x3"), Insert("eval", -1, "x2")>>

Returning == <<Take("eval", -1, "x3"), Insert("eval", -1, "x2")>>

(* XSWAP at its last steps.  What the last register takes is in another    *)
(* place of the stack, or is the item that is put back.                    *)
Exchanging ==
  /\ doomed = << >>
  /\ \/ /\ todo = Taking /\ Covers({})
        /\ number < Len(stack.eval) /\ reg["x3"] = At("eval", number)
     \/ /\ todo = Putting /\ Covers({"x2"})
        /\ IF number = 0 THEN reg["x2"] = reg["x3"]
           ELSE number <= Len(stack.eval) /\ At("eval", number - 1) = reg["x3"]
     \/ /\ todo = Returning /\ Covers({"x2"})
        /\ number < Len(stack.eval) /\ At("eval", number) = reg["x3"]
        /\ IF number = 0 THEN reg["x2"] = reg["x3"] ELSE At("eval", 0) = reg["x3"]

(* What the case still handles has every item that nobody claims.          *)
Kept ==
  \/ misused \/ state = "FAULT" \/ Exchanging
  \/ \E R : Handles(todo, R) /\ Covers(R)

(* The same, of a program that has a first step.                           *)
Owes(R) ==
  /\ Sequence(todo) /\ CoversWith(heap, << >>, reg, R) /\ Allows(Step, R)
  /\ \A p, S : <<p, S>> \in Goes(todo, R) => Handles(p, S)

(* A step goes on with a program that frees what its registers have.       *)
LEMMA KeptBy ==
  ASSUME NEW R, NEW program, Handles(program, R), NEW dying, NEW locals, NEW n, NEW t,
         Go(dying, program, locals, n, t), CoversWith(heap', dying, locals, R)
  PROVE  Kept'
<1>1. doomed' = dying /\ todo' = program
  BY DEF Go
<1>2. Covers(R)'
  <2>1. CASE dying = << >> /\ program = << >>
    <3>1. R = {}
      BY <2>1, Unfold
    <3> QED
      BY <1>1, <3>1 DEF Covers, CoversWith
  <2>2. CASE ~(dying = << >> /\ program = << >>)
    <3>1. reg' = locals
      BY <2>2 DEF Go
    <3> QED
      BY <1>1, <3>1 DEF Covers
  <2> QED
    BY <2>1, <2>2
<1> QED
  BY <1>1, <1>2 DEF Kept

(* The steps of XSWAP.                                                     *)
LEMMA ExchangeSteps ==
  /\ Exchange # << >> /\ Head(Exchange) = Peek("eval", -1, "x3") /\ Tail(Exchange) = Taking
  /\ Taking # << >> /\ Head(Taking) = Take("eval", 0, "x2") /\ Tail(Taking) = Putting
  /\ Putting # << >> /\ Head(Putting) = Insert("eval", 0, "x3") /\ Tail(Putting) = Returning
  /\ Returning # << >> /\ Head(Returning) = Take("eval", -1, "x3")
  /\ Tail(Returning) = <<Insert("eval", -1, "x2")>>
<1> DEFINE a == Peek("eval", -1, "x3")
           b == Take("eval", 0, "x2")
           c == Insert("eval", 0, "x3")
           d == Take("eval", -1, "x3")
           e == Insert("eval", -1, "x2")
<1>1. /\ Exchange = <<a, b, c, d, e>> /\ Taking = <<b, c, d, e>>
      /\ Putting = <<c, d, e>> /\ Returning = <<d, e>>
  BY DEF Exchange, Taking, Putting, Returning
<1> HIDE DEF a, b, c, d, e
<1>2. Exchange = <<a>> \o Taking /\ Sequence(Taking)
  <2>1. <<a, b, c, d, e>> = <<a>> \o <<b, c, d, e>>
    BY FiveSteps
  <2>2. Sequence(<<b, c, d, e>>)
    BY FourSteps
  <2> QED
    BY <1>1, <2>1, <2>2
<1>3. Taking = <<b>> \o Putting /\ Sequence(Putting)
  <2>1. <<b, c, d, e>> = <<b>> \o <<c, d, e>>
    BY FourSteps
  <2>2. Sequence(<<c, d, e>>)
    BY ThreeSteps
  <2> QED
    BY <1>1, <2>1, <2>2
<1>4. Putting = <<c>> \o Returning /\ Sequence(Returning)
  BY <1>1, TwoSteps, ThreeSteps
<1>5. Returning = <<d>> \o <<e>> /\ Sequence(<<e>>)
  BY <1>1, TwoSteps, ShortSequences
<1>6. Exchange # << >> /\ Head(Exchange) = a /\ Tail(Exchange) = Taking
  BY <1>2, SequenceParts
<1>7. Taking # << >> /\ Head(Taking) = b /\ Tail(Taking) = Putting
  BY <1>3, SequenceParts
<1>8. Putting # << >> /\ Head(Putting) = c /\ Tail(Putting) = Returning
  BY <1>4, SequenceParts
<1>9. Returning # << >> /\ Head(Returning) = d /\ Tail(Returning) = <<e>>
  BY <1>5, SequenceParts
<1> QED
  BY <1>6, <1>7, <1>8, <1>9 DEF a, b, c, d, e

(* They move items on the stack.                                           *)
LEMMA ExchangeOps ==
  /\ Exchanging => todo # << >> /\ doomed = << >> /\ Step.op \in {"take", "insert"}
  /\ todo = Exchange => todo # << >> /\ Step.op = "peek"
BY ExchangeSteps DEF Exchanging, Step, Take, Insert, Peek

(* A step that is not one of XSWAP's last.                                 *)
LEMMA OwesUnlessExchanging ==
  ASSUME Kept, ~misused, state # "FAULT", todo # << >>, doomed = << >>, ~Exchanging
  PROVE  \/ \E R : Owes(R)
         \/ todo = Exchange /\ CoversWith(heap, << >>, reg, {})
<1>1. PICK R : Handles(todo, R) /\ Covers(R)
  BY DEF Kept
<1>2. CASE todo = Exchange /\ R = {}
  BY <1>1, <1>2 DEF Covers
<1>3. CASE ~(todo = Exchange /\ R = {})
  <2>1. Owes(R)
    BY <1>1, <1>3, Unfold DEF Owes, Covers, Step
  <2> QED
    BY <2>1
<1> QED
  BY <1>2, <1>3

(* The steps that XSWAP's end has not.                                     *)
LEMMA Owing ==
  ASSUME Kept, ~misused, state # "FAULT", todo # << >>, doomed = << >>,
         Step.op \notin {"peek", "take", "insert"}
  PROVE  \E R : Owes(R)
BY ExchangeOps, OwesUnlessExchanging

(* What most steps leave to be handled.                                    *)
LEMMA OwesRest ==
  ASSUME NEW R, Owes(R), todo # << >>,
         Step.op \notin {"fault", "choose", "if", "ifMade", "loop", "check", "room",
                         "read", "number", "mapGet", "mapRemove"}
  PROVE  Handles(Rest, Leaves(Step, R))
<1>1. Goes(todo, R) = {<<Rest, Leaves(Step, R)>>}
  BY DEF Goes, Step, Rest
<1>2. <<Rest, Leaves(Step, R)>> \in Goes(todo, R)
  BY <1>1
<1> HIDE DEF Owes
<1> QED
  BY <1>2 DEF Owes

(* No item has fewer claims than none, unless one is lost.                 *)
LEMMA ClaimsArePositive ==
  ASSUME Types, Sound, ~Lost, NEW v
  PROVE  Held(heap, v) \in Nat
<1>1. Balanced(Settled, Stacked) /\ Tidy
  BY DEF Sound
<1>2. HeapOK(heap) /\ DOMAIN heap = Live /\ Live \subseteq ItemId
  BY MemoryHeap DEF Types
<1>3. Stacked \in StackType
  <2>1. reg["x1"] \in ItemId =>
          [eval |-> Append(stack.eval, reg["x1"]), alt |-> stack.alt] \in StackType
    BY DEF StackType, Types, Memory
  <2>2. stack \in StackType
    BY DEF StackType, Types, Memory
  <2> QED
    BY <1>1, <2>1, <2>2 DEF Tidy, Stacked
<1>4. Storing => In \in DOMAIN heap /\ Pending \in Seq(ItemId)
  BY <1>1, <1>2, PendingType DEF Lost, Tidy
<1>5. Settled = Settle(heap) /\ HeapOK(Settle(heap)) /\ SameClaims(Settle(heap), heap)
  BY <1>2, <1>4, SettledHeap DEF Settled, Settle
<1>6. CASE v \notin ItemId
  BY <1>2, <1>6 DEF Held
<1>7. CASE v \in ItemId
  <2> DEFINE F == ViewOf(Settled, Stacked)
  <2>1. F \in Families(Spots, ItemId) /\ IsFiniteSet(Spots)
    BY <1>3, <1>5, ViewType
  <2>2. Held(Settled, v) = Total(F, v) /\ Held(Settled, v) = Held(heap, v)
    BY <1>1, <1>5, <1>7 DEF Balanced, Balances, SameClaims
  <2> HIDE DEF F
  <2>3. \E p : p \in Spots
    BY <1>7 DEF Spots
  <2>4. Total(F, v) \in Nat
    BY <2>1, <2>3, TotalSplit
  <2> QED
    BY <2>2, <2>4
<1> QED
  BY <1>6, <1>7

(* While nothing is deleted and the step is defined, nothing is lost.      *)
LEMMA NothingLost ==
  ASSUME Types, ~misused, todo # << >>, doomed = << >>, Defined
  PROVE  ~Lost
<1>1. Storing => In \in Live
  <2>1. Storing => Step.in \in Step.uses
    BY StoreStep DEF Storing
  <2> QED
    BY <2>1, UsedIsLive DEF In
<1>2. Range(doomed) = {}
  BY DEF Range
<1> QED
  BY <1>1, <1>2 DEF Lost

(* Each item that nobody claims when the step is done was one before, and  *)
(* what has it is still there; or it is deleted, or given a register.      *)
LEMMA KeptOn ==
  ASSUME NEW R, Owes(R), NEW program, NEW S, Handles(program, S),
         NEW dying, NEW locals, NEW n, NEW t, Go(dying, program, locals, n, t),
         \A v \in DOMAIN heap' : Held(heap', v) = 0 =>
           \/ v \in Range(dying) \/ \E q \in S \cap Register : locals[q] = v
           \/ /\ v \in Live /\ Held(heap, v) = 0
              /\ \A r \in R \cap Register : reg[r] = v =>
                   v \in Range(dying) \/ \E q \in S \cap Register : locals[q] = v
  PROVE  Kept'
<1>1. \A v \in Live : Held(heap, v) = 0 => \E r \in R \cap Register : reg[r] = v
  BY DEF Owes, CoversWith, Live, Range
<1>2. CoversWith(heap', dying, locals, S)
  BY <1>1 DEF CoversWith
<1> QED
  BY <1>2, KeptBy

(* A step that leaves the heap alone, and the registers that matter.       *)
LEMMA KeptSame ==
  ASSUME NEW R, Owes(R), NEW program, NEW S, Handles(program, S), NEW locals,
         NEW n, NEW t, Go(<< >>, program, locals, n, t), UNCHANGED heap,
         \A r \in R \cap Register : r \in S /\ locals[r] = reg[r]
  PROVE  Kept'
<1>1. \A v \in DOMAIN heap' : Held(heap', v) = 0 => v \in Live /\ Held(heap, v) = 0
  BY DEF Live
<1> QED
  BY <1>1, KeptOn

(* The same when it changes no register at all.                            *)
LEMMA KeptGoing ==
  ASSUME NEW R, Owes(R), NEW program, Handles(program, R), Continue(program),
         UNCHANGED heap
  PROVE  Kept'
BY KeptSame DEF Continue

(* The same when it assigns a register that holds nothing to be freed.     *)
LEMMA KeptAssigned ==
  ASSUME Types, NEW R, Owes(R), Handles(Rest, R), NEW i, Assigned(Step.to, i),
         Step.to \in Register \ R, UNCHANGED heap
  PROVE  Kept'
<1> DEFINE locals == [reg EXCEPT ![Step.to] = i]
<1>1. \A r \in R \cap Register : r \in R /\ locals[r] = reg[r]
  BY DEF Types, Flow, Locals
<1>2. Go(<< >>, Rest, locals, number, tangled)
  BY DEF Assigned
<1> HIDE DEF locals
<1> QED
  BY <1>1, <1>2, KeptSame

(* A case starts with nothing to free.                                     *)
LEMMA FetchKept ==
  ASSUME "CALL_ED" \notin Opcodes, Kept, Fetch
  PROVE  Kept'
<1>1. /\ doomed = << >> /\ todo = << >> /\ state = "NONE" /\ ~misused
      /\ UNCHANGED <<heap, doomed, reg>>
  BY DEF Fetch
<1>2. PICK R : Handles(todo, R) /\ Covers(R)
  BY <1>1, ExchangeOps DEF Kept
<1>3. R = {}
  BY <1>1, <1>2, Unfold
<1>4. Covers({})'
  BY <1>1, <1>2, <1>3 DEF Covers
<1>5. PICK op \in Opcodes : todo' = Program(op)
  BY DEF Fetch
<1>6. Handles(todo', {})
  BY <1>5, OpcodesAssumption, ProgramsHandle
<1> QED
  BY <1>4, <1>6 DEF Kept

(* From then on nothing is said.                                           *)
LEMMA UseAfterFreeKept ==
  ASSUME UseAfterFree
  PROVE  Kept'
BY DEF UseAfterFree, Kept

(* Each way a step can go is one the program provides for.                 *)
LEMMA ControlKept ==
  ASSUME Types, Kept, ~misused, state # "FAULT", Control
  PROVE  Kept'
<1>1. /\ todo # << >> /\ doomed = << >> /\ UNCHANGED heap
      /\ Step.op \in {"choose", "if", "ifMade", "check", "room", "loop", "assign",
                      "read", "number"}
  BY DEF Control, Does
<1>2. PICK R : Owes(R)
  BY <1>1, Owing
<1>3. \A p, S : <<p, S>> \in Goes(todo, R) => Handles(p, S)
  BY <1>2 DEF Owes
<1>4. CASE Step.op = "choose"
  <2>1. PICK n \in DOMAIN Step.from : Continue(Step.from[n] \o Rest)
    BY <1>4 DEF Control, Branch
  <2>2. Handles(Step.from[n] \o Rest, R)
    <3>1. <<Step.from[n] \o Rest, R>> \in Goes(todo, R)
      BY <1>4 DEF Goes, Step, Rest
    <3> QED
      BY <1>3, <3>1
  <2> QED
    BY <1>1, <1>2, <2>1, <2>2, KeptGoing
<1>5. CASE Step.op = "if"
  <2>1. Continue(Step.then \o Rest) \/ Continue(Rest)
    BY <1>5 DEF Control, Branch
  <2>2. Goes(todo, R) = {<<Step.then \o Rest, R>>, <<Rest, R>>}
    BY <1>5 DEF Goes, Step, Rest
  <2>3. Handles(Step.then \o Rest, R) /\ Handles(Rest, R)
    BY <1>3, <2>2
  <2> QED
    BY <1>1, <1>2, <2>1, <2>3, KeptGoing
<1>6. CASE Step.op = "ifMade"
  <2>1. Goes(todo, R) = {<<Step.then \o Rest, R>>, <<Rest, R \ {Step.item}>>}
    BY <1>6 DEF Goes, Step, Rest
  <2>2. Handles(Step.then \o Rest, R) /\ Handles(Rest, R \ {Step.item})
    BY <1>3, <2>1
  <2>3. CASE reg[Step.item] # Null
    <3>1. Continue(Step.then \o Rest)
      BY <1>6, <2>3 DEF Control, Branch
    <3> QED
      BY <1>1, <1>2, <2>2, <3>1, KeptGoing
  <2>4. CASE reg[Step.item] = Null
    <3>1. Go(<< >>, Rest, reg, number, tangled)
      BY <1>6, <2>4 DEF Control, Branch, Continue
    <3>2. \A v \in Live : v # Null
      BY LifetimeAssumption DEF Types, Memory, Null
    <3>3. \A v \in DOMAIN heap' : Held(heap', v) = 0 =>
            /\ v \in Live /\ Held(heap, v) = 0
            /\ \A r \in R \cap Register : reg[r] = v =>
                 \E q \in (R \ {Step.item}) \cap Register : reg[q] = v
      BY <1>1, <2>4, <3>2 DEF Live
    <3> QED
      BY <1>2, <2>2, <3>1, <3>3, KeptOn
  <2> QED
    BY <2>3, <2>4
<1>7. CASE Step.op \in {"check", "room", "read"}
  <2>1. Continue(Rest) \/ Continue(Step.otherwise)
    BY <1>7 DEF Control, Branch, ReadsValue
  <2>2. Goes(todo, R) = {<<Rest, R>>, <<Step.otherwise, R>>}
    BY <1>7 DEF Goes, Step, Rest
  <2>3. Handles(Rest, R) /\ Handles(Step.otherwise, R)
    BY <1>3, <2>2
  <2> QED
    BY <1>1, <1>2, <2>1, <2>3, KeptGoing
<1>8. CASE Step.op = "number"
  <2>1. \/ Continue(Step.otherwise)
        \/ \E n \in InRange(Step.range) : Go(<< >>, Rest, reg, n, tangled)
    BY <1>8 DEF Control, Branch, ReadsNumber
  <2>2. Goes(todo, R) = {<<Rest, R>>, <<Step.otherwise, R>>}
    BY <1>8 DEF Goes, Step, Rest
  <2>3. Handles(Rest, R) /\ Handles(Step.otherwise, R)
    BY <1>3, <2>2
  <2> QED
    BY <1>1, <1>2, <2>1, <2>3, KeptGoing, KeptSame
<1>9. CASE Step.op = "loop"
  <2>1. Continue(Rest) \/ Go(<< >>, Step.body \o todo, reg, number - 1, tangled)
    BY <1>9 DEF Control, Branch
  <2>2. Goes(todo, R) = {<<Step.body \o todo, R>>, <<Rest, R>>}
    BY <1>9 DEF Goes, Step, Rest
  <2>3. Handles(Rest, R) /\ Handles(Step.body \o todo, R)
    BY <1>3, <2>2
  <2> QED
    BY <1>1, <1>2, <2>1, <2>3, KeptGoing, KeptSame
<1>10. CASE Step.op = "assign"
  <2>1. Assigned(Step.to, reg[Step.item])
    BY <1>10 DEF Control, Branch
  <2>2. Handles(Rest, R) /\ Step.to \in Register \ R
    BY <1>1, <1>2, <1>10, OwesRest DEF Leaves, Owes, Allows
  <2> QED
    BY <1>1, <1>2, <2>1, <2>2, KeptAssigned
<1> QED
  BY <1>1, <1>4, <1>5, <1>6, <1>7, <1>8, <1>9, <1>10

(* A fault excuses the case, and a check of the stack that fails is one.   *)
LEMMA FaultKept ==
  ASSUME Kept, ~misused, state # "FAULT", SetFault \/ NeedItems
  PROVE  Kept'
<1>1. CASE state' = "FAULT"
  BY <1>1 DEF Kept
<1>2. CASE state' # "FAULT"
  <2>1. /\ todo # << >> /\ doomed = << >> /\ UNCHANGED heap
        /\ Step.op = "need" /\ Continue(Rest)
    BY <1>2 DEF SetFault, NeedItems, Does
  <2>2. PICK R : Owes(R)
    BY <2>1, Owing
  <2>3. Handles(Rest, R)
    BY <2>1, <2>2, OwesRest DEF Leaves
  <2> QED
    BY <2>1, <2>2, <2>3, KeptGoing
<1> QED
  BY <1>1, <1>2

----------------------------------------------------------------------------
(* StackItems.                                                             *)

(* One claim on an item is given up, and then something else happens.      *)
LEMMA UnClaimed ==
  ASSUME NEW h, HeapOK(h), NEW i \in DOMAIN h
  PROVE  /\ \A v \in DOMAIN UnClaim(h, i) :
              Held(UnClaim(h, i), v) = 0 => v = i \/ (v \in DOMAIN h /\ Held(h, v) = 0)
         /\ DOMAIN UnClaim(h, i) = DOMAIN h
<1>1. /\ DOMAIN UnClaim(h, i) = DOMAIN h
      /\ \A v : Held(UnClaim(h, i), v) = Held(h, v) - One(i, v)
  BY UnClaimHeap
<1>2. \A v : Held(h, v) \in Int
  BY HeldType
<1> QED
  BY <1>1, <1>2 DEF One

(* A claim is made on an item, and on no other.                            *)
LEMMA Claimed ==
  ASSUME NEW h, HeapOK(h), \A v : Held(h, v) \in Nat, NEW i \in DOMAIN h
  PROVE  /\ \A v \in DOMAIN ClaimAll(h, <<i>>) :
              Held(ClaimAll(h, <<i>>), v) = 0 =>
                v # i /\ v \in DOMAIN h /\ Held(h, v) = 0
         /\ DOMAIN ClaimAll(h, <<i>>) = DOMAIN h
<1>1. /\ DOMAIN ClaimAll(h, <<i>>) = DOMAIN h
      /\ \A v \in ItemId : Held(ClaimAll(h, <<i>>), v) = Held(h, v) + One(i, v)
      /\ DOMAIN h \subseteq ItemId
  BY ClaimOne DEF HeapOK
<1> QED
  BY <1>1 DEF One

(* What a stack has is claimed.                                            *)
LEMMA StackedIsClaimed ==
  ASSUME NEW h, HeapOK(h), NEW st \in StackType, Balanced(h, st), NEW k \in 1 .. Len(st.eval)
  PROVE  Held(h, st.eval[k]) > 0
<1> DEFINE F == ViewOf(h, st)
           v == st.eval[k]
<1>1. /\ F \in Families(Spots, ItemId) /\ IsFiniteSet(Spots) /\ 0 \in Spots /\ F[0] = st.eval
      /\ st.eval \in Seq(ItemId)
  BY ViewType DEF StackType
<1>2. v \in ItemId
  BY <1>1, ElementOfSeq
<1>3. Held(h, v) = Total(F, v)
  BY <1>2 DEF Balanced, Balances
<1>4. Count(st.eval, v) \in Nat /\ Count(st.eval, v) > 0
  BY <1>1, PresentCount
<1> HIDE DEF F, v
<1>5. /\ Cardinality(Others(F, 0, v)) \in Nat
      /\ Total(F, v) = Cardinality(Others(F, 0, v)) + Count(F[0], v)
  BY <1>1, TotalSplit
<1> QED
  BY <1>1, <1>3, <1>4, <1>5 DEF v

(* Pop and Remove leave the item to a register.                            *)
LEMMA TakeItemOwed ==
  ASSUME Types, NEW R, Owes(R), TakeItem
  PROVE  Kept'
<1> DEFINE s == Step.stack
           index == Index(Step.index)
           i == At(s, index)
           to == Step.to
           locals == [reg EXCEPT ![to] = i]
<1>1. /\ todo # << >> /\ Step.op = "take" /\ Defined /\ heap' = UnClaim(heap, i)
      /\ \E t : Go(<< >>, Rest, locals, number, t)
  BY DEF TakeItem, Does
<1>2. HeapOK(heap) /\ DOMAIN heap = Live /\ i \in Live
  BY <1>1, MemoryHeap DEF Types, Defined, Touched
<1>3. to \in Register \ R
  BY <1>1 DEF Owes, Allows
<1>4. Handles(Rest, R \cup {to})
  BY <1>1, OwesRest DEF Leaves
<1>5. locals[to] = i /\ \A r \in R \cap Register : locals[r] = reg[r]
  BY <1>3 DEF Types, Flow, Locals
<1> HIDE DEF s, index, i, to, locals
<1>6. \A v \in DOMAIN heap' :
        Held(heap', v) = 0 => v = i \/ (v \in Live /\ Held(heap, v) = 0)
  BY <1>1, <1>2, UnClaimed
<1>7. \A v \in DOMAIN heap' : Held(heap', v) = 0 =>
        \/ \E q \in (R \cup {to}) \cap Register : locals[q] = v
        \/ /\ v \in Live /\ Held(heap, v) = 0
           /\ \A r \in R \cap Register : reg[r] = v =>
                \E q \in (R \cup {to}) \cap Register : locals[q] = v
  BY <1>3, <1>5, <1>6
<1> QED
  BY <1>1, <1>4, <1>7, KeptOn

(* XSWAP takes the top: what it exchanges it with is one place higher.     *)
LEMMA TakingKept ==
  ASSUME Types, todo = Taking, Covers({}), number < Len(stack.eval),
         reg["x3"] = At("eval", number), TakeItem
  PROVE  Kept'
<1> DEFINE i == At("eval", 0)
           locals == [reg EXCEPT !["x2"] = i]
           e == stack.eval
           l == RemoveAt(e, Len(e))
<1>1. /\ Step = Take("eval", 0, "x2") /\ Rest = Putting /\ Rest # << >>
      /\ Step.stack = "eval" /\ Step.index = 0 /\ Step.to = "x2" /\ Step.op = "take"
  BY ExchangeSteps DEF Step, Rest, Take
<1>2. /\ doomed' = << >> /\ doomed = << >> /\ todo' = Putting /\ reg' = locals /\ number' = number
      /\ heap' = UnClaim(heap, i) /\ Defined
      /\ stack' = [stack EXCEPT !["eval"] = RemoveAt(@, Len(@) - 0)]
  <2>1. Index(Step.index) = 0
    BY <1>1 DEF Index
  <2>2. /\ Does({"take"}) /\ heap' = UnClaim(heap, i)
        /\ \E t : Go(<< >>, Rest, locals, number, t)
    BY <1>1, <2>1 DEF TakeItem
  <2>3. stack' = [stack EXCEPT !["eval"] = RemoveAt(@, Len(@) - 0)]
    BY <1>1, <2>1 DEF TakeItem
  <2> HIDE DEF i, locals
  <2> QED
    BY <1>1, <2>2, <2>3 DEF Does, Go
<1>3. /\ HeapOK(heap) /\ DOMAIN heap = Live /\ i \in Live /\ e \in Seq(ItemId)
      /\ stack \in StackType /\ reg \in Locals /\ number \in Nat
  <2>1. i \in Live
    BY <1>1, <1>2 DEF Defined, Touched, Index
  <2> QED
    BY <2>1, MemoryHeap DEF Types, Memory, Flow, StackType
<1>4. Len(e) \in Nat /\ number < Len(e)
  BY <1>3, LenProperties
<1>5. stack'.eval = l
  BY <1>2, <1>3, <1>4 DEF StackType
<1>6. Len(l) = Len(e) - 1 /\ \A k \in 1 .. (Len(e) - 1) : l[k] = e[k]
  <2>1. Len(e) \in 1 .. Len(e)
    BY <1>3, <1>4
  <2> HIDE DEF e
  <2> QED
    BY <1>3, <2>1, CountRemoveAt
<1>7. reg'["x2"] = i /\ reg'["x3"] = reg["x3"]
  BY <1>2, <1>3, Names DEF Locals
<1>8. Covers({"x2"})'
  <2>1. \A v \in DOMAIN heap' :
          Held(heap', v) = 0 => v = i \/ (v \in Live /\ Held(heap, v) = 0)
    BY <1>2, <1>3, UnClaimed
  <2>2. \A v \in Live : Held(heap, v) # 0
    BY <1>2 DEF Covers, CoversWith, Live, Range
  <2> QED
    BY <1>7, <2>1, <2>2, Names DEF Covers, CoversWith
<1>9. CASE number = 0
  BY <1>2, <1>7, <1>8, <1>9 DEF Kept, Exchanging
<1>10. CASE number # 0
  <2>1. At("eval", number)= e[Len(e) - number]
    BY DEF At
  <2>2. (At("eval", number - 1))' = l[Len(l) - (number - 1)]
    BY <1>2, <1>5 DEF At
  <2>3. Len(l) - (number - 1) = Len(e) - number /\ Len(e) - number \in 1 .. (Len(e) - 1)
    BY <1>3, <1>4, <1>6, <1>10
  <2>4. (At("eval", number - 1))' = reg'["x3"]
    BY <1>6, <1>7, <2>1, <2>2, <2>3
  <2>5. number' <= Len(stack'.eval)
    BY <1>2, <1>3, <1>4, <1>5, <1>6
  <2> QED
    BY <1>2, <1>8, <1>10, <2>4, <2>5 DEF Kept, Exchanging
<1> QED
  BY <1>9, <1>10

(* What the last step of XSWAP puts back is all there is to handle.        *)
LEMMA PutBackHandles == Handles(<<Insert("eval", -1, "x2")>>, {"x2"})
<1> DEFINE s == Insert("eval", -1, "x2")
           p == <<s>> \o << >>
<1>1. s.op = "insert" /\ s.item = "x2"
  BY DEF Insert
<1> HIDE DEF s
<1>2. Sequence(p) /\ p # << >> /\ Head(p) = s /\ Tail(p) = << >>
  BY ShortSequences, SequenceParts
<1>3. Sequence(<<s>>) /\ p = <<s>>
  BY ShortSequences, SequenceConcat
<1> HIDE DEF p
<1>4. Allows(Head(p), {"x2"})
  BY <1>1, <1>2 DEF Allows
<1>5. Goes(p, {"x2"}) = {<< << >>, {} >>}
  <2>1. Leaves(s, {"x2"}) = {}
    BY <1>1 DEF Leaves
  <2> QED
    BY <1>1, <1>2, <2>1 DEF Goes
<1>6. Handles(p, {"x2"})
  BY <1>2, <1>4, <1>5, EmptyHandles, FoldOne
<1> QED
  BY <1>3, <1>6 DEF s

(* XSWAP takes the other item.  The top is this item too, or it is put     *)
(* back in its own place.                                                  *)
LEMMA ReturningKept ==
  ASSUME "CALL_ED" \notin Opcodes, Types, Sound, ~misused, todo = Returning,
         Covers({"x2"}), number < Len(stack.eval), At("eval", number) = reg["x3"],
         IF number = 0 THEN reg["x2"] = reg["x3"] ELSE At("eval", 0) = reg["x3"],
         TakeItem
  PROVE  Kept'
<1> DEFINE i == At("eval", number)
           locals == [reg EXCEPT !["x3"] = i]
           e == stack.eval
           k == Len(e) - number
           l == RemoveAt(e, k)
<1>1. /\ Step = Take("eval", -1, "x3") /\ Rest = <<Insert("eval", -1, "x2")>> /\ todo # << >>
      /\ Step.stack = "eval" /\ Step.index = -1 /\ Step.to = "x3" /\ Step.op = "take"
  BY ExchangeSteps DEF Step, Rest, Take
<1>2. /\ doomed = << >> /\ heap' = UnClaim(heap, i) /\ Defined /\ UNCHANGED misused
      /\ stack' = [stack EXCEPT !["eval"] = l]
      /\ \E t : Go(<< >>, Rest, locals, number, t)
  <2>1. Index(Step.index) = number
    BY <1>1 DEF Index
  <2>2. /\ Does({"take"}) /\ heap' = UnClaim(heap, i)
        /\ \E t : Go(<< >>, Rest, locals, number, t)
    BY <1>1, <2>1 DEF TakeItem
  <2>3. stack' = [stack EXCEPT !["eval"] = RemoveAt(@, Len(@) - number)]
    BY <1>1, <2>1 DEF TakeItem
  <2>4. stack["eval"] = e
    OBVIOUS
  <2> HIDE DEF i, locals
  <2> QED
    BY <2>2, <2>3, <2>4 DEF Does
<1>3. /\ HeapOK(heap) /\ DOMAIN heap = Live /\ i \in Live /\ e \in Seq(ItemId)
      /\ stack \in StackType /\ reg \in Locals /\ number \in Nat
  <2>1. i \in Live
    BY <1>1, <1>2 DEF Defined, Touched, Index
  <2> QED
    BY <2>1, MemoryHeap DEF Types, Memory, Flow, StackType
<1>4. Len(e) \in Nat /\ k \in 1 .. Len(e)
  BY <1>3, LenProperties
<1>5. stack'.eval = l
  BY <1>2, <1>3 DEF StackType
<1>6. l \in Seq(ItemId) /\ Len(l) = Len(e) - 1 /\ \A x \in k .. Len(e) - 1 : l[x] = e[x + 1]
  <2> HIDE DEF e, k
  <2> QED
    BY <1>3, <1>4, CountRemoveAt
<1>7. locals["x2"] = reg["x2"]
  BY <1>3, Names DEF Locals
<1>8. Balanced(heap', stack') /\ HeapOK(heap') /\ stack' \in StackType
  <2>1. Sound' /\ Types' /\ Proceeds
    BY TakeItemSound, TakeItemTypes
  <2>2. Idle(todo')
    BY <2>1, WorkIsIdle DEF Proceeds
  <2>3. ~Storing' /\ todo' # Discarding
    BY <2>2, IdleThen
  <2>4. Balanced(heap', stack')
    BY <1>2, <2>1, <2>3 DEF Sound, Lost, Settled, Stacked
  <2> QED
    BY <2>1, <2>4 DEF Types, Memory, HeapOK, Live, StackType
<1>9. number # 0 => Held(heap', i) > 0
  <2> SUFFICES ASSUME number # 0
               PROVE  Held(heap', i) > 0
    OBVIOUS
  <2>1. Len(l) \in 1 .. Len(l) /\ Len(l) \in k .. Len(e) - 1 /\ Len(l) + 1 = Len(e)
    BY <1>3, <1>4, <1>6
  <2>2. l[Len(l)] = e[Len(e)]
    BY <1>6, <2>1
  <2>3. e[Len(e)] = i
    <3>1. At("eval", 0) = e[Len(e) - 0] /\ Len(e) - 0 = Len(e)
      BY <1>4 DEF At
    <3> QED
      BY <3>1
  <2> HIDE DEF l, i, e, k
  <2>4. Held(heap', stack'.eval[Len(l)]) > 0
    BY <1>5, <1>8, <2>1, StackedIsClaimed
  <2> QED
    BY <1>5, <2>2, <2>3, <2>4
<1>10. CoversWith(heap', << >>, locals, {"x2"})
  <2>1. \A v \in DOMAIN heap' :
          Held(heap', v) = 0 => v = i \/ (v \in Live /\ Held(heap, v) = 0)
    BY <1>2, <1>3, UnClaimed
  <2>2. \A v \in Live : Held(heap, v) = 0 => reg["x2"] = v
    BY <1>2 DEF Covers, CoversWith, Live, Range
  <2>3. number = 0 => reg["x2"] = i
    OBVIOUS
  <2> HIDE DEF i, locals
  <2>4. \A v \in DOMAIN heap' : Held(heap', v) = 0 => locals["x2"] = v
    BY <1>7, <1>9, <2>1, <2>2, <2>3
  <2> QED
    BY <2>4, Names DEF CoversWith
<1> HIDE DEF locals
<1> QED
  BY <1>1, <1>2, <1>10, PutBackHandles, KeptBy

(* An item is taken from a stack.                                          *)
LEMMA TakeItemKept ==
  ASSUME "CALL_ED" \notin Opcodes, Types, Sound, Kept, ~misused, state # "FAULT", TakeItem
  PROVE  Kept'
<1>1. todo # << >> /\ doomed = << >> /\ Step.op = "take"
  BY DEF TakeItem, Does
<1>2. CASE Exchanging
  <2>1. todo # Putting
    BY <1>1, ExchangeSteps DEF Step, Insert
  <2> QED
    BY <1>2, <2>1, TakingKept, ReturningKept DEF Exchanging
<1>3. CASE ~Exchanging
  <2>1. \E R : Owes(R)
    BY <1>1, <1>3, OwesUnlessExchanging, ExchangeOps
  <2> QED
    BY <2>1, TakeItemOwed
<1> QED
  BY <1>2, <1>3

(* DROP takes the item with its claim.                                     *)
LEMMA UnstackItemKept ==
  ASSUME Types, Kept, ~misused, state # "FAULT", UnstackItem
  PROVE  Kept'
<1>1. /\ todo # << >> /\ doomed = << >> /\ Step.op = "unstack" /\ UNCHANGED heap
      /\ Assigned(Step.to, At("eval", 0))
  BY DEF UnstackItem, Does
<1>2. PICK R : Owes(R)
  BY <1>1, Owing
<1>3. Handles(Rest, R) /\ Step.to \in Register \ R
  BY <1>1, <1>2, OwesRest DEF Leaves, Owes, Allows
<1> QED
  BY <1>1, <1>2, <1>3, KeptAssigned

(* Peek; that of XSWAP finds the place of the item it exchanges.           *)
LEMMA PeekItemKept ==
  ASSUME Types, Kept, ~misused, state # "FAULT", PeekItem
  PROVE  Kept'
<1>1. /\ todo # << >> /\ doomed = << >> /\ Step.op = "peek" /\ UNCHANGED <<heap, stack>>
      /\ Assigned(Step.to, At(Step.stack, Index(Step.index))) /\ Defined
  BY DEF PeekItem, Does
<1>2. (\E R : Owes(R)) \/ (todo = Exchange /\ CoversWith(heap, << >>, reg, {}))
  BY <1>1, ExchangeOps, OwesUnlessExchanging
<1>3. ASSUME NEW R, Owes(R)
      PROVE  Kept'
  <2>1. Handles(Rest, R) /\ Step.to \in Register \ R
    BY <1>1, <1>3, OwesRest DEF Leaves, Owes, Allows
  <2> QED
    BY <1>1, <1>3, <2>1, KeptAssigned
<1>4. CASE todo = Exchange /\ CoversWith(heap, << >>, reg, {})
  <2>1. /\ Step = Peek("eval", -1, "x3") /\ Rest = Taking /\ Rest # << >>
        /\ Step.stack = "eval" /\ Step.index = -1 /\ Step.to = "x3"
    BY <1>4, ExchangeSteps DEF Step, Rest, Peek
  <2>2. Index(Step.index) = number
    BY <2>1 DEF Index
  <2>3. Assigned("x3", At("eval", number))
    BY <1>1, <2>1, <2>2
  <2>4. /\ doomed' = << >> /\ todo' = Taking /\ number' = number
        /\ reg' = [reg EXCEPT !["x3"] = At("eval", number)]
    BY <2>1, <2>3 DEF Assigned, Go
  <2>5. reg'["x3"] = At("eval", number) /\ (At("eval", number))' = At("eval", number)
    BY <1>1, <2>4, Names DEF Types, Flow, Locals, At
  <2>6. number < Len(stack.eval)
    <3>1. number \in 0 .. (Len(stack["eval"]) - 1)
      BY <1>1, <2>1, <2>2 DEF Defined, InBounds
    <3>2. Len(stack.eval) \in Nat
      BY LenProperties DEF Types, Memory
    <3> QED
      BY <3>1, <3>2
  <2>7. Covers({})'
    BY <1>1, <1>4, <2>4 DEF Covers, CoversWith
  <2>8. (At("eval", number))' = reg'["x3"]
    BY <2>5
  <2> QED
    BY <1>1, <2>4, <2>6, <2>7, <2>8 DEF Kept, Exchanging
<1> QED
  BY <1>2, <1>3, <1>4

(* What is inserted on top.                                                *)
LEMMA InsertedOnTop ==
  ASSUME NEW S, NEW s \in Seq(S), NEW w \in S, NEW l, l = InsertAt(s, Len(s) + 1, w)
  PROVE  /\ Len(l) = Len(s) + 1 /\ l[Len(s) + 1] = w
         /\ \A k \in 1 .. Len(s) : l[k] = s[k]
<1> DEFINE a == SubSeq(s, 1, Len(s) + 1 - 1)
           b == SubSeq(s, Len(s) + 1, Len(s))
           c == <<w>>
           none == << >>
<1>1. Len(s) \in Nat /\ Len(s) + 1 - 1 = Len(s)
  BY LenProperties
<1>2. a = s
  <2>1. SubSeq(s, 1, Len(s)) = s
    OBVIOUS
  <2> QED
    BY <1>1, <2>1
<1>3. b = none
  BY <1>1
<1>4. none \in Seq(S) /\ Len(none) = 0 /\ c \in Seq(S) /\ Len(c) = 1 /\ c[1] = w
  OBVIOUS
<1>5. l = (a \o c) \o b
  BY DEF InsertAt
<1> HIDE DEF a, b, c, none
<1>6. l = s \o c
  <2>1. s \o c \in Seq(S)
    BY <1>4
  <2>2. (s \o c) \o none = s \o c
    BY <2>1 DEF none
  <2> QED
    BY <1>2, <1>3, <1>5, <2>2
<1>7. /\ Len(s \o c) = Len(s) + 1
      /\ \A k \in 1 .. Len(s) + 1 :
           (s \o c)[k] = IF k <= Len(s) THEN s[k] ELSE c[k - Len(s)]
  BY <1>4, ConcatProperties
<1> QED
  BY <1>1, <1>4, <1>6, <1>7

(* XSWAP puts the other item on top.                                       *)
LEMMA PuttingKept ==
  ASSUME Types, Sound, ~misused, todo = Putting, Covers({"x2"}),
         IF number = 0 THEN reg["x2"] = reg["x3"]
         ELSE number <= Len(stack.eval) /\ At("eval", number - 1) = reg["x3"],
         InsertItem
  PROVE  Kept'
<1> DEFINE i == reg["x3"]
           e == stack.eval
           l == InsertAt(e, Len(e) + 1, i)
<1>1. /\ Step = Insert("eval", 0, "x3") /\ Rest = Returning /\ todo # << >>
      /\ Rest # << >> /\ Step.stack = "eval" /\ Step.index = 0 /\ Step.item = "x3"
      /\ Step.op = "insert" /\ Step.uses = {"x3"}
  <2>1. /\ Step = Insert("eval", 0, "x3") /\ Rest = Returning
        /\ todo # << >> /\ Rest # << >>
    BY ExchangeSteps DEF Step, Rest
  <2> QED
    BY <2>1 DEF Insert
<1>2. /\ stack \in StackType /\ e \in Seq(ItemId) /\ Len(e) \in Nat /\ number \in Nat
      /\ HeapOK(heap) /\ DOMAIN heap = Live /\ Live \subseteq ItemId
  BY MemoryHeap, LenProperties DEF Types, Memory, Flow, StackType
<1>3. /\ doomed = << >> /\ doomed' = << >> /\ todo' = Returning /\ reg' = reg
      /\ number' = number /\ Defined /\ heap' = ClaimAll(heap, <<i>>)
      /\ stack' = [stack EXCEPT !["eval"] = l]
  <2>1. Index(Step.index) = 0 /\ Len(e) - 0 + 1 = Len(e) + 1 /\ stack["eval"] = e
    BY <1>1, <1>2 DEF Index
  <2>2. Does({"insert"}) /\ heap' = ClaimAll(heap, <<i>>) /\ Continue(Rest)
    BY <1>1 DEF InsertItem
  <2>3. stack' = [stack EXCEPT !["eval"] = InsertAt(@, Len(@) - 0 + 1, i)]
    BY <1>1, <2>1 DEF InsertItem
  <2>4. stack' = [stack EXCEPT !["eval"] = l]
    BY <2>1, <2>3
  <2> HIDE DEF i, e, l
  <2> QED
    BY <1>1, <2>2, <2>4 DEF Does, Continue, Go
<1>4. i \in Live /\ i \in ItemId
  BY <1>1, <1>2, <1>3, UsedIsLive
<1>5. stack'.eval = l
  BY <1>2, <1>3 DEF StackType
<1>6. /\ Len(l) = Len(e) + 1 /\ l[Len(e) + 1] = i
      /\ \A k \in 1 .. Len(e) : l[k] = e[k]
  <2> HIDE DEF i, e
  <2> QED
    BY <1>2, <1>4, InsertedOnTop
<1>7. Covers({"x2"})'
  <2>1. \A v : Held(heap, v) \in Nat
    BY <1>1, <1>3, NothingLost, ClaimsArePositive
  <2>2. \A v \in DOMAIN heap' : Held(heap', v) = 0 => v \in Live /\ Held(heap, v) = 0
    BY <1>2, <1>3, <1>4, <2>1, Claimed
  <2>3. \A v \in Live : Held(heap, v) = 0 => reg["x2"] = v
    BY <1>3 DEF Covers, CoversWith, Live, Range
  <2> QED
    BY <1>3, <2>2, <2>3, Names DEF Covers, CoversWith
<1>8. (At("eval", 0))' = reg'["x3"]
  <2>1. (At("eval", 0))' = l[Len(l) - 0] /\ Len(l) - 0 = Len(e) + 1
    BY <1>2, <1>5, <1>6 DEF At
  <2> QED
    BY <1>3, <1>6, <2>1
<1>9. CASE number = 0
  <2>1. (At("eval", number))' = reg'["x3"]
    BY <1>3, <1>8, <1>9
  <2>2. number' < Len(stack'.eval)
    BY <1>2, <1>3, <1>5, <1>6, <1>9
  <2> QED
    BY <1>3, <1>7, <1>9, <2>1, <2>2 DEF Kept, Exchanging
<1>10. CASE number # 0
  <2>1. (At("eval", number))' = l[Len(l) - number]
    BY <1>3, <1>5 DEF At
  <2>2. At("eval", number - 1) = e[Len(e) - (number - 1)]
    BY DEF At
  <2>3. Len(l) - number = Len(e) - (number - 1) /\ Len(l) - number \in 1 .. Len(e)
    BY <1>2, <1>6, <1>10
  <2>4. (At("eval", number))' = reg'["x3"]
    BY <1>3, <1>6, <1>10, <2>1, <2>2, <2>3
  <2>5. number' < Len(stack'.eval)
    BY <1>2, <1>3, <1>5, <1>6, <1>10
  <2> QED
    BY <1>3, <1>7, <1>8, <1>10, <2>4, <2>5 DEF Kept, Exchanging
<1> QED
  BY <1>9, <1>10

(* An item that a register has is claimed, and need not be freed.          *)
LEMMA KeptClaiming ==
  ASSUME NEW R, Owes(R), Handles(Rest, R \ {Step.item}), Continue(Rest),
         \A v \in DOMAIN heap' :
           Held(heap', v) = 0 => v # reg[Step.item] /\ v \in Live /\ Held(heap, v) = 0
  PROVE  Kept'
<1> DEFINE S == R \ {Step.item}
<1>1. Go(<< >>, Rest, reg, number, tangled)
  BY DEF Continue
<1>2. \A v \in DOMAIN heap' : Held(heap', v) = 0 =>
        /\ v \in Live /\ Held(heap, v) = 0
        /\ \A r \in R \cap Register : reg[r] = v =>
             \E q \in S \cap Register : reg[q] = v
  OBVIOUS
<1> QED
  BY <1>1, <1>2, KeptOn

(* Push and Insert store the item.                                         *)
LEMMA InsertItemKept ==
  ASSUME Types, Sound, Kept, ~misused, state # "FAULT", InsertItem
  PROVE  Kept'
<1>1. /\ todo # << >> /\ doomed = << >> /\ Step.op = "insert" /\ Defined
      /\ heap' = ClaimAll(heap, <<reg[Step.item]>>) /\ Continue(Rest)
  BY DEF InsertItem, Does
<1>2. CASE Exchanging
  <2>1. todo # Taking /\ todo # Returning
    BY <1>1, ExchangeSteps DEF Step, Take
  <2> QED
    BY <1>2, <2>1, PuttingKept DEF Exchanging
<1>3. CASE ~Exchanging
  <2>1. PICK R : Owes(R)
    BY <1>1, <1>3, OwesUnlessExchanging, ExchangeOps
  <2>2. Handles(Rest, R \ {Step.item})
    BY <1>1, <2>1, OwesRest DEF Leaves
  <2>3. reg[Step.item] \in Live
    BY <1>1, FirstStep, UsedIsLive DEF Types, Formed, Operands
  <2>4. HeapOK(heap) /\ DOMAIN heap = Live /\ \A v : Held(heap, v) \in Nat
    BY <1>1, NothingLost, ClaimsArePositive, MemoryHeap DEF Types
  <2>5. \A v \in DOMAIN heap' :
          Held(heap', v) = 0 => v # reg[Step.item] /\ v \in Live /\ Held(heap, v) = 0
    BY <1>1, <2>3, <2>4, Claimed
  <2> QED
    BY <1>1, <2>1, <2>2, <2>5, KeptClaiming
<1> QED
  BY <1>2, <1>3

(* UNPACK claims more.                                                     *)
LEMMA PushElementsKept ==
  ASSUME Types, Sound, Kept, ~misused, state # "FAULT", PushElements
  PROVE  Kept'
<1> DEFINE i == reg[Step.in]
           kids == heap[i].kids
<1>1. /\ todo # << >> /\ doomed = << >> /\ Step.op = "pushAll" /\ Defined
      /\ heap' = ClaimAll(heap, kids) /\ Continue(Rest)
  BY DEF PushElements, Does
<1>2. PICK R : Owes(R)
  BY <1>1, Owing
<1>3. Handles(Rest, R)
  BY <1>1, <1>2, OwesRest DEF Leaves
<1>4. i \in Live
  BY <1>1, FirstStep, UsedIsLive DEF Types, Formed, Operands
<1>5. /\ HeapOK(heap) /\ DOMAIN heap = Live /\ kids \in Seq(ItemId)
      /\ \A v : Held(heap, v) \in Nat
  BY <1>1, <1>4, NothingLost, ClaimsArePositive, MemoryHeap, ItemFields DEF Types
<1> HIDE DEF i, kids
<1>6. /\ DOMAIN heap' = Live
      /\ \A v \in Live : Held(heap', v) = Held(heap, v) + Count(kids, v)
  BY <1>1, <1>5, ClaimAllHeap
<1>7. \A v : Count(kids, v) \in Nat
  BY <1>5, CountType
<1>8. \A v \in DOMAIN heap' : Held(heap', v) = 0 => v \in Live /\ Held(heap, v) = 0
  <2> SUFFICES ASSUME NEW v \in Live, Held(heap', v) = 0
               PROVE  Held(heap, v) = 0
    BY <1>6
  <2> QED
    BY <1>5, <1>6, <1>7
<1>9. Go(<< >>, Rest, reg, number, tangled)
  BY <1>1 DEF Continue
<1> QED
  BY <1>2, <1>3, <1>8, <1>9, KeptOn

----------------------------------------------------------------------------
(* StackItemHelper, the destructors and the creators.                      *)

(* A program that first frees a register.                                  *)
LEMMA FreeFirst ==
  ASSUME NEW r, NEW p, NEW R, Handles(p, R \ {r})
  PROVE  Handles(<<Free(r)>> \o p, R)
<1> DEFINE s == Free(r)
           q == <<s>> \o p
<1>1. s.op = "free" /\ s.item = r
  BY DEF Free
<1> HIDE DEF s
<1>2. Sequence(q) /\ q # << >> /\ Head(q) = s /\ Tail(q) = p
  BY Unfold, SequenceParts
<1> HIDE DEF q
<1>3. Allows(Head(q), R)
  BY <1>1, <1>2 DEF Allows
<1>4. Goes(q, R) = {<<p, R \ {r}>>}
  BY <1>1, <1>2 DEF Goes, Leaves
<1>5. Handles(q, R)
  BY <1>2, <1>3, <1>4, FoldOne
<1> QED
  BY <1>5 DEF q, s

(* Free deletes an item that nobody claims.                                *)
LEMMA FreeOneKept ==
  ASSUME Types, Kept, ~misused, state # "FAULT", FreeOne
  PROVE  Kept'
<1> DEFINE x == Step.item
           a == reg[x]
           locals == [reg EXCEPT ![x] = Null]
<1>1. /\ todo # << >> /\ doomed = << >> /\ Step.op = "free" /\ UNCHANGED heap
      /\ IF Unclaimed(x) THEN Go(<<a>>, Rest, locals, number, tangled)
         ELSE Go(<< >>, Rest, reg, number, tangled)
  BY DEF FreeOne, Does, Continue
<1>2. PICK R : Owes(R)
  BY <1>1, Owing
<1>3. Handles(Rest, R \ {x})
  BY <1>1, <1>2, OwesRest DEF Leaves
<1>4. \A v \in DOMAIN heap' : v \in Live /\ Held(heap', v) = Held(heap, v)
  BY <1>1 DEF Live
<1>5. CASE Unclaimed(x)
  <2>1. a \in Range(<<a>>)
    BY DEF Range
  <2>2. \A r \in Register \ {x} : locals[r] = reg[r]
    BY DEF Types, Flow, Locals
  <2>3. \A r : reg[r] = a \/ r # x
    OBVIOUS
  <2> HIDE DEF x, a, locals
  <2>4. \A v \in DOMAIN heap' : Held(heap', v) = 0 =>
          /\ v \in Live /\ Held(heap, v) = 0
          /\ \A r \in R \cap Register : reg[r] = v =>
               v \in Range(<<a>>) \/ \E q \in (R \ {x}) \cap Register : locals[q] = v
    BY <1>4, <2>1, <2>2, <2>3
  <2>5. Go(<<a>>, Rest, locals, number, tangled)
    BY <1>1, <1>5
  <2> QED
    BY <1>2, <1>3, <2>4, <2>5, KeptOn
<1>6. CASE ~Unclaimed(x)
  <2>1. \A v \in Live : v # Null /\ Held(heap, v) = heap[v].claims
    BY LifetimeAssumption DEF Types, Memory, Null, Held, Live
  <2>2. \A v \in Live : Held(heap, v) = 0 => v # a
    BY <1>6, <2>1 DEF Unclaimed
  <2>3. \A r : reg[r] = a \/ r # x
    OBVIOUS
  <2> HIDE DEF x, a, locals
  <2>4. \A v \in DOMAIN heap' : Held(heap', v) = 0 =>
          /\ v \in Live /\ Held(heap, v) = 0
          /\ \A r \in R \cap Register : reg[r] = v =>
               \E q \in (R \ {x}) \cap Register : reg[q] = v
    BY <1>4, <2>2, <2>3
  <2>5. Go(<< >>, Rest, reg, number, tangled)
    BY <1>1, <1>6
  <2> QED
    BY <1>2, <1>3, <2>4, <2>5, KeptOn
<1> QED
  BY <1>5, <1>6

(* UnclaimAndFree deletes the item when nobody claims it any more.         *)
LEMMA ReleaseKept ==
  ASSUME Types, Kept, ~misused, state # "FAULT", Release
  PROVE  Kept'
<1> DEFINE i == reg[Step.item]
           dying == FreeIfUnClaimed(heap', i)
<1>1. /\ todo # << >> /\ doomed = << >> /\ Step.op = "release" /\ Defined
      /\ heap' = UnClaim(heap, i) /\ Go(dying, Rest, reg, number, tangled)
  BY DEF Release, Does, After
<1>2. PICK R : Owes(R)
  BY <1>1, Owing
<1>3. Handles(Rest, R)
  BY <1>1, <1>2, OwesRest DEF Leaves
<1>4. /\ HeapOK(heap) /\ DOMAIN heap = Live /\ i \in Live
  <2>1. todo = Discarding \/ "CALL_ED" \in Opcodes
    BY ReleaseTypes
  <2>2. Step.uses = {Step.item}
    <3>1. CASE todo = Discarding
      BY <3>1 DEF Discarding, UnclaimAndFree, Step
    <3>2. CASE todo # Discarding
      <4>1. todo \in Work
        <5>1. ~StoresNext(todo, reg)
          BY <1>1 DEF StoresNext, Stores, Store, MapStore, Step
        <5>2. todo \notin {Drop, Unstacking}
          BY <1>1 DEF Drop, Unstacking, Need, Unstack, Step
        <5> QED
          BY <3>2, <5>1, <5>2 DEF Types, Flow, Runs
      <4>2. Step \in Steps \cup CopySteps
        BY <1>1, <4>1, WorkStep
      <4>3. Step \notin CopySteps
        BY <1>1 DEF CopySteps, Copy
      <4> QED
        BY <1>1, <4>2, <4>3, StepsAreFormed DEF Formed, Operands
    <3> QED
      BY <3>1, <3>2
  <2> QED
    BY <1>1, <2>2, UsedIsLive, MemoryHeap DEF Types
<1> HIDE DEF i
<1>5. \A v \in DOMAIN heap' :
        Held(heap', v) = 0 => v \in Range(dying) \/ (v \in Live /\ Held(heap, v) = 0)
  <2>1. \A v \in DOMAIN heap' :
          Held(heap', v) = 0 => v = i \/ (v \in Live /\ Held(heap, v) = 0)
    BY <1>1, <1>4, UnClaimed
  <2>2. \A v \in DOMAIN heap' : Held(heap', v) = 0 /\ v = i => v \in Range(dying)
    <3>1. ASSUME i \in DOMAIN heap', Held(heap', i) = 0
          PROVE  i \in Range(dying)
      <4>1. dying = <<i>>
        BY <3>1 DEF FreeIfUnClaimed, Held
      <4> QED
        BY <4>1 DEF Range
    <3> QED
      BY <3>1
  <2> QED
    BY <2>1, <2>2
<1> HIDE DEF dying
<1>6. \A v \in DOMAIN heap' : Held(heap', v) = 0 =>
        \/ v \in Range(dying) \/ \E q \in R \cap Register : reg[q] = v
        \/ /\ v \in Live /\ Held(heap, v) = 0
           /\ \A r \in R \cap Register : reg[r] = v =>
                v \in Range(dying) \/ \E q \in R \cap Register : reg[q] = v
  BY <1>5
<1> QED
  BY <1>1, <1>2, <1>3, <1>6, KeptOn


(* Free of two variables: one item in both is deleted once.                *)
LEMMA FreeTwoKept ==
  ASSUME Types, Kept, ~misused, state # "FAULT", FreeTwo
  PROVE  Kept'
<1> DEFINE x == Step.item
           y == Step.other
           a == reg[x]
           second == <<Free(y)>>
           locals == [r \in Register |->
                        IF r \in {x, y} /\ reg[r] = a THEN Null ELSE reg[r]]
<1>1. /\ todo # << >> /\ doomed = << >> /\ Step.op = "free2" /\ UNCHANGED heap
      /\ IF Unclaimed(x)
         THEN Go(<<a>>, (IF reg[y] = a THEN << >> ELSE second) \o Rest, locals,
                 number, tangled)
         ELSE Go(<< >>, second \o Rest, reg, number, tangled)
  BY DEF FreeTwo, Does, Continue
<1>2. PICK R : Owes(R)
  BY <1>1, Owing
<1>3. Handles(Rest, R \ {x, y})
  BY <1>1, <1>2, OwesRest DEF Leaves
<1>4. Handles(second \o Rest, R \ {x})
  <2>1. (R \ {x}) \ {y} = R \ {x, y}
    OBVIOUS
  <2> QED
    BY <1>3, <2>1, FreeFirst
<1>5. \A v \in DOMAIN heap' : v \in Live /\ Held(heap', v) = Held(heap, v)
  BY <1>1 DEF Live
<1>6. \A r \in Register : reg[r] # a => locals[r] = reg[r] /\ r # x
  OBVIOUS
<1>7. a \in Range(<<a>>)
  BY DEF Range
<1>8. reg[y] = a => \A r \in Register : reg[r] # a => r # y
  OBVIOUS
<1>9. CASE Unclaimed(x) /\ reg[y] = a
  <2>1. << >> \o Rest = Rest
    BY <1>3, Unfold DEF Sequence
  <2>2. Go(<<a>>, Rest, locals, number, tangled)
    BY <1>1, <1>9, <2>1
  <2> HIDE DEF x, y, a, locals
  <2>3. \A v \in DOMAIN heap' : Held(heap', v) = 0 =>
          /\ v \in Live /\ Held(heap, v) = 0
          /\ \A r \in R \cap Register : reg[r] = v =>
               v \in Range(<<a>>) \/ \E q \in (R \ {x, y}) \cap Register : locals[q] = v
    BY <1>5, <1>6, <1>7, <1>8, <1>9
  <2> QED
    BY <1>2, <1>3, <2>2, <2>3, KeptOn
<1>10. CASE Unclaimed(x) /\ reg[y] # a
  <2>1. Go(<<a>>, second \o Rest, locals, number, tangled)
    BY <1>1, <1>10
  <2> HIDE DEF x, y, a, locals, second
  <2>2. \A v \in DOMAIN heap' : Held(heap', v) = 0 =>
          /\ v \in Live /\ Held(heap, v) = 0
          /\ \A r \in R \cap Register : reg[r] = v =>
               v \in Range(<<a>>) \/ \E q \in (R \ {x}) \cap Register : locals[q] = v
    BY <1>5, <1>6, <1>7
  <2> QED
    BY <1>2, <1>4, <2>1, <2>2, KeptOn
<1>11. CASE ~Unclaimed(x)
  <2>1. \A v \in Live : v # Null /\ Held(heap, v) = heap[v].claims
    BY LifetimeAssumption DEF Types, Memory, Null, Held, Live
  <2>2. \A v \in Live : Held(heap, v) = 0 => v # a
    BY <1>11, <2>1 DEF Unclaimed
  <2>3. Go(<< >>, second \o Rest, reg, number, tangled)
    BY <1>1, <1>11
  <2>4. \A r \in Register : reg[r] # a => r # x
    OBVIOUS
  <2> HIDE DEF x, y, a, locals, second
  <2>5. \A v \in DOMAIN heap' : Held(heap', v) = 0 =>
          /\ v \in Live /\ Held(heap, v) = 0
          /\ \A r \in R \cap Register : reg[r] = v =>
               \E q \in (R \ {x}) \cap Register : reg[q] = v
    BY <1>5, <2>2, <2>4
  <2> QED
    BY <1>2, <1>4, <2>3, <2>5, KeptOn
<1> QED
  BY <1>9, <1>10, <1>11

(* Free of three, of which some have the same item.                        *)
LEMMA FreeThreeKept ==
  ASSUME Types, Kept, ~misused, state # "FAULT", FreeThree
  PROVE  Kept'
<1> DEFINE a == Step.item
           b == Step.other
           c == Step.third

<1>1. /\ todo # << >> /\ doomed = << >> /\ Step.op = "free3" /\ UNCHANGED heap
  BY DEF FreeThree, Does
<1>2. PICK R : Owes(R)
  BY <1>1, Owing
<1> DEFINE S == R \ {a, b, c}
<1>3. Handles(Rest, S)
  BY <1>1, <1>2, OwesRest DEF Leaves
<1>4. a \in Register /\ b \in Register /\ c \in Register
  BY <1>1, FirstStep DEF Types, Formed, Operands
<1>5. \E p : /\ Continue(p \o Rest)
             /\ \/ p = <<Free(a)>> /\ reg[a] = reg[b] /\ reg[b] = reg[c]
                \/ p = <<Free(a), Free(c)>> /\ reg[a] = reg[b]
                \/ p = <<Free(b), Free(a)>> /\ reg[b] = reg[c]
                \/ p = <<Free(a), Free(b)>> /\ reg[a] = reg[c]
                \/ p = <<Free(a), Free(b), Free(c)>>
  BY DEF FreeThree
<1>6. ASSUME NEW p, Continue(p \o Rest), NEW F, F \subseteq {a, b, c},
             Handles(p \o Rest, S \cup F),
             \A r \in {a, b, c} : \E q \in F : reg[q] = reg[r]
      PROVE  Kept'
  <2> DEFINE U == S \cup F
             program == p \o Rest
  <2>1. Handles(program, U)
    BY <1>6
  <2>2. \A v \in DOMAIN heap' : Held(heap', v) = 0 => v \in Live /\ Held(heap, v) = 0
    BY <1>1 DEF Live
  <2>3. \A r \in R \cap Register : \E q \in U \cap Register : reg[q] = reg[r]
    BY <1>4, <1>6
  <2>4. Go(<< >>, program, reg, number, tangled)
    BY <1>6 DEF Continue
  <2> HIDE DEF program, U, S, a, b, c
  <2> QED
    BY <1>2, <2>1, <2>2, <2>3, <2>4, KeptOn
<1>7. \A r \in {a, b, c} : r \notin S
  OBVIOUS
<1> HIDE DEF a, b, c, S
<1>8. /\ Sequence(Rest)
      /\ \A r : Sequence(<<Free(r)>>)
      /\ \A r, s : Sequence(<<Free(r), Free(s)>>)
  BY <1>3, Unfold, ShortSequences, TwoSteps
<1>9. ASSUME NEW r \in {a, b, c}, NEW p, Handles(p, S)
      PROVE  Handles(<<Free(r)>> \o p, S \cup {r})
  <2>1. (S \cup {r}) \ {r} = S
    BY <1>7
  <2> QED
    BY <1>9, <2>1, FreeFirst
<1>10. ASSUME NEW r \in {a, b, c}, NEW s \in {a, b, c}
       PROVE  Handles(<<Free(r), Free(s)>> \o Rest, S \cup {r, s})
  <2>1. <<Free(r), Free(s)>> \o Rest = <<Free(r)>> \o (<<Free(s)>> \o Rest)
    BY <1>8, TwoSteps, SequenceAssociative
  <2>2. ((S \cup {r, s}) \ {r}) \ {s} = S
    BY <1>7
  <2>3. Handles(<<Free(s)>> \o Rest, (S \cup {r, s}) \ {r})
    BY <1>3, <2>2, FreeFirst
  <2> QED
    BY <2>1, <2>3, FreeFirst
<1>11. Handles(<<Free(a), Free(b), Free(c)>> \o Rest, S \cup {a, b, c})
  <2>1. <<Free(a), Free(b), Free(c)>> \o Rest = <<Free(a)>> \o (<<Free(b), Free(c)>> \o Rest)
    <3> DEFINE first == <<Free(a)>>
               others == <<Free(b), Free(c)>>
    <3>1. <<Free(a), Free(b), Free(c)>> = first \o others
      BY ThreeSteps
    <3>2. Sequence(first) /\ Sequence(others)
      BY <1>8
    <3> HIDE DEF first, others
    <3>3. (first \o others) \o Rest = first \o (others \o Rest)
      BY <1>8, <3>2, SequenceAssociative
    <3> QED
      BY <3>1, <3>3 DEF first, others
  <2>2. (S \cup {a, b, c}) \ {a} = S \cup {b, c} \/ (S \cup {a, b, c}) \ {a} = (S \cup {b, c}) \ {a}
    OBVIOUS
  <2>3. (((S \cup {a, b, c}) \ {a}) \ {b}) \ {c} = S
    BY <1>7
  <2>4. Handles(<<Free(c)>> \o Rest, ((S \cup {a, b, c}) \ {a}) \ {b})
    BY <1>3, <2>3, FreeFirst
  <2>5. Handles(<<Free(b)>> \o (<<Free(c)>> \o Rest), (S \cup {a, b, c}) \ {a})
    BY <2>4, FreeFirst
  <2>6. <<Free(b), Free(c)>> \o Rest = <<Free(b)>> \o (<<Free(c)>> \o Rest)
    BY <1>8, TwoSteps, SequenceAssociative
  <2> QED
    BY <2>1, <2>5, <2>6, FreeFirst
<1>12. PICK p : /\ Continue(p \o Rest)
                /\ \/ p = <<Free(a)>> /\ reg[a] = reg[b] /\ reg[b] = reg[c]
                   \/ p = <<Free(a), Free(c)>> /\ reg[a] = reg[b]
                   \/ p = <<Free(b), Free(a)>> /\ reg[b] = reg[c]
                   \/ p = <<Free(a), Free(b)>> /\ reg[a] = reg[c]
                   \/ p = <<Free(a), Free(b), Free(c)>>
  BY <1>5
<1>13. CASE p = <<Free(a)>> /\ reg[a] = reg[b] /\ reg[b] = reg[c]
  <2>1. Handles(p \o Rest, S \cup {a})
    BY <1>3, <1>9, <1>13
  <2> QED
    BY <1>6, <1>12, <1>13, <2>1
<1>14. CASE p = <<Free(a), Free(c)>> /\ reg[a] = reg[b]
  <2>1. Handles(p \o Rest, S \cup {a, c})
    BY <1>10, <1>14
  <2> QED
    BY <1>6, <1>12, <1>14, <2>1
<1>15. CASE p = <<Free(b), Free(a)>> /\ reg[b] = reg[c]
  <2>1. Handles(p \o Rest, S \cup {b, a})
    BY <1>10, <1>15
  <2> QED
    BY <1>6, <1>12, <1>15, <2>1
<1>16. CASE p = <<Free(a), Free(b)>> /\ reg[a] = reg[c]
  <2>1. Handles(p \o Rest, S \cup {a, b})
    BY <1>10, <1>16
  <2> QED
    BY <1>6, <1>12, <1>16, <2>1
<1>17. CASE p = <<Free(a), Free(b), Free(c)>>
  BY <1>6, <1>11, <1>12, <1>17
<1> QED
  BY <1>12, <1>13, <1>14, <1>15, <1>16, <1>17

(* A destructor gives up an element, which may be its last claim, or is    *)
(* through.                                                                *)
LEMMA DeleteItemKept ==
  ASSUME Types, Kept, ~misused, state # "FAULT", DeleteItem
  PROVE  Kept'
<1>1. PICK i \in Live : /\ doomed # << >> /\ i = Head(doomed)
                        /\ Deleted(i) \/ \E k : GivesUp(i, k)
  BY DeleteCases
<1>2. PICK R : Handles(todo, R) /\ Covers(R)
  BY <1>1, ExchangeOps DEF Kept
<1>3. todo' = todo /\ (todo # << >> => reg' = reg)
  BY DeleteKeeps
<1>4. todo = << >> => R = {}
  BY <1>2, Unfold
<1>5. HeapOK(heap) /\ DOMAIN heap = Live /\ doomed \in Seq(ItemId)
  BY MemoryHeap DEF Types, Flow
<1>6. \A v \in DOMAIN heap' : Held(heap', v) = 0 =>
        \/ v \in Range(doomed')
        \/ v \in Live /\ Held(heap, v) = 0 /\ (v \in Range(doomed) => v \in Range(doomed'))
  <2>1. CASE Deleted(i)
    <3>1. /\ DOMAIN heap' = DOMAIN heap \ {i} /\ AlikeBut(heap', heap, i)
      <4>1. heap' = [j \in DOMAIN heap \ {i} |-> heap[j]]
        BY <2>1 DEF Deleted
      <4> QED
        BY <1>5, <4>1, DeletedHeap
    <3>2. \A v \in Range(doomed) : v = i \/ v \in Range(doomed')
      BY <1>1, <1>5, <2>1, DoomHead DEF Deleted
    <3>3. \A v \in DOMAIN heap' : v \in Live /\ v # i /\ Held(heap', v) = Held(heap, v)
      BY <1>5, <3>1 DEF AlikeBut
    <3> QED
      BY <3>2, <3>3
  <2>2. CASE \E k : GivesUp(i, k)
    <3>1. PICK k : GivesUp(i, k)
      BY <2>2
    <3> DEFINE l == Tail(heap[i].kids)
               h == Holding(heap, i, l)
               dying == FreeIfUnClaimed(heap', k)
    <3>2. k \in Live /\ heap' = UnClaim(h, k) /\ doomed' = dying \o doomed
      BY <3>1 DEF GivesUp
    <3>3. l \in Seq(ItemId)
      BY <1>5, <3>1, ItemFields DEF GivesUp
    <3> HIDE DEF l
    <3>4. HeapOK(h) /\ DOMAIN h = Live /\ \A v : Held(h, v) = Held(heap, v)
      BY <1>5, <3>3, HoldingHeap
    <3> HIDE DEF h
    <3>5. /\ DOMAIN heap' = Live
          /\ \A v \in DOMAIN heap' :
               Held(heap', v) = 0 => v = k \/ (v \in Live /\ Held(heap, v) = 0)
      BY <3>2, <3>4, UnClaimed
    <3>6. dying \in Seq(ItemId) /\ (Held(heap', k) = 0 => k \in Range(dying))
      <4>1. k \in ItemId
        BY <1>5, <3>2 DEF HeapOK
      <4>2. dying \in Seq(ItemId)
        BY <4>1, FreeIfUnClaimedType
      <4>3. ASSUME Held(heap', k) = 0
            PROVE  k \in Range(dying)
        <5>1. dying = <<k>>
          BY <3>2, <3>5, <4>3 DEF FreeIfUnClaimed, Held
        <5> QED
          BY <5>1 DEF Range
      <4> QED
        BY <4>2, <4>3
    <3> HIDE DEF dying
    <3>7. \A v : v \in Range(dying) \/ v \in Range(doomed) => v \in Range(doomed')
      BY <1>5, <3>2, <3>6, RangeConcatenation
    <3> QED
      BY <3>5, <3>6, <3>7
  <2> QED
    BY <1>1, <2>1, <2>2
<1>7. Covers(R)'
  <2> SUFFICES ASSUME NEW v \in DOMAIN heap', Held(heap', v) = 0
               PROVE  v \in Range(doomed') \/ \E r \in R \cap Register : reg'[r] = v
    BY DEF Covers, CoversWith
  <2>1. CASE v \in Range(doomed')
    BY <2>1
  <2>2. CASE v \in Live /\ Held(heap, v) = 0 /\ (v \in Range(doomed) => v \in Range(doomed'))
    <3>1. v \in Range(doomed) \/ \E r \in R \cap Register : reg[r] = v
      BY <1>2, <2>2 DEF Covers, CoversWith, Live
    <3> QED
      BY <1>3, <1>4, <2>2, <3>1
  <2> QED
    BY <1>6, <2>1, <2>2
<1> QED
  BY <1>2, <1>3, <1>7 DEF Kept

(* What the creators make has a register, its elements are claimed.        *)
LEMMA CreateItemKept ==
  ASSUME Types, Sound, Kept, ~misused, state # "FAULT", CreateItem
  PROVE  Kept'
<1>1. /\ todo # << >> /\ doomed = << >> /\ Step.op = "create" /\ Defined
  BY DEF CreateItem, Does
<1>2. Creation /\ Step.type \in Type
  BY CreateItemTypes
<1>3. PICK R : Owes(R)
  BY <1>1, Owing
<1>4. Handles(Rest, R \cup {Step.to}) /\ Step.to \in Register \ R
  BY <1>1, <1>3, OwesRest DEF Leaves, Owes, Allows
<1>5. CASE state' = "FAULT"
  BY <1>5 DEF Kept
<1>6. ASSUME NEW m \in Nat, NEW new, NewIds(m + 1, new, ItemId \ Live),
             heap' = Made(heap, Step.type, new), Assigned(Step.to, new[1])
      PROVE  Kept'
  <2> DEFINE t == Step.type
             to == Step.to
             i == new[1]
             locals == [reg EXCEPT ![to] = i]
  <2>1. HeapOK(heap) /\ DOMAIN heap = Live /\ \A v : Held(heap, v) \in Nat
    BY <1>1, NothingLost, ClaimsArePositive, MemoryHeap DEF Types
  <2>2. NewIds(m + 1, new, ItemId \ DOMAIN heap) /\ t \in Type
    BY <1>2, <1>6, <2>1
  <2>3. Go(<< >>, Rest, locals, number, tangled)
    BY <1>6 DEF Assigned
  <2>4. locals[to] = i /\ \A r \in Register \ {to} : locals[r] = reg[r]
    BY <1>4 DEF Types, Flow, Locals
  <2>5. heap' = Made(heap, t, new)
    BY <1>6
  <2>6. to \in Register \ R /\ Handles(Rest, R \cup {to})
    BY <1>4
  <2> HIDE DEF t, to, locals
  <2>7. DOMAIN heap' = Live \cup Range(new) /\ Tail(new) \in Seq(ItemId)
    BY <2>1, <2>2, <2>5, MadeHeap
  <2>8. \A v : Held(heap', v) = Held(heap, v) + Count(Tail(new), v)
    <3>1. \A v : Held(Made(heap, t, new), v) = Held(heap, v) + Count(Tail(new), v)
      BY <2>1, <2>2, MadeHeap
    <3> QED
      BY <2>5, <3>1
  <2>9. ASSUME NEW v \in DOMAIN heap', Held(heap', v) = 0
        PROVE  v = i \/ (v \in Live /\ Held(heap, v) = 0)
    <3>1. Count(Tail(new), v) \in Nat /\ Held(heap, v) \in Nat
      BY <2>1, <2>7, CountType
    <3>2. Held(heap, v) = 0 /\ Count(Tail(new), v) = 0
      BY <2>8, <2>9, <3>1
    <3>3. CASE v \in Live
      BY <3>2, <3>3
    <3>4. CASE v \in Range(new) /\ v # i
      <4>1. new \in Seq(ItemId) /\ Len(new) = m + 1 /\ new # << >>
        BY <1>6 DEF NewIds
      <4>2. PICK k \in 1 .. (m + 1) : new[k] = v
        BY <1>6, <3>4 DEF NewIds, Range
      <4>3. k - 1 \in 1 .. Len(Tail(new)) /\ Tail(new)[k - 1] = v
        BY <3>4, <4>1, <4>2
      <4>4. Count(Tail(new), v) > 0
        BY <2>7, <4>3, PresentCount
      <4> QED
        BY <3>2, <4>4
    <3> QED
      BY <2>7, <3>3, <3>4
  <2> HIDE DEF i
  <2>10. \A v \in DOMAIN heap' : Held(heap', v) = 0 =>
           \/ \E q \in (R \cup {to}) \cap Register : locals[q] = v
           \/ /\ v \in Live /\ Held(heap, v) = 0
              /\ \A r \in R \cap Register : reg[r] = v =>
                   \E q \in (R \cup {to}) \cap Register : locals[q] = v
    BY <2>4, <2>6, <2>9
  <2> QED
    BY <1>3, <2>3, <2>6, <2>10, KeptOn
<1> QED
  BY <1>2, <1>5, <1>6 DEF Creation

----------------------------------------------------------------------------
(* The operations on the elements of an item.                              *)

(* An item gives up one claim, and is deleted if that was the last.        *)
LEMMA KeptGivenUp ==
  ASSUME NEW R, Owes(R), NEW program, NEW S, Handles(program, S),
         NEW k \in DOMAIN heap', After(FreeIfUnClaimed(heap', k), program),
         \A v \in DOMAIN heap' : Held(heap', v) = 0 =>
           \/ v = k
           \/ /\ v \in Live /\ Held(heap, v) = 0
              /\ \A r \in R \cap Register : reg[r] = v => r \in S
  PROVE  Kept'
<1> DEFINE dying == FreeIfUnClaimed(heap', k)
<1>1. Held(heap', k) = 0 => k \in Range(dying)
  <2> SUFFICES ASSUME Held(heap', k) = 0
               PROVE  k \in Range(dying)
    OBVIOUS
  <2>1. dying = <<k>>
    BY DEF FreeIfUnClaimed, Held
  <2> QED
    BY <2>1 DEF Range
<1>2. Go(dying, program, reg, number, tangled)
  BY DEF After
<1> HIDE DEF dying
<1>3. \A v \in DOMAIN heap' : Held(heap', v) = 0 =>
        \/ v \in Range(dying) \/ \E q \in S \cap Register : reg[q] = v
        \/ /\ v \in Live /\ Held(heap, v) = 0
           /\ \A r \in R \cap Register : reg[r] = v =>
                v \in Range(dying) \/ \E q \in S \cap Register : reg[q] = v
  BY <1>1
<1> QED
  BY <1>2, <1>3, KeptOn

(* What a list has that is not about to be changed is claimed.             *)
LEMMA ElementsAreLive ==
  ASSUME Types, Sound, ~misused, todo # << >>, doomed = << >>, Defined,
         Step.op \in {"get", "set", "erase", "mapSet", "mapRemove"},
         NEW n \in 1 .. Len(Elements)
  PROVE  Elements[n] \in Live /\ Elements[n] \in ItemId
<1>1. Idle(todo)
  BY DEF Idle, Step
<1>2. /\ In \in Live /\ Elements \in Seq(ItemId) /\ HeapOK(heap) /\ DOMAIN heap = Live
      /\ Live \subseteq ItemId /\ Elems(heap, In) = Elements /\ stack \in StackType
  BY ListStep DEF Types, Memory, StackType
<1>3. Balanced(heap, stack)
  BY <1>1, SoundNow
<1>4. n \in 1 .. Len(Elems(heap, In)) /\ In \in ItemId
  BY <1>2
<1> QED
  BY <1>2, <1>3, <1>4, ElementIsLive

(* Get gives a register an element.                                        *)
LEMMA GetElementKept ==
  ASSUME Types, Kept, ~misused, state # "FAULT", GetElement
  PROVE  Kept'
<1>1. /\ todo # << >> /\ doomed = << >> /\ Step.op = "get" /\ UNCHANGED heap
      /\ Assigned(Step.to, Elements[number + 1])
  BY DEF GetElement, Does
<1>2. PICK R : Owes(R)
  BY <1>1, Owing
<1>3. Handles(Rest, R) /\ Step.to \in Register \ R
  BY <1>1, <1>2, OwesRest DEF Leaves, Owes, Allows
<1> QED
  BY <1>1, <1>2, <1>3, KeptAssigned

(* Add stores the item.                                                    *)
LEMMA AddElementKept ==
  ASSUME Types, Sound, Kept, ~misused, state # "FAULT", AddElement
  PROVE  Kept'
<1> DEFINE i == reg[Step.item]
           l == Append(Elements, i)
           h == Holding(heap, In, l)
<1>1. /\ todo # << >> /\ doomed = << >> /\ Step.op = "add" /\ Defined
      /\ heap' = ClaimAll(h, <<i>>) /\ Continue(Rest)
  BY DEF AddElement, Does
<1>2. PICK R : Owes(R)
  BY <1>1, Owing
<1>3. Handles(Rest, R \ {Step.item})
  BY <1>1, <1>2, OwesRest DEF Leaves
<1>4. i \in Live
  BY <1>1, FirstStep, UsedIsLive DEF Types, Formed, Operands
<1>5. /\ HeapOK(heap) /\ DOMAIN heap = Live /\ \A v : Held(heap, v) \in Nat
      /\ In \in Live /\ Elements \in Seq(ItemId) /\ Live \subseteq ItemId
  BY <1>1, NothingLost, ClaimsArePositive, ListStep
<1>6. l \in Seq(ItemId)
  BY <1>4, <1>5
<1> HIDE DEF i, l
<1>7. HeapOK(h) /\ DOMAIN h = Live /\ \A v : Held(h, v) = Held(heap, v)
  BY <1>5, <1>6, HoldingHeap
<1> HIDE DEF h
<1>8. \A v \in DOMAIN heap' : Held(heap', v) = 0 => v # i /\ v \in Live /\ Held(heap, v) = 0
  BY <1>1, <1>4, <1>5, <1>7, Claimed
<1> QED
  BY <1>1, <1>2, <1>3, <1>8, KeptClaiming DEF i

(* Set claims the new element and gives up the old one, which may be the   *)
(* same.                                                                   *)
LEMMA SetElementKept ==
  ASSUME Types, Sound, Kept, ~misused, state # "FAULT", SetElement
  PROVE  Kept'
<1> DEFINE x == Step.item
           i == reg[x]
           old == Elements[number + 1]
           claimed == ClaimAll(heap, <<i>>)
           g == IF number = 0 THEN Holding(claimed, In, Tail(Elements)) ELSE claimed
           s == Store(Step.in, number, x)
           program == <<s>> \o Rest
<1>1. /\ todo # << >> /\ doomed = << >> /\ Step.op = "set" /\ Defined
      /\ heap' = UnClaim(g, old) /\ After(FreeIfUnClaimed(heap', old), program)
  BY DEF SetElement, Does
<1>2. PICK R : Owes(R)
  BY <1>1, Owing
<1> DEFINE S == R \ {x}
<1>3. Handles(Rest, S)
  BY <1>1, <1>2, OwesRest DEF Leaves
<1>4. /\ HeapOK(heap) /\ DOMAIN heap = Live /\ \A v : Held(heap, v) \in Nat
      /\ In \in Live /\ Elements \in Seq(ItemId) /\ Live \subseteq ItemId
  BY <1>1, NothingLost, ClaimsArePositive, ListStep
<1>5. number + 1 \in 1 .. Len(Elements) /\ Elements # << >>
  <2>1. number \in Nat /\ number < Len(Elements)
    BY <1>1, <1>4 DEF Defined, InBounds, Types, Flow
  <2>2. Len(Elements) \in Nat
    BY <1>4, LenProperties
  <2> QED
    BY <2>1, <2>2, <1>4
<1>6. i \in Live
  BY <1>1, FirstStep, UsedIsLive DEF Types, Formed, Operands
<1>7. old \in Live
  <2> DEFINE n == number + 1
  <2>1. n \in 1 .. Len(Elements)
    BY <1>5
  <2> HIDE DEF n
  <2>2. Elements[n] \in Live
    BY <1>1, <2>1, ElementsAreLive
  <2> QED
    BY <2>2 DEF n
<1>8. Handles(program, S)
  <2>1. s.op = "store"
    BY DEF Store
  <2> HIDE DEF s, S
  <2>2. Sequence(program) /\ program # << >> /\ Head(program) = s /\ Tail(program) = Rest
    BY <1>3, Unfold, SequenceParts
  <2> HIDE DEF program
  <2>3. Allows(Head(program), S) /\ Goes(program, S) = {<<Rest, S>>}
    BY <2>1, <2>2 DEF Allows, Goes, Leaves
  <2> QED
    BY <1>3, <2>2, <2>3, FoldOne
<1> HIDE DEF program, old, i
<1>9. /\ HeapOK(claimed) /\ DOMAIN claimed = Live
      /\ \A v \in Live : Held(claimed, v) = 0 => v # i /\ Held(heap, v) = 0
  <2>1. HeapOK(claimed)
    BY <1>4, <1>6, ClaimOne
  <2> QED
    BY <1>4, <1>6, <2>1, Claimed
<1> HIDE DEF claimed
<1>10. /\ HeapOK(g) /\ DOMAIN g = Live /\ \A v : Held(g, v) = Held(claimed, v)
  <2>1. Tail(Elements) \in Seq(ItemId)
    BY <1>4, <1>5
  <2> DEFINE l == Tail(Elements)
             f == Holding(claimed, In, l)
  <2>2. l \in Seq(ItemId)
    BY <2>1
  <2>3. g = f \/ g = claimed
    OBVIOUS
  <2> HIDE DEF l, g
  <2>4. HeapOK(f) /\ DOMAIN f = Live /\ \A v : Held(f, v) = Held(claimed, v)
    BY <1>4, <1>9, <2>2, HoldingHeap
  <2> QED
    BY <1>9, <2>3, <2>4
<1> HIDE DEF g
<1>11. /\ DOMAIN heap' = Live
       /\ \A v \in DOMAIN heap' : Held(heap', v) = 0 => v = old \/ (v \in Live /\ Held(g, v) = 0)
  BY <1>1, <1>7, <1>10, UnClaimed
<1>12. \A v \in DOMAIN heap' : Held(heap', v) = 0 =>
         \/ v = old
         \/ /\ v \in Live /\ Held(heap, v) = 0
            /\ \A r \in R \cap Register : reg[r] = v => r \in S
  BY <1>9, <1>10, <1>11 DEF i
<1> HIDE DEF S
<1> QED
  BY <1>1, <1>2, <1>7, <1>8, <1>11, <1>12, KeptGivenUp

(* What takes the place that was kept has its claim already.               *)
LEMMA StoreElementKept ==
  ASSUME Types, Sound, Kept, ~misused, state # "FAULT", StoreElement
  PROVE  Kept'
<1> DEFINE l == Stored
<1>1. /\ todo # << >> /\ doomed = << >> /\ Step.op = "store" /\ Defined
      /\ heap' = Holding(heap, In, l) /\ Go(<< >>, Rest, reg, number, tangled)
  BY DEF StoreElement, Does, Continue
<1>2. PICK R : Owes(R)
  BY <1>1, Owing
<1>3. Handles(Rest, R)
  BY <1>1, <1>2, OwesRest DEF Leaves
<1>4. HeapOK(heap) /\ DOMAIN heap = Live /\ In \in Live
  BY <1>1, ListStep
<1>5. l \in Seq(ItemId)
  BY <1>1, <1>4, StoredType DEF Defined
<1> HIDE DEF l
<1>6. DOMAIN heap' = Live /\ \A v : Held(heap', v) = Held(heap, v)
  BY <1>1, <1>4, <1>5, HoldingHeap
<1> QED
  BY <1>1, <1>2, <1>3, <1>6, KeptOn

(* RemoveAt gives up the element.                                          *)
LEMMA EraseElementKept ==
  ASSUME Types, Sound, Kept, ~misused, state # "FAULT", EraseElement
  PROVE  Kept'
<1> DEFINE n == number + 1
           k == Elements[n]
           l == RemoveAt(Elements, n)
           h == Holding(heap, In, l)
<1>1. /\ todo # << >> /\ doomed = << >> /\ Step.op = "erase" /\ Defined
      /\ heap' = UnClaim(h, k) /\ After(FreeIfUnClaimed(heap', k), Rest)
  BY DEF EraseElement, Does
<1>2. PICK R : Owes(R)
  BY <1>1, Owing
<1>3. Handles(Rest, R)
  BY <1>1, <1>2, OwesRest DEF Leaves
<1>4. HeapOK(heap) /\ DOMAIN heap = Live /\ In \in Live /\ Elements \in Seq(ItemId)
  BY <1>1, ListStep
<1>5. n \in 1 .. Len(Elements)
  BY <1>1, <1>4 DEF Defined, InBounds, Types, Flow
<1>6. k \in Live /\ l \in Seq(ItemId)
  <2> HIDE DEF n
  <2>1. k \in Live
    BY <1>1, <1>5, ElementsAreLive
  <2>2. l \in Seq(ItemId)
    BY <1>4, <1>5, CountRemoveAt
  <2> QED
    BY <2>1, <2>2
<1> HIDE DEF k, l
<1>7. HeapOK(h) /\ DOMAIN h = Live /\ \A v : Held(h, v) = Held(heap, v)
  BY <1>4, <1>6, HoldingHeap
<1> HIDE DEF h
<1>8. /\ DOMAIN heap' = Live
      /\ \A v \in DOMAIN heap' :
           Held(heap', v) = 0 => v = k \/ (v \in Live /\ Held(heap, v) = 0)
  BY <1>1, <1>6, <1>7, UnClaimed
<1> QED
  BY <1>1, <1>2, <1>3, <1>6, <1>8, KeptGivenUp

(* Reverse claims nothing and gives up nothing.                            *)
LEMMA ReverseElementsKept ==
  ASSUME Types, Kept, ~misused, state # "FAULT", ReverseElements
  PROVE  Kept'
<1> DEFINE l == Reverse(Elements)
<1>1. /\ todo # << >> /\ doomed = << >> /\ Step.op = "reverse" /\ Defined
      /\ heap' = Holding(heap, In, l) /\ Go(<< >>, Rest, reg, number, tangled)
  BY DEF ReverseElements, Does, Continue
<1>2. PICK R : Owes(R)
  BY <1>1, Owing
<1>3. Handles(Rest, R)
  BY <1>1, <1>2, OwesRest DEF Leaves
<1>4. HeapOK(heap) /\ DOMAIN heap = Live /\ In \in Live /\ Elements \in Seq(ItemId)
  BY <1>1, ListStep
<1>5. l \in Seq(ItemId)
  BY <1>4, CountReverse
<1> HIDE DEF l
<1>6. DOMAIN heap' = Live /\ \A v : Held(heap', v) = Held(heap, v)
  BY <1>1, <1>4, <1>5, HoldingHeap
<1> QED
  BY <1>1, <1>2, <1>3, <1>6, KeptOn

(* The copies that Clone, KEYS and VALUES make are claimed by what they    *)
(* are put into.                                                           *)
LEMMA CopiesHandle ==
  ASSUME NEW list, NEW i, NEW p, NEW R, Handles(p, R)
  PROVE  Handles(Copies(list, i) \o p, R)
<1> DEFINE s == Copy(list, i)
           q == <<s>> \o p
<1>1. s.op = "copy"
  BY DEF Copy
<1>2. Sequence(p)
  BY Unfold
<1>3. CASE list = << >>
  <2>1. Copies(list, i) \o p = p
    BY <1>2, <1>3 DEF Copies, Sequence
  <2> QED
    BY <2>1
<1>4. CASE list # << >>
  <2>1. Copies(list, i) \o p = q
    BY <1>4 DEF Copies
  <2> HIDE DEF s
  <2>2. Sequence(q) /\ q # << >> /\ Head(q) = s /\ Tail(q) = p
    BY <1>2, SequenceParts
  <2> HIDE DEF q
  <2>3. Allows(Head(q), R) /\ Goes(q, R) = {<<p, R>>}
    BY <1>1, <2>2 DEF Allows, Goes, Leaves
  <2> QED
    BY <2>1, <2>2, <2>3, FoldOne
<1> QED
  BY <1>3, <1>4

(* KEYS and VALUES copy the elements of a map.                             *)
LEMMA FillArrayKept ==
  ASSUME Types, Kept, ~misused, state # "FAULT", FillArray
  PROVE  Kept'
<1>1. /\ todo # << >> /\ doomed = << >> /\ Step.op = "fill" /\ UNCHANGED heap
      /\ \E list : Continue(Copies(list, reg[Step.item]) \o Rest)
  BY DEF FillArray, Does
<1>2. PICK R : Owes(R)
  BY <1>1, Owing
<1>3. Handles(Rest, R)
  BY <1>1, <1>2, OwesRest DEF Leaves
<1>4. PICK list : Continue(Copies(list, reg[Step.item]) \o Rest)
  BY <1>1
<1>5. Handles(Copies(list, reg[Step.item]) \o Rest, R)
  BY <1>3, CopiesHandle
<1> QED
  BY <1>1, <1>2, <1>4, <1>5, KeptGoing

(* The item that is cloned and its clone have a register each.             *)
LEMMA CloneItemKept ==
  ASSUME Types, Kept, ~misused, state # "FAULT", CloneItem
  PROVE  Kept'
<1> DEFINE x == Step.item
           i == reg[x]
           j == FreshIds(1)[1]
           new == NewItem(heap[i].type, 0, << >>)
           locals == [reg EXCEPT !["ret"] = i, ![x] = j]
           program == Copies(heap[i].kids, j) \o Rest
<1>1. /\ todo # << >> /\ doomed = << >> /\ Step.op = "clone" /\ Defined /\ Fresh # {}
      /\ heap' = Making(heap, j, new) /\ Go(<< >>, program, locals, number, tangled)
  BY DEF CloneItem, Does
<1>2. PICK R : Owes(R)
  BY <1>1, Owing
<1> DEFINE S == R \cup {x, "ret"}
<1>3. Handles(Rest, S) /\ x \in Register \ {"ret"} /\ "ret" \in Register \ R
  BY <1>1, <1>2, OwesRest, Names DEF Leaves, Owes, Allows
<1>4. Handles(program, S)
  <2> HIDE DEF S
  <2> QED
    BY <1>3, CopiesHandle
<1>5. HeapOK(heap) /\ DOMAIN heap = Live /\ i \in Live /\ j \in ItemId \ Live
  BY <1>1, FirstStep, UsedIsLive, MemoryHeap, FirstFresh DEF Types, Formed, Operands
<1>6. new \in ItemSet
  <2>1. heap[i].type \in Type /\ << >> \in Seq(ItemId) /\ 0 \in Int
    BY <1>5, ItemFields
  <2> QED
    BY <2>1, NewItemSet
<1>7. locals[x] = j /\ locals["ret"] = i
      /\ \A r \in Register \ {x, "ret"} : locals[r] = reg[r]
  BY <1>3 DEF Types, Flow, Locals
<1> HIDE DEF new, j
<1>8. DOMAIN heap' = Live \cup {j} /\ AlikeBut(heap', heap, j)
  BY <1>1, <1>5, <1>6, NewItemHeap
<1> HIDE DEF locals, program
<1>9. \A r \in R \cap Register : \E q \in S \cap Register : locals[q] = reg[r]
  BY <1>3, <1>7
<1>10. \A v \in DOMAIN heap' : Held(heap', v) = 0 =>
         \/ \E q \in S \cap Register : locals[q] = v
         \/ /\ v \in Live /\ Held(heap, v) = 0
            /\ \A r \in R \cap Register : reg[r] = v =>
                 \E q \in S \cap Register : locals[q] = v
  BY <1>3, <1>7, <1>8, <1>9 DEF AlikeBut
<1> HIDE DEF S
<1> QED
  BY <1>1, <1>2, <1>4, <1>10, KeptOn

(* A copied element is claimed.                                            *)
LEMMA CopyElementKept ==
  ASSUME Types, Sound, Kept, ~misused, state # "FAULT", CopyElement
  PROVE  Kept'
<1> DEFINE i == Head(Step.list)
           into == Step.into
           l == heap[into].kids
<1>1. /\ todo # << >> /\ doomed = << >> /\ Step.op = "copy" /\ Defined
      /\ \/ Continue(Copies(Tail(Step.list), into) \o Rest)
         \/ \E j : Continue(Copies(Tail(Step.list), into) \o Copies(heap[i].kids, j) \o Rest)
  BY DEF CopyElement, Does
<1>2. PICK R : Owes(R)
  BY <1>1, Owing
<1>3. Handles(Rest, R)
  BY <1>1, <1>2, OwesRest DEF Leaves
<1>4. PICK program : Handles(program, R) /\ Go(<< >>, program, reg, number, tangled)
  <2>1. CASE Continue(Copies(Tail(Step.list), into) \o Rest)
    BY <1>3, <2>1, CopiesHandle DEF Continue
  <2>2. ASSUME NEW j,
               Continue(Copies(Tail(Step.list), into) \o Copies(heap[i].kids, j) \o Rest)
        PROVE  \E program : Handles(program, R) /\ Go(<< >>, program, reg, number, tangled)
    <3> DEFINE a == Copies(Tail(Step.list), into)
               b == Copies(heap[i].kids, j)
    <3>1. Sequence(a) /\ Sequence(b) /\ Sequence(Rest)
      BY <1>3, Unfold, ShortSequences DEF Copies
    <3>2. Handles(b \o Rest, R)
      BY <1>3, CopiesHandle
    <3>3. Handles(a \o (b \o Rest), R)
      BY <3>2, CopiesHandle
    <3>4. Continue((a \o b) \o Rest)
      BY <2>2
    <3> HIDE DEF a, b
    <3>5. (a \o b) \o Rest = a \o (b \o Rest)
      BY <3>1, SequenceAssociative
    <3> QED
      BY <3>3, <3>4, <3>5 DEF Continue
  <2> QED
    BY <1>1, <2>1, <2>2
<1>5. /\ HeapOK(heap) /\ DOMAIN heap = Live /\ \A v : Held(heap, v) \in Nat
      /\ i \in Live /\ into \in Live /\ l \in Seq(ItemId) /\ i \in ItemId
  BY <1>1, NothingLost, ClaimsArePositive, CopyStep, MemoryHeap, ItemFields DEF Types
<1>6. \A v \in DOMAIN heap' : Held(heap', v) = 0 => v \in Live /\ Held(heap, v) = 0
  <2>1. CASE Shared
    <3> DEFINE m == Append(l, i)
               h == Holding(heap, into, m)
    <3>1. heap' = ClaimAll(h, <<i>>)
      BY <2>1 DEF Shared
    <3>2. m \in Seq(ItemId)
      BY <1>5
    <3> HIDE DEF i, into, l, m
    <3>3. HeapOK(h) /\ DOMAIN h = Live /\ \A v : Held(h, v) = Held(heap, v)
      BY <1>5, <3>2, HoldingHeap
    <3> HIDE DEF h
    <3> QED
      BY <1>5, <3>1, <3>3, Claimed
  <2>2. CASE Doubled
    <3>1. PICK j \in ItemId \ Live :
            heap' = Making(Holding(heap, into, Append(l, j)), j, NewItem("Struct", 1, << >>))
      BY <2>2 DEF Doubled
    <3> DEFINE m == Append(l, j)
               h == Holding(heap, into, m)
               new == NewItem("Struct", 1, << >>)
    <3>2. m \in Seq(ItemId)
      BY <1>5
    <3>3. new \in ItemSet /\ new.claims = 1
      <4>1. "Struct" \in Type /\ << >> \in Seq(ItemId)
        BY Names
      <4> QED
        BY <4>1 DEF NewItem, ItemSet
    <3>4. heap' = Making(h, j, new)
      BY <3>1
    <3> HIDE DEF i, into, l, m, new
    <3>5. HeapOK(h) /\ DOMAIN h = Live /\ \A v : Held(h, v) = Held(heap, v)
      BY <1>5, <3>2, HoldingHeap
    <3> HIDE DEF h
    <3>6. DOMAIN heap' = Live \cup {j} /\ HasItem(heap', j, new) /\ AlikeBut(heap', h, j)
      BY <3>3, <3>4, <3>5, NewItemHeap
    <3> QED
      BY <3>3, <3>5, <3>6 DEF HasItem, AlikeBut
  <2> QED
    BY <2>1, <2>2, CopyElementTypes
<1> QED
  BY <1>2, <1>4, <1>6, KeptOn

----------------------------------------------------------------------------
(* The maps.                                                               *)

(* PICKITEM of a map gives a register the value, or does not find the key. *)
LEMMA GetValueKept ==
  ASSUME Types, Kept, ~misused, state # "FAULT", GetValue
  PROVE  Kept'
<1>1. /\ todo # << >> /\ doomed = << >> /\ Step.op = "mapGet" /\ UNCHANGED heap
      /\ Continue(Step.otherwise) \/ \E i : Assigned(Step.to, i)
  BY DEF GetValue, Does
<1>2. PICK R : Owes(R)
  BY <1>1, Owing
<1>3. Step.to \in Register \ R
  BY <1>1, <1>2 DEF Owes, Allows
<1>4. Handles(Rest, R) /\ Handles(Step.otherwise, R)
  <2>1. Goes(todo, R) = {<<Rest, R>>, <<Step.otherwise, R>>}
    BY <1>1 DEF Goes, Step, Rest
  <2>2. \A p, S : <<p, S>> \in Goes(todo, R) => Handles(p, S)
    BY <1>2 DEF Owes
  <2> QED
    BY <2>1, <2>2
<1>5. CASE Continue(Step.otherwise)
  BY <1>1, <1>2, <1>4, <1>5, KeptGoing
<1>6. CASE \E i : Assigned(Step.to, i)
  BY <1>1, <1>2, <1>3, <1>4, <1>6, KeptAssigned
<1> QED
  BY <1>1, <1>5, <1>6

(* SETITEM of a map frees the old value first, or claims the new pair.     *)
LEMMA SetValueKept ==
  ASSUME Types, Sound, Kept, ~misused, state # "FAULT", SetValue
  PROVE  Kept'
<1>1. /\ todo # << >> /\ doomed = << >> /\ Step.op = "mapSet" /\ Defined
  BY DEF SetValue, Does
<1>2. PICK R : Owes(R)
  BY <1>1, Owing
<1>3. Handles(Rest, R)
  BY <1>1, <1>2, OwesRest DEF Leaves
<1>4. /\ HeapOK(heap) /\ DOMAIN heap = Live /\ \A v : Held(heap, v) \in Nat
      /\ In \in Live /\ Elements \in Seq(ItemId) /\ Live \subseteq ItemId
  BY <1>1, NothingLost, ClaimsArePositive, ListStep
<1>5. CASE Continue(Rest) /\ heap' = heap
  BY <1>2, <1>3, <1>5, KeptGoing
<1>6. CASE AddingPair
  <2> DEFINE pair == <<reg[Step.key], reg[Step.item]>>
             l == Elements \o pair
             h == Holding(heap, In, l)
  <2>1. heap' = ClaimAll(h, pair) /\ Go(<< >>, Rest, reg, number, tangled)
    BY <1>6 DEF AddingPair, Continue
  <2>2. reg[Step.key] \in Live /\ reg[Step.item] \in Live
    BY <1>1, FirstStep, UsedIsLive DEF Types, Formed, Operands
  <2>3. pair \in Seq(ItemId)
    BY <1>4, <2>2
  <2> HIDE DEF pair
  <2>4. l \in Seq(ItemId)
    BY <1>4, <2>3
  <2> HIDE DEF l
  <2>5. HeapOK(h) /\ DOMAIN h = Live /\ \A v : Held(h, v) = Held(heap, v)
    BY <1>4, <2>4, HoldingHeap
  <2> HIDE DEF h
  <2>6. /\ DOMAIN heap' = Live
        /\ \A v \in Live : Held(heap', v) = Held(h, v) + Count(pair, v)
    BY <2>1, <2>3, <2>5, ClaimAllHeap
  <2>7. \A v : Count(pair, v) \in Nat
    BY <2>3, CountType
  <2>8. \A v \in DOMAIN heap' : Held(heap', v) = 0 => v \in Live /\ Held(heap, v) = 0
    <3> SUFFICES ASSUME NEW v \in Live, Held(heap', v) = 0
                 PROVE  Held(heap, v) = 0
      BY <2>6
    <3>1. Held(heap, v) \in Nat /\ Count(pair, v) \in Nat
      BY <1>4, <2>7
    <3>2. Held(heap, v) + Count(pair, v) = 0
      BY <2>5, <2>6
    <3> QED
      BY <3>1, <3>2
  <2> QED
    BY <1>2, <1>3, <2>1, <2>8, KeptOn
<1>7. ASSUME NEW n \in KeyPositions, Replacing(n)
      PROVE  Kept'
  <2> DEFINE k == Elements[n + 1]
             s == MapStore(Step.in, n + 1, Step.item)
             program == <<s>> \o Rest
  <2>1. heap' = UnClaim(heap, k) /\ After(FreeIfUnClaimed(heap', k), program)
    BY <1>7 DEF Replacing
  <2>2. k \in Live
    <3> DEFINE m == n + 1
    <3>1. m \in 1 .. Len(Elements)
      BY <1>4, PairPlaces
    <3> HIDE DEF m
    <3>2. Elements[m] \in Live
      BY <1>1, <3>1, ElementsAreLive
    <3> QED
      BY <3>2 DEF m
  <2>3. Handles(program, R)
    <3>1. s.op = "mapStore"
      BY DEF MapStore
    <3> HIDE DEF s
    <3>2. Sequence(program) /\ program # << >> /\ Head(program) = s /\ Tail(program) = Rest
      BY <1>3, Unfold, SequenceParts
    <3> HIDE DEF program
    <3>3. Allows(Head(program), R) /\ Goes(program, R) = {<<Rest, R>>}
      BY <3>1, <3>2 DEF Allows, Goes, Leaves
    <3> QED
      BY <1>3, <3>2, <3>3, FoldOne
  <2> HIDE DEF k, program
  <2>4. /\ DOMAIN heap' = Live
        /\ \A v \in DOMAIN heap' :
             Held(heap', v) = 0 => v = k \/ (v \in Live /\ Held(heap, v) = 0)
    BY <1>4, <2>1, <2>2, UnClaimed
  <2> QED
    BY <1>2, <2>1, <2>2, <2>3, <2>4, KeptGivenUp
<1> QED
  BY <1>5, <1>6, <1>7, SetValueCases

(* The new value is claimed.                                               *)
LEMMA StoreValueKept ==
  ASSUME Types, Sound, Kept, ~misused, state # "FAULT", StoreValue
  PROVE  Kept'
<1> DEFINE i == reg[Step.item]
           l == [Elements EXCEPT ![Step.index] = i]
           h == Holding(heap, In, l)
<1>1. /\ todo # << >> /\ doomed = << >> /\ Step.op = "mapStore" /\ Defined
      /\ heap' = ClaimAll(h, <<i>>) /\ Go(<< >>, Rest, reg, number, tangled)
  BY DEF StoreValue, Does, Continue
<1>2. PICK R : Owes(R)
  BY <1>1, Owing
<1>3. Handles(Rest, R)
  BY <1>1, <1>2, OwesRest DEF Leaves
<1>4. /\ HeapOK(heap) /\ DOMAIN heap = Live /\ \A v : Held(heap, v) \in Nat
      /\ In \in Live /\ Elements \in Seq(ItemId) /\ Live \subseteq ItemId
  BY <1>1, NothingLost, ClaimsArePositive, ListStep
<1>5. i \in Live
  BY <1>1, StoreStep, UsedIsLive
<1>6. l \in Seq(ItemId)
  <2> DEFINE n == Step.index
  <2>1. n \in 1 .. Len(Elements) /\ i \in ItemId
    BY <1>1, <1>4, <1>5 DEF Defined, InBounds
  <2>2. [Elements EXCEPT ![n] = i] = l
    OBVIOUS
  <2> HIDE DEF n, i, l
  <2> QED
    BY <1>4, <2>1, <2>2, CountReplace
<1> HIDE DEF i, l
<1>7. HeapOK(h) /\ DOMAIN h = Live /\ \A v : Held(h, v) = Held(heap, v)
  BY <1>4, <1>6, HoldingHeap
<1> HIDE DEF h
<1>8. \A v \in DOMAIN heap' : Held(heap', v) = 0 => v \in Live /\ Held(heap, v) = 0
  BY <1>1, <1>4, <1>5, <1>7, Claimed
<1> QED
  BY <1>1, <1>2, <1>3, <1>8, KeptOn

(* REMOVE of a map frees the key and the value it finds; when the key is   *)
(* the one the case has, its register is not freed a second time.          *)
LEMMA RemovePairKept ==
  ASSUME Types, Sound, Kept, ~misused, state # "FAULT", RemovePair
  PROVE  Kept'
<1>1. /\ todo # << >> /\ doomed = << >> /\ Step.op = "mapRemove" /\ Defined
  BY DEF RemovePair, Does
<1>2. PICK R : Owes(R)
  BY <1>1, Owing
<1>3. "x1" \notin R /\ "x2" \notin R /\ Step.key = "key"
  BY <1>1, <1>2 DEF Owes, Allows
<1>4. Handles(Rest, R) /\ Handles(Rest, R \ {"key"})
  <2>1. Goes(todo, R) = {<<Rest, R>>, <<Rest, R \ {"key"}>>}
    BY <1>1, <1>3 DEF Goes, Step, Rest
  <2>2. \A p, S : <<p, S>> \in Goes(todo, R) => Handles(p, S)
    BY <1>2 DEF Owes
  <2> QED
    BY <2>1, <2>2
<1>5. /\ HeapOK(heap) /\ DOMAIN heap = Live /\ In \in Live /\ Elements \in Seq(ItemId)
  BY <1>1, ListStep
<1>6. CASE Continue(Rest) /\ UNCHANGED heap
  BY <1>2, <1>4, <1>6, KeptGoing
<1>7. ASSUME NEW n \in KeyPositions, NEW k, k = Elements[n], NEW w, w = Elements[n + 1],
             heap' = UnClaim(UnClaim(Holding(heap, In, Without(Elements, n)), k), w),
             Go(<< >>,
                <<Free2("x1", "x2")>>
                  \o (IF k = reg[Step.key] THEN <<Assign("key", "x1")>> ELSE << >>) \o Rest,
                [reg EXCEPT !["x1"] = k, !["x2"] = w], number, tangled)
      PROVE  Kept'
  <2> DEFINE l == Without(Elements, n)
             h == Holding(heap, In, l)
             g == UnClaim(h, k)
             free == Free2("x1", "x2")
             last == IF k = reg["key"] THEN <<Assign("key", "x1")>> ELSE << >>
             program == <<free>> \o last \o Rest
             locals == [reg EXCEPT !["x1"] = k, !["x2"] = w]
             Q == IF k = reg["key"] THEN R \ {"key"} ELSE R
             S == Q \cup {"x1", "x2"}
  <2>1. heap' = UnClaim(g, w) /\ Go(<< >>, program, locals, number, tangled)
    BY <1>3, <1>7
  <2>2. k \in Live /\ w \in Live
    <3> DEFINE m == n + 1
    <3>1. n \in 1 .. Len(Elements) /\ m \in 1 .. Len(Elements)
      BY <1>5, PairPlaces
    <3> HIDE DEF m
    <3>2. Elements[n] \in Live /\ Elements[m] \in Live
      BY <1>1, <3>1, ElementsAreLive
    <3> QED
      BY <1>7, <3>2 DEF m
  <2>3. l \in Seq(ItemId)
    BY <1>5, WithoutPair
  <2>4. Handles(program, S)
    <3>1. free.op = "free2" /\ free.item = "x1" /\ free.other = "x2"
      BY DEF Free2
    <3>2. Handles(last \o Rest, Q) /\ Sequence(last)
      <4>1. CASE k = reg["key"]
        <5> DEFINE a == Assign("key", "x1")
                   p == <<a>> \o Rest
        <5>1. a.op = "assign" /\ a.to = "key"
          BY DEF Assign
        <5>2. last \o Rest = p /\ Q = R \ {"key"} /\ last = <<a>>
          BY <4>1
        <5> HIDE DEF a, Q, last
        <5>3. Sequence(p) /\ p # << >> /\ Head(p) = a /\ Tail(p) = Rest
          BY <1>4, Unfold, SequenceParts
        <5> HIDE DEF p
        <5>4. Allows(Head(p), Q) /\ Goes(p, Q) = {<<Rest, Q>>}
          BY <5>1, <5>2, <5>3, Names DEF Allows, Goes, Leaves
        <5> QED
          BY <1>4, <5>2, <5>3, <5>4, FoldOne, ShortSequences
      <4>2. CASE k # reg["key"]
        <5>1. last = << >> /\ Q = R
          BY <4>2
        <5> HIDE DEF last, Q
        <5>2. << >> \o Rest = Rest
          BY <1>4, Unfold DEF Sequence
        <5> QED
          BY <1>4, <5>1, <5>2, ShortSequences
      <4> QED
        BY <4>1, <4>2
    <3>3. S \ {"x1", "x2"} = Q
      BY <1>3
    <3>4. program = <<free>> \o (last \o Rest)
      <4> HIDE DEF free, last
      <4>1. Sequence(<<free>>) /\ Sequence(Rest)
        BY <1>4, Unfold, ShortSequences
      <4> QED
        BY <3>2, <4>1, SequenceAssociative
    <3> HIDE DEF free, last, program, S, Q
    <3> DEFINE q == last \o Rest
               p == <<free>> \o q
    <3>5. Handles(q, Q)
      BY <3>2
    <3> HIDE DEF q
    <3>6. Sequence(p) /\ p # << >> /\ Head(p) = free /\ Tail(p) = q
      BY <3>5, Unfold, SequenceParts
    <3>7. program = p
      BY <3>4 DEF q
    <3> HIDE DEF p
    <3>8. Allows(Head(p), S) /\ Goes(p, S) = {<<q, Q>>}
      BY <3>1, <3>3, <3>6 DEF Allows, Goes, Leaves
    <3> QED
      BY <3>5, <3>6, <3>7, <3>8, FoldOne
  <2>5. /\ locals["x1"] = k /\ locals["x2"] = w
        /\ \A r \in Register \ {"x1", "x2"} : locals[r] = reg[r]
    BY Names DEF Types, Flow, Locals
  <2>6. \A r \in R \cap Register : \E q \in S \cap Register : locals[q] = reg[r]
    <3> SUFFICES ASSUME NEW r \in R \cap Register
                 PROVE  \E q \in S \cap Register : locals[q] = reg[r]
      OBVIOUS
    <3>1. r # "x1" /\ r # "x2" /\ locals[r] = reg[r]
      BY <1>3, <2>5
    <3>2. CASE r \in Q
      BY <3>1, <3>2
    <3>3. CASE r \notin Q
      <4>1. r = "key" /\ k = reg["key"]
        BY <3>3
      <4> QED
        BY <2>5, <4>1, Names
    <3> QED
      BY <3>2, <3>3
  <2>7. "x1" \in S \cap Register /\ "x2" \in S \cap Register
    BY Names
  <2> HIDE DEF l, locals, program, S
  <2>8. HeapOK(h) /\ DOMAIN h = Live /\ \A v : Held(h, v) = Held(heap, v)
    BY <1>5, <2>3, HoldingHeap
  <2> HIDE DEF h
  <2>9. /\ HeapOK(g) /\ DOMAIN g = Live
        /\ \A v \in Live : Held(g, v) = 0 => v = k \/ Held(heap, v) = 0
    <3>1. HeapOK(g)
      BY <2>8, UnClaimHeap
    <3> QED
      BY <2>2, <2>8, <3>1, UnClaimed
  <2> HIDE DEF g
  <2>10. /\ DOMAIN heap' = Live
         /\ \A v \in DOMAIN heap' :
              Held(heap', v) = 0 => v = w \/ v = k \/ (v \in Live /\ Held(heap, v) = 0)
    BY <2>1, <2>2, <2>9, UnClaimed
  <2>11. \A v \in DOMAIN heap' : Held(heap', v) = 0 =>
           \/ \E q \in S \cap Register : locals[q] = v
           \/ /\ v \in Live /\ Held(heap, v) = 0
              /\ \A r \in R \cap Register : reg[r] = v =>
                   \E q \in S \cap Register : locals[q] = v
    BY <2>5, <2>6, <2>7, <2>10
  <2> QED
    BY <1>2, <2>1, <2>4, <2>11, KeptOn
<1> QED
  BY <1>6, <1>7 DEF RemovePair

----------------------------------------------------------------------------
(* Every step.                                                             *)

(* A step that changes nothing.                                            *)
LEMMA StutterKept ==
  ASSUME Kept, UNCHANGED vars
  PROVE  Kept'
BY DEF vars, Kept, Exchanging, Covers, At

(* Every step keeps what nobody claims in a register that will be freed.   *)
LEMMA NextKept ==
  ASSUME "CALL_ED" \notin Opcodes, Types, Sound, Kept, [Next]_vars
  PROVE  Kept'
<1>1. CASE misused
  BY <1>1, MisuseStays DEF Kept
<1>2. CASE state = "FAULT"
  BY <1>2, FaultStays DEF Kept
<1>3. CASE ~misused /\ state # "FAULT"
  <2>1. CASE Fetch \/ UseAfterFree \/ Control \/ SetFault \/ NeedItems \/ UNCHANGED vars
    BY <1>3, <2>1, FetchKept, UseAfterFreeKept, ControlKept, FaultKept, StutterKept
  <2>2. CASE TakeItem \/ UnstackItem \/ PeekItem \/ InsertItem \/ PushElements
    BY <1>3, <2>2, TakeItemKept, UnstackItemKept, PeekItemKept, InsertItemKept,
       PushElementsKept
  <2>3. CASE FreeOne \/ Release \/ FreeTwo \/ FreeThree \/ DeleteItem \/ CreateItem
    BY <1>3, <2>3, FreeOneKept, ReleaseKept, FreeTwoKept, FreeThreeKept, DeleteItemKept,
       CreateItemKept
  <2>4. CASE \/ GetElement \/ AddElement \/ SetElement \/ StoreElement \/ EraseElement
             \/ ReverseElements \/ CloneItem \/ CopyElement
    BY <1>3, <2>4, GetElementKept, AddElementKept, SetElementKept, StoreElementKept,
       EraseElementKept, ReverseElementsKept, CloneItemKept, CopyElementKept
  <2>5. CASE GetValue \/ SetValue \/ StoreValue \/ RemovePair \/ FillArray
    BY <1>3, <2>5, GetValueKept, SetValueKept, StoreValueKept, RemovePairKept, FillArrayKept
  <2> QED
    BY <2>1, <2>2, <2>3, <2>4, <2>5 DEF Next
<1> QED
  BY <1>1, <1>2, <1>3

(* At first there is no item.                                              *)
LEMMA InitKept == Init => Kept
<1> SUFFICES ASSUME Init
             PROVE  Kept
  OBVIOUS
<1>1. todo = << >> /\ DOMAIN heap = {}
  BY DEF Init
<1>2. Handles(todo, {}) /\ Covers({})
  BY <1>1, EmptyHandles DEF Covers, CoversWith
<1> QED
  BY <1>2 DEF Kept

(* NoLeakWithoutFault: between two instructions of an engine that has not  *)
(* faulted every item that exists is claimed by a stack or another item,   *)
(* for every program of the switch but CALL_ED, in every order.            *)
THEOREM NoLeaks ==
  ASSUME "CALL_ED" \notin Opcodes
  PROVE  Spec => []NoLeakWithoutFault
<1>1. Init => Kept
  BY InitKept
<1>2. Types /\ Sound /\ Kept /\ [Next]_vars => Kept'
  BY NextKept
<1>3. Types /\ Sound /\ Kept => NoLeakWithoutFault
  <2> SUFFICES ASSUME Types, Sound, Kept, AtRest, state = "NONE", NEW i \in Live
               PROVE  heap[i].claims > 0
    BY DEF NoLeakWithoutFault
  <2>1. todo = << >> /\ doomed = << >> /\ ~misused
    BY DEF AtRest
  <2>2. PICK R : Handles(todo, R) /\ Covers(R)
    BY <2>1, ExchangeOps DEF Kept
  <2>3. R = {}
    BY <2>1, <2>2, Unfold
  <2>4. heap[i].claims = Held(heap, i) /\ Range(doomed) = {}
    BY <2>1 DEF Held, Live, Range
  <2>5. Held(heap, i) # 0
    BY <2>2, <2>3, <2>4 DEF Covers, CoversWith, Live
  <2>6. ~Lost
    BY <2>1 DEF Lost, Storing
  <2>7. Held(heap, i) \in Nat
    BY <2>6, ClaimsArePositive
  <2> QED
    BY <2>4, <2>5, <2>7
<1> QED
  BY <1>1, <1>2, <1>3, Soundness, PTL DEF Spec
=============================================================================
