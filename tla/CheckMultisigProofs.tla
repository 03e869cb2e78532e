------------------------ MODULE CheckMultisigProofs ------------------------
(***************************************************************************)
(* What the matching loop of CHECKMULTISIG accepts and refuses, for every  *)
(* number of keys and signatures and whatever OpenSSL answers.             *)
(***************************************************************************)
EXTENDS CheckMultisig, TLAPS

Running ==
  /\ match \in [pubKeys : Seq(Bytes), signatures : Seq(Bytes),
                i : Nat, j : Nat, fSuccess : BOOLEAN, deleted : BOOLEAN]
  /\ signaturesCount <= pubKeysCount
  /\ match.i <= signaturesCount /\ match.j <= pubKeysCount
  /\ (match.fSuccess <=> ~TooFew(match.i, match.j))

(* What is matched so far has its keys among those that were tried.        *)
Sound == Assignable(match.i, match.j)

(* No assignment of all the signatures gives the next one a key that was   *)
(* tried: the loop took the first key that would do for each.              *)
Greedy ==
  \A f : Assignment(signaturesCount, pubKeysCount, f)
           => (match.i < signaturesCount => f[match.i + 1] > match.j)

(* The inductive invariant.  While the message is there the loop is greedy *)
(* whatever bytes it is given, and sound if none of them is malformed.     *)
MatchInv ==
  /\ answer \in [Signature \X PubKey -> 0 .. 1]
  /\ match # None =>
       Running /\ (~match.deleted => Greedy /\ (WellFormed => Sound))

(* While the message is there, a signature that matches is valid unless    *)
(* its bytes or the key's are malformed, and one that does not match is    *)
(* not valid: ERROR is a match, so only the first needs the bytes to be    *)
(* well formed.                                                            *)
LEMMA AnswersTell ==
  ASSUME answer \in [Signature \X PubKey -> 0 .. 1],
         NEW sig, NEW key, ~Deletes(sig, key),
         NEW a \in VerifySignature(sig, key, FALSE)
  PROVE  /\ Matches(a) /\ sig \in Signature /\ key \in PubKey \cup Uncompressed
              => Valid(sig, key)
         /\ ~Matches(a) => ~Valid(sig, key)
<1>1. DOMAIN answer = Signature \X PubKey
  OBVIOUS
<1>2. CASE <<sig, key>> \in DOMAIN answer
  <2>1. a = answer[<<sig, key>>] /\ answer[<<sig, key>>] \in 0 .. 1
    BY <1>1, <1>2 DEF VerifySignature
  <2> QED
    BY <1>2, <2>1 DEF Matches, Valid
<1>3. CASE <<sig, key>> \notin DOMAIN answer
  <2>1. a = -1
    BY <1>3 DEF VerifySignature
  <2>2. ~(sig \in Signature /\ key \in PubKey \cup Uncompressed)
    BY <1>1, <1>3 DEF Deletes
  <2> QED
    BY <2>1, <2>2 DEF Matches
<1> QED
  BY <1>2, <1>3

(* An assignment to a shorter list of keys is one to a longer list.        *)
LEMMA MoreKeys ==
  ASSUME NEW n \in Nat, NEW m \in Nat, NEW k \in Nat, m <= k, Assignable(n, m)
  PROVE  Assignable(n, k)
<1>1. PICK f \in [1 .. n -> 1 .. m] : Assignment(n, m, f)
  BY DEF Assignable
<1>2. f \in [1 .. n -> 1 .. k]
  <2>1. 1 .. m \subseteq 1 .. k
    OBVIOUS
  <2>2. QED BY <2>1
<1>3. Assignment(n, k, f)
  BY <1>1, <1>2 DEF Assignment
<1>4. QED BY <1>2, <1>3 DEF Assignable

(* One more signature may have the key after the last one.                 *)
LEMMA OneMore ==
  ASSUME NEW i \in Nat, NEW j \in Nat, Assignable(i, j),
         Valid(match.signatures[i + 1], match.pubKeys[j + 1])
  PROVE  Assignable(i + 1, j + 1)
<1>1. PICK f \in [1 .. i -> 1 .. j] : Assignment(i, j, f)
  BY DEF Assignable
<1> DEFINE g == [a \in 1 .. i + 1 |-> IF a <= i THEN f[a] ELSE j + 1]
<1>2. g \in [1 .. i + 1 -> 1 .. j + 1]
  <2>1. ASSUME NEW a \in 1 .. i + 1
        PROVE  (IF a <= i THEN f[a] ELSE j + 1) \in 1 .. j + 1
    <3>1. CASE a <= i
      <4>1. a \in 1 .. i
        BY <3>1
      <4>2. f[a] \in 1 .. j
        BY <4>1
      <4>3. QED BY <4>2, <3>1
    <3>2. CASE ~(a <= i)
      BY <3>2
    <3>3. QED BY <3>1, <3>2
  <2>2. QED BY <2>1
<1>3. ASSUME NEW a \in 1 .. i + 1
      PROVE  Valid(match.signatures[a], match.pubKeys[g[a]])
  <2>1. CASE a <= i
    <3>1. a \in 1 .. i /\ g[a] = f[a]
      BY <2>1
    <3>2. QED BY <3>1, <1>1 DEF Assignment
  <2>2. CASE a = i + 1
    <3>1. g[a] = j + 1
      BY <2>2
    <3>2. QED BY <3>1, <2>2
  <2>3. QED BY <2>1, <2>2
<1>4. ASSUME NEW a \in 1 .. i + 1, NEW b \in 1 .. i + 1, a < b
      PROVE  g[b] - g[a] >= b - a
  <2>1. a \in 1 .. i /\ g[a] = f[a] /\ f[a] \in 1 .. j
    BY <1>4
  <2>2. CASE b <= i
    <3>1. b \in 1 .. i /\ g[b] = f[b]
      BY <2>2
    <3>2. QED BY <3>1, <2>1, <1>1, <1>4 DEF Assignment
  <2>3. CASE b = i + 1
    <3>1. g[b] = j + 1
      BY <2>3
    <3>2. i \in 1 .. i /\ f[i] \in 1 .. j
      BY <2>1
    <3>3. a < i => f[i] - f[a] >= i - a
      BY <3>2, <2>1, <1>1 DEF Assignment
    <3>4. CASE a = i
      BY <3>4, <3>1, <2>1, <2>3
    <3>5. CASE a < i
      BY <3>5, <3>1, <3>2, <3>3, <2>1, <2>3
    <3>6. QED BY <3>4, <3>5, <2>1
  <2>4. QED BY <2>2, <2>3
<1>5. Assignment(i + 1, j + 1, g)
  BY <1>2, <1>3, <1>4 DEF Assignment
<1>6. QED BY <1>2, <1>5 DEF Assignable

(* The loop begins with nothing matched.                                   *)
LEMMA BeginsSound ==
  ASSUME MatchInv, MatchBegins
  PROVE  MatchInv'
<1>1. PICK pubKeys \in Seq(Bytes), signatures \in Seq(Bytes) :
        Countable(pubKeys, signatures) /\ match' = Entered(pubKeys, signatures)
  BY DEF MatchBegins
<1> DEFINE pc == Len(pubKeys)  sc == Len(signatures)
<1>2. pc \in Nat /\ sc \in Nat /\ 0 < sc /\ sc <= pc
  BY <1>1 DEF Countable
<1>3. /\ match'.pubKeys = pubKeys /\ match'.signatures = signatures
      /\ match'.i = 0 /\ match'.j = 0 /\ match'.fSuccess = TRUE
      /\ signaturesCount' = sc /\ pubKeysCount' = pc
  BY <1>1 DEF Entered, Locals, signaturesCount, pubKeysCount
<1>4. Running'
  <2>1. match' \in [pubKeys : Seq(Bytes), signatures : Seq(Bytes),
                    i : Nat, j : Nat, fSuccess : BOOLEAN, deleted : BOOLEAN]
    BY <1>1 DEF Entered, Locals
  <2>2. ~TooFew(match.i, match.j)'
    BY <1>2, <1>3 DEF TooFew
  <2>3. QED BY <2>1, <2>2, <1>2, <1>3 DEF Running
<1>5. Sound'
  <2>1. << >> \in [1 .. 0 -> 1 .. 0]
    OBVIOUS
  <2>2. Assignment(0, 0, << >>)'
    BY <2>1 DEF Assignment
  <2>3. Assignable(0, 0)'
    BY <2>1, <2>2 DEF Assignable
  <2>4. QED BY <2>3, <1>3 DEF Sound
<1>6. Greedy'
  <2> SUFFICES ASSUME NEW f, Assignment(sc, pc, f)'
               PROVE  f[1] > 0
    BY <1>2, <1>3 DEF Greedy
  <2>1. f \in [1 .. sc -> 1 .. pc]
    BY DEF Assignment
  <2>2. f[1] \in 1 .. pc
    BY <2>1, <1>2
  <2>3. QED BY <2>2, <1>2
<1>7. answer' = answer
  BY DEF MatchBegins
<1>8. QED BY <1>4, <1>5, <1>6, <1>7 DEF MatchInv

(* A comparison keeps the invariant.                                       *)
LEMMA StepSound ==
  ASSUME MatchInv, MatchStep
  PROVE  MatchInv'
<1> DEFINE i  == match.i
           j  == match.j
           sc == signaturesCount
           pc == pubKeysCount
           gone == match.deleted \/ Deletes(NextSig, NextKey)
<1>1. /\ match # None /\ match.fSuccess /\ i < sc /\ j < pc
      /\ Running /\ (~match.deleted => Greedy /\ (WellFormed => Sound))
      /\ answer \in [Signature \X PubKey -> 0 .. 1]
  BY DEF MatchStep, Matching, MatchInv
<1>2. /\ i \in Nat /\ j \in Nat /\ sc \in Nat /\ pc \in Nat
      /\ match \in [pubKeys : Seq(Bytes), signatures : Seq(Bytes),
                    i : Nat, j : Nat, fSuccess : BOOLEAN, deleted : BOOLEAN]
  BY <1>1 DEF Running, signaturesCount, pubKeysCount
<1>a. PICK a \in VerifySignature(NextSig, NextKey, match.deleted) :
        match' = Locals(match.pubKeys, match.signatures,
                        NextSignature(Matches(a)), j + 1,
                        ~TooFew(NextSignature(Matches(a)), j + 1), gone)
  BY DEF MatchStep
<1> DEFINE hit == Matches(a)
<1>3. /\ match' = Locals(match.pubKeys, match.signatures, NextSignature(hit), j + 1,
                       ~TooFew(NextSignature(hit), j + 1), gone)
      /\ answer' = answer
  BY <1>a DEF MatchStep
<1>4. /\ match'.pubKeys = match.pubKeys /\ match'.signatures = match.signatures
      /\ match'.i = NextSignature(hit) /\ match'.j = j + 1
      /\ match'.fSuccess = ~TooFew(NextSignature(hit), j + 1)
      /\ match'.deleted = gone
      /\ signaturesCount' = sc /\ pubKeysCount' = pc
  BY <1>2, <1>3 DEF Locals, signaturesCount, pubKeysCount
<1>b. gone \in BOOLEAN
  BY <1>2 DEF Deletes
<1>c. ASSUME ~gone
      PROVE  /\ hit /\ WellFormed => Valid(NextSig, NextKey)
             /\ ~hit => ~Valid(NextSig, NextKey)
  <2>1. ~match.deleted /\ ~Deletes(NextSig, NextKey)
    BY <1>c
  <2>2. a \in VerifySignature(NextSig, NextKey, FALSE)
    BY <1>2, <2>1
  <2>3. i + 1 \in 1 .. sc /\ j + 1 \in 1 .. pc
    BY <1>1, <1>2
  <2>4. WellFormed =>
          NextSig \in Signature /\ NextKey \in PubKey \cup Uncompressed
    BY <2>3 DEF WellFormed, NextSig, NextKey
  <2> HIDE DEF gone
  <2> QED
    BY <1>1, <2>1, <2>2, <2>4, AnswersTell
<1> HIDE DEF hit
<1>5. Running'
  <2>1. NextSignature(hit) \in Nat /\ NextSignature(hit) <= sc
    BY <1>1, <1>2 DEF NextSignature
  <2>2. TooFew(NextSignature(hit), j + 1) \in BOOLEAN
    BY DEF TooFew
  <2> DEFINE ok == ~TooFew(NextSignature(hit), j + 1)
  <2>3. ok \in BOOLEAN
    BY <2>2
  <2> HIDE DEF ok, gone
  <2>4. match' = Locals(match.pubKeys, match.signatures, NextSignature(hit), j + 1,
                        ok, gone)
    BY <1>3 DEF ok
  <2>5. match' \in [pubKeys : Seq(Bytes), signatures : Seq(Bytes),
                    i : Nat, j : Nat, fSuccess : BOOLEAN, deleted : BOOLEAN]
    BY <1>2, <1>b, <2>1, <2>3, <2>4 DEF Locals
  <2>6. sc <= pc
    BY <1>1 DEF Running
  <2>7. match'.fSuccess <=> ~TooFew(match.i, match.j)'
    BY <1>4 DEF TooFew
  <2>8. QED BY <2>1, <2>5, <2>6, <2>7, <1>1, <1>2, <1>4 DEF Running
<1>6. ASSUME NEW n, NEW m, NEW f
      PROVE  Assignment(n, m, f)' <=> Assignment(n, m, f)
  BY <1>3, <1>4 DEF Assignment, Valid
<1>7. ASSUME NEW n, NEW m
      PROVE  Assignable(n, m)' <=> Assignable(n, m)
  BY <1>6 DEF Assignable
<1>d. WellFormed' <=> WellFormed
  BY <1>4 DEF WellFormed
<1>8. ASSUME ~gone, WellFormed
      PROVE  Sound'
  <2>1. Assignable(i, j)
    BY <1>1, <1>8 DEF Sound
  <2>2. CASE hit
    <3>1. Valid(match.signatures[i + 1], match.pubKeys[j + 1])
      BY <1>c, <1>8, <2>2 DEF NextSig, NextKey
    <3>2. Assignable(i + 1, j + 1)
      BY <2>1, <3>1, <1>2, OneMore
    <3>3. QED BY <3>2, <2>2, <1>4, <1>7 DEF Sound, NextSignature
  <2>3. CASE ~hit
    <3>1. Assignable(i, j + 1)
      BY <2>1, <1>2, MoreKeys
    <3>2. QED BY <3>1, <2>3, <1>4, <1>7 DEF Sound, NextSignature
  <2>4. QED BY <2>2, <2>3
<1>9. ASSUME ~gone
      PROVE  Greedy'
  <2> SUFFICES ASSUME NEW f, Assignment(sc, pc, f), match'.i < sc
               PROVE  f[match'.i + 1] > j + 1
    BY <1>4, <1>6 DEF Greedy
  <2>1. f \in [1 .. sc -> 1 .. pc]
    BY DEF Assignment
  <2>0. Greedy
    BY <1>1, <1>9
  <2>2. i + 1 \in 1 .. sc /\ f[i + 1] \in 1 .. pc /\ f[i + 1] > j
    BY <2>0, <2>1, <1>1, <1>2 DEF Greedy
  <2>3. CASE hit
    <3>1. match'.i = i + 1 /\ i + 2 \in 1 .. sc
      BY <2>3, <1>2, <1>4 DEF NextSignature
    <3>2. f[i + 2] - f[i + 1] >= 1 /\ f[i + 2] \in 1 .. pc
      BY <2>1, <2>2, <3>1, <1>2 DEF Assignment
    <3>3. QED BY <3>1, <3>2, <2>2, <1>2
  <2>4. CASE ~hit
    <3>1. ~Valid(match.signatures[i + 1], match.pubKeys[j + 1])
      BY <1>9, <1>c, <2>4 DEF NextSig, NextKey
    <3>2. f[i + 1] # j + 1
      BY <2>2, <3>1 DEF Assignment
    <3>3. QED BY <3>2, <2>2, <2>4, <1>2, <1>4 DEF NextSignature
  <2>5. QED BY <2>3, <2>4
<1> HIDE DEF gone
<1>10. QED BY <1>1, <1>3, <1>4, <1>d, <1>5, <1>8, <1>9 DEF MatchInv

(* The invariant is one.                                                   *)
THEOREM MatchInvariant == MatchSpec => []MatchInv
<1>1. MatchInit => MatchInv
  BY DEF MatchInit, MatchInv
<1>2. MatchInv /\ [MatchNext]_matchVars => MatchInv'
  <2> SUFFICES ASSUME MatchInv, [MatchNext]_matchVars
               PROVE  MatchInv'
    OBVIOUS
  <2>1. CASE MatchBegins
    BY <2>1, BeginsSound
  <2>2. CASE MatchStep
    BY <2>2, StepSound
  <2>3. CASE MatchEnds
    BY <2>3 DEF MatchEnds, MatchInv
  <2>4. CASE UNCHANGED matchVars
    BY <2>4 DEF matchVars, MatchInv, Running, Sound, Greedy, Assignable,
                Assignment, Valid, WellFormed, TooFew, signaturesCount,
                pubKeysCount
  <2>5. QED BY <2>1, <2>2, <2>3, <2>4 DEF MatchNext
<1>3. QED BY <1>1, <1>2, PTL DEF MatchSpec

(* While the message is there, CHECKMULTISIG refuses no signatures that    *)
(* are valid for keys in the given order, and when no bytes are malformed  *)
(* it accepts no others: for all keys, signatures and answers of OpenSSL.  *)
THEOREM MultisigIsExact == MatchSpec => []MatchIsExact
<1>1. MatchInv => MatchIsExact
  <2> SUFFICES ASSUME MatchInv, match # None, ~Matching, ~match.deleted
               PROVE  /\ Assignable(signaturesCount, pubKeysCount)
                           => match.fSuccess
                      /\ match.fSuccess /\ WellFormed
                           => Assignable(signaturesCount, pubKeysCount)
    BY DEF MatchIsExact, Ended
  <2> DEFINE i == match.i  j == match.j  sc == signaturesCount  pc == pubKeysCount
  <2>1. Running /\ Greedy /\ (WellFormed => Sound)
    BY DEF MatchInv
  <2>2. /\ i \in Nat /\ j \in Nat /\ sc \in Nat /\ pc \in Nat
        /\ match.fSuccess \in BOOLEAN /\ sc <= pc /\ i <= sc /\ j <= pc
    BY <2>1 DEF Running, signaturesCount, pubKeysCount
  <2>3. ASSUME match.fSuccess, WellFormed PROVE Assignable(sc, pc)
    <3>1. sc - i <= pc - j
      BY <2>1, <2>2, <2>3 DEF Running, TooFew
    <3>2. i = sc
      BY <3>1, <2>2, <2>3 DEF Matching
    <3>3. QED BY <3>2, <2>1, <2>2, <2>3, MoreKeys DEF Sound
  <2>4. ASSUME ~match.fSuccess, Assignable(sc, pc) PROVE FALSE
    <3>1. PICK f \in [1 .. sc -> 1 .. pc] : Assignment(sc, pc, f)
      BY <2>4 DEF Assignable
    <3>2. sc - i > pc - j
      BY <2>1, <2>2, <2>4 DEF Running, TooFew
    <3>3. i < sc
      BY <3>2, <2>2
    <3>4. i + 1 \in 1 .. sc /\ sc \in 1 .. sc
      BY <3>3, <2>2
    <3>5. f[i + 1] > j /\ f[i + 1] \in 1 .. pc /\ f[sc] \in 1 .. pc
      BY <2>1, <3>1, <3>3, <3>4 DEF Greedy
    <3>6. f[sc] - f[i + 1] >= sc - (i + 1)
      <4>1. CASE i + 1 = sc
        BY <4>1, <3>5, <2>2
      <4>2. CASE i + 1 < sc
        BY <4>2, <3>1, <3>4 DEF Assignment
      <4>3. QED BY <4>1, <4>2, <3>4
    <3>7. f[sc] > j + (sc - (i + 1))
      BY <3>5, <3>6, <2>2
    <3>8. QED BY <3>2, <3>5, <3>7, <2>2
  <2>5. QED BY <2>2, <2>3, <2>4
<1>2. QED BY <1>1, MatchInvariant, PTL
=============================================================================
