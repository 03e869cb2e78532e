--------------------------- MODULE CheckMultisig ---------------------------
(***************************************************************************)
(* The loop of CHECKMULTISIG that matches signatures with public keys      *)
(* (ExecutionEngine.cpp).  A step asks Crypto::VerifySignature about one   *)
(* signature and one key: i signatures have their key, j keys were tried.  *)
(* The message is the same for all, and deleted says that it is gone.      *)
(***************************************************************************)
EXTENDS Integers, Sequences

CONSTANTS
  Signature, PubKey,   \* the bytes that have the form of one
  Uncompressed,        \* the keys of 65 bytes that begin with 4
  Bytes                \* what the stack may give for either

VARIABLES
  match,    \* the locals of the loop while it runs, or None
  answer    \* what OpenSSL says of a signature and a key, 1 or 0

matchVars == <<match, answer>>

None == [i |-> -1]

(* For an uncompressed key VerifySignature reads the message in place of   *)
(* the key, and deletes it when it is done.                                *)
Deletes(signature, pubKey) == signature \in Signature /\ pubKey \in Uncompressed

(* The answers that are possible: -1 for bytes that do not have the form   *)
(* of a signature or of a key, and either of the others when the message   *)
(* is taken for the key, or was deleted before.                            *)
VerifySignature(signature, pubKey, deleted) ==
  IF Deletes(signature, pubKey) THEN 0 .. 1
  ELSE IF <<signature, pubKey>> \notin DOMAIN answer THEN {-1}
  ELSE IF deleted THEN 0 .. 1 ELSE {answer[<<signature, pubKey>>]}

(* The loop takes any answer but 0 for a match; CHECKSIG wants 1.          *)
Matches(a) == a # 0

Locals(pubKeys, signatures, i, j, fSuccess, deleted) ==
  [pubKeys |-> pubKeys, signatures |-> signatures, i |-> i, j |-> j,
   fSuccess |-> fSuccess, deleted |-> deleted]

Entered(pubKeys, signatures) ==
  Locals(pubKeys, signatures, 0, 0, TRUE, FALSE)

pubKeysCount == Len(match.pubKeys)

signaturesCount == Len(match.signatures)

(* The check of the counts before the loop.                                *)
Countable(pubKeys, signatures) ==
  Len(pubKeys) > 0 /\ Len(signatures) > 0 /\ Len(signatures) <= Len(pubKeys)

(* More signatures are left than keys.                                     *)
TooFew(i, j) == signaturesCount - i > pubKeysCount - j

(* The loop's condition.                                                   *)
Matching ==
  match # None /\ match.fSuccess
    /\ match.i < signaturesCount /\ match.j < pubKeysCount

NextSig == match.signatures[match.i + 1]

NextKey == match.pubKeys[match.j + 1]

(* Mutant: a signature that fails is left behind.                          *)
SkipsSignature(hit) == match.i + 1

(* The first signature that is left, after one was compared.               *)
NextSignature(hit) == IF hit THEN match.i + 1 ELSE match.i

MatchStep ==
  /\ Matching
  /\ \E a \in VerifySignature(NextSig, NextKey, match.deleted) :
       LET i == NextSignature(Matches(a))
           j == match.j + 1
       IN  match' = Locals(match.pubKeys, match.signatures, i, j, ~TooFew(i, j),
                           match.deleted \/ Deletes(NextSig, NextKey))
  /\ UNCHANGED answer

(* The result is pushed.                                                   *)
MatchEnds ==
  /\ match # None /\ ~Matching
  /\ match' = None /\ UNCHANGED answer

MatchInit == match = None /\ answer \in [Signature \X PubKey -> 0 .. 1]

MatchBegins ==
  /\ match = None
  /\ \E pubKeys \in Seq(Bytes), signatures \in Seq(Bytes) :
       /\ Countable(pubKeys, signatures)
       /\ match' = Entered(pubKeys, signatures)
  /\ UNCHANGED answer

MatchNext == MatchBegins \/ MatchStep \/ MatchEnds

MatchSpec == MatchInit /\ [][MatchNext]_matchVars

----------------------------------------------------------------------------
(* Properties.                                                             *)

(* What the answer 1 says, and the only one that says it (Crypto.h).      *)
Valid(signature, pubKey) ==
  <<signature, pubKey>> \in DOMAIN answer /\ answer[<<signature, pubKey>>] = 1

(* The first n signatures are valid for keys among the first m, each one   *)
(* for its own and in the same order: f[b] is at least as far from f[a] as *)
(* the signature b is from a.                                              *)
Assignment(n, m, f) ==
  /\ f \in [1 .. n -> 1 .. m]
  /\ \A a \in 1 .. n : Valid(match.signatures[a], match.pubKeys[f[a]])
  /\ \A a, b \in 1 .. n : a < b => f[b] - f[a] >= b - a

Assignable(n, m) == \E f \in [1 .. n -> 1 .. m] : Assignment(n, m, f)

(* All bytes that were given have the form of a signature or of a key.     *)
WellFormed ==
  /\ \A a \in 1 .. signaturesCount : match.signatures[a] \in Signature
  /\ \A b \in 1 .. pubKeysCount : match.pubKeys[b] \in PubKey \cup Uncompressed

Ended == match # None /\ ~Matching

(* The one pass over the keys, which gives up as soon as fewer keys than   *)
(* signatures are left, never refuses signatures that are valid for keys   *)
(* in the order in which both were given; and when no bytes are malformed  *)
(* it accepts no others.  Both need the message to be there to the end.    *)
MatchIsExact ==
  Ended /\ ~match.deleted =>
    /\ Assignable(signaturesCount, pubKeysCount) => match.fSuccess
    /\ match.fSuccess /\ WellFormed => Assignable(signaturesCount, pubKeysCount)

(* The loop accepts only what VerifySignature answers 1, "True", for: -1   *)
(* is "ERROR" (Crypto.h), and malformed bytes are the key of nothing.      *)
AcceptsOnlyTrue ==
  Ended /\ ~match.deleted /\ match.fSuccess =>
    Assignable(signaturesCount, pubKeysCount)
=============================================================================
