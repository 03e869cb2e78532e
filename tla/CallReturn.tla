---------------------------- MODULE CallReturn ----------------------------
(***************************************************************************)
(* What the engine promises those who write scripts and those who host     *)
(* them: a machine that calls and returns.  A frame owes its caller a      *)
(* number of items, or all it has; nobody but the running frame changes    *)
(* items; a call hands items over, and a return pays what is owed.         *)
(*                                                                         *)
(* There are no scripts here, no instructions, no gas and no limits: what  *)
(* they do is to choose among these steps.                                 *)
(***************************************************************************)
EXTENDS Integers, Sequences, SequencesExt

VARIABLES
  frames,    \* the calls that have not returned, the running one at the end
  results,   \* what the last of them left
  status     \* NONE while it runs, then HALT or FAULT

vars == <<frames, results, status>>

All == -1

Init == frames = << >> /\ results = << >> /\ status = "NONE"

Running == Last(frames)

(* The frames below the n-th stay as they are.                             *)
Suspended(n) ==
  Len(frames') >= n - 1 /\ \A i \in 1 .. (n - 1) : frames'[i] = frames[i]

GoesOn == status' \in {status, "FAULT"}

(* Items are kept and given in order; a call may spend one, the hash.      *)
HandsOver(items, kept, given) ==
  /\ IsPrefix(kept \o given, items)
  /\ Len(items) <= Len(kept) + Len(given) + 1

Pays(f) == f.owes = All \/ f.owes <= Len(f.items)

Payment(f) ==
  IF f.owes = All THEN f.items
  ELSE SubSeq(f.items, Len(f.items) - f.owes + 1, Len(f.items))

----------------------------------------------------------------------------
(* The running frame changes its items.                                    *)
Work ==
  /\ frames # << >> /\ Len(frames') = Len(frames) /\ Suspended(Len(frames))
  /\ Last(frames').owes = Running.owes
  /\ GoesOn /\ UNCHANGED results

(* It hands some to a frame of its own.                                    *)
Call ==
  /\ frames # << >> /\ Len(frames') = Len(frames) + 1 /\ Suspended(Len(frames))
  /\ frames'[Len(frames)].owes = Running.owes
  /\ HandsOver(Running.items, frames'[Len(frames)].items, Last(frames').items)
  /\ GoesOn /\ UNCHANGED results

(* It hands some to a frame that takes its place, and its debt with it, or *)
(* a debt of everything.                                                   *)
TailCall ==
  /\ frames # << >> /\ Len(frames') = Len(frames) /\ Suspended(Len(frames))
  /\ Last(frames').owes \in {Running.owes, All}
  /\ \E n \in 0 .. Len(Running.items) :
       HandsOver(Running.items, SubSeq(Running.items, 1, n), Last(frames').items)
  /\ UNCHANGED <<results, status>>

(* It pays the frame below, or leaves its items as the results.            *)
Return ==
  /\ frames # << >> /\ Pays(Running) /\ Suspended(Len(frames) - 1)
  /\ IF Len(frames) = 1
     THEN /\ frames' = << >> /\ results' = results \o Payment(Running)
          /\ status' = "HALT"
     ELSE LET below == frames[Len(frames) - 1] IN
          /\ Len(frames') = Len(frames) - 1
          /\ Last(frames') = [owes |-> below.owes,
                              items |-> below.items \o Payment(Running)]
          /\ UNCHANGED <<results, status>>

(* A frame that cannot pay is gone, and its caller gets nothing.           *)
Default ==
  /\ frames # << >> /\ ~Pays(Running) /\ Suspended(Len(frames))
  /\ Len(frames') = Len(frames) - 1 /\ status' = "FAULT"
  /\ UNCHANGED results

Rest ==
  /\ frames = << >> /\ status' = "HALT"
  /\ UNCHANGED <<frames, results>>

----------------------------------------------------------------------------
(* The host.                                                               *)

Load ==
  /\ Len(frames') = Len(frames) + 1 /\ Suspended(Len(frames) + 1)
  /\ Last(frames').items = << >>
  /\ UNCHANGED <<results, status>>

Stop == status' = "FAULT" /\ UNCHANGED <<frames, results>>

Clean == frames' = << >> /\ results' = << >> /\ status' = "NONE"

Next == Work \/ Call \/ TailCall \/ Return \/ Default \/ Rest \/ Load \/ Stop \/ Clean

Spec == Init /\ [][Next]_vars
=============================================================================
