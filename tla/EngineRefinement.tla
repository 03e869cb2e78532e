-------------------------- MODULE EngineRefinement --------------------------
(***************************************************************************)
(* The engine implements the machine of CallReturn: forget the scripts,    *)
(* the pointers, the alt stacks and the gas, and do not tell the two       *)
(* faults apart.                                                           *)
(***************************************************************************)
EXTENDS ExecutionEngine

Debt(c) == [owes |-> c.due, items |-> c.eval]

Debts == [i \in DOMAIN invocation |-> Debt(invocation[i])]

Status == IF state = "FAULT_BY_GAS" THEN "FAULT" ELSE state

Machine == INSTANCE CallReturn
             WITH frames <- Debts, results <- resultStack, status <- Status

(* Whatever the scripts are, and whatever the host does between two        *)
(* instructions, each step of the engine is a step of that machine or none:*)
(* a frame pays what the call that led to it asked for, or faults and pays *)
(* nothing, and no frame touches the items of another.                     *)
CallsAndReturns == Machine!Spec
=============================================================================
