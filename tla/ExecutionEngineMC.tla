------------------------ MODULE ExecutionEngineMC ------------------------
(***************************************************************************)
(* Small instances of ExecutionEngine.                                     *)
(***************************************************************************)
EXTENDS EngineRefinement

(* Every program of at most three of these instructions.  Some offsets     *)
(* land inside an operand, before the script or at its end, and a CALL may *)
(* lack its operand or find it in the instruction that follows.            *)
Instructions ==
  {<<PUSH0>>, <<PUSH1>>, <<DUP>>, <<RET>>, <<THROWIFNOT>>,
   <<JMP, 0, 0>>, <<JMP, 4, 0>>, <<JMPIF, 253, 255>>, <<JMPIFNOT, 3, 0>>,
   <<CALL>>, <<CALL, 3, 0>>, <<CALL, 255, 255>>, <<CALL_I, 1, 1, 3, 0>>,
   <<CALL_I, 0, 2, 253, 255>>}

Programs ==
  Instructions
    \cup {p[1] \o p[2] : p \in Instructions \X Instructions}
    \cup {p[1] \o p[2] \o p[3] :
            p \in Instructions \X Instructions \X Instructions}

NoScripts == {}

----------------------------------------------------------------------------
(* Scripts that call other scripts and the host.  The first calls itself,  *)
(* the table's first is a tail call and its second leaves an item too many.*)

TailCaller == <<CALL_ET, 1, 1, 2>>

Doubler == <<DUP>>

HostTable == {TailCaller, Doubler}

Recursive == <<APPCALL, 3>>

SysLoop == <<SYSCALL, 1, 65, JMP, 253, 255>>

Calls ==
  {<<CALL_E, 1, 1, 1>>, <<CALL_E, 0, 0, 9>>, <<CALL_ED, 1, 1>>,
   <<CALL_ET, 255, 0, 2>>, <<CALL_EDT, 1, 0>>, <<APPCALL, 2>>, <<APPCALL, 0>>,
   <<TAILCALL, 2>>, <<TAILCALL, 0>>, <<SYSCALL, 1, 65>>, <<SYSCALL, 253, 1, 0>>,
   <<CALL_I, 1, 1, 3, 0>> \o TailCaller, <<CALL_I, 1, 1, 3, 0, CALL_ET, 0, 1, 2>>,
   <<PUSHDATA1, 1, 2>>, <<PUSHDATA4, 9, 0, 0, 0>>, <<147>>, <<THROW>>}

(* The hash of Doubler is on the stack, above an item.                     *)
DynamicCalls ==
  {<<CALL_ED, 1, 1>>, <<CALL_EDT, 1, 0>>, <<CALL_EDT, 1, 1>>, <<APPCALL, 0>>,
   <<TAILCALL, 0>>}

HostScripts ==
  {Recursive}
    \cup {<<PUSH1>> \o call \o after :
            call \in Calls, after \in {<< >>, <<FROMALTSTACK>>}}
    \cup {<<PUSH1, PUSHBYTES1, 2>> \o call : call \in DynamicCalls}

HostHash ==
  [s \in HostScripts \cup HostTable |->
     CASE s = TailCaller -> <<1>> [] s = Doubler -> <<2>>
       [] s = Recursive -> <<3>> [] OTHER -> <<8>>]

HostResults == {<< >>, << <<1>> >>}

(* Scripts that never end: a jump, a call, a call through the cache, a     *)
(* system call that is free of charge in between.                          *)
Loops ==
  {<<JMP, 0, 0>>, <<CALL, 0, 0>>, <<CALL_I, 0, 0, 254, 255>>,
   <<PUSH1, JMPIF, 255, 255>>, <<CALL_E, 0, 0, 3>>, Recursive, SysLoop,
   <<PUSH1, DUP, THROWIFNOT, JMP, 254, 255>>}

AllPrograms == Programs \cup Loops

ProgramHash ==
  [s \in AllPrograms \cup HostTable |->
     CASE s = TailCaller -> <<1>> [] s = Doubler -> <<2>> [] OTHER -> <<3>>]

(* A script that calls itself through CALL_E.                              *)
CallESelf == {<<CALL_E, 0, 0, 3>>}

CallESelfHash == [s \in CallESelf |-> <<3>>]

(* The result counts of a host that wants everything, or one item too.     *)
WantsAll == {-1}

WantsAllOrOne == {-1, 1}
=============================================================================
