----------------------------- MODULE EVMOpCode -----------------------------
(***************************************************************************)
(* The bytes of the opcodes the control model names (EVMOpCode.h).  Data   *)
(* opcodes are the stack, splice, bit, number, crypto and array opcodes:   *)
(* their cases in ExecutionEngine.cpp touch the two stacks of the running  *)
(* frame and nothing else of the control state.  Every other byte takes    *)
(* the default branch of the switch, which is that of THROW.               *)
(***************************************************************************)
EXTENDS Integers

PUSH0 == 0
PUSHBYTES1 == 1
PUSHBYTES75 == 75
PUSHDATA1 == 76
PUSHDATA2 == 77
PUSHDATA4 == 78
PUSHM1 == 79
PUSH1 == 81
PUSH16 == 96
NOP == 97
JMP == 98
JMPIF == 99
JMPIFNOT == 100
CALL == 101
RET == 102
APPCALL == 103
SYSCALL == 104
TAILCALL == 105
TOALTSTACK == 107
FROMALTSTACK == 108
DROP == 117
DUP == 118
CALL_I == 224
CALL_E == 225
CALL_ED == 226
CALL_ET == 227
CALL_EDT == 228
THROW == 240
THROWIFNOT == 241

DataOpcode ==
  {106, 109} \cup (114 .. 116) \cup (119 .. 135) \cup (139 .. 141)
    \cup (143 .. 156) \cup (158 .. 165) \cup (167 .. 170) \cup (172 .. 174)
    \cup (192 .. 205)

ControlOpcode ==
  (PUSH0 .. PUSHM1) \cup (PUSH1 .. PUSH16) \cup (NOP .. TAILCALL)
    \cup {TOALTSTACK, FROMALTSTACK, DROP, DUP}
    \cup (CALL_I .. CALL_EDT) \cup {THROW, THROWIFNOT}
=============================================================================
