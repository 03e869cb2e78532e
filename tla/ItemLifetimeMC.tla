--------------------------- MODULE ItemLifetimeMC ---------------------------
(***************************************************************************)
(* Small instances of ItemLifetime.                                        *)
(***************************************************************************)
EXTENDS ItemLifetime

(* All but the one whose operand is given up twice.                        *)
AllOpcodes == Opcode \ {"CALL_ED"}

(* A hash that was duplicated, and the call.                               *)
DynamicCallOpcodes == {"PUSH", "DUP", "CALL_ED"}

(* Maps, what is stored in them, and opcodes that free their operands.     *)
MapOpcodes ==
  {"PUSH", "DUP", "DROP", "ADD", "NEWSTRUCT", "NEWMAP", "PICKITEM", "SETITEM",
   "REMOVE", "VALUES"}

(* An array with an operand in it, and the sum of the two.                 *)
SharingOpcodes == {"PUSH", "DUP", "PACK", "ADD"}

(* Copies of an array of Structs.                                          *)
CopyOpcodes == {"PUSH", "DUP", "NEWSTRUCT", "VALUES"}
=============================================================================
