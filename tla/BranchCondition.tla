---------------------------- MODULE BranchCondition ----------------------------
(***************************************************************************)
(* bytecodecompiler.cpp, cbranch_cmpl: the arithmetic of CBRANCH.          *)
(*                                                                         *)
(* The branch adds its immediate to the register and jumps back when the   *)
(* condition bits of the sum are all zero.  Nothing else in the loop       *)
(* writes the register (BytecodeCompiler, ConditionUndisturbed), so the    *)
(* immediate alone decides how often the loop repeats: the compiler sets   *)
(* the lowest condition bit of it and clears the bit below.                *)
(***************************************************************************)
EXTENDS Integers

CONSTANTS
    Register_Bits,   \* 64 in the code
    Imm_Bits,        \* 32 in the code
    Rx_Jump_Bits,    \* 8 in the code
    Rx_Jump_Offset,  \* 8 in the code
    Cond_Values      \* values of modCond(), 16 in the code

ASSUME BranchAssumption ==
    /\ Register_Bits \in Nat /\ Imm_Bits \in 1 .. Register_Bits
    /\ Rx_Jump_Bits \in Nat \ {0}
    /\ Rx_Jump_Offset \in Nat \ {0}  \* static_assert(Rx_Jump_Offset > 0)
    /\ Cond_Values \in Nat \ {0}
    /\ Cond_Values - 1 + Rx_Jump_Offset + Rx_Jump_Bits < Imm_Bits

VARIABLES
    r,      \* the register
    shift,  \* lowest condition bit
    imm,    \* the immediate the branch adds, a value of the register's width
    jumps   \* jumps the branch has taken in succession, -1 when it did not

branchVars == <<r, shift, imm, jumps>>

-----------------------------------------------------------------------------
Bit(n, k) == (n \div 2 ^ k) % 2
SetBit(n, k) == n + (1 - Bit(n, k)) * 2 ^ k
ClearBit(n, k) == n - Bit(n, k) * 2 ^ k

(* The processor extends a 32-bit immediate by its sign. *)
SignExtend(n) ==
    IF Bit(n, Imm_Bits - 1) = 1 THEN n + 2 ^ Register_Bits - 2 ^ Imm_Bits ELSE n

(* Variant of Immediate: the bit below the condition is left as it is. *)
ImmediateUncleared(n, s) == SignExtend(SetBit(n, s))
Immediate(n, s) == SignExtend(ClearBit(SetBit(n, s), s - 1))

ConditionZero(n, s) == (n \div 2 ^ s) % 2 ^ Rx_Jump_Bits = 0

BranchInit ==
    /\ r \in 0 .. 2 ^ Register_Bits - 1
    /\ shift \in {c + Rx_Jump_Offset : c \in 0 .. Cond_Values - 1}
    /\ imm \in {Immediate(n, shift) : n \in 0 .. 2 ^ Imm_Bits - 1}
    /\ jumps = 0

Branch ==
    LET sum == (r + imm) % 2 ^ Register_Bits
    IN  /\ jumps >= 0
        /\ r' = sum
        /\ jumps' = IF ConditionZero(sum, shift) THEN jumps + 1 ELSE -1
        /\ UNCHANGED <<shift, imm>>

BranchNext == Branch \/ (jumps = -1 /\ UNCHANGED branchVars)

BranchSpec == BranchInit /\ [][BranchNext]_branchVars

-----------------------------------------------------------------------------
(* "This limits the number of successive jumps to 2": whatever the         *)
(* register and the immediate are, a third jump in a row does not happen.  *)
AtMostTwoJumps == jumps <= 2
=============================================================================
