------------------------------- MODULE MCProgram -------------------------------
(* The virtual machine's program: compiled and run (a program of a few        *)
(* instructions: one or two of each way an instruction is compiled, with the  *)
(* operands that make it special); the loop around it; the call.              *)
EXTENDS BytecodeCompiler, ProgramFrame, CallFrame

Ins(op, d, s, imm) == [opcode |-> op, dst |-> d, src |-> s, imm32 |-> imm]

MCInstructions ==
    {Ins("FADD_R", 0, 0, 3), Ins("FDIV_M", 0, 4, 3), Ins("CFROUND", 0, 0, 3),
     Ins("CFROUND", 0, 0, 64), Ins("CBRANCH", 0, 1, 3), Ins("CBRANCH", 1, 1, 3),
     Ins("ISWAP_R", 0, 1, 3), Ins("IROR_R", 0, 0, 64)}

(* Half words of three bits: one of the line's offset, one above it that is   *)
(* still within the dataset, one above the dataset.  Eight items, two lines.  *)
MCBits == {6, 21, 31}
MCItemBits == {6, 21}
MCLineBits == {6}

(* Contents of the registers: number n as a half word, all registers unlike.  *)
MCHalf(n) == {b \in MCBits : \/ b = 6 /\ n % 2 = 1
                             \/ b = 21 /\ (n \div 2) % 2 = 1
                             \/ b = 31 /\ (n \div 4) % 2 = 1}
MCFile(m, n) == [i \in 0 .. 7 |-> [lo |-> MCHalf(m * i + n), hi |-> MCHalf(n * i + m)]]
MCFiles == {MCFile(1, 3), MCFile(3, 1), MCFile(5, 2)}
MCItems == [o \in SUBSET MCItemBits |->
              CASE o = {} -> MCFile(1, 3) [] o = {6} -> Zeros
                [] o = {21} -> MCFile(3, 1) [] OTHER -> MCFile(7, 5)]
MCPads == {[l \in SUBSET MCLineBits |-> IF l = {} THEN MCFile(1, 3) ELSE MCFile(3, 1)]}

(* Memory registers of two programs, both with bits outside of the dataset,   *)
(* and both choices of each read register.                                    *)
MCEntropies ==
    {[ma |-> {6, 31}, mx |-> {21, 31}, read |-> [k \in 0 .. 3 |-> k % 2]],
     [ma |-> {}, mx |-> {6, 21}, read |-> [k \in 0 .. 3 |-> 1 - (k % 2)]]}
MCClobbered == {[lo |-> {31}, hi |-> {21}]}

VARIABLE part

MCInit ==
    /\ part \in {"program", "frame", "call"}
    /\ Init /\ CallInit
    /\ FrameInit
    /\ part = "frame" \/ entropy = [ma |-> {}, mx |-> {6, 21}, read |-> [k \in 0 .. 3 |-> 1 - (k % 2)]]

MCNext ==
    /\ UNCHANGED part
    /\ \/ part = "program" /\ Next /\ UNCHANGED <<frameVars, callVars>>
       \/ part = "frame" /\ FrameNext /\ UNCHANGED <<vars, callVars>>
       \/ part = "call" /\ CallNext /\ UNCHANGED <<vars, frameVars>>

MCSpec == MCInit /\ [][MCNext]_<<part, vars, frameVars, callVars>>
=============================================================================
