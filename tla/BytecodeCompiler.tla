--------------------------- MODULE BytecodeCompiler ---------------------------
(***************************************************************************)
(* bytecodecompiler.cpp and VirtualMachine::compileProgram: a RandomX      *)
(* program is compiled to machine code, one instruction after another, in  *)
(* a single pass, and the code is then run by the jit's loop.              *)
(*                                                                         *)
(* Two decisions of the compiler reach across instructions: where CBRANCH  *)
(* jumps to (the instruction after the last one that used its register),   *)
(* and which CFROUND can be overwritten by nops because the next CFROUND   *)
(* comes before any instruction that rounds.  An emitted instruction is    *)
(* its size, what it does to the rounding mode or to the control flow, and *)
(* the displacement of its jump; arithmetic is left out, so that whether a *)
(* branch is taken is any choice.                                          *)
(***************************************************************************)
EXTENDS Integers, Sequences, FiniteSets

CONSTANTS
    Rx_Program_Size,  \* instructions of a program, 256 in the code
    Instructions,     \* instructions the program is made of
    StaleOffset,      \* instr_offset keeps what the previous program left
    MaxIterations     \* bound: iterations of the jit's loop, 2048 in the code

Registers == 0 .. 7

(* Immediates are uint32_t. *)
Immediates == 0 .. 65535

RegisterOps == {"ISUB_R", "IXOR_R", "IMUL_R"}
MemoryOps == {"IADD_M", "ISUB_M", "IXOR_M", "IMUL_M", "IMULH_M", "ISMULH_M"}
RotateOps == {"IROR_R", "IROL_R"}
RoundingOps == {"FADD_R", "FADD_M", "FSUB_R", "FSUB_M", "FMUL_R", "FDIV_M", "FSQRT_R"}
PlainOps == {"FSWAP_R", "FSCAL_R", "ISTORE"}
Bytecode == RegisterOps \union MemoryOps \union RotateOps \union RoundingOps \union PlainOps
            \union {"IADD_RS", "IMULH_R", "ISMULH_R", "IMUL_RCP", "INEG_R", "ISWAP_R",
                    "CBRANCH", "CFROUND"}

RxInstruction == [opcode : Bytecode, dst : Registers, src : Registers, imm32 : Immediates]

ASSUME BytecodeAssumption ==
    /\ Rx_Program_Size \in Nat \ {0}
    /\ Instructions \subseteq RxInstruction
    /\ StaleOffset \in Int
    /\ MaxIterations \in Nat

VARIABLES
    program,             \* the instructions compiled so far
    code,                \* what was emitted for each
    code_size,
    instr_offset,
    reg_usage,
    last_fp_instr,
    last_cfround_instr,
    stage,               \* "compile", "run" or "done"
    rip,                 \* offset into the program's code
    mxcsr,               \* instruction that set the rounding mode in effect
    fprc,                \* CFROUND that came last in the program's order
    iteration            \* of the jit's loop

compilerVars == <<program, code, code_size, instr_offset, reg_usage, last_fp_instr,
                  last_cfround_instr>>
runVars == <<rip, mxcsr, fprc, iteration>>
vars == <<compilerVars, stage, runVars>>

-----------------------------------------------------------------------------
Sib_Reg_Idx == 4
Displacement_Reg_Idx == 5
Max_Program_Size == 32 * Rx_Program_Size
Jmp_Code_Size == 5

PowerOfTwo(n) == \E k \in 0 .. 15 : n = 2 ^ k

(* A scaled address needs one byte more when its base is R12. *)
Sib(register) == IF register = Sib_Reg_Idx THEN 1 ELSE 0

(* Size of an instruction that takes an immediate when src = dst. *)
RegisterSize == [ISUB_R |-> <<3, 7>>, IXOR_R |-> <<3, 7>>, IMUL_R |-> <<4, 7>>]

(* Size of a memory operand's instruction, and with an absolute address. *)
MemorySize == [IADD_M |-> <<17, 7>>, ISUB_M |-> <<17, 7>>, IXOR_M |-> <<17, 7>>,
               IMUL_M |-> <<19, 8>>, IMULH_M |-> <<24, 13>>, ISMULH_M |-> <<24, 13>>]

FixedSize == [IMULH_R |-> 9, ISMULH_R |-> 9, INEG_R |-> 3, FSWAP_R |-> 5, FADD_R |-> 4,
              FSUB_R |-> 5, FSCAL_R |-> 4, FMUL_R |-> 4, FSQRT_R |-> 4]

FloatMemorySize == [FADD_M |-> 22, FSUB_M |-> 23, FDIV_M |-> 31]

(* IMUL_RCP by zero or by a power of two and ISWAP_R of one register are   *)
(* no instructions at all; a rotation by 0 is one without code.            *)
NoOperation(ins) ==
    \/ ins.opcode = "IMUL_RCP" /\ (ins.imm32 = 0 \/ PowerOfTwo(ins.imm32))
    \/ ins.opcode = "ISWAP_R" /\ ins.src = ins.dst

NoRotation(ins) ==
    ins.opcode \in RotateOps /\ ins.src = ins.dst /\ ins.imm32 % 64 = 0

RotateSize(ins) ==
    IF ins.src # ins.dst THEN 6 ELSE IF NoRotation(ins) THEN 0 ELSE 4

CfroundSize(ins) == IF ins.imm32 % 64 # 0 THEN 16 ELSE 12

(* Bytes an instruction other than CBRANCH is compiled to. *)
Size(ins) ==
    LET op == ins.opcode
        own == IF ins.src = ins.dst THEN 2 ELSE 1
    IN  IF NoOperation(ins)
        THEN 0
        ELSE CASE op = "IADD_RS"                -> IF ins.dst = Displacement_Reg_Idx THEN 8 ELSE 4
               [] op \in RegisterOps            -> RegisterSize[op][own]
               [] op \in MemoryOps              -> MemorySize[op][own] +
                                                   (IF own = 1 THEN Sib(ins.src) ELSE 0)
               [] op \in RotateOps              -> RotateSize(ins)
               [] op \in DOMAIN FixedSize       -> FixedSize[op]
               [] op \in DOMAIN FloatMemorySize -> FloatMemorySize[op] + Sib(ins.src)
               [] op = "IMUL_RCP"               -> 14
               [] op = "ISWAP_R"                -> 3
               [] op = "ISTORE"                 -> 17 + Sib(ins.dst)
               [] op = "CFROUND"                -> CfroundSize(ins)

(* Registers whose reg_usage an instruction sets; variant: a swap counts   *)
(* for its destination only.                                               *)
UsesDestination(ins) ==
    CASE NoOperation(ins)                                                  -> {}
      [] ins.opcode \in RoundingOps \union PlainOps \union {"CFROUND"}     -> {}
      [] ins.opcode = "CBRANCH"                                            -> Registers
      [] OTHER                                                             -> {ins.dst}

Uses(ins) ==
    CASE NoOperation(ins)                                                  -> {}
      [] ins.opcode \in RoundingOps \union PlainOps \union {"CFROUND"}     -> {}
      [] ins.opcode = "CBRANCH"                                            -> Registers
      [] ins.opcode = "ISWAP_R"                                            -> {ins.src, ins.dst}
      [] OTHER                                                             -> {ins.dst}

-----------------------------------------------------------------------------
Init ==
    /\ program = <<>>
    /\ code = <<>>
    /\ code_size = 0
    /\ instr_offset = [i \in 0 .. Rx_Program_Size - 1 |-> StaleOffset]
    /\ reg_usage = [r \in Registers |-> -1]
    /\ last_fp_instr = -1
    /\ last_cfround_instr = -1
    /\ stage = "compile"
    /\ rip = 0
    /\ mxcsr = -1
    /\ fprc = -1
    /\ iteration = 0

idx == Len(program)

(* What every instruction does: it is placed at code_size. *)
Emit(ins, size) ==
    /\ stage = "compile"
    /\ idx < Rx_Program_Size
    /\ program' = Append(program, ins)
    /\ instr_offset' = [instr_offset EXCEPT ![idx] = code_size]
    /\ code_size' = code_size + size
    /\ reg_usage' = [r \in Registers |-> IF r \in Uses(ins) THEN idx ELSE reg_usage[r]]
    /\ UNCHANGED <<stage, runVars>>

Emitted(kind, size, displacement) ==
    [kind |-> kind, size |-> size, displacement |-> displacement]

(* Integer instructions and those that move data. *)
CompilePlain(ins) ==
    /\ ins.opcode \notin RoundingOps \union {"CBRANCH", "CFROUND"}
    /\ Emit(ins, Size(ins))
    /\ code' = Append(code, Emitted("plain", Size(ins), 0))
    /\ UNCHANGED <<last_fp_instr, last_cfround_instr>>

(* Instructions whose result depends on the rounding mode. *)
CompileRounding(ins) ==
    /\ ins.opcode \in RoundingOps
    /\ Emit(ins, Size(ins))
    /\ code' = Append(code, Emitted("rounding", Size(ins), 0))
    /\ last_fp_instr' = idx
    /\ UNCHANGED last_cfround_instr

(* cbranch_cmpl: a jump over more than 128 bytes takes 4 bytes more; it    *)
(* counts as a rounding instruction when its loop has one.                 *)
JmpTarget(ins) == reg_usage[ins.dst] + 1

LoopRounds(target) == target <= last_fp_instr

(* Variant of JmpOffset: the displacement counts from the short form. *)
JmpOffsetShort(target, size) ==
    (IF target = idx THEN code_size ELSE instr_offset[target]) - code_size - 16
JmpOffset(target, size) ==
    (IF target = idx THEN code_size ELSE instr_offset[target]) - code_size - size

CompileCbranch(ins) ==
    LET target == JmpTarget(ins)
        size == IF JmpOffset(target, 16) >= -128 THEN 16 ELSE 20
    IN  /\ ins.opcode = "CBRANCH"
        /\ Emit(ins, size)
        /\ code' = Append(code, Emitted("branch", size, JmpOffset(target, size)))
        /\ last_fp_instr' = IF LoopRounds(target) THEN idx ELSE last_fp_instr
        /\ UNCHANGED last_cfround_instr

(* cfround_cmpl: the previous CFROUND is overwritten by nops of its size   *)
(* if nothing rounds since; variant: whatever comes between.               *)
AlwaysRedundant == last_cfround_instr >= 0
Redundant == last_cfround_instr > last_fp_instr

(* Variant of NopSize: the short form's nop. *)
NopSizeShort(ins) == 12
NopSize(ins) == IF ins.imm32 % 64 # 0 THEN 16 ELSE 12

CompileCfround(ins) ==
    LET previous == last_cfround_instr + 1
        kept == IF Redundant
                THEN [code EXCEPT ![previous] = Emitted("nop", NopSize(program[previous]), 0)]
                ELSE code
    IN  /\ ins.opcode = "CFROUND"
        /\ Emit(ins, Size(ins))
        /\ code' = Append(kept, Emitted("cfround", Size(ins), 0))
        /\ last_cfround_instr' = idx
        /\ UNCHANGED last_fp_instr

(* The end of compileProgram: a jump to the loop's finalization and at     *)
(* most 8 nops behind it, or only nops where no jump has room.             *)
FinishProgram ==
    /\ stage = "compile"
    /\ idx = Rx_Program_Size
    /\ \/ /\ code_size < Max_Program_Size - Jmp_Code_Size
          /\ code' = Append(code, Emitted("jump", Jmp_Code_Size,
                                          Max_Program_Size - (code_size + Jmp_Code_Size)))
       \/ /\ code_size >= Max_Program_Size - Jmp_Code_Size
          /\ code' = Append(code, Emitted("nop", Max_Program_Size - code_size, 0))
    /\ stage' = "run"
    /\ UNCHANGED <<program, code_size, instr_offset, reg_usage, last_fp_instr,
                   last_cfround_instr, runVars>>

-----------------------------------------------------------------------------
(* The processor.  Items are counted from 0; item Rx_Program_Size is the   *)
(* end that FinishProgram emits.                                           *)
Item(i) == code[i + 1]
Start(i) == IF i = Rx_Program_Size THEN code_size ELSE instr_offset[i]

At(i) == stage = "run" /\ rip = Start(i) /\ Item(i).size > 0

CodeItems == 0 .. Rx_Program_Size

(* What the reference interpreter's rounding mode would be after item i.   *)
Fprc(i) == IF i < Rx_Program_Size /\ program[i + 1].opcode = "CFROUND" THEN i ELSE fprc

FallThrough(i) ==
    /\ At(i)
    /\ Item(i).kind # "jump"
    /\ rip' = rip + Item(i).size
    /\ mxcsr' = IF Item(i).kind = "cfround" THEN i ELSE mxcsr
    /\ fprc' = Fprc(i)
    /\ UNCHANGED <<compilerVars, stage, iteration>>

(* A branch that is taken, and the jump at the end. *)
Jump(i) ==
    /\ At(i)
    /\ Item(i).kind \in {"branch", "jump"}
    /\ rip' = rip + Item(i).size + Item(i).displacement
    /\ UNCHANGED <<compilerVars, stage, mxcsr, fprc, iteration>>


(* Loop finalization, behind the program's code, and the loop's next       *)
(* iteration: they do not round.                                           *)
Iterate ==
    /\ stage = "run"
    /\ rip = Max_Program_Size
    /\ IF iteration < MaxIterations - 1
       THEN rip' = 0 /\ iteration' = iteration + 1 /\ UNCHANGED stage
       ELSE stage' = "done" /\ UNCHANGED <<rip, iteration>>
    /\ UNCHANGED <<compilerVars, mxcsr, fprc>>

Compile(ins) ==
    \/ CompilePlain(ins)
    \/ CompileRounding(ins)
    \/ CompileCbranch(ins)
    \/ CompileCfround(ins)

Next ==
    \/ \E ins \in Instructions : Compile(ins)
    \/ FinishProgram
    \/ \E i \in CodeItems : FallThrough(i) \/ Jump(i)
    \/ Iterate
    \/ stage = "done" /\ UNCHANGED vars

Spec == Init /\ [][Next]_vars

-----------------------------------------------------------------------------
(* Types of the compiler's fields. *)
CompilerTypeOK ==
    /\ program \in Seq(Instructions)
    /\ code_size \in 0 .. Max_Program_Size
    /\ instr_offset \in [0 .. Rx_Program_Size - 1 -> Int]
    /\ reg_usage \in [Registers -> -1 .. Rx_Program_Size - 1]
    /\ last_fp_instr \in -1 .. Rx_Program_Size - 1
    /\ last_cfround_instr \in -1 .. Rx_Program_Size - 1
    /\ stage \in {"compile", "run", "done"}

(* Every instruction that rounds does so in the mode of the CFROUND that   *)
(* came last in the program's own order, whichever branches are taken: the *)
(* CFROUNDs that were overwritten are not missed.                          *)
RoundingExact ==
    \A i \in CodeItems : At(i) /\ Item(i).kind = "rounding" => mxcsr = fprc

(* The jit's code is only ever entered at the start of an instruction, or  *)
(* just behind the program: no jump and no nop leads into the middle of    *)
(* one.                                                                    *)
LandsOnInstruction ==
    stage = "run" => rip = Max_Program_Size \/ \E i \in CodeItems : At(i)

(* Integer registers the code of an instruction writes. *)
WritesNothing(ins) ==
    \/ NoOperation(ins) \/ NoRotation(ins)
    \/ ins.opcode \in RoundingOps \union PlainOps \union {"CFROUND"}
Writes(ins) ==
    IF WritesNothing(ins) THEN {}
    ELSE {ins.dst} \union (IF ins.opcode = "ISWAP_R" THEN {ins.src} ELSE {})

(* The instructions a taken branch goes back over. *)
LoopOf(b) == {i \in 0 .. b - 1 : Start(i) >= Start(b) + Item(b).size + Item(b).displacement}

(* Nothing inside a branch's loop writes the branch's register or branches *)
(* itself: only the branch's own addition changes its condition, which the *)
(* code relies on when it "limits the number of successive jumps to 2".    *)
ConditionUndisturbed ==
    \A b \in 0 .. idx - 1 : program[b + 1].opcode = "CBRANCH" =>
        \A i \in LoopOf(b) : /\ program[i + 1].opcode # "CBRANCH"
                             /\ program[b + 1].dst \notin Writes(program[i + 1])

(* The code of the instructions lies one behind the other in the buffer,   *)
(* with room left for every instruction still to come.                     *)
CodeFits ==
    /\ \A i \in 0 .. idx - 1 :
         (IF i = idx - 1 THEN code_size ELSE instr_offset[i + 1])
            = instr_offset[i] + Item(i).size
    /\ code_size <= 32 * idx
=============================================================================
