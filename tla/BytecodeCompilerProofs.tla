------------------------ MODULE BytecodeCompilerProofs ------------------------
(***************************************************************************)
(* Proofs about BytecodeCompiler, for programs of any size, made of any    *)
(* instructions, whose branches are taken or not in any way, in any number *)
(* of iterations.                                                          *)
(***************************************************************************)
EXTENDS BytecodeCompiler, TLAPS

Kinds == {"plain", "rounding", "branch", "cfround", "nop", "jump"}
Emission == [kind : Kinds, size : Nat, displacement : Int]

(* Where instruction i begins; where the next one will, for i = idx. *)
Off(i) == IF i = idx THEN code_size ELSE instr_offset[i]

Calls == 0 .. idx - 1     \* the instructions compiled so far
Ends == 0 .. idx

(* Types, and how far the compiler is. *)
Shape ==
    /\ program \in Seq(Instructions) /\ idx <= Rx_Program_Size
    /\ code \in Seq(Emission)
    /\ stage \in {"compile", "run", "done"}
    /\ stage = "compile" => Len(code) = idx
    /\ stage # "compile" => idx = Rx_Program_Size /\ Len(code) = Rx_Program_Size + 1
    /\ code_size \in Nat /\ code_size <= 32 * idx
    /\ instr_offset \in [0 .. Rx_Program_Size - 1 -> Int]
    /\ reg_usage \in [Registers -> -1 .. idx - 1]
    /\ last_fp_instr \in -1 .. idx - 1
    /\ last_cfround_instr \in -1 .. idx - 1

(* What each instruction was compiled to. *)
CompiledTo(ins, e) ==
    /\ ins.opcode = "CBRANCH" => e.kind = "branch" /\ e.size \in {16, 20}
    /\ ins.opcode # "CBRANCH" => e.size = Size(ins) /\ e.displacement = 0
    /\ ins.opcode = "CFROUND" => e.kind \in {"cfround", "nop"}
    /\ ins.opcode \in RoundingOps => e.kind = "rounding"
    /\ ins.opcode \notin RoundingOps \union {"CBRANCH", "CFROUND"} => e.kind = "plain"

Emissions == \A i \in Calls : CompiledTo(program[i + 1], Item(i))

(* The instructions lie one behind the other, those without code between.  *)
Layout ==
    /\ Off(0) = 0
    /\ \A i \in Calls : Off(i + 1) = Off(i) + Item(i).size
    /\ \A i \in Calls : \A j \in i + 1 .. idx : Off(i) + Item(i).size <= Off(j)
    /\ \A i \in Ends : \/ Off(i) = code_size
                       \/ \E j \in i .. idx - 1 : Off(j) = Off(i) /\ Item(j).size > 0

(* Nothing after reg_usage[r] has used r. *)
Usage ==
    \A r \in Registers : \A i \in Calls : i > reg_usage[r] => r \notin Uses(program[i + 1])

(* Branch b leads to instruction t, and none between uses its register. *)
Leads(b, t) ==
    /\ Off(b) + Item(b).size + Item(b).displacement = Off(t)
    /\ \A i \in t .. b - 1 : program[b + 1].dst \notin Uses(program[i + 1])

Branches ==
    \A b \in Calls : program[b + 1].opcode = "CBRANCH" => \E t \in 0 .. b : Leads(b, t)

Marked == last_cfround_instr >= 0 => program[last_cfround_instr + 1].opcode = "CFROUND"

Placement == Shape /\ Emissions /\ Layout /\ Usage /\ Branches /\ Marked

-----------------------------------------------------------------------------
LEMMA SizeBound ==
  ASSUME NEW ins \in RxInstruction, ins.opcode # "CBRANCH"
  PROVE  Size(ins) \in 0 .. 32
<1> DEFINE op == ins.opcode
<1>1. ins.opcode \in Bytecode
  BY DEF RxInstruction
<1>2. Sib(ins.src) \in {0, 1} /\ Sib(ins.dst) \in {0, 1}
  BY DEF Sib
<1>3. CASE NoOperation(ins)
  BY <1>3 DEF Size
<1>4. /\ DOMAIN FixedSize = {"IMULH_R", "ISMULH_R", "INEG_R", "FSWAP_R", "FADD_R", "FSUB_R",
                            "FSCAL_R", "FMUL_R", "FSQRT_R"}
      /\ DOMAIN FloatMemorySize = {"FADD_M", "FSUB_M", "FDIV_M"}
  BY DEF FixedSize, FloatMemorySize
<1> USE <1>4 DEF Size, RegisterOps, MemoryOps, RotateOps, RoundingOps, PlainOps
<1>5. CASE ~ NoOperation(ins) /\ op = "IADD_RS"
  BY <1>5
<1>6. CASE ~ NoOperation(ins) /\ op \in RegisterOps
  BY <1>6 DEF RegisterSize
<1>7. CASE ~ NoOperation(ins) /\ op \in MemoryOps
  BY <1>2, <1>7 DEF MemorySize
<1>8. CASE ~ NoOperation(ins) /\ op \in RotateOps
  BY <1>8 DEF RotateSize
<1>9. CASE ~ NoOperation(ins) /\ op \in DOMAIN FixedSize
  BY <1>9 DEF FixedSize
<1>10. CASE ~ NoOperation(ins) /\ op \in DOMAIN FloatMemorySize
  BY <1>2, <1>10 DEF FloatMemorySize
<1>11. CASE ~ NoOperation(ins) /\ op \in {"IMUL_RCP", "ISWAP_R", "ISTORE", "CFROUND"}
  BY <1>2, <1>11 DEF CfroundSize
<1>12. QED
  BY <1>1, <1>3, <1>5, <1>6, <1>7, <1>8, <1>9, <1>10, <1>11 DEF Bytecode

(* What has no code writes nothing. *)
LEMMA NoCode ==
  ASSUME NEW ins \in RxInstruction, ins.opcode # "CBRANCH", Size(ins) = 0
  PROVE  WritesNothing(ins) /\ ins.opcode # "CFROUND"
<1> DEFINE op == ins.opcode
<1>1. ins.opcode \in Bytecode
  BY DEF RxInstruction
<1>2. Sib(ins.src) \in {0, 1} /\ Sib(ins.dst) \in {0, 1}
  BY DEF Sib
<1>3. CASE NoOperation(ins)
  BY <1>3 DEF WritesNothing, NoOperation
<1>4. /\ DOMAIN FixedSize = {"IMULH_R", "ISMULH_R", "INEG_R", "FSWAP_R", "FADD_R", "FSUB_R",
                            "FSCAL_R", "FMUL_R", "FSQRT_R"}
      /\ DOMAIN FloatMemorySize = {"FADD_M", "FSUB_M", "FDIV_M"}
  BY DEF FixedSize, FloatMemorySize
<1> USE <1>4 DEF Size, RegisterOps, MemoryOps, RotateOps, RoundingOps, PlainOps
<1>5. CASE ~ NoOperation(ins) /\ op = "IADD_RS"
  BY <1>5
<1>6. CASE ~ NoOperation(ins) /\ op \in RegisterOps
  BY <1>6 DEF RegisterSize
<1>7. CASE ~ NoOperation(ins) /\ op \in MemoryOps
  BY <1>2, <1>7 DEF MemorySize
<1>8. CASE ~ NoOperation(ins) /\ op \in RotateOps
  BY <1>8 DEF RotateSize, WritesNothing
<1>9. CASE ~ NoOperation(ins) /\ op \in DOMAIN FixedSize
  BY <1>9 DEF FixedSize
<1>10. CASE ~ NoOperation(ins) /\ op \in DOMAIN FloatMemorySize
  BY <1>2, <1>10 DEF FloatMemorySize
<1>11. CASE ~ NoOperation(ins) /\ op \in {"IMUL_RCP", "ISWAP_R", "ISTORE", "CFROUND"}
  BY <1>2, <1>11 DEF CfroundSize
<1>12. QED
  BY <1>1, <1>3, <1>5, <1>6, <1>7, <1>8, <1>9, <1>10, <1>11 DEF Bytecode

LEMMA CfroundHasItsSize ==
  ASSUME NEW ins \in RxInstruction, ins.opcode = "CFROUND"
  PROVE  Size(ins) = NopSize(ins)
<1>1. /\ DOMAIN FixedSize = {"IMULH_R", "ISMULH_R", "INEG_R", "FSWAP_R", "FADD_R", "FSUB_R",
                            "FSCAL_R", "FMUL_R", "FSQRT_R"}
      /\ DOMAIN FloatMemorySize = {"FADD_M", "FSUB_M", "FDIV_M"}
  BY DEF FixedSize, FloatMemorySize
<1>2. ~ NoOperation(ins)
  BY DEF NoOperation
<1>3. QED
  BY <1>1, <1>2 DEF Size, NopSize, CfroundSize, RegisterOps, MemoryOps, RotateOps

(* What an instruction writes it uses, and a branch uses every register. *)
LEMMA WritesUsed ==
  ASSUME NEW ins \in RxInstruction
  PROVE  /\ Writes(ins) \subseteq Uses(ins)
         /\ ins.opcode = "CBRANCH" => Uses(ins) = Registers
<1>1. ins.opcode \in Bytecode /\ ins.dst \in Registers
  BY DEF RxInstruction
<1>2. CASE WritesNothing(ins)
  <2>1. Writes(ins) = {}
    BY <1>2 DEF Writes
  <2>2. ins.opcode = "CBRANCH" => ~ NoOperation(ins)
    BY DEF NoOperation
  <2>3. QED
    BY <2>1, <2>2 DEF Uses, RoundingOps, PlainOps
<1>3. CASE ~ WritesNothing(ins)
  <2>1. /\ ~ NoOperation(ins)
        /\ ins.opcode \notin RoundingOps \union PlainOps \union {"CFROUND"}
    BY <1>3 DEF WritesNothing
  <2>2. CASE ins.opcode = "CBRANCH"
    BY <1>1, <1>3, <2>1, <2>2 DEF Uses, Writes
  <2>3. CASE ins.opcode = "ISWAP_R"
    BY <1>1, <1>3, <2>1, <2>3 DEF Uses, Writes
  <2>4. CASE ins.opcode \notin {"CBRANCH", "ISWAP_R"}
    BY <1>1, <1>3, <2>1, <2>4 DEF Uses, Writes
  <2>5. QED
    BY <2>2, <2>3, <2>4
<1>4. QED
  BY <1>2, <1>3

-----------------------------------------------------------------------------
(* The n-th instruction is compiled to e; kept is what was compiled before, *)
(* in which no instruction changes its size.                                *)
Placed(n, ins, e, kept) ==
    /\ idx = n /\ idx' = n + 1 /\ n \in 0 .. Rx_Program_Size - 1
    /\ \A i \in 0 .. n - 1 : program'[i + 1] = program[i + 1]
    /\ program'[n + 1] = ins
    /\ \A i \in 0 .. n : Off(i)' = Off(i)
    /\ Off(n) = code_size /\ Off(n + 1)' = code_size' /\ code_size' = code_size + e.size
    /\ \A i \in 0 .. n - 1 : /\ Item(i)' = kept[i + 1]
                            /\ kept[i + 1].size = Item(i).size
                            /\ kept[i + 1].displacement = Item(i).displacement
    /\ Item(n)' = e

LEMMA EmitPlaces ==
  ASSUME Shape, NEW ins \in Instructions, NEW e \in Emission, e.size <= 32,
         Emit(ins, e.size),
         NEW kept \in Seq(Emission), Len(kept) = idx, code' = Append(kept, e),
         \A i \in Calls : /\ kept[i + 1].size = Item(i).size
                         /\ kept[i + 1].displacement = Item(i).displacement,
         last_fp_instr' \in {last_fp_instr, idx}, last_cfround_instr' \in {last_cfround_instr, idx}
  PROVE  Shape' /\ Placed(idx, ins, e, kept)
<1> USE BytecodeAssumption
<1>1. PICK n \in Nat : n = idx
  BY DEF Shape, idx
<1>2. /\ stage = "compile" /\ stage' = "compile" /\ n < Rx_Program_Size
      /\ program \in Seq(Instructions) /\ Len(program) = n
      /\ program' = Append(program, ins)
      /\ instr_offset' = [instr_offset EXCEPT ![n] = code_size]
      /\ code_size' = code_size + e.size
      /\ reg_usage' = [r \in Registers |-> IF r \in Uses(ins) THEN n ELSE reg_usage[r]]
      /\ e.size \in Nat
  BY <1>1 DEF Emit, Shape, idx, Emission
<1>3. /\ program' \in Seq(Instructions) /\ Len(program') = n + 1 /\ program'[n + 1] = ins
      /\ \A i \in 0 .. n - 1 : program'[i + 1] = program[i + 1]
  BY <1>2
<1>4. /\ code' \in Seq(Emission) /\ Len(code') = n + 1 /\ code'[n + 1] = e
      /\ \A i \in 0 .. n - 1 : code'[i + 1] = kept[i + 1]
  BY <1>1
<1>5. idx' = n + 1
  BY <1>3 DEF idx
<1>6. /\ code_size \in Nat /\ code_size <= 32 * n
      /\ instr_offset \in [0 .. Rx_Program_Size - 1 -> Int]
      /\ reg_usage \in [Registers -> -1 .. n - 1]
      /\ last_fp_instr \in -1 .. n - 1
      /\ last_cfround_instr \in -1 .. n - 1
  BY <1>1 DEF Shape
<1>7. /\ instr_offset' \in [0 .. Rx_Program_Size - 1 -> Int]
      /\ instr_offset'[n] = code_size
      /\ \A i \in 0 .. n - 1 : instr_offset'[i] = instr_offset[i]
  BY <1>2, <1>6
<1>8. Shape'
  <2>1. reg_usage' \in [Registers -> -1 .. (n + 1) - 1]
    <3>1. n \in -1 .. (n + 1) - 1 /\ \A r \in Registers : reg_usage[r] \in -1 .. (n + 1) - 1
      BY <1>1, <1>6
    <3>2. QED
      BY <1>2, <3>1
  <2>2. code_size' \in Nat /\ code_size' <= 32 * (n + 1)
    <3>1. code_size' = code_size + e.size /\ e.size \in Nat /\ code_size \in Nat /\ code_size <= 32 * n
      BY <1>2, <1>6
    <3>2. 32 * (n + 1) = 32 * n + 32
      OBVIOUS
    <3>3. QED
      BY <3>1, <3>2
  <2>3. last_fp_instr' \in -1 .. (n + 1) - 1 /\ last_cfround_instr' \in -1 .. (n + 1) - 1
    BY <1>1, <1>6
  <2>4. /\ idx' = n + 1 /\ idx' <= Rx_Program_Size /\ Len(code') = idx'
        /\ stage' = "compile" /\ stage' \in {"compile", "run", "done"}
    BY <1>1, <1>2, <1>4, <1>5
  <2>5. /\ program' \in Seq(Instructions) /\ code' \in Seq(Emission)
        /\ instr_offset' \in [0 .. Rx_Program_Size - 1 -> Int]
    BY <1>3, <1>4, <1>7
  <2>6. stage' # "compile" => idx' = Rx_Program_Size /\ Len(code') = Rx_Program_Size + 1
    BY <2>4
  <2>7. /\ reg_usage' \in [Registers -> -1 .. idx' - 1]
        /\ code_size' \in Nat /\ code_size' <= 32 * idx'
        /\ last_fp_instr' \in -1 .. idx' - 1 /\ last_cfround_instr' \in -1 .. idx' - 1
    BY <2>1, <2>2, <2>3, <2>4
  <2>8. QED
    BY <2>4, <2>5, <2>6, <2>7, Zenon DEF Shape
<1>9. \A i \in 0 .. n : Off(i)' = Off(i)
  BY <1>1, <1>5, <1>7 DEF Off
<1>10. Off(n) = code_size /\ Off(n + 1)' = code_size'
  BY <1>1, <1>5 DEF Off
<1>11. \A i \in 0 .. n - 1 : Item(i)' = kept[i + 1]
  BY <1>4 DEF Item
<1>12. Item(n)' = e
  BY <1>4 DEF Item
<1>13. Placed(n, ins, e, kept)
  <2>1. \A i \in 0 .. n - 1 : /\ kept[i + 1].size = Item(i).size
                            /\ kept[i + 1].displacement = Item(i).displacement
    BY <1>1 DEF Calls
  <2>2. n \in 0 .. Rx_Program_Size - 1
    BY <1>1, <1>2
  <2>3. QED
    BY <1>1, <1>2, <1>3, <1>5, <1>9, <1>10, <1>11, <1>12, <2>1, <2>2, Zenon DEF Placed
<1>14. QED
  BY <1>1, <1>8, <1>13

LEMMA LayoutStep ==
  ASSUME Shape, Layout, NEW n, NEW ins, NEW e \in Emission, NEW kept, Placed(n, ins, e, kept)
  PROVE  Layout'
<1> USE BytecodeAssumption
<1>1. /\ n \in Nat /\ idx = n /\ idx' = n + 1
      /\ \A i \in 0 .. n : Off(i)' = Off(i)
      /\ Off(n) = code_size /\ Off(n + 1)' = code_size' /\ code_size' = code_size + e.size
      /\ \A i \in 0 .. n - 1 : Item(i)'.size = Item(i).size
      /\ Item(n)'.size = e.size /\ e.size \in Nat /\ code_size \in Nat
  <2>1. /\ n \in 0 .. Rx_Program_Size - 1 /\ idx = n /\ idx' = n + 1
        /\ \A i \in 0 .. n : Off(i)' = Off(i)
        /\ Off(n) = code_size /\ Off(n + 1)' = code_size' /\ code_size' = code_size + e.size
        /\ \A i \in 0 .. n - 1 : Item(i)' = kept[i + 1] /\ kept[i + 1].size = Item(i).size
        /\ Item(n)' = e
    BY Zenon DEF Placed
  <2>2. code_size \in Nat /\ e.size \in Nat
    BY DEF Shape, Emission
  <2>3. \A i \in 0 .. n - 1 : Item(i)'.size = Item(i).size
    BY <2>1, Zenon
  <2>4. n \in Nat
    BY <2>1
  <2>5. QED
    BY <2>1, <2>2, <2>3, <2>4, Zenon
<1>2. \A i \in 0 .. n : Off(i) \in Int
  BY <1>1 DEF Off, Shape, Placed
<1>3. \A i \in 0 .. n - 1 : Item(i).size \in Nat
  <2>1. \A i \in 0 .. n - 1 : code[i + 1] \in Emission
    BY <1>1 DEF Shape, Placed
  <2>2. QED
    BY <2>1 DEF Item, Emission
<1>4. Off(0)' = 0
  BY <1>1 DEF Layout
<1>5. \A i \in 0 .. n : Off(i + 1)' = Off(i)' + Item(i)'.size
  BY <1>1 DEF Layout, Calls
<1>6. \A i \in 0 .. n : \A j \in i + 1 .. n + 1 : Off(i)' + Item(i)'.size <= Off(j)'
  <2>1. SUFFICES ASSUME NEW i \in 0 .. n, NEW j \in i + 1 .. n + 1
                 PROVE  Off(i)' + Item(i)'.size <= Off(j)'
    OBVIOUS
  <2>2. CASE i = n
    BY <1>1, <1>5, <2>2
  <2>3. CASE i < n /\ j <= n
    BY <1>1, <2>3 DEF Layout, Calls
  <2>4. CASE i < n /\ j = n + 1
    <3>1. Off(i) + Item(i).size <= Off(n)
      BY <1>1, <2>4 DEF Layout, Calls
    <3>2. i \in 0 .. n - 1
      BY <1>1, <2>4
    <3>3. QED
      BY <1>1, <1>2, <1>3, <2>4, <3>1, <3>2
  <2>5. QED
    BY <1>1, <2>2, <2>3, <2>4
<1>7. ASSUME NEW i \in 0 .. n + 1
      PROVE  Off(i)' = code_size' \/ \E j \in i .. n : Off(j)' = Off(i)' /\ Item(j)'.size > 0
  <2>1. CASE i = n + 1
    BY <1>1, <2>1
  <2>2. CASE i \in 0 .. n /\ Off(i) = code_size
    <3>1. CASE e.size = 0
      BY <1>1, <2>2, <3>1
    <3>2. CASE e.size > 0
      BY <1>1, <2>2, <3>2
    <3>3. QED
      BY <1>1, <3>1, <3>2
  <2>3. CASE i \in 0 .. n /\ Off(i) # code_size
    <3>1. PICK j \in i .. n - 1 : Off(j) = Off(i) /\ Item(j).size > 0
      BY <1>1, <2>3 DEF Layout, Ends
    <3>2. j \in i .. n /\ j \in 0 .. n - 1
      BY <1>1, <2>3, <3>1
    <3>3. QED
      BY <1>1, <2>3, <3>1, <3>2
  <2>4. QED
    BY <1>1, <2>1, <2>2, <2>3
<1>8. QED
  BY <1>1, <1>4, <1>5, <1>6, <1>7 DEF Layout, Calls, Ends

(* At most the last CFROUND changes, into nops. *)
Overwrites(n, kept) ==
    \A i \in 0 .. n - 1 :
        \/ kept[i + 1] = Item(i)
        \/ program[i + 1].opcode = "CFROUND" /\ kept[i + 1].kind = "nop"

LEMMA EmissionsStep ==
  ASSUME Emissions, NEW n, NEW ins, NEW e, NEW kept, Placed(n, ins, e, kept),
         CompiledTo(ins, e), Overwrites(n, kept)
  PROVE  Emissions'
<1>1. /\ n \in 0 .. Rx_Program_Size - 1 /\ idx = n /\ idx' = n + 1
      /\ \A i \in 0 .. n - 1 : program'[i + 1] = program[i + 1] /\ Item(i)' = kept[i + 1]
                             /\ kept[i + 1].size = Item(i).size
                             /\ kept[i + 1].displacement = Item(i).displacement
      /\ program'[n + 1] = ins /\ Item(n)' = e
  BY Zenon DEF Placed
<1>2. SUFFICES ASSUME NEW i \in 0 .. n
               PROVE  CompiledTo(program'[i + 1], Item(i)')
  <2>1. (idx' - 1) = n
    BY <1>1, BytecodeAssumption
  <2>2. QED
    BY <2>1 DEF Emissions, Calls, CompiledTo
<1>3. CASE i = n
  BY <1>1, <1>3
<1>4. CASE i \in 0 .. n - 1
  <2>1. CompiledTo(program[i + 1], Item(i))
    BY <1>1, <1>4 DEF Emissions, Calls
  <2>2. CASE kept[i + 1] = Item(i)
    BY <1>1, <1>4, <2>1, <2>2
  <2>3. CASE program[i + 1].opcode = "CFROUND" /\ kept[i + 1].kind = "nop"
    <3>1. CompiledTo(program[i + 1], kept[i + 1])
      BY <1>1, <1>4, <2>1, <2>3 DEF CompiledTo, RoundingOps
    <3>2. QED
      BY <1>1, <1>4, <3>1
  <2>4. QED
    BY <1>4, <2>2, <2>3 DEF Overwrites
<1>5. QED
  BY <1>1, <1>3, <1>4, BytecodeAssumption

LEMMA UsageStep ==
  ASSUME Usage, NEW n, NEW ins, NEW e, NEW kept, Placed(n, ins, e, kept),
         reg_usage' = [r \in Registers |-> IF r \in Uses(ins) THEN n ELSE reg_usage[r]]
  PROVE  Usage'
<1>1. /\ n \in 0 .. Rx_Program_Size - 1 /\ idx = n /\ idx' = n + 1
      /\ \A i \in 0 .. n - 1 : program'[i + 1] = program[i + 1]
      /\ program'[n + 1] = ins
  BY Zenon DEF Placed
<1>2. n \in Nat
  BY <1>1, BytecodeAssumption
<1>3. SUFFICES ASSUME NEW r \in Registers, NEW i \in 0 .. n, i > reg_usage'[r]
               PROVE  r \notin Uses(program'[i + 1])
  BY <1>1, <1>2 DEF Usage, Calls, Uses, NoOperation
<1>4. CASE r \in Uses(ins)
  BY <1>2, <1>3, <1>4
<1>5. CASE r \notin Uses(ins)
  <2>1. CASE i = n
    BY <1>1, <1>5, <2>1
  <2>2. CASE i \in 0 .. n - 1
    BY <1>1, <1>3, <1>5, <2>2 DEF Usage, Calls
  <2>3. QED
    BY <1>2, <2>1, <2>2
<1>6. QED
  BY <1>4, <1>5

(* A branch compiled earlier leads where it led. *)
LEMMA LeadsStep ==
  ASSUME NEW n, NEW ins, NEW e, NEW kept, Placed(n, ins, e, kept),
         NEW b \in 0 .. n - 1, NEW t \in 0 .. b, Leads(b, t)
  PROVE  Leads(b, t)'
<1>1. /\ n \in 0 .. Rx_Program_Size - 1
      /\ \A i \in 0 .. n - 1 : program'[i + 1] = program[i + 1]
      /\ \A i \in 0 .. n : Off(i)' = Off(i)
      /\ \A i \in 0 .. n - 1 : /\ Item(i)' = kept[i + 1]
                             /\ kept[i + 1].size = Item(i).size
                             /\ kept[i + 1].displacement = Item(i).displacement
  BY Zenon DEF Placed
<1>2. b \in 0 .. n /\ t \in 0 .. n /\ \A i \in t .. b - 1 : i \in 0 .. n - 1
  BY <1>1, BytecodeAssumption
<1>3. Off(b)' + Item(b)'.size + Item(b)'.displacement = Off(t)'
  BY <1>1, <1>2 DEF Leads
<1>4. \A i \in t .. b - 1 : program'[b + 1].dst \notin Uses(program'[i + 1])
  BY <1>1, <1>2, Zenon DEF Leads
<1>5. QED
  BY <1>3, <1>4 DEF Leads, Uses, NoOperation

LEMMA BranchesStep ==
  ASSUME Branches, NEW n, NEW ins, NEW e, NEW kept, Placed(n, ins, e, kept),
         ins.opcode = "CBRANCH" => \E t \in 0 .. n : Leads(n, t)'
  PROVE  Branches'
<1>1. /\ n \in 0 .. Rx_Program_Size - 1 /\ idx = n /\ idx' = n + 1
      /\ \A i \in 0 .. n - 1 : program'[i + 1] = program[i + 1]
      /\ program'[n + 1] = ins
  BY Zenon DEF Placed
<1>2. n \in Nat /\ idx' - 1 = n /\ idx - 1 = n - 1
  BY <1>1, BytecodeAssumption
<1>3. ASSUME NEW b \in 0 .. n, program'[b + 1].opcode = "CBRANCH"
      PROVE  \E t \in 0 .. b : Leads(b, t)'
  <2>1. CASE b = n
    BY <1>1, <1>3, <2>1
  <2>2. CASE b \in 0 .. n - 1
    <3>1. PICK t \in 0 .. b : Leads(b, t)
      BY <1>1, <1>2, <1>3, <2>2 DEF Branches, Calls
    <3>2. Leads(b, t)'
      BY <2>2, <3>1, LeadsStep
    <3>3. QED
      BY <3>2
  <2>3. QED
    BY <1>2, <2>1, <2>2
<1>4. QED
  BY <1>2, <1>3 DEF Branches, Calls

-----------------------------------------------------------------------------
(* Where the program stays what it is, so does all that is known of it. *)
LEMMA Stays ==
  ASSUME Placement, UNCHANGED <<program, code_size, instr_offset, reg_usage, last_cfround_instr>>,
         \A i \in Calls : Item(i)' = Item(i), Shape'
  PROVE  Placement'
<1>1. /\ idx' = idx /\ Calls' = Calls /\ Ends' = Ends
      /\ \A i : Off(i)' = Off(i)
  BY DEF idx, Calls, Ends, Off, Placement
<1>2. \A i \in Calls : \A j \in i .. idx - 1 : j \in Calls
  BY DEF Calls, Placement, Shape
<1>3. Emissions'
  BY <1>1 DEF Placement, Emissions, CompiledTo
<1>4. Layout'
  <2>1. \A i \in Ends : \A j \in i .. idx - 1 : j \in Calls
    BY DEF Ends, Calls, Placement, Shape
  <2>2. \A i \in Ends : \/ Off(i)' = code_size'
                       \/ \E j \in i .. idx - 1 : Off(j)' = Off(i)' /\ Item(j)'.size > 0
    <3>1. SUFFICES ASSUME NEW i \in Ends, Off(i) # code_size
                   PROVE  \E j \in i .. idx - 1 : Off(j)' = Off(i)' /\ Item(j)'.size > 0
      BY <1>1
    <3>2. PICK j \in i .. idx - 1 : Off(j) = Off(i) /\ Item(j).size > 0
      BY <3>1 DEF Placement, Layout
    <3>3. QED
      BY <1>1, <2>1, <3>2
  <2>3. /\ Off(0)' = 0
        /\ \A i \in Calls : Off(i + 1)' = Off(i)' + Item(i)'.size
        /\ \A i \in Calls : \A j \in i + 1 .. idx : Off(i)' + Item(i)'.size <= Off(j)'
    BY <1>1 DEF Placement, Layout
  <2>4. QED
    BY <1>1, <2>2, <2>3 DEF Layout
<1>5. Usage'
  BY <1>1 DEF Placement, Usage, Uses, NoOperation
<1>6. Branches'
  <2>1. SUFFICES ASSUME NEW b \in Calls, program[b + 1].opcode = "CBRANCH"
                 PROVE  \E t \in 0 .. b : Leads(b, t)'
    BY <1>1 DEF Branches, Placement
  <2>2. PICK t \in 0 .. b : Leads(b, t)
    BY <2>1 DEF Branches, Placement
  <2>3. Leads(b, t)'
    BY <1>1, <2>1, <2>2 DEF Leads, Uses, NoOperation, Placement
  <2>4. QED
    BY <2>3
<1>7. Marked'
  BY DEF Marked, Placement
<1>8. QED
  BY <1>3, <1>4, <1>5, <1>6, <1>7 DEF Placement

LEMMA PlacementInit == Init => Placement
<1> USE BytecodeAssumption
<1> HAVE Init
<1>1. idx = 0 /\ Calls = {} /\ Ends = {0}
  BY DEF Init, idx, Calls, Ends
<1>2. Shape
  BY <1>1 DEF Init, Shape
<1>3. Layout
  BY <1>1 DEF Init, Layout, Off
<1>4. QED
  BY <1>1, <1>2, <1>3 DEF Init, Placement, Emissions, Usage, Branches, Marked

(* What the instructions that change no code before them have in common. *)
LEMMA SameCode ==
  ASSUME Shape, stage = "compile"
  PROVE  /\ code \in Seq(Emission) /\ Len(code) = idx
         /\ Overwrites(idx, code)
         /\ \A i \in Calls : /\ code[i + 1].size = Item(i).size
                            /\ code[i + 1].displacement = Item(i).displacement
BY DEF Shape, Overwrites, Item

LEMMA PlacementPlain ==
  ASSUME Placement, NEW ins \in Instructions, CompilePlain(ins) \/ CompileRounding(ins)
  PROVE  /\ Placement'
         /\ \E e : /\ Placed(idx, ins, e, code) /\ Overwrites(idx, code)
                  /\ e.kind = IF ins.opcode \in RoundingOps THEN "rounding" ELSE "plain"
<1> DEFINE kind == IF ins.opcode \in RoundingOps THEN "rounding" ELSE "plain"
           e == Emitted(kind, Size(ins), 0)
<1>1. /\ Emit(ins, Size(ins)) /\ code' = Append(code, e) /\ ins.opcode \notin {"CBRANCH", "CFROUND"}
      /\ last_fp_instr' \in {last_fp_instr, idx} /\ last_cfround_instr' = last_cfround_instr
  BY DEF CompilePlain, CompileRounding, RoundingOps
<1>2. ins \in RxInstruction
  BY BytecodeAssumption
<1>3. e \in Emission /\ e.size = Size(ins) /\ e.size <= 32 /\ e.kind = kind /\ e.displacement = 0
  <2>1. Size(ins) \in 0 .. 32
    BY <1>1, <1>2, SizeBound
  <2>2. kind \in Kinds
    BY DEF Kinds
  <2>3. QED
    BY <2>1, <2>2 DEF Emitted, Emission
<1>4. CompiledTo(ins, e)
  BY <1>1, <1>3 DEF CompiledTo
<1>5. stage = "compile" /\ Shape /\ Layout /\ Usage /\ Emissions /\ Branches /\ Marked
  BY <1>1 DEF Emit, Placement
<1>14. e.kind = IF ins.opcode \in RoundingOps THEN "rounding" ELSE "plain"
  BY <1>3
<1> HIDE DEF e, kind
<1>6. Shape' /\ Placed(idx, ins, e, code)
  BY <1>1, <1>3, <1>5, SameCode, EmitPlaces, Zenon
<1>7. Emissions'
  BY <1>4, <1>5, <1>6, SameCode, EmissionsStep
<1>8. Layout'
  BY <1>3, <1>5, <1>6, LayoutStep
<1>9. Usage'
  BY <1>1, <1>5, <1>6, UsageStep DEF Emit
<1>10. Branches'
  BY <1>1, <1>5, <1>6, BranchesStep
<1>11. Marked'
  <2>1. Emit(ins, Size(ins)) => program' = Append(program, ins)
    BY DEF Emit
  <2>2. last_cfround_instr \in -1 .. Len(program) - 1 /\ program \in Seq(Instructions)
    BY <1>5 DEF Shape, idx
  <2>3. QED
    BY <1>1, <1>5, <2>1, <2>2 DEF Marked
<1>12. Placement'
  BY <1>6, <1>7, <1>8, <1>9, <1>10, <1>11 DEF Placement
<1>13. QED
  BY <1>14, <1>5, <1>6, <1>12, SameCode, Zenon

LEMMA PlacementCbranch ==
  ASSUME Placement, NEW ins \in Instructions, CompileCbranch(ins)
  PROVE  /\ Placement'
         /\ \E n, t, e : /\ n = idx /\ t = JmpTarget(ins) /\ t \in 0 .. n /\ Leads(n, t)'
                        /\ Placed(n, ins, e, code) /\ Overwrites(n, code) /\ e.kind = "branch"
<1> USE BytecodeAssumption
<1> DEFINE target == JmpTarget(ins)
           size == IF JmpOffset(target, 16) >= -128 THEN 16 ELSE 20
           e == Emitted("branch", size, JmpOffset(target, size))
<1>1. /\ Emit(ins, size) /\ code' = Append(code, e) /\ ins.opcode = "CBRANCH"
      /\ last_fp_instr' \in {last_fp_instr, idx} /\ last_cfround_instr' = last_cfround_instr
  BY DEF CompileCbranch
<1>2. stage = "compile" /\ Shape /\ Layout /\ Usage /\ Emissions /\ Branches /\ Marked
  BY <1>1 DEF Emit, Placement
<1>3. PICK n \in Nat : n = idx
  BY <1>2 DEF Shape, idx
<1>4. ins \in RxInstruction /\ ins.dst \in Registers
  BY DEF RxInstruction
<1>5. target \in 0 .. n
  <2>1. reg_usage[ins.dst] \in -1 .. n - 1
    BY <1>2, <1>3, <1>4 DEF Shape
  <2>2. QED
    BY <2>1, <1>3 DEF JmpTarget
<1>6. JmpOffset(target, size) = Off(target) - code_size - size
  BY DEF JmpOffset, Off
<1>7. n < Rx_Program_Size /\ code_size \in Nat
  BY <1>1, <1>2, <1>3 DEF Emit, Shape
<1>8. Off(target) \in Int
  BY <1>2, <1>3, <1>5, <1>7 DEF Off, Shape
<1>9. size \in {16, 20}
  OBVIOUS
<1>10. e \in Emission /\ e.size = size /\ e.size <= 32 /\ e.kind = "branch"
       /\ e.displacement = Off(target) - code_size - size
  <2>1. JmpOffset(target, size) \in Int
    <3> HIDE DEF size, target
    <3>1. QED
      BY <1>6, <1>7, <1>8, <1>9
  <2>2. "branch" \in Kinds /\ size \in Nat
    BY <1>9 DEF Kinds
  <2> HIDE DEF size, target
  <2>3. QED
    BY <1>6, <1>9, <2>1, <2>2 DEF Emitted, Emission
<1> HIDE DEF e, size, target
<1>11. CompiledTo(ins, e)
  BY <1>1, <1>9, <1>10 DEF CompiledTo, RoundingOps
<1>12. Shape' /\ Placed(n, ins, e, code)
  <2>1. Emit(ins, e.size)
    BY <1>1, <1>10
  <2>2. last_cfround_instr' \in {last_cfround_instr, idx}
    BY <1>1
  <2>3. QED
    BY <1>1, <1>2, <1>3, <1>10, <2>1, <2>2, SameCode, EmitPlaces, Zenon
<1>13. Emissions'
  BY <1>2, <1>3, <1>11, <1>12, SameCode, EmissionsStep
<1>14. Layout'
  BY <1>2, <1>10, <1>12, LayoutStep
<1>15. Usage'
  <2>1. reg_usage' = [r \in Registers |-> IF r \in Uses(ins) THEN n ELSE reg_usage[r]]
    BY <1>1, <1>3 DEF Emit
  <2>2. QED
    BY <1>2, <1>12, <2>1, UsageStep
<1>16. \E t \in 0 .. n : t = target /\ Leads(n, t)'
  <2>1. /\ \A i \in 0 .. n : Off(i)' = Off(i)
        /\ Off(n) = code_size
        /\ Item(n)' = e
        /\ program'[n + 1] = ins
        /\ \A i \in 0 .. n - 1 : program'[i + 1] = program[i + 1]
    BY <1>12, Zenon DEF Placed
  <2>2. PICK t \in 0 .. n : t = target
    BY <1>5
  <2>3. Off(n)' + Item(n)'.size + Item(n)'.displacement = Off(t)'
    <3>1. Off(n)' = code_size /\ Off(t)' = Off(t) /\ n \in 0 .. n
      BY <2>1, <2>2, <1>3
    <3>2. Item(n)'.size = size /\ Item(n)'.displacement = Off(t) - code_size - size
      BY <1>10, <2>1, <2>2
    <3>3. QED
      BY <1>7, <1>8, <1>9, <2>2, <3>1, <3>2
  <2>4. \A i \in t .. n - 1 : program'[n + 1].dst \notin Uses(program'[i + 1])
    <3>1. SUFFICES ASSUME NEW i \in t .. n - 1
                   PROVE  ins.dst \notin Uses(program[i + 1])
      BY <2>1, <2>2
    <3>2. reg_usage[ins.dst] \in Int /\ t = reg_usage[ins.dst] + 1
      BY <1>2, <1>3, <1>4, <2>2 DEF Shape, target, JmpTarget
    <3>3. i \in Calls /\ i > reg_usage[ins.dst]
      BY <1>3, <2>2, <3>1, <3>2 DEF Calls
    <3>4. QED
      BY <1>2, <1>4, <3>3 DEF Usage
  <2>5. Leads(n, t)'
    <3>1. \A i \in t .. n - 1 : program'[n + 1].dst \notin Uses(program[i + 1])'
      BY <2>4 DEF Uses, NoOperation
    <3>2. QED
      BY <2>3, <2>4, Zenon DEF Leads, Uses, NoOperation
  <2>6. QED
    BY <2>2, <2>5
<1>22. Branches'
  BY <1>2, <1>12, <1>16, BranchesStep
<1>17. Marked'
  <2>1. program' = Append(program, ins)
    BY <1>1 DEF Emit
  <2>2. last_cfround_instr \in -1 .. Len(program) - 1 /\ program \in Seq(Instructions)
    BY <1>2 DEF Shape, idx
  <2>3. QED
    BY <1>1, <1>2, <2>1, <2>2 DEF Marked
<1>18. Placement'
  BY <1>12, <1>13, <1>14, <1>15, <1>22, <1>17 DEF Placement
<1>19. e.kind = "branch"
  BY <1>10
<1>20. Overwrites(n, code)
  BY <1>2, <1>3, SameCode
<1>21. QED
  <2>1. PICK t \in 0 .. n : t = target /\ Leads(n, t)'
    BY <1>16
  <2>2. t = JmpTarget(ins)
    BY <2>1 DEF target
  <2>3. QED
    BY <1>3, <1>12, <1>18, <1>19, <1>20, <2>1, <2>2, Zenon

(* What cfround_cmpl leaves of the code before it. *)
Kept == IF Redundant
        THEN [code EXCEPT ![last_cfround_instr + 1] =
                 Emitted("nop", NopSize(program[last_cfround_instr + 1]), 0)]
        ELSE code

LEMMA KeptCode ==
  ASSUME Shape, Emissions, Marked, stage = "compile"
  PROVE  /\ Kept \in Seq(Emission) /\ Len(Kept) = idx
         /\ Overwrites(idx, Kept)
         /\ \A i \in Calls : /\ Kept[i + 1].size = Item(i).size
                            /\ Kept[i + 1].displacement = Item(i).displacement
<1> USE BytecodeAssumption
<1>1. CASE ~ Redundant
  BY <1>1, SameCode DEF Kept
<1>2. CASE Redundant
  <2>1. PICK c \in Calls : c = last_cfround_instr
    BY <1>2 DEF Redundant, Shape, Calls, idx
  <2>2. program[c + 1].opcode = "CFROUND" /\ program[c + 1] \in RxInstruction
    BY <2>1 DEF Marked, Shape, Calls, idx
  <2>3. /\ Item(c).size = NopSize(program[c + 1]) /\ Item(c).displacement = 0
    BY <2>1, <2>2, CfroundHasItsSize DEF Emissions, CompiledTo
  <2>4. DEFINE nop == Emitted("nop", NopSize(program[c + 1]), 0)
  <2>5. nop \in Emission /\ nop.kind = "nop" /\ nop.size = Item(c).size /\ nop.displacement = 0
    <3>1. NopSize(program[c + 1]) \in Nat /\ "nop" \in Kinds
      BY DEF NopSize, Kinds
    <3>2. QED
      BY <2>3, <3>1 DEF Emitted, Emission
  <2>6. Kept = [code EXCEPT ![c + 1] = nop]
    BY <1>2, <2>1 DEF Kept
  <2> HIDE DEF nop
  <2>7. /\ Kept \in Seq(Emission) /\ Len(Kept) = idx /\ Kept[c + 1] = nop
        /\ \A i \in Calls : i # c => Kept[i + 1] = Item(i)
    BY <2>1, <2>5, <2>6 DEF Shape, Calls, Item
  <2>8. QED
    BY <2>2, <2>3, <2>5, <2>7 DEF Overwrites, Calls
<1>3. QED
  BY <1>1, <1>2

LEMMA PlacementCfround ==
  ASSUME Placement, NEW ins \in Instructions, CompileCfround(ins)
  PROVE  /\ Placement'
         /\ \E e : /\ Placed(idx, ins, e, Kept) /\ Overwrites(idx, Kept)
                  /\ e.kind = "cfround"
<1> USE BytecodeAssumption
<1> DEFINE e == Emitted("cfround", Size(ins), 0)
<1>1. /\ Emit(ins, Size(ins)) /\ code' = Append(Kept, e) /\ ins.opcode = "CFROUND"
      /\ last_fp_instr' = last_fp_instr /\ last_cfround_instr' = idx
  BY DEF CompileCfround, Kept
<1>2. stage = "compile" /\ Shape /\ Layout /\ Usage /\ Emissions /\ Branches /\ Marked
  BY <1>1 DEF Emit, Placement
<1>3. e \in Emission /\ e.size = Size(ins) /\ e.size <= 32 /\ e.kind = "cfround" /\ e.displacement = 0
  <2>1. Size(ins) \in 0 .. 32
    BY <1>1, SizeBound
  <2>2. "cfround" \in Kinds
    BY DEF Kinds
  <2>3. QED
    BY <2>1, <2>2 DEF Emitted, Emission
<1> HIDE DEF e
<1>4. CompiledTo(ins, e)
  BY <1>1, <1>3 DEF CompiledTo, RoundingOps
<1>5. Shape' /\ Placed(idx, ins, e, Kept)
  <2>1. Emit(ins, e.size) /\ last_cfround_instr' \in {last_cfround_instr, idx}
        /\ last_fp_instr' \in {last_fp_instr, idx}
    BY <1>1, <1>3
  <2>2. QED
    BY <1>1, <1>2, <1>3, <2>1, KeptCode, EmitPlaces, Zenon
<1>6. Emissions'
  BY <1>2, <1>4, <1>5, KeptCode, EmissionsStep
<1>7. Layout'
  BY <1>2, <1>3, <1>5, LayoutStep
<1>8. Usage'
  BY <1>1, <1>2, <1>5, UsageStep DEF Emit
<1>9. Branches'
  BY <1>1, <1>2, <1>5, BranchesStep
<1>10. Marked'
  <2>1. program' = Append(program, ins) /\ program \in Seq(Instructions)
    BY <1>1, <1>2 DEF Emit, Shape
  <2>2. QED
    BY <1>1, <2>1 DEF Marked, idx
<1>11. Placement'
  BY <1>5, <1>6, <1>7, <1>8, <1>9, <1>10 DEF Placement
<1>12. QED
  BY <1>2, <1>3, <1>5, <1>11, KeptCode, Zenon

LEMMA PlacementFinish ==
  ASSUME Placement, FinishProgram
  PROVE  Placement'
<1> USE BytecodeAssumption
<1>1. PICK e : /\ code' = Append(code, e)
               /\ \/ /\ code_size < Max_Program_Size - Jmp_Code_Size
                     /\ e = Emitted("jump", Jmp_Code_Size, Max_Program_Size - (code_size + Jmp_Code_Size))
                  \/ e = Emitted("nop", Max_Program_Size - code_size, 0)
  BY DEF FinishProgram
<1>2. /\ code \in Seq(Emission) /\ Len(code) = Rx_Program_Size /\ idx = Rx_Program_Size
      /\ code_size \in Nat /\ code_size <= Max_Program_Size
  BY DEF FinishProgram, Placement, Shape, Max_Program_Size
<1>3. e \in Emission
  <2>1. "jump" \in Kinds /\ "nop" \in Kinds
    BY DEF Kinds
  <2>2. Max_Program_Size - code_size \in Nat /\ Jmp_Code_Size \in Nat
        /\ Max_Program_Size - (code_size + Jmp_Code_Size) \in Int
    BY <1>2 DEF Max_Program_Size, Jmp_Code_Size
  <2>3. QED
    BY <1>1, <2>1, <2>2 DEF Emitted, Emission
<1>4. code' \in Seq(Emission) /\ Len(code') = Rx_Program_Size + 1
      /\ \A i \in Calls : Item(i)' = Item(i)
  BY <1>1, <1>2, <1>3 DEF Calls, Item
<1>5. UNCHANGED <<program, code_size, instr_offset, reg_usage, last_fp_instr, last_cfround_instr>>
      /\ stage' = "run" /\ idx' = idx
  BY DEF FinishProgram, idx
<1>6. Shape'
  BY <1>2, <1>4, <1>5 DEF Shape, Placement
<1>7. QED
  BY <1>4, <1>5, <1>6, Stays

LEMMA PlacementRun ==
  ASSUME Placement, UNCHANGED compilerVars,
         stage' = stage \/ (stage = "run" /\ stage' = "done")
  PROVE  Placement'
<1>1. UNCHANGED <<program, code, code_size, instr_offset, reg_usage, last_fp_instr,
                  last_cfround_instr>> /\ idx' = idx
  BY DEF compilerVars, idx
<1>2. Shape'
  BY <1>1 DEF Placement, Shape
<1>3. QED
  BY <1>1, <1>2, Stays DEF Item

LEMMA PlacementStep ==
  ASSUME Placement, [Next]_vars
  PROVE  Placement'
<1>1. ASSUME NEW ins \in Instructions, Compile(ins)
      PROVE  Placement'
  BY <1>1, PlacementPlain, PlacementCbranch, PlacementCfround DEF Compile
<1>2. CASE FinishProgram
  BY <1>2, PlacementFinish
<1>3. ASSUME NEW i \in CodeItems, FallThrough(i) \/ Jump(i)
      PROVE  Placement'
  BY <1>3, PlacementRun DEF FallThrough, Jump
<1>4. CASE Iterate
  BY <1>4, PlacementRun DEF Iterate
<1>5. CASE UNCHANGED vars
  BY <1>5, PlacementRun DEF vars
<1>6. QED
  BY <1>1, <1>2, <1>3, <1>4, <1>5 DEF Next

(* The layout of the code holds throughout. *)
THEOREM ProgramPlacement == Spec => []Placement
<1>1. QED
  BY PlacementInit, PlacementStep, PTL DEF Spec

(* The compiler's fields keep their types. *)
THEOREM ProgramTypeCorrect == Spec => []CompilerTypeOK
<1>1. Placement => CompilerTypeOK
  BY BytecodeAssumption DEF Placement, Shape, CompilerTypeOK, Max_Program_Size
<1>2. QED
  BY <1>1, ProgramPlacement, PTL

(* The instructions' code lies one behind the other, with room for those    *)
(* to come: each is at most 32 bytes long.                                  *)
THEOREM ProgramCodeFits == Spec => []CodeFits
<1>1. Placement => CodeFits
  <2>1. SUFFICES ASSUME Placement, NEW i \in 0 .. idx - 1
                 PROVE  (IF i = idx - 1 THEN code_size ELSE instr_offset[i + 1])
                          = instr_offset[i] + Item(i).size
    BY DEF CodeFits, Placement, Shape
  <2>2. Off(i + 1) = Off(i) + Item(i).size
    BY <2>1 DEF Placement, Layout, Calls
  <2>3. idx \in Nat
    BY <2>1 DEF Placement, Shape, idx
  <2>4. QED
    BY <2>1, <2>2, <2>3 DEF Off
<1>2. QED
  BY <1>1, ProgramPlacement, PTL

(* In the loop of a branch nothing writes the branch's register and nothing *)
(* else branches, whatever the program.                                     *)
THEOREM ProgramConditionUndisturbed == Spec => []ConditionUndisturbed
<1> USE BytecodeAssumption
<1>1. Placement => ConditionUndisturbed
  <2>1. SUFFICES ASSUME Placement, NEW b \in 0 .. idx - 1, program[b + 1].opcode = "CBRANCH",
                        NEW i \in LoopOf(b)
                 PROVE  /\ program[i + 1].opcode # "CBRANCH"
                        /\ program[b + 1].dst \notin Writes(program[i + 1])
    BY DEF ConditionUndisturbed
  <2>2. idx \in Nat /\ idx <= Rx_Program_Size /\ program \in Seq(Instructions) /\ Len(program) = idx
    BY <2>1 DEF Placement, Shape, idx
  <2>3. i \in 0 .. b - 1 /\ Start(i) = Off(i) /\ Start(b) = Off(b)
        /\ Off(i) >= Off(b) + Item(b).size + Item(b).displacement
    BY <2>1, <2>2 DEF LoopOf, Start, Off
  <2>4. PICK t \in 0 .. b : Leads(b, t)
    BY <2>1 DEF Placement, Branches, Calls
  <2>5. /\ program[i + 1] \in RxInstruction
        /\ program[b + 1] \in RxInstruction
    BY <2>2, <2>3
  <2>6. CASE i >= t
    <3>1. program[b + 1].dst \notin Uses(program[i + 1])
      BY <2>3, <2>4, <2>6 DEF Leads
    <3>2. program[b + 1].dst \in Registers
      BY <2>5 DEF RxInstruction
    <3>3. QED
      BY <2>5, <3>1, <3>2, WritesUsed
  <2>7. CASE i < t
    <3>1. Off(i) + Item(i).size <= Off(t) /\ Off(i) >= Off(t)
      <4>1. i \in Calls /\ t \in i + 1 .. idx
        BY <2>2, <2>3, <2>4, <2>7 DEF Calls
      <4>2. QED
        BY <2>1, <2>3, <2>4, <4>1 DEF Placement, Layout, Leads
    <3>2. Item(i).size \in Nat /\ Off(i) \in Int /\ Off(t) \in Int
      <4>1. code[i + 1] \in Emission
        BY <2>1, <2>2, <2>3 DEF Placement, Shape
      <4>2. Item(i).size \in Nat
        BY <4>1 DEF Item, Emission
      <4>3. \A j \in 0 .. idx - 1 : Off(j) \in Int
        BY <2>1, <2>2 DEF Off, Placement, Shape
      <4>4. QED
        BY <2>2, <2>3, <4>2, <4>3
    <3>3. Item(i).size = 0
      BY <3>1, <3>2
    <3>4. program[i + 1].opcode # "CBRANCH" /\ Size(program[i + 1]) = 0
      BY <2>1, <2>2, <2>3, <3>3 DEF Placement, Emissions, CompiledTo, Calls
    <3>5. QED
      BY <2>5, <3>4, NoCode DEF Writes
  <2>8. QED
    BY <2>3, <2>4, <2>6, <2>7
<1>2. QED
  BY <1>1, ProgramPlacement, PTL

-----------------------------------------------------------------------------
(* The end of the program's code, and where the processor is: at the start *)
(* of an instruction, or behind the program.                               *)
EndLeads ==
    \/ /\ Item(Rx_Program_Size).kind = "jump" /\ Item(Rx_Program_Size).size = Jmp_Code_Size
       /\ Item(Rx_Program_Size).displacement = Max_Program_Size - (code_size + Jmp_Code_Size)
    \/ /\ Item(Rx_Program_Size).kind = "nop"
       /\ Item(Rx_Program_Size).size = Max_Program_Size - code_size

Running ==
    /\ stage = "compile" => rip = 0 /\ mxcsr = -1 /\ fprc = -1
    /\ stage # "compile" => EndLeads
    /\ stage = "run" => rip = Max_Program_Size \/ \E i \in CodeItems : rip = Off(i)

(* What is known of the item the processor is at. *)
LEMMA AtItem ==
  ASSUME Placement, Running, NEW i \in CodeItems, At(i)
  PROVE  /\ idx = Rx_Program_Size /\ rip = Off(i) /\ Off(i) \in Int /\ code_size \in Nat
         /\ Item(i).size \in Nat /\ EndLeads
         /\ i # Rx_Program_Size =>
              /\ i \in Calls /\ Off(i + 1) = Off(i) + Item(i).size
              /\ Item(i).kind # "jump"
              /\ Item(i).kind = "branch" => program[i + 1].opcode = "CBRANCH"
<1> USE BytecodeAssumption
<1>1. stage = "run" /\ rip = Start(i) /\ idx = Rx_Program_Size /\ code_size \in Nat
      /\ code \in Seq(Emission) /\ Len(code) = Rx_Program_Size + 1
      /\ instr_offset \in [0 .. Rx_Program_Size - 1 -> Int]
  BY DEF At, Placement, Shape
<1>2. rip = Off(i) /\ Off(i) \in Int
  BY <1>1 DEF Start, Off, CodeItems
<1>3. Item(i).size \in Nat
  <2>1. code[i + 1] \in Emission
    BY <1>1 DEF CodeItems
  <2>2. QED
    BY <2>1 DEF Item, Emission
<1>4. ASSUME i # Rx_Program_Size
      PROVE  /\ i \in Calls /\ Off(i + 1) = Off(i) + Item(i).size
             /\ Item(i).kind # "jump"
             /\ Item(i).kind = "branch" => program[i + 1].opcode = "CBRANCH"
  <2>1. i \in Calls
    BY <1>1, <1>4 DEF CodeItems, Calls
  <2>2. CompiledTo(program[i + 1], Item(i)) /\ Off(i + 1) = Off(i) + Item(i).size
    BY <2>1 DEF Placement, Emissions, Layout
  <2>3. QED
    BY <2>1, <2>2 DEF CompiledTo
<1>5. QED
  BY <1>1, <1>2, <1>3, <1>4 DEF Running

LEMMA RunningStep ==
  ASSUME Placement, Running, [Next]_vars
  PROVE  Running'
<1> USE BytecodeAssumption
<1> USE DEF Running
<1>1. ASSUME NEW ins \in Instructions, Compile(ins)
      PROVE  Running'
  BY <1>1 DEF Compile, CompilePlain, CompileRounding, CompileCbranch, CompileCfround, Emit, runVars
<1>2. CASE FinishProgram
  <2>1. PICK e : /\ code' = Append(code, e)
                 /\ \/ e = Emitted("jump", Jmp_Code_Size, Max_Program_Size - (code_size + Jmp_Code_Size))
                    \/ e = Emitted("nop", Max_Program_Size - code_size, 0)
    BY <1>2 DEF FinishProgram
  <2>2. code \in Seq(Emission) /\ Len(code) = Rx_Program_Size /\ idx = Rx_Program_Size
    BY <1>2 DEF FinishProgram, Placement, Shape
  <2>3. Item(Rx_Program_Size)' = e
    BY <2>1, <2>2 DEF Item
  <2>4. EndLeads'
    BY <1>2, <2>1, <2>3 DEF EndLeads, Emitted, FinishProgram
  <2>5. stage = "compile" /\ rip' = rip /\ stage' = "run" /\ Off(0)' = Off(0) /\ Off(0) = 0
    BY <1>2 DEF FinishProgram, runVars, Off, idx, Placement, Layout
  <2>6. QED
    BY <2>4, <2>5 DEF CodeItems
<1>3. ASSUME UNCHANGED compilerVars, stage # "compile"
      PROVE  /\ idx' = idx /\ EndLeads' = EndLeads /\ \A i : Off(i)' = Off(i)
  BY <1>3 DEF compilerVars, idx, EndLeads, Item, Off
<1>4. ASSUME NEW i \in CodeItems, FallThrough(i)
      PROVE  Running'
  <2>1. UNCHANGED <<compilerVars, stage>> /\ rip' = rip + Item(i).size /\ At(i)
        /\ Item(i).kind # "jump"
    BY <1>4 DEF FallThrough
  <2>2. stage = "run" /\ EndLeads
    BY <2>1 DEF At
  <2>3. CASE i = Rx_Program_Size
    <3>1. rip' = Max_Program_Size
      BY <2>1, <2>2, <2>3, AtItem DEF EndLeads, Off, Max_Program_Size
    <3>2. QED
      BY <1>3, <2>1, <2>2, <3>1
  <2>4. CASE i # Rx_Program_Size
    <3>1. rip' = Off(i + 1)
      BY <2>1, <2>4, AtItem
    <3>2. i + 1 \in CodeItems
      BY <2>4 DEF CodeItems
    <3>3. QED
      BY <1>3, <2>1, <2>2, <3>1, <3>2
  <2>5. QED
    BY <2>3, <2>4
<1>5. ASSUME NEW i \in CodeItems, Jump(i)
      PROVE  Running'
  <2>1. UNCHANGED <<compilerVars, stage>> /\ rip' = rip + Item(i).size + Item(i).displacement
        /\ At(i) /\ Item(i).kind \in {"branch", "jump"}
    BY <1>5 DEF Jump
  <2>2. stage = "run" /\ EndLeads
    BY <2>1 DEF At
  <2>3. CASE i = Rx_Program_Size
    <3>1. rip = code_size /\ code_size \in Nat
      BY <2>1, <2>3, AtItem DEF Off
    <3>2. rip' = Max_Program_Size
      BY <2>1, <2>2, <2>3, <3>1 DEF EndLeads, Max_Program_Size, Jmp_Code_Size
    <3>3. QED
      BY <1>3, <2>1, <2>2, <3>2
  <2>4. CASE i # Rx_Program_Size
    <3>1. i \in Calls /\ program[i + 1].opcode = "CBRANCH" /\ rip = Off(i) /\ idx = Rx_Program_Size
      BY <2>1, <2>4, AtItem
    <3>2. PICK t \in 0 .. i : Leads(i, t)
      BY <3>1 DEF Placement, Branches
    <3>3. rip' = Off(t) /\ t \in CodeItems
      BY <2>1, <3>1, <3>2 DEF Leads, CodeItems
    <3>4. QED
      BY <1>3, <2>1, <2>2, <3>3
  <2>5. QED
    BY <2>3, <2>4
<1>6. CASE Iterate
  <2>1. UNCHANGED compilerVars /\ stage = "run" /\ (stage' = "done" \/ (stage' = "run" /\ rip' = 0))
    BY <1>6 DEF Iterate
  <2>2. Off(0) = 0 /\ 0 \in CodeItems
    BY DEF Placement, Layout, CodeItems
  <2>3. QED
    BY <1>3, <2>1, <2>2
<1>7. CASE UNCHANGED vars
  <2>1. UNCHANGED <<compilerVars, stage, runVars>>
    BY <1>7 DEF vars
  <2>2. QED
    BY <1>3, <2>1 DEF runVars
<1>8. QED
  BY <1>1, <1>2, <1>4, <1>5, <1>6, <1>7 DEF Next

THEOREM ProgramRunning == Spec => [](Placement /\ Running)
<1>1. Init => Running
  BY DEF Init, Running
<1>2. Init => Placement
  BY PlacementInit
<1>3. Placement /\ Running /\ [Next]_vars => (Placement /\ Running)'
  BY PlacementStep, RunningStep
<1>4. QED
  BY <1>1, <1>2, <1>3, PTL DEF Spec

(* The processor is only ever at the start of an instruction or behind the  *)
(* program, whichever branches are taken, however often.                    *)
THEOREM ProgramLandsOnInstruction == Spec => []LandsOnInstruction
<1> USE BytecodeAssumption
<1>1. Placement /\ Running => LandsOnInstruction
  <2>1. SUFFICES ASSUME Placement, Running, stage = "run", rip # Max_Program_Size
                 PROVE  \E i \in CodeItems : At(i)
    BY DEF LandsOnInstruction
  <2>2. idx = Rx_Program_Size /\ code_size \in Nat /\ code_size <= Max_Program_Size
    BY <2>1 DEF Placement, Shape, Max_Program_Size
  <2>3. PICK i \in CodeItems : rip = Off(i)
    BY <2>1 DEF Running
  <2>4. CASE Off(i) = code_size
    <3>1. EndLeads
      BY <2>1 DEF Running
    <3>2. Item(Rx_Program_Size).size > 0
      BY <2>1, <2>2, <2>3, <2>4, <3>1 DEF EndLeads, Max_Program_Size, Jmp_Code_Size
    <3>3. QED
      BY <2>1, <2>2, <2>3, <2>4, <3>2 DEF At, Start, CodeItems
  <2>5. CASE Off(i) # code_size
    <3>1. PICK j \in i .. idx - 1 : Off(j) = Off(i) /\ Item(j).size > 0
      BY <2>1, <2>2, <2>3, <2>5 DEF Placement, Layout, Ends, CodeItems
    <3>2. j \in CodeItems /\ j # Rx_Program_Size /\ j # idx
      BY <2>2, <2>3, <3>1 DEF CodeItems
    <3>3. QED
      BY <2>1, <2>3, <3>1, <3>2 DEF At, Start, Off
  <2>6. QED
    BY <2>4, <2>5
<1>2. QED
  BY <1>1, ProgramRunning, PTL

-----------------------------------------------------------------------------
(* From instruction i on the processor reaches a CFROUND before anything    *)
(* rounds, also if branches are taken on the way.                           *)
Idle == {"plain", "nop", "branch"}

Calm(m) ==
    /\ Item(m).kind \in Idle
    /\ Item(m).kind = "branch" => \E t \in 0 .. m : /\ Leads(m, t)
                                                   /\ \A x \in t .. m : Item(x).kind \in Idle

Quiet(i) == \E k \in i .. idx - 1 : Item(k).kind = "cfround" /\ \A m \in i .. k - 1 : Calm(m)

(* What the compiler knows by last_fp_instr and last_cfround_instr; what it *)
(* has overwritten is not missed.                                           *)
LastRounding == \A i \in Calls : i > last_fp_instr => Item(i).kind # "rounding"
LastCfround == \A i \in Calls : i > last_cfround_instr => Item(i).kind # "cfround"
KeptCfrounds ==
    \A c \in Calls : Item(c).kind = "cfround" /\ c # last_cfround_instr => c <= last_fp_instr
CalmLoops ==
    \A b \in Calls : Item(b).kind = "branch" /\ b > last_fp_instr =>
        \E t \in 0 .. b : t > last_fp_instr /\ Leads(b, t)
NopsQuiet == \A j \in Calls : Item(j).kind = "nop" => Quiet(j + 1)

Modes == LastRounding /\ LastCfround /\ KeptCfrounds /\ CalmLoops /\ NopsQuiet

LEMMA CalmStep ==
  ASSUME NEW n \in Nat, NEW ins, NEW e, NEW kept, Placed(n, ins, e, kept), Overwrites(n, kept),
         NEW m \in 0 .. n - 1, Calm(m)
  PROVE  Calm(m)'
<1>1. \A i \in 0 .. n - 1 : Item(i)' = kept[i + 1]
  BY Zenon DEF Placed
<1>2. ASSUME NEW x \in 0 .. n - 1, Item(x).kind \in Idle
      PROVE  Item(x)'.kind \in Idle /\ (Item(x)'.kind = "branch" => Item(x).kind = "branch")
  BY <1>1, <1>2 DEF Overwrites, Idle
<1>3. Item(m)'.kind \in Idle
  BY <1>2 DEF Calm
<1>4. ASSUME Item(m)'.kind = "branch"
      PROVE  \E t \in 0 .. m : Leads(m, t)' /\ \A x \in t .. m : Item(x)'.kind \in Idle
  <2>1. PICK t \in 0 .. m : Leads(m, t) /\ \A x \in t .. m : Item(x).kind \in Idle
    BY <1>2, <1>4 DEF Calm
  <2>2. Leads(m, t)'
    BY <2>1, LeadsStep
  <2>3. \A x \in t .. m : x \in 0 .. n - 1
    BY <2>1
  <2>4. QED
    BY <1>2, <2>1, <2>2, <2>3
<1>5. QED
  BY <1>3, <1>4 DEF Calm, Idle

(* What was quiet stays so if no CFROUND is overwritten... *)
LEMMA QuietStep ==
  ASSUME NEW n \in Nat, NEW ins, NEW e, NEW kept, Placed(n, ins, e, kept), Overwrites(n, kept),
         NEW i \in 0 .. n, NEW k \in i .. n - 1, kept[k + 1].kind = "cfround",
         \A m \in i .. k - 1 : Calm(m)
  PROVE  Quiet(i)'
<1>1. /\ idx' = n + 1 /\ \A x \in 0 .. n - 1 : Item(x)' = kept[x + 1]
  BY Zenon DEF Placed
<1>2. k \in 0 .. n - 1 /\ k \in i .. idx' - 1
  BY <1>1
<1>3. Item(k)'.kind = "cfround"
  BY <1>1, <1>2
<1>4. \A m \in i .. k - 1 : Calm(m)'
  <2>1. \A m \in i .. k - 1 : m \in 0 .. n - 1
    OBVIOUS
  <2>2. QED
    BY <2>1, CalmStep
<1>5. QED
  BY <1>2, <1>3, <1>4 DEF Quiet, Calm, Leads, Uses, NoOperation, Idle

LEMMA ModesPlain ==
  ASSUME Placement, Modes, NEW ins \in Instructions, CompilePlain(ins) \/ CompileRounding(ins)
  PROVE  Modes'
<1> USE BytecodeAssumption
<1>1. PICK e : /\ Placed(idx, ins, e, code) /\ Overwrites(idx, code)
               /\ e.kind = IF ins.opcode \in RoundingOps THEN "rounding" ELSE "plain"
  BY PlacementPlain
<1>2. PICK n \in Nat : n = idx
  BY DEF Placement, Shape, idx
<1>3. /\ last_cfround_instr' = last_cfround_instr
      /\ last_fp_instr' = IF ins.opcode \in RoundingOps THEN n ELSE last_fp_instr
      /\ last_fp_instr \in -1 .. n - 1 /\ last_cfround_instr \in -1 .. n - 1
  BY <1>2 DEF CompilePlain, CompileRounding, Placement, Shape
<1>4. /\ idx' = n + 1 /\ Calls' = 0 .. n /\ Calls = 0 .. n - 1
      /\ \A i \in 0 .. n - 1 : Item(i)' = Item(i) /\ code[i + 1] = Item(i)
      /\ Item(n)' = e /\ Placed(n, ins, e, code) /\ Overwrites(n, code)
  <2>1. Placed(n, ins, e, code) /\ Overwrites(n, code)
    BY <1>1, <1>2
  <2>2. /\ idx' = n + 1 /\ Item(n)' = e /\ \A i \in 0 .. n - 1 : Item(i)' = code[i + 1]
    BY <2>1, Zenon DEF Placed
  <2>3. QED
    BY <1>2, <2>1, <2>2 DEF Calls, Item
<1>5. LastRounding' /\ LastCfround' /\ KeptCfrounds'
  <2>1. LastRounding'
    BY <1>1, <1>2, <1>3, <1>4 DEF Modes, LastRounding
  <2>2. LastCfround'
    BY <1>1, <1>2, <1>3, <1>4 DEF Modes, LastCfround
  <2>3. KeptCfrounds'
    BY <1>1, <1>2, <1>3, <1>4 DEF Modes, KeptCfrounds
  <2>4. QED
    BY <2>1, <2>2, <2>3
<1>6. ASSUME NEW b \in 0 .. n, Item(b)'.kind = "branch", b > last_fp_instr'
      PROVE  \E t \in 0 .. b : t > last_fp_instr' /\ Leads(b, t)'
  <2>1. b \in 0 .. n - 1 /\ Item(b).kind = "branch" /\ last_fp_instr' = last_fp_instr
    BY <1>1, <1>3, <1>4, <1>6
  <2>2. PICK t \in 0 .. b : t > last_fp_instr /\ Leads(b, t)
    BY <1>4, <1>6, <2>1 DEF Modes, CalmLoops
  <2>3. Leads(b, t)'
    BY <1>4, <2>1, <2>2, LeadsStep
  <2>4. QED
    BY <2>1, <2>2, <2>3
<1>7. ASSUME NEW j \in 0 .. n, Item(j)'.kind = "nop"
      PROVE  Quiet(j + 1)'
  <2>1. j \in 0 .. n - 1 /\ Item(j).kind = "nop"
    BY <1>1, <1>4, <1>7
  <2>2. Quiet(j + 1)
    BY <1>4, <2>1 DEF Modes, NopsQuiet
  <2>3. PICK k \in j + 1 .. n - 1 : Item(k).kind = "cfround" /\ \A m \in j + 1 .. k - 1 : Calm(m)
    BY <1>2, <2>2 DEF Quiet
  <2>4. code[k + 1].kind = "cfround" /\ j + 1 \in 0 .. n
    BY <1>4, <2>1, <2>3
  <2>5. QED
    BY <1>4, <2>3, <2>4, QuietStep
<1>8. CalmLoops' /\ NopsQuiet'
  BY <1>4, <1>6, <1>7, Zenon DEF CalmLoops, NopsQuiet
<1>9. QED
  BY <1>5, <1>8 DEF Modes

LEMMA ModesCbranch ==
  ASSUME Placement, Modes, NEW ins \in Instructions, CompileCbranch(ins)
  PROVE  Modes'
<1> USE BytecodeAssumption
<1>1. PICK n, target, e :
        /\ n = idx /\ target = JmpTarget(ins) /\ target \in 0 .. n /\ Leads(n, target)'
        /\ Placed(n, ins, e, code) /\ Overwrites(n, code) /\ e.kind = "branch"
  BY PlacementCbranch
<1>2. n \in Nat
  BY <1>1 DEF Placement, Shape, idx
<1>3. /\ last_cfround_instr' = last_cfround_instr
      /\ last_fp_instr' = IF target <= last_fp_instr THEN n ELSE last_fp_instr
      /\ last_fp_instr \in -1 .. n - 1 /\ last_cfround_instr \in -1 .. n - 1
  BY <1>1 DEF CompileCbranch, LoopRounds, Placement, Shape
<1>4. /\ idx' = n + 1 /\ Calls' = 0 .. n /\ Calls = 0 .. n - 1
      /\ \A i \in 0 .. n - 1 : Item(i)' = Item(i) /\ code[i + 1] = Item(i)
      /\ Item(n)' = e
  <2>1. /\ idx' = n + 1 /\ Item(n)' = e /\ \A i \in 0 .. n - 1 : Item(i)' = code[i + 1]
    BY <1>1, Zenon DEF Placed
  <2>2. QED
    BY <1>1, <1>2, <2>1 DEF Calls, Item
<1>5. LastRounding' /\ LastCfround' /\ KeptCfrounds'
  <2>1. LastRounding'
    <3>1. SUFFICES ASSUME NEW i \in 0 .. n, i > last_fp_instr'
                   PROVE  Item(i)'.kind # "rounding"
      BY <1>4 DEF LastRounding
    <3>2. CASE i = n
      BY <1>1, <1>4, <3>2
    <3>3. CASE i \in 0 .. n - 1
      <4>1. i > last_fp_instr
        <5>1. last_fp_instr' = last_fp_instr \/ last_fp_instr' = n
          BY <1>3
        <5>2. QED
          BY <1>2, <3>1, <3>3, <5>1
      <4>2. QED
        BY <1>4, <3>3, <4>1 DEF Modes, LastRounding
    <3>4. QED
      BY <1>2, <3>2, <3>3
  <2>2. LastCfround'
    BY <1>1, <1>2, <1>3, <1>4 DEF Modes, LastCfround
  <2>3. KeptCfrounds'
    BY <1>1, <1>2, <1>3, <1>4 DEF Modes, KeptCfrounds
  <2>4. QED
    BY <2>1, <2>2, <2>3
<1>6. ASSUME NEW b \in 0 .. n, Item(b)'.kind = "branch", b > last_fp_instr'
      PROVE  \E t \in 0 .. b : t > last_fp_instr' /\ Leads(b, t)'
  <2>1. last_fp_instr' = last_fp_instr /\ target > last_fp_instr
    BY <1>1, <1>2, <1>3, <1>6
  <2>2. CASE b = n
    BY <1>1, <2>1, <2>2
  <2>3. CASE b \in 0 .. n - 1
    <3>1. PICK t \in 0 .. b : t > last_fp_instr /\ Leads(b, t)
      BY <1>4, <1>6, <2>1, <2>3 DEF Modes, CalmLoops
    <3>2. Leads(b, t)'
      BY <1>1, <2>3, <3>1, LeadsStep
    <3>3. QED
      BY <2>1, <3>1, <3>2
  <2>4. QED
    BY <1>2, <2>2, <2>3
<1>7. ASSUME NEW j \in 0 .. n, Item(j)'.kind = "nop"
      PROVE  Quiet(j + 1)'
  <2>1. j \in 0 .. n - 1 /\ Item(j).kind = "nop"
    BY <1>1, <1>2, <1>4, <1>7
  <2>2. Quiet(j + 1)
    BY <1>4, <2>1 DEF Modes, NopsQuiet
  <2>3. PICK k \in j + 1 .. n - 1 : Item(k).kind = "cfround" /\ \A m \in j + 1 .. k - 1 : Calm(m)
    BY <1>1, <2>2 DEF Quiet
  <2>4. code[k + 1].kind = "cfround" /\ j + 1 \in 0 .. n
    BY <1>2, <1>4, <2>1, <2>3
  <2>5. QED
    BY <1>1, <1>2, <2>3, <2>4, QuietStep
<1>8. CalmLoops' /\ NopsQuiet'
  BY <1>4, <1>6, <1>7, Zenon DEF CalmLoops, NopsQuiet
<1>9. QED
  BY <1>5, <1>8 DEF Modes

(* When the last CFROUND is overwritten, everything since is calm: nothing  *)
(* rounds, and no branch leads back to before the last that does.           *)
LEMMA CalmSince ==
  ASSUME Placement, Modes, NEW n \in Nat, n = idx, NEW ins, NEW e, NEW kept,
         Placed(n, ins, e, kept), Overwrites(n, kept),
         last_cfround_instr > last_fp_instr, last_cfround_instr \in Int, last_fp_instr \in Int,
         kept[last_cfround_instr + 1].kind = "nop",
         NEW m \in 0 .. n - 1, m >= last_cfround_instr
  PROVE  Calm(m)'
<1> USE BytecodeAssumption
<1>1. \A i \in 0 .. n - 1 : Item(i)' = kept[i + 1]
  BY Zenon DEF Placed
<1>2. Calls = 0 .. n - 1
  BY DEF Calls
<1>3. ASSUME NEW x \in 0 .. n - 1, x > last_fp_instr
      PROVE  Item(x)'.kind \in Idle /\ (Item(x)'.kind = "branch" => Item(x).kind = "branch")
  <2>1. CASE x = last_cfround_instr
    BY <1>1, <2>1 DEF Idle
  <2>2. CASE x # last_cfround_instr
    <3>1. Item(x).kind # "rounding" /\ Item(x).kind # "cfround"
      BY <1>2, <1>3, <2>2 DEF Modes, LastRounding, KeptCfrounds
    <3>2. Item(x).kind \in Kinds /\ Item(x).kind # "jump"
      <4>1. CompiledTo(program[x + 1], Item(x))
        BY <1>2 DEF Placement, Emissions
      <4>2. code[x + 1] \in Emission
        <5>1. code \in Seq(Emission) /\ Len(code) \in {n, n + 1}
          BY DEF Placement, Shape
        <5>2. QED
          BY <5>1
      <4>3. QED
        BY <4>1, <4>2 DEF CompiledTo, Item, Emission
    <3>3. QED
      BY <1>1, <3>1, <3>2 DEF Overwrites, Idle, Kinds
  <2>3. QED
    BY <2>1, <2>2
<1>4. Item(m)'.kind \in Idle
  BY <1>3
<1>5. ASSUME Item(m)'.kind = "branch"
      PROVE  \E t \in 0 .. m : Leads(m, t)' /\ \A x \in t .. m : Item(x)'.kind \in Idle
  <2>1. PICK t \in 0 .. m : t > last_fp_instr /\ Leads(m, t)
    BY <1>2, <1>3, <1>5 DEF Modes, CalmLoops
  <2>2. Leads(m, t)'
    BY <2>1, LeadsStep
  <2>3. \A x \in t .. m : x \in 0 .. n - 1 /\ x > last_fp_instr
    BY <2>1
  <2>4. QED
    BY <1>3, <2>1, <2>2, <2>3
<1>6. QED
  BY <1>4, <1>5 DEF Calm, Idle

LEMMA ModesCfround ==
  ASSUME Placement, Modes, NEW ins \in Instructions, CompileCfround(ins)
  PROVE  Modes'
<1> USE BytecodeAssumption
<1>1. PICK n \in Nat : n = idx
  BY DEF Placement, Shape, idx
<1>2. PICK e : Placed(n, ins, e, Kept) /\ Overwrites(n, Kept) /\ e.kind = "cfround"
  BY <1>1, PlacementCfround
<1>3. /\ last_cfround_instr' = n /\ last_fp_instr' = last_fp_instr
      /\ last_fp_instr \in -1 .. n - 1 /\ last_cfround_instr \in -1 .. n - 1
  BY <1>1 DEF CompileCfround, Placement, Shape
<1>4. /\ idx' = n + 1 /\ Item(n)' = e /\ \A i \in 0 .. n - 1 : Item(i)' = Kept[i + 1]
  BY <1>2, Zenon DEF Placed
<1>5. Calls' = 0 .. n /\ Calls = 0 .. n - 1
  BY <1>1, <1>4 DEF Calls
<1>6. PICK c \in -1 .. n - 1 : c = last_cfround_instr
  BY <1>3
<1>7. /\ ~ Redundant => \A i \in 0 .. n - 1 : Kept[i + 1] = Item(i)
      /\ Redundant => /\ Kept[c + 1].kind = "nop" /\ c \in 0 .. n - 1 /\ c > last_fp_instr
                      /\ \A i \in 0 .. n - 1 : i # c => Kept[i + 1] = Item(i)
  <2>1. Redundant => c \in 0 .. n - 1 /\ c > last_fp_instr
    BY <1>3, <1>6 DEF Redundant
  <2>2. stage = "compile" /\ code \in Seq(Emission) /\ Len(code) = n
    BY <1>1 DEF CompileCfround, Emit, Placement, Shape
  <2>3. QED
    BY <1>6, <2>1, <2>2 DEF Kept, Emitted, Item
<1>8. ASSUME NEW i \in 0 .. n - 1
      PROVE  /\ Item(i)' = Item(i) \/ (Item(i)'.kind = "nop" /\ i = c /\ Redundant)
             /\ ~ (Redundant /\ i = c) => Item(i)' = Item(i)
  BY <1>4, <1>7
<1>9. LastRounding' /\ LastCfround' /\ KeptCfrounds'
  <2>1. LastRounding'
    BY <1>2, <1>3, <1>4, <1>5, <1>8 DEF Modes, LastRounding
  <2>2. LastCfround'
    BY <1>1, <1>3, <1>5 DEF LastCfround
  <2>3. ASSUME NEW i \in 0 .. n, Item(i)'.kind = "cfround", i # n
        PROVE  i <= last_fp_instr
    <3>1. i \in 0 .. n - 1 /\ Item(i)' = Item(i) /\ ~ (Redundant /\ i = c)
      BY <1>1, <1>7, <1>8, <2>3, <1>4
    <3>2. CASE i = c
      BY <1>3, <1>6, <3>1, <3>2 DEF Redundant
    <3>3. CASE i # c
      BY <1>5, <1>6, <2>3, <3>1, <3>3 DEF Modes, KeptCfrounds
    <3>4. QED
      BY <3>2, <3>3
  <2>4. KeptCfrounds'
    BY <1>3, <1>5, <2>3 DEF KeptCfrounds
  <2>5. QED
    BY <2>1, <2>2, <2>4
<1>10. ASSUME NEW b \in 0 .. n, Item(b)'.kind = "branch", b > last_fp_instr'
       PROVE  \E t \in 0 .. b : t > last_fp_instr' /\ Leads(b, t)'
  <2>1. b \in 0 .. n - 1 /\ Item(b).kind = "branch"
    BY <1>1, <1>2, <1>4, <1>8, <1>10
  <2>2. PICK t \in 0 .. b : t > last_fp_instr /\ Leads(b, t)
    BY <1>3, <1>5, <1>10, <2>1 DEF Modes, CalmLoops
  <2>3. Leads(b, t)'
    BY <1>2, <2>1, <2>2, LeadsStep
  <2>4. QED
    BY <1>3, <2>2, <2>3
<1>11. ASSUME NEW i \in 0 .. n, Redundant, \A m \in i .. n - 1 : Calm(m)'
       PROVE  Quiet(i)'
  <2>1. n \in i .. idx' - 1 /\ Item(n)'.kind = "cfround"
    BY <1>1, <1>2, <1>4
  <2>2. QED
    BY <1>11, <2>1, Zenon DEF Quiet, Calm, Leads, Uses, NoOperation, Idle
<1>12. ASSUME NEW m \in 0 .. n - 1, m >= c, Redundant
       PROVE  Calm(m)'
  BY <1>1, <1>2, <1>3, <1>6, <1>7, <1>12, CalmSince
<1>13. ASSUME NEW j \in 0 .. n, Item(j)'.kind = "nop"
       PROVE  Quiet(j + 1)'
  <2>1. j \in 0 .. n - 1 /\ (Item(j).kind = "nop" \/ (j = c /\ Redundant))
    BY <1>1, <1>2, <1>4, <1>8, <1>13
  <2>2. CASE j = c /\ Redundant
    <3>1. \A m \in j + 1 .. n - 1 : m \in 0 .. n - 1 /\ m >= c
      BY <2>1, <2>2
    <3>2. j + 1 \in 0 .. n
      BY <2>1
    <3>3. QED
      BY <1>11, <1>12, <2>2, <3>1, <3>2
  <2>3. CASE Item(j).kind = "nop"
    <3>1. Quiet(j + 1)
      BY <1>5, <2>1, <2>3 DEF Modes, NopsQuiet
    <3>2. PICK k \in j + 1 .. n - 1 : Item(k).kind = "cfround" /\ \A m \in j + 1 .. k - 1 : Calm(m)
      BY <1>1, <3>1 DEF Quiet
    <3>3. k \in 0 .. n - 1 /\ j + 1 \in 0 .. n
      BY <2>1, <3>2
    <3>4. CASE k = c /\ Redundant
      <4>1. ASSUME NEW m \in j + 1 .. n - 1
            PROVE  Calm(m)'
        <5>1. CASE m >= c
          BY <1>12, <2>1, <3>4, <5>1
        <5>2. CASE m < c
          <6>1. m \in 0 .. n - 1 /\ Calm(m)
            BY <2>1, <3>2, <3>4, <5>2
          <6>2. QED
            BY <1>2, <6>1, CalmStep
        <5>3. QED
          BY <5>1, <5>2, <2>1
      <4>2. QED
        BY <1>11, <3>3, <3>4, <4>1
    <3>5. CASE ~ (k = c /\ Redundant)
      <4>1. Kept[k + 1].kind = "cfround"
        BY <1>4, <1>8, <3>2, <3>3, <3>5
      <4>2. QED
        BY <1>2, <3>2, <3>3, <4>1, QuietStep
    <3>6. QED
      BY <3>4, <3>5
  <2>4. QED
    BY <2>1, <2>2, <2>3
<1>14. CalmLoops' /\ NopsQuiet'
  BY <1>5, <1>10, <1>13, Zenon DEF CalmLoops, NopsQuiet
<1>15. QED
  BY <1>9, <1>14 DEF Modes

LEMMA ModesStay ==
  ASSUME Placement, Modes,
         UNCHANGED <<program, code_size, instr_offset, last_fp_instr, last_cfround_instr>>,
         \A i \in Calls : Item(i)' = Item(i)
  PROVE  Modes'
<1>1. /\ idx' = idx /\ Calls' = Calls /\ idx \in Nat
      /\ \A i : Off(i)' = Off(i)
  BY DEF idx, Calls, Off, Placement, Shape
<1>2. ASSUME NEW b \in Calls, NEW t \in 0 .. b, Leads(b, t)
      PROVE  Leads(b, t)'
  BY <1>1, <1>2 DEF Leads, Uses, NoOperation
<1>3. ASSUME NEW m \in Calls, Calm(m)
      PROVE  Calm(m)'
  <2>1. Item(m)' = Item(m) /\ \A t \in 0 .. m : \A x \in t .. m : Item(x)' = Item(x)
    BY <1>1 DEF Calls
  <2>2. ASSUME Item(m)'.kind = "branch"
        PROVE  \E t \in 0 .. m : Leads(m, t)' /\ \A x \in t .. m : Item(x)'.kind \in Idle
    <3>1. PICK t \in 0 .. m : Leads(m, t) /\ \A x \in t .. m : Item(x).kind \in Idle
      BY <1>3, <2>1, <2>2 DEF Calm
    <3>2. QED
      BY <1>2, <2>1, <3>1
  <2>3. Item(m)'.kind \in Idle
    BY <1>3, <2>1 DEF Calm
  <2>4. QED
    BY <2>2, <2>3 DEF Calm, Idle
<1>4. ASSUME NEW j \in Calls, Quiet(j + 1)
      PROVE  Quiet(j + 1)'
  <2>1. PICK k \in j + 1 .. idx - 1 : Item(k).kind = "cfround" /\ \A m \in j + 1 .. k - 1 : Calm(m)
    BY <1>4 DEF Quiet
  <2>2. k \in Calls /\ \A m \in j + 1 .. k - 1 : m \in Calls
    BY <1>1, <2>1 DEF Calls
  <2>3. k \in j + 1 .. idx' - 1 /\ Item(k)'.kind = "cfround" /\ \A m \in j + 1 .. k - 1 : Calm(m)'
    BY <1>1, <1>3, <2>1, <2>2
  <2>4. QED
    BY <2>3, Zenon DEF Quiet, Calm, Leads, Uses, NoOperation, Idle
<1>5. LastRounding' /\ LastCfround' /\ KeptCfrounds'
  BY <1>1 DEF Modes, LastRounding, LastCfround, KeptCfrounds
<1>6. NopsQuiet'
  BY <1>1, <1>4 DEF Modes, NopsQuiet
<1>7. CalmLoops'
  <2>1. SUFFICES ASSUME NEW b \in Calls, Item(b).kind = "branch", b > last_fp_instr
                 PROVE  \E t \in 0 .. b : t > last_fp_instr /\ Leads(b, t)'
    BY <1>1 DEF CalmLoops
  <2>2. PICK t \in 0 .. b : t > last_fp_instr /\ Leads(b, t)
    BY <2>1 DEF Modes, CalmLoops
  <2>3. QED
    BY <1>2, <2>1, <2>2
<1>8. QED
  BY <1>5, <1>6, <1>7 DEF Modes

LEMMA ModesStep ==
  ASSUME Placement, Modes, [Next]_vars
  PROVE  Modes'
<1>1. ASSUME NEW ins \in Instructions, Compile(ins)
      PROVE  Modes'
  BY <1>1, ModesPlain, ModesCbranch, ModesCfround DEF Compile
<1>2. CASE FinishProgram
  <2>1. PICK e : code' = Append(code, e)
    BY <1>2 DEF FinishProgram
  <2>2. code \in Seq(Emission) /\ Len(code) = idx
    BY <1>2 DEF FinishProgram, Placement, Shape
  <2>3. \A i \in Calls : Item(i)' = Item(i)
    BY <2>1, <2>2 DEF Calls, Item
  <2>4. QED
    BY <1>2, <2>3, ModesStay DEF FinishProgram
<1>3. ASSUME UNCHANGED compilerVars
      PROVE  Modes'
  BY <1>3, ModesStay DEF compilerVars, Item
<1>4. ASSUME NEW i \in CodeItems, FallThrough(i) \/ Jump(i)
      PROVE  Modes'
  BY <1>3, <1>4 DEF FallThrough, Jump
<1>5. CASE Iterate
  BY <1>3, <1>5 DEF Iterate
<1>6. CASE UNCHANGED vars
  BY <1>3, <1>6 DEF vars
<1>7. QED
  BY <1>1, <1>2, <1>4, <1>5, <1>6 DEF Next

-----------------------------------------------------------------------------
(* The mode in effect is the program's, or the processor is where that will *)
(* be so before it matters.                                                 *)
InMode == stage = "run" => mxcsr = fprc \/ \E i \in Calls : rip = Off(i) /\ Quiet(i)

(* A place without code is as good as the next one with code. *)
LEMMA QuietAt ==
  ASSUME Placement, NEW q \in Calls, Quiet(q), NEW i \in Ends, Off(q) = Off(i),
         i = idx \/ Item(i).size > 0
  PROVE  i \in Calls /\ Quiet(i)
<1> USE BytecodeAssumption
<1>1. idx \in Nat /\ idx <= Rx_Program_Size /\ program \in Seq(Instructions) /\ Len(program) = idx
  BY DEF Placement, Shape, idx
<1>2. PICK k \in q .. idx - 1 : Item(k).kind = "cfround" /\ \A m \in q .. k - 1 : Calm(m)
  BY DEF Quiet
<1>3. k \in Calls
  BY <1>2 DEF Calls
<1>4. \A x \in Calls : Item(x).size \in Nat /\ Off(x) \in Int
  <2>1. \A x \in Calls : code[x + 1] \in Emission
    BY <1>1 DEF Calls, Placement, Shape
  <2>2. \A x \in Calls : Off(x) \in Int
    BY <1>1 DEF Calls, Placement, Shape, Off
  <2>3. QED
    BY <2>1, <2>2 DEF Item, Emission
<1>5. Off(i) \in Int /\ i \in 0 .. idx
  BY <1>1, <1>4 DEF Off, Ends, Placement, Shape, Calls
<1>6. Item(k).size > 0
  <2>1. CompiledTo(program[k + 1], Item(k))
    BY <1>3 DEF Placement, Emissions
  <2>2. program[k + 1] \in RxInstruction
    BY <1>1, <1>3 DEF Calls
  <2>3. program[k + 1].opcode = "CFROUND"
    BY <1>2, <2>1 DEF CompiledTo
  <2>4. Size(program[k + 1]) # 0
    BY <2>2, <2>3, NoCode
  <2>5. QED
    BY <1>3, <1>4, <2>1, <2>3, <2>4 DEF CompiledTo
<1>7. q <= i
  <2>1. SUFFICES ASSUME q > i
                 PROVE  FALSE
    BY <1>5 DEF Calls
  <2>2. i \in Calls /\ q \in i + 1 .. idx /\ Item(i).size > 0
    BY <1>1, <1>5, <2>1 DEF Calls
  <2>3. Off(i) + Item(i).size <= Off(q)
    BY <2>2 DEF Placement, Layout
  <2>4. QED
    BY <1>4, <1>5, <2>2, <2>3
<1>8. i <= k
  <2>1. SUFFICES ASSUME k < i
                 PROVE  FALSE
    BY <1>3, <1>5 DEF Calls
  <2>2. Off(k) + Item(k).size <= Off(i)
    BY <1>1, <1>3, <1>5, <2>1 DEF Placement, Layout, Calls
  <2>3. Off(q) <= Off(k)
    <3>1. CASE q = k
      BY <1>4, <3>1
    <3>2. CASE q < k
      <4>1. Off(q) + Item(q).size <= Off(k)
        BY <1>1, <1>3, <3>2 DEF Placement, Layout, Calls
      <4>2. QED
        BY <1>3, <1>4, <4>1
    <3>3. QED
      BY <1>2, <3>1, <3>2 DEF Calls
  <2>4. QED
    BY <1>3, <1>4, <1>5, <1>6, <2>2, <2>3
<1>9. i \in Calls /\ k \in i .. idx - 1 /\ \A m \in i .. k - 1 : m \in q .. k - 1
  BY <1>1, <1>3, <1>5, <1>7, <1>8 DEF Calls
<1>10. QED
  BY <1>2, <1>9, Zenon DEF Quiet

(* The processor's item, when the mode is not yet the program's. *)
LEMMA QuietItem ==
  ASSUME Placement, Running, InMode, NEW i \in CodeItems, At(i), mxcsr # fprc
  PROVE  i \in Calls /\ Quiet(i)
<1>1. idx = Rx_Program_Size /\ rip = Off(i) /\ stage = "run" /\ Item(i).size > 0
  BY AtItem DEF At
<1>2. PICK q \in Calls : rip = Off(q) /\ Quiet(q)
  BY <1>1 DEF InMode
<1>3. i \in Ends
  BY <1>1 DEF CodeItems, Ends
<1>4. QED
  BY <1>1, <1>2, <1>3, QuietAt

LEMMA SameProgram ==
  ASSUME UNCHANGED compilerVars
  PROVE  /\ Calls' = Calls /\ idx' = idx
         /\ \A i : Off(i)' = Off(i)
         /\ \A i : Quiet(i)' = Quiet(i)
<1>1. UNCHANGED <<program, code, code_size, instr_offset>>
  BY DEF compilerVars
<1>2. idx' = idx /\ \A i : Off(i)' = Off(i)
  BY <1>1 DEF idx, Off
<1>3. \A b, t : Leads(b, t)' = Leads(b, t)
  <2>1. \A i : Item(i)' = Item(i)
    BY <1>1 DEF Item
  <2>2. \A i : Uses(program[i + 1])' = Uses(program[i + 1])
    BY <1>1 DEF Uses, NoOperation
  <2>3. \A b : program'[b + 1].dst = program[b + 1].dst
    BY <1>1
  <2>4. SUFFICES ASSUME NEW b, NEW t
                 PROVE  Leads(b, t)' = Leads(b, t)
    OBVIOUS
  <2>5. /\ Off(b)' = Off(b) /\ Off(t)' = Off(t) /\ Item(b)' = Item(b)
    BY <1>2, <2>1
  <2>6. QED
    BY <1>1, <2>2, <2>3, <2>5, Zenon DEF Leads
<1>4. \A m : Calm(m)' = Calm(m)
  BY <1>1, <1>3, Zenon DEF Calm, Idle, Item
<1>5. \A i : Quiet(i)' = Quiet(i)
  BY <1>1, <1>2, <1>4, Zenon DEF Quiet, Item
<1>6. QED
  BY <1>2, <1>5 DEF Calls

LEMMA InModeStep ==
  ASSUME Placement, Running, Modes, InMode, [Next]_vars
  PROVE  InMode'
<1> USE BytecodeAssumption
<1>1. ASSUME NEW ins \in Instructions, Compile(ins)
      PROVE  InMode'
  BY <1>1 DEF Compile, CompilePlain, CompileRounding, CompileCbranch, CompileCfround, Emit, InMode
<1>2. CASE FinishProgram
  BY <1>2 DEF FinishProgram, InMode, Running, runVars
<1>3. ASSUME UNCHANGED compilerVars, stage = "run",
             mxcsr' = fprc' \/ \E i \in Calls : rip' = Off(i) /\ Quiet(i)
      PROVE  InMode'
  BY <1>3, SameProgram DEF InMode
<1>4. ASSUME NEW i \in CodeItems, FallThrough(i)
      PROVE  InMode'
  <2>1. /\ UNCHANGED compilerVars /\ stage = "run" /\ At(i) /\ rip' = rip + Item(i).size
        /\ mxcsr' = (IF Item(i).kind = "cfround" THEN i ELSE mxcsr) /\ fprc' = Fprc(i)
    BY <1>4 DEF FallThrough, At
  <2>2. /\ idx = Rx_Program_Size /\ rip = Off(i) /\ EndLeads
        /\ i # Rx_Program_Size => i \in Calls /\ rip' = Off(i + 1)
    BY <2>1, AtItem
  <2>3. ASSUME i \in Calls
        PROVE  /\ Item(i).kind = "cfround" => program[i + 1].opcode = "CFROUND"
               /\ Item(i).kind \notin {"cfround", "nop"} => program[i + 1].opcode # "CFROUND"
               /\ i < Rx_Program_Size
    <3>1. CompiledTo(program[i + 1], Item(i))
      BY <2>3 DEF Placement, Emissions
    <3>2. QED
      BY <2>2, <2>3, <3>1 DEF CompiledTo, Calls
  <2>4. CASE i = Rx_Program_Size
    <3>1. mxcsr = fprc
      <4>1. i \notin Calls
        BY <2>2, <2>4 DEF Calls
      <4>2. QED
        BY <2>1, <4>1, QuietItem
    <3>2. Item(i).kind # "cfround" /\ Fprc(i) = fprc
      BY <2>2, <2>4 DEF EndLeads, Fprc
    <3>3. QED
      BY <1>3, <2>1, <3>1, <3>2
  <2>5. CASE i # Rx_Program_Size /\ Item(i).kind = "cfround"
    <3>1. mxcsr' = i /\ fprc' = i
      BY <2>1, <2>2, <2>3, <2>5 DEF Fprc
    <3>2. QED
      BY <1>3, <2>1, <3>1
  <2>6. CASE i # Rx_Program_Size /\ Item(i).kind # "cfround" /\ mxcsr = fprc
    <3>1. CASE Item(i).kind = "nop"
      <4>1. Quiet(i + 1)
        BY <2>2, <2>6, <3>1 DEF Modes, NopsQuiet
      <4>2. i + 1 \in Calls
        BY <2>2, <2>6, <4>1 DEF Quiet, Calls
      <4>3. QED
        BY <1>3, <2>1, <2>2, <2>6, <4>1, <4>2
    <3>2. CASE Item(i).kind # "nop"
      <4>1. mxcsr' = mxcsr /\ fprc' = fprc
        BY <2>1, <2>2, <2>3, <2>6, <3>2 DEF Fprc
      <4>2. QED
        BY <1>3, <2>1, <2>6, <4>1
    <3>3. QED
      BY <3>1, <3>2
  <2>7. CASE i # Rx_Program_Size /\ Item(i).kind # "cfround" /\ mxcsr # fprc
    <3>1. i \in Calls /\ Quiet(i)
      BY <2>1, <2>7, QuietItem
    <3>2. PICK k \in i .. idx - 1 : Item(k).kind = "cfround" /\ \A m \in i .. k - 1 : Calm(m)
      BY <3>1 DEF Quiet
    <3>3. k \in i + 1 .. idx - 1 /\ i + 1 \in Calls
      BY <2>2, <2>7, <3>1, <3>2 DEF Calls
    <3>4. Quiet(i + 1)
      <4>1. \A m \in i + 1 .. k - 1 : m \in i .. k - 1
        BY <3>1 DEF Calls
      <4>2. QED
        BY <3>2, <3>3, <4>1, Zenon DEF Quiet
    <3>5. QED
      BY <1>3, <2>1, <2>2, <2>7, <3>3, <3>4
  <2>8. QED
    BY <2>4, <2>5, <2>6, <2>7
<1>5. ASSUME NEW i \in CodeItems, Jump(i)
      PROVE  InMode'
  <2>1. /\ UNCHANGED compilerVars /\ stage = "run" /\ At(i) /\ UNCHANGED <<mxcsr, fprc>>
        /\ rip' = rip + Item(i).size + Item(i).displacement /\ Item(i).kind \in {"branch", "jump"}
    BY <1>5 DEF Jump, At
  <2>2. CASE mxcsr = fprc
    BY <1>3, <2>1, <2>2
  <2>3. CASE mxcsr # fprc
    <3>1. i \in Calls /\ Quiet(i)
      BY <2>1, <2>3, QuietItem
    <3>2. idx = Rx_Program_Size /\ rip = Off(i) /\ Item(i).kind = "branch"
      <4>1. idx = Rx_Program_Size /\ i # Rx_Program_Size
        BY <2>1, <3>1, AtItem DEF Calls
      <4>2. QED
        BY <2>1, <4>1, AtItem
    <3>3. PICK k \in i .. idx - 1 : Item(k).kind = "cfround" /\ \A m \in i .. k - 1 : Calm(m)
      BY <3>1 DEF Quiet
    <3>4. k > i /\ Calm(i)
      <4>1. k # i
        BY <3>2, <3>3
      <4>2. k > i /\ i \in i .. k - 1
        BY <3>1, <3>3, <4>1 DEF Calls
      <4>3. QED
        BY <3>3, <4>2
    <3>5. PICK t \in 0 .. i : Leads(i, t) /\ \A x \in t .. i : Item(x).kind \in Idle
      BY <3>2, <3>4 DEF Calm
    <3>6. rip' = Off(t)
      BY <2>1, <3>2, <3>5 DEF Leads
    <3>7. /\ idx \in Nat /\ i \in 0 .. idx - 1 /\ t \in 0 .. i /\ Len(program) = idx
           /\ program \in Seq(Instructions) /\ \A j : j \in Calls <=> j \in 0 .. idx - 1
      BY <3>1, <3>5 DEF Calls, Placement, Shape, idx
    <3>8. ASSUME NEW x \in t .. i - 1
          PROVE  Calm(x)
      <4>1. x \in Calls /\ x \in t .. i
        BY <3>8, <3>7
      <4>2. Item(x).kind # "branch"
        <5>1. SUFFICES ASSUME Item(x).kind = "branch"
                       PROVE  FALSE
          OBVIOUS
        <5>2. /\ program[x + 1].opcode = "CBRANCH" /\ program[x + 1] \in RxInstruction
              /\ program[i + 1] \in RxInstruction
          <6>1. CompiledTo(program[x + 1], Item(x))
            BY <4>1 DEF Placement, Emissions
          <6>2. program[x + 1] \in Instructions /\ program[i + 1] \in Instructions
            BY <3>7, <4>1
          <6>3. QED
            BY <5>1, <6>1, <6>2 DEF CompiledTo
        <5>3. program[i + 1].dst \in Uses(program[x + 1])
          BY <5>2, WritesUsed DEF RxInstruction
        <5>4. QED
          BY <3>5, <5>3 DEF Leads
      <4>3. QED
        BY <3>5, <4>1, <4>2 DEF Calm
    <3>9. \A m \in t .. k - 1 : Calm(m)
      <4>1. \A m \in t .. k - 1 : m \in t .. i - 1 \/ m \in i .. k - 1
        BY <3>1, <3>5 DEF Calls
      <4>2. QED
        BY <3>3, <3>8, <4>1
    <3>10. t \in Calls /\ k \in t .. idx - 1
      BY <3>3, <3>7
    <3>11. Quiet(t)
      BY <3>3, <3>9, <3>10, Zenon DEF Quiet
    <3>12. QED
      BY <1>3, <2>1, <3>6, <3>10, <3>11
  <2>4. QED
    BY <2>2, <2>3
<1>6. CASE Iterate
  <2>1. UNCHANGED <<compilerVars, mxcsr, fprc>> /\ stage = "run" /\ rip = Max_Program_Size
    BY <1>6 DEF Iterate
  <2>2. CASE mxcsr = fprc
    BY <1>3, <2>1, <2>2
  <2>3. CASE mxcsr # fprc
    <3>1. PICK q \in Calls : rip = Off(q) /\ Quiet(q)
      BY <2>1, <2>3 DEF InMode
    <3>2. idx = Rx_Program_Size /\ code_size \in Nat /\ code_size <= Max_Program_Size
      BY <2>1 DEF Placement, Shape, Max_Program_Size
    <3>3. Off(q) <= code_size /\ Off(q) \in Int
      <4>1. q \in Calls /\ idx \in q + 1 .. idx /\ Off(idx) = code_size
        BY <3>1, <3>2 DEF Calls, Off
      <4>2. Off(q) + Item(q).size <= code_size
        BY <4>1 DEF Placement, Layout
      <4>3. Item(q).size \in Nat /\ Off(q) \in Int
        <5>1. code[q + 1] \in Emission
          BY <2>1, <3>1, <3>2 DEF Placement, Shape, Calls
        <5>2. Off(q) \in Int
          BY <3>1, <3>2 DEF Placement, Shape, Calls, Off
        <5>3. QED
          BY <5>1, <5>2 DEF Item, Emission
      <4>4. QED
        BY <3>2, <4>2, <4>3
    <3>4. Off(q) = Off(idx) /\ idx \in Ends
      BY <2>1, <3>1, <3>2, <3>3 DEF Off, Ends
    <3>5. idx \in Calls
      BY <3>1, <3>4, QuietAt
    <3>6. QED
      BY <3>2, <3>5 DEF Calls
  <2>4. QED
    BY <2>2, <2>3
<1>7. CASE UNCHANGED vars
  BY <1>7, SameProgram DEF vars, runVars, InMode
<1>8. QED
  BY <1>1, <1>2, <1>4, <1>5, <1>6, <1>7 DEF Next

(* Every instruction that rounds does so in the mode of the CFROUND that    *)
(* came last in the program's order, whatever the program and whichever of  *)
(* its branches are taken, however often.                                   *)
THEOREM ProgramRoundingExact == Spec => []RoundingExact
<1> USE BytecodeAssumption
<1> DEFINE Inv == Placement /\ Running /\ Modes /\ InMode
<1>1. Init => Inv
  <2>1. Init => Placement
    BY PlacementInit
  <2>2. Init => Running /\ InMode
    BY DEF Init, Running, InMode
  <2>3. Init => Modes
    BY DEF Init, Modes, LastRounding, LastCfround, KeptCfrounds, CalmLoops, NopsQuiet, Calls, idx
  <2>4. QED
    BY <2>1, <2>2, <2>3
<1>2. Inv /\ [Next]_vars => Inv'
  BY PlacementStep, RunningStep, ModesStep, InModeStep
<1>3. Inv => RoundingExact
  <2>1. SUFFICES ASSUME Placement, Running, InMode, NEW i \in CodeItems, At(i),
                        Item(i).kind = "rounding", mxcsr # fprc
                 PROVE  FALSE
    BY DEF RoundingExact
  <2>2. i \in Calls /\ Quiet(i)
    BY <2>1, QuietItem
  <2>3. PICK k \in i .. idx - 1 : Item(k).kind = "cfround" /\ \A m \in i .. k - 1 : Calm(m)
    BY <2>2 DEF Quiet
  <2>4. k # i
    BY <2>1, <2>3
  <2>5. i \in i .. k - 1
    BY <2>2, <2>3, <2>4 DEF Calls
  <2>6. QED
    BY <2>1, <2>3, <2>5 DEF Calm, Idle
<1>4. QED
  BY <1>1, <1>2, <1>3, PTL DEF Spec
=============================================================================
