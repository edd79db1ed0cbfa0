------------------------- MODULE DatasetCompilerProofs -------------------------
(***************************************************************************)
(* Proofs about the programs that compute the dataset, in this order:      *)
(*   DatasetCompiler    for any number of programs of any size, every      *)
(*                      constant is read where it was stored, no           *)
(*                      instruction crosses a page, and the data pointers  *)
(*                      are filled.  RBX and the offset are only related   *)
(*                      to the data's size in some parts of compile(); the *)
(*                      inductive invariant says what is known in each.    *)
(*   Encoding           the bytes of an instruction, read back             *)
(*   Superscalar        for any number of registers and any schedule, the  *)
(*                      generator's programs fit where they are put        *)
(***************************************************************************)
EXTENDS DatasetCompiler, Encoding, Superscalar, SequenceTheorems, FiniteSetTheorems,
        WellFoundedInduction, TLAPS

DataTypes ==
    /\ data_size \in Int /\ rbx \in Int /\ data_offset \in Int

(* What RBX, the offset and the data's size are in each part of compile(). *)
DataPlaced ==
    /\ pc \in {"entry", "data pointer", "data pointer saved", "constants"} => data_size = 0
    /\ pc \in {"label", "start", "start saved", "item"} => data_size = Fixed_Data
    /\ pc \in {"start saved", "item"} => rbx = Loop_Data
    /\ pc \in {"cache", "program"} => rbx + data_offset = data_size

DataInv == DataTypes /\ DataPlaced /\ ReadsItsConstant

(* Nothing but the actions on data and on pc can disturb the invariant. *)
LEMMA DataUnchanged ==
    ASSUME DataInv, UNCHANGED <<dataVars, pc>> PROVE DataInv'
BY DEF DataInv, DataTypes, DataPlaced, ReadsItsConstant, dataVars

LEMMA DataInit == Init => DataInv
BY DEF Init, DataInv, DataTypes, DataPlaced, ReadsItsConstant

(* A constant that is read at the end of the data keeps RBX and the offset *)
(* at the end of the data.                                                 *)
LEMMA DataEmitConstant ==
    ASSUME DataInv, EmitConstant PROVE DataInv'
<1>1. /\ pc = "program" /\ pc' = "program"
      /\ data_size' = data_size + Vector
      /\ read' = [slot |-> data_size, address |-> rbx + data_offset]
      /\ data_offset' = MovedOn(data_offset).offset
      /\ rbx' = MovedOn(data_offset).rbx
  BY DEF EmitConstant, Emit, At
<1>2. rbx + data_offset = data_size /\ rbx \in Int /\ data_offset \in Int /\ data_size \in Int
  BY <1>1 DEF DataInv, DataTypes, DataPlaced
<1>3. read'.address = read'.slot
  BY <1>1, <1>2
<1>4. CASE data_offset + Vector = 128
  <2>1. data_offset' = -128 /\ rbx' = rbx + 256
    BY <1>1, <1>4 DEF MovedOn
  <2> QED BY <1>1, <1>2, <1>3, <1>4, <2>1
          DEF DataInv, DataTypes, DataPlaced, ReadsItsConstant, Vector
<1>5. CASE data_offset + Vector # 128
  <2>1. data_offset' = data_offset + Vector /\ rbx' = rbx
    BY <1>1, <1>5 DEF MovedOn
  <2> QED BY <1>1, <1>2, <1>3, <2>1
          DEF DataInv, DataTypes, DataPlaced, ReadsItsConstant, Vector
<1> QED BY <1>4, <1>5

(* The loop sets RBX anew, before it reads any constant. *)
LEMMA DataMovLoop ==
    ASSUME DataInv, MovDataPtrLoop PROVE DataInv'
<1>1. /\ pc = "start" /\ pc' = "start saved" /\ rbx' = Loop_Data
      /\ data_size' = data_size /\ data_offset' = data_offset /\ read' = read
  BY DEF MovDataPtrLoop, MovDataPtr, Emit, At
<1>2. DataTypes'
  <2>1. Loop_Data \in Int
    BY DEF Loop_Data
  <2>2. data_size \in Int /\ data_offset \in Int
    BY DEF DataInv, DataTypes
  <2> QED BY <1>1, <2>1, <2>2 DEF DataTypes
<1>3. data_size = Fixed_Data
  BY <1>1 DEF DataInv, DataPlaced
<1>4. DataPlaced'
  <2>1. data_size' = Fixed_Data' /\ rbx' = Loop_Data'
    BY <1>1, <1>3 DEF Fixed_Data, Vector, Loop_Data
  <2>2. pc' \notin {"entry", "data pointer", "data pointer saved", "constants", "cache", "program"}
    BY <1>1
  <2> QED BY <2>1, <2>2, Zenon DEF DataPlaced
<1>5. ReadsItsConstant'
  BY <1>1 DEF DataInv, ReadsItsConstant
<1> QED BY <1>2, <1>4, <1>5 DEF DataInv

(* The actions in front of the programs. *)
LEMMA DataPrologue ==
    ASSUME DataInv,
           \/ SaveRegisters \/ MovDataPtrEntry \/ SaveEntry \/ StoreConstants
           \/ LoopLabel \/ MovDataPtrLoop \/ SaveLoop \/ LoadItem \/ FetchCache
    PROVE  DataInv'
<1> USE DEF DataInv, DataTypes, DataPlaced, ReadsItsConstant, dataVars, Emit, At
<1>1. CASE SaveRegisters
  BY <1>1 DEF SaveRegisters, Piece
<1>2. CASE MovDataPtrEntry
  BY <1>2 DEF MovDataPtrEntry, MovDataPtr
<1>3. CASE SaveEntry
  BY <1>3 DEF SaveEntry, SavePosition
<1>4. CASE StoreConstants
  BY <1>4 DEF StoreConstants, Fixed_Data, Vector
<1>5. CASE LoopLabel
  BY <1>5 DEF LoopLabel
<1>6. CASE MovDataPtrLoop
  BY <1>6, DataMovLoop
<1>7. CASE SaveLoop
  BY <1>7 DEF SaveLoop, SavePosition
<1>8. CASE LoadItem
  BY <1>8 DEF LoadItem, InitialOffset, Loop_Data, Fixed_Data, Vector
<1>9. CASE FetchCache
  BY <1>9 DEF FetchCache, Piece
<1> QED BY <1>1, <1>2, <1>3, <1>4, <1>5, <1>6, <1>7, <1>8, <1>9

(* The actions of the loop but EmitConstant, and those behind it. *)
LEMMA DataLoop ==
    ASSUME DataInv,
           EmitComputed \/ EndProgram \/ StoreItems \/ JneLoop \/ JumpTarget \/ Flush
    PROVE  DataInv'
<1> USE DEF DataInv, DataTypes, DataPlaced, ReadsItsConstant, dataVars, Emit, At
<1>1. CASE EmitComputed
  BY <1>1 DEF EmitComputed
<1>2. CASE EndProgram
  BY <1>2 DEF EndProgram
<1>3. CASE StoreItems
  BY <1>3 DEF StoreItems, Piece
<1>4. CASE JneLoop
  BY <1>4 DEF JneLoop
<1>5. CASE JumpTarget
  BY <1>5 DEF JumpTarget
<1>6. CASE Flush
  BY <1>6 DEF Flush
<1> QED BY <1>1, <1>2, <1>3, <1>4, <1>5, <1>6

(* Every constant of every superscalar program is read where compile()     *)
(* stored it: RBX plus the offset is the end of the data all the time.     *)
THEOREM CompilerReadsItsConstant == Spec => []ReadsItsConstant
<1>1. Init => DataInv
  BY DataInit
<1>2. DataInv /\ [Next]_vars => DataInv'
  <2> SUFFICES ASSUME DataInv, [Next]_vars PROVE DataInv'
    OBVIOUS
  <2>1. CASE Schedule
    BY <2>1, DataUnchanged DEF Schedule, dataVars
  <2>2. CASE \/ SaveRegisters \/ MovDataPtrEntry \/ SaveEntry \/ StoreConstants
             \/ LoopLabel \/ MovDataPtrLoop \/ SaveLoop \/ LoadItem \/ FetchCache
    BY <2>2, DataPrologue
  <2>3. CASE EmitConstant
    BY <2>3, DataEmitConstant
  <2>4. CASE EmitComputed \/ EndProgram \/ StoreItems \/ JneLoop \/ JumpTarget \/ Flush
    BY <2>4, DataLoop
  <2>5. CASE UNCHANGED vars
    BY <2>5, DataUnchanged DEF vars, dataVars
  <2> QED BY <2>1, <2>2, <2>3, <2>4, <2>5 DEF Next
<1>3. DataInv => ReadsItsConstant
  BY DEF DataInv
<1> QED BY <1>1, <1>2, <1>3, PTL DEF Spec

-----------------------------------------------------------------------------
(* Pages. *)

LEMMA PageOf ==
  ASSUME NEW a \in Nat, NEW q \in Nat, q * Page <= a, a < q * Page + Page
  PROVE  a \div Page = q /\ a % Page = a - q * Page
<1> DEFINE d == a \div Page
           m == a % Page
<1>1. Page \in Nat \ {0}
  BY DatasetCompilerAssumption
<1>2. d \in Int /\ m \in Int /\ a = d * Page + m /\ 0 <= m /\ m < Page
  BY <1>1, SMT
<1> HIDE DEF d, m
<1>3. ASSUME NEW b \in Int, NEW c \in Int, b < c PROVE b * Page + Page <= c * Page
  <2>1. PICK e \in Nat : c = b + 1 + e
    <3>1. c - b - 1 \in Nat /\ c = b + 1 + (c - b - 1)
      BY <1>3
    <3> QED BY <3>1
  <2>2. c * Page = b * Page + Page + e * Page /\ e * Page \in Nat /\ b * Page \in Int
    BY <1>1, <2>1
  <2> QED BY <1>1, <2>2
<1>4. d * Page \in Int /\ q * Page \in Int
  BY <1>1, <1>2
<1>5. ~ (d < q) /\ ~ (q < d)
  BY <1>1, <1>2, <1>3, <1>4
<1>6. d = q
  BY <1>2, <1>5
<1> QED BY <1>2, <1>4, <1>6 DEF d, m

(* Where schedule() puts an instruction, it ends in the page it begins in. *)
LEMMA WithinPage ==
  ASSUME NEW size \in Nat, NEW n \in 1 .. 15,
         NEW start, start = size + Padding(size, n)
  PROVE  start \in Nat /\ start \div Page = ((start + n) - 1) \div Page
<1> DEFINE q == size \div Page
           r == size % Page
<1>1. Page \in Nat /\ Page > 15
  BY DatasetCompilerAssumption
<1>2. q \in Nat /\ r \in Nat /\ size = q * Page + r /\ r < Page
  BY <1>1, SMT
<1>3. r = size % Page
  OBVIOUS
<1> HIDE DEF q, r
<1>4. (q + 1) * Page = q * Page + Page /\ q * Page \in Nat
  BY <1>1, <1>2
<1>5. CASE Crosses(size, n)
  <2>1. start = (q + 1) * Page
    BY <1>1, <1>2, <1>3, <1>4, <1>5 DEF Padding
  <2>2. /\ start \in Nat /\ (start + n) - 1 \in Nat /\ q + 1 \in Nat
        /\ (q + 1) * Page <= start /\ start < (q + 1) * Page + Page
        /\ (q + 1) * Page <= (start + n) - 1 /\ (start + n) - 1 < (q + 1) * Page + Page
    BY <1>1, <1>2, <1>4, <2>1
  <2>3. start \div Page = q + 1
    BY <2>2, PageOf, Zenon
  <2>4. ((start + n) - 1) \div Page = q + 1
    BY <2>2, PageOf, Zenon
  <2> QED BY <2>2, <2>3, <2>4
<1>6. CASE ~ Crosses(size, n)
  <2>1. start = size
    BY <1>6 DEF Padding
  <2>2. r + n <= Page
    <3> SUFFICES ASSUME r + n > Page PROVE FALSE
      BY <1>1, <1>2
    <3>1. (size + n) % Page = r + n - Page
      <4>1. size + n \in Nat /\ (q + 1) * Page <= size + n
            /\ size + n < (q + 1) * Page + Page /\ q + 1 \in Nat
        BY <1>1, <1>2, <1>4
      <4>2. (size + n) % Page = (size + n) - (q + 1) * Page
        BY <4>1, PageOf
      <4> QED BY <1>1, <1>2, <1>4, <4>2
    <3>2. r > (size + n) % Page
      BY <1>1, <1>2, <3>1
    <3>3. size + n = Page
      BY <1>3, <1>6, <3>2 DEF Crosses
    <3>4. q * Page + (r + n) = Page
      BY <1>1, <1>2, <1>4, <3>3
    <3> QED BY <1>1, <1>2, <1>4, <3>4
  <2>3. start \div Page = q
    <3>1. q * Page <= start /\ start < q * Page + Page
      BY <1>1, <1>2, <1>4, <2>1
    <3> QED BY <1>2, <2>1, <3>1, PageOf, Zenon
  <2>4. ((start + n) - 1) \div Page = q
    <3>1. (start + n) - 1 \in Nat /\ q * Page <= (start + n) - 1
          /\ (start + n) - 1 < q * Page + Page
      BY <1>1, <1>2, <1>4, <2>1, <2>2
    <3> QED BY <1>2, <3>1, PageOf
  <2> QED BY <2>1, <2>3, <2>4
<1> QED BY <1>5, <1>6

-----------------------------------------------------------------------------
(* Types, pages and pointers. *)

Before_Programs ==
    {"entry", "data pointer", "data pointer saved", "constants", "label", "start",
     "start saved", "item"}
In_Programs == {"cache", "program"}
After_Programs == {"end", "jump", "placed", "flush", "done"}

(* The offsets a short displacement is used for. *)
Short_Offsets == {-128, -96, -64, -32, 0, 32, 64, 96}

PlacedInv ==
    /\ DatasetCompilerTypeOK
    /\ pc \in Before_Programs \union In_Programs \union After_Programs
    /\ data_offset \in Short_Offsets
    /\ pc \in Before_Programs => program = 0
    /\ pc \in In_Programs => program < Programs
    /\ NoInstructionCrosses

(* A placeholder is there as soon as the code has been asked for it. *)
Has(offset) == \E p \in data_ptr_pos : p[2] = offset
PointerInv ==
    /\ pc \notin {"entry", "data pointer", "data pointer saved"} => Has(0)
    /\ pc \in ({"item"} \union In_Programs \union After_Programs) => Has(Loop_Data)
    /\ pc = "done" => given.filled = data_ptr_pos

LEMMA LengthsOf == Lengths = Seq(1 .. 15)
BY DEF Lengths

LEMMA ComputedLengths == Computed \subseteq Seq(1 .. 15)
<1> DEFINE L == 1 .. 15
<1>1. High \in Seq(L)
  BY DEF High
<1>2. <<5>> \in Seq(L) /\ <<4, 5, 4, 4, 5, 4, 5>> \in Seq(L)
  OBVIOUS
<1>3. High \o <<5>> \in Seq(L) /\ High \o <<4, 5, 4, 4, 5, 4, 5>> \in Seq(L)
  <2> HIDE DEF L
  <2> QED BY <1>1, <1>2, ConcatProperties
<1>4. {<<5>>, <<6, 5>>, <<7>>, <<6>>} \subseteq Seq(L)
  OBVIOUS
<1> QED BY <1>3, <1>4, Zenon DEF Computed, L

LEMMA FixedSizes ==
    /\ <<MovDataPtrLength>> \in Seq(1 .. 15) /\ <<Jne>> \in Seq(1 .. 15)
    /\ Loop_Data \in Nat /\ Jne \in Nat /\ 0 < Programs
    /\ InitialOffset \in Short_Offsets /\ InitialOffset \in -128 .. 127
BY DatasetCompilerAssumption
   DEF MovDataPtrLength, Jne, Loop_Data, InitialOffset, Short_Offsets

LEMMA PlacedInit == Init => PlacedInv /\ PointerInv
BY DatasetCompilerAssumption
   DEF Init, PlacedInv, PointerInv, DatasetCompilerTypeOK, NoInstructionCrosses, Before_Programs,
       In_Programs, After_Programs, Short_Offsets

(* schedule() keeps the instruction within a page. *)
LEMMA PlacedSchedule == ASSUME PlacedInv, Schedule PROVE PlacedInv'
<1> DEFINE n == Head(queue)
           start == code_size + Padding(code_size, n)
<1>1. /\ queue # <<>> /\ queue' = Tail(queue) /\ code_size' = start + n
      /\ last' = [start |-> start, length |-> n]
      /\ UNCHANGED <<dataVars, pc, program, instr, label, target>>
  BY DEF Schedule
<1>2. queue \in Seq(1 .. 15) /\ code_size \in Nat
  BY DEF PlacedInv, DatasetCompilerTypeOK
<1>3. n \in 1 .. 15 /\ queue' \in Seq(1 .. 15)
  <2> DEFINE L == 1 .. 15
  <2> HIDE DEF L
  <2>1. queue \in Seq(L) => n \in L /\ Tail(queue) \in Seq(L)
    BY <1>1
  <2> QED BY <1>1, <1>2, <2>1 DEF L
<1>4. start \in Nat /\ start \div Page = ((start + n) - 1) \div Page
  <2> HIDE DEF n
  <2> QED BY <1>2, <1>3, WithinPage
<1> HIDE DEF n, start
<1>5. NoInstructionCrosses'
  <2>1. (start + n) - 1 = start + n - 1
    BY <1>3, <1>4
  <2> QED BY <1>1, <1>4, <2>1 DEF NoInstructionCrosses
<1>6. code_size' \in Nat
  BY <1>1, <1>3, <1>4
<1> QED BY <1>1, <1>3, <1>5, <1>6 DEF PlacedInv, DatasetCompilerTypeOK, dataVars

(* label() aligns the size of the code.                                    *)
LEMMA AlignedSize ==
  ASSUME NEW size \in Nat PROVE Aligned(size) \in Nat
<1>1. Label_Align \in Nat \ {0}
  BY DatasetCompilerAssumption
<1>2. size % Label_Align \in Nat /\ size % Label_Align < Label_Align
  BY <1>1, SMT
<1> QED BY <1>1, <1>2 DEF Aligned

(* The actions in front of the programs. *)
LEMMA PlacedPrologue ==
    ASSUME PlacedInv, PointerInv,
           \/ SaveRegisters \/ MovDataPtrEntry \/ SaveEntry \/ StoreConstants
           \/ LoopLabel \/ MovDataPtrLoop \/ SaveLoop \/ LoadItem
    PROVE  PlacedInv' /\ PointerInv'
<1> USE DatasetCompilerAssumption, LengthsOf
    DEF PlacedInv, PointerInv, DatasetCompilerTypeOK, NoInstructionCrosses, Before_Programs,
        In_Programs, After_Programs, Has, Emit, At, codeVars, dataVars
<1>1. CASE SaveRegisters
  BY <1>1 DEF SaveRegisters, Piece
<1>2. CASE MovDataPtrEntry
  <2>1. <<MovDataPtrLength>> \in Seq(1 .. 15)
    BY FixedSizes, Zenon
  <2>2. /\ pc = "data pointer" /\ pc' = "data pointer saved" /\ queue' = <<MovDataPtrLength>>
        /\ rbx' = 0
        /\ UNCHANGED <<code_size, last, data_size, data_offset, program, instr, label, target,
                       data_ptr_pos>>
    BY <1>2 DEF MovDataPtrEntry, MovDataPtr
  <2> HIDE DEF MovDataPtrLength
  <2> QED BY <2>1, <2>2
<1>3. CASE SaveEntry
  <2>1. <<code_size - 8, 0>> \in data_ptr_pos' /\ <<code_size - 8, 0>>[2] = 0
    BY <1>3 DEF SaveEntry, SavePosition
  <2>2. PlacedInv'
    BY <1>3 DEF SaveEntry, SavePosition
  <2> QED BY <1>3, <2>1, <2>2 DEF SaveEntry, SavePosition
<1>4. CASE StoreConstants
  BY <1>4 DEF StoreConstants, Fixed_Data, Vector
<1>5. CASE LoopLabel
  BY <1>5, AlignedSize DEF LoopLabel
<1>6. CASE MovDataPtrLoop
  <2>1. <<MovDataPtrLength>> \in Seq(1 .. 15) /\ Loop_Data \in Nat
    BY FixedSizes, Zenon
  <2>2. /\ pc = "start" /\ pc' = "start saved" /\ queue' = <<MovDataPtrLength>>
        /\ rbx' = Loop_Data
        /\ UNCHANGED <<code_size, last, data_size, data_offset, program, instr, label, target,
                       data_ptr_pos>>
    BY <1>6 DEF MovDataPtrLoop, MovDataPtr
  <2>3. rbx' \in Nat /\ queue' \in Seq(1 .. 15)
    BY <2>1, <2>2
  <2> QED BY <2>2, <2>3
<1>7. CASE SaveLoop
  <2>1. data_ptr_pos' = data_ptr_pos \union {<<code_size - 8, Loop_Data>>}
    BY <1>7 DEF SaveLoop, SavePosition
  <2>2. Has(0)' /\ Has(Loop_Data)'
    <3>1. <<code_size - 8, Loop_Data>>[2] = Loop_Data /\ Has(0)
      BY <1>7 DEF SaveLoop, SavePosition
    <3> QED BY ZenonT(60), <2>1, <3>1 DEF Loop_Data
  <2>3. PlacedInv' /\ pc' = "item"
    BY <1>7 DEF SaveLoop, SavePosition
  <2> QED BY <2>2, <2>3
<1>8. CASE LoadItem
  <2>1. InitialOffset \in Short_Offsets /\ InitialOffset \in -128 .. 127
    BY FixedSizes, Zenon
  <2>2. /\ pc = "item" /\ pc' = "cache" /\ queue' = Load_Item
        /\ data_offset' = InitialOffset
        /\ UNCHANGED <<code_size, last, data_size, rbx, program, instr, label, target,
                       data_ptr_pos>>
    BY <1>8 DEF LoadItem
  <2>3. data_offset' \in Short_Offsets /\ data_offset' \in -128 .. 127
    BY <2>1, <2>2
  <2>4. Has(0)' /\ Has(Loop_Data)'
    BY <2>2 DEF Loop_Data
  <2>5. 0 < Programs
    BY FixedSizes, Zenon
  <2> QED BY <2>2, <2>3, <2>4, <2>5
<1> QED BY <1>1, <1>2, <1>3, <1>4, <1>5, <1>6, <1>7, <1>8

LEMMA PlacedComputed == ASSUME PlacedInv, PointerInv, EmitComputed PROVE PlacedInv' /\ PointerInv'
<1>1. PICK lengths \in Computed : Emit("program", "program", lengths)
  BY DEF EmitComputed
<1>2. pc = "program" /\ pc' = "program" /\ queue' \in Seq(1 .. 15)
  BY <1>1, ComputedLengths DEF Emit, At
<1>3. /\ UNCHANGED <<code_size, last, data_size, rbx, data_offset, program, label, target,
                     data_ptr_pos>>
      /\ instr' = instr + 1 /\ instr < Max_Size
  BY DEF EmitComputed, Emit1, codeVars, dataVars
<1>4. instr' \in 0 .. Max_Size
  BY <1>3, DatasetCompilerAssumption DEF PlacedInv, DatasetCompilerTypeOK
<1> QED BY <1>2, <1>3, <1>4
        DEF PlacedInv, PointerInv, DatasetCompilerTypeOK, NoInstructionCrosses, Before_Programs,
            In_Programs, After_Programs, Has

LEMMA PlacedConstant == ASSUME PlacedInv, PointerInv, EmitConstant PROVE PlacedInv' /\ PointerInv'
<1> DEFINE moved == MovedOn(data_offset)
<1>1. PICK n \in WithConstant(data_offset) : Emit("program", "program", <<n>> \o moved.code)
  BY DEF EmitConstant
<1>2. /\ data_offset \in Short_Offsets /\ rbx \in Nat /\ data_size \in Nat
  BY DEF PlacedInv, DatasetCompilerTypeOK
<1>3. moved.offset \in Short_Offsets /\ moved.rbx \in Nat /\ moved.code \in {<<>>, Add_RBX}
  BY <1>2 DEF MovedOn, Short_Offsets, Vector
<1>4. <<n>> \o moved.code \in Seq(1 .. 15)
  <2>1. <<n>> \in Seq(1 .. 15)
    BY DEF WithConstant
  <2>2. moved.code \in Seq(1 .. 15)
    <3>1. <<>> \in Seq(1 .. 15) /\ <<7>> \in Seq(1 .. 15)
      OBVIOUS
    <3> HIDE DEF moved
    <3> QED BY <1>3, <3>1 DEF Add_RBX
  <2> HIDE DEF moved
  <2> QED BY <2>1, <2>2, ConcatProperties, Zenon
<1>5. pc = "program" /\ pc' = "program" /\ queue' \in Seq(1 .. 15)
  BY <1>1, <1>4 DEF Emit, At
<1>6. /\ UNCHANGED <<code_size, last, program, label, target, data_ptr_pos>>
      /\ instr' = instr + 1 /\ instr < Max_Size
      /\ data_size' = data_size + Vector
      /\ data_offset' = moved.offset /\ rbx' = moved.rbx
  BY DEF EmitConstant, Emit1, codeVars
<1> HIDE DEF moved
<1>7. /\ instr' \in 0 .. Max_Size /\ data_size' \in Nat /\ rbx' \in Nat
      /\ data_offset' \in Short_Offsets /\ data_offset' \in -128 .. 127
  BY <1>2, <1>3, <1>6, DatasetCompilerAssumption
     DEF PlacedInv, DatasetCompilerTypeOK, Vector, Short_Offsets
<1> QED BY <1>5, <1>6, <1>7
        DEF PlacedInv, PointerInv, DatasetCompilerTypeOK, NoInstructionCrosses, Before_Programs,
            In_Programs, After_Programs, Has

(* The other actions of the loop, and those behind it. *)
LEMMA PlacedLoop ==
    ASSUME PlacedInv, PointerInv, Flush_Orders = {"data"},
           FetchCache \/ EndProgram \/ StoreItems \/ JneLoop \/ JumpTarget \/ Flush
    PROVE  PlacedInv' /\ PointerInv'
<1> USE DatasetCompilerAssumption, LengthsOf
    DEF PlacedInv, PointerInv, DatasetCompilerTypeOK, NoInstructionCrosses, Before_Programs,
        In_Programs, After_Programs, Has, Emit, At, codeVars, dataVars
<1>1. CASE FetchCache
  BY <1>1 DEF FetchCache, Piece
<1>2. CASE EndProgram
  BY <1>2 DEF EndProgram
<1>3. CASE StoreItems
  BY <1>3 DEF StoreItems, Piece
<1>4. CASE JneLoop
  <2>1. <<Jne>> \in Seq(1 .. 15) /\ Jne \in Nat
    BY FixedSizes, Zenon
  <2>2. /\ pc = "jump" /\ pc' = "placed" /\ queue' = <<Jne>>
        /\ target' = (label - code_size) - Jne
        /\ UNCHANGED <<code_size, last, data_size, rbx, data_offset, program, instr, label,
                       data_ptr_pos>>
    BY <1>4 DEF JneLoop
  <2>3. target' \in Int /\ queue' \in Seq(1 .. 15)
    BY <2>1, <2>2
  <2>4. Has(0)' /\ Has(Loop_Data)'
    BY <2>2 DEF Loop_Data
  <2> QED BY <2>2, <2>3, <2>4
<1>5. CASE JumpTarget
  BY <1>5 DEF JumpTarget
<1>6. CASE Flush
  BY <1>6 DEF Flush, FlushDataFirst
<1> QED BY <1>1, <1>2, <1>3, <1>4, <1>5, <1>6

LEMMA PlacedNext ==
    ASSUME PlacedInv, PointerInv, Flush_Orders = {"data"}, [Next]_vars
    PROVE  PlacedInv' /\ PointerInv'
<1>1. CASE Schedule
  <2>1. PointerInv'
    BY <1>1 DEF Schedule, PointerInv, Has
  <2> QED BY <1>1, <2>1, PlacedSchedule
<1>2. CASE UNCHANGED vars
  BY <1>2 DEF vars, PlacedInv, PointerInv, Has, DatasetCompilerTypeOK, NoInstructionCrosses
<1> QED BY <1>1, <1>2, PlacedPrologue, PlacedComputed, PlacedConstant, PlacedLoop DEF Next

(* No instruction crosses a page, whatever the lengths of the instructions *)
(* of the fixed pieces.                                                    *)
THEOREM CompilerNoInstructionCrosses ==
    Flush_Orders = {"data"} => (Spec => []NoInstructionCrosses)
<1> SUFFICES ASSUME Flush_Orders = {"data"} PROVE Spec => []NoInstructionCrosses
  OBVIOUS
<1>1. PlacedInv => NoInstructionCrosses
  BY DEF PlacedInv
<1> QED BY <1>1, PlacedInit, PlacedNext, PTL DEF Spec

(* The variables keep their types: the offset stays within 8 bits. *)
THEOREM CompilerTypeCorrect == Flush_Orders = {"data"} => (Spec => []DatasetCompilerTypeOK)
<1> SUFFICES ASSUME Flush_Orders = {"data"} PROVE Spec => []DatasetCompilerTypeOK
  OBVIOUS
<1>1. PlacedInv => DatasetCompilerTypeOK
  BY DEF PlacedInv
<1> QED BY <1>1, PlacedInit, PlacedNext, PTL DEF Spec

(* When makeExecutable's arguments are evaluated from the last to the      *)
(* first, the code it is given has its data pointers.                      *)
THEOREM CompilerPointersFilled == Flush_Orders = {"data"} => (Spec => []PointersFilled)
<1> SUFFICES ASSUME Flush_Orders = {"data"} PROVE Spec => []PointersFilled
  OBVIOUS
<1>1. PointerInv => PointersFilled
  BY DEF PointerInv, PointersFilled, After_Programs, In_Programs, Has
<1> QED BY <1>1, PlacedInit, PlacedNext, PTL DEF Spec

-----------------------------------------------------------------------------
(* Encoding: one lemma for each form of a request.                         *)

Unit(p) == IF p.kind = "evex" THEN 32 ELSE 1

(* What a prefix has to say of the operands that were asked for. *)
PrefixFits(q, p) ==
    /\ p.map = q.map /\ 15 - p.v = q.vvvv
    /\ IF q.form \in RegUnused THEN q.reg < 8 ELSE Bit(p, "r") = IsHigh(q.reg)
    /\ Bit(p, "b") = IsHigh(q.rm.base)
    /\ Bit(p, "x") = 0 \/ (p.kind # "evex" /\ (q.rm.memory => LowIdx(q.rm.base) # 4))

(* A displacement of k units; a scaled one is asked for in one byte only. *)
OffsetFits(offset, k, p) ==
    offset = Unit(p) * k /\ (p.kind = "evex" => offset \in -128 .. 127)

(* An operand in ModRM.rm. *)
OperandFits(rm, n, k, p) ==
    \/ rm = Register(n)
    \/ \E offset \in Int : rm = Memory(n, offset) /\ OffsetFits(offset, k, p) /\ LowIdx(n) # 5

LEMMA LowAndHigh ==
  ASSUME NEW n \in 0 .. 15
  PROVE  /\ LowIdx(n) \in 0 .. 7 /\ IsHigh(n) \in 0 .. 1 /\ LowIdx(n) + 8 * IsHigh(n) = n
         /\ n < 8 => LowIdx(n) = n
  <1>1. CASE n < 8
    BY <1>1 DEF LowIdx, IsHigh, IsLow
  <1>2. CASE n >= 8
    BY <1>2 DEF LowIdx, IsHigh, IsLow
  <1>. QED BY <1>1, <1>2

LEMMA RegisterDecoded ==
  ASSUME NEW n \in 0 .. 15, NEW p, NEW reg, Bit(p, "b") = IsHigh(n),
         Bit(p, "x") = 0 \/ p.kind # "evex"
  PROVE  DecodedRm(p, ModRegRm(reg, LowIdx(n))) = Register(n)
  <1> DEFINE o == ModRegRm(reg, LowIdx(n))
  <1>1. o.mod = 3 /\ o.rm = LowIdx(n)
    BY DEF ModRegRm
  <1> HIDE DEF o
  <1>2. DecodedRm(p, o) =
          Register(o.rm + 8 * Bit(p, "b") + (IF p.kind = "evex" THEN 16 * Bit(p, "x") ELSE 0))
    BY <1>1 DEF DecodedRm
  <1>3. o.rm + 8 * Bit(p, "b") + (IF p.kind = "evex" THEN 16 * Bit(p, "x") ELSE 0) = n
    BY <1>1, LowAndHigh
  <1>4. DecodedRm(p, o) = Register(n)
    BY Zenon, <1>2, <1>3
  <1>. QED BY <1>4 DEF o

(* ModRM.mod for a displacement, and the bytes that it says follow. *)
ModFor(offset) == IF offset = 0 THEN 0 ELSE IF offset \in -128 .. 127 THEN 1 ELSE 2
SizeFor(mod) == CASE mod = 0 -> 0 [] mod = 1 -> 1 [] OTHER -> 4

AddrIs(o, base, offset, unit) ==
    /\ o.mod = ModFor(offset) /\ o.rm = base
    /\ o.sib = (IF base = 4 THEN [present |-> TRUE, index |-> 4, base |-> base] ELSE NoSib)
    /\ o.disp[1] = SizeFor(o.mod)
    /\ o.disp[2] * (IF SizeFor(o.mod) = 1 THEN unit ELSE 1) = offset

LEMMA AddrFields ==
  ASSUME NEW n \in 0 .. 15, NEW offset \in Int, NEW k \in Int, NEW p, NEW reg \in Int,
         OffsetFits(offset, k, p), LowIdx(n) # 5
  PROVE  AddrIs(Addr(reg, Memory(n, offset), Unit(p)), LowIdx(n), offset, Unit(p))
  <1> DEFINE o == Addr(reg, Memory(n, offset), Unit(p))
             short == offset \in -128 .. 127
             size == SizeFor(ModFor(offset))
             disp == IF k = 0 THEN <<0, 0>> ELSE Displacement(k)
  <1>1. Quotient(offset, Unit(p)) = k
    <2>1. CASE p.kind = "evex"
      BY <2>1 DEF Quotient, Unit, OffsetFits
    <2>2. CASE p.kind # "evex"
      BY <2>2 DEF Quotient, Unit, OffsetFits
    <2>. QED BY <2>1, <2>2
  <1>2. k = 0 <=> offset = 0
    BY DEF OffsetFits, Unit
  <1>3. /\ o.mod = ModFor(offset) /\ o.rm = LowIdx(n)
        /\ o.sib = (IF LowIdx(n) = 4
                    THEN [present |-> TRUE, index |-> 4, base |-> LowIdx(n)] ELSE NoSib)
        /\ o.disp = disp
    BY <1>1, LowAndHigh DEF Addr, Memory, RBP, RSP, FitsByte, ModFor
  <1>4. k * Unit(p) = offset
    BY DEF OffsetFits, Unit
  <1>5. \/ size = 0 /\ offset = 0 /\ disp = <<0, 0>>
        \/ size = 1 /\ disp = <<1, k>>
        \/ size = 4 /\ disp = <<4, k>> /\ k = offset
    <2>1. CASE offset = 0
      BY <1>2, <2>1 DEF SizeFor, ModFor
    <2>2. CASE offset # 0 /\ short
      <3>1. k \in -128 .. 127 /\ ((k + 128) % 256) - 128 = k
        BY <2>2 DEF OffsetFits, Unit
      <3>. QED BY <1>2, <2>2, <3>1 DEF Displacement, FitsByte, SizeFor, ModFor
    <2>3. CASE offset # 0 /\ ~ short
      <3>1. p.kind # "evex" /\ k = offset
        BY <2>3 DEF OffsetFits, Unit
      <3>. QED BY <1>2, <2>3, <3>1 DEF Displacement, FitsByte, SizeFor, ModFor
    <2>. QED BY <2>1, <2>2, <2>3
  <1> HIDE DEF o, size, disp
  <1>6. disp[1] = size /\ disp[2] * (IF size = 1 THEN Unit(p) ELSE 1) = offset
    <2>1. CASE size = 0 /\ offset = 0 /\ disp = <<0, 0>>
      BY <2>1
    <2>2. CASE size = 1 /\ disp = <<1, k>>
      <3>1. disp[1] = 1 /\ disp[2] = k
        BY <2>2
      <3>. QED BY Zenon, <1>4, <2>2, <3>1
    <2>3. CASE size = 4 /\ disp = <<4, k>> /\ k = offset
      BY <2>3
    <2>. QED BY Zenon, <1>5, <2>1, <2>2, <2>3
  <1>7. size = SizeFor(o.mod)
    BY Zenon, <1>3 DEF size
  <1>. QED BY Zenon, <1>3, <1>6, <1>7 DEF AddrIs, o

LEMMA MemoryDecoded ==
  ASSUME NEW n \in 0 .. 15, NEW offset \in Int, NEW k \in Int, NEW p, NEW reg \in Int,
         OffsetFits(offset, k, p), LowIdx(n) # 5, Bit(p, "b") = IsHigh(n),
         LowIdx(n) = 4 => Bit(p, "x") = 0
  PROVE  DecodedRm(p, Addr(reg, Memory(n, offset), Unit(p))) = Memory(n, offset)
  <1> DEFINE o == Addr(reg, Memory(n, offset), Unit(p))   base == LowIdx(n)
  <1>1. base \in 0 .. 7 /\ base + 8 * IsHigh(n) = n
    BY LowAndHigh
  <1> DEFINE size == SizeFor(o.mod)   index == o.sib.index + 8 * Bit(p, "x")
  <1>2. AddrIs(o, base, offset, Unit(p))
    BY Zenon, AddrFields
  <1> HIDE DEF o, base
  <1>4. /\ o.mod = ModFor(offset) /\ o.rm = base
        /\ o.sib = (IF base = 4 THEN [present |-> TRUE, index |-> 4, base |-> base] ELSE NoSib)
    BY Zenon, <1>2 DEF AddrIs
  <1>5. o.disp[1] = size /\ o.disp[2] * (IF size = 1 THEN Unit(p) ELSE 1) = offset
    BY Zenon, <1>2 DEF AddrIs
  <1>6. o.sib.present = (base = 4) /\ (base = 4 => o.sib.index = 4)
    <2>1. CASE base = 4
      <3>1. o.sib = [present |-> TRUE, index |-> 4, base |-> base]
        BY <1>4, <2>1
      <3>2. o.sib.index = 4 /\ o.sib.present = TRUE
        BY <3>1
      <3>. QED BY Zenon, <2>1, <3>2
    <2>2. CASE base # 4
      <3>1. o.sib = NoSib
        BY <1>4, <2>2
      <3>2. o.sib.present = FALSE
        BY <3>1 DEF NoSib
      <3>. QED BY Zenon, <2>2, <3>2
    <2>. QED BY <2>1, <2>2
  <1>7. ~ o.sib.present \/ index = 4
    <2>1. CASE base = 4
      <3>1. Bit(p, "x") = 0
        BY <2>1 DEF base
      <3>. QED BY <1>6, <2>1, <3>1
    <2>2. CASE base # 4
      BY Zenon, <1>6, <2>2
    <2>. QED BY <2>1, <2>2
  <1>8. (IF o.rm = 4 THEN o.sib.base ELSE o.rm) + 8 * Bit(p, "b") = n
    BY <1>1, <1>4
  <1>9. (o.disp[1] = size /\ (o.rm = 4) = o.sib.present /\ ~ (o.mod = 0 /\ o.rm = 5)) = TRUE
    BY <1>4, <1>5, <1>6 DEF base
  <1>10. o.mod # 3 /\ size = (CASE o.mod = 0 -> 0 [] o.mod = 1 -> 1 [] OTHER -> 4)
    BY <1>4 DEF SizeFor, ModFor
  <1> HIDE DEF size
  <1>11. DecodedRm(p, o) =
           [memory |-> o.disp[1] = size /\ (o.rm = 4) = o.sib.present /\ ~ (o.mod = 0 /\ o.rm = 5),
            base |-> (IF o.rm = 4 THEN o.sib.base ELSE o.rm) + 8 * Bit(p, "b"),
            index |-> IF ~ o.sib.present \/ index = 4 THEN -1 ELSE index,
            offset |-> o.disp[2] * (IF size = 1 THEN Unit(p) ELSE 1)]
    BY <1>10 DEF DecodedRm, Unit
  <1>12. DecodedRm(p, o) = Memory(n, offset)
    BY Zenon, <1>5, <1>7, <1>8, <1>9, <1>11 DEF Memory
  <1>. QED BY <1>12 DEF o

DecodesTo(form, p, reg, rm, q) ==
    Decoded(form, [prefix |-> p, operand |-> Operand(reg, rm, Unit(p))]) = q

(* The instruction is read as it was asked for if its prefix fits. *)
LEMMA FittingPrefix ==
  ASSUME NEW form, NEW map, NEW reg \in 0 .. 15, NEW vvvv, NEW n \in 0 .. 15, NEW rm, NEW k \in Int,
         NEW p,
         OperandFits(rm, n, k, p), PrefixFits(Request(form, map, reg, vvvv, rm), p)
  PROVE  DecodesTo(form, p, reg, rm, Request(form, map, reg, vvvv, rm))
  <1> DEFINE q == Request(form, map, reg, vvvv, rm)   o == Operand(reg, rm, Unit(p))
  <1>1. q.form = form /\ q.map = map /\ q.reg = reg /\ q.vvvv = vvvv /\ q.rm = rm
    BY DEF Request
  <1>2. rm.base = n
    BY DEF Register, Memory, OperandFits
  <1> HIDE DEF q, o
  <1>3. /\ p.map = map /\ 15 - p.v = vvvv
        /\ IF form \in RegUnused THEN reg < 8 ELSE Bit(p, "r") = IsHigh(reg)
        /\ Bit(p, "b") = IsHigh(n)
        /\ Bit(p, "x") = 0 \/ (p.kind # "evex" /\ (rm.memory => LowIdx(n) # 4))
    BY Zenon, <1>1, <1>2 DEF PrefixFits, q
  <1>4. o.reg = LowIdx(reg) /\ DecodedRm(p, o) = rm
    <2>1. CASE rm = Register(n)
      <3>1. rm.memory = FALSE /\ rm.base = n
        BY <2>1 DEF Register
      <3>2. o = ModRegRm(LowIdx(reg), LowIdx(n))
        BY Zenon, <3>1 DEF o, Operand
      <3>3. o.reg = LowIdx(reg)
        BY <3>2 DEF ModRegRm
      <3>4. Bit(p, "x") = 0 \/ p.kind # "evex"
        BY <1>3
      <3>5. DecodedRm(p, o) = Register(n)
        BY Zenon, <1>3, <3>2, <3>4, RegisterDecoded
      <3>. QED BY Zenon, <2>1, <3>3, <3>5
    <2>2. CASE rm # Register(n)
      <3>1. PICK offset \in Int :
              rm = Memory(n, offset) /\ OffsetFits(offset, k, p) /\ LowIdx(n) # 5
        BY Zenon, <2>2 DEF OperandFits
      <3>4. rm.memory = TRUE
        BY <3>1 DEF Memory
      <3>5. o = Addr(reg, Memory(n, offset), Unit(p))
        BY Zenon, <3>1, <3>4 DEF o, Operand
      <3>6. o.reg = LowIdx(reg)
        BY <3>5 DEF Addr, LowIdx
      <3>7. LowIdx(n) = 4 => Bit(p, "x") = 0
        BY Zenon, <1>3, <3>4
      <3>8. reg \in Int
        OBVIOUS
      <3>9. DecodedRm(p, Addr(reg, Memory(n, offset), Unit(p))) = Memory(n, offset)
        BY Zenon, <1>3, <3>1, <3>7, <3>8, MemoryDecoded
      <3>. QED BY Zenon, <3>1, <3>5, <3>6, <3>9
    <2>. QED BY Zenon, <2>1, <2>2
  <1> DEFINE e == [prefix |-> p, operand |-> o]
  <1>5. e.prefix = p /\ e.operand = o
    OBVIOUS
  <1> HIDE DEF e
  <1>6. o.reg + (IF form \in RegUnused THEN 0 ELSE 8 * Bit(p, "r")) = reg
    BY <1>3, <1>4, LowAndHigh
  <1>7. Decoded(form, e) = Request(form, p.map,
          o.reg + (IF form \in RegUnused THEN 0 ELSE 8 * Bit(p, "r")), 15 - p.v, DecodedRm(p, o))
    BY Zenon, <1>5 DEF Decoded, RegUnused
  <1>8. Decoded(form, e) = Request(form, map, reg, vvvv, rm)
    BY Zenon, <1>3, <1>4, <1>6, <1>7
  <1>. QED BY Zenon, <1>8 DEF e, o, DecodesTo

(* The fields of each prefix as the processor reads them. *)
Fields(p, kind, map, r, x, b, v) ==
    /\ p.kind = kind /\ p.map = map /\ p.v = v
    /\ Bit(p, "r") = r /\ Bit(p, "x") = x /\ Bit(p, "b") = b

LEMMA PrefixFields ==
  ASSUME NEW map, NEW r, NEW x, NEW b, NEW src
  PROVE  /\ Fields(Vex2(r, src), "vex", "0F", 1 - r, 0, 0, 15 - src)
         /\ Fields(Vex3(map, r, b, src), "vex", map, 1 - r, 1, 1 - b, 15 - src)
         /\ Fields(Evex(map, r, b, src), "evex", map, 1 - r, 0, 1 - b, 15 - src)
         /\ Fields(Rex(map, r, x, b), "rex", map, r, x, b, 15)
  BY DEF Fields, Vex2, Vex3, Evex, Rex, Bit

(* The prefix of a request whose operand in ModRM.rm has the base n and k   *)
(* units of displacement.                                                  *)
PrefixIsRight(q, n, k) ==
    /\ q.rm = Register(n) \/ Unit(Prefix(q)) = IF q.form = "evex" THEN 32 ELSE 1
    /\ OperandFits(q.rm, n, k, Prefix(q)) /\ PrefixFits(q, Prefix(q))

(* The processor finds the operands of the request. *)
Readable(q) == Decoded(q.form, Encode(q)) = q

LEMMA FittingIsReadable ==
  ASSUME NEW form, NEW map, NEW reg \in 0 .. 15, NEW vvvv, NEW n \in 0 .. 15, NEW rm, NEW k \in Int,
         PrefixIsRight(Request(form, map, reg, vvvv, rm), n, k)
  PROVE  Readable(Request(form, map, reg, vvvv, rm))
  <1> DEFINE q == Request(form, map, reg, vvvv, rm)   p == Prefix(q)
  <1>1. q.form = form /\ q.map = map /\ q.reg = reg /\ q.vvvv = vvvv /\ q.rm = rm
    BY DEF Request
  <1> HIDE DEF q, p
  <1>2. /\ rm = Register(n) \/ Unit(p) = IF form = "evex" THEN 32 ELSE 1
        /\ OperandFits(rm, n, k, p) /\ PrefixFits(q, p)
    BY Zenon, <1>1 DEF PrefixIsRight, q, p
  <1>3. Decoded(form, [prefix |-> p, operand |-> Operand(reg, rm, Unit(p))]) = q
    <2>1. PrefixFits(Request(form, map, reg, vvvv, rm), p) /\ OperandFits(rm, n, k, p)
      BY Zenon, <1>2 DEF q
    <2>2. DecodesTo(form, p, reg, rm, Request(form, map, reg, vvvv, rm))
      BY Zenon, <2>1, FittingPrefix
    <2>. QED BY Zenon, <2>2 DEF q, DecodesTo
  <1>4. Operand(reg, rm, Unit(p)) = Operand(reg, rm, IF form = "evex" THEN 32 ELSE 1)
    <2>1. CASE rm = Register(n)
      <3>1. rm.memory = FALSE
        BY <2>1 DEF Register
      <3>. QED BY Zenon, <3>1 DEF Operand
    <2>2. CASE rm # Register(n)
      BY Zenon, <1>2, <2>2
    <2>. QED BY Zenon, <2>1, <2>2
  <1>5. Encode(q) = [prefix |-> p, operand |-> Operand(reg, rm, Unit(p))]
    BY Zenon, <1>1, <1>4 DEF Encode, p
  <1>6. Readable(q)
    BY Zenon, <1>1, <1>3, <1>5 DEF Readable
  <1>. QED BY Zenon, <1>6 DEF q

LEMMA RegisterReadable ==
  ASSUME NEW q, NEW p, NEW form, NEW map, NEW reg \in 0 .. 15, NEW vvvv, NEW n \in 0 .. 15,
         q = Request(form, map, reg, vvvv, Register(n)), p = Prefix(q), PrefixFits(q, p)
  PROVE  Readable(q)
  <1>1. q.rm = Register(n) /\ 0 \in Int
    BY DEF Request
  <1>2. PrefixIsRight(q, n, 0)
    BY Zenon, <1>1 DEF PrefixIsRight, OperandFits
  <1>3. PrefixIsRight(Request(form, map, reg, vvvv, Register(n)), n, 0)
    BY Zenon, <1>2
  <1>4. Readable(Request(form, map, reg, vvvv, Register(n)))
    BY <1>1, <1>3, FittingIsReadable
  <1>. QED BY Zenon, <1>4

LEMMA MemoryReadable ==
  ASSUME NEW q, NEW p, NEW form, NEW map, NEW reg \in 0 .. 15, NEW vvvv, NEW n \in 0 .. 15,
         NEW offset \in Int, NEW k \in Int,
         q = Request(form, map, reg, vvvv, Memory(n, offset)), p = Prefix(q), PrefixFits(q, p),
         Unit(p) = IF form = "evex" THEN 32 ELSE 1, OffsetFits(offset, k, p), LowIdx(n) # 5
  PROVE  Readable(q)
  <1>1. q.rm = Memory(n, offset) /\ q.form = form
    BY DEF Request
  <1>2. OperandFits(q.rm, n, k, p)
    BY Zenon, <1>1 DEF OperandFits
  <1>3. PrefixIsRight(q, n, k)
    BY Zenon, <1>1, <1>2 DEF PrefixIsRight
  <1>4. PrefixIsRight(Request(form, map, reg, vvvv, Memory(n, offset)), n, k)
    BY Zenon, <1>3
  <1>5. Readable(Request(form, map, reg, vvvv, Memory(n, offset)))
    BY <1>4, FittingIsReadable
  <1>. QED BY Zenon, <1>5

(* Each way to make a prefix, for the requests it is used for. *)
Asked(q) == q.reg \in 0 .. 15 /\ q.vvvv \in 0 .. 15 /\ q.rm.base \in 0 .. 15

LEMMA TwoBytePrefixFits ==
  ASSUME NEW q, Asked(q), q.map = "0F", IsLow(q.rm.base) = 1, q.form \notin RegUnused
  PROVE  LET p == Vex2(IsLow(q.reg), q.vvvv) IN PrefixFits(q, p) /\ p.kind = "vex"
  <1>1. PICK p : p = Vex2(IsLow(q.reg), q.vvvv)
    OBVIOUS
  <1>2. Fields(p, "vex", "0F", 1 - IsLow(q.reg), 0, 0, 15 - q.vvvv)
    BY Zenon, <1>1, PrefixFields
  <1>3. PrefixFits(q, p) /\ p.kind = "vex"
    BY <1>2 DEF Asked, Fields, PrefixFits, IsHigh
  <1>. QED BY Zenon, <1>1, <1>3

LEMMA ThreeBytePrefixFits ==
  ASSUME NEW q, Asked(q), q.form \notin RegUnused, q.rm.memory => LowIdx(q.rm.base) # 4
  PROVE  PrefixFits(q, LongVex(q)) /\ LongVex(q).kind = "vex"
  <1>1. PICK p : p = LongVex(q)
    OBVIOUS
  <1>2. Fields(p, "vex", q.map, 1 - IsLow(q.reg), 1, 1 - IsLow(q.rm.base), 15 - q.vvvv)
    BY Zenon, <1>1, PrefixFields DEF LongVex
  <1>3. PrefixFits(q, p) /\ p.kind = "vex"
    BY <1>2 DEF Asked, Fields, PrefixFits, IsHigh
  <1>. QED BY Zenon, <1>1, <1>3

LEMMA ThreeRegisterVexFits ==
  ASSUME NEW q, Asked(q), q.form = "vex_rrr", ~ q.rm.memory
  PROVE  PrefixFits(q, Prefix(q))
  <1>1. Prefix(q) = ThreeRegisterVex(q) /\ q.form \notin RegUnused
    BY DEF Prefix, RegUnused
  <1>2. CASE ShortThree(q)
    <2>1. q.map = "0F" /\ IsLow(q.rm.base) = 1 /\ IsLow(q.reg) = 1
      BY Zenon, <1>2 DEF ShortThree
    <2>2. ThreeRegisterVex(q) = Vex2(IsLow(q.reg), q.vvvv)
      BY Zenon, <1>2, <2>1 DEF ThreeRegisterVex
    <2>. QED BY Zenon, <1>1, <2>1, <2>2, TwoBytePrefixFits
  <1>3. CASE ~ ShortThree(q)
    BY Zenon, <1>1, <1>3, ThreeBytePrefixFits DEF ThreeRegisterVex
  <1>. QED BY <1>2, <1>3

LEMMA LongVexFits ==
  ASSUME NEW q, Asked(q), q.form \in {"vex_rrri", "vex_long"}, ~ q.rm.memory
  PROVE  PrefixFits(q, Prefix(q))
  <1>1. Prefix(q) = LongVex(q) /\ q.form \notin RegUnused
    BY DEF Prefix, RegUnused
  <1>. QED BY Zenon, <1>1, ThreeBytePrefixFits

(* Where there is no register, vvvv is 0. *)
LEMMA MemoryVexFits ==
  ASSUME NEW q, Asked(q),
         q.form = "vex_rrm" \/ (q.form \in {"vex_rr", "vex_rm"} /\ q.vvvv = 0),
         q.rm.memory => q.map = "0F" /\ q.rm.base # 12
  PROVE  PrefixFits(q, Prefix(q)) /\ Prefix(q).kind = "vex"
  <1>1. /\ Prefix(q) = IF Short(q) THEN Vex2(IsLow(q.reg), q.vvvv) ELSE LongVex(q)
        /\ q.form \notin RegUnused
    BY DEF Prefix, MemoryVex, TwoOperandVex, RegUnused
  <1>2. CASE Short(q)
    BY Zenon, <1>1, <1>2, TwoBytePrefixFits DEF Short
  <1>3. CASE ~ Short(q)
    <2>1. q.rm.memory => LowIdx(q.rm.base) # 4
      BY <1>3 DEF Short, IsLow, LowIdx, Asked
    <2>. QED BY Zenon, <1>1, <1>3, <2>1, ThreeBytePrefixFits
  <1>. QED BY <1>2, <1>3

LEMMA ImmediateVexFits ==
  ASSUME NEW q, Asked(q), ~ q.rm.memory,
         \/ q.form = "vex_xri" /\ q.reg < 8
         \/ q.form = "vex_rri" /\ q.vvvv = 0 /\ (q.map = "0F" => q.reg < 8)
  PROVE  PrefixFits(q, Prefix(q))
  <1> DEFINE destination == IF q.form = "vex_xri" THEN q.vvvv ELSE q.reg
  <1>1. Prefix(q) = IF Short(q) THEN Vex2(1, q.vvvv)
                    ELSE Vex3(q.map, IsLow(destination), IsLow(q.rm.base), q.vvvv)
    BY DEF Prefix, ImmediateVex
  <1> HIDE DEF destination
  <1>2. PICK p : p = Prefix(q)
    OBVIOUS
  <1>3. CASE Short(q)
    <2>1. q.map = "0F" /\ IsLow(q.rm.base) = 1
      BY Zenon, <1>3 DEF Short
    <2>2. Fields(p, "vex", "0F", 1 - 1, 0, 0, 15 - q.vvvv)
      BY Zenon, <1>1, <1>2, <1>3, PrefixFields
    <2>3. PrefixFits(q, p)
      BY <2>1, <2>2 DEF Asked, Fields, PrefixFits, IsHigh, IsLow, RegUnused
    <2>. QED BY Zenon, <1>2, <2>3
  <1>4. CASE ~ Short(q)
    <2>1. Fields(p, "vex", q.map, 1 - IsLow(destination), 1, 1 - IsLow(q.rm.base), 15 - q.vvvv)
      BY Zenon, <1>1, <1>2, <1>4, PrefixFields
    <2>2. PrefixFits(q, p)
      BY <2>1 DEF Asked, Fields, PrefixFits, IsHigh, RegUnused, destination
    <2>. QED BY Zenon, <1>2, <2>2
  <1>. QED BY <1>3, <1>4

LEMMA EvexFits ==
  ASSUME NEW q, Asked(q),
         \/ q.form = "evex"
         \/ q.form = "evex_xri" /\ q.reg < 8 /\ q.vvvv = q.rm.base
  PROVE  PrefixFits(q, Prefix(q)) /\ Prefix(q).kind = "evex"
  <1>1. PICK p : p = Prefix(q)
    OBVIOUS
  <1>2. p = Evex(q.map, IF q.form = "evex" THEN IsLow(q.reg) ELSE IsLow(q.vvvv),
                 IsLow(q.rm.base), q.vvvv)
    BY <1>1 DEF Prefix, ThreeOperandEvex, ImmediateEvex
  <1>3. Fields(p, "evex", q.map, 1 - (IF q.form = "evex" THEN IsLow(q.reg) ELSE IsLow(q.vvvv)), 0,
               1 - IsLow(q.rm.base), 15 - q.vvvv)
    BY Zenon, <1>2, PrefixFields
  <1>4. PrefixFits(q, p) /\ p.kind = "evex"
    BY <1>3 DEF Asked, Fields, PrefixFits, IsHigh, RegUnused
  <1>. QED BY Zenon, <1>1, <1>4

LEMMA RexFits ==
  ASSUME NEW q, Asked(q), q.vvvv = 0,
         q.form = "rex" \/ (q.form \in {"rex_xi", "opcode_r"} /\ q.reg < 8)
  PROVE  PrefixFits(q, Prefix(q)) /\ Prefix(q).kind = "rex"
  <1>1. PICK p : p = Prefix(q)
    OBVIOUS
  <1>2. p = Rex(q.map, IF q.form = "rex" THEN IsHigh(q.reg) ELSE 0, 0, IsHigh(q.rm.base))
    BY <1>1 DEF Prefix, OneRegisterRex
  <1>3. Fields(p, "rex", q.map, IF q.form = "rex" THEN IsHigh(q.reg) ELSE 0, 0,
               IsHigh(q.rm.base), 15)
    BY Zenon, <1>2, PrefixFields
  <1>4. PrefixFits(q, p) /\ p.kind = "rex"
    BY <1>3 DEF Asked, Fields, PrefixFits, RegUnused
  <1>. QED BY Zenon, <1>1, <1>4


(* The requests, set by set. *)
AsksFor(q, form, map, reg, vvvv, n, memory) ==
    /\ q.form = form /\ q.map = map /\ q.reg = reg /\ q.vvvv = vvvv
    /\ q.rm.base = n /\ q.rm.memory = memory

LEMMA RegisterAskedFor ==
  ASSUME NEW q, NEW form, NEW map, NEW reg, NEW vvvv, NEW n,
         q = Request(form, map, reg, vvvv, Register(n))
  PROVE  AsksFor(q, form, map, reg, vvvv, n, FALSE)
  BY DEF Request, Register, AsksFor

LEMMA MemoryAskedFor ==
  ASSUME NEW q, NEW form, NEW map, NEW reg, NEW vvvv, NEW n, NEW offset,
         q = Request(form, map, reg, vvvv, Memory(n, offset))
  PROVE  AsksFor(q, form, map, reg, vvvv, n, TRUE)
  BY DEF Request, Memory, AsksFor

LEMMA OperandsAskedFor == Vectors \subseteq 0 .. 15 /\ Offsets \subseteq Int
  <1>1. Int32 \subseteq Int
    BY DEF Int32
  <1>. QED BY <1>1, EncodingAssumption

LEMMA ThreeVectorsReadable == ASSUME NEW q \in ThreeVectors PROVE Readable(q)
  <1>1. PICK map \in {"0F", "0F38"}, d \in Vectors, s \in Vectors, t \in Vectors :
       q = Request("vex_rrr", map, d, s, Register(t))
    BY DEF ThreeVectors
  <1>2. d \in 0 .. 15 /\ s \in 0 .. 15 /\ t \in 0 .. 15
    BY OperandsAskedFor
  <1>3. AsksFor(q, "vex_rrr", map, d, s, t, FALSE)
    BY Zenon, <1>1, RegisterAskedFor
  <1>4. PrefixFits(q, Prefix(q))
    BY <1>1, <1>2, <1>3, ThreeRegisterVexFits DEF AsksFor, Asked
  <1>. QED BY Zenon, <1>1, <1>2, <1>4, RegisterReadable

LEMMA TwoVectorsAndMemoryReadable == ASSUME NEW q \in TwoVectorsAndMemory PROVE Readable(q)
  <1>1. PICK d \in Vectors, s \in Vectors, b \in {RSP, RBX, RSI, RDI, R14, R15}, o \in Offsets :
       q = Request("vex_rrm", "0F", d, s, Memory(b, o))
    BY DEF TwoVectorsAndMemory
  <1>2. d \in 0 .. 15 /\ s \in 0 .. 15 /\ b \in {3, 4, 6, 7, 14, 15} /\ o \in Int
    BY OperandsAskedFor DEF RSP, RBX, RSI, RDI, R14, R15
  <1>3. AsksFor(q, "vex_rrm", "0F", d, s, b, TRUE)
    BY Zenon, <1>1, MemoryAskedFor
  <1>4. PrefixFits(q, Prefix(q)) /\ Unit(Prefix(q)) = 1
    BY <1>1, <1>2, <1>3, MemoryVexFits DEF AsksFor, Asked, Unit
  <1>5. /\ LowIdx(b) # 5 /\ b \in 0 .. 15 /\ o \in Int
    BY <1>2 DEF LowIdx, RSP, RBX, RSI, RDI, R14, R15
  <1>6. /\ OffsetFits(o, o, Prefix(q))
       /\ Unit(Prefix(q)) = IF "vex_rrm" = "evex" THEN 32 ELSE 1
    BY <1>4, <1>5 DEF OffsetFits, Unit
  <1>. QED BY ZenonT(60), <1>1, <1>2, <1>4, <1>5, <1>6, MemoryReadable

LEMMA MovesReadable == ASSUME NEW q \in Moves PROVE Readable(q)
  <1>1. CASE q \in {Request("vex_rm", "0F", d, 0, Memory(b, o)) :
              d \in Vectors, b \in {RSP, R10}, o \in Offsets}
    <2>1. PICK d \in Vectors, b \in {RSP, R10}, o \in Offsets :
         q = Request("vex_rm", "0F", d, 0, Memory(b, o))
      BY <1>1 
    <2>2. d \in 0 .. 15 /\ 0 \in 0 .. 15 /\ b \in {4, 10} /\ o \in Int
      BY OperandsAskedFor DEF RSP, R10
    <2>3. AsksFor(q, "vex_rm", "0F", d, 0, b, TRUE)
      BY Zenon, <2>1, MemoryAskedFor
    <2>4. PrefixFits(q, Prefix(q)) /\ Unit(Prefix(q)) = 1
      BY <2>1, <2>2, <2>3, MemoryVexFits DEF AsksFor, Asked, Unit
    <2>5. /\ LowIdx(b) # 5 /\ b \in 0 .. 15 /\ o \in Int
      BY <2>2 DEF LowIdx, RSP, R10
    <2>6. /\ OffsetFits(o, o, Prefix(q))
         /\ Unit(Prefix(q)) = IF "vex_rm" = "evex" THEN 32 ELSE 1
      BY <2>4, <2>5 DEF OffsetFits, Unit
    <2>. QED BY ZenonT(60), <2>1, <2>2, <2>4, <2>5, <2>6, MemoryReadable
  <1>2. CASE q \in {Request("vex_rr", m, d, 0, Register(s)) :
              m \in {"0F", "0F38"}, d \in Vectors, s \in Vectors}
    <2>1. PICK map \in {"0F", "0F38"}, d \in Vectors, s \in Vectors :
         q = Request("vex_rr", map, d, 0, Register(s))
      BY <1>2 
    <2>2. d \in 0 .. 15 /\ s \in 0 .. 15 /\ 0 \in 0 .. 15
      BY OperandsAskedFor
    <2>3. AsksFor(q, "vex_rr", map, d, 0, s, FALSE)
      BY Zenon, <2>1, RegisterAskedFor
    <2>4. PrefixFits(q, Prefix(q))
      BY <2>1, <2>2, <2>3, MemoryVexFits DEF AsksFor, Asked
    <2>. QED BY Zenon, <2>1, <2>2, <2>4, RegisterReadable
  <1>. QED BY <1>1, <1>2 DEF Moves

LEMMA ShiftsReadable == ASSUME NEW q \in Shifts PROVE Readable(q)
  <1>1. PICK d \in Vectors, s \in Vectors :
       q = Request("vex_xri", "0F", 6, d, Register(s))
    BY DEF Shifts
  <1>2. d \in 0 .. 15 /\ s \in 0 .. 15 /\ 6 \in 0 .. 15
    BY OperandsAskedFor
  <1>3. AsksFor(q, "vex_xri", "0F", 6, d, s, FALSE)
    BY Zenon, <1>1, RegisterAskedFor
  <1>4. PrefixFits(q, Prefix(q))
    BY <1>1, <1>2, <1>3, ImmediateVexFits DEF AsksFor, Asked
  <1>. QED BY Zenon, <1>1, <1>2, <1>4, RegisterReadable

LEMMA ShufflesReadable == ASSUME NEW q \in Shuffles PROVE Readable(q)
  <1>1. CASE q \in {Request("vex_rri", "0F", d, 0, Register(s)) : d \in {1, 2}, s \in Vectors}
    <2>1. PICK d \in {1, 2}, s \in Vectors :
         q = Request("vex_rri", "0F", d, 0, Register(s))
      BY <1>1 
    <2>2. d \in 0 .. 15 /\ s \in 0 .. 15 /\ 0 \in 0 .. 15
      BY OperandsAskedFor
    <2>3. AsksFor(q, "vex_rri", "0F", d, 0, s, FALSE)
      BY Zenon, <2>1, RegisterAskedFor
    <2>4. PrefixFits(q, Prefix(q))
      BY <2>1, <2>2, <2>3, ImmediateVexFits DEF AsksFor, Asked
    <2>. QED BY Zenon, <2>1, <2>2, <2>4, RegisterReadable
  <1>2. CASE q \in {Request("vex_rri", "0F3A", d, 0, Register(s)) : d \in Vectors, s \in Vectors}
    <2>1. PICK d \in Vectors, s \in Vectors :
         q = Request("vex_rri", "0F3A", d, 0, Register(s))
      BY <1>2 
    <2>2. d \in 0 .. 15 /\ s \in 0 .. 15 /\ 0 \in 0 .. 15
      BY OperandsAskedFor
    <2>3. AsksFor(q, "vex_rri", "0F3A", d, 0, s, FALSE)
      BY Zenon, <2>1, RegisterAskedFor
    <2>4. PrefixFits(q, Prefix(q))
      BY <2>1, <2>2, <2>3, ImmediateVexFits DEF AsksFor, Asked
    <2>. QED BY Zenon, <2>1, <2>2, <2>4, RegisterReadable
  <1>. QED BY <1>1, <1>2 DEF Shuffles

LEMMA PermutationsReadable == ASSUME NEW q \in Permutations PROVE Readable(q)
  <1>1. PICK d \in Vectors, s \in Vectors, t \in Vectors :
       q = Request("vex_rrri", "0F3A", d, s, Register(t))
    BY DEF Permutations
  <1>2. d \in 0 .. 15 /\ s \in 0 .. 15 /\ t \in 0 .. 15
    BY OperandsAskedFor
  <1>3. AsksFor(q, "vex_rrri", "0F3A", d, s, t, FALSE)
    BY Zenon, <1>1, RegisterAskedFor
  <1>4. PrefixFits(q, Prefix(q))
    BY <1>1, <1>2, <1>3, LongVexFits DEF AsksFor, Asked
  <1>. QED BY Zenon, <1>1, <1>2, <1>4, RegisterReadable

LEMMA TransfersReadable == ASSUME NEW q \in Transfers PROVE Readable(q)
  <1>1. PICK map \in {"0F", "0F3A"}, d \in Vectors, s \in Vectors :
       q = Request("vex_long", map, d, 0, Register(s))
    BY DEF Transfers
  <1>2. d \in 0 .. 15 /\ s \in 0 .. 15 /\ 0 \in 0 .. 15
    BY OperandsAskedFor
  <1>3. AsksFor(q, "vex_long", map, d, 0, s, FALSE)
    BY Zenon, <1>1, RegisterAskedFor
  <1>4. PrefixFits(q, Prefix(q))
    BY <1>1, <1>2, <1>3, LongVexFits DEF AsksFor, Asked
  <1>. QED BY Zenon, <1>1, <1>2, <1>4, RegisterReadable

LEMMA MultiplicationsReadable == ASSUME NEW q \in Multiplications PROVE Readable(q)
  <1>1. CASE q \in {Request("evex", "0F38", d, s, Register(t)) :
              d \in Vectors, s \in Vectors, t \in Vectors}
    <2>1. PICK d \in Vectors, s \in Vectors, t \in Vectors :
         q = Request("evex", "0F38", d, s, Register(t))
      BY <1>1 
    <2>2. d \in 0 .. 15 /\ s \in 0 .. 15 /\ t \in 0 .. 15
      BY OperandsAskedFor
    <2>3. AsksFor(q, "evex", "0F38", d, s, t, FALSE)
      BY Zenon, <2>1, RegisterAskedFor
    <2>4. PrefixFits(q, Prefix(q))
      BY <2>1, <2>2, <2>3, EvexFits DEF AsksFor, Asked
    <2>. QED BY Zenon, <2>1, <2>2, <2>4, RegisterReadable
  <1>2. CASE q \in {Request("evex", "0F38", d, s, Memory(RBX, 32 * o)) :
              d \in Vectors, s \in Vectors, o \in -4 .. 3}
    <2>1. PICK d \in Vectors, s \in Vectors, o \in -4 .. 3 :
         q = Request("evex", "0F38", d, s, Memory(RBX, 32 * o))
      BY <1>2 
    <2>2. d \in 0 .. 15 /\ s \in 0 .. 15 /\ RBX \in 0 .. 15 /\ o \in -4 .. 3
      BY OperandsAskedFor DEF RBX
    <2>3. AsksFor(q, "evex", "0F38", d, s, RBX, TRUE)
      BY Zenon, <2>1, MemoryAskedFor
    <2>4. PrefixFits(q, Prefix(q)) /\ Unit(Prefix(q)) = 32
      BY <2>1, <2>2, <2>3, EvexFits DEF AsksFor, Asked, Unit
    <2>5. /\ LowIdx(RBX) # 5 /\ RBX \in 0 .. 15 /\ 32 * o \in Int
      BY <2>2 DEF LowIdx, RBX
    <2>6. Unit(Prefix(q)) = IF "evex" = "evex" THEN 32 ELSE 1
      BY <2>4
    <2>7. 32 * o \in -128 .. 127 /\ 32 * o = Unit(Prefix(q)) * o /\ o \in Int
      BY <2>2, <2>4
    <2>8. OffsetFits(32 * o, o, Prefix(q))
      BY Zenon, <2>7 DEF OffsetFits
    <2>. QED BY ZenonT(60), <2>1, <2>2, <2>4, <2>5, <2>6, <2>7, <2>8, MemoryReadable
  <1>3. CASE q \in {Request("evex_xri", "0F", 0, d, Register(d)) : d \in Vectors}
    <2>1. PICK d \in Vectors :
         q = Request("evex_xri", "0F", 0, d, Register(d))
      BY <1>3 
    <2>2. d \in 0 .. 15 /\ 0 \in 0 .. 15
      BY OperandsAskedFor
    <2>3. AsksFor(q, "evex_xri", "0F", 0, d, d, FALSE)
      BY Zenon, <2>1, RegisterAskedFor
    <2>4. PrefixFits(q, Prefix(q))
      BY <2>1, <2>2, <2>3, EvexFits DEF AsksFor, Asked
    <2>. QED BY Zenon, <2>1, <2>2, <2>4, RegisterReadable
  <1>. QED BY <1>1, <1>2, <1>3 DEF Multiplications

LEMMA GeneralPurposeReadable == ASSUME NEW q \in GeneralPurpose PROVE Readable(q)
  <1>1. CASE q \in {Request("rex", "none", d, 0, Register(s)) : d \in Vectors, s \in Vectors}
    <2>1. PICK d \in Vectors, s \in Vectors :
         q = Request("rex", "none", d, 0, Register(s))
      BY <1>1 
    <2>2. d \in 0 .. 15 /\ s \in 0 .. 15 /\ 0 \in 0 .. 15
      BY OperandsAskedFor
    <2>3. AsksFor(q, "rex", "none", d, 0, s, FALSE)
      BY Zenon, <2>1, RegisterAskedFor
    <2>4. PrefixFits(q, Prefix(q))
      BY <2>1, <2>2, <2>3, RexFits DEF AsksFor, Asked
    <2>. QED BY Zenon, <2>1, <2>2, <2>4, RegisterReadable
  <1>2. CASE q \in {Request("rex_xi", "none", e, 0, Register(d)) : e \in {0, 4, 5}, d \in Vectors}
    <2>1. PICK e \in {0, 4, 5}, d \in Vectors :
         q = Request("rex_xi", "none", e, 0, Register(d))
      BY <1>2 
    <2>2. d \in 0 .. 15 /\ e \in 0 .. 15 /\ 0 \in 0 .. 15 /\ e < 8
      BY OperandsAskedFor
    <2>3. AsksFor(q, "rex_xi", "none", e, 0, d, FALSE)
      BY Zenon, <2>1, RegisterAskedFor
    <2>4. PrefixFits(q, Prefix(q))
      BY <2>1, <2>2, <2>3, RexFits DEF AsksFor, Asked
    <2>. QED BY Zenon, <2>1, <2>2, <2>4, RegisterReadable
  <1>3. CASE q \in {Request("rex", "none", d, 0, Memory(RCX, o)) : d \in Vectors, o \in {0, 8}}
    <2>1. PICK d \in Vectors, o \in {0, 8} :
         q = Request("rex", "none", d, 0, Memory(RCX, o))
      BY <1>3 
    <2>2. d \in 0 .. 15 /\ RCX \in 0 .. 15 /\ 0 \in 0 .. 15 /\ o \in {0, 8}
      BY OperandsAskedFor DEF RCX
    <2>3. AsksFor(q, "rex", "none", d, 0, RCX, TRUE)
      BY Zenon, <2>1, MemoryAskedFor
    <2>4. PrefixFits(q, Prefix(q)) /\ Unit(Prefix(q)) = 1
      BY <2>1, <2>2, <2>3, RexFits DEF AsksFor, Asked, Unit
    <2>5. /\ LowIdx(RCX) # 5 /\ RCX \in 0 .. 15 /\ o \in Int
      BY <2>2 DEF LowIdx, RCX
    <2>6. /\ OffsetFits(o, o, Prefix(q))
         /\ Unit(Prefix(q)) = IF "rex" = "evex" THEN 32 ELSE 1
      BY <2>4, <2>5 DEF OffsetFits, Unit
    <2>. QED BY ZenonT(60), <2>1, <2>2, <2>4, <2>5, <2>6, MemoryReadable
  <1>. QED BY <1>1, <1>2, <1>3 DEF GeneralPurpose

LEMMA PrefetchesReadable == ASSUME NEW q \in Prefetches PROVE Readable(q)
  <1>1. PICK b \in {RSI, RDI, R14, R15} :
       q = Request("rex", "0F", 0, 0, Memory(b, 0))
    BY DEF Prefetches
  <1>2. 0 \in 0 .. 15 /\ b \in {6, 7, 14, 15}
    BY OperandsAskedFor DEF RSI, RDI, R14, R15
  <1>3. AsksFor(q, "rex", "0F", 0, 0, b, TRUE)
    BY Zenon, <1>1, MemoryAskedFor
  <1>4. PrefixFits(q, Prefix(q)) /\ Unit(Prefix(q)) = 1
    BY <1>1, <1>2, <1>3, RexFits DEF AsksFor, Asked, Unit
  <1>5. /\ LowIdx(b) # 5 /\ b \in 0 .. 15 /\ 0 \in Int
    BY <1>2 DEF LowIdx, RSI, RDI, R14, R15
  <1>6. /\ OffsetFits(0, 0, Prefix(q))
       /\ Unit(Prefix(q)) = IF "rex" = "evex" THEN 32 ELSE 1
    BY <1>4, <1>5 DEF OffsetFits, Unit
  <1>. QED BY ZenonT(60), <1>1, <1>2, <1>4, <1>5, <1>6, MemoryReadable

LEMMA RegistersInOpcodeReadable == ASSUME NEW q \in RegistersInOpcode PROVE Readable(q)
  <1>1. PICK n \in Vectors : q = Request("opcode_r", "none", 0, 0, Register(n))
    BY DEF RegistersInOpcode
  <1>2. n \in 0 .. 15 /\ 0 \in 0 .. 15
    BY OperandsAskedFor
  <1>3. AsksFor(q, "opcode_r", "none", 0, 0, n, FALSE)
    BY Zenon, <1>1, RegisterAskedFor
  <1>4. PrefixFits(q, Prefix(q))
    BY <1>1, <1>2, <1>3, RexFits DEF AsksFor, Asked
  <1>. QED BY Zenon, <1>1, <1>2, <1>4, RegisterReadable

(* The one instruction is encoded after its request; the request is kept. *)
EncodingInv == request \in Requests /\ encoded \in {<<>>, <<Encode(request)>>}

LEMMA EncodingStepInv == EncodingInv /\ [EncodingNext]_encodingVars => EncodingInv'
  <1> SUFFICES ASSUME EncodingInv, [EncodingNext]_encodingVars PROVE EncodingInv'
    OBVIOUS
  <1>1. CASE EmitInstruction
    <2>1. request' = request /\ encoded' = <<Encode(request)>>
      BY Zenon, <1>1 DEF EmitInstruction
    <2>. QED BY Zenon, <2>1 DEF EncodingInv
  <1>2. CASE UNCHANGED encodingVars
    <2>1. request' = request /\ encoded' = encoded
      BY Zenon, <1>2 DEF encodingVars
    <2>. QED BY Zenon, <2>1 DEF EncodingInv
  <1>. QED BY Zenon, <1>1, <1>2 DEF EncodingNext

(* Whatever the registers, displacements and opcode maps of a request are, *)
(* the processor decodes the instruction of assembler.hpp to the operands  *)
(* that were asked for: the shortest prefix is only taken where its absent *)
(* bits would be clear, and a displacement of any size is read whole, with *)
(* its sign and in its unit.                                               *)
THEOREM EncodingDecodes == EncodingSpec => []DecodesAsAsked
  <1>1. EncodingInit => EncodingInv
    BY Zenon DEF EncodingInit, EncodingInv
  <1>2. EncodingInv => DecodesAsAsked
    <2> SUFFICES ASSUME EncodingInv, encoded # <<>>
                 PROVE  Decoded(request.form, encoded[1]) = request
      BY DEF DecodesAsAsked
    <2>1. encoded = <<Encode(request)>> /\ request \in Requests
      BY Zenon DEF EncodingInv
    <2>2. encoded[1] = Encode(request)
      BY <2>1
    <2>3. Readable(request)
      BY Zenon, <2>1, ThreeVectorsReadable, TwoVectorsAndMemoryReadable, MovesReadable,
         ShiftsReadable, ShufflesReadable, PermutationsReadable, TransfersReadable,
         MultiplicationsReadable, GeneralPurposeReadable, PrefetchesReadable,
         RegistersInOpcodeReadable DEF Requests
    <2>. QED BY Zenon, <2>2, <2>3 DEF Readable
  <1>. QED BY <1>1, <1>2, EncodingStepInv, PTL DEF EncodingSpec

-----------------------------------------------------------------------------
(* Superscalar: the least of a set of numbers, for the first free cycle.   *)

LEMMA LeastNatural ==
  ASSUME NEW B \in SUBSET Nat, B # {}
  PROVE  \E m \in B : \A k \in B : m <= k
  <1> DEFINE T == {0 .. n : n \in B}
  <1>1. T \subseteq FiniteSubsetsOf(Nat) /\ T # {}
    <2>1. ASSUME NEW n \in B PROVE 0 .. n \in FiniteSubsetsOf(Nat)
      <3>1. 0 .. n \in SUBSET Nat /\ n \in Int /\ 0 \in Int
        OBVIOUS
      <3>2. IsFiniteSet(0 .. n)
        BY <3>1, FS_Interval
      <3>. QED BY <3>1, <3>2 DEF FiniteSubsetsOf
    <2>. QED BY <2>1
  <1>2. IsWellFoundedOn(StrictSubsetOrdering(Nat), FiniteSubsetsOf(Nat))
    BY FS_StrictSubsetOrderingWellFounded
  <1> HIDE DEF T
  <1>3. PICK x \in T : \A y \in T : ~ (<<y, x>> \in StrictSubsetOrdering(Nat))
    BY <1>1, <1>2, WFMin
  <1> USE DEF T
  <1>4. PICK m \in B : x = 0 .. m
    BY <1>3
  <1>5. ASSUME NEW k \in B, k < m PROVE FALSE
    <2>1. 0 .. k \in T /\ 0 .. k \subseteq 0 .. m /\ 0 .. k # 0 .. m
      BY <1>5
    <2>2. <<0 .. k, x>> \in StrictSubsetOrdering(Nat)
      BY <2>1, <1>4 DEF StrictSubsetOrdering
    <2>. QED BY <2>1, <2>2, <1>3
  <1>. QED BY <1>5


(* The smallest of a set of numbers is in it. *)
LEMMA MinIsLeast ==
  ASSUME NEW S \in SUBSET Nat, S # {}
  PROVE  Min(S) \in S /\ \A k \in S : Min(S) <= k
  <1>1. PICK m \in S : \A k \in S : m <= k
    BY LeastNatural
  <1>. QED BY <1>1 DEF Min

-----------------------------------------------------------------------------
(* The instruction set: the micro-ops can run on the ports, and the result *)
(* is written by the macro-op that chooses the register, or by that of the *)
(* longest latency after it.                                               *)
FullMultiplications == {"IMULH_R", "ISMULH_R"}

WellFormedOp(o) ==
    /\ o.latency \in 0 .. 4
    /\ o.ports = <<>> \/ (\A j \in DOMAIN o.ports : o.ports[j] \subseteq P015 /\ o.ports # <<>>)

WellFormedInfo(i) ==
    /\ Len(i.ops) \in 0 .. 3
    /\ \A k \in 1 .. Len(i.ops) : WellFormedOp(i.ops[k])

ResultOfDestination(i) ==
    /\ i.ops # <<>> => i.result_op = i.dst_op /\ i.ops[i.result_op + 1].latency >= 1
    /\ \A k \in 1 .. Len(i.ops) : i.ops[k].ports # <<>>

ResultAfterDestination(i) ==
    /\ Len(i.ops) = 3 /\ i.dst_op = 0 /\ i.src_op = 1 /\ i.result_op = 1
    /\ i.ops[1].ports = <<>> /\ i.ops[2].ports # <<>> /\ i.ops[2].latency = 4

WellFormedOne(i) == WellFormedInfo(i) /\ ResultOfDestination(i)

LEMMA OneOpWellFormed ==
  ASSUME NEW group, NEW uop \in SUBSET P015, NEW size, NEW latency \in 1 .. 4, NEW src
  PROVE  LET i == OneOp(group, uop, size, latency, src)
         IN  WellFormedOne(i)
  <1> DEFINE o == Op(<<uop>>, size, latency, FALSE)   i == OneOp(group, uop, size, latency, src)
  <1>1. WellFormedOp(o) /\ o.latency >= 1 /\ o.ports # <<>>
    BY DEF WellFormedOp, Op
  <1> HIDE DEF o
  <1>2. i.ops = <<o>> /\ i.result_op = 0 /\ i.dst_op = 0
    BY DEF OneOp, Info, o
  <1> HIDE DEF i
  <1>3. WellFormedInfo(i) /\ ResultOfDestination(i)
    BY <1>1, <1>2 DEF WellFormedInfo, ResultOfDestination
  <1>. QED BY <1>3 DEF i, WellFormedOne

LEMMA Multiply128WellFormed == WellFormedInfo(Multiply128) /\ ResultAfterDestination(Multiply128)
  <1> DEFINE m == Op(<<>>, 3, 0, FALSE)   o == Op(<<{"P1"}, {"P5"}>>, 3, 4, FALSE)
  <1>1. /\ WellFormedOp(m) /\ WellFormedOp(o) /\ m.ports = <<>> /\ o.ports # <<>>
        /\ o.latency = 4
    BY DEF WellFormedOp, Op, P015
  <1> HIDE DEF m, o
  <1>2. /\ Multiply128.ops = <<m, o, m>> /\ Multiply128.src_op = 1 /\ Multiply128.dst_op = 0
        /\ Multiply128.result_op = 1
    BY DEF Multiply128, Info, m, o
  <1>. QED BY <1>1, <1>2 DEF WellFormedInfo, ResultAfterDestination

LEMMA ReciprocalWellFormed == WellFormedInfo(isa["IMUL_RCP"]) /\ ResultOfDestination(isa["IMUL_RCP"])
  <1> DEFINE m == Op(<<P015>>, 10, 1, FALSE)   o == Op(<<{"P1"}>>, 4, 3, TRUE)
  <1>1. /\ WellFormedOp(m) /\ WellFormedOp(o) /\ m.ports # <<>> /\ o.ports # <<>>
        /\ o.latency = 3
    BY DEF WellFormedOp, Op, P015
  <1> HIDE DEF m, o
  <1>2. isa["IMUL_RCP"].ops = <<m, o>> /\ isa["IMUL_RCP"].dst_op = 1 /\ isa["IMUL_RCP"].result_op = 1
    BY DEF isa, Info, m, o
  <1>. QED BY <1>1, <1>2 DEF WellFormedInfo, ResultOfDestination

LEMMA InvalidWellFormed == WellFormedInfo(isa["INVALID"]) /\ isa["INVALID"].ops = <<>>
  <1>1. isa["INVALID"].ops = <<>>
    BY DEF isa, Info
  <1>. QED BY <1>1 DEF WellFormedInfo

LEMMA InstructionSet ==
  /\ Types = {"ISUB_R", "IXOR_R", "IADD_RS", "IMUL_R", "IROR_C", "IADD_C7", "IXOR_C7", "IADD_C8",
              "IXOR_C8", "IADD_C9", "IXOR_C9", "IMULH_R", "ISMULH_R", "IMUL_RCP", "INVALID"}
  /\ \A t \in Types : WellFormedInfo(isa[t])
  /\ \A t \in Types \ FullMultiplications : ResultOfDestination(isa[t])
  /\ \A t \in FullMultiplications : ResultAfterDestination(isa[t])
  <1>1. Types = {"ISUB_R", "IXOR_R", "IADD_RS", "IMUL_R", "IROR_C", "IADD_C7", "IXOR_C7", "IADD_C8",
                 "IXOR_C8", "IADD_C9", "IXOR_C9", "IMULH_R", "ISMULH_R", "IMUL_RCP", "INVALID"}
    BY DEF Types, isa
  <1>2. P01 \in SUBSET P015 /\ P05 \in SUBSET P015 /\ P015 \in SUBSET P015 /\ {"P1"} \in SUBSET P015
    BY DEF P01, P05, P015
  <1>3. \A group, size, src :
          /\ WellFormedOne(OneOp(group, P015, size, 1, src))
          /\ WellFormedOne(OneOp(group, P01, size, 1, src))
          /\ WellFormedOne(OneOp(group, P05, size, 1, src))
          /\ WellFormedOne(OneOp(group, {"P1"}, size, 3, src))
    <2>1. 1 \in 1 .. 4 /\ 3 \in 1 .. 4
      OBVIOUS
    <2>. QED BY Zenon, <1>2, <2>1, OneOpWellFormed
  <1>4. isa["IMULH_R"] = Multiply128 /\ isa["ISMULH_R"] = Multiply128
    BY DEF isa
  <1>5. /\ WellFormedOne(isa["ISUB_R"])
        /\ WellFormedOne(isa["IXOR_R"])
        /\ WellFormedOne(isa["IADD_RS"])
        /\ WellFormedOne(isa["IMUL_R"])
        /\ WellFormedOne(isa["IROR_C"])
        /\ WellFormedOne(isa["IADD_C7"])
        /\ WellFormedOne(isa["IXOR_C7"])
        /\ WellFormedOne(isa["IADD_C8"])
        /\ WellFormedOne(isa["IXOR_C8"])
        /\ WellFormedOne(isa["IADD_C9"])
        /\ WellFormedOne(isa["IXOR_C9"])
    <2>1. /\ isa["ISUB_R"] = OneOp("IADD_RS", P015, 3, 1, 0)
          /\ isa["IXOR_R"] = OneOp("IXOR_R", P015, 3, 1, 0)
          /\ isa["IADD_RS"] = OneOp("IADD_RS", P01, 4, 1, 0)
          /\ isa["IMUL_R"] = OneOp("IMUL_R", {"P1"}, 4, 3, 0)
          /\ isa["IROR_C"] = OneOp("IROR_C", P05, 4, 1, -1)
          /\ isa["IADD_C7"] = OneOp("IADD_C7", P015, 7, 1, -1)
          /\ isa["IXOR_C7"] = OneOp("IXOR_C7", P015, 7, 1, -1)
          /\ isa["IADD_C8"] = OneOp("IADD_C7", P015, 8, 1, -1)
          /\ isa["IXOR_C8"] = OneOp("IXOR_C7", P015, 8, 1, -1)
          /\ isa["IADD_C9"] = OneOp("IADD_C7", P015, 9, 1, -1)
          /\ isa["IXOR_C9"] = OneOp("IXOR_C7", P015, 9, 1, -1)
      BY DEF isa
    <2>. QED BY Zenon, <1>3, <2>1
  <1>6. ResultOfDestination(isa["INVALID"])
    BY InvalidWellFormed DEF ResultOfDestination
  <1>. QED BY Zenon, <1>1, <1>4, <1>5, <1>6, Multiply128WellFormed, ReciprocalWellFormed,
              InvalidWellFormed DEF FullMultiplications, WellFormedOne

-----------------------------------------------------------------------------
Instructions == [type : Types, op_index : 0 .. 3, src_register : Registers \union {-1},
                 src_value : Nat \union {-1}, dst_register : Registers]
Fits(b) == Len(b) \in 0 .. 4 /\ \A k \in 1 .. Len(b) : b[k] \in {3, 4, 7, 8, 9, 10}
Cycles == 0 .. Rx_Superscalar_Max_Schedule_Cycle - 1

BufferInv == stage \in {"decode", "slot", "done"} /\ Fits(buffer) /\ slot \in 1 .. Len(buffer) + 1
InstructionInv == instruction \in Instructions /\ instruction.op_index <= Len(isa[instruction.type].ops)
ContextInv ==
    /\ DOMAIN ctx = {"throwaway_count", "mul_count", "cycle", "dependency_cycle", "decode_cycle",
                     "program_size", "ports_saturated"}
    /\ ctx.throwaway_count \in 0 .. Max_Throwaway_Count
    /\ ctx.cycle \in Nat /\ ctx.dependency_cycle \in Nat
    /\ ctx.program_size \in 0 .. Rx_Superscalar_Max_Program_Size
RegisterInv ==
    /\ registers = [r \in Registers |-> registers[r]]
    /\ \A r \in Registers : registers[r].availability_cycle \in Nat

(* There is room for the instruction that is being issued. *)
RoomInv == ~ issued => ctx.program_size < Rx_Superscalar_Max_Program_Size

(* Between the macro-op of a full multiplication that chooses the register *)
(* and the one that writes it, the register may not be ready yet, but will *)
(* be before the result.                                                   *)
PendingInv ==
    instruction.type \in FullMultiplications /\ instruction.op_index = 1 =>
        registers[instruction.dst_register].availability_cycle < ctx.cycle + 4

(* How far throwaways move the cycle past the schedule.  After one, a      *)
(* macro-op that needs a port ends the program; so only instructions that  *)
(* begin without one go on, which are never tried in a buffer's first slot.*)
CycleInv ==
    /\ stage = "slot" => Len(buffer) >= 3
    /\ stage = "slot" /\ slot >= 2 /\ (issued \/ op_index = 0) =>
          ctx.cycle <= Rx_Superscalar_Max_Schedule_Cycle + 2 + 4 * ctx.throwaway_count
    /\ stage # "done" /\ ~ issued /\ op_index = 0 =>
          /\ stage = "slot" /\ slot <= Len(buffer)
          /\ slot >= 2 \/ instruction.type \notin FullMultiplications
    /\ stage # "done" /\ ~ issued /\ op_index = 2 =>
          /\ ctx.cycle <= Rx_Superscalar_Max_Schedule_Cycle
          /\ stage = "slot" /\ slot >= 2 => ctx.cycle < Rx_Superscalar_Max_Schedule_Cycle

SuperscalarInv ==
    /\ BufferInv /\ InstructionInv /\ ContextInv /\ RegisterInv /\ RoomInv /\ PendingInv
    /\ CycleInv
    /\ ports \subseteq Cells

LEMMA SuperscalarSizes ==
  /\ Register_Count \in Nat \ {0} /\ Rx_Superscalar_Max_Schedule_Cycle \in Nat \ {0}
  /\ Rx_Superscalar_Latency \in Nat /\ Rx_Superscalar_Max_Program_Size \in Nat \ {0}
  /\ Max_Throwaway_Count \in Nat /\ Rx_Superscalar_Op_Max_Latency = 4
  /\ Registers \subseteq Nat /\ 0 \in Registers /\ Registers # {}
  <1>1. Register_Count \in Nat \ {0} /\ 0 \in Registers /\ Registers \subseteq Nat
    BY SuperscalarAssumption DEF Registers
  <1>2. /\ Rx_Superscalar_Latency \in Nat /\ Rx_Superscalar_Max_Program_Size \in Nat \ {0}
        /\ Max_Throwaway_Count \in Nat
    BY SuperscalarAssumption
  <1>3. Rx_Superscalar_Op_Max_Latency = 4 /\ Rx_Superscalar_Max_Schedule_Cycle \in Nat \ {0}
    BY <1>2 DEF Rx_Superscalar_Max_Schedule_Cycle, Rx_Superscalar_Op_Max_Latency
  <1>. QED BY <1>1, <1>2, <1>3

LEMMA SuperscalarInitInv == SuperscalarInit => SuperscalarInv
  <1> SUFFICES ASSUME SuperscalarInit PROVE SuperscalarInv
    OBVIOUS
  <1>1. BufferInv
    BY DEF SuperscalarInit, BufferInv, Fits
  <1>2. /\ instruction.type = "INVALID" /\ instruction.op_index = 0 /\ "INVALID" \in Types
        /\ instruction \in Instructions
    BY SuperscalarSizes, InstructionSet DEF SuperscalarInit, Invalid, Instructions, NoRegister, Constant
  <1>3. InstructionInv /\ RoomInv /\ PendingInv
    BY <1>2, InvalidWellFormed DEF InstructionInv, RoomInv, PendingInv, issued, FullMultiplications
  <1>6. CycleInv
    BY <1>2, InvalidWellFormed DEF SuperscalarInit, CycleInv, issued
  <1>4. ContextInv
    BY SuperscalarSizes DEF SuperscalarInit, ContextInv
  <1>5. RegisterInv /\ ports \subseteq Cells
    BY DEF SuperscalarInit, RegisterInv
  <1>. QED BY <1>1, <1>3, <1>4, <1>5, <1>6 DEF SuperscalarInv

-----------------------------------------------------------------------------
(* The macro-op that comes next. *)
LEMMA NextOp ==
  ASSUME SuperscalarInv, ~ issued
  PROVE  /\ op_index \in 0 .. 2 /\ op_index < Len(info.ops) /\ Len(info.ops) \in 1 .. 3
         /\ WellFormedOp(op)
         /\ instruction.type \in FullMultiplications => ResultAfterDestination(info)
         /\ instruction.type \notin FullMultiplications => ResultOfDestination(info)
         /\ op.ports = <<>> => instruction.type \in FullMultiplications /\ op_index # 1
  <1>1. instruction.type \in Types /\ op_index \in 0 .. 3 /\ op_index <= Len(info.ops)
    BY DEF SuperscalarInv, InstructionInv, Instructions, op_index, info
  <1>2. WellFormedInfo(info)
    BY <1>1, InstructionSet DEF info
  <1>3. op_index # Len(info.ops)
    BY DEF issued, op_index, info
  <1>4. op_index \in 0 .. 2 /\ op_index < Len(info.ops) /\ Len(info.ops) \in 1 .. 3
    BY <1>1, <1>2, <1>3 DEF WellFormedInfo
  <1>5. WellFormedOp(op)
    <2>1. op_index + 1 \in 1 .. Len(info.ops)
      BY <1>4
    <2>. QED BY <1>2, <2>1 DEF WellFormedInfo, op
  <1>6. /\ instruction.type \in FullMultiplications => ResultAfterDestination(info)
        /\ instruction.type \notin FullMultiplications => ResultOfDestination(info)
    BY Zenon, <1>1, InstructionSet DEF info
  <1>7. op.ports = <<>> => instruction.type \in FullMultiplications /\ op_index # 1
    <2>1. op_index + 1 \in 1 .. Len(info.ops)
      BY <1>4
    <2>. QED BY <1>6, <2>1 DEF ResultOfDestination, ResultAfterDestination, op
  <1>. QED BY <1>4, <1>5, <1>6, <1>7

(* The cycle a macro-op without micro-ops is asked for. *)
LEMMA PortlessOp ==
  ASSUME SuperscalarInv, stage = "slot", slot <= Len(buffer), ~ issued, op.ports = <<>>
  PROVE  /\ op_index \in {0, 2} /\ ResultAfterDestination(info)
         /\ op_index = 0 =>
               /\ slot >= 2
               /\ ctx.cycle <= Rx_Superscalar_Max_Schedule_Cycle + 2 + 4 * ctx.throwaway_count
         /\ op_index = 2 => ctx.cycle <= Rx_Superscalar_Max_Schedule_Cycle
         /\ ctx.cycle + 3 <= Last_Cycle
  <1>1. /\ op_index \in {0, 2} /\ ResultAfterDestination(info)
        /\ instruction.type \in FullMultiplications
    BY NextOp
  <1>2. /\ op_index = 0 =>
              /\ slot >= 2
              /\ ctx.cycle <= Rx_Superscalar_Max_Schedule_Cycle + 2 + 4 * ctx.throwaway_count
        /\ op_index = 2 => ctx.cycle <= Rx_Superscalar_Max_Schedule_Cycle
    BY <1>1 DEF SuperscalarInv, CycleInv
  <1>3. /\ ctx.cycle \in Nat /\ ctx.throwaway_count \in 0 .. Max_Throwaway_Count
        /\ Max_Throwaway_Count \in Nat /\ Rx_Superscalar_Max_Schedule_Cycle \in Nat
    BY SuperscalarSizes DEF SuperscalarInv, ContextInv
  <1>4. ctx.cycle + 3 <= Last_Cycle
    BY <1>1, <1>2, <1>3 DEF Last_Cycle
  <1>. QED BY <1>1, <1>2, <1>4

(* A port is found in the row of its micro-op. *)
LEMMA PortIsFree ==
  ASSUME NEW uop \in SUBSET P015, NEW c, FreePorts(uop, c) # {}
  PROVE  PortFor(uop, c) \in P015
  <1> DEFINE free == FreePorts(uop, c)
             Chosen(p) == \/ p = "P5"
                          \/ p = "P0" /\ "P5" \notin free
                          \/ p = "P1" /\ free = {"P1"}
  <1>1. free \subseteq {"P0", "P1", "P5"} /\ free # {}
    BY DEF FreePorts, P015
  <1>2. \E p \in free : Chosen(p)
    <2> HIDE DEF free
    <2>. QED BY <1>1
  <1>3. PortFor(uop, c) = CHOOSE p \in free : Chosen(p)
    BY DEF PortFor
  <1> HIDE DEF Chosen, free
  <1>4. PortFor(uop, c) \in free
    BY Zenon, <1>2, <1>3
  <1>. QED BY <1>1, <1>4 DEF P015

(* The cycles a macro-op can be scheduled at: all ports are free, and it is *)
(* within the schedule, or it needs none.                                   *)
LEMMA ScheduledCycle ==
  ASSUME SuperscalarInv, ~ issued, NEW c \in Nat, NEW s \in ScheduleCycles(c)
  PROVE  /\ s \in Nat /\ s >= c
         /\ op.ports = <<>> => s = c
         /\ op.ports # <<>> => s < Rx_Superscalar_Max_Schedule_Cycle
         /\ (op.ports = <<>> => c <= Last_Cycle) => BusyAt(s) \subseteq Cells
  <1>1. Rx_Superscalar_Max_Schedule_Cycle \in Nat \ {0}
    BY SuperscalarSizes
  <1>2. CASE op.ports = <<>>
    <2>1. s = c
      BY <1>2 DEF ScheduleCycles
    <2>2. c <= Last_Cycle => c \in 0 .. Last_Cycle
      BY SuperscalarSizes DEF Last_Cycle
    <2>3. BusyAt(s) = {PortCell("NONE", c)}
      BY Zenon, <1>2, <2>1 DEF BusyAt
    <2>. QED BY <1>2, <2>1, <2>2, <2>3 DEF Cells
  <1>3. CASE op.ports # <<>>
    <2>1. c <= FirstCycle(c) /\ FirstCycle(c) \in Nat
      BY DEF FirstCycle, SuperscalarInv, ContextInv
    <2> DEFINE end == Rx_Superscalar_Max_Schedule_Cycle - 1
               free == {t \in FirstCycle(c) .. end :
                          \A j \in DOMAIN op.ports : FreePorts(op.ports[j], t) # {}}
    <2>2. s \in (IF free = {} THEN {} ELSE {Min(free)})
      BY <1>3 DEF ScheduleCycles, CyclesUpTo
    <2>3. free \in SUBSET Nat
      BY <2>1
    <2> HIDE DEF free
    <2>4. s \in free
      BY <2>2, <2>3, MinIsLeast
    <2>5. s \in FirstCycle(c) .. end /\ \A j \in DOMAIN op.ports : FreePorts(op.ports[j], s) # {}
      BY Zenon, <2>4 DEF free
    <2>6. \A j \in DOMAIN op.ports : PortFor(op.ports[j], s) \in P015
      BY <1>3, <2>5, NextOp, PortIsFree DEF WellFormedOp
    <2>7. s \in Cycles /\ s >= c
      BY <1>1, <2>1, <2>5 DEF Cycles
    <2>8. BusyAt(s) = {PortCell(PortFor(op.ports[j], s), s) : j \in DOMAIN op.ports}
      BY Zenon, <1>3 DEF BusyAt
    <2>9. BusyAt(s) \subseteq Cells
      <3>1. ASSUME NEW j \in DOMAIN op.ports
            PROVE  PortCell(PortFor(op.ports[j], s), s) \in Cells
        <4>1. PortFor(op.ports[j], s) \in P015 /\ s \in Cycles
          BY <2>6, <2>7
        <4>. QED BY <4>1 DEF Cells, Cycles
      <3>. QED BY Zenon, <2>8, <3>1
    <2>. QED BY <1>1, <1>3, <2>7, <2>9 DEF Cycles
  <1>. QED BY <1>2, <1>3

-----------------------------------------------------------------------------
(* Values that can wait for a register, and when it is ready. *)
Grows == \A r \in Registers :
    registers'[r] # registers[r] =>
        registers'[r].availability_cycle > registers[r].availability_cycle

(* The destination will be ready before what the macro-op writes. *)
InTime(dst, c) ==
    /\ op_index = info.result_op => registers[dst].availability_cycle < c + op.latency
    /\ instruction.type \in FullMultiplications /\ op_index = 0 =>
          registers[dst].availability_cycle < ctx.cycle + 4

LEMMA IssueInv ==
  ASSUME SuperscalarInv, stage = "slot", slot <= Len(buffer), ~ issued,
         NEW src \in Registers \union {-1}, NEW value \in Nat \union {-1},
         NEW dst \in Registers, NEW c \in Nat, BusyAt(c) \subseteq Cells,
         op.ports # <<>> => ctx.cycle < Rx_Superscalar_Max_Schedule_Cycle,
         InTime(dst, c), Issue(src, value, dst, c)
  PROVE  SuperscalarInv' /\ Grows
  <1> DEFINE completes == op_index + 1 = Len(info.ops)   ready == c + op.latency
  <1>1. /\ op_index \in 0 .. 2 /\ op_index < Len(info.ops) /\ Len(info.ops) \in 1 .. 3
        /\ WellFormedOp(op)
        /\ instruction.type \in FullMultiplications => ResultAfterDestination(info)
        /\ instruction.type \notin FullMultiplications => ResultOfDestination(info)
    BY NextOp
  <1>2. ready \in Nat /\ ready >= c
    BY <1>1 DEF WellFormedOp
  <1>3. /\ ports' = ports \union BusyAt(c)
        /\ instruction' = [instruction EXCEPT !.op_index = @ + 1, !.src_register = src,
                                              !.src_value = value, !.dst_register = dst]
        /\ slot' = slot + 1 /\ stage' = stage /\ buffer' = buffer
    BY DEF Issue
  <1>4. registers' = IF op_index = info.result_op
                     THEN [registers EXCEPT ![dst] = [availability_cycle |-> ready,
                                                      last_src_value |-> value,
                                                      last_group |-> info.group]]
                     ELSE registers
    BY DEF Issue
  <1>5. ctx' = [ctx EXCEPT !.throwaway_count = 0,
                           !.dependency_cycle = ready,
                           !.ports_saturated = @ \/ c >= Rx_Superscalar_Latency,
                           !.program_size = IF completes THEN @ + 1 ELSE @,
                           !.mul_count = IF completes /\ isMultiplication(instruction.type)
                                         THEN @ + 1 ELSE @]
    BY DEF Issue
  <1> HIDE DEF ready, completes
  <1>6. BufferInv'
    BY <1>3 DEF SuperscalarInv, BufferInv
  <1>7. /\ instruction'.type = instruction.type /\ instruction'.op_index = op_index + 1
        /\ instruction'.dst_register = dst /\ instruction' \in Instructions
    <2>1. instruction \in Instructions
      BY DEF SuperscalarInv, InstructionInv
    <2>2. instruction' = [type |-> instruction.type, op_index |-> op_index + 1,
                          src_register |-> src, src_value |-> value, dst_register |-> dst]
      BY <1>3, <2>1 DEF Instructions, op_index
    <2>. QED BY <1>1, <2>1, <2>2 DEF Instructions
  <1>8. InstructionInv'
    BY <1>1, <1>7 DEF InstructionInv, info
  <1>9. /\ DOMAIN ctx' = DOMAIN ctx /\ ctx'.throwaway_count = 0 /\ ctx'.dependency_cycle = ready
        /\ ctx'.cycle = ctx.cycle
        /\ ctx'.program_size = IF completes THEN ctx.program_size + 1 ELSE ctx.program_size
    BY <1>5 DEF SuperscalarInv, ContextInv
  <1>10. ctx.program_size < Rx_Superscalar_Max_Program_Size
    BY DEF SuperscalarInv, RoomInv
  <1>11. ContextInv'
    BY <1>2, <1>9, <1>10, SuperscalarSizes DEF SuperscalarInv, ContextInv
  <1>12. RoomInv'
    <2>1. CASE completes
      <3>1. issued'
        BY <1>1, <1>7, <2>1 DEF issued, completes, info
      <3>. QED BY <3>1 DEF RoomInv
    <2>2. CASE ~ completes
      BY <1>9, <1>10, <2>2 DEF RoomInv
    <2>. QED BY <2>1, <2>2
  <1>13. /\ registers = [r \in Registers |-> registers[r]]
         /\ \A r \in Registers : registers[r].availability_cycle \in Nat
    BY DEF SuperscalarInv, RegisterInv
  <1>14. /\ registers' = [r \in Registers |-> registers'[r]]
         /\ \A r \in Registers : r # dst => registers'[r] = registers[r]
         /\ IF op_index = info.result_op THEN registers'[dst].availability_cycle = ready
            ELSE registers'[dst] = registers[dst]
    BY <1>4, <1>13
  <1>15. RegisterInv'
    BY <1>2, <1>13, <1>14 DEF RegisterInv
  <1>16. Grows
    <2>1. op_index = info.result_op => registers[dst].availability_cycle < ready
      BY DEF InTime, ready
    <2>. QED BY <1>2, <1>13, <1>14, <2>1 DEF Grows
  <1>17. PendingInv'
    <2> SUFFICES ASSUME instruction.type \in FullMultiplications, op_index = 0
                 PROVE  registers'[dst].availability_cycle < ctx.cycle + 4
      BY <1>1, <1>7, <1>9 DEF PendingInv
    <2>1. info.result_op = 1
      BY <1>1 DEF ResultAfterDestination
    <2>2. registers'[dst] = registers[dst]
      BY <1>14, <2>1
    <2>. QED BY <2>1, <2>2 DEF InTime
  <1>18. ports' \subseteq Cells
    BY <1>3 DEF SuperscalarInv
  <1>19. CycleInv'
    <2>1. op_index' = op_index + 1 /\ (issued' <=> op_index + 1 = Len(info.ops))
      BY <1>7 DEF op_index, issued, info
    <2>2. op.ports = <<>> => /\ op_index \in {0, 2} /\ Len(info.ops) = 3
                             /\ op_index = 2 => ctx.cycle <= Rx_Superscalar_Max_Schedule_Cycle
      BY PortlessOp DEF ResultAfterDestination
    <2>3. ctx.cycle \in Nat /\ Rx_Superscalar_Max_Schedule_Cycle \in Nat
      BY SuperscalarSizes DEF SuperscalarInv, ContextInv
    <2>4. stage' = "slot" /\ Len(buffer') >= 3
      BY <1>3 DEF SuperscalarInv, CycleInv
    <2>5. issued' => ctx.cycle <= Rx_Superscalar_Max_Schedule_Cycle
      <3>1. CASE op.ports = <<>>
        <4>1. op_index \in {0, 2} /\ Len(info.ops) = 3
          BY Zenon, <2>2, <3>1
        <4>2. CASE op_index + 1 = Len(info.ops)
          <5>1. op_index = 2
            BY <4>1, <4>2
          <5>. QED BY Zenon, <2>2, <3>1, <5>1
        <4>3. CASE op_index + 1 # Len(info.ops)
          BY Zenon, <2>1, <4>3
        <4>. QED BY Zenon, <4>2, <4>3
      <3>2. CASE op.ports # <<>>
        BY <2>3, <3>2
      <3>. QED BY <3>1, <3>2
    <2>6. op_index' = 2 => ctx.cycle < Rx_Superscalar_Max_Schedule_Cycle
      BY <1>1, <2>1, <2>2, <2>3
    <2>7. op_index' # 0
      BY <1>1, <2>1
    <2>. QED BY <1>9, <2>3, <2>4, <2>5, <2>6, <2>7 DEF CycleInv
  <1>. QED BY <1>6, <1>8, <1>11, <1>12, <1>15, <1>16, <1>17, <1>18, <1>19 DEF SuperscalarInv

(* Nothing but the instruction, the context and the stage changes. *)
LEMMA ThrowawayInv ==
  ASSUME SuperscalarInv, stage = "slot", NEW cycle \in Nat, cycle >= ctx.cycle,
         slot >= 2 => cycle <= Rx_Superscalar_Max_Schedule_Cycle + 6 + 4 * ctx.throwaway_count,
         Throwaway(cycle)
  PROVE  SuperscalarInv' /\ Grows
  <1>1. /\ instruction' = [instruction EXCEPT !.type = "INVALID", !.op_index = 0]
        /\ buffer' = buffer /\ slot' = slot /\ ports' = ports /\ registers' = registers
        /\ stage' \in {stage, "decode"}
    BY DEF Throwaway
  <1>2. \/ /\ ctx.throwaway_count < Max_Throwaway_Count
           /\ ctx' = [ctx EXCEPT !.cycle = cycle, !.throwaway_count = @ + 1]
        \/ /\ ctx' = [ctx EXCEPT !.cycle = cycle + 1, !.decode_cycle = @ + 1]
           /\ stage' = "decode"
    BY DEF Throwaway
  <1>3. BufferInv' /\ RegisterInv' /\ ports' \subseteq Cells /\ Grows
    BY <1>1 DEF SuperscalarInv, BufferInv, RegisterInv, Grows
  <1>4. /\ instruction'.type = "INVALID" /\ instruction'.op_index = 0 /\ instruction' \in Instructions
    <2>1. instruction \in Instructions /\ "INVALID" \in Types
      BY InstructionSet DEF SuperscalarInv, InstructionInv
    <2> HIDE DEF Types, Registers
    <2>2. instruction' = [type |-> "INVALID", op_index |-> 0,
                          src_register |-> instruction.src_register,
                          src_value |-> instruction.src_value,
                          dst_register |-> instruction.dst_register]
      BY <1>1, <2>1 DEF Instructions
    <2>. QED BY <2>1, <2>2 DEF Instructions
  <1>5. InstructionInv' /\ RoomInv' /\ PendingInv'
    BY <1>4, InvalidWellFormed DEF InstructionInv, RoomInv, issued, PendingInv, FullMultiplications
  <1>7. CycleInv'
    <2>1. issued' /\ (stage' = "slot" => Len(buffer') >= 3)
      BY <1>1, <1>4, InvalidWellFormed DEF issued, SuperscalarInv, CycleInv
    <2>2. stage' = "slot" => ctx'.cycle = cycle /\ ctx'.throwaway_count = ctx.throwaway_count + 1
      BY <1>2 DEF SuperscalarInv, ContextInv
    <2>3. ctx.throwaway_count \in Nat /\ Rx_Superscalar_Max_Schedule_Cycle \in Nat
      BY SuperscalarSizes DEF SuperscalarInv, ContextInv
    <2>4. stage' = "slot" /\ slot' >= 2 =>
            ctx'.cycle <= Rx_Superscalar_Max_Schedule_Cycle + 2 + 4 * ctx'.throwaway_count
      BY <1>1, <2>2, <2>3
    <2>. QED BY <2>1, <2>4 DEF CycleInv
  <1>6. ContextInv'
    <2>1. /\ DOMAIN ctx' = DOMAIN ctx
          /\ ctx'.dependency_cycle = ctx.dependency_cycle
          /\ ctx'.program_size = ctx.program_size
          /\ \/ ctx'.cycle = cycle /\ ctx.throwaway_count < Max_Throwaway_Count
                /\ ctx'.throwaway_count = ctx.throwaway_count + 1
             \/ ctx'.cycle = cycle + 1 /\ ctx'.throwaway_count = ctx.throwaway_count
      BY <1>2 DEF SuperscalarInv, ContextInv
    <2>. QED BY <2>1, SuperscalarSizes DEF SuperscalarInv, ContextInv
  <1>. QED BY <1>3, <1>5, <1>6, <1>7 DEF SuperscalarInv

LEMMA StopInv == ASSUME SuperscalarInv, Saturated PROVE SuperscalarInv' /\ Grows
  <1>1. /\ stage' = "done" /\ buffer' = buffer /\ slot' = slot /\ instruction' = instruction
        /\ ctx' = ctx /\ ports' = ports /\ registers' = registers
    BY Zenon DEF Saturated
  <1>2. BufferInv' /\ Grows
    BY <1>1 DEF SuperscalarInv, BufferInv, Grows
  <1>3. /\ InstructionInv' /\ ContextInv' /\ RegisterInv' /\ RoomInv' /\ PendingInv'
        /\ CycleInv' /\ ports' \subseteq Cells
    BY <1>1 DEF SuperscalarInv, InstructionInv, ContextInv, RegisterInv, RoomInv, PendingInv,
                CycleInv, issued
  <1>. QED BY <1>2, <1>3 DEF SuperscalarInv

LEMMA SelectDestinationInv ==
  ASSUME SuperscalarInv, stage = "slot", slot <= Len(buffer), ~ issued,
         NEW src \in Registers \union {-1}, NEW value \in Nat \union {-1},
         NEW c \in Nat, NEW late \in 0 .. 3, c >= ctx.cycle,
         op.ports = <<>> => c = ctx.cycle /\ late = 0,
         op.ports # <<>> => ctx.cycle < Rx_Superscalar_Max_Schedule_Cycle,
         SelectDestination(src, value, c, late)
  PROVE  SuperscalarInv' /\ Grows
  <1>1. /\ op_index \in 0 .. 2 /\ WellFormedOp(op)
        /\ instruction.type \in FullMultiplications => ResultAfterDestination(info)
        /\ instruction.type \notin FullMultiplications => ResultOfDestination(info) /\ info.ops # <<>>
    BY NextOp
  <1>2. ctx.cycle \in Nat /\ \A r \in Registers : registers[r].availability_cycle \in Nat
    BY DEF SuperscalarInv, ContextInv, RegisterInv
  <1>5. op.ports = <<>> => c + 3 <= Last_Cycle
    BY <1>2, PortlessOp
  <1>6. instruction.type \in FullMultiplications /\ op_index = 0 => c = ctx.cycle
    BY <1>1 DEF ResultAfterDestination, op
  <1>7. Last_Cycle \in Nat
    BY SuperscalarSizes DEF Last_Cycle
  <1>8. Rx_Superscalar_Op_Max_Latency = 4 /\ late \in Nat /\ late <= 3
    BY SuperscalarSizes
  <1>3. CASE op_index = info.dst_op
    <2> DEFINE found == {s \in Forward(c) : DestinationRegisters(src, value, s) # {}}
    <2>1. \/ Throwaway(ctx.cycle + late + Rx_Superscalar_Op_Max_Latency)
          \/ /\ found # {}
             /\ \E dst \in DestinationRegisters(src, value, Min(found)) :
                  \/ Saturated
                  \/ \E s \in ScheduleCycles(Min(found)) : Issue(src, value, dst, s)
      BY Zenon, <1>3 DEF SelectDestination
    <2>2. CASE Throwaway(ctx.cycle + late + Rx_Superscalar_Op_Max_Latency)
      <3>1. /\ ctx.cycle + late + Rx_Superscalar_Op_Max_Latency \in Nat
            /\ ctx.cycle + late + Rx_Superscalar_Op_Max_Latency >= ctx.cycle
        BY <1>2, <1>8
      <3>2. ctx.throwaway_count \in Nat /\ Rx_Superscalar_Max_Schedule_Cycle \in Nat
        BY SuperscalarSizes DEF SuperscalarInv, ContextInv
      <3>3. op.ports = <<>> =>
              ctx.cycle <= Rx_Superscalar_Max_Schedule_Cycle + 2 + 4 * ctx.throwaway_count
        BY <1>3, PortlessOp DEF ResultAfterDestination
      <3>4. ctx.cycle + late + Rx_Superscalar_Op_Max_Latency
              <= Rx_Superscalar_Max_Schedule_Cycle + 6 + 4 * ctx.throwaway_count
        <4>1. CASE op.ports = <<>>
          BY <1>2, <1>8, <3>2, <3>3, <4>1
        <4>2. CASE op.ports # <<>>
          BY <1>2, <1>8, <3>2, <4>2
        <4>. QED BY <4>1, <4>2
      <3>. QED BY Zenon, <2>2, <3>1, <3>4, ThrowawayInv
    <2>3. CASE Saturated
      BY <2>3, StopInv
    <2>4. ASSUME found # {}, NEW dst \in DestinationRegisters(src, value, Min(found)),
                 NEW s \in ScheduleCycles(Min(found)), Issue(src, value, dst, s)
          PROVE  SuperscalarInv' /\ Grows
      <3>1. PICK m : m = Min(found)
        OBVIOUS
      <3>2. found \subseteq c .. c + 3
        BY SuperscalarSizes DEF Forward
      <3> HIDE DEF found
      <3>3. m \in found
        <4>1. found \in SUBSET Nat
          BY <3>2
        <4>. QED BY Zenon, <2>4, <3>1, <4>1, MinIsLeast
      <3>4. m \in Nat /\ m >= c /\ m <= c + 3
        BY <3>2, <3>3
      <3>5. dst \in Registers /\ registers[dst].availability_cycle <= m
        BY <2>4, <3>1 DEF DestinationRegisters, AvailableAt
      <3>6. s \in Nat /\ s >= m /\ BusyAt(s) \subseteq Cells
        <4>1. op.ports = <<>> => m <= Last_Cycle
          BY <1>5, <1>7, <3>4
        <4>. QED BY <2>4, <3>1, <3>4, <4>1, ScheduledCycle
      <3>7. InTime(dst, s)
        <4>1. op_index = info.result_op => op.latency >= 1
          <5>1. CASE instruction.type \in FullMultiplications
            BY <1>1, <1>3, <5>1 DEF ResultAfterDestination
          <5>2. CASE instruction.type \notin FullMultiplications
            BY <1>1, <5>2 DEF ResultOfDestination, op
          <5>. QED BY <5>1, <5>2
        <4>2. op.latency \in Nat
          BY <1>1 DEF WellFormedOp
        <4>. QED BY <1>2, <1>6, <3>4, <3>5, <3>6, <4>1, <4>2 DEF InTime
      <3>. QED BY <2>4, <3>5, <3>6, <3>7, IssueInv
    <2>. QED BY Zenon, <2>1, <2>2, <2>3, <2>4
  <1>4. CASE op_index # info.dst_op
    <2>1. \/ Saturated
          \/ \E s \in ScheduleCycles(c) : Issue(src, value, instruction.dst_register, s)
      BY Zenon, <1>4 DEF SelectDestination
    <2>2. CASE Saturated
      BY <2>2, StopInv
    <2>3. ASSUME NEW s \in ScheduleCycles(c), Issue(src, value, instruction.dst_register, s)
          PROVE  SuperscalarInv' /\ Grows
      <3>1. s \in Nat /\ s >= c /\ BusyAt(s) \subseteq Cells
        <4>1. op.ports = <<>> => c <= Last_Cycle
          BY <1>5, <1>7
        <4>. QED BY <2>3, <4>1, ScheduledCycle
      <3>2. instruction.dst_register \in Registers
        BY DEF SuperscalarInv, InstructionInv, Instructions
      <3>3. InTime(instruction.dst_register, s)
        <4>1. CASE instruction.type \in FullMultiplications
          <5>1. /\ op_index = info.result_op => op_index = 1 /\ op.latency = 4
                /\ op_index # 0
            BY <1>1, <1>4, <4>1 DEF ResultAfterDestination, op
          <5>2. op_index = 1 =>
                  registers[instruction.dst_register].availability_cycle < ctx.cycle + 4
            BY <4>1 DEF SuperscalarInv, PendingInv, op_index
          <5>. QED BY <1>2, <3>1, <3>2, <5>1, <5>2 DEF InTime
        <4>2. CASE instruction.type \notin FullMultiplications
          BY <1>1, <1>4, <4>2 DEF InTime, ResultOfDestination
        <4>. QED BY <4>1, <4>2
      <3>. QED BY <2>3, <3>1, <3>2, <3>3, IssueInv
    <2>. QED BY Zenon, <2>1, <2>2, <2>3
  <1>. QED BY <1>3, <1>4

LEMMA NextMacroOpInv == ASSUME SuperscalarInv, NextMacroOp PROVE SuperscalarInv' /\ Grows
  <1>1. /\ stage = "slot" /\ slot <= Len(buffer) /\ ~ issued
        /\ \/ Saturated
           \/ \E c \in ScheduleCycles(ctx.cycle) :
                \/ NoneReady(c) /\ Throwaway(ctx.cycle + 4)
                \/ ~ NoneReady(c) /\ SelectSource(c)
    BY Zenon DEF NextMacroOp
  <1>2. ctx.cycle \in Nat /\ ctx.cycle + 4 \in Nat /\ ctx.cycle + 4 >= ctx.cycle
    BY DEF SuperscalarInv, ContextInv
  <1>3. CASE Saturated
    BY <1>3, StopInv
  <1>6. ctx.throwaway_count \in Nat /\ Rx_Superscalar_Max_Schedule_Cycle \in Nat
    BY SuperscalarSizes DEF SuperscalarInv, ContextInv
  <1>4. ASSUME NEW c \in ScheduleCycles(ctx.cycle), NoneReady(c), Throwaway(ctx.cycle + 4)
        PROVE  SuperscalarInv' /\ Grows
    <2>1. op.ports # <<>> => ctx.cycle < Rx_Superscalar_Max_Schedule_Cycle
      BY <1>1, <1>2, <1>4, <1>6, ScheduledCycle
    <2>2. op_index = info.src_op \/ op_index = info.dst_op
      BY <1>4 DEF NoneReady
    <2>3. op.ports = <<>> =>
            ctx.cycle <= Rx_Superscalar_Max_Schedule_Cycle + 2 + 4 * ctx.throwaway_count
      BY <1>1, <2>2, PortlessOp DEF ResultAfterDestination
    <2>4. ctx.cycle + 4 <= Rx_Superscalar_Max_Schedule_Cycle + 6 + 4 * ctx.throwaway_count
      BY <1>2, <1>6, <2>1, <2>3
    <2>. QED BY Zenon, <1>1, <1>2, <1>4, <2>4, ThrowawayInv
  <1>5. ASSUME NEW c \in ScheduleCycles(ctx.cycle), ~ NoneReady(c), SelectSource(c)
        PROVE  SuperscalarInv' /\ Grows
    <2>1. c \in Nat /\ c >= ctx.cycle /\ (op.ports = <<>> => c = ctx.cycle)
      BY <1>1, <1>2, <1>5, ScheduledCycle
    <2>5. op.ports # <<>> => ctx.cycle < Rx_Superscalar_Max_Schedule_Cycle
      BY <1>1, <1>2, <1>5, <1>6, ScheduledCycle
    <2>6. op.ports = <<>> => op_index # info.src_op
      BY <1>1, PortlessOp DEF ResultAfterDestination
    <2>2. /\ instruction.type \in FullMultiplications => ResultAfterDestination(info)
          /\ instruction.src_register \in Registers \union {-1}
          /\ instruction.src_value \in Nat \union {-1}
      BY <1>1, NextOp DEF SuperscalarInv, InstructionInv, Instructions
    <2>3. CASE op_index = info.src_op
      <3> DEFINE ready == {f \in Forward(c) : AvailableAt(f) # {}}
      <3>1. PICK s : s = Min(ready)
        OBVIOUS
      <3>2. ready \subseteq c .. c + 3
        BY SuperscalarSizes DEF Forward
      <3>3. ready # {}
        <4> DEFINE latest == {c + Rx_Superscalar_Op_Max_Latency - 1,
                            Rx_Superscalar_Max_Schedule_Cycle - 1}
        <4>1. latest \in SUBSET Nat /\ latest # {}
          BY <2>1, SuperscalarSizes
        <4>2. PICK m : m = Min(latest)
          OBVIOUS
        <4>3. AvailableAt(m) # {}
          BY Zenon, <1>5, <2>3, <4>2 DEF NoneReady
        <4>4. c + 3 \in latest
          BY <2>1, SuperscalarSizes
        <4> HIDE DEF latest
        <4>5. m \in Nat /\ m <= c + 3
          BY <4>1, <4>2, <4>4, MinIsLeast
        <4>6. AvailableAt(c + 3) # {}
          <5>1. PICK r \in Registers : registers[r].availability_cycle <= m
            BY <4>3 DEF AvailableAt
          <5>2. registers[r].availability_cycle \in Nat
            BY DEF SuperscalarInv, RegisterInv
          <5>3. r \in AvailableAt(c + 3)
            BY <2>1, <4>5, <5>1, <5>2 DEF AvailableAt
          <5>. QED BY <5>3
        <4>7. c + 3 \in Forward(c)
          BY <2>1, SuperscalarSizes DEF Forward
        <4>. QED BY <4>6, <4>7
      <3>4. s \in c .. c + 3
        <4> HIDE DEF ready
        <4>1. ready \in SUBSET Nat
          BY <2>1, <3>2
        <4>2. s \in ready
          BY Zenon, <3>1, <3>3, <4>1, MinIsLeast
        <4>. QED BY <3>2, <4>2
      <3>5. \E src \in SourceRegisters(s) :
              SelectDestination(src, IF info.src_register_as_src_value THEN src ELSE Constant, s, s - c)
        BY Zenon, <1>5, <2>3, <3>1 DEF SelectSource
      <3>6. PICK src \in SourceRegisters(s) :
              SelectDestination(src, IF info.src_register_as_src_value THEN src ELSE Constant, s, s - c)
        BY <3>5
      <3>7. src \in Registers
        <4>1. SourceRegisters(s) \subseteq Registers
          BY DEF SourceRegisters, AvailableAt
        <4>. QED BY <3>6, <4>1
      <3>8. PICK value : value = IF info.src_register_as_src_value THEN src ELSE Constant
        OBVIOUS
      <3>9. value \in Nat \union {-1} /\ src \in Registers \union {-1}
        BY <3>7, <3>8, SuperscalarSizes DEF Constant
      <3>10. s \in Nat /\ s - c \in 0 .. 3 /\ s >= ctx.cycle
        BY <1>2, <2>1, <3>4
      <3>11. op.ports # <<>>
        BY <2>3, <2>6
      <3>12. SelectDestination(src, value, s, s - c)
        BY Zenon, <3>6, <3>8
      <3>. QED BY <1>1, <2>5, <3>9, <3>10, <3>11, <3>12, SelectDestinationInv
    <2>4. CASE op_index # info.src_op
      <3>1. SelectDestination(instruction.src_register, instruction.src_value, c, 0)
        BY Zenon, <1>5, <2>4 DEF SelectSource
      <3>2. 0 \in 0 .. 3
        OBVIOUS
      <3>. QED BY <1>1, <2>1, <2>2, <2>5, <3>1, <3>2, SelectDestinationInv
    <2>. QED BY <2>3, <2>4
  <1>. QED BY Zenon, <1>1, <1>3, <1>4, <1>5

LEMMA SelectInstructionInv == ASSUME SuperscalarInv, SelectInstruction PROVE SuperscalarInv' /\ Grows
  <1>1. /\ stage = "slot" /\ slot <= Len(buffer) /\ issued /\ ~ ContextDone
        /\ stage' = stage /\ buffer' = buffer /\ slot' = slot /\ ctx' = ctx /\ ports' = ports
        /\ registers' = registers
    BY Zenon DEF SelectInstruction
  <1>2. PICK t \in TypesForSlot, s \in Src_Values \union {Constant} :
          instruction' = [Invalid EXCEPT !.type = t, !.src_value = s]
    BY Zenon DEF SelectInstruction
  <1>3. t \in Types
    <2>1. buffer[slot] \in {3, 4, 7, 8, 9, 10}
      BY <1>1 DEF SuperscalarInv, BufferInv, Fits
    <2>. QED BY <1>2, <2>1, InstructionSet DEF TypesForSlot
  <1>4. s \in Nat \union {-1}
    BY <1>2, SuperscalarAssumption DEF Constant
  <1>5. /\ instruction' = [type |-> t, op_index |-> 0, src_register |-> -1, src_value |-> s,
                           dst_register |-> 0]
    BY <1>2 DEF Invalid, NoRegister
  <1>6. instruction' \in Instructions /\ instruction'.op_index = 0 /\ instruction'.type = t
    BY <1>3, <1>4, <1>5, SuperscalarSizes DEF Instructions
  <1>7. InstructionInv'
    BY <1>3, <1>6, InstructionSet DEF InstructionInv, WellFormedInfo
  <1>8. RoomInv' /\ PendingInv'
    <2>1. ctx.program_size < Rx_Superscalar_Max_Program_Size
      BY <1>1, SuperscalarSizes DEF ContextDone, SuperscalarInv, ContextInv
    <2>. QED BY <1>1, <1>6, <2>1 DEF RoomInv, PendingInv
  <1>9. /\ BufferInv' /\ ContextInv' /\ RegisterInv' /\ ports' \subseteq Cells /\ Grows
    BY <1>1 DEF SuperscalarInv, BufferInv, ContextInv, RegisterInv, Grows
  <1>10. CycleInv'
    <2>1. slot \in Nat /\ slot >= 1 /\ Len(buffer) \in Nat /\ Len(buffer) >= 3
      BY <1>1 DEF SuperscalarInv, BufferInv, Fits, CycleInv
    <2>2. slot >= 2 \/ t \notin FullMultiplications
      <3> SUFFICES ASSUME slot = 1 PROVE t \notin FullMultiplications
        BY <2>1
      <3>1. slot # Len(buffer) /\ buffer[slot] \in {3, 4, 7, 8, 9, 10}
        BY <1>1, <2>1 DEF SuperscalarInv, BufferInv, Fits
      <3>. QED BY <1>2, <3>1 DEF TypesForSlot, FullMultiplications
    <2>3. op_index' = 0 /\ instruction'.type = t
      BY <1>6 DEF op_index
    <2>. QED BY <1>1, <2>1, <2>2, <2>3 DEF SuperscalarInv, CycleInv
  <1>. QED BY <1>7, <1>8, <1>9, <1>10 DEF SuperscalarInv

LEMMA OtherStepsInv ==
  ASSUME SuperscalarInv, SelectDecodeBuffer \/ NextDecodeCycle \/ Done \/ UNCHANGED superscalarVars
  PROVE  SuperscalarInv' /\ Grows
  <1>1. instruction' = instruction /\ ports' = ports /\ registers' = registers
    BY DEF SelectDecodeBuffer, NextDecodeCycle, Done, superscalarVars
  <1>2. ctx' = ctx \/ ctx' = [ctx EXCEPT !.decode_cycle = @ + 1, !.cycle = @ + 1]
    BY DEF SelectDecodeBuffer, NextDecodeCycle, Advance, Done, superscalarVars
  <1>3. BufferInv'
    <2>1. CASE SelectDecodeBuffer
      <3>1. \A b \in 1 .. 6 : Fits(Decode_Buffers[b])
        BY DEF Fits, Decode_Buffers
      <3>2. DecodeBufferChoices \subseteq 1 .. 6
        BY DEF DecodeBufferChoices
      <3>3. Fits(buffer') /\ slot' = 1 /\ stage' = "slot"
        BY <2>1, <3>1, <3>2 DEF SelectDecodeBuffer
      <3>. QED BY <3>3 DEF BufferInv, Fits
    <2>2. CASE ~ SelectDecodeBuffer
      <3>1. stage' \in {"decode", "slot", "done"} /\ buffer' = buffer /\ slot' = slot
        BY <2>2 DEF NextDecodeCycle, Advance, Done, superscalarVars, SuperscalarInv, BufferInv
      <3>. QED BY <3>1 DEF SuperscalarInv, BufferInv
    <2>. QED BY <2>1, <2>2
  <1>4. /\ DOMAIN ctx' = DOMAIN ctx /\ ctx'.throwaway_count = ctx.throwaway_count
        /\ ctx'.cycle \in {ctx.cycle, ctx.cycle + 1}
        /\ ctx'.dependency_cycle = ctx.dependency_cycle /\ ctx'.program_size = ctx.program_size
    BY <1>2 DEF SuperscalarInv, ContextInv
  <1>5. ContextInv'
    BY <1>4 DEF SuperscalarInv, ContextInv
  <1>6. InstructionInv' /\ RegisterInv' /\ RoomInv' /\ ports' \subseteq Cells /\ Grows
    BY <1>1, <1>4 DEF SuperscalarInv, InstructionInv, RegisterInv, RoomInv, issued, Grows
  <1>7. PendingInv'
    <2> SUFFICES ASSUME instruction.type \in FullMultiplications, instruction.op_index = 1
                 PROVE  registers[instruction.dst_register].availability_cycle < ctx'.cycle + 4
      BY <1>1 DEF PendingInv
    <2>1. registers[instruction.dst_register].availability_cycle < ctx.cycle + 4
      BY DEF SuperscalarInv, PendingInv
    <2>2. instruction.dst_register \in Registers
      BY DEF SuperscalarInv, InstructionInv, Instructions
    <2>3. registers[instruction.dst_register].availability_cycle \in Nat /\ ctx.cycle \in Nat
      BY <2>2 DEF SuperscalarInv, RegisterInv, ContextInv
    <2>. QED BY <1>4, <2>1, <2>3
  <1>8. CycleInv'
    <2>1. op_index' = op_index /\ (issued' <=> issued) /\ instruction'.type = instruction.type
      BY <1>1 DEF op_index, issued
    <2>2. ctx.cycle \in Nat /\ Rx_Superscalar_Max_Schedule_Cycle \in Nat
      BY SuperscalarSizes DEF SuperscalarInv, ContextInv
    <2>3. CASE SelectDecodeBuffer
      <3>1. \A b \in 1 .. 6 : Len(Decode_Buffers[b]) >= 3
        <4>1. Decode_Buffers = <<<<4, 8, 4>>, <<7, 3, 3, 3>>, <<3, 7, 3, 3>>, <<4, 9, 3>>,
                                 <<4, 4, 4, 4>>, <<3, 3, 10>>>>
          BY Zenon DEF Decode_Buffers
        <4>2. /\ Len(<<4, 8, 4>>) = 3 /\ Len(<<7, 3, 3, 3>>) = 4 /\ Len(<<3, 7, 3, 3>>) = 4
              /\ Len(<<4, 9, 3>>) = 3 /\ Len(<<4, 4, 4, 4>>) = 4 /\ Len(<<3, 3, 10>>) = 3
          OBVIOUS
        <4>3. /\ Len(Decode_Buffers[1]) >= 3 /\ Len(Decode_Buffers[2]) >= 3
              /\ Len(Decode_Buffers[3]) >= 3 /\ Len(Decode_Buffers[4]) >= 3
              /\ Len(Decode_Buffers[5]) >= 3 /\ Len(Decode_Buffers[6]) >= 3
          BY <4>1, <4>2
        <4>. QED BY <4>3
      <3>2. DecodeBufferChoices \subseteq 1 .. 6
        BY DEF DecodeBufferChoices
      <3>3. /\ Len(buffer') >= 3 /\ slot' = 1 /\ stage = "decode" /\ stage' = "slot"
            /\ ctx' = ctx
        BY <2>3, <3>1, <3>2 DEF SelectDecodeBuffer
      <3>. QED BY <2>1, <3>3 DEF SuperscalarInv, CycleInv
    <2>4. CASE NextDecodeCycle
      <3>1. /\ stage = "slot" /\ slot > Len(buffer) /\ stage' = "decode"
            /\ ctx'.cycle \in {ctx.cycle, ctx.cycle + 1}
        BY <1>4, <2>4 DEF NextDecodeCycle, Advance
      <3>2. slot \in Nat /\ Len(buffer) \in Nat /\ Len(buffer) >= 3 /\ slot >= 2
        BY <3>1 DEF SuperscalarInv, BufferInv, Fits, CycleInv
      <3>3. ~ issued /\ op_index = 2 => ctx.cycle < Rx_Superscalar_Max_Schedule_Cycle
        BY <3>1, <3>2 DEF SuperscalarInv, CycleInv
      <3>4. ~ (~ issued /\ op_index = 0)
        BY <3>1, <3>2 DEF SuperscalarInv, CycleInv
      <3>. QED BY <2>1, <2>2, <3>1, <3>3, <3>4 DEF CycleInv
    <2>5. CASE Done
      BY <2>5 DEF Done, CycleInv
    <2>6. CASE UNCHANGED superscalarVars
      BY <2>1, <2>6 DEF superscalarVars, SuperscalarInv, CycleInv
    <2>. QED BY <2>3, <2>4, <2>5, <2>6
  <1>. QED BY <1>3, <1>5, <1>6, <1>7, <1>8 DEF SuperscalarInv

LEMMA SuperscalarStepInv == ASSUME SuperscalarInv, [SuperscalarNext]_superscalarVars PROVE SuperscalarInv' /\ Grows
  <1>. QED BY Zenon, SelectInstructionInv, NextMacroOpInv, OtherStepsInv DEF SuperscalarNext

(* The cells written lie in the table: those of the last ports' row, and   *)
(* those past the row of NONE.                                             *)
LEMMA CellsInTable == Cells \subseteq 0 .. Port_Rows * Rx_Superscalar_Max_Schedule_Cycle - 1
  <1>1. Rx_Superscalar_Max_Schedule_Cycle \in Nat \ {0} /\ Last_Cycle \in Nat
    BY SuperscalarSizes DEF Last_Cycle
  <1>2. Last_Cycle < 8 * Rx_Superscalar_Max_Schedule_Cycle
    BY ThrowawaysFit DEF Port_Rows
  <1>3. ASSUME NEW p \in P015, NEW c \in Cycles
        PROVE  PortCell(p, c) \in 0 .. 8 * Rx_Superscalar_Max_Schedule_Cycle - 1
    <2>1. PortRow[p] \in {1, 2, 4}
      BY DEF PortRow, P015
    <2>. QED BY <1>1, <2>1 DEF PortCell, Cycles
  <1>4. ASSUME NEW c \in 0 .. Last_Cycle
        PROVE  PortCell("NONE", c) \in 0 .. 8 * Rx_Superscalar_Max_Schedule_Cycle - 1
    <2>1. PortRow["NONE"] = 0
      BY DEF PortRow
    <2>2. PortCell("NONE", c) = c
      BY <1>1, <2>1 DEF PortCell
    <2>. QED BY <1>1, <1>2, <2>2
  <1>. QED BY <1>3, <1>4 DEF Cells, Cycles, Port_Rows

(* For any number of registers, any latency and any size of a program, the *)
(* program array has room for every instruction that is begun; and for any *)
(* number of throwaways that fits, what is written past the row of NONE by *)
(* macro-ops without a port stays in the table.                            *)
THEOREM SuperscalarTypes == SuperscalarSpec => []SuperscalarTypeOK
  <1>1. SuperscalarInv /\ [SuperscalarNext]_superscalarVars => SuperscalarInv'
    BY Zenon, SuperscalarStepInv
  <1>2. SuperscalarInv => SuperscalarTypeOK
    <2> SUFFICES ASSUME SuperscalarInv PROVE SuperscalarTypeOK
      OBVIOUS
    <2>1. stage \in {"decode", "slot", "done"} /\ slot \in 1 .. 5
      BY DEF SuperscalarInv, BufferInv, Fits
    <2>2. instruction \in [type : Types, op_index : 0 .. 3, src_register : Registers \union {-1},
                           src_value : Nat \union {-1}, dst_register : Registers]
      BY Zenon DEF SuperscalarInv, InstructionInv, Instructions
    <2>3. /\ \A r \in Registers : registers[r].availability_cycle \in Nat
          /\ ctx.throwaway_count \in 0 .. Max_Throwaway_Count
          /\ ctx.program_size \in 0 .. Rx_Superscalar_Max_Program_Size
      BY Zenon DEF SuperscalarInv, RegisterInv, ContextInv
    <2>4. ports \subseteq Cells
      BY DEF SuperscalarInv
    <2>5. ports \subseteq 0 .. Port_Rows * Rx_Superscalar_Max_Schedule_Cycle - 1
      BY <2>4, CellsInTable
    <2>. QED BY Zenon, <2>1, <2>2, <2>3, <2>4, <2>5 DEF SuperscalarTypeOK
  <1>. QED BY <1>1, <1>2, SuperscalarInitInv, PTL DEF SuperscalarSpec

(* No register is ready earlier than the value it already waits for, for   *)
(* any timing: the full multiplications may take a register up to three    *)
(* cycles too early, and their latency is four.                            *)
THEOREM SuperscalarAvailability == SuperscalarSpec => AvailabilityGrows
  <1>1. SuperscalarInv /\ [SuperscalarNext]_superscalarVars => SuperscalarInv'
    BY Zenon, SuperscalarStepInv
  <1>2. SuperscalarInv /\ [SuperscalarNext]_superscalarVars =>
          [\A r \in Registers :
             registers'[r] # registers[r] =>
                registers'[r].availability_cycle > registers[r].availability_cycle]_superscalarVars
    BY Zenon, SuperscalarStepInv DEF Grows
  <1>. QED BY <1>1, <1>2, SuperscalarInitInv, PTL DEF SuperscalarSpec, AvailabilityGrows
=============================================================================
