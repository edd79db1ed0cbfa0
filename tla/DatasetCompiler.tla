---------------------------- MODULE DatasetCompiler ----------------------------
(***************************************************************************)
(* datasetcompiler.cpp, compile: the loop that computes dataset items,     *)
(* generated from the superscalar programs; with the part of the assembler *)
(* (assembler.hpp) that places instructions, labels and data.              *)
(*                                                                         *)
(* Only sizes and positions are kept.  The constants of the programs are   *)
(* stored one after the other, 32 bytes each; the code reads them relative *)
(* to RBX, which it moves on before an offset leaves the 8 bits of a short *)
(* displacement.  The assembler lets no instruction cross a page.  The     *)
(* lengths of the fixed pieces of code are parameters.                     *)
(***************************************************************************)
EXTENDS Integers, Sequences

CONSTANTS
    Page,            \* schedule()'s align
    Label_Align,     \* label()'s alignment
    Programs,        \* Rx_Cache_Accesses
    Max_Size,        \* instructions of a superscalar program
    Save_Registers, Setup,          \* lengths of the instructions of the prologue:
                                    \* before and after movDataPtr
    Load_Item, Fetch_Cache, Transpose, Store_Items,   \* of the loop's pieces
    Flush_Orders     \* orders in which makeExecutable's arguments may be evaluated

Lengths == Seq(1 .. 15)

ASSUME DatasetCompilerAssumption ==
    /\ Page \in Nat /\ Label_Align \in Nat \ {0}
    /\ Page > 15 /\ Page % Label_Align = 0
    /\ Programs \in Nat \ {0} /\ Max_Size \in Nat
    /\ \A s \in {Save_Registers, Setup, Load_Item, Fetch_Cache, Transpose, Store_Items} :
          s \in Lengths
    /\ Flush_Orders \subseteq {"data", "code"}

VARIABLES
    pc,           \* where compile() is
    queue,        \* lengths of the instructions it has asked for and not placed
    code_size,    \* code.size()
    last,         \* where the last instruction placed is
    data_size,    \* data.size()
    rbx,          \* what RBX holds when the code generated so far has run, as an
                  \* offset into the data
    data_offset,
    read,         \* the constant read last: where it was stored, where it is read
    program,      \* i
    instr,        \* j
    label,        \* labels[Loop_Label]
    target,       \* where the jump goes
    data_ptr_pos, \* the placeholders to be filled
    given         \* what flushCode has given away: nothing yet, or the
                  \* placeholders that were filled by then

vars == <<pc, queue, code_size, last, data_size, rbx, data_offset, read, program, instr,
          label, target, data_ptr_pos, given>>
dataVars == <<data_size, rbx, data_offset, read>>
codeVars == <<code_size, last>>

-----------------------------------------------------------------------------
(* The assembler. *)

(* schedule()'s test; variant: pages after the first one are forgotten. *)
CrossesFirstPage(size, n) == size < Page /\ size + n > Page
Crosses(size, n) == size + n # Page /\ size % Page > (size + n) % Page

Padding(size, n) == IF Crosses(size, n) THEN Page - (size % Page) ELSE 0

Schedule ==
    /\ queue # <<>>
    /\ LET start == code_size + Padding(code_size, Head(queue))
       IN /\ code_size' = start + Head(queue)
          /\ last' = [start |-> start, length |-> Head(queue)]
    /\ queue' = Tail(queue)
    /\ UNCHANGED <<dataVars, pc, program, instr, label, target, data_ptr_pos, given>>

(* compile() goes on when what it asked for is placed. *)
At(from) == pc = from /\ queue = <<>>
Emit(from, to, lengths) == At(from) /\ pc' = to /\ queue' = lengths

(* movDataPtr: a placeholder, whose position is remembered. *)
MovDataPtrLength == 10
MovDataPtr(from, to, offset) ==
    /\ Emit(from, to, <<MovDataPtrLength>>)
    /\ rbx' = offset
    /\ UNCHANGED <<codeVars, data_size, data_offset, read, program, instr, label, target,
                   data_ptr_pos, given>>

SavePosition(from, to, offset) ==
    /\ Emit(from, to, <<>>)
    /\ data_ptr_pos' = data_ptr_pos \union {<<code_size - 8, offset>>}
    /\ UNCHANGED <<codeVars, dataVars, program, instr, label, target, given>>

-----------------------------------------------------------------------------
(* compile. *)
Vector == 32
Fixed_Data == 9 * Vector
Loop_Data == 192

Init ==
    /\ pc = "entry"
    /\ queue = <<>>
    /\ code_size = 0
    /\ last = [start |-> 0, length |-> 0]
    /\ data_size = 0 /\ rbx = 0 /\ data_offset = 0
    /\ read = [slot |-> 0, address |-> 0]
    /\ program = 0 /\ instr = 0
    /\ label = 0
    /\ target = 0
    /\ data_ptr_pos = {}
    /\ given = [code |-> FALSE, filled |-> {}]

(* A piece of code that is always the same. *)
Piece(from, to, lengths) ==
    /\ Emit(from, to, lengths)
    /\ UNCHANGED <<codeVars, dataVars, program, instr, label, target, data_ptr_pos, given>>

SaveRegisters == Piece("entry", "data pointer", Save_Registers)
MovDataPtrEntry == MovDataPtr("data pointer", "data pointer saved", 0)
SaveEntry == SavePosition("data pointer saved", "constants", 0)

(* The nine vectors the fixed code uses. *)
StoreConstants ==
    /\ Emit("constants", "label", Setup)
    /\ data_size' = data_size + Fixed_Data
    /\ UNCHANGED <<codeVars, rbx, data_offset, read, program, instr, label, target,
                   data_ptr_pos, given>>

Aligned(size) == IF size % Label_Align = 0 THEN size
                 ELSE size + Label_Align - (size % Label_Align)

LoopLabel ==
    /\ Emit("label", "start", <<>>)
    /\ label' = Aligned(code_size)
    /\ code_size' = Aligned(code_size)
    /\ UNCHANGED <<dataVars, last, program, instr, target, data_ptr_pos, given>>

MovDataPtrLoop == MovDataPtr("start", "start saved", Loop_Data)
SaveLoop == SavePosition("start saved", "item", Loop_Data)

(* The first of the program's constants lies behind the fixed ones. *)
InitialOffset == 96
LoadItem ==
    /\ Emit("item", "cache", Load_Item)
    /\ data_offset' = InitialOffset
    /\ UNCHANGED <<codeVars, data_size, rbx, read, program, instr, label, target,
                   data_ptr_pos, given>>

FetchCache == Piece("cache", "program", Fetch_Cache)

(* emitAVX2Instruction: the lengths of what each superscalar instruction    *)
(* becomes.  Its registers are YMM8 to YMM15, those of the emulated        *)
(* multiplications YMM0 to YMM5; an offset of zero needs no displacement.  *)
High == <<6, 6, 5, 4, 4, 5, 4, 4, 4, 5, 4, 4, 5>>
Computed == {<<5>>, <<6, 5>>, <<7>>, <<6>>,     \* IADD_RS, ISUB_R, IXOR_R, IROR_C, IMUL_R
             High \o <<5>>,                     \* IMULH_R
             High \o <<4, 5, 4, 4, 5, 4, 5>>}   \* ISMULH_R
WithConstant(offset) ==
    IF offset = 0 THEN {4, 6} ELSE {5, 7}       \* IADD_C and IXOR_C, IMUL_RCP
Add_RBX == <<7>>

Emit1 ==
    /\ instr < Max_Size
    /\ instr' = instr + 1
    /\ UNCHANGED <<codeVars, program, label, target, data_ptr_pos, given>>

EmitComputed ==
    /\ Emit1
    /\ \E lengths \in Computed : Emit("program", "program", lengths)
    /\ UNCHANGED dataVars

(* RBX and the offset once a constant was read; variant: RBX is moved by   *)
(* the 128 bytes the offset has got to.                                    *)
MovedOnHalf(offset) ==
    IF offset + Vector = 128 THEN [offset |-> -128, rbx |-> rbx + 128, code |-> Add_RBX]
                             ELSE [offset |-> offset + Vector, rbx |-> rbx, code |-> <<>>]
MovedOn(offset) ==
    IF offset + Vector = 128 THEN [offset |-> -128, rbx |-> rbx + 256, code |-> Add_RBX]
                             ELSE [offset |-> offset + Vector, rbx |-> rbx, code |-> <<>>]

EmitConstant ==
    /\ Emit1
    /\ data_size' = data_size + Vector
    /\ read' = [slot |-> data_size, address |-> rbx + data_offset]
    /\ \E n \in WithConstant(data_offset) :
          Emit("program", "program", <<n>> \o MovedOn(data_offset).code)
    /\ data_offset' = MovedOn(data_offset).offset
    /\ rbx' = MovedOn(data_offset).rbx

EndProgram ==
    /\ Emit("program", IF program + 1 = Programs THEN "end" ELSE "cache", Transpose)
    /\ program' = program + 1
    /\ instr' = 0
    /\ UNCHANGED <<codeVars, dataVars, label, target, data_ptr_pos, given>>

StoreItems == Piece("end", "jump", Store_Items)

(* jne: the displacement is worked out before the instruction is placed. *)
Jne == 6
JneLoop ==
    /\ Emit("jump", "placed", <<Jne>>)
    /\ target' = label - code_size - Jne
    /\ UNCHANGED <<codeVars, dataVars, program, instr, label, data_ptr_pos, given>>

(* Where the processor goes from the jump. *)
JumpTarget ==
    /\ Emit("placed", "flush", <<>>)
    /\ target' = code_size + target
    /\ UNCHANGED <<codeVars, dataVars, program, instr, label, data_ptr_pos, given>>

(* The arguments of makeExecutable; flushData fills the placeholders of    *)
(* the code the assembler still has.  Variant: the other order.            *)
FlushCodeFirst == [code |-> TRUE, filled |-> {}]
FlushDataFirst == [code |-> TRUE, filled |-> data_ptr_pos]

Flush ==
    /\ Emit("flush", "done", <<>>)
    /\ given' \in {IF order = "data" THEN FlushDataFirst ELSE FlushCodeFirst :
                      order \in Flush_Orders}
    /\ UNCHANGED <<codeVars, dataVars, program, instr, label, target, data_ptr_pos>>

Next ==
    \/ Schedule
    \/ SaveRegisters \/ MovDataPtrEntry \/ SaveEntry \/ StoreConstants
    \/ LoopLabel \/ MovDataPtrLoop \/ SaveLoop \/ LoadItem \/ FetchCache
    \/ EmitComputed \/ EmitConstant \/ EndProgram
    \/ StoreItems \/ JneLoop \/ JumpTarget \/ Flush
    \/ (pc = "done" /\ UNCHANGED vars)

Spec == Init /\ [][Next]_vars

-----------------------------------------------------------------------------
DatasetCompilerTypeOK ==
    /\ queue \in Seq(1 .. 15)
    /\ code_size \in Nat
    /\ data_size \in Nat
    /\ rbx \in Nat
    /\ data_offset \in -128 .. 127
    /\ program \in 0 .. Programs
    /\ instr \in 0 .. Max_Size
    /\ label \in Nat
    /\ target \in Int

(* Every instruction with a constant reads the one that was stored for it, *)
(* however many constants came before; the loop starts with RBX set anew,  *)
(* so that this is so in every iteration.                                  *)
ReadsItsConstant == read.address = read.slot

(* No instruction crosses the end of a page. *)
NoInstructionCrosses ==
    last.length > 0 => last.start \div Page = (last.start + last.length - 1) \div Page

(* The program that is run has all of its data pointers. *)
PointersFilled == pc = "done" => /\ given.filled = data_ptr_pos
                                 /\ {offset \in {0, Loop_Data} :
                                       \E p \in given.filled : p[2] = offset} = {0, Loop_Data}

(* assembler.hpp: jne's "Can jump only backwards" and label's "Align to 32 *)
(* bytes and store label."  The jump goes to the label.                    *)
JumpsToLabel == pc \in {"flush", "done"} => target = label
=============================================================================
