------------------------------ MODULE Superscalar ------------------------------
(***************************************************************************)
(* superscalar.cpp / instructionset.hpp: the generator of superscalar      *)
(* programs.                                                               *)
(*                                                                         *)
(* The generator simulates a processor that decodes a buffer of macro-ops  *)
(* per cycle and executes their micro-ops on three ports.  For each slot   *)
(* of the buffer it takes the next macro-op of the instruction at hand, or *)
(* picks a new instruction, finds the cycle and the ports it can execute   *)
(* on, and registers that are ready by then; an instruction for which it   *)
(* finds none is thrown away, and the cycle moves on.  The choices that    *)
(* the code takes from the blake2b generator are any choice; constants of  *)
(* instructions (imm32, mod, reciprocal) are left out.  What is recorded   *)
(* of the chains of dependent instructions for the address register, which *)
(* the generator itself never reads, is in AsicContext.                    *)
(***************************************************************************)
EXTENDS Integers, Sequences, FiniteSetsExt

CONSTANTS
    Register_Count,               \* 8 in the code
    Register_Needs_Displacement,  \* 5 in the code
    Rx_Superscalar_Latency,       \* 170 in the code
    Rx_Superscalar_Max_Program_Size,
    Max_Throwaway_Count,          \* 256 in the code
    Src_Values                    \* what getUint32() may give as a source value

NoRegister == -1
Registers == 0 .. Register_Count - 1

ASSUME SuperscalarAssumption ==
    /\ Register_Count \in Nat \ {0}
    /\ Register_Needs_Displacement \in Registers
    /\ Rx_Superscalar_Latency \in Nat \ {0}
    /\ Rx_Superscalar_Max_Program_Size \in Nat \ {0}
    /\ Max_Throwaway_Count \in Nat
    /\ Src_Values \subseteq Nat

VARIABLES
    stage,        \* "decode", "slot" or "done"
    buffer,       \* the decode buffer: sizes of its slots
    slot,
    instruction,  \* the one being issued
    ctx,          \* ProgramContext
    ports,        \* PortsSchedule: the cells of its table that are set
    registers     \* RegisterFile

superscalarVars == <<stage, buffer, slot, instruction, ctx, ports, registers>>

-----------------------------------------------------------------------------
(* The instruction set. *)
P01 == {"P0", "P1"}
P05 == {"P0", "P5"}
P015 == {"P0", "P1", "P5"}

Op(uops, size, latency, dependent) ==
    [ports |-> uops, size |-> size, latency |-> latency, dependent |-> dependent]

Info(group, ops, src, dst, result, value) ==
    [group |-> group, ops |-> ops, src_op |-> src, dst_op |-> dst, result_op |-> result,
     src_register_as_src_value |-> value]

OneOp(group, uop, size, latency, src) ==
    Info(group, <<Op(<<uop>>, size, latency, FALSE)>>, src, 0, 0, src = 0)

(* mov, the multiplication, mov. *)
Multiply128 ==
    Info("ISMULH_R", <<Op(<<>>, 3, 0, FALSE), Op(<<{"P1"}, {"P5"}>>, 3, 4, FALSE),
                       Op(<<>>, 3, 0, FALSE)>>, 1, 0, 1, TRUE)

(* An operation index of -1: none of the instruction's macro-ops. *)
isa == [ISUB_R   |-> OneOp("IADD_RS", P015, 3, 1, 0),
        IXOR_R   |-> OneOp("IXOR_R", P015, 3, 1, 0),
        IADD_RS  |-> OneOp("IADD_RS", P01, 4, 1, 0),
        IMUL_R   |-> OneOp("IMUL_R", {"P1"}, 4, 3, 0),
        IROR_C   |-> OneOp("IROR_C", P05, 4, 1, -1),
        IADD_C7  |-> OneOp("IADD_C7", P015, 7, 1, -1),
        IXOR_C7  |-> OneOp("IXOR_C7", P015, 7, 1, -1),
        IADD_C8  |-> OneOp("IADD_C7", P015, 8, 1, -1),
        IXOR_C8  |-> OneOp("IXOR_C7", P015, 8, 1, -1),
        IADD_C9  |-> OneOp("IADD_C7", P015, 9, 1, -1),
        IXOR_C9  |-> OneOp("IXOR_C7", P015, 9, 1, -1),
        IMULH_R  |-> Multiply128,
        ISMULH_R |-> Multiply128,
        IMUL_RCP |-> Info("IMUL_RCP", <<Op(<<P015>>, 10, 1, FALSE), Op(<<{"P1"}>>, 4, 3, TRUE)>>,
                          -1, 1, 1, FALSE),
        INVALID  |-> Info("INVALID", <<>>, 0, 0, 0, FALSE)]

Types == DOMAIN isa
isMultiplication(type) == type \in {"IMUL_R", "IMULH_R", "ISMULH_R", "IMUL_RCP"}

(* The largest latency of a macro-op. *)
Rx_Superscalar_Op_Max_Latency == 4
Rx_Superscalar_Max_Schedule_Cycle == Rx_Superscalar_Latency + Rx_Superscalar_Op_Max_Latency

(* PortsSchedule: a row of cycles for each value of ExecutionPort, one     *)
(* after the other in memory.                                              *)
Port_Rows == 8
PortRow == [NONE |-> 0, P5 |-> 1, P0 |-> 2, P1 |-> 4]
PortCell(port, c) == PortRow[port] * Rx_Superscalar_Max_Schedule_Cycle + c

(* The last cycle a macro-op without micro-ops can be given: throwaways    *)
(* move it on by four each, within the table: 1203 cycles of 1392.         *)
Last_Cycle == Rx_Superscalar_Max_Schedule_Cycle + 4 * Max_Throwaway_Count + 5
ASSUME ThrowawaysFit == Last_Cycle < Port_Rows * Rx_Superscalar_Max_Schedule_Cycle

Decode_Buffers == <<<<4, 8, 4>>, <<7, 3, 3, 3>>, <<3, 7, 3, 3>>, <<4, 9, 3>>,
                    <<4, 4, 4, 4>>, <<3, 3, 10>>>>

(* Source values of instructions without a source. *)
Constant == -1

-----------------------------------------------------------------------------
issued == instruction.op_index = Len(isa[instruction.type].ops)

(* done(); variant: the size of the program is not looked at. *)
ContextDoneUnsized ==
    ctx.ports_saturated \/ ctx.decode_cycle >= Rx_Superscalar_Latency
ContextDone ==
    \/ ctx.ports_saturated
    \/ ctx.decode_cycle >= Rx_Superscalar_Latency
    \/ ctx.program_size >= Rx_Superscalar_Max_Program_Size

Invalid == [type |-> "INVALID", op_index |-> 0, src_register |-> NoRegister,
            src_value |-> Constant, dst_register |-> 0]

SuperscalarInit ==
    /\ stage = "decode"
    /\ buffer = <<>>
    /\ slot = 1
    /\ instruction = Invalid
    /\ ctx = [throwaway_count |-> 0, mul_count |-> 0, cycle |-> 0, dependency_cycle |-> 0,
              decode_cycle |-> 0, program_size |-> 0, ports_saturated |-> FALSE]
    /\ ports = {}
    /\ registers = [r \in Registers |->
                      [availability_cycle |-> 0, last_src_value |-> Constant,
                       last_group |-> "INVALID"]]

(* selectDecodeBuffer *)
DecodeBufferChoices ==
    CASE instruction.type \in {"IMULH_R", "ISMULH_R"} -> {6}
      [] instruction.type \notin {"IMULH_R", "ISMULH_R"}
            /\ ctx.mul_count < ctx.decode_cycle + 1  -> {5}
      [] OTHER -> IF instruction.type = "IMUL_RCP" THEN {1, 4} ELSE 1 .. 4

SelectDecodeBuffer ==
    /\ stage = "decode"
    /\ ~ ContextDone
    /\ \E b \in DecodeBufferChoices : buffer' = Decode_Buffers[b]
    /\ slot' = 1
    /\ stage' = "slot"
    /\ UNCHANGED <<instruction, ctx, ports, registers>>

(* ProgramContext::advance, after the last slot of a buffer. *)
Advance ==
    /\ ctx' = [ctx EXCEPT !.decode_cycle = @ + 1, !.cycle = @ + 1]
    /\ stage' = "decode"

NextDecodeCycle ==
    /\ stage = "slot"
    /\ slot > Len(buffer)
    /\ Advance
    /\ UNCHANGED <<buffer, slot, instruction, ports, registers>>

Done ==
    /\ \/ stage = "decode" /\ ContextDone
       \/ stage = "slot" /\ slot <= Len(buffer) /\ issued /\ ContextDone
    /\ stage' = "done"
    /\ UNCHANGED <<buffer, slot, instruction, ctx, ports, registers>>

(* selectInstructionTypeForDecodeBuffer *)
TypesForSlot ==
    LET last == slot = Len(buffer)
    IN  CASE buffer[slot] = 3  -> {"ISUB_R", "IXOR_R"} \union
                                  (IF last THEN {"IMULH_R", "ISMULH_R"} ELSE {})
          [] buffer[slot] = 4  -> IF buffer = Decode_Buffers[5] /\ ~ last
                                  THEN {"IMUL_R"} ELSE {"IROR_C", "IADD_RS"}
          [] buffer[slot] = 7  -> {"IXOR_C7", "IADD_C7"}
          [] buffer[slot] = 8  -> {"IXOR_C8", "IADD_C8"}
          [] buffer[slot] = 9  -> {"IXOR_C9", "IADD_C9"}
          [] buffer[slot] = 10 -> {"IMUL_RCP"}

(* initializeInstruction: the full multiplications get a random number for *)
(* their source value.                                                     *)
SelectInstruction ==
    /\ stage = "slot"
    /\ slot <= Len(buffer)
    /\ issued /\ ~ ContextDone
    /\ \E t \in TypesForSlot :
         \E s \in IF t \in {"IMULH_R", "ISMULH_R"} THEN Src_Values ELSE {Constant} :
            instruction' = [Invalid EXCEPT !.type = t, !.src_value = s]
    /\ UNCHANGED <<stage, buffer, slot, ctx, ports, registers>>

-----------------------------------------------------------------------------
info == isa[instruction.type]
op_index == instruction.op_index
op == info.ops[op_index + 1]

(* scheduleUop: the ports are tried in the order P5, P0, P1. *)
FreePorts(uop, c) == {p \in uop : PortCell(p, c) \notin ports}
PortFor(uop, c) ==
    LET free == FreePorts(uop, c)
    IN  CHOOSE p \in free : \/ p = "P5"
                            \/ p = "P0" /\ "P5" \notin free
                            \/ p = "P1" /\ free = {"P1"}

(* scheduleOp: the first cycle that has a port for each of the micro-ops;  *)
(* an operation without any is eliminated and takes the cycle it is asked  *)
(* for.  Cycles the schedule has no room for are not found.                *)
FirstCycle(c) == IF op.dependent /\ ctx.dependency_cycle > c THEN ctx.dependency_cycle ELSE c
CyclesUpTo(from, last) ==
    LET free == {s \in from .. last : \A j \in DOMAIN op.ports : FreePorts(op.ports[j], s) # {}}
    IN  IF free = {} THEN {} ELSE {Min(free)}

ScheduleCycles(c) ==
    IF op.ports = <<>>
    THEN {c}
    ELSE CyclesUpTo(FirstCycle(c), Rx_Superscalar_Max_Schedule_Cycle - 1)

(* findAvailableRegisters; variant: registers that get ready in the time   *)
(* the caller can still wait are taken for ready.                          *)
AvailableSoon(c) ==
    {r \in Registers : registers[r].availability_cycle < c + Rx_Superscalar_Op_Max_Latency}
AvailableAt(c) == {r \in Registers : registers[r].availability_cycle <= c}

Forward(c) == c .. c + Rx_Superscalar_Op_Max_Latency - 1

(* The source registers the code chooses from at cycle c. *)
SourceRegisters(c) ==
    LET available == AvailableAt(c)
    IN  IF /\ instruction.type = "IADD_RS"
           /\ Cardinality(available) = 2
           /\ Register_Needs_Displacement \in available
        THEN {Register_Needs_Displacement}
        ELSE available

(* The register had this operation last. *)
Repeats(r, value) ==
    registers[r].last_group = info.group /\ registers[r].last_src_value = value

(* The destination registers for a source and its value at cycle c. *)
DestinationRegisters(src, value, c) ==
    {r \in AvailableAt(c) :
        /\ ~ (instruction.type = "IADD_RS" /\ r = Register_Needs_Displacement)
        /\ r = src => info.group = "ISMULH_R"
        /\ ~ Repeats(r, value)
        /\ ~ (/\ ctx.throwaway_count = 0
              /\ info.group = "IMUL_R"
              /\ registers[r].last_group = "IMUL_R")}

(* Variant of Throwaway: it is not counted and the cycle is kept. *)
ThrowawayUncounted(cycle) ==
    /\ instruction' = [instruction EXCEPT !.type = "INVALID", !.op_index = 0]
    /\ UNCHANGED <<stage, buffer, slot, ctx, ports, registers>>

(* The instruction is thrown away: another one is tried for the slot, or   *)
(* after too many of them the rest of the buffer is given up.              *)
Throwaway(cycle) ==
    /\ instruction' = [instruction EXCEPT !.type = "INVALID", !.op_index = 0]
    /\ IF ctx.throwaway_count < Max_Throwaway_Count
       THEN /\ ctx' = [ctx EXCEPT !.cycle = cycle, !.throwaway_count = @ + 1]
            /\ UNCHANGED stage
       ELSE /\ ctx' = [ctx EXCEPT !.cycle = cycle + 1, !.decode_cycle = @ + 1]
            /\ stage' = "decode"
    /\ UNCHANGED <<buffer, slot, ports, registers>>

(* Nothing is left to schedule the operation on: the program ends. *)
Saturated ==
    /\ stage' = "done"
    /\ UNCHANGED <<buffer, slot, instruction, ctx, ports, registers>>

(* The cells a macro-op sets at cycle c.  One without micro-ops sets that  *)
(* of NONE, and no search has kept its cycle within the row: past it lie   *)
(* the rows of the other ports.                                            *)
BusyAt(c) ==
    IF op.ports = <<>> THEN {PortCell("NONE", c)}
    ELSE {PortCell(PortFor(op.ports[j], c), c) : j \in DOMAIN op.ports}

(* The macro-op is scheduled at cycle c. *)
Issue(src, value, dst, c) ==
    LET last == op_index + 1 = Len(info.ops)
        ready == c + op.latency
    IN  /\ ports' = ports \union BusyAt(c)
        /\ instruction' = [instruction EXCEPT !.op_index = @ + 1, !.src_register = src,
                                              !.src_value = value, !.dst_register = dst]
        /\ registers' = IF op_index = info.result_op
                        THEN [registers EXCEPT ![dst] = [availability_cycle |-> ready,
                                                         last_src_value |-> value,
                                                         last_group |-> info.group]]
                        ELSE registers
        /\ ctx' = [ctx EXCEPT !.throwaway_count = 0,
                              !.dependency_cycle = ready,
                              !.ports_saturated = @ \/ c >= Rx_Superscalar_Latency,
                              !.program_size = IF last THEN @ + 1 ELSE @,
                              !.mul_count = IF last /\ isMultiplication(instruction.type)
                                            THEN @ + 1 ELSE @]
        /\ slot' = slot + 1
        /\ UNCHANGED <<stage, buffer>>

(* A destination is looked for from cycle c on, which is s cycles later    *)
(* than the operation was asked to start; then it is issued.               *)
SelectDestination(src, value, c, late) ==
    IF op_index = info.dst_op
    THEN LET found == {s \in Forward(c) : DestinationRegisters(src, value, s) # {}}
         IN  \/ /\ found = {}
                /\ Throwaway(ctx.cycle + late + Rx_Superscalar_Op_Max_Latency)
             \/ /\ found # {}
                /\ \E dst \in DestinationRegisters(src, value, Min(found)) :
                     \/ /\ ScheduleCycles(Min(found)) = {}
                        /\ Saturated
                     \/ \E s \in ScheduleCycles(Min(found)) : Issue(src, value, dst, s)
    ELSE \/ ScheduleCycles(c) = {} /\ Saturated
         \/ \E s \in ScheduleCycles(c) : Issue(src, value, instruction.dst_register, s)

(* No register would be ready in time: the precheck. *)
NoneReady(c) ==
    /\ op_index \in {info.src_op, info.dst_op}
    /\ AvailableAt(Min({c + Rx_Superscalar_Op_Max_Latency - 1,
                        Rx_Superscalar_Max_Schedule_Cycle - 1})) = {}

(* A source is looked for from cycle c on. *)
SelectSource(c) ==
    IF op_index = info.src_op
    THEN LET s == Min({f \in Forward(c) : AvailableAt(f) # {}})
         IN  \E src \in SourceRegisters(s) :
                SelectDestination(src, IF info.src_register_as_src_value THEN src ELSE Constant,
                                  s, s - c)
    ELSE SelectDestination(instruction.src_register, instruction.src_value, c, 0)

NextMacroOp ==
    /\ stage = "slot"
    /\ slot <= Len(buffer)
    /\ ~ issued
    /\ \/ ScheduleCycles(ctx.cycle) = {} /\ Saturated
       \/ \E c \in ScheduleCycles(ctx.cycle) :
            \/ NoneReady(c) /\ Throwaway(ctx.cycle + 4)
            \/ ~ NoneReady(c) /\ SelectSource(c)

SuperscalarNext ==
    \/ SelectDecodeBuffer
    \/ NextDecodeCycle
    \/ SelectInstruction
    \/ NextMacroOp
    \/ Done
    \/ stage = "done" /\ UNCHANGED superscalarVars

SuperscalarSpec == SuperscalarInit /\ [][SuperscalarNext]_superscalarVars
SuperscalarFairSpec == SuperscalarSpec /\ WF_superscalarVars(SuperscalarNext)

-----------------------------------------------------------------------------
(* The cells that are written: for macro-ops with micro-ops, in the rows   *)
(* of their ports; for those without, up to the last cycle in that of NONE *)
(* and in those behind it.                                                 *)
Cells == {PortCell(p, c) : p \in P015, c \in 0 .. Rx_Superscalar_Max_Schedule_Cycle - 1}
            \union {PortCell("NONE", c) : c \in 0 .. Last_Cycle}

(* Types of the generator's state.  The program array has room for every   *)
(* instruction the loop puts there.  A macro-op without micro-ops may be   *)
(* asked for after throwaways that moved the cycle on, and is written past *)
(* the row of NONE, over cells of the other ports; but never past the      *)
(* table.                                                                  *)
SuperscalarTypeOK ==
    /\ stage \in {"decode", "slot", "done"}
    /\ slot \in 1 .. 5
    /\ instruction \in [type : Types, op_index : 0 .. 3, src_register : Registers \union {-1},
                        src_value : Nat \union {-1}, dst_register : Registers]
    /\ ports \subseteq Cells
    /\ ports \subseteq 0 .. Port_Rows * Rx_Superscalar_Max_Schedule_Cycle - 1
    /\ \A r \in Registers : registers[r].availability_cycle \in Nat
    /\ ctx.throwaway_count \in 0 .. Max_Throwaway_Count
    /\ ctx.program_size \in 0 .. Rx_Superscalar_Max_Program_Size

(* A register is never ready again before the value it already waits for:  *)
(* the full multiplications choose their destination one macro-op before   *)
(* the one that writes it, at a cycle that may be later than that op's.    *)
AvailabilityGrows ==
    [][\A r \in Registers :
         registers'[r] # registers[r] =>
            registers'[r].availability_cycle > registers[r].availability_cycle]_superscalarVars

(* The generator returns a program. *)
GeneratorEnds == <>(stage = "done")
=============================================================================
