-------------------------------- MODULE Encoding --------------------------------
(***************************************************************************)
(* assembler.hpp, assemblerdef.hpp: how the operands of an instruction are *)
(* put into its bits, for the instructions datasetcompiler.cpp asks for.   *)
(*                                                                         *)
(* An operand has a role: that of ModRM.reg, of vvvv, or of ModRM.rm,      *)
(* which is a register or memory.  The encoder spreads a register over     *)
(* three bits of one byte and a fourth bit of a prefix, which some         *)
(* prefixes hold inverted and the shortest does not hold at all.  An       *)
(* encoded instruction is the record of its fields; Decoded reads it as    *)
(* the processor's manual tells.  Immediate operands are copied after      *)
(* these fields and are left out, as are the instructions without operands *)
(* (vzeroupper, ret) and the jump, which DatasetCompiler models.            *)
(***************************************************************************)
EXTENDS Integers

CONSTANTS
    Vectors,  \* registers that are asked for
    Offsets   \* displacements of memory operands

(* The numbers of four bytes, the last of which has the sign. *)
Int32 == {n \in Int : ((n \div 256) \div 256) \div 256 \in -128 .. 127}

ASSUME EncodingAssumption == Vectors \subseteq 0 .. 15 /\ Offsets \subseteq Int32

VARIABLES request, encoded
encodingVars == <<request, encoded>>

-----------------------------------------------------------------------------
(* Requests. *)
Register(n) == [memory |-> FALSE, base |-> n, index |-> -1, offset |-> 0]
Memory(n, offset) == [memory |-> TRUE, base |-> n, index |-> -1, offset |-> offset]
RCX == 1  RBX == 3  RSP == 4  RBP == 5  RSI == 6  RDI == 7  R10 == 10  R14 == 14  R15 == 15

Request(form, map, reg, vvvv, rm) ==
    [form |-> form, map |-> map, reg |-> reg, vvvv |-> vvvv, rm |-> rm]

(* Each form is one function of the assembler; reg is a register or the    *)
(* extension of the opcode, vvvv is 0 where there is no such operand.      *)
ThreeVectors ==  \* vpaddq, vpsubq, vpand, vpxor, vpmuludq, vpunpck.; vpcmpeqq and vpcmpgtq
    {Request("vex_rrr", m, d, s, Register(t)) :
        m \in {"0F", "0F38"}, d \in Vectors, s \in Vectors, t \in Vectors}
TwoVectorsAndMemory ==  \* with a constant, a local vector or a cache line
    {Request("vex_rrm", "0F", d, s, Memory(b, o)) :
        d \in Vectors, s \in Vectors, b \in {RSP, RBX, RSI, RDI, R14, R15}, o \in Offsets}
Moves ==  \* vmovdqa, vmovdqu (of push and pop too), vmovntdq; between registers, vpbroadcastq
    {Request("vex_rm", "0F", d, 0, Memory(b, o)) : d \in Vectors, b \in {RSP, R10}, o \in Offsets}
    \union {Request("vex_rr", m, d, 0, Register(s)) :
        m \in {"0F", "0F38"}, d \in Vectors, s \in Vectors}
Shifts ==  \* vpsrlq, vpsllq
    {Request("vex_xri", "0F", 6, d, Register(s)) : d \in Vectors, s \in Vectors}
Shuffles ==  \* vpshufd; vextracti128
    {Request("vex_rri", "0F", d, 0, Register(s)) : d \in {1, 2}, s \in Vectors}
    \union {Request("vex_rri", "0F3A", d, 0, Register(s)) : d \in Vectors, s \in Vectors}
Permutations ==  \* vperm2i128
    {Request("vex_rrri", "0F3A", d, s, Register(t)) :
        d \in Vectors, s \in Vectors, t \in Vectors}
Transfers ==  \* vmovq to and from a general purpose register, vpextrq
    {Request("vex_long", m, d, 0, Register(s)) :
        m \in {"0F", "0F3A"}, d \in Vectors, s \in Vectors}
Multiplications ==  \* vpmullq; vprorq
    {Request("evex", "0F38", d, s, Register(t)) :
        d \in Vectors, s \in Vectors, t \in Vectors}
    \union {Request("evex", "0F38", d, s, Memory(RBX, 32 * o)) :
        d \in Vectors, s \in Vectors, o \in -4 .. 3}
    \union {Request("evex_xri", "0F", 0, d, Register(d)) : d \in Vectors}
GeneralPurpose ==  \* mov, add, sub, and; with an immediate, and shr; from memory
    {Request("rex", "none", d, 0, Register(s)) : d \in Vectors, s \in Vectors}
    \union {Request("rex_xi", "none", e, 0, Register(d)) : e \in {0, 4, 5}, d \in Vectors}
    \union {Request("rex", "none", d, 0, Memory(RCX, o)) : d \in Vectors, o \in {0, 8}}
Prefetches == {Request("rex", "0F", 0, 0, Memory(b, 0)) : b \in {RSI, RDI, R14, R15}}
RegistersInOpcode ==  \* push, pop; mov of a 32 or 64-bit immediate
    {Request("opcode_r", "none", 0, 0, Register(n)) : n \in Vectors}

Requests ==
    ThreeVectors \union TwoVectorsAndMemory \union Moves \union Shifts \union Shuffles
    \union Permutations \union Transfers \union Multiplications \union GeneralPurpose
    \union Prefetches \union RegistersInOpcode

-----------------------------------------------------------------------------
(* Fields.  A two-byte prefix has neither x nor b: they read as one. *)
IsLow(n) == IF n < 8 THEN 1 ELSE 0
IsHigh(n) == 1 - IsLow(n)
LowIdx(n) == n % 8

Vex2(r, src) == [kind |-> "vex", map |-> "0F", r |-> r, x |-> 1, b |-> 1, v |-> 15 - src]
Vex3(map, r, b, src) == [kind |-> "vex", map |-> map, r |-> r, x |-> 0, b |-> b, v |-> 15 - src]
Evex(map, r, b, src) == [kind |-> "evex", map |-> map, r |-> r, x |-> 1, b |-> b, v |-> 15 - src]
Rex(map, r, x, b) == [kind |-> "rex", map |-> map, r |-> r, x |-> x, b |-> b, v |-> 15]

NoSib == [present |-> FALSE, index |-> 0, base |-> 0]
ModRegRm(reg, rm) == [mod |-> 3, reg |-> reg, rm |-> rm, sib |-> NoSib, disp |-> <<0, 0>>]

Quotient(a, b) == IF a < 0 THEN -((-a) \div b) ELSE a \div b

(* addr: a displacement is its number of bytes and their value, the sign   *)
(* of which is that of the last one.  Their number follows from the scaled *)
(* offset, ModRM.mod from the one asked for.  Variant of the test: one too *)
(* many.                                                                   *)
FitsByteAndOne(n) == n \in -128 .. 128
FitsByte(n) == n \in -128 .. 127
Displacement(n) == IF FitsByte(n) THEN <<1, ((n + 128) % 256) - 128>> ELSE <<4, n>>

Addr(reg, m, vecsize) ==
    LET base == LowIdx(m.base)
        offset == Quotient(m.offset, vecsize)
    IN  [mod |-> IF m.offset = 0 /\ base # RBP THEN 0
                 ELSE IF FitsByte(m.offset) THEN 1 ELSE 2,
         reg |-> reg % 8,
         rm |-> base,
         sib |-> IF base = RSP THEN [present |-> TRUE, index |-> RSP, base |-> base] ELSE NoSib,
         disp |-> IF offset = 0 /\ base # RBP THEN <<0, 0>> ELSE Displacement(offset)]

(* Where the opcode itself holds the register, its three bits are rm's. *)
Operand(reg, rm, vecsize) ==
    IF rm.memory THEN Addr(reg, rm, vecsize) ELSE ModRegRm(LowIdx(reg), LowIdx(rm.base))

(* When the two-byte prefix will do for three vector registers; variant:   *)
(* only the operand without a bit in it is looked at.                      *)
ShortThreeSrcOnly(q) == q.map = "0F" /\ IsLow(q.rm.base) = 1
ShortThree(q) == q.map = "0F" /\ IsLow(q.rm.base) = 1 /\ IsLow(q.reg) = 1

(* Otherwise it has to have a lower register in rm. *)
Short(q) == q.map = "0F" /\ IsLow(q.rm.base) = 1

(* The first bit of a prefix is that of the register in ModRM.reg, or of   *)
(* the destination where an extension of the opcode stands in its place.   *)
LongVex(q) == Vex3(q.map, IsLow(q.reg), IsLow(q.rm.base), q.vvvv)
ThreeRegisterVex(q) == IF ShortThree(q) THEN Vex2(1, q.vvvv) ELSE LongVex(q)
MemoryVex(q) == IF Short(q) THEN Vex2(IsLow(q.reg), q.vvvv) ELSE LongVex(q)
TwoOperandVex(q) == IF Short(q) THEN Vex2(IsLow(q.reg), 0) ELSE LongVex(q)
ImmediateVex(q) ==
    LET destination == IF q.form = "vex_xri" THEN q.vvvv ELSE q.reg
    IN  IF Short(q) THEN Vex2(1, q.vvvv)
        ELSE Vex3(q.map, IsLow(destination), IsLow(q.rm.base), q.vvvv)
ThreeOperandEvex(q) == Evex(q.map, IsLow(q.reg), IsLow(q.rm.base), q.vvvv)
ImmediateEvex(q) == Evex(q.map, IsLow(q.vvvv), IsLow(q.rm.base), q.rm.base)

(* push and pop leave a prefix of zeros out. *)
OneRegisterRex(q) == Rex(q.map, 0, 0, IsHigh(q.rm.base))

Prefix(q) ==
    CASE q.form = "vex_rrr" -> ThreeRegisterVex(q)
      [] q.form = "vex_rrm" -> MemoryVex(q)
      [] q.form \in {"vex_rr", "vex_rm"} -> TwoOperandVex(q)
      [] q.form \in {"vex_rri", "vex_xri"} -> ImmediateVex(q)
      [] q.form \in {"vex_rrri", "vex_long"} -> LongVex(q)
      [] q.form = "evex" -> ThreeOperandEvex(q)
      [] q.form = "evex_xri" -> ImmediateEvex(q)
      [] q.form = "rex" -> Rex(q.map, IsHigh(q.reg), 0, IsHigh(q.rm.base))
      [] q.form \in {"rex_xi", "opcode_r"} -> OneRegisterRex(q)

Encode(q) == [prefix |-> Prefix(q),
              operand |-> Operand(q.reg, q.rm, IF q.form = "evex" THEN 32 ELSE 1)]

-----------------------------------------------------------------------------
(* The processor: prefixes other than REX are inverted; an index of 4 is   *)
(* none; the displacement's size follows from mod, its unit from the       *)
(* prefix.                                                                 *)
Bit(prefix, field) == IF prefix.kind = "rex" THEN prefix[field] ELSE 1 - prefix[field]

DecodedRm(p, o) ==
    LET size == CASE o.mod = 0 -> 0 [] o.mod = 1 -> 1 [] OTHER -> 4
        unit == IF p.kind = "evex" THEN 32 ELSE 1
        index == o.sib.index + 8 * Bit(p, "x")
    IN  IF o.mod = 3
        THEN Register(o.rm + 8 * Bit(p, "b") + (IF p.kind = "evex" THEN 16 * Bit(p, "x") ELSE 0))
        ELSE [memory |-> o.disp[1] = size /\ (o.rm = 4) = o.sib.present
                         /\ ~ (o.mod = 0 /\ o.rm = 5),
              base |-> (IF o.rm = 4 THEN o.sib.base ELSE o.rm) + 8 * Bit(p, "b"),
              index |-> IF ~ o.sib.present \/ index = 4 THEN -1 ELSE index,
              offset |-> o.disp[2] * (IF size = 1 THEN unit ELSE 1)]

(* Forms without a register in ModRM.reg: the prefix's bit is not read. *)
RegUnused == {"vex_xri", "evex_xri", "rex_xi", "opcode_r"}

Decoded(form, e) ==
    Request(form, e.prefix.map,
            e.operand.reg + (IF form \in RegUnused THEN 0 ELSE 8 * Bit(e.prefix, "r")),
            15 - e.prefix.v, DecodedRm(e.prefix, e.operand))

-----------------------------------------------------------------------------
EncodingInit == request \in Requests /\ encoded = <<>>

EmitInstruction ==
    /\ encoded = <<>>
    /\ encoded' = <<Encode(request)>>
    /\ UNCHANGED request

EncodingNext == EmitInstruction \/ (encoded # <<>> /\ UNCHANGED encodingVars)

EncodingSpec == EncodingInit /\ [][EncodingNext]_encodingVars

(* The processor finds the operands that were asked for: no register is    *)
(* taken for the one eight below or above it, no displacement is read with *)
(* another size or unit, no index register appears.                        *)
DecodesAsAsked == encoded # <<>> => Decoded(request.form, encoded[1]) = request
=============================================================================
