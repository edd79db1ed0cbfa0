------------------------------- MODULE Arithmetic -------------------------------
(***************************************************************************)
(* The multiplications AVX2 does not have (assembler.hpp, vpmulhuq and     *)
(* vpmulhq).  A word of 64 bits has 2 * Half_Width bits here.              *)
(*                                                                         *)
(* The high half of a product is put together from four products of half   *)
(* words, instruction by instruction, in four registers that are written   *)
(* again and again; the destination may be one of the factors, and the     *)
(* source the same register.                                               *)
(***************************************************************************)
EXTENDS Integers, Sequences

CONSTANT Half_Width  \* 32

ASSUME ArithmeticAssumption == Half_Width \in Nat \ {0}

VARIABLES
    instructions,  \* still to be executed
    lane,          \* one quadword of each register
    factors        \* ghost: the operation and its operands

arithmeticVars == <<instructions, lane, factors>>

-----------------------------------------------------------------------------
Half == 2 ^ Half_Width
Word == Half * Half

(* Instructions are <<opcode, destination, first source, second source>>.  *)
(* vpshufd is called with 0xb1, vpsrlq with the width of half a word.      *)
Vpmulhuq(dst, src1, src2) == <<
    <<"vpshufd", "ymm1", src1, src1>>,
    <<"vpshufd", "ymm2", src2, src2>>,
    <<"vpmuludq", "ymm3", src1, src2>>,
    <<"vpmuludq", "ymm0", "ymm1", "ymm2">>,
    <<"vpmuludq", "ymm2", src1, "ymm2">>,
    <<"vpsrlq", "ymm3", "ymm3", "ymm3">>,
    <<"vpaddq", "ymm3", "ymm3", "ymm2">>,
    <<"vpand", "ymm2", "ymm3", "ymm4">>,
    <<"vpmuludq", "ymm1", src2, "ymm1">>,
    <<"vpsrlq", "ymm3", "ymm3", "ymm3">>,
    <<"vpaddq", "ymm0", "ymm0", "ymm3">>,
    <<"vpaddq", "ymm2", "ymm2", "ymm1">>,
    <<"vpsrlq", "ymm2", "ymm2", "ymm2">>,
    <<"vpaddq", dst, "ymm0", "ymm2">>>>

Vpmulhq(dst, src) == Vpmulhuq("ymm2", dst, src) \o <<
    <<"vpcmpgtq", "ymm0", "ymm5", dst>>,
    <<"vpand", "ymm0", src, "ymm0">>,
    <<"vpsubq", "ymm2", "ymm2", "ymm0">>,
    <<"vpcmpgtq", "ymm1", "ymm5", src>>,
    <<"vpand", "ymm1", dst, "ymm1">>,
    <<"vpsubq", dst, "ymm2", "ymm1">>>>

(* YMM4 when a superscalar program starts; variant: not shifted. *)
LowerHalfUnshifted == Word - 1
LowerHalf == (Word - 1) \div Half

(* The processor. *)
Signed(a) == IF a >= Word \div 2 THEN a - Word ELSE a
Execute(opcode, a, b) ==
    CASE opcode = "vpshufd" -> (a % Half) * Half + a \div Half
      [] opcode = "vpmuludq" -> (a % Half) * (b % Half)
      [] opcode = "vpsrlq" -> a \div Half
      [] opcode = "vpaddq" -> (a + b) % Word
      [] opcode = "vpsubq" -> (a - b) % Word
      [] opcode = "vpcmpgtq" -> IF Signed(a) > Signed(b) THEN Word - 1 ELSE 0
      [] opcode = "vpand" -> a % (b + 1)  \* b is a mask of lower bits

ArithmeticInit ==
    \E signed, same \in BOOLEAN, a, b \in 0 .. Word - 1 :
        LET src == IF same THEN "dst" ELSE "src"
        IN  /\ same => a = b
            /\ factors = [signed |-> signed, dst |-> a, src |-> b, from |-> src]
            /\ instructions = IF signed THEN Vpmulhq("dst", src) ELSE Vpmulhuq("dst", "dst", src)
            /\ lane = [dst |-> a, src |-> b, ymm0 |-> 0, ymm1 |-> 0, ymm2 |-> 0, ymm3 |-> 0,
                       ymm4 |-> LowerHalf, ymm5 |-> 0]

Compute ==
    LET i == Head(instructions)
    IN  /\ instructions # <<>>
        /\ instructions' = Tail(instructions)
        /\ lane' = [lane EXCEPT ![i[2]] = Execute(i[1], lane[i[3]], lane[i[4]])]
        /\ UNCHANGED factors

ArithmeticNext == Compute \/ (instructions = <<>> /\ UNCHANGED arithmeticVars)

ArithmeticSpec == ArithmeticInit /\ [][ArithmeticNext]_arithmeticVars

-----------------------------------------------------------------------------
(* The destination ends up with the upper half of the whole product of the *)
(* two factors, unsigned or signed, whichever registers they were in, and  *)
(* the source with what it had.                                            *)
HighHalf ==
    instructions = <<>> =>
        /\ lane.dst = IF factors.signed
                      THEN ((Signed(factors.dst) * Signed(factors.src)) \div Word) % Word
                      ELSE (factors.dst * factors.src) \div Word
        /\ factors.from = "src" => lane.src = factors.src
=============================================================================
