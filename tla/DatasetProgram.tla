----------------------------- MODULE DatasetProgram -----------------------------
(***************************************************************************)
(* datasetcompiler.cpp: what the code it generates does when it runs.      *)
(*                                                                         *)
(* Four dataset items are computed at a time, one in each lane of YMM8 to  *)
(* YMM15, register k of the item in YMM(8 + k).  After each superscalar    *)
(* program the registers are transposed, so that every vector belongs to   *)
(* one item and can be combined with that item's cache line, and back.     *)
(* The programs are opaque: program i takes the eight words of a lane, if  *)
(* they are those of one item, to those after it.  They use YMM0 to YMM3,  *)
(* and rely on YMM4 and YMM5 for emulated multiplications.  The stack is   *)
(* kept by address, saved registers and local vectors side by side.        *)
(***************************************************************************)
EXTENDS Integers, SequencesExt

CONSTANTS
    Programs,        \* Rx_Cache_Accesses
    Stack_Pointers,  \* what RSP may be when the code is called
    Jobs             \* [start, count]: items of the jobs it is called for

ASSUME DatasetProgramAssumption ==
    /\ Programs \in Nat \ {0} /\ Stack_Pointers \subseteq Nat
    /\ \A j \in Jobs : j.start \in Nat /\ j.count \in Nat \ {0} /\ j.count % 4 = 0

VARIABLES
    lane_pc,           \* the piece of code that comes next
    job,
    address_register,  \* of each program
    lane_i,            \* the program that comes next
    ymm,
    rsi, rdi, r14, r15,
    rsp,
    caller_rsp,        \* ghost: RSP at the call
    stack,             \* from addresses, 8 bytes apart, to what is there
    r10, r13,          \* next item of the submemory, iterations left
    submemory          \* vectors of 32 bytes, two to an item

laneVars == <<lane_pc, job, address_register, lane_i, ymm, rsi, rdi, r14, r15, rsp, caller_rsp,
              stack, r10, r13, submemory>>
pointerVars == <<rsi, rdi, r14, r15>>
stackVars == <<rsp, stack>>
outputVars == <<r10, r13, submemory>>

-----------------------------------------------------------------------------
(* Quadwords: register k of an item after s of the steps (program, cache   *)
(* line, program, ...), numbers, and tokens for the rest.                  *)
ItemWord(n, k, s) == [kind |-> "item", item |-> n, register |-> k, step |-> s]
Number(n) == [kind |-> "number", item |-> n, register |-> 0, step |-> 0]
Token(name) == [kind |-> name, item |-> 0, register |-> 0, step |-> 0]

Lane_Positions == 0 .. 3
All(word) == [p \in Lane_Positions |-> word]
AddWord(a, b) ==
    IF a.kind = "number" /\ b.kind = "number" THEN Number(a.item + b.item) ELSE Token("junk")
AddVectors(a, b) == [p \in Lane_Positions |-> AddWord(a[p], b[p])]

(* The four instructions that move quadwords about. *)
Vpunpcklqdq(a, b) == [p \in Lane_Positions |-> IF p % 2 = 0 THEN a[p] ELSE b[p - 1]]
Vpunpckhqdq(a, b) == [p \in Lane_Positions |-> IF p % 2 = 0 THEN a[p + 1] ELSE b[p]]
Vperm0x20(a, b) == [p \in Lane_Positions |-> IF p < 2 THEN a[p] ELSE b[p - 2]]
Vperm0x31(a, b) == [p \in Lane_Positions |-> IF p < 2 THEN a[p + 2] ELSE b[p]]

(* What f holds, and elsewhere what was there before. *)
Over(f, before) ==
    [x \in DOMAIN f \union DOMAIN before |-> IF x \in DOMAIN f THEN f[x] ELSE before[x]]

(* Vectors on the stack. *)
StackVector(offset) == [p \in Lane_Positions |-> stack[rsp + offset + 8 * p]]
Stored(offset, vector) ==
    [a \in {rsp + offset + 8 * p : p \in Lane_Positions} |-> vector[(a - rsp - offset) \div 8]]

-----------------------------------------------------------------------------
LaneInit ==
    /\ lane_pc = "save"
    /\ job \in Jobs
    /\ address_register \in [0 .. Programs - 2 -> 0 .. 7]
    /\ lane_i = 0
    /\ ymm = [n \in 0 .. 15 |-> All(Token("caller"))]
    /\ rsi = Token("caller") /\ rdi = Token("caller")
    /\ r14 = Token("caller") /\ r15 = Token("caller")
    /\ rsp \in Stack_Pointers
    /\ caller_rsp = rsp
    /\ stack = << >>
    /\ r10 = 0 /\ r13 = 0
    /\ submemory = [v \in 0 .. 2 * job.count - 1 |-> All(Token("empty"))]

(* push: general purpose registers one by one, then all XMM registers, the *)
(* first of them on top; pop is called with the registers in reverse.      *)
Pushed == <<"rbx", "rsi", "rdi", "r13", "r14", "r15">>
PushedXmm == <<"xmm6", "xmm7", "xmm8", "xmm9", "xmm10", "xmm11", "xmm12", "xmm13", "xmm14",
               "xmm15">>
PushSize == 8 * Len(Pushed) + 16 * Len(PushedXmm)

SaveAll ==
    /\ lane_pc = "save"
    /\ lane_pc' = "align"
    /\ rsp' = rsp - PushSize
    /\ stack' = Over([a \in {rsp - 8 * i : i \in DOMAIN Pushed} |->
                         Token(Pushed[(rsp - a) \div 8])],
                     [a \in {rsp' + 16 * (Len(PushedXmm) - i) : i \in DOMAIN PushedXmm} |->
                         Token(PushedXmm[Len(PushedXmm) - ((a - rsp') \div 16)])])
    /\ UNCHANGED <<job, address_register, lane_i, ymm, pointerVars, caller_rsp, outputVars>>

(* alignStack, and room for the local vectors; variant: the 56 bytes below *)
(* the pushed amount are left out.                                         *)
AlignedNoRoom == rsp - (rsp % 64) - 8
Aligned == rsp - (rsp % 64) - 8 - 56
Local_Size == 128

AlignStack ==
    /\ lane_pc = "align"
    /\ lane_pc' = "set_up"
    /\ rsp' = Aligned - Local_Size
    /\ stack' = Over([a \in {rsp - (rsp % 64) - 8} |-> Number(rsp % 64)], stack)
    /\ UNCHANGED <<job, address_register, lane_i, ymm, pointerVars, caller_rsp, outputVars>>

(* Indexes of cache items start with the first item of the job, those of   *)
(* ymmitem0 with the one after it.                                         *)
SetUp ==
    LET numbers == AddVectors(All(Number(job.start)), [p \in Lane_Positions |-> Number(p + 1)])
        indexes == AddVectors(numbers, All(Number(-1)))
    IN  /\ lane_pc = "set_up"
        /\ lane_pc' = "load_item"
        /\ ymm' = [ymm EXCEPT ![0] = All(Number(4)), ![3] = indexes, ![4] = All(Number(1)),
                              ![5] = numbers, ![6] = All(Token("cache")), ![7] = numbers]
        /\ stack' = Over(Stored(0, indexes), Over(Stored(32, All(Token("cache_mask"))),
                      Over(Stored(64, All(Number(4))), Over(Stored(96, All(Number(4))), stack))))
        /\ r10' = 0
        /\ r13' = job.count \div 4
        /\ UNCHANGED <<job, address_register, lane_i, pointerVars, rsp, caller_rsp, submemory>>

(* Register k: ymmitem0 combined with the k-th constant of the data, where *)
(* two vectors precede the constants; RBX is at 192.                       *)
Constant(offset) == (192 + offset) \div 32 - 1
InitialWord(word, k) ==
    IF word.kind = "number" THEN ItemWord(word.item - 1, k, 0) ELSE Token("junk")

LoadItem ==
    /\ lane_pc = "load_item"
    /\ lane_pc' = "fetch"
    /\ lane_i' = 0
    /\ ymm' = [n \in 0 .. 15 |->
                 IF n < 8 THEN ymm[n]
                 ELSE LET k == IF n = 8 THEN 0 ELSE Constant(-128 + 32 * (n - 9))
                      IN  [p \in Lane_Positions |-> InitialWord(ymm[7][p], k)]]
    /\ UNCHANGED <<job, address_register, pointerVars, stackVars, caller_rsp, outputVars>>

(* A pointer stands for the word it was made from. *)
Pointer(word, mask, base) ==
    IF mask = Token("cache_mask") /\ base = Token("cache") THEN word ELSE Token("junk")

FetchCache ==
    LET indexes == IF lane_i = 0 THEN ymm[3] ELSE ymm[8 + address_register[lane_i - 1]]
        mask == StackVector(32)
        pointers == [p \in Lane_Positions |-> Pointer(indexes[p], mask[p], ymm[6][p])]
    IN  /\ lane_pc = "fetch"
        /\ lane_pc' = "program"
        /\ ymm' = [ymm EXCEPT ![0] = pointers, ![5] = All(Token("zero")),
                              ![4] = All(Token("lower_half")),
                              ![1] = [p \in Lane_Positions |-> IF p < 2 THEN pointers[p + 2]
                                                          ELSE Token("zero")]]
        /\ rsi' = pointers[0]
        /\ r14' = pointers[1]
        /\ rdi' = pointers[2]
        /\ r15' = pointers[3]
        /\ UNCHANGED <<job, address_register, lane_i, stackVars, caller_rsp, outputVars>>

(* The words of one item at the right step, in the right registers. *)
Together(p) ==
    \A k \in 0 .. 7 : ymm[8 + k][p] = ItemWord(ymm[8][p].item, k, 2 * lane_i)

RunSuperscalar ==
    /\ lane_pc = "program"
    /\ lane_pc' = "low_half"
    /\ ymm' = [n \in 0 .. 15 |->
                 [p \in Lane_Positions |->
                    IF n < 4 THEN Token("junk")
                    ELSE IF n < 8 THEN ymm[n][p]
                    ELSE IF Together(p) /\ ymm[4][p] = Token("lower_half")
                            /\ ymm[5][p] = Token("zero")
                    THEN ItemWord(ymm[8][p].item, n - 8, 2 * lane_i + 1)
                    ELSE Token("junk")]]
    /\ UNCHANGED <<job, address_register, lane_i, pointerVars, stackVars, caller_rsp,
                   outputVars>>

(* The cache line of an item: the first is that of its number, the others  *)
(* those of the address register of the program before.                    *)
CacheLine(n) ==
    IF lane_i = 0 THEN Number(n) ELSE ItemWord(n, address_register[lane_i - 1], 2 * lane_i)

XorWord(word, pointer, k) ==
    IF word = ItemWord(word.item, k, 2 * lane_i + 1) /\ pointer = CacheLine(word.item)
    THEN ItemWord(word.item, k, 2 * lane_i + 2) ELSE Token("junk")
XorLine(vector, pointer, half) ==
    [p \in Lane_Positions |-> XorWord(vector[p], pointer, 4 * half + p)]

(* Registers 0 to 3 (half 0) or 4 to 7: transposed, combined with the cache *)
(* lines, transposed back but for the last program.                         *)
Transpose(half) ==
    LET n == 8 + 4 * half
        even == <<Vpunpcklqdq(ymm[n], ymm[n + 1]), Vpunpcklqdq(ymm[n + 2], ymm[n + 3])>>
        odd == <<Vpunpckhqdq(ymm[n], ymm[n + 1]), Vpunpckhqdq(ymm[n + 2], ymm[n + 3])>>
        a == XorLine(Vperm0x20(even[1], even[2]), rsi, half)
        c == XorLine(Vperm0x31(even[1], even[2]), rdi, half)
        b == XorLine(Vperm0x20(odd[1], odd[2]), r14, half)
        d == XorLine(Vperm0x31(odd[1], odd[2]), r15, half)
        low == <<Vpunpcklqdq(a, b), Vpunpcklqdq(c, d)>>
        high == <<Vpunpckhqdq(a, b), Vpunpckhqdq(c, d)>>
        result == IF lane_i = Programs - 1 THEN <<a, b, c, d>>
                  ELSE <<Vperm0x20(low[1], low[2]), Vperm0x20(high[1], high[2]),
                         Vperm0x31(low[1], low[2]), Vperm0x31(high[1], high[2])>>
    IN  ymm' = [m \in 0 .. 15 |-> IF m < 6 THEN All(Token("junk"))
                                  ELSE IF m \in n .. n + 3 THEN result[m - n + 1] ELSE ymm[m]]

TransposeLow ==
    /\ lane_pc = "low_half"
    /\ lane_pc' = "high_half"
    /\ Transpose(0)
    /\ UNCHANGED <<job, address_register, lane_i, pointerVars, stackVars, caller_rsp,
                   outputVars>>

TransposeHigh ==
    /\ lane_pc = "high_half"
    /\ lane_pc' = IF lane_i = Programs - 1 THEN "store" ELSE "fetch"
    /\ lane_i' = lane_i + 1
    /\ Transpose(1)
    /\ UNCHANGED <<job, address_register, pointerVars, stackVars, caller_rsp, outputVars>>

(* The registers in the order they are stored, items one after the other.  *)
Store_Order == <<8, 12, 9, 13, 10, 14, 11, 15>>

(* The indexes of the next four items; variant: not loaded from the stack. *)
NextIndexesKept == AddVectors(ymm[3], StackVector(96))
NextIndexes == AddVectors(StackVector(0), StackVector(96))

StoreItems ==
    /\ lane_pc = "store"
    /\ submemory' = Over([v \in 2 * r10 .. 2 * r10 + 7 |-> ymm[Store_Order[v - 2 * r10 + 1]]],
                         submemory)
    /\ ymm' = [ymm EXCEPT ![7] = AddVectors(ymm[7], StackVector(64)), ![3] = NextIndexes]
    /\ stack' = Over(Stored(0, NextIndexes), stack)
    /\ r10' = r10 + 4
    /\ r13' = r13 - 1
    /\ lane_pc' = IF r13 = 1 THEN "return" ELSE "load_item"
    /\ UNCHANGED <<job, address_register, lane_i, pointerVars, rsp, caller_rsp>>

(* unalignStack takes the amount off the stack; the registers are popped   *)
(* in Restored.                                                            *)
Return ==
    /\ lane_pc = "return"
    /\ lane_pc' = "returned"
    /\ LET pad == stack[rsp + Local_Size + 56]
       IN  rsp' = rsp + Local_Size + 56 + 8 + pad.item
    /\ UNCHANGED <<job, address_register, lane_i, ymm, pointerVars, caller_rsp, stack,
                   outputVars>>

(* pop: XMM registers upwards from RSP in the order of the arguments, then *)
(* the general purpose registers.                                          *)
Popped == Reverse(Pushed)
PoppedXmm == Reverse(PushedXmm)
RestoredXmm(i) == stack[rsp + 16 * (i - 1)]
Restored(i) == stack[rsp + 16 * Len(PoppedXmm) + 8 * (i - 1)]

LaneNext ==
    \/ SaveAll \/ AlignStack \/ SetUp \/ LoadItem \/ FetchCache \/ RunSuperscalar
    \/ TransposeLow \/ TransposeHigh \/ StoreItems \/ Return
    \/ (lane_pc = "returned" /\ UNCHANGED laneVars)

LaneSpec == LaneInit /\ [][LaneNext]_laneVars

-----------------------------------------------------------------------------
(* Every item of the job that has been stored holds its own eight words in *)
(* order, each after all programs and combined with the lines of this      *)
(* item; and nothing is written outside of the submemory.                  *)
ItemsInPlace ==
    /\ \A n \in 0 .. r10 - 1, k \in 0 .. 7 :
          submemory[2 * n + k \div 4][k % 4] = ItemWord(job.start + n, k, 2 * Programs)
    /\ DOMAIN submemory = 0 .. 2 * job.count - 1
    /\ lane_pc = "returned" => r10 = job.count

(* The vectors on the stack are aligned for the instructions that use      *)
(* them, and on return the caller finds its registers and RSP as they      *)
(* were.                                                                   *)
StackBalanced ==
    /\ lane_pc \notin {"save", "align", "returned"} => rsp % 32 = 0
    /\ lane_pc = "returned" =>
         /\ \A i \in DOMAIN PoppedXmm : RestoredXmm(i) = Token(PoppedXmm[i])
         /\ \A i \in DOMAIN Popped : Restored(i) = Token(Popped[i])
         /\ rsp + PushSize = caller_rsp
=============================================================================
