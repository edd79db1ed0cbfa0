-------------------------------- MODULE Argon2d --------------------------------
(***************************************************************************)
(* argon2d.cpp: the memory-hard function that fills the cache.             *)
(*                                                                         *)
(* Blocks 0 and 1 are hashes four times as long as blake2b's, made of a    *)
(* chain of overlapping digests.  Every other block, in this and in the    *)
(* later passes, mixes the previous block with a reference block that the  *)
(* previous block's first bytes choose.  The code works the choice out     *)
(* early, inside mixBlocks(), while the block those bytes are part of is   *)
(* still in a temporary.                                                   *)
(*                                                                         *)
(* A block's bytes are abstracted to how often it was written; the xor of  *)
(* blocks is the set of those that occur in it an odd number of times.     *)
(***************************************************************************)
EXTENDS Integers

CONSTANTS
    blocksPerSlice,
    Iterations,     \* Rx_Argon2d_Iterations
    Digests         \* the length of a block in halves of a digest

Sync_Points == 4
blocksPerLane == Sync_Points * blocksPerSlice

ASSUME Argon2dAssumption ==
    /\ blocksPerSlice \in Nat /\ blocksPerSlice >= 2
    /\ Iterations \in Nat \ {0}
    /\ Digests \in Nat /\ Digests >= 2

VARIABLES
    pc,       \* "hash", "hashed", "mix", "finalize", "pass", "done"
    pass,     \* 0: makeFirstPass, later: the round of makeSecondPass
    memory,   \* how often each block was written
    half,     \* blake2b::hash: output, in halves of a digest
    offset,   \* blake2b::hash: halves before out
    ctx,      \* BlockContext
    mixed,    \* the blocks mixBlocks() holds references to
    J1,       \* the blocks whose xor chose ctx.ref_idx
    written   \* the block written last, and its bytes

vars == <<pc, pass, memory, half, offset, ctx, mixed, J1, written>>

-----------------------------------------------------------------------------
Blocks == 0 .. blocksPerLane - 1
Halves == 0 .. Digests - 1
Context(cur, prev, ref) == [cur_idx |-> cur, prev_idx |-> prev, ref_idx |-> ref]

(* "tmp" stands for the permutation of the previous and reference block. *)
Tmp == <<-1, 0>>
Bytes(b) == <<b, memory[b]>>
Xor(S, T) == (S \ T) \union (T \ S)

(* blake2b over two halves: the next digest of the chain when these are the *)
(* two halves of one digest, else something the algorithm does not know.   *)
Digest(left, right) == IF left[1] = right[1] /\ left[2] = 0 /\ right[2] = 1
                       THEN left[1] + 1
                       ELSE 0

Init ==
    /\ pc = "hash"
    /\ pass = 0
    /\ memory = [b \in Blocks |-> 0]
    /\ half = [k \in Halves |-> <<1, k % 2>>]
    /\ offset = 1
    /\ ctx = Context(0, 0, 0)
    /\ mixed = Context(0, 0, 0)
    /\ J1 = {}
    /\ written = [block |-> 0, bytes |-> {}]

(* The last offset of out; variant: one step short. *)
MaxOffsetShort == Digests - 3
MaxOffset == Digests - 2

(* One step of the chain; in and out overlap. *)
HashNext ==
    /\ pc = "hash"
    /\ offset <= MaxOffset
    /\ LET d == Digest(half[offset - 1], half[offset])
       IN half' = [half EXCEPT ![offset] = <<d, 0>>, ![offset + 1] = <<d, 1>>]
    /\ offset' = offset + 1
    /\ UNCHANGED <<pc, pass, memory, ctx, mixed, J1, written>>

HashBlock ==
    /\ pc = "hash"
    /\ offset > MaxOffset
    /\ pc' = "hashed"
    /\ UNCHANGED <<pass, memory, half, offset, ctx, mixed, J1, written>>

(* The block is complete: the second one is hashed, or the third one mixed. *)
StartLane ==
    /\ pc = "hashed"
    /\ memory' = [memory EXCEPT ![ctx.cur_idx] = 1]
    /\ IF ctx.cur_idx = 0
       THEN /\ pc' = "hash"
            /\ ctx' = Context(1, 0, 0)
            /\ half' = [k \in Halves |-> <<1, k % 2>>]
            /\ offset' = 1
       ELSE /\ pc' = "mix"
            /\ ctx' = Context(2, 1, 0)
            /\ UNCHANGED <<half, offset>>
    /\ UNCHANGED <<pass, mixed, J1, written>>

(* The blocks calcRefIndex can choose from for block cur when prev is the  *)
(* one before the previous; variant: the previous block is one of them.    *)
RefIndexesLong(n, cur, prev) ==
    IF n = 0 THEN 0 .. prev + 1
    ELSE LET ref_length == blocksPerLane - blocksPerSlice + (cur % blocksPerSlice)
             shift_index == blocksPerSlice * (((cur \div blocksPerSlice) + 1) % Sync_Points)
         IN {(shift_index + z) % blocksPerLane : z \in 0 .. ref_length - 1}

RefIndexes(n, cur, prev) ==
    IF n = 0 THEN 0 .. prev
    ELSE LET ref_length == blocksPerLane - blocksPerSlice + (cur % blocksPerSlice) - 1
             shift_index == blocksPerSlice * (((cur \div blocksPerSlice) + 1) % Sync_Points)
         IN {(shift_index + z) % blocksPerLane : z \in 0 .. ref_length - 1}

(* What calcRefIndex takes for the first bytes of the block being mixed;   *)
(* variant: without the block it overwrites.                               *)
EarlyBytesFirstPass(c) == Xor(Xor({Bytes(c.prev_idx)}, {Bytes(c.ref_idx)}), {Tmp})
EarlyBytes(c) ==
    LET first == Xor(Xor({Bytes(c.prev_idx)}, {Bytes(c.ref_idx)}), {Tmp})
    IN IF pass = 0 THEN first ELSE Xor(first, {Bytes(c.cur_idx)})

(* prev_idx comes round at the end of the lane. *)
NextPrev(prev) == (prev + 1) % blocksPerLane

(* mixBlocks up to and including calcRefIndex. *)
MixBlocks ==
    /\ pc = "mix"
    /\ mixed' = ctx
    /\ J1' = EarlyBytes(ctx)
    /\ \E ref \in RefIndexes(pass, ctx.cur_idx + 1, ctx.prev_idx) :
          ctx' = Context(ctx.cur_idx + 1, NextPrev(ctx.prev_idx), ref)
    /\ pc' = "finalize"
    /\ UNCHANGED <<pass, memory, half, offset, written>>

(* Variant of Finalize: cur_idx is read after calcRefIndex has moved it on. *)
FinalizeNext ==
    /\ pc = "finalize"
    /\ LET mix == Xor(Xor({Bytes(mixed.prev_idx)}, {Tmp}), {Bytes(mixed.ref_idx)})
       IN written' = [block |-> ctx.cur_idx,
                      bytes |-> IF pass = 0 THEN mix ELSE Xor(mix, {Bytes(mixed.cur_idx)})]
    /\ memory' = [memory EXCEPT ![ctx.cur_idx] = @ + 1]
    /\ pc' = IF ctx.cur_idx < blocksPerLane THEN "mix" ELSE "pass"
    /\ UNCHANGED <<pass, half, offset, ctx, mixed, J1>>

(* The rest of mixBlocks, over the references bound at its start. *)
Finalize ==
    /\ pc = "finalize"
    /\ LET mix == Xor(Xor({Bytes(mixed.prev_idx)}, {Tmp}), {Bytes(mixed.ref_idx)})
       IN written' = [block |-> mixed.cur_idx,
                      bytes |-> IF pass = 0 THEN mix ELSE Xor(mix, {Bytes(mixed.cur_idx)})]
    /\ memory' = [memory EXCEPT ![mixed.cur_idx] = @ + 1]
    /\ pc' = IF ctx.cur_idx < blocksPerLane THEN "mix" ELSE "pass"
    /\ UNCHANGED <<pass, half, offset, ctx, mixed, J1>>

(* Another round of makeSecondPass is due. *)
RoundsLeft(n) == n + 1 < Iterations

(* A round of makeSecondPass begins. *)
NextPass ==
    /\ pc = "pass"
    /\ RoundsLeft(pass)
    /\ pass' = pass + 1
    /\ J1' = IF written.block = blocksPerLane - 1 THEN written.bytes
                                                  ELSE {Bytes(blocksPerLane - 1)}
    /\ \E z \in 0 .. blocksPerLane - blocksPerSlice - 2 :
          ctx' = Context(0, blocksPerLane - 1, blocksPerSlice + z)
    /\ pc' = "mix"
    /\ UNCHANGED <<memory, half, offset, mixed, written>>

Filled ==
    /\ pc = "pass"
    /\ ~ RoundsLeft(pass)
    /\ pc' = "done"
    /\ UNCHANGED <<pass, memory, half, offset, ctx, mixed, J1, written>>

Next ==
    \/ HashNext \/ HashBlock \/ StartLane
    \/ MixBlocks \/ Finalize \/ NextPass \/ Filled
    \/ (pc = "done" /\ UNCHANGED vars)

Spec == Init /\ [][Next]_vars

-----------------------------------------------------------------------------
Argon2dTypeOK ==
    /\ pc \in {"hash", "hashed", "mix", "finalize", "pass", "done"}
    /\ pass \in 0 .. Iterations - 1
    /\ memory \in [Blocks -> 0 .. Iterations]
    /\ offset \in 1 .. Digests
    /\ ctx.cur_idx \in 0 .. blocksPerLane /\ ctx.prev_idx \in Blocks /\ ctx.ref_idx \in Blocks
    /\ mixed.cur_idx \in Blocks /\ mixed.prev_idx \in Blocks /\ mixed.ref_idx \in Blocks

(* The long hash of blake2b::hash is that of the Argon2 paper: the first   *)
(* halves of a chain of digests, and the whole of the last one.            *)
LongHash ==
    pc = "hashed" =>
        half = [k \in Halves |-> IF k = Digests - 1 THEN <<Digests - 1, 1>> ELSE <<k + 1, 0>>]

(* The passes write the lane from its beginning to its end, each block     *)
(* once, and a block is mixed with the one written just before it; at the  *)
(* end every pass has been made.                                           *)
PassOrder ==
    /\ pc = "mix" =>
         /\ ctx.prev_idx = (ctx.cur_idx - 1) % blocksPerLane
         /\ \A b \in Blocks : memory[b] = IF b < ctx.cur_idx THEN pass + 1 ELSE pass
    /\ pc = "done" => \A b \in Blocks : memory[b] = Iterations

(* The blocks the Argon2 paper lets block cur of the only lane refer to:   *)
(* those finished in this pass, and in later passes those of the three     *)
(* slices before the current one, without the block just written.          *)
Slice(b) == b \div blocksPerSlice
Window(n, cur) ==
    {b \in Blocks : /\ b # (cur - 1) % blocksPerLane
                    /\ b < cur \/ (n > 0 /\ Slice(b) # Slice(cur))}

(* The three blocks mixBlocks holds are different ones, so that it does not *)
(* read what it is writing; the one it refers to is of that window and     *)
(* finished, in this pass or the one before as the paper has it.           *)
NoAliasing ==
    pc \in {"mix", "finalize"} =>
        LET c == IF pc = "mix" THEN ctx ELSE mixed
        IN /\ c.ref_idx # c.cur_idx /\ c.ref_idx # c.prev_idx /\ c.prev_idx # c.cur_idx
           /\ c.ref_idx \in Window(pass, c.cur_idx)
           /\ memory[c.ref_idx] = (IF c.ref_idx < c.cur_idx THEN pass + 1 ELSE pass)
           /\ memory[c.ref_idx] > 0

(* The reference block was chosen by the bytes that the previous block     *)
(* really has, although it was not in memory when they were taken.         *)
EarlyBytesRight ==
    pc = "mix" /\ written.bytes # {} => /\ written.block = ctx.prev_idx
                                        /\ written.bytes = J1
=============================================================================
