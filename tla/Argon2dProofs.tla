----------------------------- MODULE Argon2dProofs -----------------------------
(***************************************************************************)
(* Proofs about Argon2d, for slices of any size, any number of passes and  *)
(* long hashes of any length: the long hash, the order of the passes, the  *)
(* reference blocks, and the bytes that choose them early.                 *)
(*                                                                         *)
(* Each part of the invariant says what is known at each point of the      *)
(* code.  Divisions by the size of a slice are done by cases, one for each *)
(* of the four slices.                                                     *)
(***************************************************************************)
EXTENDS Argon2d, TLAPS

-----------------------------------------------------------------------------
(* Arithmetic. *)

LEMMA Sizes ==
  /\ blocksPerLane \in Nat /\ blocksPerLane = 4 * blocksPerSlice /\ blocksPerLane >= 8
  /\ blocksPerSlice \in Nat /\ blocksPerSlice >= 2
BY Argon2dAssumption DEF blocksPerLane, Sync_Points

LEMMA DivMod ==
  ASSUME NEW n \in Nat \ {0}, NEW a \in Int, NEW q \in Int, q * n <= a, a < q * n + n
  PROVE  a \div n = q /\ a % n = a - q * n
<1> DEFINE d == a \div n
           m == a % n
<1>1. d \in Int /\ m \in Int /\ a = d * n + m /\ 0 <= m /\ m < n
  BY SMT
<1> HIDE DEF d, m
<1>2. \A b, c \in Int : b < c => b * n + n <= c * n
  <2> SUFFICES ASSUME NEW b \in Int, NEW c \in Int, b < c PROVE b * n + n <= c * n
    OBVIOUS
  <2>1. PICK e \in Nat : c = b + 1 + e
    <3>1. c - b - 1 \in Nat /\ c = b + 1 + (c - b - 1)
      OBVIOUS
    <3> QED BY <3>1
  <2>2. c * n = b * n + n + e * n /\ e * n \in Nat /\ b * n \in Int
    BY <2>1
  <2> QED BY <2>2
<1>3. d * n \in Int /\ q * n \in Int
  BY <1>1
<1>4. ~ (d < q) /\ ~ (q < d)
  BY <1>1, <1>2, <1>3
<1>5. d = q
  BY <1>1, <1>4
<1>6. m = a - q * n
  BY <1>1, <1>3, <1>5
<1> QED BY <1>5, <1>6 DEF d, m

(* The remainder of what is less than two lanes long. *)
LEMMA ModLane ==
  ASSUME NEW a \in Int
  PROVE  /\ a \in Blocks => a % blocksPerLane = a
         /\ a - blocksPerLane \in Blocks => a % blocksPerLane = a - blocksPerLane
         /\ a = -1 => a % blocksPerLane = blocksPerLane - 1
<1> DEFINE n == blocksPerLane
<1>0. n \in Nat \ {0}
  BY Sizes
<1>1. ASSUME a \in Blocks PROVE a % n = a
  <2>1. 0 * n <= a /\ a < 0 * n + n
    BY <1>0, <1>1 DEF Blocks
  <2>2. a % n = a - 0 * n
    <3>1. 0 \in Int
      OBVIOUS
    <3> HIDE DEF n
    <3> QED BY <1>0, <2>1, <3>1, DivMod, Zenon
  <2> QED BY <1>0, <2>2
<1>2. ASSUME a - n \in Blocks PROVE a % n = a - n
  <2>1. 1 * n <= a /\ a < 1 * n + n
    BY <1>0, <1>2 DEF Blocks
  <2>2. a % n = a - 1 * n
    <3>1. 1 \in Int
      OBVIOUS
    <3> HIDE DEF n
    <3> QED BY <1>0, <2>1, <3>1, DivMod, Zenon
  <2> QED BY <1>0, <2>2
<1>3. ASSUME a = -1 PROVE a % n = n - 1
  <2>1. (-1) * n <= a /\ a < (-1) * n + n
    BY <1>0, <1>3
  <2>2. a % n = a - (-1) * n
    <3>1. (-1) \in Int
      OBVIOUS
    <3> HIDE DEF n
    <3> QED BY <1>0, <2>1, <3>1, DivMod, Zenon
  <2> QED BY <1>0, <1>3, <2>2
<1> QED BY <1>1, <1>2, <1>3, Zenon DEF n

LEMMA InSlice ==
  ASSUME NEW b \in Int, NEW q \in Int, q * blocksPerSlice <= b, b < q * blocksPerSlice + blocksPerSlice
  PROVE  Slice(b) = q /\ b % blocksPerSlice = b - q * blocksPerSlice
<1>1. blocksPerSlice \in Nat \ {0}
  BY Sizes
<1> QED BY <1>1, DivMod, Zenon DEF Slice

(* Which slice a block is in. *)
LEMMA FourSlices ==
  ASSUME NEW b \in Blocks
  PROVE  \E q \in 0 .. 3 : q * blocksPerSlice <= b /\ b < q * blocksPerSlice + blocksPerSlice
BY Sizes DEF Blocks

-----------------------------------------------------------------------------
(* The reference blocks. *)

Prev(b) == IF b = 0 THEN blocksPerLane - 1 ELSE b - 1

LEMMA PrevIsMod == ASSUME NEW b \in Blocks PROVE (b - 1) % blocksPerLane = Prev(b)
BY Sizes, ModLane DEF Prev, Blocks

LEMMA NextPrevIs == ASSUME NEW b \in Blocks PROVE NextPrev(Prev(b)) = b
<1>1. CASE b = 0
  BY <1>1, Sizes, ModLane DEF Prev, NextPrev, Blocks
<1>2. CASE b # 0
  BY <1>2, Sizes, ModLane DEF Prev, NextPrev, Blocks
<1> QED BY <1>1, <1>2

(* Block ref may be referred to by block cur in pass n. *)
Refers(n, cur, ref) ==
    /\ ref \in Blocks /\ ref # cur /\ ref # Prev(cur)
    /\ ref < cur \/ (n > 0 /\ Slice(ref) # Slice(cur))

(* calcRefIndex of a later pass.  The window begins with the slice after   *)
(* the current one and ends two blocks before the current block.           *)
LEMMA LaterReference ==
  ASSUME NEW n \in Nat \ {0}, NEW cur \in Blocks, cur > 0, NEW ref \in RefIndexes(n, cur, cur - 2)
  PROVE  Refers(n, cur, ref)
<1> USE Sizes
<1>1. PICK q \in 0 .. 3 : q * blocksPerSlice <= cur /\ cur < q * blocksPerSlice + blocksPerSlice
  BY FourSlices
<1>2. cur \in Int /\ cur % blocksPerSlice = cur - q * blocksPerSlice /\ cur \div blocksPerSlice = q
  <2>1. cur \in Int /\ q \in Int
    BY DEF Blocks
  <2>2. Slice(cur) = q /\ cur % blocksPerSlice = cur - q * blocksPerSlice
    BY <1>1, <2>1, InSlice
  <2> QED BY <2>1, <2>2 DEF Slice
<1> DEFINE shift == blocksPerSlice * ((q + 1) % 4)
<1>3. PICK z \in Int : /\ 0 <= z /\ z < 3 * blocksPerSlice + (cur - q * blocksPerSlice) - 1
                       /\ ref = (shift + z) % blocksPerLane
  <2>1. ref \in {(shift + z) % blocksPerLane :
                    z \in 0 .. blocksPerLane - blocksPerSlice + (cur % blocksPerSlice) - 1 - 1}
    <3>1. n # 0
      OBVIOUS
    <3>2. ref \in RefIndexes(n, cur, cur - 2)
      OBVIOUS
    <3> QED BY <1>2, <3>1, <3>2 DEF RefIndexes, Sync_Points
  <2>2. PICK z \in 0 .. blocksPerLane - blocksPerSlice + (cur % blocksPerSlice) - 1 - 1 :
               ref = (shift + z) % blocksPerLane
    BY <2>1
  <2>3. /\ z \in Int /\ 0 <= z
        /\ z < 3 * blocksPerSlice + (cur - q * blocksPerSlice) - 1
    BY <1>2, <2>2
  <2> QED BY <2>2, <2>3
<1>4. shift = IF q = 3 THEN 0 ELSE (q + 1) * blocksPerSlice
  BY <1>1
<1> HIDE DEF shift
<1>5. /\ ref \in Blocks
      /\ \/ ref = shift + z
         \/ ref = shift + z - blocksPerLane
  <2>1. CASE shift + z \in Blocks
    BY <1>3, <1>4, <2>1, ModLane DEF Blocks
  <2>2. CASE shift + z \notin Blocks
    <3>1. shift + z - blocksPerLane \in Blocks
      BY <1>1, <1>2, <1>3, <1>4, <2>2 DEF Blocks
    <3> QED BY <1>3, <1>4, <3>1, ModLane DEF Blocks
  <2> QED BY <2>1, <2>2
<1>6. ref < q * blocksPerSlice \/ ref >= q * blocksPerSlice + blocksPerSlice
         \/ ref < cur - 1
  BY <1>1, <1>2, <1>3, <1>4, <1>5 DEF Blocks
<1>7. ref # cur /\ ref # cur - 1
  BY <1>1, <1>2, <1>3, <1>4, <1>5 DEF Blocks
<1>8. ref < cur \/ Slice(ref) # Slice(cur)
  <2>1. PICK p \in 0 .. 3 : p * blocksPerSlice <= ref /\ ref < p * blocksPerSlice + blocksPerSlice
    BY <1>5, FourSlices
  <2>2. Slice(ref) = p /\ Slice(cur) = q
    BY <1>1, <2>1, <1>5, InSlice DEF Blocks
  <2>3. ref < cur \/ p # q
    BY <1>1, <1>2, <1>6, <2>1, <1>5 DEF Blocks
  <2> QED BY <2>2, <2>3
<1> QED BY <1>5, <1>7, <1>8 DEF Refers, Prev

(* The first pass refers to finished blocks before the previous one. *)
LEMMA FirstReference ==
  ASSUME NEW cur \in Blocks, cur >= 2, NEW ref \in RefIndexes(0, cur, cur - 2)
  PROVE  Refers(0, cur, ref)
<1>1. ref \in 0 .. cur - 2
  BY DEF RefIndexes
<1> QED BY <1>1, Sizes DEF Refers, Prev, Blocks

(* The first block of a later pass refers to the last three slices. *)
LEMMA NextPassReference ==
  ASSUME NEW n \in Nat \ {0}, NEW z \in 0 .. blocksPerLane - blocksPerSlice - 2
  PROVE  Refers(n, 0, blocksPerSlice + z)
<1> USE Sizes
<1>1. blocksPerSlice + z \in Blocks /\ blocksPerSlice + z < blocksPerLane - 1
  BY DEF Blocks
<1>2. PICK p \in 0 .. 3 : /\ p * blocksPerSlice <= blocksPerSlice + z
                          /\ blocksPerSlice + z < p * blocksPerSlice + blocksPerSlice
  BY <1>1, FourSlices
<1>3. Slice(blocksPerSlice + z) = p
  BY <1>1, <1>2, InSlice DEF Blocks
<1>4. Slice(0) = 0
  <2>1. 0 \in Int /\ 0 * blocksPerSlice <= 0 /\ 0 < 0 * blocksPerSlice + blocksPerSlice
    OBVIOUS
  <2> QED BY <2>1, InSlice, Zenon
<1>5. p # 0
  BY <1>2
<1> QED BY <1>1, <1>3, <1>4, <1>5 DEF Refers, Prev

(* Every block calcRefIndex can choose is one of the lane. *)
LEMMA ReferenceInLane ==
  ASSUME NEW n \in Nat, NEW cur \in Nat, NEW prev \in Blocks, NEW ref \in RefIndexes(n, cur, prev)
  PROVE  ref \in Blocks
<1>1. CASE n = 0
  BY <1>1, Sizes DEF RefIndexes, Blocks
<1>2. CASE n # 0
  <2>1. cur % blocksPerSlice \in Nat /\ cur \div blocksPerSlice \in Nat
    BY Sizes
  <2>2. PICK y \in Int : ref = y % blocksPerLane
    <3> DEFINE shift == blocksPerSlice * (((cur \div blocksPerSlice) + 1) % Sync_Points)
               length == blocksPerLane - blocksPerSlice + (cur % blocksPerSlice) - 1
    <3>1. ref \in {(shift + z) % blocksPerLane : z \in 0 .. length - 1}
      BY <1>2 DEF RefIndexes
    <3>2. shift \in Int
      BY <2>1, Sizes DEF Sync_Points
    <3> HIDE DEF shift
    <3> QED BY <3>1, <3>2
  <2> QED BY <2>2, Sizes DEF Blocks
<1> QED BY <1>1, <1>2

-----------------------------------------------------------------------------
(* The inductive invariant. *)

BlockContext == [cur_idx : 0 .. blocksPerLane, prev_idx : Blocks, ref_idx : Blocks]

TypeInv ==
    /\ pc \in {"hash", "hashed", "mix", "finalize", "pass", "done"}
    /\ pass \in 0 .. Iterations - 1
    /\ memory \in [Blocks -> Nat]
    /\ half \in [Halves -> Nat \X Nat]
    /\ offset \in 1 .. Digests - 1
    /\ ctx \in BlockContext
    /\ mixed \in [cur_idx : Blocks, prev_idx : Blocks, ref_idx : Blocks]

(* The long hash up to offset; the digest it ends with is still whole. *)
HashInv ==
    pc \in {"hash", "hashed"} =>
        /\ \A k \in Halves : k < offset => half[k] = <<k + 1, 0>>
        /\ half[offset] = <<offset, 1>>
        /\ pc = "hashed" => offset = Digests - 1

(* Blocks before n have been written in this pass, the others have not. *)
WrittenUpTo(n) == \A b \in Blocks : memory[b] = IF b < n THEN pass + 1 ELSE pass

LaneInv ==
    /\ pc \in {"hash", "hashed"} => /\ pass = 0 /\ ctx.cur_idx \in {0, 1}
                                    /\ WrittenUpTo(ctx.cur_idx)
    /\ pc = "mix" => /\ ctx.cur_idx \in Blocks /\ ctx.prev_idx = Prev(ctx.cur_idx)
                     /\ pass = 0 => ctx.cur_idx >= 2
                     /\ Refers(pass, ctx.cur_idx, ctx.ref_idx)
                     /\ WrittenUpTo(ctx.cur_idx)
    /\ pc = "finalize" => /\ ctx.cur_idx = mixed.cur_idx + 1
                          /\ ctx.prev_idx = mixed.cur_idx /\ mixed.prev_idx = Prev(mixed.cur_idx)
                          /\ pass = 0 => mixed.cur_idx >= 2
                          /\ Refers(pass, mixed.cur_idx, mixed.ref_idx)
                          /\ ctx.cur_idx \in Blocks => Refers(pass, ctx.cur_idx, ctx.ref_idx)
                          /\ WrittenUpTo(mixed.cur_idx)
    /\ pc = "pass" => WrittenUpTo(blocksPerLane)
    /\ pc = "done" => pass = Iterations - 1 /\ WrittenUpTo(blocksPerLane)

(* The bytes taken early are those of the block that is stored next; what  *)
(* is stored last is the previous block of the next one.                   *)
EarlyInv ==
    /\ pc \in {"hash", "hashed"} => written.bytes = {}
    /\ pc = "mix" => EarlyBytesRight
    /\ pc = "finalize" => J1 = EarlyBytes(mixed)
    /\ pc = "pass" => written.block = blocksPerLane - 1 /\ written.bytes = J1

ArgonInv == TypeInv /\ HashInv /\ LaneInv /\ EarlyInv

-----------------------------------------------------------------------------
LEMMA ArgonInit == Init => ArgonInv
<1> SUFFICES ASSUME Init PROVE ArgonInv
  OBVIOUS
<1> USE Argon2dAssumption, Sizes DEF Init
<1>1. TypeInv
  <2>1. half \in [Halves -> Nat \X Nat]
    BY DEF Halves
  <2> QED BY <2>1 DEF TypeInv, BlockContext, Context, Blocks
<1>2. HashInv
  <2>1. half[0] = <<1, 0>> /\ half[1] = <<1, 1>>
    <3>1. 0 \in Halves /\ 1 \in Halves /\ 0 % 2 = 0 /\ 1 % 2 = 1
      BY DEF Halves
    <3> QED BY <3>1
  <2>2. \A k \in Halves : k < offset => k = 0
    BY DEF Halves
  <2> QED BY <2>1, <2>2 DEF HashInv
<1>3. LaneInv
  BY DEF LaneInv, WrittenUpTo, Context, Blocks
<1>4. EarlyInv
  BY DEF EarlyInv
<1> QED BY <1>1, <1>2, <1>3, <1>4 DEF ArgonInv

(* One more digest: the half it leaves alone is its predecessor's first.   *)
LEMMA ArgonHashNext == ASSUME ArgonInv, HashNext PROVE ArgonInv'
<1> USE Argon2dAssumption, Sizes DEF ArgonInv
<1> DEFINE d == Digest(half[offset - 1], half[offset])
<1>1. /\ pc = "hash" /\ offset <= Digests - 2 /\ offset' = offset + 1 /\ pc' = "hash"
      /\ half' = [half EXCEPT ![offset] = <<d, 0>>, ![offset + 1] = <<d, 1>>]
      /\ UNCHANGED <<pass, memory, ctx, mixed, J1, written>>
  BY DEF HashNext, MaxOffset
<1>2. d = offset + 1
  <2>1. offset - 1 \in Halves /\ offset \in Halves /\ offset - 1 < offset /\ offset \in Nat
    BY <1>1 DEF TypeInv, Halves
  <2>2. half[offset - 1] = <<offset - 1 + 1, 0>> /\ half[offset] = <<offset, 1>>
    BY <1>1, <2>1 DEF HashInv
  <2> QED BY <2>1, <2>2 DEF Digest
<1> HIDE DEF d
<1>3. offset \in Nat /\ offset + 1 \in Halves /\ offset \in Halves
  BY <1>1 DEF TypeInv, Halves
<1>4. TypeInv'
  <2>1. half' \in [Halves -> Nat \X Nat]
    BY <1>1, <1>2, <1>3 DEF TypeInv
  <2>2. offset' \in 1 .. Digests - 1
    BY <1>1, <1>3 DEF Halves
  <2> QED BY <1>1, <2>1, <2>2 DEF TypeInv
<1>5. HashInv'
  <2>1. ASSUME NEW k \in Halves, k < offset' PROVE half'[k] = <<k + 1, 0>>
    <3>1. CASE k = offset
      BY <1>1, <1>2, <1>3, <3>1 DEF TypeInv
    <3>2. CASE k # offset
      <4>1. k < offset
        BY <1>1, <1>3, <2>1, <3>2 DEF Halves
      <4>2. half'[k] = half[k]
        BY <1>1, <1>3, <4>1 DEF TypeInv, Halves
      <4> QED BY <1>1, <4>1, <4>2 DEF HashInv
    <3> QED BY <3>1, <3>2
  <2>2. half'[offset'] = <<offset', 1>>
    BY <1>1, <1>2, <1>3 DEF TypeInv
  <2> QED BY <1>1, <2>1, <2>2 DEF HashInv, Halves
<1>6. LaneInv'
  BY <1>1 DEF LaneInv, WrittenUpTo, Blocks
<1>7. EarlyInv'
  BY <1>1 DEF EarlyInv
<1> QED BY <1>4, <1>5, <1>6, <1>7

LEMMA ArgonHashBlock == ASSUME ArgonInv, HashBlock PROVE ArgonInv'
<1> USE Argon2dAssumption, Sizes DEF ArgonInv
<1>1. /\ pc = "hash" /\ offset > Digests - 2 /\ pc' = "hashed"
      /\ UNCHANGED <<pass, memory, half, offset, ctx, mixed, J1, written>>
  BY DEF HashBlock, MaxOffset
<1>2. TypeInv'
  BY <1>1 DEF TypeInv, BlockContext, Blocks, Halves
<1>3. HashInv'
  BY <1>1 DEF TypeInv, HashInv, Halves
<1>4. LaneInv'
  BY <1>1 DEF LaneInv, WrittenUpTo, Blocks
<1>5. EarlyInv'
  BY <1>1 DEF EarlyInv
<1> QED BY <1>2, <1>3, <1>4, <1>5

(* The second block is hashed, or the third one mixed from the first two. *)
LEMMA ArgonStartLane == ASSUME ArgonInv, StartLane PROVE ArgonInv'
<1> USE Argon2dAssumption, Sizes DEF ArgonInv
<1>1. /\ pc = "hashed" /\ pass = 0 /\ written.bytes = {} /\ ctx.cur_idx \in {0, 1}
      /\ memory' = [memory EXCEPT ![ctx.cur_idx] = 1]
      /\ UNCHANGED <<pass, mixed, J1, written>>
  BY DEF StartLane, LaneInv, EarlyInv
<1>2. memory \in [Blocks -> Nat] /\ \A b \in Blocks : memory[b] = IF b < ctx.cur_idx THEN 1 ELSE 0
  BY <1>1 DEF TypeInv, LaneInv, WrittenUpTo
<1>3. memory' \in [Blocks -> Nat]
  BY <1>1, <1>2 DEF Blocks
<1>4. \A b \in Blocks : memory'[b] = IF b < ctx.cur_idx + 1 THEN 1 ELSE 0
  BY <1>1, <1>2 DEF Blocks
<1>5. CASE ctx.cur_idx = 0
  <2>1. /\ pc' = "hash" /\ ctx' = Context(1, 0, 0) /\ offset' = 1
        /\ half' = [k \in Halves |-> <<1, k % 2>>]
    BY <1>5 DEF StartLane
  <2>2. TypeInv'
    <3>1. half' \in [Halves -> Nat \X Nat]
      BY <2>1 DEF Halves
    <3>2. ctx' \in BlockContext
      BY <2>1 DEF Context, BlockContext, Blocks
    <3> QED BY <1>1, <1>3, <2>1, <3>1, <3>2 DEF TypeInv
  <2>3. HashInv'
    <3>1. half'[0] = <<1, 0>> /\ half'[1] = <<1, 1>>
      <4>1. 0 \in Halves /\ 1 \in Halves /\ 0 % 2 = 0 /\ 1 % 2 = 1
        BY DEF Halves
      <4> QED BY <2>1, <4>1
    <3>2. \A k \in Halves : k < offset' => k = 0
      BY <2>1 DEF Halves
    <3> QED BY <2>1, <3>1, <3>2 DEF HashInv
  <2>4. LaneInv'
    <3>1. ctx'.cur_idx = 1
      BY <2>1 DEF Context
    <3> QED BY <1>1, <1>4, <1>5, <2>1, <3>1 DEF LaneInv, WrittenUpTo
  <2>5. EarlyInv'
    BY <1>1, <2>1 DEF EarlyInv
  <2> QED BY <2>2, <2>3, <2>4, <2>5
<1>6. CASE ctx.cur_idx = 1
  <2>1. pc' = "mix" /\ ctx' = Context(2, 1, 0) /\ UNCHANGED <<half, offset>>
    BY <1>6 DEF StartLane
  <2>2. ctx'.cur_idx = 2 /\ ctx'.prev_idx = 1 /\ ctx'.ref_idx = 0
    BY <2>1 DEF Context
  <2>3. TypeInv'
    <3>1. ctx' \in BlockContext
      BY <2>1 DEF Context, BlockContext, Blocks
    <3>2. half' \in [Halves -> Nat \X Nat] /\ offset' \in 1 .. Digests - 1
      BY <2>1 DEF TypeInv
    <3>3. mixed' \in [cur_idx : Blocks, prev_idx : Blocks, ref_idx : Blocks]
          /\ pass' \in 0 .. Iterations - 1
      BY <1>1 DEF TypeInv
    <3> QED BY <1>3, <2>1, <3>1, <3>2, <3>3 DEF TypeInv
  <2>4. LaneInv'
    <3>1. WrittenUpTo(ctx.cur_idx)'
      BY <1>1, <1>4, <1>6, <2>2 DEF WrittenUpTo
    <3>2. Refers(0, 2, 0) /\ Prev(2) = 1 /\ 2 \in Blocks
      BY DEF Refers, Prev, Blocks
    <3> QED BY <1>1, <2>1, <2>2, <3>1, <3>2 DEF LaneInv
  <2>5. HashInv' /\ EarlyInv'
    BY <1>1, <2>1 DEF HashInv, EarlyInv, EarlyBytesRight
  <2> QED BY <2>3, <2>4, <2>5
<1> QED BY <1>1, <1>5, <1>6

(* calcRefIndex moves the context on to the next block, while mixBlocks    *)
(* goes on with this one.                                                  *)
LEMMA ArgonMixBlocks == ASSUME ArgonInv, MixBlocks PROVE ArgonInv'
<1> USE Sizes DEF ArgonInv
<1> DEFINE c == ctx.cur_idx
<1>1. /\ pc = "mix" /\ pc' = "finalize" /\ mixed' = ctx /\ J1' = EarlyBytes(ctx)
      /\ UNCHANGED <<pass, memory, half, offset, written>>
  BY DEF MixBlocks
<1>2. PICK ref \in RefIndexes(pass, c + 1, ctx.prev_idx) :
         ctx' = Context(c + 1, NextPrev(ctx.prev_idx), ref)
  BY DEF MixBlocks
<1>3. /\ c \in Blocks /\ ctx.prev_idx = Prev(c) /\ pass \in Nat
      /\ ctx.prev_idx \in Blocks /\ ctx.ref_idx \in Blocks
      /\ pass = 0 => c >= 2
      /\ Refers(pass, c, ctx.ref_idx) /\ WrittenUpTo(c)
  BY <1>1 DEF TypeInv, LaneInv, BlockContext
<1> HIDE DEF c
<1>4. NextPrev(ctx.prev_idx) = c
  BY <1>3, NextPrevIs
<1>5. c + 1 \in Nat /\ ref \in Blocks
  BY <1>2, <1>3, ReferenceInLane DEF Blocks
<1>6. ctx'.cur_idx = c + 1 /\ ctx'.prev_idx = c /\ ctx'.ref_idx = ref
  BY <1>2, <1>4 DEF Context
<1>7. ASSUME c + 1 \in Blocks PROVE Refers(pass, c + 1, ref)
  <2>1. CASE pass = 0
    <3>1. Prev(c) = (c + 1) - 2
      BY <1>3, <2>1 DEF Prev, Blocks
    <3>2. ref \in RefIndexes(0, c + 1, (c + 1) - 2) /\ c + 1 >= 2
      BY <1>2, <1>3, <2>1, <3>1 DEF Blocks
    <3> QED BY <1>7, <2>1, <3>2, FirstReference, Zenon
  <2>2. CASE pass # 0
    <3>1. pass \in Nat \ {0} /\ c + 1 > 0
      BY <1>3, <2>2 DEF Blocks
    <3>2. ref \in RefIndexes(pass, c + 1, (c + 1) - 2)
      BY <1>2, <2>2 DEF RefIndexes
    <3> QED BY <1>7, <3>1, <3>2, LaterReference, Zenon
  <2> QED BY <2>1, <2>2
<1>8. TypeInv'
  <2>1. ctx' \in BlockContext
    BY <1>2, <1>3, <1>4, <1>5 DEF Context, BlockContext, Blocks
  <2>2. mixed' \in [cur_idx : Blocks, prev_idx : Blocks, ref_idx : Blocks]
    <3>1. ctx \in BlockContext /\ ctx.cur_idx \in Blocks
      BY <1>3 DEF TypeInv, c
    <3> QED BY <1>1, <3>1 DEF BlockContext
  <2>3. /\ pass' \in 0 .. Iterations - 1 /\ memory' \in [Blocks -> Nat]
        /\ half' \in [Halves -> Nat \X Nat] /\ offset' \in 1 .. Digests - 1
    BY <1>1 DEF TypeInv
  <2> QED BY <1>1, <2>1, <2>2, <2>3 DEF TypeInv
<1>9. LaneInv'
  <2>1. mixed'.cur_idx = c /\ mixed'.prev_idx = Prev(c) /\ mixed'.ref_idx = ctx.ref_idx
    BY <1>1, <1>3 DEF c
  <2>3. WrittenUpTo(mixed.cur_idx)'
    <3>1. Blocks' = Blocks /\ mixed'.cur_idx = ctx.cur_idx
      BY <1>1 DEF Blocks, blocksPerLane, Sync_Points
    <3>2. WrittenUpTo(ctx.cur_idx)
      BY <1>3 DEF c
    <3> QED BY <1>1, <3>1, <3>2 DEF WrittenUpTo
  <2> QED BY <1>1, <1>3, <1>6, <1>7, <2>1, <2>3 DEF LaneInv
<1>10. HashInv'
  BY <1>1 DEF HashInv
<1>11. EarlyInv'
  BY <1>1 DEF EarlyInv, EarlyBytes, Bytes
<1> QED BY <1>8, <1>9, <1>10, <1>11

(* The block mixBlocks began with is written. *)
LEMMA ArgonFinalize == ASSUME ArgonInv, Finalize PROVE ArgonInv'
<1> USE Sizes DEF ArgonInv
<1>1. /\ pc = "finalize" /\ pc' = IF ctx.cur_idx < blocksPerLane THEN "mix" ELSE "pass"
      /\ memory' = [memory EXCEPT ![mixed.cur_idx] = @ + 1]
      /\ UNCHANGED <<pass, half, offset, ctx, mixed, J1>>
  BY DEF Finalize
<1>2. /\ mixed.cur_idx \in Blocks /\ mixed.prev_idx \in Blocks /\ mixed.ref_idx \in Blocks
      /\ ctx.cur_idx = mixed.cur_idx + 1 /\ ctx.prev_idx = mixed.cur_idx
      /\ pass = 0 => mixed.cur_idx >= 2
      /\ ctx.cur_idx \in Blocks => Refers(pass, ctx.cur_idx, ctx.ref_idx)
      /\ memory \in [Blocks -> Nat] /\ pass \in Nat
      /\ \A b \in Blocks : memory[b] = IF b < mixed.cur_idx THEN pass + 1 ELSE pass
      /\ J1 = EarlyBytes(mixed)
  BY <1>1 DEF TypeInv, LaneInv, EarlyInv, WrittenUpTo
<1>3. memory' \in [Blocks -> Nat]
  BY <1>1, <1>2
<1>4. WrittenUpTo(ctx.cur_idx)'
  <2>1. ASSUME NEW b \in Blocks PROVE memory'[b] = IF b < ctx.cur_idx THEN pass + 1 ELSE pass
    BY <1>1, <1>2 DEF Blocks
  <2>2. Blocks' = Blocks
    BY DEF Blocks, blocksPerLane, Sync_Points
  <2> QED BY <1>1, <2>1, <2>2 DEF WrittenUpTo
<1>5. written'.block = mixed.cur_idx /\ written'.bytes = J1
  <2> DEFINE mix == Xor(Xor({Bytes(mixed.prev_idx)}, {Tmp}), {Bytes(mixed.ref_idx)})
             early == Xor(Xor({Bytes(mixed.prev_idx)}, {Bytes(mixed.ref_idx)}), {Tmp})
  <2>1. mix = early
    BY Zenon DEF Xor
  <2>2. written' = [block |-> mixed.cur_idx,
                    bytes |-> IF pass = 0 THEN mix ELSE Xor(mix, {Bytes(mixed.cur_idx)})]
    BY DEF Finalize
  <2>3. J1 = IF pass = 0 THEN early ELSE Xor(early, {Bytes(mixed.cur_idx)})
    BY <1>2 DEF EarlyBytes
  <2> HIDE DEF mix, early
  <2> QED BY <2>1, <2>2, <2>3
<1>6. CASE ctx.cur_idx < blocksPerLane
  <2>1. /\ pc' = "mix" /\ ctx.cur_idx \in Blocks /\ ctx.prev_idx = Prev(ctx.cur_idx)
        /\ pass = 0 => ctx.cur_idx >= 2
    <3>1. pc' = "mix"
      BY <1>1, <1>6
    <3>2. mixed.cur_idx \in Nat /\ ctx.cur_idx = mixed.cur_idx + 1 /\ ctx.prev_idx = mixed.cur_idx
      BY <1>2 DEF Blocks
    <3>3. ctx.cur_idx \in Blocks /\ ctx.prev_idx = Prev(ctx.cur_idx)
      BY <1>6, <3>2 DEF Prev, Blocks
    <3> QED BY <1>2, <3>1, <3>2, <3>3
  <2>2. LaneInv'
    BY <1>1, <1>2, <1>4, <2>1 DEF LaneInv
  <2>3. EarlyInv'
    BY <1>1, <1>2, <1>5, <2>1 DEF EarlyInv, EarlyBytesRight
  <2>4. TypeInv' /\ HashInv'
    BY <1>1, <1>3, <2>1 DEF TypeInv, HashInv
  <2> QED BY <2>2, <2>3, <2>4
<1>7. CASE ~ (ctx.cur_idx < blocksPerLane)
  <2>1. pc' = "pass" /\ ctx.cur_idx = blocksPerLane /\ mixed.cur_idx = blocksPerLane - 1
    <3>1. pc' = "pass"
      BY <1>1, <1>7
    <3>2. mixed.cur_idx \in 0 .. blocksPerLane - 1 /\ ctx.cur_idx = mixed.cur_idx + 1
      BY <1>2 DEF Blocks
    <3> QED BY <1>7, <3>1, <3>2
  <2>2. LaneInv'
    <3>1. WrittenUpTo(blocksPerLane)'
      BY <1>1, <1>4, <2>1 DEF WrittenUpTo, blocksPerLane, Sync_Points
    <3> QED BY <2>1, <3>1 DEF LaneInv
  <2>3. EarlyInv'
    BY <1>1, <1>5, <2>1 DEF EarlyInv, blocksPerLane, Sync_Points
  <2>4. TypeInv' /\ HashInv'
    BY <1>1, <1>3, <2>1 DEF TypeInv, HashInv
  <2> QED BY <2>2, <2>3, <2>4
<1> QED BY <1>6, <1>7

(* Every block has been written once more: the next pass begins there. *)
LEMMA ArgonNextPass == ASSUME ArgonInv, NextPass PROVE ArgonInv'
<1> USE Sizes, Argon2dAssumption DEF ArgonInv
<1>1. /\ pc = "pass" /\ pc' = "mix" /\ pass + 1 < Iterations /\ pass' = pass + 1
      /\ UNCHANGED <<memory, half, offset, mixed, written>>
  BY DEF NextPass, RoundsLeft
<1>2. PICK z \in 0 .. (blocksPerLane - blocksPerSlice) - 2 :
         ctx' = Context(0, blocksPerLane - 1, blocksPerSlice + z)
  BY DEF NextPass
<1>3. pass \in 0 .. Iterations - 1 /\ pass' \in 0 .. Iterations - 1 /\ pass' \in Nat \ {0}
  BY <1>1 DEF TypeInv
<1>4. /\ ctx'.cur_idx = 0 /\ ctx'.prev_idx = blocksPerLane - 1
      /\ ctx'.ref_idx = blocksPerSlice + z
  BY <1>2 DEF Context
<1>5. Refers(pass', 0, blocksPerSlice + z)
  BY <1>3, NextPassReference, Zenon
<1>6. TypeInv'
  <2>1. ctx' \in BlockContext
    BY <1>2, <1>5 DEF Context, BlockContext, Refers, Blocks
  <2> QED BY <1>1, <1>3, <2>1 DEF TypeInv
<1>7. LaneInv'
  <2>1. \A b \in Blocks : memory[b] = pass + 1
    BY <1>1 DEF LaneInv, WrittenUpTo, Blocks
  <2>2. WrittenUpTo(ctx.cur_idx)'
    BY <1>1, <1>3, <1>4, <2>1 DEF WrittenUpTo, Blocks
  <2>3. 0 \in Blocks /\ Prev(0) = blocksPerLane - 1
    BY DEF Blocks, Prev
  <2> QED BY <1>1, <1>3, <1>4, <1>5, <2>2, <2>3 DEF LaneInv
<1>8. EarlyInv'
  <2>1. written.block = blocksPerLane - 1 /\ J1' = written.bytes
    BY <1>1 DEF NextPass, EarlyInv
  <2> QED BY <1>1, <1>4, <2>1 DEF EarlyInv, EarlyBytesRight
<1>9. HashInv'
  BY <1>1 DEF HashInv
<1> QED BY <1>6, <1>7, <1>8, <1>9

LEMMA ArgonFilled == ASSUME ArgonInv, Filled PROVE ArgonInv'
<1> USE Argon2dAssumption DEF ArgonInv
<1>1. /\ pc = "pass" /\ pc' = "done" /\ ~ (pass + 1 < Iterations)
      /\ UNCHANGED <<pass, memory, half, offset, ctx, mixed, J1, written>>
  BY DEF Filled, RoundsLeft
<1>2. pass = Iterations - 1
  BY <1>1 DEF TypeInv
<1>3. TypeInv' /\ HashInv' /\ EarlyInv'
  BY <1>1 DEF TypeInv, HashInv, EarlyInv
<1>4. LaneInv'
  BY <1>1, <1>2 DEF LaneInv, WrittenUpTo
<1> QED BY <1>3, <1>4

(* The invariant holds in every state. *)
THEOREM ArgonInvariant == Spec => []ArgonInv
<1>1. ArgonInv /\ [Next]_vars => ArgonInv'
  <2> SUFFICES ASSUME ArgonInv, [Next]_vars PROVE ArgonInv'
    OBVIOUS
  <2>1. CASE UNCHANGED vars
    BY <2>1 DEF vars, ArgonInv, TypeInv, HashInv, LaneInv, EarlyInv, WrittenUpTo, EarlyBytes,
                Bytes, EarlyBytesRight
  <2> QED BY <2>1, ArgonHashNext, ArgonHashBlock, ArgonStartLane, ArgonMixBlocks,
             ArgonFinalize, ArgonNextPass, ArgonFilled DEF Next
<1> QED BY <1>1, ArgonInit, PTL DEF Spec

-----------------------------------------------------------------------------
(* The results. *)

(* Fields and indexes keep their types. *)
THEOREM ArgonTypeCorrect == Spec => []Argon2dTypeOK
<1>1. ArgonInv => Argon2dTypeOK
  <2> SUFFICES ASSUME ArgonInv PROVE Argon2dTypeOK
    OBVIOUS
  <2> USE Sizes, Argon2dAssumption DEF ArgonInv
  <2>1. memory \in [Blocks -> 0 .. Iterations]
    <3>1. ASSUME NEW b \in Blocks PROVE memory[b] \in 0 .. Iterations
      <4>1. memory[b] = pass \/ memory[b] = pass + 1
        BY DEF TypeInv, LaneInv, WrittenUpTo
      <4> QED BY <4>1 DEF TypeInv
    <3> QED BY <3>1 DEF TypeInv
  <2> QED BY <2>1 DEF Argon2dTypeOK, TypeInv, BlockContext
<1> QED BY <1>1, ArgonInvariant, PTL

(* blake2b::hash (argon2d.cpp) is the long hash of the Argon2 paper,       *)
(* whatever the length of its output.                                      *)
THEOREM ArgonLongHash == Spec => []LongHash
<1>1. ArgonInv => LongHash
  <2> SUFFICES ASSUME ArgonInv, pc = "hashed"
               PROVE  half = [k \in Halves |-> IF k = Digests - 1 THEN <<Digests - 1, 1>>
                                                                   ELSE <<k + 1, 0>>]
    BY DEF LongHash
  <2>1. /\ half \in [Halves -> Nat \X Nat] /\ half[Digests - 1] = <<Digests - 1, 1>>
        /\ \A k \in Halves : k < Digests - 1 => half[k] = <<k + 1, 0>>
    BY DEF ArgonInv, TypeInv, HashInv
  <2>2. \A k \in Halves : k # Digests - 1 => k < Digests - 1
    BY Argon2dAssumption DEF Halves
  <2> QED BY <2>1, <2>2
<1> QED BY <1>1, ArgonInvariant, PTL

(* fillMemory and its passes write every block of the lane once in each    *)
(* pass, in order, and mix it with the one written just before.            *)
THEOREM ArgonPassOrder == Spec => []PassOrder
<1>1. ArgonInv => PassOrder
  <2> SUFFICES ASSUME ArgonInv PROVE PassOrder
    OBVIOUS
  <2>1. ASSUME pc = "mix"
        PROVE  /\ ctx.prev_idx = (ctx.cur_idx - 1) % blocksPerLane
               /\ \A b \in Blocks : memory[b] = IF b < ctx.cur_idx THEN pass + 1 ELSE pass
    BY <2>1, PrevIsMod DEF ArgonInv, LaneInv, WrittenUpTo
  <2>2. ASSUME pc = "done" PROVE \A b \in Blocks : memory[b] = Iterations
    BY <2>2, Sizes, Argon2dAssumption DEF ArgonInv, TypeInv, LaneInv, WrittenUpTo, Blocks
  <2> QED BY <2>1, <2>2 DEF PassOrder
<1> QED BY <1>1, ArgonInvariant, PTL

(* mixBlocks never refers to what it is writing, nor to anything but a     *)
(* finished block of the window the Argon2 paper defines.                  *)
THEOREM ArgonNoAliasing == Spec => []NoAliasing
<1>1. ArgonInv => NoAliasing
  <2> SUFFICES ASSUME ArgonInv, pc \in {"mix", "finalize"},
                      NEW c, c = IF pc = "mix" THEN ctx ELSE mixed
               PROVE  /\ c.ref_idx # c.cur_idx /\ c.ref_idx # c.prev_idx /\ c.prev_idx # c.cur_idx
                      /\ c.ref_idx \in Window(pass, c.cur_idx)
                      /\ memory[c.ref_idx] = (IF c.ref_idx < c.cur_idx THEN pass + 1 ELSE pass)
                      /\ memory[c.ref_idx] > 0
    BY DEF NoAliasing
  <2>1. /\ c.cur_idx \in Blocks /\ c.prev_idx = Prev(c.cur_idx) /\ pass \in Nat
        /\ Refers(pass, c.cur_idx, c.ref_idx) /\ WrittenUpTo(c.cur_idx)
    BY DEF ArgonInv, TypeInv, LaneInv
  <2>2. c.prev_idx # c.cur_idx
    BY <2>1, Sizes DEF Prev, Blocks
  <2>3. c.ref_idx \in Window(pass, c.cur_idx)
    BY <2>1, PrevIsMod DEF Window, Refers
  <2>4. memory[c.ref_idx] = (IF c.ref_idx < c.cur_idx THEN pass + 1 ELSE pass)
    BY <2>1 DEF WrittenUpTo, Refers
  <2>5. memory[c.ref_idx] > 0
    BY <2>1, <2>4 DEF Refers
  <2> QED BY <2>1, <2>2, <2>3, <2>4, <2>5 DEF Refers
<1> QED BY <1>1, ArgonInvariant, PTL

(* The early choice of the reference block is made by the right bytes. *)
THEOREM ArgonEarlyBytesRight == Spec => []EarlyBytesRight
<1>1. ArgonInv => EarlyBytesRight
  BY DEF ArgonInv, EarlyInv, EarlyBytesRight
<1> QED BY <1>1, ArgonInvariant, PTL
=============================================================================
