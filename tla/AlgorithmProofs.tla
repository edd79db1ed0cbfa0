---------------------------- MODULE AlgorithmProofs ----------------------------
(***************************************************************************)
(* Proofs about the sequential algorithms that share no state with another *)
(* component, for every value of their sizes, in this order:               *)
(*   AsicContext        the address register of a superscalar program      *)
(*   Blake2bRandom      the bytes of the states, drawn in their order      *)
(*   Blake2b            the blocks that are compressed                     *)
(*   DatasetPartition   jobs that cover the dataset                        *)
(*   AesPasses          what is hashed, and what programs are made from    *)
(*   BranchCondition    at most two jumps in a row                         *)
(*   Arithmetic         the high halves of emulated products               *)
(*   DatasetProgram     four items at a time, and the stack                *)
(***************************************************************************)
EXTENDS AsicContext, Blake2bRandom, Blake2b, DatasetPartition, AesPasses, BranchCondition,
        Arithmetic, DatasetProgram, FiniteSetTheorems, SequenceTheorems, WellFoundedInduction, TLAPS
-----------------------------------------------------------------------------
(* AsicContext: one pass keeps the first of the longest chains.            *)

AsicInv ==
    /\ AsicTypeOK
    /\ max_latency = latencies[max_latency_register]
    /\ AddressRegisterIsFirstMax

LEMMA AsicInitInv == AsicInit => AsicInv
BY AsicAssumption DEF AsicInit, AsicInv, AsicTypeOK, AddressRegisterIsFirstMax, Registers

(* A chain through dst only gets longer. *)
LEMMA LatencyGrows ==
    ASSUME AsicTypeOK, NEW dst \in Registers, NEW src
    PROVE  Latency(src, dst) \in Nat /\ Latency(src, dst) > latencies[dst]
BY DEF AsicTypeOK, Latency

LEMMA UpdateInv ==
    ASSUME AsicInv, NEW dst \in Registers, NEW src \in Registers \union {NoRegister},
           UpdateAsicContext(src, dst)
    PROVE  AsicInv'
<1> DEFINE l == Latency(src, dst)
<1>1. l \in Nat /\ l > latencies[dst]
      BY LatencyGrows DEF AsicInv
<1>2. latencies' = [latencies EXCEPT ![dst] = l]
      BY DEF UpdateAsicContext
<1> HIDE DEF l
<1>3. latencies' \in [Registers -> Nat]
      BY <1>1, <1>2 DEF AsicInv, AsicTypeOK
<1>4. Registers \subseteq Int
      BY AsicAssumption DEF Registers
<1>5. CASE Replaces(l, dst)
      <2>1. max_latency_register' = dst /\ max_latency' = l
            BY <1>5 DEF UpdateAsicContext, l
      <2>2. l >= max_latency /\ (l = max_latency => dst < max_latency_register)
            BY <1>1, <1>5 DEF AsicInv, AsicTypeOK, Replaces
      <2>3. AddressRegisterIsFirstMax'
            BY <1>1, <1>2, <1>3, <1>4, <2>1, <2>2
            DEF AsicInv, AsicTypeOK, AddressRegisterIsFirstMax
      <2> QED BY <1>1, <1>2, <1>3, <2>1, <2>3 DEF AsicInv, AsicTypeOK
<1>6. CASE ~ Replaces(l, dst)
      <2>1. UNCHANGED <<max_latency, max_latency_register>>
            BY <1>6 DEF UpdateAsicContext, l
      <2>2. l <= max_latency /\ (l = max_latency => dst >= max_latency_register)
            BY <1>1, <1>4, <1>6 DEF AsicInv, AsicTypeOK, Replaces
      <2>3. max_latency_register # dst
            BY <1>1, <2>2 DEF AsicInv, AsicTypeOK
      <2>4. AddressRegisterIsFirstMax'
            BY <1>1, <1>2, <1>3, <1>4, <2>1, <2>2, <2>3
            DEF AsicInv, AsicTypeOK, AddressRegisterIsFirstMax
      <2> QED BY <1>2, <1>3, <2>1, <2>3, <2>4 DEF AsicInv, AsicTypeOK
<1> QED BY <1>5, <1>6

(* The address register is the first of those with the longest dependency  *)
(* chain, which updateAsicContext keeps up to date without ever scanning   *)
(* the register file.                                                      *)
THEOREM AsicAddressRegister == AsicSpec => []AddressRegisterIsFirstMax
<1>1. AsicInv /\ [AsicNext]_asicVars => AsicInv'
      <2> SUFFICES ASSUME AsicInv, [AsicNext]_asicVars PROVE AsicInv'
          OBVIOUS
      <2>1. CASE UNCHANGED asicVars
            BY <2>1 DEF AsicInv, AsicTypeOK, AddressRegisterIsFirstMax, asicVars
      <2>2. CASE AsicNext
            BY <2>1, <2>2, UpdateInv DEF AsicNext, AsicFinished
      <2> QED BY <2>1, <2>2
<1>2. AsicInv => AddressRegisterIsFirstMax
      BY DEF AsicInv
<1> QED BY AsicInitInv, <1>1, <1>2, PTL DEF AsicSpec

-----------------------------------------------------------------------------
(* Blake2bRandom.                                                          *)

(* The position is behind the bytes handed out last; before the first of   *)
(* them it is at the front of the state behind the seed.                   *)
RandomInv ==
    /\ state \in Nat \ {0} /\ position \in 0 .. State_Size
    /\ drawn \in [state : Nat, first : Nat, size : Nat]
    /\ \/ drawn.state = 0 /\ state = 1 /\ position = 0 /\ drawn.first = 0 /\ drawn.size = 0
       \/ drawn.state = state /\ position = drawn.first + drawn.size

LEMMA RandomInitInv == RandomInit => RandomInv
  BY RandomAssumption DEF RandomInit, RandomInv, Rehashed, TooFew

(* One number of one or four bytes. *)
LEMMA DrawInOrder ==
  ASSUME RandomInv, NEW size \in {1, 4}, Draw(size)
  PROVE  /\ RandomInv'
         /\ IF drawn'.state = drawn.state THEN drawn'.first = drawn.first + drawn.size
            ELSE /\ drawn'.state = drawn.state + 1 /\ drawn'.first = 0
                 /\ drawn.state > 0 => drawn.first + drawn.size + drawn'.size > State_Size
  <1>. State_Size \in Nat /\ State_Size >= 4
    BY RandomAssumption
  <1>1. CASE position + size > State_Size
    <2>1. state' = state + 1 /\ position' = size
          /\ drawn' = [state |-> state + 1, first |-> 0, size |-> size]
      BY <1>1 DEF Draw, Rehashed, TooFew, RandomInv
    <2>. QED BY <1>1, <2>1 DEF RandomInv
  <1>2. CASE ~ position + size > State_Size
    <2>1. state' = state /\ position' = position + size
          /\ drawn' = [state |-> state, first |-> position, size |-> size]
      BY <1>2 DEF Draw, Rehashed, TooFew
    <2>. QED BY <1>2, <2>1 DEF RandomInv
  <1>. QED BY <1>1, <1>2

(* The bytes of the states are handed out in their order, and only dropped *)
(* in front of a number they are too few for, whatever numbers are drawn.  *)
THEOREM RandomDrawsInOrder == RandomSpec => DrawsInOrder
  <1>1. RandomInv /\ [RandomNext]_randomVars => RandomInv'
    <2>1. ASSUME RandomInv, UNCHANGED randomVars PROVE RandomInv'
      BY <2>1 DEF RandomInv, randomVars
    <2>. QED BY <2>1, DrawInOrder DEF RandomNext, GetUint8, GetUint32, OutOfStates
  <1>2. RandomInv /\ [RandomNext]_randomVars =>
          [IF drawn'.state = drawn.state THEN drawn'.first = drawn.first + drawn.size
           ELSE /\ drawn'.state = drawn.state + 1 /\ drawn'.first = 0
                /\ drawn.state > 0 => drawn.first + drawn.size + drawn'.size > State_Size]_randomVars
    BY DrawInOrder DEF RandomNext, GetUint8, GetUint32, OutOfStates
  <1>. QED BY RandomInitInv, <1>1, <1>2, PTL DEF RandomSpec, DrawsInOrder

-----------------------------------------------------------------------------
(* Blake2b: the calls of a message, and the blocks they leave behind.      *)

Calls == [call : {"update", "update<true>", "compress", "final"}, size : Nat]

(* The calls that are left write what fits into the block, then end it:    *)
(* ends[k] is the counter after k of them.                                 *)
FitsBlock(ends) ==
    /\ ends \in [0 .. Len(todo) -> 0 .. Block_Size] /\ ends[0] = counter
    /\ \A k \in 1 .. Len(todo) :
         \/ k < Len(todo) /\ todo[k].call \in {"update", "update<true>"}
            /\ todo[k].size > 0 /\ ends[k] = ends[k - 1] + todo[k].size
         \/ k = Len(todo) /\ todo[k].call = "final"

OneBlock ==
    /\ todo \in Seq(Calls) /\ todo # <<>> /\ (counter > 0 \/ Len(todo) > 1)
    /\ \E ends : FitsBlock(ends)
    /\ zeros \subseteq 1 .. counter /\ block = MessageBlock(1)
    /\ compressed = <<>>
OneBlockDone ==
    /\ todo = <<>> /\ counter \in 1 .. Block_Size
    /\ compressed = <<[block |-> MessageBlock(1), counter |-> counter, last |-> TRUE]>>

LEMMA AppendTwo == ASSUME NEW a, NEW b PROVE Append(<<a>>, b) = <<a, b>>
  <1>1. <<a>> \in Seq({a, b}) /\ Len(<<a>>) = 1 /\ <<a>>[1] = a
    OBVIOUS
  <1>2. /\ Append(<<a>>, b) \in Seq({a, b}) /\ Len(Append(<<a>>, b)) = 2
        /\ Append(<<a>>, b)[1] = a /\ Append(<<a>>, b)[2] = b
    BY <1>1, AppendProperties
  <1>3. <<a, b>> \in Seq({a, b}) /\ Len(<<a, b>>) = 2
    OBVIOUS
  <1>4. <<a, b>>[1] = a /\ <<a, b>>[2] = b
    OBVIOUS
  <1> DEFINE p == Append(<<a>>, b)   q == <<a, b>>
  <1>5. /\ p \in Seq({a, b}) /\ q \in Seq({a, b}) /\ Len(p) = Len(q)
        /\ \A i \in 1 .. Len(p) : p[i] = q[i]
    <2>1. p \in Seq({a, b}) /\ q \in Seq({a, b}) /\ Len(p) = 2 /\ Len(q) = 2
          /\ p[1] = q[1] /\ p[2] = q[2]
      BY <1>2, <1>3, <1>4
    <2> HIDE DEF p, q
    <2>. QED BY <2>1
  <1> HIDE DEF p, q
  <1>6. p = q
    BY <1>5, SeqEqual
  <1>. QED BY <1>6 DEF p, q

(* An input of two blocks. *)
FirstBlock == [block |-> [i \in Positions |-> i], counter |-> Block_Size, last |-> FALSE]
SecondBlock ==
    [block |-> [i \in Positions |-> Block_Size + i], counter |-> 2 * Block_Size, last |-> TRUE]
TwoBlocks ==
    /\ zeros = {}
    /\ \/ /\ todo = <<Update(Block_Size), Compress, Update(Block_Size), Final>>
          /\ counter = 0 /\ compressed = <<>>
       \/ /\ todo = <<Compress, Update(Block_Size), Final>>
          /\ counter = Block_Size /\ compressed = <<>> /\ block = FirstBlock.block
       \/ /\ todo = <<Update(Block_Size), Final>>
          /\ counter = Block_Size /\ compressed = <<FirstBlock>>
       \/ /\ todo = <<Final>>
          /\ counter = 2 * Block_Size /\ compressed = <<FirstBlock>> /\ block = SecondBlock.block
       \/ /\ todo = <<>>
          /\ counter = 2 * Block_Size /\ compressed = <<FirstBlock, SecondBlock>>

Blake2bInv == OneBlock \/ OneBlockDone \/ TwoBlocks

LEMMA SmallModulo == ASSUME NEW a \in Nat, NEW b \in Nat, a < b PROVE a % b = a /\ b % b = 0
  OBVIOUS

(* A call sequence that fits is one from the start. *)
LEMMA StartsInOneBlock ==
  ASSUME NEW size \in 1 .. Block_Size, counter = 0,
         \/ todo = <<Update(size), Final>>
         \/ size \in Key_Sizes /\ todo = InitializeCalls(size)
         \/ todo = LongHashCalls
  PROVE  todo \in Seq(Calls) /\ Len(todo) > 1 /\ \E ends : FitsBlock(ends)
  <1>. Block_Size \in Nat /\ 76 <= Block_Size
    BY Blake2bAssumption
  <1>1. CASE todo = <<Update(size), Final>>
    <2>1. FitsBlock([k \in 0 .. 2 |-> IF k = 0 THEN 0 ELSE size])
      BY <1>1 DEF FitsBlock, Update, Final
    <2>. QED BY <1>1, <2>1 DEF Update, Final, Calls
  <1>2. CASE todo = LongHashCalls
    <2>1. FitsBlock([k \in 0 .. 3 |-> IF k = 0 THEN 0 ELSE IF k = 1 THEN 4 ELSE 76])
      BY <1>2 DEF FitsBlock, LongHashCalls, Update, Final
    <2>. QED BY <1>2, <2>1 DEF LongHashCalls, Update, Final, Calls
  <1>3. CASE size \in Key_Sizes /\ todo = InitializeCalls(size)
    <2> DEFINE ends == [k \in 0 .. 13 |-> IF k <= 7 THEN 4 * k
                                        ELSE IF k <= 9 THEN size + 28 + 4 * (k - 8)
                                        ELSE IF k = 10 THEN size + 40
                                        ELSE IF k = 11 THEN size + 44 ELSE size + 48]
    <2>1. size + 48 <= Block_Size
      BY <1>3, Blake2bAssumption
    <2>2. Len(todo) = 13
      BY <1>3 DEF InitializeCalls
    <2>3. ends \in [0 .. 13 -> 0 .. Block_Size]
      BY <2>1
    <2>4. \A k \in 1 .. 13 :
            \/ k < 13 /\ todo[k].call \in {"update", "update<true>"}
               /\ todo[k].size > 0 /\ ends[k] = ends[k - 1] + todo[k].size
            \/ k = 13 /\ todo[k].call = "final"
      BY <1>3 DEF InitializeCalls, Update, UpdateEmpty, Final
    <2>5. FitsBlock(ends)
      BY <2>2, <2>3, <2>4 DEF FitsBlock
    <2>6. todo \in Seq(Calls)
      BY <1>3 DEF InitializeCalls, Update, UpdateEmpty, Final, Calls
    <2>. QED BY <2>2, <2>5, <2>6
  <1>. QED BY <1>1, <1>2, <1>3

LEMMA Blake2bInitInv == Blake2bInit => Blake2bInv
  <1>. SUFFICES ASSUME Blake2bInit PROVE Blake2bInv
    OBVIOUS
  <1>. /\ Block_Size \in Nat /\ 76 <= Block_Size /\ Sizes \subseteq 1 .. Block_Size \union {2 * Block_Size}
       /\ Key_Sizes \subseteq Nat \ {0} /\ \A p \in Key_Sizes : p + 48 <= Block_Size
    BY Blake2bAssumption
  <1>1. counter = 0 /\ zeros = {} /\ compressed = <<>> /\ block = [i \in Positions |-> 0]
    BY DEF Blake2bInit
  <1>2. block = MessageBlock(1)
    BY <1>1 DEF MessageBlock, Positions
  <1>3. ASSUME NEW size \in 1 .. Block_Size,
               \/ todo = <<Update(size), Final>>
               \/ size \in Key_Sizes /\ todo = InitializeCalls(size)
               \/ todo = LongHashCalls
        PROVE  OneBlock
    <2>1. todo \in Seq(Calls) /\ Len(todo) > 1 /\ \E ends : FitsBlock(ends)
      BY <1>1, <1>3, StartsInOneBlock
    <2>. QED BY <1>1, <1>2, <2>1 DEF OneBlock
  <1>4. CASE todo = LongHashCalls
    BY <1>3, <1>4 DEF Blake2bInv
  <1>5. ASSUME NEW p \in Key_Sizes, todo = InitializeCalls(p) PROVE Blake2bInv
    <2>1. p \in 1 .. Block_Size
      OBVIOUS
    <2>. QED BY <1>3, <1>5, <2>1 DEF Blake2bInv
  <1>6. ASSUME NEW s \in Sizes, todo = HashCalls(s) PROVE Blake2bInv
    <2>1. CASE s <= Block_Size
      <3>1. s \in 1 .. Block_Size /\ todo = <<Update(s), Final>>
        BY <1>6, <2>1 DEF HashCalls
      <3>. QED BY <1>3, <3>1 DEF Blake2bInv
    <2>2. CASE ~ s <= Block_Size
      <3>1. s = 2 * Block_Size
        BY <2>2
      <3>2. s - Block_Size = Block_Size
        BY <3>1
      <3>3. todo = <<Update(Block_Size), Compress, Update(Block_Size), Final>>
        BY <1>6, <2>2, <3>2 DEF HashCalls
      <3>. QED BY <1>1, <3>3 DEF TwoBlocks, Blake2bInv
    <2>. QED BY <2>1, <2>2
  <1>. QED BY <1>4, <1>5, <1>6 DEF Blake2bInit

(* The rest of a sequence that fits does so behind the call that is made.  *)
LEMMA RestFits ==
  ASSUME todo \in Seq(Calls), Len(todo) > 1, NEW ends, FitsBlock(ends), todo' = Tail(todo),
         counter' = counter + todo[1].size
  PROVE  /\ todo' \in Seq(Calls) /\ todo' # <<>>
         /\ \E rest : FitsBlock(rest)'
         /\ todo[1].call \in {"update", "update<true>"} /\ todo[1].size \in Nat \ {0}
         /\ counter \in Nat /\ counter + todo[1].size <= Block_Size
         /\ Head(todo) = todo[1]
  <1>. Block_Size \in Nat
    BY Blake2bAssumption
  <1> DEFINE rest == [k \in 0 .. Len(todo) - 1 |-> ends[k + 1]]
  <1>1. /\ Tail(todo) \in Seq(Calls) /\ Len(Tail(todo)) = Len(todo) - 1 /\ Len(todo) \in Nat
        /\ \A k \in 1 .. Len(Tail(todo)) : Tail(todo)[k] = todo[k + 1]
    BY HeadTailProperties, LenProperties
  <1>2. todo[1] \in Calls /\ Head(todo) = todo[1]
    BY ElementOfSeq
  <1>0. /\ ends \in [0 .. Len(todo) -> 0 .. Block_Size] /\ ends[0] = counter
        /\ \A k \in 1 .. Len(todo) :
             \/ k < Len(todo) /\ todo[k].call \in {"update", "update<true>"}
                /\ todo[k].size > 0 /\ ends[k] = ends[k - 1] + todo[k].size
             \/ k = Len(todo) /\ todo[k].call = "final"
    BY Zenon DEF FitsBlock
  <1>3. /\ todo[1].call \in {"update", "update<true>"}
        /\ todo[1].size > 0 /\ ends[1] = counter + todo[1].size
    <2>1. 1 \in 1 .. Len(todo) /\ 1 # Len(todo) /\ 1 - 1 = 0
      BY <1>1
    <2>. QED BY <1>0, <2>1
  <1>4. ends[1] \in 0 .. Block_Size /\ counter \in 0 .. Block_Size
    <2>1. 1 \in 0 .. Len(todo) /\ 0 \in 0 .. Len(todo)
      BY <1>1
    <2>. QED BY <1>0, <2>1
  <1>5. rest \in [0 .. Len(todo) - 1 -> 0 .. Block_Size] /\ rest[0] = counter'
    <2>1. ASSUME NEW k \in 0 .. Len(todo) - 1 PROVE ends[k + 1] \in 0 .. Block_Size
      <3>1. k + 1 \in 0 .. Len(todo)
        BY <1>1
      <3>. QED BY <1>0, <3>1
    <2>2. rest \in [0 .. Len(todo) - 1 -> 0 .. Block_Size]
      BY <2>1
    <2>3. 0 \in 0 .. Len(todo) - 1 /\ 0 + 1 = 1
      BY <1>1
    <2>4. rest[0] = ends[1]
      BY <2>3
    <2>. QED BY <1>3, <2>2, <2>4
  <1>6. \A k \in 1 .. Len(todo') :
         \/ k < Len(todo') /\ todo'[k].call \in {"update", "update<true>"}
            /\ todo'[k].size > 0 /\ rest[k] = rest[k - 1] + todo'[k].size
         \/ k = Len(todo') /\ todo'[k].call = "final"
    <2>1. ASSUME NEW k \in 1 .. Len(todo) - 1
          PROVE  \/ k < Len(todo) - 1 /\ todo[k + 1].call \in {"update", "update<true>"}
                    /\ todo[k + 1].size > 0 /\ ends[k + 1] = ends[k] + todo[k + 1].size
                 \/ k = Len(todo) - 1 /\ todo[k + 1].call = "final"
      <3>1. k + 1 \in 1 .. Len(todo) /\ (k + 1) - 1 = k
        BY <1>1
      <3>2. \/ k + 1 < Len(todo) /\ todo[k + 1].call \in {"update", "update<true>"}
               /\ todo[k + 1].size > 0 /\ ends[k + 1] = ends[(k + 1) - 1] + todo[k + 1].size
            \/ k + 1 = Len(todo) /\ todo[k + 1].call = "final"
        BY <1>0, <3>1
      <3>3. ends[(k + 1) - 1] = ends[k]
        BY Zenon, <3>1
      <3>4. (k + 1 < Len(todo) <=> k < Len(todo) - 1) /\ (k + 1 = Len(todo) <=> k = Len(todo) - 1)
        BY <1>1
      <3>. QED BY Zenon, <3>2, <3>3, <3>4
    <2>2. ASSUME NEW k \in 1 .. Len(todo) - 1
          PROVE  rest[k] = ends[k + 1] /\ rest[k - 1] = ends[k] /\ todo'[k] = todo[k + 1]
      <3>1. k \in 0 .. Len(todo) - 1 /\ k - 1 \in 0 .. Len(todo) - 1 /\ (k - 1) + 1 = k
        BY <1>1
      <3>. QED BY <1>1, <3>1
    <2> HIDE DEF rest
    <2>3. Len(todo') = Len(todo) - 1
      BY <1>1
    <2>. QED BY <2>1, <2>2, <2>3
  <1> HIDE DEF rest
  <1>7. PICK ahead : ahead = rest
    OBVIOUS
  <1>8. \E q : FitsBlock(q)'
    <2>1. Len(todo') = Len(todo) - 1
      BY <1>1
    <2>2. ahead \in [0 .. Len(todo') -> 0 .. Block_Size] /\ ahead[0] = counter'
      BY <1>5, <1>7, <2>1
    <2>3. \A k \in 1 .. Len(todo') :
             \/ k < Len(todo') /\ todo'[k].call \in {"update", "update<true>"}
                /\ todo'[k].size > 0 /\ ahead[k] = ahead[k - 1] + todo'[k].size
             \/ k = Len(todo') /\ todo'[k].call = "final"
      BY Zenon, <1>6, <1>7
    <2>4. FitsBlock(ahead)'
      BY Zenon, <2>2, <2>3 DEF FitsBlock
    <2>. QED BY Zenon, <2>4
  <1>9. todo[1].size \in Nat
    BY <1>2 DEF Calls
  <1>10. todo' # <<>>
    <2>1. Len(Tail(todo)) # 0
      BY <1>1
    <2>. QED BY Zenon, <1>1, <2>1, EmptySeq
  <1>11. todo[1].size \in Nat \ {0} /\ counter \in Nat /\ counter + todo[1].size <= Block_Size
    BY <1>3, <1>4, <1>9
  <1>. QED BY <1>1, <1>2, <1>3, <1>8, <1>10, <1>11

LEMMA OneBlockUpdate ==
  ASSUME OneBlock, DoUpdate \/ DoUpdateEmpty PROVE OneBlock'
  <1>. Block_Size \in Nat \ {0} /\ todo \in Seq(Calls) /\ todo # <<>>
    BY Blake2bAssumption DEF OneBlock
  <1>1. PICK ends : FitsBlock(ends)
    BY DEF OneBlock
  <1>2. Head(todo) = todo[1] /\ Len(todo) \in Nat \ {0}
    BY LenProperties, EmptySeq
  <1>3. Len(todo) > 1
    <2>1. todo[1].call # "final"
      BY <1>2 DEF DoUpdate, DoUpdateEmpty
    <2>. QED BY <1>1, <1>2, <2>1 DEF FitsBlock
  <1>4. todo' = Tail(todo) /\ counter' = counter + todo[1].size /\ compressed' = <<>>
    BY <1>2 DEF DoUpdate, DoUpdateEmpty, Counted, OneBlock
  <1>5. /\ todo' \in Seq(Calls) /\ todo' # <<>>
        /\ \E rest : FitsBlock(rest)'
        /\ todo[1].size \in Nat \ {0}
        /\ counter \in Nat /\ counter + todo[1].size <= Block_Size
    BY <1>1, <1>3, <1>4, RestFits
  <1>6. counter % Block_Size = counter
    <2>1. counter < Block_Size
      BY <1>5
    <2>. QED BY <1>5, <2>1, SmallModulo
  <1>7. block = [i \in Positions |-> IF i <= counter /\ i \notin zeros THEN i ELSE 0]
    BY DEF OneBlock, MessageBlock, Positions
  <1>8. CASE DoUpdate
    <2>1. /\ block' = [i \in Positions |-> IF i > counter /\ i <= counter + todo[1].size
                                           THEN i ELSE block[i]]
          /\ zeros' = zeros
      <3>1. /\ block' = [i \in Positions |->
                            IF i > Place(0) /\ i <= Place(todo[1].size)
                            THEN counter + i - Place(0) ELSE block[i]]
            /\ zeros' = zeros
        BY Zenon, <1>2, <1>8 DEF DoUpdate
      <3>2. Place(0) = counter /\ Place(todo[1].size) = counter + todo[1].size
        BY <1>5, <1>6 DEF Place
      <3>3. \A i \in Positions : counter + i - counter = i
        BY <1>5 DEF Positions
      <3>. QED BY <3>1, <3>2, <3>3
    <2>2. zeros \subseteq 1 .. counter
      BY DEF OneBlock
    <2>3. block' = [i \in Positions |-> IF i <= counter' /\ i \notin zeros' THEN i ELSE 0]
      BY <1>4, <1>5, <1>7, <2>1, <2>2 DEF Positions
    <2>4. block' = MessageBlock(1)'
      BY <2>3 DEF MessageBlock, Positions
    <2>5. zeros' \subseteq 1 .. counter'
      BY <1>4, <1>5, <2>1, <2>2
    <2>. QED BY <1>4, <1>5, <2>4, <2>5 DEF OneBlock
  <1>9. CASE DoUpdateEmpty
    <2>1. block' = block /\ zeros' = zeros \union (counter + 1 .. counter + todo[1].size)
      BY <1>2, <1>9 DEF DoUpdateEmpty
    <2>2. zeros \subseteq 1 .. counter
      BY DEF OneBlock
    <2>3. block' = [i \in Positions |-> IF i <= counter' /\ i \notin zeros' THEN i ELSE 0]
      BY <1>4, <1>5, <1>7, <2>1, <2>2 DEF Positions
    <2>4. block' = MessageBlock(1)'
      BY <2>3 DEF MessageBlock, Positions
    <2>5. zeros' \subseteq 1 .. counter'
      <3>1. 1 .. counter \subseteq 1 .. counter'
        BY <1>4, <1>5
      <3>2. counter + 1 .. counter + todo[1].size \subseteq 1 .. counter'
        BY <1>4, <1>5
      <3>. QED BY <2>1, <2>2, <3>1, <3>2
    <2>. QED BY <1>4, <1>5, <2>4, <2>5 DEF OneBlock
  <1>. QED BY <1>8, <1>9

LEMMA OneBlockCompress == ASSUME OneBlock, DoCompress PROVE OneBlockDone'
  <1>. Block_Size \in Nat \ {0} /\ todo \in Seq(Calls) /\ todo # <<>> /\ compressed = <<>>
    BY Blake2bAssumption DEF OneBlock
  <1>1. PICK ends : FitsBlock(ends)
    BY DEF OneBlock
  <1>2. Head(todo) = todo[1] /\ Len(todo) \in Nat \ {0}
    BY LenProperties, EmptySeq
  <1>3. Len(todo) = 1 /\ todo[1].call = "final"
    <2>1. todo[1].call \in {"compress", "final"} /\ 1 \in 1 .. Len(todo)
      BY <1>2 DEF DoCompress
    <2>. QED BY <1>1, <2>1 DEF FitsBlock
  <1>4. Tail(todo) = <<>>
    <2>1. Tail(todo) \in Seq(Calls) /\ Len(Tail(todo)) = 0
      BY <1>3, HeadTailProperties
    <2>. QED BY <2>1, EmptySeq
  <1>5. counter \in 1 .. Block_Size
    BY <1>1, <1>2, <1>3 DEF FitsBlock, OneBlock
  <1>6. /\ compressed' = Append(compressed, [block |-> block, counter |-> counter,
                                               last |-> Head(todo).call = "final"])
        /\ counter' = counter /\ zeros' = zeros /\ todo' = Tail(todo)
    BY Zenon DEF DoCompress
  <1>7. MessageBlock(1)' = MessageBlock(1)
    BY <1>6 DEF MessageBlock
  <1>8. (Head(todo).call = "final") = TRUE /\ block = MessageBlock(1)
    BY <1>2, <1>3 DEF OneBlock
  <1>9. compressed' = Append(<<>>, [block |-> MessageBlock(1), counter |-> counter, last |-> TRUE])
    BY Zenon, <1>6, <1>8
  <1>10. compressed' = <<[block |-> MessageBlock(1)', counter |-> counter', last |-> TRUE]>>
    <2> DEFINE whole == [block |-> MessageBlock(1), counter |-> counter, last |-> TRUE]
    <2>1. [block |-> MessageBlock(1)', counter |-> counter', last |-> TRUE] = whole
      BY Zenon, <1>6, <1>7
    <2>2. compressed' = Append(<<>>, whole)
      BY Zenon, <1>9
    <2> HIDE DEF whole
    <2>. QED BY <2>1, <2>2
  <1>. QED BY <1>4, <1>5, <1>6, <1>10 DEF OneBlockDone

LEMMA TwoBlocksStep ==
  ASSUME TwoBlocks, DoUpdate \/ DoUpdateEmpty \/ DoCompress PROVE TwoBlocks'
  <1>. Block_Size \in Nat \ {0} /\ 0 % Block_Size = 0 /\ Block_Size % Block_Size = 0 /\ zeros = {}
    BY Blake2bAssumption, SmallModulo DEF TwoBlocks
  <1>1. CASE /\ todo = <<Update(Block_Size), Compress, Update(Block_Size), Final>>
             /\ counter = 0 /\ compressed = <<>>
    <2>1. Head(todo) = Update(Block_Size) /\ Tail(todo) = <<Compress, Update(Block_Size), Final>>
      BY <1>1
    <2>2. /\ block' = [i \in Positions |-> IF i > 0 /\ i <= Block_Size THEN i ELSE block[i]]
          /\ counter' = Block_Size /\ todo' = <<Compress, Update(Block_Size), Final>>
          /\ zeros' = {} /\ compressed' = <<>>
      BY <1>1, <2>1 DEF DoUpdate, DoUpdateEmpty, DoCompress, Update, Place, Counted, Positions
    <2>3. block' = FirstBlock.block
      BY <2>2 DEF FirstBlock, Positions
    <2>. QED BY <2>2, <2>3 DEF TwoBlocks, FirstBlock, SecondBlock, Update, Compress, Final, Positions
  <1>2. CASE /\ todo = <<Compress, Update(Block_Size), Final>>
             /\ counter = Block_Size /\ compressed = <<>> /\ block = FirstBlock.block
    <2>1. Head(todo) = Compress /\ Tail(todo) = <<Update(Block_Size), Final>>
      BY <1>2
    <2>3. DoCompress /\ Head(todo).call = "compress"
      BY <2>1 DEF DoUpdate, DoUpdateEmpty, Compress
    <2>4. /\ compressed' = Append(compressed, [block |-> block, counter |-> counter,
                                               last |-> Head(todo).call = "final"])
          /\ counter' = counter /\ zeros' = zeros /\ todo' = Tail(todo)
      BY Zenon, <2>3 DEF DoCompress
    <2>5. (Head(todo).call = "final") = FALSE
      BY <2>3
    <2>6. [block |-> block, counter |-> counter, last |-> Head(todo).call = "final"] = FirstBlock
      BY Zenon, <1>2, <2>5 DEF FirstBlock
    <2>7. compressed' = <<FirstBlock>>
      BY <1>2, <2>4, <2>6
    <2>2. /\ compressed' = <<FirstBlock>>
          /\ counter' = Block_Size /\ todo' = <<Update(Block_Size), Final>> /\ zeros' = {}
      BY <1>2, <2>1, <2>4, <2>7
    <2>. QED BY <2>2 DEF TwoBlocks, FirstBlock, SecondBlock, Update, Compress, Final, Positions
  <1>3. CASE /\ todo = <<Update(Block_Size), Final>>
             /\ counter = Block_Size /\ compressed = <<FirstBlock>>
    <2>1. Head(todo) = Update(Block_Size) /\ Tail(todo) = <<Final>>
      BY <1>3
    <2>2. /\ block' = [i \in Positions |-> IF i > 0 /\ i <= Block_Size
                                           THEN Block_Size + i ELSE block[i]]
          /\ counter' = 2 * Block_Size /\ todo' = <<Final>>
          /\ zeros' = {} /\ compressed' = <<FirstBlock>>
      BY <1>3, <2>1 DEF DoUpdate, DoUpdateEmpty, DoCompress, Update, Place, Counted, Positions
    <2>3. block' = SecondBlock.block
      BY <2>2 DEF SecondBlock, Positions
    <2>. QED BY <2>2, <2>3 DEF TwoBlocks, FirstBlock, SecondBlock, Update, Compress, Final, Positions
  <1>4. CASE /\ todo = <<Final>>
             /\ counter = 2 * Block_Size /\ compressed = <<FirstBlock>> /\ block = SecondBlock.block
    <2>1. Head(todo) = Final /\ Tail(todo) = <<>>
      BY <1>4
    <2>3. DoCompress /\ Head(todo).call = "final"
      BY <2>1 DEF DoUpdate, DoUpdateEmpty, Final
    <2>4. /\ compressed' = Append(compressed, [block |-> block, counter |-> counter,
                                               last |-> Head(todo).call = "final"])
          /\ counter' = counter /\ zeros' = zeros /\ todo' = Tail(todo)
      BY Zenon, <2>3 DEF DoCompress
    <2>5. (Head(todo).call = "final") = TRUE
      BY <2>3
    <2>6. [block |-> block, counter |-> counter, last |-> Head(todo).call = "final"] = SecondBlock
      BY Zenon, <1>4, <2>5 DEF SecondBlock
    <2>7. compressed' = <<FirstBlock, SecondBlock>>
      <3>1. compressed' = Append(<<FirstBlock>>, SecondBlock)
        BY Zenon, <1>4, <2>4, <2>6
      <3>. QED BY <3>1, AppendTwo
    <2>2. /\ compressed' = <<FirstBlock, SecondBlock>>
          /\ counter' = 2 * Block_Size /\ todo' = <<>> /\ zeros' = {}
      BY <1>4, <2>1, <2>4, <2>7
    <2>. QED BY <2>2 DEF TwoBlocks, FirstBlock, SecondBlock, Update, Compress, Final, Positions
  <1>5. CASE todo = <<>>
    BY <1>5 DEF DoUpdate, DoUpdateEmpty, DoCompress
  <1>. QED BY <1>1, <1>2, <1>3, <1>4, <1>5 DEF TwoBlocks

LEMMA OneBlockMessage == OneBlockDone => CompressesMessage
  <1>. SUFFICES ASSUME OneBlockDone PROVE CompressesMessage
    OBVIOUS
  <1>. Block_Size \in Nat \ {0} /\ counter \in 1 .. Block_Size
    BY Blake2bAssumption DEF OneBlockDone
  <1>1. MessageBlocks = 1
    BY DEF MessageBlocks
  <1> DEFINE b(k) == [block |-> MessageBlock(k),
                      counter |-> IF k = MessageBlocks THEN counter ELSE k * Block_Size,
                      last |-> k = MessageBlocks]
  <1>2. b(1) = [block |-> MessageBlock(1), counter |-> counter, last |-> TRUE]
    <2>1. (1 = MessageBlocks) = TRUE
      BY <1>1
    <2>2. (IF 1 = MessageBlocks THEN counter ELSE 1 * Block_Size) = counter
      BY <1>1
    <2>. QED BY Zenon, <2>1, <2>2
  <1>3. compressed = <<b(1)>>
    BY Zenon, <1>2 DEF OneBlockDone
  <1> HIDE DEF b
  <1>4. compressed = [k \in 1 .. MessageBlocks |-> b(k)]
    BY <1>1, <1>3
  <1>. QED BY <1>4 DEF CompressesMessage, b

LEMMA TwoBlocksMessage == TwoBlocks => CompressesMessage
  <1>. SUFFICES ASSUME TwoBlocks, todo = <<>> PROVE CompressesMessage
    BY DEF CompressesMessage
  <1>. Block_Size \in Nat \ {0}
    BY Blake2bAssumption
  <1>1. zeros = {} /\ counter = 2 * Block_Size /\ compressed = <<FirstBlock, SecondBlock>>
    BY DEF TwoBlocks
  <1>2. MessageBlocks = 2
    BY <1>1 DEF MessageBlocks
  <1>3. MessageBlock(1) = FirstBlock.block /\ MessageBlock(2) = SecondBlock.block
    BY <1>1 DEF MessageBlock, FirstBlock, SecondBlock, Positions
  <1> DEFINE b(k) == [block |-> MessageBlock(k),
                      counter |-> IF k = MessageBlocks THEN counter ELSE k * Block_Size,
                      last |-> k = MessageBlocks]
  <1>4. b(1) = FirstBlock
    <2>1. (1 = MessageBlocks) = FALSE
      BY <1>2
    <2>2. (IF 1 = MessageBlocks THEN counter ELSE 1 * Block_Size) = Block_Size
      BY <1>2
    <2>. QED BY Zenon, <1>3, <2>1, <2>2 DEF FirstBlock
  <1>5. b(2) = SecondBlock
    <2>1. (2 = MessageBlocks) = TRUE
      BY <1>2
    <2>2. (IF 2 = MessageBlocks THEN counter ELSE 2 * Block_Size) = 2 * Block_Size
      BY <1>1, <1>2
    <2>. QED BY Zenon, <1>3, <2>1, <2>2 DEF SecondBlock
  <1>6. compressed = <<b(1), b(2)>>
    BY Zenon, <1>1, <1>4, <1>5
  <1> HIDE DEF b
  <1>7. compressed = [k \in 1 .. MessageBlocks |-> b(k)]
    BY <1>2, <1>6
  <1>. QED BY <1>7 DEF CompressesMessage, b

(* Blake2b's compression gets the blocks of the message in order, the last *)
(* one padded with zeros, for inputs of up to a block, of two whole ones,  *)
(* and for whatever is put together from pieces that fit into one.         *)
THEOREM Blake2bCompressesMessage == Blake2bSpec => []CompressesMessage
  <1>1. Blake2bInv /\ [Blake2bNext]_blake2bVars => Blake2bInv'
    <2>1. ASSUME Blake2bInv, UNCHANGED blake2bVars PROVE Blake2bInv'
      BY <2>1 DEF Blake2bInv, OneBlock, OneBlockDone, TwoBlocks, FitsBlock, MessageBlock, blake2bVars
    <2>2. ASSUME OneBlockDone, DoUpdate \/ DoUpdateEmpty \/ DoCompress PROVE FALSE
      BY <2>2 DEF OneBlockDone, DoUpdate, DoUpdateEmpty, DoCompress
    <2>. QED BY <2>1, <2>2, OneBlockUpdate, OneBlockCompress, TwoBlocksStep DEF Blake2bNext, Blake2bInv
  <1>2. OneBlock => CompressesMessage
    BY DEF OneBlock, CompressesMessage
  <1>3. Blake2bInv => CompressesMessage
    BY <1>2, OneBlockMessage, TwoBlocksMessage DEF Blake2bInv
  <1>. QED BY Blake2bInitInv, <1>1, <1>3, PTL DEF Blake2bSpec

-----------------------------------------------------------------------------
(* DatasetPartition: division with rest, and what the divisor gives.       *)

LEMMA ProductDivided == ASSUME NEW a \in Nat, NEW b \in Nat \ {0} PROVE (b * a) \div b = a
  OBVIOUS
LEMMA DivisionWithRest ==
  ASSUME NEW a \in Nat, NEW b \in Nat \ {0}
  PROVE  a \div b \in Nat /\ a % b \in Nat /\ a = b * (a \div b) + (a % b)
  OBVIOUS
LEMMA ProductsArePositive == ASSUME NEW a \in Nat \ {0}, NEW b \in Nat \ {0} PROVE a * b \in Nat \ {0} /\ a <= a * b
  OBVIOUS

(* The divisor that is kept leaves the padding as it is without a division. *)
PartitionInv ==
    /\ thread_count \in Nat \ {0} /\ task_divisor \in Nat \ {0}
    /\ phase \in {"divide", "divided"}
    /\ phase = "divide" =>
         task_divisor = 1 \/ \E e \in Nat \ {0} : task_divisor = 2 * e /\ Padding(e) = Padding(1)
    /\ phase = "divided" => Padding(task_divisor) = Padding(1)

LEMMA PartitionInitInv == PartitionInit => PartitionInv
  BY PartitionAssumption DEF PartitionInit, PartitionInv

LEMMA PartitionStepInv == PartitionInv /\ [PartitionNext]_partitionVars => PartitionInv'
  <1>. SUFFICES ASSUME PartitionInv, [PartitionNext]_partitionVars PROVE PartitionInv'
    OBVIOUS
  <1>1. CASE Divide
    <2>1. /\ thread_count' = thread_count /\ phase' = "divide" /\ task_divisor' = 2 * task_divisor
          /\ Padding(task_divisor) = Padding(1)
      BY <1>1 DEF Divide, MayDivide
    <2>2. task_divisor \in Nat \ {0} /\ thread_count \in Nat \ {0}
      BY DEF PartitionInv
    <2>3. \A e : Padding(e)' = Padding(e)
      BY <2>1 DEF Padding, Alignment
    <2>. QED BY <2>1, <2>2, <2>3 DEF PartitionInv
  <1>2. CASE Divided
    <2>1. /\ thread_count' = thread_count /\ phase' = "divided"
          /\ task_divisor' = LastDivisor(task_divisor)
      BY <1>2 DEF Divided
    <2>2. LastDivisor(task_divisor) \in Nat \ {0}
          /\ Padding(LastDivisor(task_divisor)) = Padding(1)
      <3>1. CASE task_divisor = 1
        BY <3>1 DEF LastDivisor
      <3>2. ASSUME NEW e \in Nat \ {0}, task_divisor = 2 * e, Padding(e) = Padding(1)
            PROVE  LastDivisor(task_divisor) = e
        BY <3>2 DEF LastDivisor
      <3>. QED BY <1>2, <3>1, <3>2 DEF Divided, PartitionInv
    <2>3. \A e : Padding(e)' = Padding(e)
      BY <2>1 DEF Padding, Alignment
    <2>4. thread_count \in Nat \ {0}
      BY DEF PartitionInv
    <2>. QED BY <2>1, <2>2, <2>3, <2>4 DEF PartitionInv
  <1>3. CASE UNCHANGED partitionVars
    BY <1>3 DEF PartitionInv, partitionVars, Padding, Alignment
  <1>. QED BY <1>1, <1>2, <1>3 DEF PartitionNext

(* With the padding of a division into e jobs for each thread, everything  *)
(* is a multiple of what it is divided by.                                 *)
LEMMA PartitionCovers == PartitionInv => JobsCoverDataset
  <1>. SUFFICES ASSUME PartitionInv, phase = "divided" PROVE JobsCoverDataset
    BY DEF JobsCoverDataset
  <1> DEFINE t == thread_count
             e == task_divisor
             m == (Dataset_Items \div Alignment(e)) + 1
  <1>1. t \in Nat \ {0} /\ e \in Nat \ {0} /\ Padding(e) = Padding(1)
    BY DEF PartitionInv
  <1>2. t * e \in Nat \ {0} /\ t <= t * e
    BY <1>1, ProductsArePositive
  <1>3. Alignment(e) = 4 * (t * e) /\ Alignment(e) \in Nat \ {0}
    BY <1>1, <1>2 DEF Alignment, Batch
  <1>4. m \in Nat \ {0} /\ dataset_items_count = Alignment(e) * m
    <2>1. /\ Dataset_Items \div Alignment(e) \in Nat
          /\ Dataset_Items % Alignment(e) \in Nat /\ Dataset_Items \in Nat
          /\ Dataset_Items = Alignment(e) * (Dataset_Items \div Alignment(e))
                               + (Dataset_Items % Alignment(e))
      BY <1>3, PartitionAssumption, DivisionWithRest
    <2>2. dataset_items_count = Dataset_Items + Alignment(e) - (Dataset_Items % Alignment(e))
      BY <1>1, <1>3, <2>1 DEF dataset_items_count, Padding
    <2> HIDE DEF e, t
    <2>. QED BY <1>3, <2>1, <2>2
  <1> HIDE DEF m
  <1>5. dataset_items_count = t * (e * (4 * m)) /\ dataset_items_count = (t * e) * (4 * m)
        /\ e * (4 * m) \in Nat /\ 4 * m \in Nat \ {0}
    BY <1>1, <1>3, <1>4
  <1>6. items_per_thread = e * (4 * m)
    BY <1>1, <1>5, ProductDivided DEF items_per_thread
  <1>7. items_per_job = 4 * m
    BY <1>1, <1>5, <1>6, ProductDivided DEF items_per_job
  <1>8. max_jobs = t * e
    <2>1. dataset_items_count = (4 * m) * (t * e)
      BY <1>1, <1>5
    <2>. QED BY <1>2, <1>5, <1>7, <2>1, ProductDivided DEF max_jobs
  <1>9. (4 * m) % 4 = 0
    BY <1>4
  <1>. QED BY <1>2, <1>5, <1>7, <1>8, <1>9 DEF JobsCoverDataset, Batch

(* For any number of threads and any size of the dataset, the batches are  *)
(* multiples of four and the jobs that the partition gives are just enough *)
(* for the whole dataset.                                                  *)
THEOREM PartitionCoversDataset == PartitionSpec => []JobsCoverDataset
  <1>. QED BY PartitionInitInv, PartitionStepInv, PartitionCovers, PTL DEF PartitionSpec

-----------------------------------------------------------------------------
(* AesPasses: the lines of a pass, read before they are overwritten.       *)

LEMMA LeastNatural ==
  ASSUME NEW B \in SUBSET Nat, B # {}
  PROVE  \E m \in B : \A k \in B : m <= k
  <1> DEFINE T == {0 .. n : n \in B}
  <1>1. T \subseteq FiniteSubsetsOf(Nat) /\ T # {}
    <2>1. ASSUME NEW n \in B PROVE 0 .. n \in FiniteSubsetsOf(Nat)
      <3>1. 0 .. n \in SUBSET Nat /\ n \in Int /\ 0 \in Int
        OBVIOUS
      <3>2. IsFiniteSet(0 .. n)
        BY <3>1, FS_Interval
      <3>. QED BY <3>1, <3>2 DEF FiniteSubsetsOf
    <2>. QED BY <2>1
  <1>2. IsWellFoundedOn(StrictSubsetOrdering(Nat), FiniteSubsetsOf(Nat))
    BY FS_StrictSubsetOrderingWellFounded
  <1> HIDE DEF T
  <1>3. PICK x \in T : \A y \in T : ~ (<<y, x>> \in StrictSubsetOrdering(Nat))
    BY <1>1, <1>2, WFMin
  <1> USE DEF T
  <1>4. PICK m \in B : x = 0 .. m
    BY <1>3
  <1>5. ASSUME NEW k \in B, k < m PROVE FALSE
    <2>1. 0 .. k \in T /\ 0 .. k \subseteq 0 .. m /\ 0 .. k # 0 .. m
      BY <1>5
    <2>2. <<0 .. k, x>> \in StrictSubsetOrdering(Nat)
      BY <2>1, <1>4 DEF StrictSubsetOrdering
    <2>. QED BY <2>1, <2>2, <1>3
  <1>. QED BY <1>5

(* The three passes over lines as one recursion: what a pass makes of its  *)
(* state at line n, and the states it goes through.                        *)
PassLine(call, input, n, st) ==
    IF call = "fill1R" THEN Advance1R(st)
    ELSE IF call = "fill4R" THEN Advance4R(st) ELSE Absorb(st, input[n])
States(call, input, st, i, f) ==
    f = [n \in 0 .. i |-> IF n = 0 THEN st ELSE PassLine(call, input, n - 1, f[n - 1])]

(* There is one such function for every number of lines, *)
LEMMA StatesExist ==
  ASSUME NEW call, NEW input, NEW st, NEW i \in Nat
  PROVE  \E f : States(call, input, st, i, f)
  <1> DEFINE B == {n \in Nat : ~ \E f : States(call, input, st, n, f)}
  <1>1. ASSUME B # {} PROVE FALSE
    <2>1. PICK m \in B : \A k \in B : m <= k
      <3>1. B \in SUBSET Nat
        OBVIOUS
      <3> HIDE DEF B
      <3>. QED BY <1>1, <3>1, LeastNatural
    <2>2. CASE m = 0
      <3>1. States(call, input, st, 0, [n \in 0 .. 0 |-> st])
        BY DEF States
      <3>. QED BY <2>1, <2>2, <3>1
    <2>3. CASE m > 0
      <3>1. m - 1 \in Nat /\ m - 1 \notin B /\ m \in Nat
        BY <2>1, <2>3
      <3>2. PICK f : States(call, input, st, m - 1, f)
        BY <3>1
      <3> DEFINE last == PassLine(call, input, m - 1, f[m - 1])
                 g == [n \in 0 .. m |-> IF n < m THEN f[n] ELSE last]
      <3>3. ASSUME NEW n \in 0 .. m
            PROVE  g[n] = IF n = 0 THEN st ELSE PassLine(call, input, n - 1, g[n - 1])
        <4>1. CASE n = 0
          BY <2>3, <3>1, <3>2, <4>1 DEF States
        <4>2. CASE n > 0 /\ n < m
          <5>1. n \in 0 .. m - 1 /\ n - 1 \in 0 .. m /\ n - 1 < m
            BY <3>1, <4>2
          <5>2. f[n] = PassLine(call, input, n - 1, f[n - 1])
            BY <3>2, <4>2, <5>1 DEF States
          <5>3. g[n] = f[n] /\ g[n - 1] = f[n - 1]
            BY <4>2, <5>1
          <5>. QED BY <4>2, <5>2, <5>3
        <4>3. CASE n = m
          <5>1. m - 1 \in 0 .. m /\ m - 1 < m
            BY <3>1
          <5>2. g[m] = last /\ g[m - 1] = f[m - 1]
            BY <3>1, <5>1
          <5> HIDE DEF g
          <5>. QED BY <2>3, <4>3, <5>2
        <4>. QED BY <3>1, <4>1, <4>2, <4>3
      <3>4. g = [n \in 0 .. m |-> IF n = 0 THEN st ELSE PassLine(call, input, n - 1, g[n - 1])]
        <4>1. g = [n \in 0 .. m |-> g[n]]
          OBVIOUS
        <4> HIDE DEF g
        <4>. QED BY <3>3, <4>1
      <3>5. States(call, input, st, m, g)
        BY Zenon, <3>4 DEF States
      <3>. QED BY <2>1, <3>5
    <2>. QED BY <2>1, <2>2, <2>3
  <1>. QED BY <1>1

(* and any two agree on the lines of both.                                 *)
LEMMA StatesAgree ==
  ASSUME NEW call, NEW input, NEW st, NEW i \in Nat, NEW j \in Nat, NEW f, NEW g,
         States(call, input, st, i, f), States(call, input, st, j, g)
  PROVE  \A n \in Nat : n <= i /\ n <= j => f[n] = g[n]
  <1> DEFINE B == {n \in Nat : n <= i /\ n <= j /\ f[n] # g[n]}
  <1>1. ASSUME B # {} PROVE FALSE
    <2>1. PICK m \in B : \A k \in B : m <= k
      <3>1. B \in SUBSET Nat
        OBVIOUS
      <3> HIDE DEF B
      <3>. QED BY <1>1, <3>1, LeastNatural
    <2>2. m \in Nat /\ m \in 0 .. i /\ m \in 0 .. j /\ f[m] # g[m]
      BY <2>1
    <2>3. /\ f[m] = IF m = 0 THEN st ELSE PassLine(call, input, m - 1, f[m - 1])
          /\ g[m] = IF m = 0 THEN st ELSE PassLine(call, input, m - 1, g[m - 1])
      BY <2>2 DEF States
    <2>4. CASE m > 0
      <3>1. m - 1 \in Nat /\ m - 1 <= i /\ m - 1 <= j /\ m - 1 \notin B
        BY <2>1, <2>2, <2>4
      <3>2. f[m - 1] = g[m - 1]
        BY <3>1
      <3>. QED BY <2>2, <2>3, <3>2
    <2>5. m = 0 \/ m > 0
      BY <2>2
    <2>. QED BY <2>2, <2>3, <2>4, <2>5
  <1>. QED BY <1>1

LEMMA After1RStates ==
  ASSUME NEW st, NEW i \in Nat
  PROVE  \E f : States("fill1R", 0, st, i, f) /\ After1R(st, i) = f[i]
  <1> DEFINE f == CHOOSE g : g = [n \in 0 .. i |-> IF n = 0 THEN st ELSE Advance1R(g[n - 1])]
  <1>1. \A g : States("fill1R", 0, st, i, g) <=>
                 g = [n \in 0 .. i |-> IF n = 0 THEN st ELSE Advance1R(g[n - 1])]
    BY DEF States, PassLine
  <1>2. \E g : g = [n \in 0 .. i |-> IF n = 0 THEN st ELSE Advance1R(g[n - 1])]
    BY <1>1, StatesExist
  <1>3. f = [n \in 0 .. i |-> IF n = 0 THEN st ELSE Advance1R(f[n - 1])]
    BY Zenon, <1>2
  <1>4. After1R(st, i) = f[i]
    BY Zenon DEF After1R
  <1> HIDE DEF f
  <1>. QED BY <1>1, <1>3, <1>4

LEMMA After4RStates ==
  ASSUME NEW st, NEW i \in Nat
  PROVE  \E f : States("fill4R", 0, st, i, f) /\ After4R(st, i) = f[i]
  <1> DEFINE f == CHOOSE g : g = [n \in 0 .. i |-> IF n = 0 THEN st ELSE Advance4R(g[n - 1])]
  <1>1. \A g : States("fill4R", 0, st, i, g) <=>
                 g = [n \in 0 .. i |-> IF n = 0 THEN st ELSE Advance4R(g[n - 1])]
    BY DEF States, PassLine
  <1>2. \E g : g = [n \in 0 .. i |-> IF n = 0 THEN st ELSE Advance4R(g[n - 1])]
    BY <1>1, StatesExist
  <1>3. f = [n \in 0 .. i |-> IF n = 0 THEN st ELSE Advance4R(f[n - 1])]
    BY Zenon, <1>2
  <1>4. After4R(st, i) = f[i]
    BY Zenon DEF After4R
  <1> HIDE DEF f
  <1>. QED BY <1>1, <1>3, <1>4

(* One more line. *)
LEMMA AfterLine ==
  ASSUME NEW st, NEW i \in Nat
  PROVE  /\ After1R(st, 0) = st /\ After1R(st, i + 1) = Advance1R(After1R(st, i))
         /\ After4R(st, 0) = st /\ After4R(st, i + 1) = Advance4R(After4R(st, i))
  <1>1. 0 \in 0 .. 0 /\ i + 1 \in 0 .. i + 1 /\ i + 1 # 0 /\ (i + 1) - 1 = i /\ 0 \in Nat
        /\ i <= i + 1 /\ i <= i /\ i + 1 \in Nat
    OBVIOUS
  <1>2. After1R(st, 0) = st
    <2>1. PICK f : States("fill1R", 0, st, 0, f) /\ After1R(st, 0) = f[0]
      BY After1RStates
    <2>. QED BY <2>1 DEF States
  <1>3. After4R(st, 0) = st
    <2>1. PICK f : States("fill4R", 0, st, 0, f) /\ After4R(st, 0) = f[0]
      BY After4RStates
    <2>. QED BY <2>1 DEF States
  <1>4. After1R(st, i + 1) = Advance1R(After1R(st, i))
    <2>1. PICK f : States("fill1R", 0, st, i, f) /\ After1R(st, i) = f[i]
      BY After1RStates
    <2>2. PICK g : States("fill1R", 0, st, i + 1, g) /\ After1R(st, i + 1) = g[i + 1]
      BY <1>1, After1RStates
    <2>3. f[i] = g[i]
      BY <1>1, <2>1, <2>2, StatesAgree
    <2>4. g[i + 1] = PassLine("fill1R", 0, i, g[i])
      BY <1>1, <2>2 DEF States
    <2>. QED BY <2>1, <2>2, <2>3, <2>4 DEF PassLine
  <1>5. After4R(st, i + 1) = Advance4R(After4R(st, i))
    <2>1. PICK f : States("fill4R", 0, st, i, f) /\ After4R(st, i) = f[i]
      BY After4RStates
    <2>2. PICK g : States("fill4R", 0, st, i + 1, g) /\ After4R(st, i + 1) = g[i + 1]
      BY <1>1, After4RStates
    <2>3. f[i] = g[i]
      BY <1>1, <2>1, <2>2, StatesAgree
    <2>4. g[i + 1] = PassLine("fill4R", 0, i, g[i])
      BY <1>1, <2>2 DEF States
    <2>. QED BY <2>1, <2>2, <2>3, <2>4 DEF PassLine
  <1>. QED BY <1>2, <1>3, <1>4, <1>5

(* The states hash1R goes through. *)
HashStates(input) ==
    CHOOSE f : f = [i \in 0 .. Pad_Lines |->
                      IF i = 0 THEN HashState ELSE Absorb(f[i - 1], input[i - 1])]

LEMMA HashLines ==
  ASSUME NEW input
  PROVE  /\ HashStates(input)[0] = HashState
         /\ \A i \in 0 .. Pad_Lines - 1 :
              HashStates(input)[i + 1] = Absorb(HashStates(input)[i], input[i])
         /\ Hash1R(input) = Absorb(Absorb(HashStates(input)[Pad_Lines], XKey(0)), XKey(1))
  <1>. Pad_Lines \in Nat \ {0}
    BY AesAssumption
  <1>1. \A g : States("hashAndFill1R", input, HashState, Pad_Lines, g) <=>
                 g = [n \in 0 .. Pad_Lines |-> IF n = 0 THEN HashState ELSE Absorb(g[n - 1], input[n - 1])]
    BY DEF States, PassLine
  <1>2. \E g : g = [n \in 0 .. Pad_Lines |->
                     IF n = 0 THEN HashState ELSE Absorb(g[n - 1], input[n - 1])]
    BY <1>1, StatesExist
  <1>3. HashStates(input) = [n \in 0 .. Pad_Lines |->
           IF n = 0 THEN HashState ELSE Absorb(HashStates(input)[n - 1], input[n - 1])]
    BY Zenon, <1>2 DEF HashStates
  <1>4. Hash1R(input) = Absorb(Absorb(HashStates(input)[Pad_Lines], XKey(0)), XKey(1))
    BY Zenon DEF Hash1R, HashStates
  <1>5. ASSUME NEW i \in 0 .. Pad_Lines - 1
        PROVE  HashStates(input)[i + 1] = Absorb(HashStates(input)[i], input[i])
    <2>1. i + 1 \in 0 .. Pad_Lines /\ i + 1 # 0 /\ (i + 1) - 1 = i
      OBVIOUS
    <2>. QED BY <1>3, <2>1
  <1>6. HashStates(input)[0] = HashState
    BY <1>3
  <1>. QED BY <1>4, <1>5, <1>6

(* What the passes have done: the scratchpad up to aes_line holds the      *)
(* generator's states, behind it what the program left; the program is     *)
(* made of the states after those; the lanes have absorbed the old lines.  *)
PadFilled(n, lines) == \A i \in 0 .. Pad_Lines - 1 : i < lines =>
                         aes_pad[i] = After1R(TemplateSeed(n), i + 1)
ProgramSeed == After1R(TemplateSeed(aes_hashes), Pad_Lines)
ProgramFilled(lines) == \A i \in 0 .. Program_Lines - 1 : i < lines =>
                          aes_program[i] = Masked(i, After4R(ProgramSeed, i + 1))

FillingPad ==
    /\ aes_call = "fill1R" /\ aes_line \in 0 .. Pad_Lines - 1 /\ aes_hashes = 0
    /\ aes_seed = After1R(TemplateSeed(0), aes_line) /\ PadFilled(0, aes_line)
FillingProgram ==
    /\ aes_call = "fill4R" /\ aes_line \in 0 .. Program_Lines - 1
    /\ aes_hashes > 0 => aes_hash = Hash1R(before)
    /\ aes_seed = After4R(ProgramSeed, aes_line)
    /\ PadFilled(aes_hashes, Pad_Lines) /\ ProgramFilled(aes_line)
Running ==
    /\ aes_call = "run" /\ aes_line = 0
    /\ PadFilled(aes_hashes, Pad_Lines) /\ ProgramFilled(Program_Lines)
Hashing ==
    /\ aes_call = "hashAndFill1R" /\ aes_line \in 0 .. Pad_Lines - 1
    /\ aes_seed = After1R(TemplateSeed(aes_hashes + 1), aes_line)
    /\ PadFilled(aes_hashes + 1, aes_line)
    /\ \A i \in 0 .. Pad_Lines - 1 : i >= aes_line => aes_pad[i] = before[i]
    /\ lane_state = HashStates(before)[aes_line]

AesInv ==
    /\ DOMAIN aes_pad = 0 .. Pad_Lines - 1 /\ DOMAIN aes_program = 0 .. Program_Lines - 1
    /\ aes_hashes \in Nat
    /\ FillingPad \/ FillingProgram \/ Running \/ Hashing

LEMMA AesInitInv == AesInit => AesInv
  <1>. SUFFICES ASSUME AesInit PROVE AesInv
    OBVIOUS
  <1>1. Pad_Lines \in Nat \ {0} /\ Program_Lines \in Nat
    BY AesAssumption
  <1>2. After1R(TemplateSeed(0), 0) = TemplateSeed(0)
    BY AfterLine
  <1>3. FillingPad
    BY <1>1, <1>2 DEF AesInit, FillingPad, PadFilled
  <1>. QED BY <1>3 DEF AesInit, AesInv

LEMMA Fill1RInv == ASSUME AesInv, Fill1R PROVE AesInv'
  <1>. Pad_Lines \in Nat \ {0} /\ Program_Lines \in Nat \ {0}
    BY AesAssumption
  <1>1. /\ aes_seed' = Advance1R(aes_seed) /\ aes_pad' = [aes_pad EXCEPT ![aes_line] = aes_seed']
        /\ NextLine(Pad_Lines, "fill4R") /\ aes_program' = aes_program /\ aes_hashes' = aes_hashes
        /\ aes_call = "fill1R"
    BY DEF Fill1R
  <1>2. FillingPad
    BY <1>1 DEF AesInv, FillingProgram, Running, Hashing
  <1>3. /\ aes_line \in 0 .. Pad_Lines - 1 /\ aes_line \in Nat /\ aes_hashes = 0
        /\ aes_seed' = After1R(TemplateSeed(0), aes_line + 1)
    BY <1>1, <1>2, AfterLine DEF FillingPad
  <1>4. DOMAIN aes_pad' = 0 .. Pad_Lines - 1 /\ DOMAIN aes_program' = 0 .. Program_Lines - 1
    BY <1>1 DEF AesInv
  <1>5. \A i \in 0 .. Pad_Lines - 1 : i < aes_line + 1 =>
          aes_pad'[i] = After1R(TemplateSeed(0), i + 1)
    <2>1. ASSUME NEW i \in 0 .. Pad_Lines - 1, i < aes_line + 1
          PROVE  aes_pad'[i] = After1R(TemplateSeed(0), i + 1)
      <3>1. CASE i = aes_line
        BY <1>1, <1>3, <3>1 DEF AesInv
      <3>2. CASE i < aes_line
        BY <1>1, <1>2, <1>3, <3>2 DEF AesInv, FillingPad, PadFilled
      <3>. QED BY <1>3, <2>1, <3>1, <3>2
    <2>. QED BY <2>1
  <1>6. CASE aes_line + 1 # Pad_Lines
    <2>1. aes_call' = "fill1R" /\ aes_line' = aes_line + 1
      BY <1>1, <1>6 DEF NextLine
    <2>2. PadFilled(0, aes_line)'
      BY <1>5, <2>1 DEF PadFilled
    <2>3. FillingPad'
      BY <1>1, <1>3, <1>6, <2>1, <2>2 DEF FillingPad
    <2>. QED BY <1>1, <1>3, <1>4, <2>3 DEF AesInv
  <1>7. CASE aes_line + 1 = Pad_Lines
    <2>1. aes_call' = "fill4R" /\ aes_line' = 0
      BY <1>1, <1>7 DEF NextLine
    <2>2. aes_seed' = After4R(ProgramSeed, 0)' /\ PadFilled(aes_hashes, Pad_Lines)'
      <3>1. aes_seed' = ProgramSeed'
        BY <1>1, <1>3, <1>7 DEF ProgramSeed
      <3>2. After4R(ProgramSeed', 0) = ProgramSeed'
        BY AfterLine
      <3>3. PadFilled(aes_hashes, Pad_Lines)'
        BY <1>1, <1>3, <1>5, <1>7 DEF PadFilled
      <3>. QED BY <3>1, <3>2, <3>3
    <2>3. ProgramFilled(0)'
      BY DEF ProgramFilled
    <2>. QED BY <1>1, <1>3, <1>4, <2>1, <2>2, <2>3 DEF AesInv, FillingProgram
  <1>. QED BY <1>6, <1>7

LEMMA Fill4RInv == ASSUME AesInv, Fill4R PROVE AesInv'
  <1>. Pad_Lines \in Nat \ {0} /\ Program_Lines \in Nat \ {0}
    BY AesAssumption
  <1>1. /\ aes_seed' = Advance4R(aes_seed)
        /\ aes_program' = [aes_program EXCEPT ![aes_line] = Masked(aes_line, aes_seed')]
        /\ NextLine(Program_Lines, "run") /\ aes_pad' = aes_pad /\ aes_hashes' = aes_hashes
        /\ aes_hash' = aes_hash /\ before' = before /\ aes_call = "fill4R"
    BY DEF Fill4R
  <1>2. FillingProgram
    BY <1>1 DEF AesInv, FillingPad, Running, Hashing
  <1>3. /\ aes_line \in 0 .. Program_Lines - 1 /\ aes_line \in Nat
        /\ aes_seed' = After4R(ProgramSeed, aes_line + 1)
    BY <1>1, <1>2, AfterLine DEF FillingProgram
  <1>4. DOMAIN aes_pad' = 0 .. Pad_Lines - 1 /\ DOMAIN aes_program' = 0 .. Program_Lines - 1
        /\ aes_hashes' \in Nat
    BY <1>1 DEF AesInv
  <1>5. ProgramSeed' = ProgramSeed /\ PadFilled(aes_hashes, Pad_Lines)'
        /\ (aes_hashes > 0 => aes_hash = Hash1R(before))'
    <2>1. ProgramSeed' = ProgramSeed
      BY <1>1 DEF ProgramSeed
    <2>2. PadFilled(aes_hashes, Pad_Lines)'
      BY <1>1, <1>2 DEF PadFilled, FillingProgram
    <2>3. (aes_hashes > 0 => aes_hash = Hash1R(before))'
      <3>1. Hash1R(before)' = Hash1R(before)
        BY <1>1
      <3>. QED BY <1>1, <1>2, <3>1 DEF FillingProgram
    <2>. QED BY <2>1, <2>2, <2>3
  <1>6. \A i \in 0 .. Program_Lines - 1 : i < aes_line + 1 =>
          aes_program'[i] = Masked(i, After4R(ProgramSeed, i + 1))
    <2>1. ASSUME NEW i \in 0 .. Program_Lines - 1, i < aes_line + 1
          PROVE  aes_program'[i] = Masked(i, After4R(ProgramSeed, i + 1))
      <3>1. CASE i = aes_line
        BY <1>1, <1>3, <3>1 DEF AesInv
      <3>2. CASE i < aes_line
        BY <1>1, <1>2, <1>3, <3>2 DEF AesInv, FillingProgram, ProgramFilled
      <3>. QED BY <1>3, <2>1, <3>1, <3>2
    <2>. QED BY <2>1
  <1>7. CASE aes_line + 1 # Program_Lines
    <2>1. aes_call' = "fill4R" /\ aes_line' = aes_line + 1 /\ aes_line' \in 0 .. Program_Lines - 1
      BY <1>1, <1>3, <1>7 DEF NextLine
    <2>2. aes_seed' = After4R(ProgramSeed', aes_line')
      BY <1>3, <1>5, <2>1
    <2>3. ProgramFilled(aes_line)'
      BY <1>5, <1>6, <2>1 DEF ProgramFilled
    <2>4. FillingProgram'
      BY <1>5, <2>1, <2>2, <2>3 DEF FillingProgram
    <2>. QED BY <1>4, <2>4 DEF AesInv
  <1>8. CASE aes_line + 1 = Program_Lines
    <2>1. aes_call' = "run" /\ aes_line' = 0
      BY <1>1, <1>8 DEF NextLine
    <2>2. ProgramFilled(Program_Lines)'
      BY <1>5, <1>6, <1>8 DEF ProgramFilled
    <2>3. Running'
      BY <1>5, <2>1, <2>2 DEF Running
    <2>. QED BY <1>4, <2>3 DEF AesInv
  <1>. QED BY <1>7, <1>8

LEMMA RunAndSeedInv == ASSUME AesInv, RunAndSeed PROVE AesInv'
  <1>. Pad_Lines \in Nat \ {0} /\ Program_Lines \in Nat \ {0}
    BY AesAssumption
  <1>1. /\ DOMAIN aes_pad' = 0 .. Pad_Lines - 1 /\ before' = aes_pad' /\ aes_call = "run"
        /\ aes_seed' = TemplateSeed(aes_hashes + 1) /\ lane_state' = HashState
        /\ aes_call' = "hashAndFill1R" /\ aes_line' = aes_line
        /\ aes_program' = aes_program /\ aes_hashes' = aes_hashes
    BY DEF RunAndSeed
  <1>2. Running
    BY <1>1 DEF AesInv, FillingPad, FillingProgram, Hashing
  <1>3. aes_line' = 0 /\ aes_line' \in 0 .. Pad_Lines - 1
    BY <1>1, <1>2 DEF Running
  <1>4. aes_seed' = After1R(TemplateSeed(aes_hashes' + 1), aes_line')
    BY <1>1, <1>3, AfterLine
  <1>5. lane_state' = HashStates(before')[aes_line']
    BY <1>1, <1>3, HashLines
  <1>6. PadFilled(aes_hashes + 1, aes_line)'
    BY <1>3 DEF PadFilled
  <1>7. Hashing'
    BY <1>1, <1>3, <1>4, <1>5, <1>6 DEF Hashing
  <1>. QED BY <1>1, <1>7 DEF AesInv

LEMMA HashAndFill1RInv == ASSUME AesInv, HashAndFill1R PROVE AesInv'
  <1>. Pad_Lines \in Nat \ {0} /\ Program_Lines \in Nat \ {0}
    BY AesAssumption
  <1>1. /\ aes_call = "hashAndFill1R" /\ NextLine(Pad_Lines, "fill4R")
        /\ aes_pad' = [aes_pad EXCEPT ![aes_line] = Advance1R(aes_seed)]
        /\ aes_program' = aes_program /\ before' = before
        /\ lane_state' = Absorb(lane_state, aes_pad[aes_line])
        /\ aes_seed' = Advance1R(aes_seed)
        /\ aes_hash' = IF aes_line + 1 = Pad_Lines
                       THEN Absorb(Absorb(Absorb(lane_state, aes_pad[aes_line]), XKey(0)), XKey(1))
                       ELSE aes_hash
        /\ aes_hashes' = IF aes_line + 1 = Pad_Lines THEN aes_hashes + 1 ELSE aes_hashes
    BY Zenon DEF HashAndFill1R, HashLine, SeedOut
  <1>2. Hashing
    BY <1>1 DEF AesInv, FillingPad, FillingProgram, Running
  <1>3. aes_line \in 0 .. Pad_Lines - 1 /\ aes_line \in Nat /\ aes_hashes \in Nat
    BY <1>2 DEF Hashing, AesInv
  <1>4. aes_seed' = After1R(TemplateSeed(aes_hashes + 1), aes_line + 1)
    BY <1>1, <1>2, <1>3, AfterLine DEF Hashing
  <1>5. lane_state' = HashStates(before)[aes_line + 1]
    <2>1. aes_pad[aes_line] = before[aes_line] /\ lane_state = HashStates(before)[aes_line]
      BY <1>2, <1>3 DEF Hashing
    <2>2. HashStates(before)[aes_line + 1] = Absorb(HashStates(before)[aes_line], before[aes_line])
      BY <1>3, HashLines
    <2>. QED BY <1>1, <2>1, <2>2
  <1>6. DOMAIN aes_pad' = 0 .. Pad_Lines - 1 /\ DOMAIN aes_program' = 0 .. Program_Lines - 1
        /\ aes_hashes' \in Nat
    BY <1>1, <1>3 DEF AesInv
  <1>7. \A i \in 0 .. Pad_Lines - 1 : i < aes_line + 1 =>
          aes_pad'[i] = After1R(TemplateSeed(aes_hashes + 1), i + 1)
    <2>1. ASSUME NEW i \in 0 .. Pad_Lines - 1, i < aes_line + 1
          PROVE  aes_pad'[i] = After1R(TemplateSeed(aes_hashes + 1), i + 1)
      <3>1. CASE i = aes_line
        BY <1>1, <1>4, <3>1 DEF AesInv
      <3>2. CASE i < aes_line
        BY <1>1, <1>2, <1>3, <3>2 DEF AesInv, Hashing, PadFilled
      <3>. QED BY <1>3, <2>1, <3>1, <3>2
    <2>. QED BY <2>1
  <1>8. CASE aes_line + 1 # Pad_Lines
    <2>1. /\ aes_call' = "hashAndFill1R" /\ aes_line' = aes_line + 1 /\ aes_hashes' = aes_hashes
          /\ aes_line' \in 0 .. Pad_Lines - 1
      BY <1>1, <1>3, <1>8 DEF NextLine
    <2>2. \A i \in 0 .. Pad_Lines - 1 : i >= aes_line' => aes_pad'[i] = before'[i]
      <3>1. ASSUME NEW i \in 0 .. Pad_Lines - 1, i >= aes_line + 1 PROVE aes_pad'[i] = before[i]
        <4>1. i # aes_line /\ i >= aes_line
          BY <1>3, <3>1
        <4>2. aes_pad'[i] = aes_pad[i]
          BY <1>1, <4>1 DEF AesInv
        <4>. QED BY <1>2, <4>1, <4>2 DEF Hashing
      <3>. QED BY <1>1, <2>1, <3>1
    <2>3. PadFilled(aes_hashes + 1, aes_line)'
      BY <1>7, <2>1 DEF PadFilled
    <2>4. Hashing'
      BY <1>1, <1>4, <1>5, <2>1, <2>2, <2>3 DEF Hashing
    <2>. QED BY <1>6, <2>4 DEF AesInv
  <1>9. CASE aes_line + 1 = Pad_Lines
    <2>1. aes_call' = "fill4R" /\ aes_line' = 0 /\ aes_hashes' = aes_hashes + 1
      BY <1>1, <1>9 DEF NextLine
    <2>2. aes_hash' = Hash1R(before)'
      <3>1. aes_hash' = Absorb(Absorb(lane_state', XKey(0)), XKey(1))
        BY <1>1, <1>9
      <3>2. Hash1R(before) = Absorb(Absorb(HashStates(before)[Pad_Lines], XKey(0)), XKey(1))
        BY HashLines
      <3>3. Hash1R(before)' = Hash1R(before)
        BY <1>1
      <3>. QED BY <1>5, <1>9, <3>1, <3>2, <3>3
    <2>3. aes_seed' = After4R(ProgramSeed', aes_line')
      <3>1. aes_seed' = ProgramSeed'
        BY <1>4, <1>9, <2>1 DEF ProgramSeed
      <3>. QED BY <2>1, <3>1, AfterLine
    <2>4. PadFilled(aes_hashes, Pad_Lines)'
      BY <1>7, <1>9, <2>1 DEF PadFilled
    <2>5. ProgramFilled(aes_line)'
      BY <2>1 DEF ProgramFilled
    <2>6. FillingProgram'
      BY <2>1, <2>2, <2>3, <2>4, <2>5 DEF FillingProgram
    <2>. QED BY <1>6, <2>6 DEF AesInv
  <1>. QED BY <1>8, <1>9

LEMMA AesUnchanged == ASSUME AesInv, UNCHANGED aesVars PROVE AesInv'
  <1>1. /\ aes_call' = aes_call /\ aes_line' = aes_line /\ lane_state' = lane_state
        /\ aes_seed' = aes_seed /\ aes_pad' = aes_pad /\ aes_program' = aes_program
        /\ aes_hash' = aes_hash /\ before' = before /\ aes_hashes' = aes_hashes
    BY DEF aesVars
  <1>. QED BY <1>1 DEF AesInv, FillingPad, FillingProgram, Running, Hashing, PadFilled,
                       ProgramFilled, ProgramSeed

LEMMA AesInvariant == AesSpec => []AesInv
  <1>1. AesInv /\ [AesNext]_aesVars => AesInv'
    BY Fill1RInv, Fill4RInv, RunAndSeedInv, HashAndFill1RInv, AesUnchanged DEF AesNext
  <1>. QED BY AesInitInv, <1>1, PTL DEF AesSpec

(* hashAndFill1R hashes the scratchpad it overwrites. *)
THEOREM AesHashOfOldPad == AesSpec => []HashOfOldPad
  <1>1. AesInv => HashOfOldPad
    BY DEF AesInv, FillingPad, FillingProgram, Running, Hashing, HashOfOldPad
  <1>. QED BY <1>1, AesInvariant, PTL

(* A program and the scratchpad it starts on come from one template. *)
THEOREM AesProgramOfTemplate == AesSpec => []ProgramOfTemplate
  <1>. Pad_Lines \in Nat \ {0} /\ Program_Lines \in Nat \ {0}
    BY AesAssumption
  <1>1. AesInv => ProgramOfTemplate
    <2>. SUFFICES ASSUME AesInv, aes_call = "run" PROVE ProgramOfTemplate
      BY DEF ProgramOfTemplate
    <2>1. PadFilled(aes_hashes, Pad_Lines) /\ ProgramFilled(Program_Lines)
      BY DEF AesInv, FillingPad, FillingProgram, Running, Hashing
    <2>. QED BY <2>1 DEF ProgramOfTemplate, PadFilled, ProgramFilled, ProgramSeed
  <1>. QED BY <1>1, AesInvariant, PTL

-----------------------------------------------------------------------------
(* BranchCondition: sums of one addend, and the field that is tested.      *)

(* The subsets of 1 .. n are half of those of 1 .. n + 1.                  *)
LEMMA PowerStep == ASSUME NEW n \in Nat PROVE 2 ^ (n + 1) = 2 * 2 ^ n /\ 2 ^ n \in Nat
  <1> DEFINE S == SUBSET (1 .. n)
             T == {s \union {n + 1} : s \in S}
             f == [s \in S |-> s \union {n + 1}]
  <1>1. IsFiniteSet(1 .. n) /\ Cardinality(1 .. n) = n
        /\ IsFiniteSet(1 .. n + 1) /\ Cardinality(1 .. n + 1) = n + 1
    <2>1. n \in Int /\ n + 1 \in Int /\ 1 \in Int
      OBVIOUS
    <2>2. IsFiniteSet(1 .. n) /\ Cardinality(1 .. n) = IF 1 > n THEN 0 ELSE (n - 1) + 1
      BY <2>1, FS_Interval
    <2>3. IsFiniteSet(1 .. n + 1) /\ Cardinality(1 .. n + 1) = IF 1 > n + 1 THEN 0 ELSE (n + 1 - 1) + 1
      BY <2>1, FS_Interval
    <2>. QED BY <2>2, <2>3
  <1>2. IsFiniteSet(S) /\ Cardinality(S) = 2 ^ n
    BY <1>1, FS_SUBSET
  <1>3. Cardinality(SUBSET (1 .. n + 1)) = 2 ^ (n + 1)
    BY <1>1, FS_SUBSET
  <1>4. f \in Bijection(S, T)
    <2>1. f \in [S -> T]
      OBVIOUS
    <2>2. ASSUME NEW a \in S, NEW b \in S, f[a] = f[b] PROVE a = b
      <3>1. n + 1 \notin a /\ n + 1 \notin b
        OBVIOUS
      <3>. QED BY <2>2, <3>1
    <2>3. \A t \in T : \E s \in S : f[s] = t
      OBVIOUS
    <2>. QED BY <2>1, <2>2, <2>3 DEF Bijection, Injection, Surjection, IsInjective
  <1>5. IsFiniteSet(T) /\ Cardinality(T) = Cardinality(S)
    <2>1. ExistsBijection(S, T)
      BY <1>4 DEF ExistsBijection
    <2> HIDE DEF S, T
    <2>. QED BY <2>1, <1>2, FS_Bijection
  <1>6. S \intersect T = {}
    <2>1. \A s \in S : n + 1 \notin s
      OBVIOUS
    <2>. QED BY <2>1
  <1>7. SUBSET (1 .. n + 1) = S \union T
    <2>1. ASSUME NEW u \in SUBSET (1 .. n + 1) PROVE u \in S \union T
      <3>1. CASE n + 1 \in u
        <4>1. u \ {n + 1} \in S /\ u = (u \ {n + 1}) \union {n + 1}
          BY <3>1
        <4>. QED BY <4>1
      <3>2. CASE n + 1 \notin u
        BY <3>2
      <3>. QED BY <3>1, <3>2
    <2>2. ASSUME NEW u \in S \union T PROVE u \in SUBSET (1 .. n + 1)
      OBVIOUS
    <2>. QED BY <2>1, <2>2
  <1>8. Cardinality(S \union T) = Cardinality(S) + Cardinality(T)
    <2>1. Cardinality({}) = 0
      BY FS_EmptySet
    <2>2. Cardinality(S) \in Nat /\ Cardinality(T) \in Nat
      BY <1>2, <1>5, FS_CardinalityType
    <2> HIDE DEF S, T
    <2>3. Cardinality(S \union T) = Cardinality(S) + Cardinality(T) - Cardinality(S \intersect T)
      BY <1>2, <1>5, FS_Union
    <2>4. Cardinality(S \intersect T) = 0
      BY <2>1, <1>6, Zenon
    <2>. QED BY <2>2, <2>3, <2>4
  <1>9. Cardinality(S) \in Nat
    BY <1>2, FS_CardinalityType
  <1>10. 2 ^ (n + 1) = 2 ^ n + 2 ^ n
    BY <1>2, <1>3, <1>5, <1>7, <1>8, Zenon
  <1>11. 2 ^ n \in Nat
    BY <1>2, <1>9, Zenon
  <1> HIDE DEF S, T, f
  <1>. QED BY <1>10, <1>11

LEMMA PowerSum == ASSUME NEW a \in Nat, NEW b \in Nat PROVE 2 ^ (a + b) = 2 ^ a * 2 ^ b
  <1> DEFINE B == {n \in Nat : 2 ^ (a + n) # 2 ^ a * 2 ^ n}
  <1>1. ASSUME B # {} PROVE FALSE
    <2>1. PICK m \in B : \A k \in B : m <= k
      <3>1. B \in SUBSET Nat
        OBVIOUS
      <3> HIDE DEF B
      <3>. QED BY <1>1, <3>1, LeastNatural
    <2>2. 2 ^ a \in Nat
      BY PowerStep
    <2>3. m # 0
      <3>1. 2 ^ 0 = 1
        OBVIOUS
      <3>2. a + 0 = a /\ 2 ^ a * 1 = 2 ^ a
        BY <2>2
      <3>3. 2 ^ (a + 0) = 2 ^ a * 2 ^ 0
        BY Zenon, <3>1, <3>2
      <3>4. 2 ^ (a + m) # 2 ^ a * 2 ^ m
        BY <2>1
      <3>. QED BY Zenon, <3>3, <3>4
    <2>4. m - 1 \in Nat /\ m - 1 \notin B /\ (m - 1) + 1 = m /\ (a + (m - 1)) + 1 = a + m
          /\ a + (m - 1) \in Nat /\ m \in Nat
      BY <2>1, <2>3
    <2> DEFINE x == 2 ^ (m - 1)
               y == 2 ^ (a + (m - 1))
               z == 2 ^ a
    <2>5. y = z * x /\ x \in Nat
      BY <2>4, PowerStep
    <2>6. 2 ^ m = 2 * x
      BY Zenon, <2>4, PowerStep
    <2>7. 2 ^ (a + m) = 2 * y
      BY Zenon, <2>4, PowerStep
    <2>8. 2 ^ (a + m) # z * 2 ^ m
      BY <2>1
    <2> HIDE DEF x, y, z
    <2>9. z \in Nat
      BY <2>2 DEF z
    <2>10. 2 * (z * x) = z * (2 * x)
      BY <2>5, <2>9
    <2>. QED BY Zenon, <2>5, <2>6, <2>7, <2>8, <2>10
  <1>. QED BY <1>1

LEMMA PowerPositive == ASSUME NEW a \in Nat PROVE 2 ^ a \in Nat \ {0}
  <1> DEFINE B == {n \in Nat : 2 ^ n = 0}
  <1>1. ASSUME B # {} PROVE FALSE
    <2>1. PICK m \in B : \A k \in B : m <= k
      <3>1. B \in SUBSET Nat
        OBVIOUS
      <3> HIDE DEF B
      <3>. QED BY <1>1, <3>1, LeastNatural
    <2>2. m # 0
      <3>1. 2 ^ 0 = 1
        OBVIOUS
      <3>2. 2 ^ m = 0 /\ 1 # 0
        BY <2>1
      <3>. QED BY Zenon, <3>1, <3>2
    <2>3. m - 1 \in Nat /\ m - 1 \notin B /\ (m - 1) + 1 = m
      BY <2>1, <2>2
    <2> DEFINE x == 2 ^ (m - 1)
    <2>4. 2 ^ m = 2 * x /\ x \in Nat
      BY Zenon, <2>3, PowerStep
    <2>5. x # 0 /\ 2 ^ m = 0
      BY <2>1, <2>3
    <2> HIDE DEF x
    <2>. QED BY <2>4, <2>5
  <1>2. 2 ^ a \in Nat
    BY PowerStep
  <1>. QED BY <1>1, <1>2

(* The quotient and the rest of a division are determined. *)
LEMMA QuotientAndRest ==
  ASSUME NEW m \in Nat \ {0}, NEW q \in Int, NEW a \in 0 .. m - 1
  PROVE  (m * q + a) \div m = q /\ (m * q + a) % m = a
  OBVIOUS

LEMMA Division ==
  ASSUME NEW n \in Nat, NEW m \in Nat \ {0}
  PROVE  n \div m \in Nat /\ n % m \in 0 .. m - 1 /\ n = m * (n \div m) + (n % m)
  OBVIOUS

(* A rest is that of the rests, *)
LEMMA RestOfSum ==
  ASSUME NEW a \in Nat, NEW b \in Nat, NEW m \in Nat \ {0}
  PROVE  (a + b) % m = ((a % m) + (b % m)) % m
  <1> DEFINE p == a \div m   q == b \div m   x == a % m   y == b % m
             u == (x + y) \div m   v == (x + y) % m
  <1>1. p \in Nat /\ q \in Nat /\ x \in Nat /\ y \in Nat /\ a = m * p + x /\ b = m * q + y
    BY Division
  <1>2. u \in Nat /\ v \in 0 .. m - 1 /\ x + y = m * u + v
    <2>1. x + y \in Nat
      BY <1>1
    <2>. QED BY <2>1, Division
  <1> HIDE DEF p, q, x, y, u, v
  <1>3. a + b = m * (p + q + u) + v
    BY <1>1, <1>2
  <1>4. (a + b) % m = v
    <2>1. p + q + u \in Int
      BY <1>1, <1>2
    <2>2. (m * (p + q + u) + v) % m = v
      BY Zenon, <1>2, <2>1, QuotientAndRest
    <2>. QED BY Zenon, <1>3, <2>2
  <1>. QED BY <1>4 DEF v, x, y

(* and that of a rest by a multiple, and multiples of the divisor leave none. *)
LEMMA RestOfRest ==
  ASSUME NEW a \in Nat, NEW m \in Nat \ {0}, NEW k \in Nat \ {0}
  PROVE  (a % (m * k)) % m = a % m
  <1> DEFINE p == a \div (m * k)   x == a % (m * k)   u == x \div m   v == x % m
  <1>1. m * k \in Nat \ {0}
    OBVIOUS
  <1>2. p \in Nat /\ x \in Nat /\ a = (m * k) * p + x
    <2>1. a % (m * k) \in 0 .. (m * k) - 1 /\ a \div (m * k) \in Nat
          /\ a = (m * k) * (a \div (m * k)) + (a % (m * k))
      BY Zenon, <1>1, Division
    <2>2. \A b \in 0 .. (m * k) - 1 : b \in Nat
      BY <1>1
    <2>. QED BY Zenon, <2>1, <2>2
  <1>3. u \in Nat /\ v \in 0 .. m - 1 /\ x = m * u + v
    BY <1>2, Division
  <1> HIDE DEF p, x, u, v
  <1>4. (m * k) * p = m * (k * p) /\ k * p \in Nat
    BY <1>2
  <1>5. a = m * (k * p + u) + v
    BY <1>2, <1>3, <1>4
  <1>6. a % m = v
    <2>1. k * p + u \in Int
      BY <1>3, <1>4
    <2>2. (m * (k * p + u) + v) % m = v
      BY Zenon, <1>3, <2>1, QuotientAndRest
    <2>. QED BY Zenon, <1>5, <2>2
  <1>. QED BY <1>6 DEF v, x

(* The condition bits are zero when the rest is below the lowest of them.  *)
LEMMA ConditionBits ==
  ASSUME NEW n \in Nat, NEW p \in Nat \ {0}, NEW j \in Nat \ {0}
  PROVE  (n \div p) % j = 0 <=> n % (p * j) < p
  <1> DEFINE u == n \div p   x == n % p   q == u \div j   v == u % j
  <1>1. u \in Nat /\ x \in 0 .. p - 1 /\ n = p * u + x
    BY Division
  <1>2. q \in Nat /\ v \in 0 .. j - 1 /\ u = j * q + v
    BY <1>1, Division
  <1> HIDE DEF u, x, q, v
  <1>3. n = (p * j) * q + (p * v + x)
    <2>1. p * (j * q + v) = (p * j) * q + p * v
      BY <1>2
    <2>2. p * v \in Int /\ (p * j) * q \in Int
      BY <1>2
    <2>. QED BY <1>1, <1>2, <2>1, <2>2
  <1>4. p * v + x \in 0 .. p * j - 1 /\ p * j \in Nat \ {0}
    <2>1. p * v <= p * (j - 1)
      BY <1>2
    <2>2. p * (j - 1) = p * j - p /\ p * v \in Nat /\ p * j \in Nat \ {0}
      BY <1>2
    <2>. QED BY <1>1, <2>1, <2>2
  <1>5. n % (p * j) = p * v + x
    <2>1. q \in Int
      BY <1>2
    <2>2. ((p * j) * q + (p * v + x)) % (p * j) = p * v + x
      BY Zenon, <1>4, <2>1, QuotientAndRest
    <2>. QED BY Zenon, <1>3, <2>2
  <1>6. v = 0 => p * v + x < p
    BY <1>1
  <1>7. v # 0 => p * v + x >= p
    <2>1. v # 0 => p * v >= p /\ p * v \in Nat
      BY <1>2
    <2>. QED BY <1>1, <2>1
  <1>. QED BY <1>5, <1>6, <1>7, <1>1, <1>2 DEF u, v

LEMMA RestOfShifted ==
  ASSUME NEW n \in Nat, NEW m \in Nat \ {0}, NEW d \in Int
  PROVE  (n + m * d) % m = n % m
  <1> DEFINE q == n \div m   a == n % m
  <1>1. q \in Nat /\ a \in 0 .. m - 1 /\ n = m * q + a
    BY Division
  <1> HIDE DEF q, a
  <1>2. n + m * d = m * (q + d) + a /\ q + d \in Int
    <2>1. m * (q + d) = m * q + m * d /\ m * q \in Int /\ m * d \in Int
      BY <1>1
    <2>. QED BY <1>1, <2>1
  <1>3. (m * (q + d) + a) % m = a
    BY Zenon, <1>1, <1>2, QuotientAndRest
  <1>. QED BY Zenon, <1>2, <1>3 DEF a

(* A number with one bit set and the one below it cleared: seen from the   *)
(* set bit on, 2 * j wide, it is neither zero nor all ones with a carry.   *)
LEMMA SetAndCleared ==
  ASSUME NEW n \in Nat, NEW h \in Nat \ {0}, NEW j \in Nat \ {0},
         NEW set, set = n + (1 - ((n \div (2 * h)) % 2)) * (2 * h),
         NEW cleared, cleared = set - ((set \div h) % 2) * h
  PROVE  cleared \in Nat /\ cleared % ((2 * h) * (2 * j)) \in 2 * h .. (2 * h) * (2 * j) - h - 1
  <1> DEFINE a == n \div (2 * h)   y == n % (2 * h)   u == a \div 2   b == a % 2
             c == y \div h   x == y % h   w == u \div j   g == u % j
  <1>0. 2 * h \in Nat \ {0} /\ 2 \in Nat \ {0}
    OBVIOUS
  <1>1. a \in Nat /\ y \in 0 .. 2 * h - 1 /\ n = (2 * h) * a + y
    BY Zenon, <1>0, Division
  <1>2. u \in Nat /\ b \in 0 .. 1 /\ a = 2 * u + b
    BY <1>1
  <1>3. c \in Nat /\ x \in 0 .. h - 1 /\ y = h * c + x
    <2>1. y \in Nat
      BY <1>1
    <2>. QED BY Zenon, <2>1, Division
  <1>4. w \in Nat /\ g \in 0 .. j - 1 /\ u = j * w + g
    BY <1>2, Division
  <1>5. set = n + (1 - b) * (2 * h)
    OBVIOUS
  <1> HIDE DEF a, y, u, b, c, x, w, g
  <1>6. c \in 0 .. 1
    <2>1. c >= 2 => h * c >= h * 2
      BY <1>3
    <2>2. h * c \in Nat
      BY <1>3
    <2>. QED BY <1>1, <1>3, <2>1, <2>2
  <1>7. set = (2 * h) * (2 * u + 1) + y
    <2>1. CASE b = 0
      BY <1>1, <1>2, <1>5, <2>1
    <2>2. CASE b = 1
      BY <1>1, <1>2, <1>5, <2>2
    <2>. QED BY <1>2, <2>1, <2>2
  <1>8. set = h * (2 * (2 * u + 1) + c) + x
    <2>1. h * (2 * (2 * u + 1) + c) = (2 * h) * (2 * u + 1) + h * c
      BY <1>2, <1>3
    <2>2. (2 * h) * (2 * u + 1) \in Int /\ h * c \in Int
      BY <1>2, <1>3
    <2>. QED BY <1>3, <1>7, <2>1, <2>2
  <1>9. set \div h = 2 * (2 * u + 1) + c
    <2>1. 2 * (2 * u + 1) + c \in Int
      BY <1>2, <1>3
    <2>2. (h * (2 * (2 * u + 1) + c) + x) \div h = 2 * (2 * u + 1) + c
      BY Zenon, <1>3, <2>1, QuotientAndRest
    <2>. QED BY Zenon, <1>8, <2>2
  <1>10. (set \div h) % 2 = c
    BY <1>2, <1>6, <1>9
  <1>11. cleared = (2 * h) * (2 * u + 1) + x
    <2>1. cleared = set - c * h
      BY <1>10
    <2>2. c * h = h * c /\ h * c \in Int /\ (2 * h) * (2 * u + 1) \in Int
      BY <1>2, <1>3
    <2>. QED BY <1>3, <1>7, <2>1, <2>2
  <1>12. cleared = ((2 * h) * (2 * j)) * w + ((2 * h) * (2 * g + 1) + x)
    <2>1. (2 * h) * (2 * u + 1) = ((2 * h) * (2 * j)) * w + (2 * h) * (2 * g + 1)
      BY <1>4
    <2>2. ((2 * h) * (2 * j)) * w \in Int /\ (2 * h) * (2 * g + 1) \in Int
      BY <1>4
    <2>. QED BY <1>3, <1>11, <2>1, <2>2
  <1>13. /\ (2 * h) * (2 * g + 1) + x \in 2 * h .. (2 * h) * (2 * j) - h - 1
         /\ (2 * h) * (2 * g + 1) + x \in 0 .. (2 * h) * (2 * j) - 1
         /\ (2 * h) * (2 * j) \in Nat \ {0}
    <2>1. h * g <= h * (j - 1) /\ h * g \in Nat /\ h * j \in Nat \ {0} /\ h * (j - 1) = h * j - h
      BY <1>4
    <2>2. (2 * h) * (2 * g + 1) = 4 * (h * g) + 2 * h /\ (2 * h) * (2 * j) = 4 * (h * j)
      BY <1>4
    <2>. QED BY <1>3, <2>1, <2>2
  <1>14. (((2 * h) * (2 * j)) * w + ((2 * h) * (2 * g + 1) + x)) % ((2 * h) * (2 * j))
            = (2 * h) * (2 * g + 1) + x
    <2>1. w \in Int
      BY <1>4
    <2>. QED BY Zenon, <1>13, <2>1, QuotientAndRest
  <1>15. cleared % ((2 * h) * (2 * j)) = (2 * h) * (2 * g + 1) + x
    BY Zenon, <1>12, <1>14
  <1>16. cleared \in Nat
    <2>1. (2 * h) * (2 * u + 1) \in Nat
      BY <1>2
    <2>. QED BY <1>3, <1>11, <2>1
  <1>. QED BY <1>13, <1>15, <1>16

Shifts == {c + Rx_Jump_Offset : c \in 0 .. Cond_Values - 1}
(* The condition bits and those below them. *)
Field(s) == 2 ^ s * 2 ^ Rx_Jump_Bits

LEMMA Powers ==
  ASSUME NEW s \in Shifts
  PROVE  /\ s - 1 \in Nat /\ 2 ^ (s - 1) \in Nat \ {0} /\ 2 ^ s = 2 * 2 ^ (s - 1)
         /\ Field(s) \in Nat \ {0}
         /\ \E j \in Nat \ {0} : 2 ^ Rx_Jump_Bits = 2 * j
         /\ \E k \in Nat \ {0}, l \in Nat \ {0} :
               2 ^ Register_Bits = Field(s) * k /\ 2 ^ Imm_Bits = Field(s) * l /\ l <= k
  <1>1. /\ s \in Nat \ {0} /\ Rx_Jump_Bits \in Nat \ {0} /\ Register_Bits \in Nat /\ Imm_Bits \in Nat
        /\ s + Rx_Jump_Bits < Imm_Bits /\ Imm_Bits <= Register_Bits
    BY BranchAssumption DEF Shifts
  <1>2. s - 1 \in Nat /\ (s - 1) + 1 = s /\ Rx_Jump_Bits - 1 \in Nat
        /\ (Rx_Jump_Bits - 1) + 1 = Rx_Jump_Bits
    BY <1>1
  <1>3. 2 ^ s = 2 * 2 ^ (s - 1) /\ 2 ^ (s - 1) \in Nat \ {0}
    BY Zenon, <1>2, PowerStep, PowerPositive
  <1>4. 2 ^ Rx_Jump_Bits = 2 * 2 ^ (Rx_Jump_Bits - 1) /\ 2 ^ (Rx_Jump_Bits - 1) \in Nat \ {0}
    BY Zenon, <1>2, PowerStep, PowerPositive
  <1> DEFINE w == s + Rx_Jump_Bits
             k == 2 ^ (Register_Bits - w)
             l == 2 ^ (Imm_Bits - w)
             d == 2 ^ (Register_Bits - Imm_Bits)
  <1>5. w \in Nat /\ Register_Bits - w \in Nat /\ Imm_Bits - w \in Nat
        /\ Register_Bits - Imm_Bits \in Nat
        /\ w + (Register_Bits - w) = Register_Bits /\ w + (Imm_Bits - w) = Imm_Bits
        /\ (Imm_Bits - w) + (Register_Bits - Imm_Bits) = Register_Bits - w
    BY <1>1
  <1>6. 2 ^ w = Field(s)
    <2>1. s \in Nat /\ Rx_Jump_Bits \in Nat
      BY <1>1
    <2>. QED BY Zenon, <2>1, PowerSum DEF Field
  <1>7. Field(s) \in Nat \ {0} /\ k \in Nat \ {0} /\ l \in Nat \ {0} /\ d \in Nat \ {0}
    BY Zenon, <1>5, <1>6, PowerPositive
  <1>8. 2 ^ Register_Bits = Field(s) * k /\ 2 ^ Imm_Bits = Field(s) * l /\ k = l * d
    <2>1. 2 ^ (w + (Register_Bits - w)) = 2 ^ w * k
      BY Zenon, <1>5, PowerSum
    <2>2. 2 ^ (w + (Imm_Bits - w)) = 2 ^ w * l
      BY Zenon, <1>5, PowerSum
    <2>3. 2 ^ ((Imm_Bits - w) + (Register_Bits - Imm_Bits)) = l * d
      BY Zenon, <1>5, PowerSum
    <2>. QED BY Zenon, <1>5, <1>6, <2>1, <2>2, <2>3
  <1> HIDE DEF w, k, l, d
  <1>9. l <= k
    BY <1>7, <1>8
  <1>. QED BY Zenon, <1>2, <1>3, <1>4, <1>7, <1>8, <1>9

(* The immediate the compiler makes. *)
LEMMA ImmediateField ==
  ASSUME NEW s \in Shifts, NEW n \in 0 .. 2 ^ Imm_Bits - 1
  PROVE  /\ Immediate(n, s) \in Nat
         /\ Immediate(n, s) % Field(s) \in 2 ^ s .. Field(s) - 2 ^ (s - 1) - 1
  <1> DEFINE h == 2 ^ (s - 1)
             set == SetBit(n, s)
             cleared == ClearBit(set, s - 1)
  <1>1. h \in Nat \ {0} /\ 2 ^ s = 2 * h /\ Field(s) \in Nat \ {0}
    BY Zenon, Powers
  <1>2. PICK j \in Nat \ {0} : 2 ^ Rx_Jump_Bits = 2 * j
    BY Powers
  <1>3. PICK k \in Nat \ {0}, l \in Nat \ {0} :
          2 ^ Register_Bits = Field(s) * k /\ 2 ^ Imm_Bits = Field(s) * l /\ l <= k
    BY Powers
  <1>4. n \in Nat
    BY <1>1, <1>3
  <1>5. Field(s) = (2 * h) * (2 * j)
    BY Zenon, <1>1, <1>2 DEF Field
  <1>6. set = n + (1 - ((n \div (2 * h)) % 2)) * (2 * h)
    <2>1. set = n + (1 - ((n \div 2 ^ s) % 2)) * 2 ^ s
      BY DEF SetBit, Bit
    <2> HIDE DEF h, set
    <2>. QED BY Zenon, <1>1, <2>1
  <1>7. cleared = set - ((set \div h) % 2) * h
    BY Zenon DEF ClearBit, Bit
  <1> HIDE DEF h, set, cleared
  <1>8. cleared \in Nat /\ cleared % Field(s) \in 2 * h .. Field(s) - h - 1
    <2>1. cleared \in Nat /\ cleared % ((2 * h) * (2 * j)) \in 2 * h .. (2 * h) * (2 * j) - h - 1
      BY Zenon, <1>1, <1>2, <1>4, <1>6, <1>7, SetAndCleared
    <2>. QED BY Zenon, <1>5, <2>1
  <1>9. Immediate(n, s) = cleared \/ Immediate(n, s) = cleared + 2 ^ Register_Bits - 2 ^ Imm_Bits
    BY Zenon DEF Immediate, SignExtend, cleared, set
  <1>10. cleared + 2 ^ Register_Bits - 2 ^ Imm_Bits = cleared + Field(s) * (k - l)
    <2>1. Field(s) * (k - l) = Field(s) * k - Field(s) * l /\ Field(s) * k \in Int /\ Field(s) * l \in Int
      BY <1>1, <1>3
    <2>. QED BY <1>3, <1>8, <2>1
  <1>11. (cleared + Field(s) * (k - l)) % Field(s) = cleared % Field(s)
         /\ cleared + Field(s) * (k - l) \in Nat
    <2>1. k - l \in Nat /\ k - l \in Int
      BY <1>3
    <2>2. Field(s) * (k - l) \in Nat
      BY <1>1, <2>1
    <2>3. (cleared + Field(s) * (k - l)) % Field(s) = cleared % Field(s)
      BY Zenon, <1>1, <1>8, <2>1, RestOfShifted
    <2>. QED BY <1>8, <2>2, <2>3
  <1>12. Immediate(n, s) \in Nat /\ Immediate(n, s) % Field(s) = cleared % Field(s)
    BY Zenon, <1>8, <1>9, <1>10, <1>11
  <1>. QED BY Zenon, <1>1, <1>8, <1>12 DEF h

(* After one jump the bits below the condition have overflowed into it or  *)
(* not; after two they hold less than half of what they can.               *)
BranchInv ==
    /\ shift \in Shifts /\ r \in Nat /\ imm \in Nat /\ jumps \in -1 .. 2
    /\ imm % Field(shift) \in 2 ^ shift .. Field(shift) - 2 ^ (shift - 1) - 1
    /\ jumps >= 1 => r % Field(shift) < 2 ^ shift
    /\ jumps = 2 => r % Field(shift) < 2 ^ (shift - 1)

LEMMA BranchInitInv == BranchInit => BranchInv
  <1>. SUFFICES ASSUME BranchInit PROVE BranchInv
    OBVIOUS
  <1>1. shift \in Shifts /\ jumps = 0 /\ r \in 0 .. 2 ^ Register_Bits - 1
    BY DEF BranchInit, Shifts
  <1>2. PICK n \in 0 .. 2 ^ Imm_Bits - 1 : imm = Immediate(n, shift)
    BY DEF BranchInit
  <1>3. imm \in Nat /\ imm % Field(shift) \in 2 ^ shift .. Field(shift) - 2 ^ (shift - 1) - 1
    BY Zenon, <1>1, <1>2, ImmediateField
  <1>4. r \in Nat
    <2>1. 2 ^ Register_Bits \in Nat
      BY BranchAssumption, PowerStep
    <2>. QED BY <1>1, <2>1
  <1>. QED BY <1>1, <1>3, <1>4 DEF BranchInv

(* Adding the immediate, seen in the field. *)
LEMMA SumInField ==
  ASSUME NEW f \in Nat, NEW p \in Nat, NEW h \in Nat, p = 2 * h, NEW a \in 0 .. f - 1,
         NEW i \in p .. f - h - 1, NEW sum, sum = (a + i) % f, sum < p
  PROVE  a < p => sum < h /\ a >= h
  <1>1. CASE a + i < f
    BY <1>1
  <1>2. CASE a + i >= f
    <2>1. sum = (a + i) - f
      BY <1>2
    <2>. QED BY <1>2, <2>1
  <1>. QED BY <1>1, <1>2

LEMMA BranchStepInv == BranchInv /\ [BranchNext]_branchVars => BranchInv'
  <1>. SUFFICES ASSUME BranchInv, [BranchNext]_branchVars PROVE BranchInv'
    OBVIOUS
  <1>1. CASE Branch
    <2> DEFINE sum == (r + imm) % 2 ^ Register_Bits
               f == Field(shift)   p == 2 ^ shift   h == 2 ^ (shift - 1)
    <2>1. /\ jumps >= 0 /\ r' = sum /\ shift' = shift /\ imm' = imm
          /\ jumps' = IF ConditionZero(sum, shift) THEN jumps + 1 ELSE -1
      BY <1>1 DEF Branch
    <2>2. shift \in Shifts /\ r \in Nat /\ imm \in Nat /\ jumps \in 0 .. 2
          /\ imm % f \in p .. f - h - 1
          /\ (jumps >= 1 => r % f < p) /\ (jumps = 2 => r % f < h)
      BY <2>1 DEF BranchInv
    <2>3. h \in Nat \ {0} /\ p = 2 * h /\ f \in Nat \ {0} /\ 2 ^ Rx_Jump_Bits \in Nat \ {0}
      BY <2>2, Powers, PowerPositive, BranchAssumption
    <2>4. PICK k \in Nat \ {0} : 2 ^ Register_Bits = f * k
      BY <2>2, Powers
    <2>5. f = p * 2 ^ Rx_Jump_Bits
      BY DEF Field
    <2>6. sum \in Nat /\ sum % f = ((r % f) + (imm % f)) % f /\ r % f \in 0 .. f - 1
      <3>1. r + imm \in Nat /\ f * k \in Nat \ {0}
        BY <2>2, <2>3, <2>4
      <3>2. sum \in Nat
        BY <2>4, <3>1
      <3>3. sum % f = (r + imm) % f
        <4>1. ((r + imm) % (f * k)) % f = (r + imm) % f
          BY Zenon, <2>3, <2>4, <3>1, RestOfRest
        <4>2. sum = (r + imm) % (f * k)
          BY Zenon, <2>4
        <4>. QED BY Zenon, <4>1, <4>2
      <3>4. (r + imm) % f = ((r % f) + (imm % f)) % f
        BY Zenon, <2>2, <2>3, RestOfSum
      <3>5. r % f \in 0 .. f - 1
        BY Zenon, <2>2, <2>3, Division
      <3>. QED BY Zenon, <3>2, <3>3, <3>4, <3>5
    <2>7. ConditionZero(sum, shift) <=> sum % f < p
      <3>1. p \in Nat \ {0}
        BY <2>3
      <3>2. (sum \div p) % 2 ^ Rx_Jump_Bits = 0 <=> sum % (p * 2 ^ Rx_Jump_Bits) < p
        BY Zenon, <2>3, <2>6, <3>1, ConditionBits
      <3>. QED BY Zenon, <2>5, <3>2 DEF ConditionZero
    <2> HIDE DEF sum, f, p, h
    <2>8. sum % f < p /\ r % f < p => sum % f < h /\ r % f >= h
      <3>1. f \in Nat /\ p \in Nat /\ h \in Nat
        BY <2>3
      <3>. QED BY Zenon, <2>2, <2>3, <2>6, <3>1, SumInField
    <2>9. /\ jumps' \in -1 .. 2 /\ (jumps' >= 1 => sum % f < p) /\ (jumps' = 2 => sum % f < h)
      <3>1. CASE ConditionZero(sum, shift)
        <4>1. jumps' = jumps + 1 /\ sum % f < p
          BY <2>1, <2>7, <3>1
        <4>2. r % f \in Int /\ h \in Int /\ (r % f < h => ~ (r % f >= h))
          BY <2>3, <2>6
        <4>3. jumps # 2
          BY <2>2, <2>3, <2>6, <2>8, <4>1, <4>2
        <4>. QED BY <2>2, <2>8, <4>1, <4>3
      <3>2. CASE ~ ConditionZero(sum, shift)
        BY <2>1, <3>2
      <3>. QED BY <3>1, <3>2
    <2>10. Field(shift)' = f /\ (2 ^ shift)' = p /\ (2 ^ (shift - 1))' = h
      BY <2>1 DEF f, p, h
    <2>. QED BY <2>1, <2>2, <2>6, <2>9, <2>10 DEF BranchInv
  <1>2. CASE UNCHANGED branchVars
    BY <1>2 DEF BranchInv, branchVars
  <1>. QED BY <1>1, <1>2 DEF BranchNext

(* Of three sums in a row one does not meet the condition. *)
THEOREM BranchAtMostTwoJumps == BranchSpec => []AtMostTwoJumps
  <1>1. BranchInv => AtMostTwoJumps
    BY DEF BranchInv, AtMostTwoJumps
  <1>. QED BY BranchInitInv, BranchStepInv, <1>1, PTL DEF BranchSpec

-----------------------------------------------------------------------------
(* Arithmetic: the words of a lane after each of the instructions.         *)

LEMMA HalfAndWord == /\ Half \in Nat /\ Half >= 2 /\ Word \in Nat /\ Word = Half * Half /\ Word >= 4
                     /\ LowerHalf + 1 = Half
  <1>1. Half_Width - 1 \in Nat /\ (Half_Width - 1) + 1 = Half_Width
    BY ArithmeticAssumption
  <1> DEFINE x == 2 ^ (Half_Width - 1)
  <1>2. x \in Nat /\ Half = 2 * x /\ Half \in Nat
    BY Zenon, <1>1, PowerStep, ArithmeticAssumption DEF Half
  <1>3. x # 0
    BY <1>1, PowerPositive
  <1> HIDE DEF x
  <1>4. Half >= 2
    BY <1>2, <1>3
  <1>5. Half * Half >= 4 /\ Half * Half \in Nat
    BY <1>2, <1>4
  <1>6. Half * Half - 1 = Half * (Half - 1) + (Half - 1) /\ Half - 1 \in 0 .. Half - 1 /\ Half - 1 \in Int
        /\ Half \in Nat \ {0}
    BY <1>2, <1>4
  <1>7. (Half * (Half - 1) + (Half - 1)) \div Half = Half - 1
    BY Zenon, <1>6, QuotientAndRest
  <1>8. LowerHalf = Half - 1
    BY Zenon, <1>6, <1>7 DEF LowerHalf, Word
  <1>. QED BY <1>2, <1>4, <1>5, <1>8 DEF Word

LEMMA SmallFactors ==
  ASSUME NEW h \in Nat, h >= 2, NEW x \in 0 .. h - 1, NEW y \in 0 .. h - 1
  PROVE  x * y \in Nat /\ x * y <= h * h - 2 * h + 1
  <1>1. x * y <= (h - 1) * (h - 1)
    <2>1. x * y <= x * (h - 1)
      OBVIOUS
    <2>2. x * (h - 1) <= (h - 1) * (h - 1)
      OBVIOUS
    <2>. QED BY <2>1, <2>2
  <1>2. (h - 1) * (h - 1) = h * h - 2 * h + 1
    OBVIOUS
  <1>. QED BY <1>1, <1>2

LEMMA ProductOfSums ==
  ASSUME NEW x \in Int, NEW y \in Int, NEW a \in Int, NEW b \in Int
  PROVE  (x + a) * (y + b) = x * y + x * b + a * y + a * b
  OBVIOUS

Low(x) == x % Half
Up(x) == x \div Half
(* The sums the instructions form. *)
LowerSum(a, b) == ((Low(a) * Low(b)) \div Half) + Low(a) * Up(b)
UpperSum(a, b) == (LowerSum(a, b) % Half) + Up(a) * Low(b)
HighOf(a, b) == (Up(a) * Up(b) + LowerSum(a, b) \div Half) + UpperSum(a, b) \div Half

(* The upper half of a product of two words from four of half words: none  *)
(* of the sums overflows.                                                  *)
LEMMA ProductOfHalves ==
  ASSUME NEW a \in 0 .. Word - 1, NEW b \in 0 .. Word - 1
  PROVE  /\ Low(a) \in 0 .. Half - 1 /\ Up(a) \in 0 .. Half - 1
         /\ Low(b) \in 0 .. Half - 1 /\ Up(b) \in 0 .. Half - 1
         /\ LowerSum(a, b) \in 0 .. Word - 1 /\ UpperSum(a, b) \in 0 .. Word - 1
         /\ Up(a) * Up(b) + LowerSum(a, b) \div Half \in 0 .. Word - 1
         /\ HighOf(a, b) \in 0 .. Word - 1 /\ HighOf(a, b) = (a * b) \div Word
  <1> DEFINE h == Half   w == Word   t == LowerSum(a, b)   u == UpperSum(a, b)
             a0 == Low(a)   a1 == Up(a)   b0 == Low(b)   b1 == Up(b)
  <1>0. /\ h \in Nat /\ h >= 2 /\ w = h * h /\ w \in Nat /\ w >= 4
        /\ a \in 0 .. w - 1 /\ b \in 0 .. w - 1
        /\ a0 = a % h /\ a1 = a \div h /\ b0 = b % h /\ b1 = b \div h
        /\ t = ((a0 * b0) \div h) + a0 * b1 /\ u = (t % h) + a1 * b0
    BY HalfAndWord DEF Low, Up, LowerSum, UpperSum
  <1> HIDE DEF h, w, t, u, a0, a1, b0, b1
  <1>1. h \in Nat \ {0} /\ w \in Nat \ {0} /\ a \in Nat /\ b \in Nat
    BY <1>0
  <1>2. a1 \in Nat /\ a0 \in 0 .. h - 1 /\ a = h * a1 + a0
    BY <1>0, <1>1, Division
  <1>3. b1 \in Nat /\ b0 \in 0 .. h - 1 /\ b = h * b1 + b0
    BY <1>0, <1>1, Division
  <1>4. a1 \in 0 .. h - 1
    <2>1. a1 >= h => h * a1 >= h * h
      BY <1>0, <1>2
    <2>2. h * a1 \in Nat
      BY <1>0, <1>2
    <2>. QED BY <1>0, <1>2, <2>1, <2>2
  <1>5. b1 \in 0 .. h - 1
    <2>1. b1 >= h => h * b1 >= h * h
      BY <1>0, <1>3
    <2>2. h * b1 \in Nat
      BY <1>0, <1>3
    <2>. QED BY <1>0, <1>3, <2>1, <2>2
  <1> DEFINE p == a0 * b0   s == a0 * b1   c == a1 * b0   d == a1 * b1   n == h * h
             p1 == p \div h   p0 == p % h   t1 == t \div h   t0 == t % h   u1 == u \div h   u0 == u % h
  <1>6. /\ p \in Nat /\ p <= n - 2 * h + 1 /\ s \in Nat /\ s <= n - 2 * h + 1
        /\ c \in Nat /\ c <= n - 2 * h + 1 /\ d \in Nat /\ d <= n - 2 * h + 1
    BY <1>0, <1>2, <1>3, <1>4, <1>5, SmallFactors
  <1>7. p1 \in Nat /\ p0 \in 0 .. h - 1 /\ p = h * p1 + p0
    BY <1>1, <1>6, Division
  <1>8. t = p1 + s /\ u = t0 + c
    BY <1>0
  <1> HIDE DEF p, s, c, d, n, p1, p0
  <1>n. n \in Nat /\ n >= 2 * h /\ w = n /\ h \in Nat /\ h >= 2
    BY <1>0 DEF n
  <1>9. p1 <= h - 1
    <2>1. p1 >= h => h * p1 >= n
      BY <1>7, <1>n DEF n
    <2>2. h * p1 \in Nat
      BY <1>7, <1>n
    <2>. QED BY <1>6, <1>7, <1>n, <2>1, <2>2
  <1>10. t \in Nat /\ t <= n - h
    BY <1>6, <1>7, <1>8, <1>9, <1>n
  <1>11. t1 \in Nat /\ t0 \in 0 .. h - 1 /\ t = h * t1 + t0
    BY <1>1, <1>10, Division
  <1>12. u \in Nat /\ u <= n - h
    <2> HIDE DEF t0
    <2>. QED BY <1>6, <1>8, <1>11, <1>n
  <1>13. u1 \in Nat /\ u0 \in 0 .. h - 1 /\ u = h * u1 + u0
    BY <1>1, <1>12, Division
  <1> HIDE DEF t1, t0, u1, u0
  <1>14. t1 <= h - 1 /\ u1 <= h - 1
    <2>1. (t1 >= h => h * t1 >= n) /\ (u1 >= h => h * u1 >= n)
      BY <1>11, <1>13, <1>n DEF n
    <2>2. h * t1 \in Nat /\ h * u1 \in Nat
      BY <1>11, <1>13, <1>n
    <2>. QED BY <1>10, <1>11, <1>12, <1>13, <1>n, <2>1, <2>2
  <1>15. (d + t1) + u1 \in 0 .. w - 1 /\ d + t1 \in 0 .. w - 1
    BY <1>6, <1>11, <1>13, <1>14, <1>n
  <1>16. a * b = n * ((d + t1) + u1) + (h * u0 + p0)
    <2>1. a * b = n * d + h * (s + c) + p
      <3>1. (h * a1 + a0) * (h * b1 + b0) = (h * h) * (a1 * b1) + h * (a0 * b1 + a1 * b0) + a0 * b0
        <4>. h \in Int /\ a1 \in Int /\ a0 \in Int /\ b1 \in Int /\ b0 \in Int
          BY <1>2, <1>3, <1>n
        <4>1. (h * a1 + a0) * (h * b1 + b0)
                = (h * a1) * (h * b1) + (h * a1) * b0 + a0 * (h * b1) + a0 * b0
          BY ProductOfSums
        <4>2. (h * a1) * (h * b1) = (h * h) * (a1 * b1)
          OBVIOUS
        <4>3. (h * a1) * b0 = h * (a1 * b0) /\ a0 * (h * b1) = h * (a0 * b1)
          OBVIOUS
        <4>4. h * (a0 * b1 + a1 * b0) = h * (a0 * b1) + h * (a1 * b0)
          OBVIOUS
        <4>5. /\ (h * h) * (a1 * b1) \in Int /\ h * (a1 * b0) \in Int /\ h * (a0 * b1) \in Int
              /\ a0 * b0 \in Int
          OBVIOUS
        <4> DEFINE nd == (h * h) * (a1 * b1)   hc == h * (a1 * b0)   hs == h * (a0 * b1)   low == a0 * b0
                   whole == (h * a1 + a0) * (h * b1 + b0)   middle == h * (a0 * b1 + a1 * b0)
        <4>6. whole = nd + hc + hs + low
          BY Zenon, <4>1, <4>2, <4>3
        <4>7. middle = hs + hc
          BY Zenon, <4>4
        <4>8. nd \in Int /\ hc \in Int /\ hs \in Int /\ low \in Int
          BY Zenon, <4>5
        <4> HIDE DEF nd, hc, hs, low, whole, middle
        <4>9. whole = nd + middle + low
          BY <4>6, <4>7, <4>8
        <4>. QED BY Zenon, <4>9 DEF nd, low, whole, middle
      <3>. QED BY <1>2, <1>3, <3>1 DEF n, d, s, c, p
    <2>2. s = (h * t1 + t0) - p1 /\ c = (h * u1 + u0) - t0
      BY <1>6, <1>7, <1>8, <1>11, <1>13
    <2>3. h * (s + c) = n * t1 + n * u1 + h * u0 - h * p1
      <3>1. s + c = h * t1 + h * u1 + u0 - p1
        <4>1. h * t1 \in Int /\ h * u1 \in Int
          BY <1>11, <1>13, <1>n
        <4>. QED BY <1>7, <1>11, <1>13, <2>2, <4>1
      <3>2. h * (h * t1 + h * u1 + u0 - p1) = (h * h) * t1 + (h * h) * u1 + h * u0 - h * p1
        BY <1>7, <1>11, <1>13, <1>n
      <3>. QED BY <3>1, <3>2 DEF n
    <2>4. n * ((d + t1) + u1) = n * d + n * t1 + n * u1
      BY <1>6, <1>11, <1>13, <1>n
    <2>5. /\ n * d \in Int /\ n * t1 \in Int /\ n * u1 \in Int /\ h * u0 \in Int /\ h * p1 \in Int
          /\ h * (s + c) \in Int
      BY <1>6, <1>7, <1>11, <1>13, <1>n
    <2>. QED BY <1>7, <2>1, <2>3, <2>4, <2>5
  <1>17. h * u0 + p0 \in 0 .. n - 1
    <2>1. h * u0 <= h * (h - 1) /\ h * (h - 1) = n - h /\ h * u0 \in Nat
      BY <1>13, <1>n DEF n
    <2>. QED BY <1>7, <1>n, <2>1
  <1>18. (n * ((d + t1) + u1) + (h * u0 + p0)) \div n = (d + t1) + u1
    <2>1. n \in Nat \ {0} /\ (d + t1) + u1 \in Int
      BY <1>15, <1>n
    <2>. QED BY Zenon, <1>17, <2>1, QuotientAndRest
  <1>19. (a * b) \div w = (d + t1) + u1
    BY Zenon, <1>n, <1>16, <1>18
  <1>20. t \in 0 .. w - 1 /\ u \in 0 .. w - 1
    BY <1>10, <1>12, <1>n
  <1>21. /\ d + t1 = Up(a) * Up(b) + LowerSum(a, b) \div Half
         /\ (d + t1) + u1 = HighOf(a, b)
    BY Zenon DEF d, t1, u1, t, u, h, a1, b1, HighOf
  <1>. QED BY Zenon, <1>2, <1>3, <1>4, <1>5, <1>15, <1>19, <1>20, <1>21 DEF h, w, t, u, a0, a1, b0, b1

LEMMA IntegerDivision ==
  ASSUME NEW n \in Int, NEW m \in Nat \ {0}
  PROVE  n \div m \in Int /\ n % m \in 0 .. m - 1 /\ n = m * (n \div m) + (n % m)
  OBVIOUS

LEMMA SameRest ==
  ASSUME NEW p \in Int, NEW q \in Int, NEW d \in Int, NEW m \in Nat \ {0}, p = q + m * d
  PROVE  p % m = q % m
  <1> DEFINE u == q \div m   v == q % m
  <1>1. u \in Int /\ v \in 0 .. m - 1 /\ q = m * u + v
    BY Zenon, IntegerDivision
  <1> HIDE DEF u, v
  <1>2. p = m * (u + d) + v /\ u + d \in Int
    <2>1. m * (u + d) = m * u + m * d /\ m * u \in Int /\ m * d \in Int
      BY <1>1
    <2>. QED BY <1>1, <2>1
  <1>3. (m * (u + d) + v) % m = v
    BY Zenon, <1>1, <1>2, QuotientAndRest
  <1>. QED BY Zenon, <1>2, <1>3 DEF v

(* The upper half of the signed product from that of the unsigned one: a   *)
(* factor is subtracted where the other is negative.                       *)
Selected(x, y) == IF x >= Word \div 2 THEN y ELSE 0

LEMMA SignedProduct ==
  ASSUME NEW a \in 0 .. Word - 1, NEW b \in 0 .. Word - 1, NEW high, high = (a * b) \div Word
  PROVE  (((high - Selected(a, b)) % Word) - Selected(b, a)) % Word
            = ((Signed(a) * Signed(b)) \div Word) % Word
  <1> DEFINE w == Word
             x == Selected(a, b)   y == Selected(b, a)
             s == IF a >= Word \div 2 THEN 1 ELSE 0   t == IF b >= Word \div 2 THEN 1 ELSE 0
             u == (high - x) \div w   v == (high - x) % w
             e == (a * b) % w
  <1>1. w \in Nat \ {0} /\ a \in Int /\ b \in Int /\ a * b \in Nat
    BY HalfAndWord
  <1>2. s \in Int /\ t \in Int /\ x = s * b /\ y = t * a /\ Signed(a) = a - s * w /\ Signed(b) = b - t * w
    BY <1>1 DEF Selected, Signed
  <1>3. high \in Int /\ e \in 0 .. w - 1 /\ a * b = w * high + e
    BY <1>1, IntegerDivision
  <1>4. x \in Int /\ y \in Int /\ s * t \in Int
    BY <1>1, <1>2
  <1>5. u \in Int /\ v \in Int /\ high - x = w * u + v
    <2>1. high - x \in Int
      BY <1>3, <1>4
    <2>2. u \in Int /\ v \in 0 .. w - 1 /\ high - x = w * u + v
      BY Zenon, <1>1, <2>1, IntegerDivision
    <2>. QED BY <1>1, <2>2
  <1> HIDE DEF w, x, y, s, t, u, v, e
  <1>6. Signed(a) * Signed(b) = w * (((high - x) - y) + w * (s * t)) + e
    <2>1. (a - s * w) * (b - t * w) = a * b - w * (s * b) - w * (t * a) + w * (w * (s * t))
      <3>. s * w \in Int /\ t * w \in Int
        BY <1>1, <1>2
      <3>1. (a + (-(s * w))) * (b + (-(t * w)))
              = a * b + a * (-(t * w)) + (-(s * w)) * b + (-(s * w)) * (-(t * w))
        BY <1>1, ProductOfSums
      <3>2. a * (-(t * w)) = -(w * (t * a)) /\ (-(s * w)) * b = -(w * (s * b))
        BY <1>1, <1>2
      <3>3. (-(s * w)) * (-(t * w)) = w * (w * (s * t))
        BY <1>1, <1>2
      <3>4. a - s * w = a + (-(s * w)) /\ b - t * w = b + (-(t * w))
        BY <1>1
      <3> DEFINE ab == a * b   wta == w * (t * a)   wsb == w * (s * b)   wst == w * (w * (s * t))
                 whole == (a - s * w) * (b - t * w)
      <3>5. whole = ab + (-wta) + (-wsb) + wst
        BY Zenon, <3>1, <3>2, <3>3, <3>4
      <3>6. ab \in Int /\ wta \in Int /\ wsb \in Int /\ wst \in Int
        BY <1>1, <1>2
      <3> HIDE DEF ab, wta, wsb, wst, whole
      <3>7. whole = ab - wsb - wta + wst
        BY <3>5, <3>6
      <3>. QED BY Zenon, <3>7 DEF ab, wta, wsb, wst, whole
    <2>2. w * (((high - x) - y) + w * (s * t)) = w * high - w * x - w * y + w * (w * (s * t))
      BY <1>1, <1>3, <1>4
    <2>3. w * high \in Int /\ w * x \in Int /\ w * y \in Int /\ w * (w * (s * t)) \in Int
      BY <1>1, <1>3, <1>4
    <2> DEFINE wh == w * high   wx == w * x   wy == w * y   wst == w * (w * (s * t))
               whole == Signed(a) * Signed(b)   part == w * (((high - x) - y) + w * (s * t))
    <2>4. whole = (wh + e) - wx - wy + wst
      BY Zenon, <1>2, <1>3, <2>1
    <2>5. part = wh - wx - wy + wst
      BY Zenon, <2>2
    <2>6. wh \in Int /\ wx \in Int /\ wy \in Int /\ wst \in Int /\ e \in Int
      BY <1>3, <2>3
    <2> HIDE DEF wh, wx, wy, wst, whole, part
    <2>7. whole = part + e
      BY <2>4, <2>5, <2>6
    <2>. QED BY Zenon, <2>7 DEF whole, part
  <1>7. ((high - x) - y) + w * (s * t) \in Int
    BY <1>1, <1>3, <1>4
  <1>8. (Signed(a) * Signed(b)) \div w = ((high - x) - y) + w * (s * t)
    <2>1. (w * (((high - x) - y) + w * (s * t)) + e) \div w = ((high - x) - y) + w * (s * t)
      BY Zenon, <1>1, <1>3, <1>7, QuotientAndRest
    <2>. QED BY Zenon, <1>6, <2>1
  <1>9. v - y \in Int /\ ((high - x) - y) + w * (s * t) = (v - y) + w * (u + s * t)
    <2>1. w * (u + s * t) = w * u + w * (s * t) /\ w * u \in Int /\ w * (s * t) \in Int
      BY <1>1, <1>4, <1>5
    <2>. QED BY <1>3, <1>4, <1>5, <2>1
  <1>10. (((high - x) - y) + w * (s * t)) % w = (v - y) % w
    <2>1. u + s * t \in Int
      BY <1>4, <1>5
    <2> DEFINE p == ((high - x) - y) + w * (s * t)   q == v - y   d == u + s * t
    <2>2. p \in Int /\ q \in Int /\ d \in Int /\ p = q + w * d
      BY Zenon, <1>7, <1>9, <2>1
    <2> HIDE DEF p, q, d
    <2>3. w \in Nat \ {0}
      BY Zenon, <1>1
    <2> HIDE DEF w
    <2>4. p % w = q % w
      BY ZenonT(40), <2>2, <2>3, SameRest
    <2>. QED BY Zenon, <2>4 DEF p, q
  <1>. QED BY Zenon, <1>8, <1>10 DEF v, w, x, y

LEMMA SwappedLow ==
  ASSUME NEW a \in 0 .. Word - 1 PROVE Low(Low(a) * Half + Up(a)) = Up(a)
  <1>1. /\ Low(a) \in 0 .. Half - 1 /\ Up(a) \in 0 .. Half - 1
    BY ProductOfHalves
  <1>2. Low(a) \in Int /\ Half \in Nat \ {0} /\ Low(a) * Half = Half * Low(a)
    BY <1>1, HalfAndWord
  <1>3. (Half * Low(a) + Up(a)) % Half = Up(a)
    BY Zenon, <1>1, <1>2, QuotientAndRest
  <1>. QED BY Zenon, <1>2, <1>3 DEF Low

Sign(x) == IF x >= Word \div 2 THEN Word - 1 ELSE 0

VectorRegisters == {"dst", "src", "ymm0", "ymm1", "ymm2", "ymm3", "ymm4", "ymm5"}
LastStep(target) == IF target = "dst" THEN 14 ELSE 20

(* What an instruction may rely on before the last one: its operands. *)
Operands(l, a, b, from, target, k) ==
    /\ DOMAIN l = VectorRegisters /\ l = [x \in VectorRegisters |-> l[x]]
    /\ l["ymm4"] = LowerHalf /\ l["ymm5"] = 0
    /\ (from = "src" => l["src"] = b) /\ (from = "dst" => a = b)
    /\ k < LastStep(target) => l["dst"] = a
(* The registers that will still be read, when k instructions are done. *)
Temporaries(l, a, b, k) ==
    /\ k \in 1 .. 8 => l["ymm1"] = Low(a) * Half + Up(a)
    /\ k \in 2 .. 4 => l["ymm2"] = Low(b) * Half + Up(b)
    /\ k \in 3 .. 5 => l["ymm3"] = Low(a) * Low(b)
    /\ k \in 4 .. 10 => l["ymm0"] = Up(a) * Up(b)
    /\ k \in 5 .. 7 => l["ymm2"] = Low(a) * Up(b)
    /\ k = 6 => l["ymm3"] = (Low(a) * Low(b)) \div Half
    /\ k \in 7 .. 9 => l["ymm3"] = LowerSum(a, b)
    /\ k \in 8 .. 11 => l["ymm2"] = LowerSum(a, b) % Half
    /\ k \in 9 .. 11 => l["ymm1"] = Up(a) * Low(b)
    /\ k = 10 => l["ymm3"] = LowerSum(a, b) \div Half
    /\ k \in 11 .. 13 => l["ymm0"] = Up(a) * Up(b) + LowerSum(a, b) \div Half
    /\ k = 12 => l["ymm2"] = UpperSum(a, b)
    /\ k = 13 => l["ymm2"] = UpperSum(a, b) \div Half
SignedTemporaries(l, a, b, k) ==
    /\ k \in 14 .. 16 => l["ymm2"] = HighOf(a, b)
    /\ k = 15 => l["ymm0"] = Sign(a)
    /\ k = 16 => l["ymm0"] = Selected(a, b)
    /\ k \in 17 .. 19 => l["ymm2"] = (HighOf(a, b) - Selected(a, b)) % Word
    /\ k = 18 => l["ymm1"] = Sign(b)
    /\ k = 19 => l["ymm1"] = Selected(b, a)
Result(l, a, b, target, k) ==
    k = LastStep(target) => l["dst"] = IF target = "dst" THEN HighOf(a, b)
                                   ELSE (((HighOf(a, b) - Selected(a, b)) % Word) - Selected(b, a)) % Word
Stage(l, a, b, from, target, k) ==
    /\ Operands(l, a, b, from, target, k) /\ Temporaries(l, a, b, k)
    /\ target = "ymm2" => SignedTemporaries(l, a, b, k)
    /\ Result(l, a, b, target, k)

(* The instructions of both multiplications. *)
Code(target, from) ==
    IF target = "dst" THEN Vpmulhuq("dst", "dst", from) ELSE Vpmulhq("dst", from)
Opcodes == {"vpshufd", "vpmuludq", "vpsrlq", "vpaddq", "vpand", "vpcmpgtq", "vpsubq"}
Operations == Opcodes \X VectorRegisters \X VectorRegisters \X VectorRegisters

LEMMA CodeOf ==
  ASSUME NEW target \in {"dst", "ymm2"}, NEW from \in {"dst", "src"}, NEW code, code = Code(target, from)
  PROVE  /\ code \in Seq(Operations) /\ Len(code) = LastStep(target)
         /\ code[1] = <<"vpshufd", "ymm1", "dst", "dst">>
         /\ code[2] = <<"vpshufd", "ymm2", from, from>>
         /\ code[3] = <<"vpmuludq", "ymm3", "dst", from>>
         /\ code[4] = <<"vpmuludq", "ymm0", "ymm1", "ymm2">>
         /\ code[5] = <<"vpmuludq", "ymm2", "dst", "ymm2">>
         /\ code[6] = <<"vpsrlq", "ymm3", "ymm3", "ymm3">>
         /\ code[7] = <<"vpaddq", "ymm3", "ymm3", "ymm2">>
         /\ code[8] = <<"vpand", "ymm2", "ymm3", "ymm4">>
         /\ code[9] = <<"vpmuludq", "ymm1", from, "ymm1">>
         /\ code[10] = <<"vpsrlq", "ymm3", "ymm3", "ymm3">>
         /\ code[11] = <<"vpaddq", "ymm0", "ymm0", "ymm3">>
         /\ code[12] = <<"vpaddq", "ymm2", "ymm2", "ymm1">>
         /\ code[13] = <<"vpsrlq", "ymm2", "ymm2", "ymm2">>
         /\ code[14] = <<"vpaddq", target, "ymm0", "ymm2">>
         /\ target = "ymm2" =>
              /\ code[15] = <<"vpcmpgtq", "ymm0", "ymm5", "dst">>
              /\ code[16] = <<"vpand", "ymm0", from, "ymm0">>
              /\ code[17] = <<"vpsubq", "ymm2", "ymm2", "ymm0">>
              /\ code[18] = <<"vpcmpgtq", "ymm1", "ymm5", from>>
              /\ code[19] = <<"vpand", "ymm1", "dst", "ymm1">>
              /\ code[20] = <<"vpsubq", "dst", "ymm2", "ymm1">>
  <1> DEFINE u == Vpmulhuq(target, "dst", from)
             v == <<
    <<"vpcmpgtq", "ymm0", "ymm5", "dst">>,
    <<"vpand", "ymm0", from, "ymm0">>,
    <<"vpsubq", "ymm2", "ymm2", "ymm0">>,
    <<"vpcmpgtq", "ymm1", "ymm5", from>>,
    <<"vpand", "ymm1", "dst", "ymm1">>,
    <<"vpsubq", "dst", "ymm2", "ymm1">>>>
  <1>1. u \in Seq(Operations) /\ Len(u) = 14
    BY DEF Vpmulhuq, Operations, Opcodes, VectorRegisters
  <1>2. v \in Seq(Operations) /\ Len(v) = 6
    BY DEF Operations, Opcodes, VectorRegisters
  <1>3. CASE target = "dst"
    <2>1. code = Vpmulhuq("dst", "dst", from)
      BY <1>3 DEF Code
    <2>2. code = u
      BY Zenon, <1>3, <2>1
    <2>3. LastStep(target) = 14 /\ target # "ymm2"
      BY <1>3 DEF LastStep
    <2>. QED BY <1>1, <2>2, <2>3 DEF Vpmulhuq
  <1>4. CASE target = "ymm2"
    <2>1. code = Vpmulhuq("ymm2", "dst", from) \o v
      BY <1>4 DEF Code, Vpmulhq
    <2>2. code = u \o v
      BY Zenon, <1>4, <2>1
    <2>3. LastStep(target) = 20
      BY <1>4 DEF LastStep
    <2> HIDE DEF u, v
    <2>4. /\ code \in Seq(Operations) /\ Len(code) = 20
          /\ \A i \in 1 .. 20 : code[i] = IF i <= 14 THEN u[i] ELSE v[i - 14]
      <3>1. /\ code \in Seq(Operations) /\ Len(code) = Len(u) + Len(v)
            /\ \A i \in 1 .. Len(u) + Len(v) :
                  code[i] = IF i <= Len(u) THEN u[i] ELSE v[i - Len(u)]
        <4>1. u \in Seq(Operations) /\ v \in Seq(Operations)
          BY <1>1, <1>2
        <4>2. /\ u \o v \in Seq(Operations) /\ Len(u \o v) = Len(u) + Len(v)
              /\ \A i \in 1 .. Len(u) + Len(v) :
                    (u \o v)[i] = IF i <= Len(u) THEN u[i] ELSE v[i - Len(u)]
          BY <4>1, ConcatProperties
        <4>. QED BY Zenon, <2>2, <4>2
      <3>. QED BY <1>1, <1>2, <3>1
    <2>5. /\ code[1] = u[1] /\ code[2] = u[2] /\ code[3] = u[3] /\ code[4] = u[4] /\ code[5] = u[5]
          /\ code[6] = u[6] /\ code[7] = u[7] /\ code[8] = u[8] /\ code[9] = u[9] /\ code[10] = u[10]
          /\ code[11] = u[11] /\ code[12] = u[12] /\ code[13] = u[13] /\ code[14] = u[14]
      BY <2>4
    <2>6. /\ code[15] = v[1] /\ code[16] = v[2] /\ code[17] = v[3] /\ code[18] = v[4]
          /\ code[19] = v[5] /\ code[20] = v[6]
      BY <2>4
    <2>7. /\ v[1] = <<"vpcmpgtq", "ymm0", "ymm5", "dst">> /\ v[2] = <<"vpand", "ymm0", from, "ymm0">>
          /\ v[3] = <<"vpsubq", "ymm2", "ymm2", "ymm0">> /\ v[4] = <<"vpcmpgtq", "ymm1", "ymm5", from>>
          /\ v[5] = <<"vpand", "ymm1", "dst", "ymm1">> /\ v[6] = <<"vpsubq", "dst", "ymm2", "ymm1">>
      BY DEF v
    <2>. QED BY <2>3, <2>4, <2>5, <2>6, <2>7 DEF u, Vpmulhuq
  <1>. QED BY <1>3, <1>4

(* An instruction writes one register. *)
Executes(l, m, opcode, d, x, y) == m = [l EXCEPT ![d] = Execute(opcode, l[x], l[y])]
Writes(l, m, d, v) ==
    /\ DOMAIN m = VectorRegisters /\ m = [x \in VectorRegisters |-> m[x]]
    /\ m[d] = v /\ \A x \in VectorRegisters \ {d} : m[x] = l[x]

LEMMA Instruction ==
  ASSUME NEW l, NEW m, NEW d \in VectorRegisters, NEW v, DOMAIN l = VectorRegisters, m = [l EXCEPT ![d] = v]
  PROVE  Writes(l, m, d, v)
  BY DEF Writes

(* Comparing with zero tells the sign; the mask selects the other factor.  *)
LEMMA Comparison ==
  ASSUME NEW x \in 0 .. Word - 1 PROVE Execute("vpcmpgtq", 0, x) = Sign(x)
  <1>1. Word \in Nat /\ Word >= 4
    BY HalfAndWord
  <1>2. Signed(0) = 0
    BY <1>1 DEF Signed
  <1>3. Signed(0) > Signed(x) <=> x >= Word \div 2
    BY <1>1, <1>2 DEF Signed
  <1>. QED BY <1>3 DEF Execute, Sign

LEMMA Selection ==
  ASSUME NEW x \in 0 .. Word - 1, NEW y \in 0 .. Word - 1
  PROVE  Execute("vpand", y, Sign(x)) = Selected(x, y)
  <1>1. Word \in Nat /\ Word >= 4 /\ (Word - 1) + 1 = Word
    BY HalfAndWord
  <1>2. y % Word = y /\ y % 1 = 0
    BY <1>1
  <1>3. Execute("vpand", y, Sign(x)) = y % (Sign(x) + 1)
    BY DEF Execute
  <1>. QED BY <1>1, <1>2, <1>3 DEF Sign, Selected

(* Additions that do not overflow. *)
LEMMA NoOverflow ==
  ASSUME NEW x, NEW y, NEW z \in 0 .. Word - 1, x + y = z PROVE Execute("vpaddq", x, y) = z
  <1>1. Word \in Nat /\ z % Word = z
    BY HalfAndWord
  <1>2. Execute("vpaddq", x, y) = (x + y) % Word
    BY DEF Execute
  <1>. QED BY Zenon, <1>1, <1>2

LEMMA Stage1 ==
  ASSUME NEW a \in 0 .. Word - 1, NEW b \in 0 .. Word - 1, NEW l, NEW m,
         NEW target \in {"dst", "ymm2"}, NEW from \in {"dst", "src"}, 1 <= LastStep(target),
         Stage(l, a, b, from, target, 0),
         Executes(l, m, "vpshufd", "ymm1", "dst", "dst")
  PROVE  Stage(m, a, b, from, target, 1)
  <1>1. l["dst"] = a /\ l["dst"] = a /\ DOMAIN l = VectorRegisters
    BY DEF Stage, Operands, Temporaries, SignedTemporaries, LastStep
  <1> DEFINE x == a   y == a   z == Low(a) * Half + Up(a)
  <1>2. Execute("vpshufd", x, y) = z
    BY DEF Execute, Low, Up
  <1> HIDE DEF x, y, z
  <1>3. m = [l EXCEPT !["ymm1"] = z]
    BY Zenon, <1>1, <1>2 DEF Executes, x, y
  <1>4. Writes(l, m, "ymm1", z)
    BY <1>1, <1>3, Instruction DEF VectorRegisters
  <1>5. m["ymm1"] = Low(a) * Half + Up(a) /\ \A reg \in VectorRegisters : reg # "ymm1" => m[reg] = l[reg]
    BY Zenon, <1>4 DEF Writes, z
  <1>6. /\ m["dst"] = l["dst"] /\ m["src"] = l["src"] /\ m["ymm0"] = l["ymm0"]
        /\ m["ymm2"] = l["ymm2"] /\ m["ymm3"] = l["ymm3"] /\ m["ymm4"] = l["ymm4"]
        /\ m["ymm5"] = l["ymm5"]
    BY <1>5 DEF VectorRegisters
  <1>7. Operands(m, a, b, from, target, 1)
    <2>1. 1 < LastStep(target) => 0 < LastStep(target)
      BY DEF LastStep
    <2>2. DOMAIN m = VectorRegisters /\ m = [reg \in VectorRegisters |-> m[reg]]
      BY Zenon, <1>4 DEF Writes
    <2>. QED BY <1>6, <2>1, <2>2 DEF Stage, Operands
  <1>8. Temporaries(m, a, b, 1)
    BY <1>5, <1>6 DEF Stage, Temporaries
  <1>9. target = "ymm2" => SignedTemporaries(m, a, b, 1)
    BY <1>5, <1>6 DEF Stage, SignedTemporaries
  <1>10. Result(m, a, b, target, 1)
    BY <1>5 DEF Result, LastStep
  <1>. QED BY Zenon, <1>7, <1>8, <1>9, <1>10 DEF Stage

LEMMA Stage2 ==
  ASSUME NEW a \in 0 .. Word - 1, NEW b \in 0 .. Word - 1, NEW l, NEW m,
         NEW target \in {"dst", "ymm2"}, NEW from \in {"dst", "src"}, 2 <= LastStep(target),
         Stage(l, a, b, from, target, 1),
         Executes(l, m, "vpshufd", "ymm2", from, from)
  PROVE  Stage(m, a, b, from, target, 2)
  <1>1. l[from] = b /\ l[from] = b /\ DOMAIN l = VectorRegisters
    BY DEF Stage, Operands, Temporaries, SignedTemporaries, LastStep
  <1> DEFINE x == b   y == b   z == Low(b) * Half + Up(b)
  <1>2. Execute("vpshufd", x, y) = z
    BY DEF Execute, Low, Up
  <1> HIDE DEF x, y, z
  <1>3. m = [l EXCEPT !["ymm2"] = z]
    BY Zenon, <1>1, <1>2 DEF Executes, x, y
  <1>4. Writes(l, m, "ymm2", z)
    BY <1>1, <1>3, Instruction DEF VectorRegisters
  <1>5. m["ymm2"] = Low(b) * Half + Up(b) /\ \A reg \in VectorRegisters : reg # "ymm2" => m[reg] = l[reg]
    BY Zenon, <1>4 DEF Writes, z
  <1>6. /\ m["dst"] = l["dst"] /\ m["src"] = l["src"] /\ m["ymm0"] = l["ymm0"]
        /\ m["ymm1"] = l["ymm1"] /\ m["ymm3"] = l["ymm3"] /\ m["ymm4"] = l["ymm4"]
        /\ m["ymm5"] = l["ymm5"]
    BY <1>5 DEF VectorRegisters
  <1>7. Operands(m, a, b, from, target, 2)
    <2>1. 2 < LastStep(target) => 1 < LastStep(target)
      BY DEF LastStep
    <2>2. DOMAIN m = VectorRegisters /\ m = [reg \in VectorRegisters |-> m[reg]]
      BY Zenon, <1>4 DEF Writes
    <2>. QED BY <1>6, <2>1, <2>2 DEF Stage, Operands
  <1>8. Temporaries(m, a, b, 2)
    BY <1>5, <1>6 DEF Stage, Temporaries
  <1>9. target = "ymm2" => SignedTemporaries(m, a, b, 2)
    BY <1>5, <1>6 DEF Stage, SignedTemporaries
  <1>10. Result(m, a, b, target, 2)
    BY <1>5 DEF Result, LastStep
  <1>. QED BY Zenon, <1>7, <1>8, <1>9, <1>10 DEF Stage

LEMMA Stage3 ==
  ASSUME NEW a \in 0 .. Word - 1, NEW b \in 0 .. Word - 1, NEW l, NEW m,
         NEW target \in {"dst", "ymm2"}, NEW from \in {"dst", "src"}, 3 <= LastStep(target),
         Stage(l, a, b, from, target, 2),
         Executes(l, m, "vpmuludq", "ymm3", "dst", from)
  PROVE  Stage(m, a, b, from, target, 3)
  <1>1. l["dst"] = a /\ l[from] = b /\ DOMAIN l = VectorRegisters
    BY DEF Stage, Operands, Temporaries, SignedTemporaries, LastStep
  <1> DEFINE x == a   y == b   z == Low(a) * Low(b)
  <1>2. Execute("vpmuludq", x, y) = z
    BY DEF Execute, Low, Up
  <1> HIDE DEF x, y, z
  <1>3. m = [l EXCEPT !["ymm3"] = z]
    BY Zenon, <1>1, <1>2 DEF Executes, x, y
  <1>4. Writes(l, m, "ymm3", z)
    BY <1>1, <1>3, Instruction DEF VectorRegisters
  <1>5. m["ymm3"] = Low(a) * Low(b) /\ \A reg \in VectorRegisters : reg # "ymm3" => m[reg] = l[reg]
    BY Zenon, <1>4 DEF Writes, z
  <1>6. /\ m["dst"] = l["dst"] /\ m["src"] = l["src"] /\ m["ymm0"] = l["ymm0"]
        /\ m["ymm1"] = l["ymm1"] /\ m["ymm2"] = l["ymm2"] /\ m["ymm4"] = l["ymm4"]
        /\ m["ymm5"] = l["ymm5"]
    BY <1>5 DEF VectorRegisters
  <1>7. Operands(m, a, b, from, target, 3)
    <2>1. 3 < LastStep(target) => 2 < LastStep(target)
      BY DEF LastStep
    <2>2. DOMAIN m = VectorRegisters /\ m = [reg \in VectorRegisters |-> m[reg]]
      BY Zenon, <1>4 DEF Writes
    <2>. QED BY <1>6, <2>1, <2>2 DEF Stage, Operands
  <1>8. Temporaries(m, a, b, 3)
    BY <1>5, <1>6 DEF Stage, Temporaries
  <1>9. target = "ymm2" => SignedTemporaries(m, a, b, 3)
    BY <1>5, <1>6 DEF Stage, SignedTemporaries
  <1>10. Result(m, a, b, target, 3)
    BY <1>5 DEF Result, LastStep
  <1>. QED BY Zenon, <1>7, <1>8, <1>9, <1>10 DEF Stage

LEMMA Stage4 ==
  ASSUME NEW a \in 0 .. Word - 1, NEW b \in 0 .. Word - 1, NEW l, NEW m,
         NEW target \in {"dst", "ymm2"}, NEW from \in {"dst", "src"}, 4 <= LastStep(target),
         Stage(l, a, b, from, target, 3),
         Executes(l, m, "vpmuludq", "ymm0", "ymm1", "ymm2")
  PROVE  Stage(m, a, b, from, target, 4)
  <1>1. l["ymm1"] = Low(a) * Half + Up(a) /\ l["ymm2"] = Low(b) * Half + Up(b) /\ DOMAIN l = VectorRegisters
    BY DEF Stage, Operands, Temporaries, SignedTemporaries, LastStep
  <1> DEFINE x == Low(a) * Half + Up(a)   y == Low(b) * Half + Up(b)   z == Up(a) * Up(b)
  <1>2. Execute("vpmuludq", x, y) = z
    <2>1. Execute("vpmuludq", x, y) = Low(x) * Low(y)
      BY DEF Execute, Low
    <2>2. Low(Low(a) * Half + Up(a)) = Up(a) /\ Low(Low(b) * Half + Up(b)) = Up(b)
      BY SwappedLow
    <2>. QED BY Zenon, <2>1, <2>2
  <1> HIDE DEF x, y, z
  <1>3. m = [l EXCEPT !["ymm0"] = z]
    BY Zenon, <1>1, <1>2 DEF Executes, x, y
  <1>4. Writes(l, m, "ymm0", z)
    BY <1>1, <1>3, Instruction DEF VectorRegisters
  <1>5. m["ymm0"] = Up(a) * Up(b) /\ \A reg \in VectorRegisters : reg # "ymm0" => m[reg] = l[reg]
    BY Zenon, <1>4 DEF Writes, z
  <1>6. /\ m["dst"] = l["dst"] /\ m["src"] = l["src"] /\ m["ymm1"] = l["ymm1"]
        /\ m["ymm2"] = l["ymm2"] /\ m["ymm3"] = l["ymm3"] /\ m["ymm4"] = l["ymm4"]
        /\ m["ymm5"] = l["ymm5"]
    BY <1>5 DEF VectorRegisters
  <1>7. Operands(m, a, b, from, target, 4)
    <2>1. 4 < LastStep(target) => 3 < LastStep(target)
      BY DEF LastStep
    <2>2. DOMAIN m = VectorRegisters /\ m = [reg \in VectorRegisters |-> m[reg]]
      BY Zenon, <1>4 DEF Writes
    <2>. QED BY <1>6, <2>1, <2>2 DEF Stage, Operands
  <1>8. Temporaries(m, a, b, 4)
    BY <1>5, <1>6 DEF Stage, Temporaries
  <1>9. target = "ymm2" => SignedTemporaries(m, a, b, 4)
    BY <1>5, <1>6 DEF Stage, SignedTemporaries
  <1>10. Result(m, a, b, target, 4)
    BY <1>5 DEF Result, LastStep
  <1>. QED BY Zenon, <1>7, <1>8, <1>9, <1>10 DEF Stage

LEMMA Stage5 ==
  ASSUME NEW a \in 0 .. Word - 1, NEW b \in 0 .. Word - 1, NEW l, NEW m,
         NEW target \in {"dst", "ymm2"}, NEW from \in {"dst", "src"}, 5 <= LastStep(target),
         Stage(l, a, b, from, target, 4),
         Executes(l, m, "vpmuludq", "ymm2", "dst", "ymm2")
  PROVE  Stage(m, a, b, from, target, 5)
  <1>1. l["dst"] = a /\ l["ymm2"] = Low(b) * Half + Up(b) /\ DOMAIN l = VectorRegisters
    BY DEF Stage, Operands, Temporaries, SignedTemporaries, LastStep
  <1> DEFINE x == a   y == Low(b) * Half + Up(b)   z == Low(a) * Up(b)
  <1>2. Execute("vpmuludq", x, y) = z
    <2>1. Execute("vpmuludq", x, y) = Low(x) * Low(y)
      BY DEF Execute, Low
    <2>2. Low(Low(a) * Half + Up(a)) = Up(a) /\ Low(Low(b) * Half + Up(b)) = Up(b)
      BY SwappedLow
    <2>. QED BY Zenon, <2>1, <2>2
  <1> HIDE DEF x, y, z
  <1>3. m = [l EXCEPT !["ymm2"] = z]
    BY Zenon, <1>1, <1>2 DEF Executes, x, y
  <1>4. Writes(l, m, "ymm2", z)
    BY <1>1, <1>3, Instruction DEF VectorRegisters
  <1>5. m["ymm2"] = Low(a) * Up(b) /\ \A reg \in VectorRegisters : reg # "ymm2" => m[reg] = l[reg]
    BY Zenon, <1>4 DEF Writes, z
  <1>6. /\ m["dst"] = l["dst"] /\ m["src"] = l["src"] /\ m["ymm0"] = l["ymm0"]
        /\ m["ymm1"] = l["ymm1"] /\ m["ymm3"] = l["ymm3"] /\ m["ymm4"] = l["ymm4"]
        /\ m["ymm5"] = l["ymm5"]
    BY <1>5 DEF VectorRegisters
  <1>7. Operands(m, a, b, from, target, 5)
    <2>1. 5 < LastStep(target) => 4 < LastStep(target)
      BY DEF LastStep
    <2>2. DOMAIN m = VectorRegisters /\ m = [reg \in VectorRegisters |-> m[reg]]
      BY Zenon, <1>4 DEF Writes
    <2>. QED BY <1>6, <2>1, <2>2 DEF Stage, Operands
  <1>8. Temporaries(m, a, b, 5)
    BY <1>5, <1>6 DEF Stage, Temporaries
  <1>9. target = "ymm2" => SignedTemporaries(m, a, b, 5)
    BY <1>5, <1>6 DEF Stage, SignedTemporaries
  <1>10. Result(m, a, b, target, 5)
    BY <1>5 DEF Result, LastStep
  <1>. QED BY Zenon, <1>7, <1>8, <1>9, <1>10 DEF Stage

LEMMA Stage6 ==
  ASSUME NEW a \in 0 .. Word - 1, NEW b \in 0 .. Word - 1, NEW l, NEW m,
         NEW target \in {"dst", "ymm2"}, NEW from \in {"dst", "src"}, 6 <= LastStep(target),
         Stage(l, a, b, from, target, 5),
         Executes(l, m, "vpsrlq", "ymm3", "ymm3", "ymm3")
  PROVE  Stage(m, a, b, from, target, 6)
  <1>1. l["ymm3"] = Low(a) * Low(b) /\ l["ymm3"] = Low(a) * Low(b) /\ DOMAIN l = VectorRegisters
    BY DEF Stage, Operands, Temporaries, SignedTemporaries, LastStep
  <1> DEFINE x == Low(a) * Low(b)   y == Low(a) * Low(b)   z == (Low(a) * Low(b)) \div Half
  <1>2. Execute("vpsrlq", x, y) = z
    BY DEF Execute, Low, Up
  <1> HIDE DEF x, y, z
  <1>3. m = [l EXCEPT !["ymm3"] = z]
    BY Zenon, <1>1, <1>2 DEF Executes, x, y
  <1>4. Writes(l, m, "ymm3", z)
    BY <1>1, <1>3, Instruction DEF VectorRegisters
  <1>5. m["ymm3"] = (Low(a) * Low(b)) \div Half /\ \A reg \in VectorRegisters : reg # "ymm3" => m[reg] = l[reg]
    BY Zenon, <1>4 DEF Writes, z
  <1>6. /\ m["dst"] = l["dst"] /\ m["src"] = l["src"] /\ m["ymm0"] = l["ymm0"]
        /\ m["ymm1"] = l["ymm1"] /\ m["ymm2"] = l["ymm2"] /\ m["ymm4"] = l["ymm4"]
        /\ m["ymm5"] = l["ymm5"]
    BY <1>5 DEF VectorRegisters
  <1>7. Operands(m, a, b, from, target, 6)
    <2>1. 6 < LastStep(target) => 5 < LastStep(target)
      BY DEF LastStep
    <2>2. DOMAIN m = VectorRegisters /\ m = [reg \in VectorRegisters |-> m[reg]]
      BY Zenon, <1>4 DEF Writes
    <2>. QED BY <1>6, <2>1, <2>2 DEF Stage, Operands
  <1>8. Temporaries(m, a, b, 6)
    BY <1>5, <1>6 DEF Stage, Temporaries
  <1>9. target = "ymm2" => SignedTemporaries(m, a, b, 6)
    BY <1>5, <1>6 DEF Stage, SignedTemporaries
  <1>10. Result(m, a, b, target, 6)
    BY <1>5 DEF Result, LastStep
  <1>. QED BY Zenon, <1>7, <1>8, <1>9, <1>10 DEF Stage

LEMMA Stage7 ==
  ASSUME NEW a \in 0 .. Word - 1, NEW b \in 0 .. Word - 1, NEW l, NEW m,
         NEW target \in {"dst", "ymm2"}, NEW from \in {"dst", "src"}, 7 <= LastStep(target),
         Stage(l, a, b, from, target, 6),
         Executes(l, m, "vpaddq", "ymm3", "ymm3", "ymm2")
  PROVE  Stage(m, a, b, from, target, 7)
  <1>1. l["ymm3"] = (Low(a) * Low(b)) \div Half /\ l["ymm2"] = Low(a) * Up(b) /\ DOMAIN l = VectorRegisters
    BY DEF Stage, Operands, Temporaries, SignedTemporaries, LastStep
  <1> DEFINE x == (Low(a) * Low(b)) \div Half   y == Low(a) * Up(b)   z == LowerSum(a, b)
  <1>2. Execute("vpaddq", x, y) = z
    <2>1. x + y = z /\ z \in 0 .. Word - 1
      BY ProductOfHalves DEF LowerSum, UpperSum, HighOf
    <2>. QED BY <2>1, NoOverflow
  <1> HIDE DEF x, y, z
  <1>3. m = [l EXCEPT !["ymm3"] = z]
    BY Zenon, <1>1, <1>2 DEF Executes, x, y
  <1>4. Writes(l, m, "ymm3", z)
    BY <1>1, <1>3, Instruction DEF VectorRegisters
  <1>5. m["ymm3"] = LowerSum(a, b) /\ \A reg \in VectorRegisters : reg # "ymm3" => m[reg] = l[reg]
    BY Zenon, <1>4 DEF Writes, z
  <1>6. /\ m["dst"] = l["dst"] /\ m["src"] = l["src"] /\ m["ymm0"] = l["ymm0"]
        /\ m["ymm1"] = l["ymm1"] /\ m["ymm2"] = l["ymm2"] /\ m["ymm4"] = l["ymm4"]
        /\ m["ymm5"] = l["ymm5"]
    BY <1>5 DEF VectorRegisters
  <1>7. Operands(m, a, b, from, target, 7)
    <2>1. 7 < LastStep(target) => 6 < LastStep(target)
      BY DEF LastStep
    <2>2. DOMAIN m = VectorRegisters /\ m = [reg \in VectorRegisters |-> m[reg]]
      BY Zenon, <1>4 DEF Writes
    <2>. QED BY <1>6, <2>1, <2>2 DEF Stage, Operands
  <1>8. Temporaries(m, a, b, 7)
    BY <1>5, <1>6 DEF Stage, Temporaries
  <1>9. target = "ymm2" => SignedTemporaries(m, a, b, 7)
    BY <1>5, <1>6 DEF Stage, SignedTemporaries
  <1>10. Result(m, a, b, target, 7)
    BY <1>5 DEF Result, LastStep
  <1>. QED BY Zenon, <1>7, <1>8, <1>9, <1>10 DEF Stage

LEMMA Stage8 ==
  ASSUME NEW a \in 0 .. Word - 1, NEW b \in 0 .. Word - 1, NEW l, NEW m,
         NEW target \in {"dst", "ymm2"}, NEW from \in {"dst", "src"}, 8 <= LastStep(target),
         Stage(l, a, b, from, target, 7),
         Executes(l, m, "vpand", "ymm2", "ymm3", "ymm4")
  PROVE  Stage(m, a, b, from, target, 8)
  <1>1. l["ymm3"] = LowerSum(a, b) /\ l["ymm4"] = LowerHalf /\ DOMAIN l = VectorRegisters
    BY DEF Stage, Operands, Temporaries, SignedTemporaries, LastStep
  <1> DEFINE x == LowerSum(a, b)   y == LowerHalf   z == LowerSum(a, b) % Half
  <1>2. Execute("vpand", x, y) = z
    <2>1. Execute("vpand", x, y) = x % (y + 1)
      BY DEF Execute
    <2>. QED BY Zenon, <2>1, HalfAndWord
  <1> HIDE DEF x, y, z
  <1>3. m = [l EXCEPT !["ymm2"] = z]
    BY Zenon, <1>1, <1>2 DEF Executes, x, y
  <1>4. Writes(l, m, "ymm2", z)
    BY <1>1, <1>3, Instruction DEF VectorRegisters
  <1>5. m["ymm2"] = LowerSum(a, b) % Half /\ \A reg \in VectorRegisters : reg # "ymm2" => m[reg] = l[reg]
    BY Zenon, <1>4 DEF Writes, z
  <1>6. /\ m["dst"] = l["dst"] /\ m["src"] = l["src"] /\ m["ymm0"] = l["ymm0"]
        /\ m["ymm1"] = l["ymm1"] /\ m["ymm3"] = l["ymm3"] /\ m["ymm4"] = l["ymm4"]
        /\ m["ymm5"] = l["ymm5"]
    BY <1>5 DEF VectorRegisters
  <1>7. Operands(m, a, b, from, target, 8)
    <2>1. 8 < LastStep(target) => 7 < LastStep(target)
      BY DEF LastStep
    <2>2. DOMAIN m = VectorRegisters /\ m = [reg \in VectorRegisters |-> m[reg]]
      BY Zenon, <1>4 DEF Writes
    <2>. QED BY <1>6, <2>1, <2>2 DEF Stage, Operands
  <1>8. Temporaries(m, a, b, 8)
    BY <1>5, <1>6 DEF Stage, Temporaries
  <1>9. target = "ymm2" => SignedTemporaries(m, a, b, 8)
    BY <1>5, <1>6 DEF Stage, SignedTemporaries
  <1>10. Result(m, a, b, target, 8)
    BY <1>5 DEF Result, LastStep
  <1>. QED BY Zenon, <1>7, <1>8, <1>9, <1>10 DEF Stage

LEMMA Stage9 ==
  ASSUME NEW a \in 0 .. Word - 1, NEW b \in 0 .. Word - 1, NEW l, NEW m,
         NEW target \in {"dst", "ymm2"}, NEW from \in {"dst", "src"}, 9 <= LastStep(target),
         Stage(l, a, b, from, target, 8),
         Executes(l, m, "vpmuludq", "ymm1", from, "ymm1")
  PROVE  Stage(m, a, b, from, target, 9)
  <1>1. l[from] = b /\ l["ymm1"] = Low(a) * Half + Up(a) /\ DOMAIN l = VectorRegisters
    BY DEF Stage, Operands, Temporaries, SignedTemporaries, LastStep
  <1> DEFINE x == b   y == Low(a) * Half + Up(a)   z == Up(a) * Low(b)
  <1>2. Execute("vpmuludq", x, y) = z
    <2>1. Execute("vpmuludq", x, y) = Low(x) * Low(y)
      BY DEF Execute, Low
    <2>2. Low(Low(a) * Half + Up(a)) = Up(a) /\ Low(Low(b) * Half + Up(b)) = Up(b)
      BY SwappedLow
    <2>3. Low(b) * Up(a) = Up(a) * Low(b)
      BY ProductOfHalves
    <2>. QED BY Zenon, <2>1, <2>2, <2>3
  <1> HIDE DEF x, y, z
  <1>3. m = [l EXCEPT !["ymm1"] = z]
    BY Zenon, <1>1, <1>2 DEF Executes, x, y
  <1>4. Writes(l, m, "ymm1", z)
    BY <1>1, <1>3, Instruction DEF VectorRegisters
  <1>5. m["ymm1"] = Up(a) * Low(b) /\ \A reg \in VectorRegisters : reg # "ymm1" => m[reg] = l[reg]
    BY Zenon, <1>4 DEF Writes, z
  <1>6. /\ m["dst"] = l["dst"] /\ m["src"] = l["src"] /\ m["ymm0"] = l["ymm0"]
        /\ m["ymm2"] = l["ymm2"] /\ m["ymm3"] = l["ymm3"] /\ m["ymm4"] = l["ymm4"]
        /\ m["ymm5"] = l["ymm5"]
    BY <1>5 DEF VectorRegisters
  <1>7. Operands(m, a, b, from, target, 9)
    <2>1. 9 < LastStep(target) => 8 < LastStep(target)
      BY DEF LastStep
    <2>2. DOMAIN m = VectorRegisters /\ m = [reg \in VectorRegisters |-> m[reg]]
      BY Zenon, <1>4 DEF Writes
    <2>. QED BY <1>6, <2>1, <2>2 DEF Stage, Operands
  <1>8. Temporaries(m, a, b, 9)
    BY <1>5, <1>6 DEF Stage, Temporaries
  <1>9. target = "ymm2" => SignedTemporaries(m, a, b, 9)
    BY <1>5, <1>6 DEF Stage, SignedTemporaries
  <1>10. Result(m, a, b, target, 9)
    BY <1>5 DEF Result, LastStep
  <1>. QED BY Zenon, <1>7, <1>8, <1>9, <1>10 DEF Stage

LEMMA Stage10 ==
  ASSUME NEW a \in 0 .. Word - 1, NEW b \in 0 .. Word - 1, NEW l, NEW m,
         NEW target \in {"dst", "ymm2"}, NEW from \in {"dst", "src"}, 10 <= LastStep(target),
         Stage(l, a, b, from, target, 9),
         Executes(l, m, "vpsrlq", "ymm3", "ymm3", "ymm3")
  PROVE  Stage(m, a, b, from, target, 10)
  <1>1. l["ymm3"] = LowerSum(a, b) /\ l["ymm3"] = LowerSum(a, b) /\ DOMAIN l = VectorRegisters
    BY DEF Stage, Operands, Temporaries, SignedTemporaries, LastStep
  <1> DEFINE x == LowerSum(a, b)   y == LowerSum(a, b)   z == LowerSum(a, b) \div Half
  <1>2. Execute("vpsrlq", x, y) = z
    BY DEF Execute, Low, Up
  <1> HIDE DEF x, y, z
  <1>3. m = [l EXCEPT !["ymm3"] = z]
    BY Zenon, <1>1, <1>2 DEF Executes, x, y
  <1>4. Writes(l, m, "ymm3", z)
    BY <1>1, <1>3, Instruction DEF VectorRegisters
  <1>5. m["ymm3"] = LowerSum(a, b) \div Half /\ \A reg \in VectorRegisters : reg # "ymm3" => m[reg] = l[reg]
    BY Zenon, <1>4 DEF Writes, z
  <1>6. /\ m["dst"] = l["dst"] /\ m["src"] = l["src"] /\ m["ymm0"] = l["ymm0"]
        /\ m["ymm1"] = l["ymm1"] /\ m["ymm2"] = l["ymm2"] /\ m["ymm4"] = l["ymm4"]
        /\ m["ymm5"] = l["ymm5"]
    BY <1>5 DEF VectorRegisters
  <1>7. Operands(m, a, b, from, target, 10)
    <2>1. 10 < LastStep(target) => 9 < LastStep(target)
      BY DEF LastStep
    <2>2. DOMAIN m = VectorRegisters /\ m = [reg \in VectorRegisters |-> m[reg]]
      BY Zenon, <1>4 DEF Writes
    <2>. QED BY <1>6, <2>1, <2>2 DEF Stage, Operands
  <1>8. Temporaries(m, a, b, 10)
    BY <1>5, <1>6 DEF Stage, Temporaries
  <1>9. target = "ymm2" => SignedTemporaries(m, a, b, 10)
    BY <1>5, <1>6 DEF Stage, SignedTemporaries
  <1>10. Result(m, a, b, target, 10)
    BY <1>5 DEF Result, LastStep
  <1>. QED BY Zenon, <1>7, <1>8, <1>9, <1>10 DEF Stage

LEMMA Stage11 ==
  ASSUME NEW a \in 0 .. Word - 1, NEW b \in 0 .. Word - 1, NEW l, NEW m,
         NEW target \in {"dst", "ymm2"}, NEW from \in {"dst", "src"}, 11 <= LastStep(target),
         Stage(l, a, b, from, target, 10),
         Executes(l, m, "vpaddq", "ymm0", "ymm0", "ymm3")
  PROVE  Stage(m, a, b, from, target, 11)
  <1>1. l["ymm0"] = Up(a) * Up(b) /\ l["ymm3"] = LowerSum(a, b) \div Half /\ DOMAIN l = VectorRegisters
    BY DEF Stage, Operands, Temporaries, SignedTemporaries, LastStep
  <1> DEFINE x == Up(a) * Up(b)   y == LowerSum(a, b) \div Half   z == Up(a) * Up(b) + LowerSum(a, b) \div Half
  <1>2. Execute("vpaddq", x, y) = z
    <2>1. x + y = z /\ z \in 0 .. Word - 1
      BY ProductOfHalves DEF LowerSum, UpperSum, HighOf
    <2>. QED BY <2>1, NoOverflow
  <1> HIDE DEF x, y, z
  <1>3. m = [l EXCEPT !["ymm0"] = z]
    BY Zenon, <1>1, <1>2 DEF Executes, x, y
  <1>4. Writes(l, m, "ymm0", z)
    BY <1>1, <1>3, Instruction DEF VectorRegisters
  <1>5. m["ymm0"] = Up(a) * Up(b) + LowerSum(a, b) \div Half /\ \A reg \in VectorRegisters : reg # "ymm0" => m[reg] = l[reg]
    BY Zenon, <1>4 DEF Writes, z
  <1>6. /\ m["dst"] = l["dst"] /\ m["src"] = l["src"] /\ m["ymm1"] = l["ymm1"]
        /\ m["ymm2"] = l["ymm2"] /\ m["ymm3"] = l["ymm3"] /\ m["ymm4"] = l["ymm4"]
        /\ m["ymm5"] = l["ymm5"]
    BY <1>5 DEF VectorRegisters
  <1>7. Operands(m, a, b, from, target, 11)
    <2>1. 11 < LastStep(target) => 10 < LastStep(target)
      BY DEF LastStep
    <2>2. DOMAIN m = VectorRegisters /\ m = [reg \in VectorRegisters |-> m[reg]]
      BY Zenon, <1>4 DEF Writes
    <2>. QED BY <1>6, <2>1, <2>2 DEF Stage, Operands
  <1>8. Temporaries(m, a, b, 11)
    BY <1>5, <1>6 DEF Stage, Temporaries
  <1>9. target = "ymm2" => SignedTemporaries(m, a, b, 11)
    BY <1>5, <1>6 DEF Stage, SignedTemporaries
  <1>10. Result(m, a, b, target, 11)
    BY <1>5 DEF Result, LastStep
  <1>. QED BY Zenon, <1>7, <1>8, <1>9, <1>10 DEF Stage

LEMMA Stage12 ==
  ASSUME NEW a \in 0 .. Word - 1, NEW b \in 0 .. Word - 1, NEW l, NEW m,
         NEW target \in {"dst", "ymm2"}, NEW from \in {"dst", "src"}, 12 <= LastStep(target),
         Stage(l, a, b, from, target, 11),
         Executes(l, m, "vpaddq", "ymm2", "ymm2", "ymm1")
  PROVE  Stage(m, a, b, from, target, 12)
  <1>1. l["ymm2"] = LowerSum(a, b) % Half /\ l["ymm1"] = Up(a) * Low(b) /\ DOMAIN l = VectorRegisters
    BY DEF Stage, Operands, Temporaries, SignedTemporaries, LastStep
  <1> DEFINE x == LowerSum(a, b) % Half   y == Up(a) * Low(b)   z == UpperSum(a, b)
  <1>2. Execute("vpaddq", x, y) = z
    <2>1. x + y = z /\ z \in 0 .. Word - 1
      BY ProductOfHalves DEF LowerSum, UpperSum, HighOf
    <2>. QED BY <2>1, NoOverflow
  <1> HIDE DEF x, y, z
  <1>3. m = [l EXCEPT !["ymm2"] = z]
    BY Zenon, <1>1, <1>2 DEF Executes, x, y
  <1>4. Writes(l, m, "ymm2", z)
    BY <1>1, <1>3, Instruction DEF VectorRegisters
  <1>5. m["ymm2"] = UpperSum(a, b) /\ \A reg \in VectorRegisters : reg # "ymm2" => m[reg] = l[reg]
    BY Zenon, <1>4 DEF Writes, z
  <1>6. /\ m["dst"] = l["dst"] /\ m["src"] = l["src"] /\ m["ymm0"] = l["ymm0"]
        /\ m["ymm1"] = l["ymm1"] /\ m["ymm3"] = l["ymm3"] /\ m["ymm4"] = l["ymm4"]
        /\ m["ymm5"] = l["ymm5"]
    BY <1>5 DEF VectorRegisters
  <1>7. Operands(m, a, b, from, target, 12)
    <2>1. 12 < LastStep(target) => 11 < LastStep(target)
      BY DEF LastStep
    <2>2. DOMAIN m = VectorRegisters /\ m = [reg \in VectorRegisters |-> m[reg]]
      BY Zenon, <1>4 DEF Writes
    <2>. QED BY <1>6, <2>1, <2>2 DEF Stage, Operands
  <1>8. Temporaries(m, a, b, 12)
    BY <1>5, <1>6 DEF Stage, Temporaries
  <1>9. target = "ymm2" => SignedTemporaries(m, a, b, 12)
    BY <1>5, <1>6 DEF Stage, SignedTemporaries
  <1>10. Result(m, a, b, target, 12)
    BY <1>5 DEF Result, LastStep
  <1>. QED BY Zenon, <1>7, <1>8, <1>9, <1>10 DEF Stage

LEMMA Stage13 ==
  ASSUME NEW a \in 0 .. Word - 1, NEW b \in 0 .. Word - 1, NEW l, NEW m,
         NEW target \in {"dst", "ymm2"}, NEW from \in {"dst", "src"}, 13 <= LastStep(target),
         Stage(l, a, b, from, target, 12),
         Executes(l, m, "vpsrlq", "ymm2", "ymm2", "ymm2")
  PROVE  Stage(m, a, b, from, target, 13)
  <1>1. l["ymm2"] = UpperSum(a, b) /\ l["ymm2"] = UpperSum(a, b) /\ DOMAIN l = VectorRegisters
    BY DEF Stage, Operands, Temporaries, SignedTemporaries, LastStep
  <1> DEFINE x == UpperSum(a, b)   y == UpperSum(a, b)   z == UpperSum(a, b) \div Half
  <1>2. Execute("vpsrlq", x, y) = z
    BY DEF Execute, Low, Up
  <1> HIDE DEF x, y, z
  <1>3. m = [l EXCEPT !["ymm2"] = z]
    BY Zenon, <1>1, <1>2 DEF Executes, x, y
  <1>4. Writes(l, m, "ymm2", z)
    BY <1>1, <1>3, Instruction DEF VectorRegisters
  <1>5. m["ymm2"] = UpperSum(a, b) \div Half /\ \A reg \in VectorRegisters : reg # "ymm2" => m[reg] = l[reg]
    BY Zenon, <1>4 DEF Writes, z
  <1>6. /\ m["dst"] = l["dst"] /\ m["src"] = l["src"] /\ m["ymm0"] = l["ymm0"]
        /\ m["ymm1"] = l["ymm1"] /\ m["ymm3"] = l["ymm3"] /\ m["ymm4"] = l["ymm4"]
        /\ m["ymm5"] = l["ymm5"]
    BY <1>5 DEF VectorRegisters
  <1>7. Operands(m, a, b, from, target, 13)
    <2>1. 13 < LastStep(target) => 12 < LastStep(target)
      BY DEF LastStep
    <2>2. DOMAIN m = VectorRegisters /\ m = [reg \in VectorRegisters |-> m[reg]]
      BY Zenon, <1>4 DEF Writes
    <2>. QED BY <1>6, <2>1, <2>2 DEF Stage, Operands
  <1>8. Temporaries(m, a, b, 13)
    BY <1>5, <1>6 DEF Stage, Temporaries
  <1>9. target = "ymm2" => SignedTemporaries(m, a, b, 13)
    BY <1>5, <1>6 DEF Stage, SignedTemporaries
  <1>10. Result(m, a, b, target, 13)
    BY <1>5 DEF Result, LastStep
  <1>. QED BY Zenon, <1>7, <1>8, <1>9, <1>10 DEF Stage

LEMMA Stage14 ==
  ASSUME NEW a \in 0 .. Word - 1, NEW b \in 0 .. Word - 1, NEW l, NEW m,
         NEW target \in {"dst", "ymm2"}, NEW from \in {"dst", "src"}, 14 <= LastStep(target),
         Stage(l, a, b, from, target, 13),
         Executes(l, m, "vpaddq", target, "ymm0", "ymm2")
  PROVE  Stage(m, a, b, from, target, 14)
  <1>1. l["ymm0"] = Up(a) * Up(b) + LowerSum(a, b) \div Half /\ l["ymm2"] = UpperSum(a, b) \div Half /\ DOMAIN l = VectorRegisters
    BY DEF Stage, Operands, Temporaries, SignedTemporaries, LastStep
  <1> DEFINE x == Up(a) * Up(b) + LowerSum(a, b) \div Half   y == UpperSum(a, b) \div Half   z == HighOf(a, b)
  <1>2. Execute("vpaddq", x, y) = z
    <2>1. x + y = z /\ z \in 0 .. Word - 1
      BY ProductOfHalves DEF LowerSum, UpperSum, HighOf
    <2>. QED BY <2>1, NoOverflow
  <1> HIDE DEF x, y, z
  <1>3. m = [l EXCEPT ![target] = z]
    BY Zenon, <1>1, <1>2 DEF Executes, x, y
  <1>4. Writes(l, m, target, z)
    BY <1>1, <1>3, Instruction DEF VectorRegisters
  <1>5. m[target] = HighOf(a, b) /\ \A reg \in VectorRegisters : reg # target => m[reg] = l[reg]
    BY Zenon, <1>4 DEF Writes, z
  <1>6. /\ (target # "dst" => m["dst"] = l["dst"]) /\ m["src"] = l["src"] /\ m["ymm0"] = l["ymm0"]
        /\ m["ymm1"] = l["ymm1"] /\ (target # "ymm2" => m["ymm2"] = l["ymm2"]) /\ m["ymm3"] = l["ymm3"]
        /\ m["ymm4"] = l["ymm4"] /\ m["ymm5"] = l["ymm5"]
    BY <1>5 DEF VectorRegisters
  <1>7. Operands(m, a, b, from, target, 14)
    <2>1. 14 < LastStep(target) => 13 < LastStep(target)
      BY DEF LastStep
    <2>2. DOMAIN m = VectorRegisters /\ m = [reg \in VectorRegisters |-> m[reg]]
      BY Zenon, <1>4 DEF Writes
    <2>. QED BY <1>6, <2>1, <2>2 DEF Stage, Operands, LastStep
  <1>8. Temporaries(m, a, b, 14)
    BY <1>5, <1>6 DEF Stage, Temporaries
  <1>9. target = "ymm2" => SignedTemporaries(m, a, b, 14)
    BY <1>5, <1>6 DEF Stage, SignedTemporaries
  <1>10. Result(m, a, b, target, 14)
    BY <1>5 DEF Result, LastStep
  <1>. QED BY Zenon, <1>7, <1>8, <1>9, <1>10 DEF Stage

LEMMA Stage15 ==
  ASSUME NEW a \in 0 .. Word - 1, NEW b \in 0 .. Word - 1, NEW l, NEW m,
         NEW target \in {"dst", "ymm2"}, NEW from \in {"dst", "src"}, 15 <= LastStep(target),
         Stage(l, a, b, from, target, 14),
         Executes(l, m, "vpcmpgtq", "ymm0", "ymm5", "dst")
  PROVE  Stage(m, a, b, from, target, 15)
  <1>0. target = "ymm2"
    BY DEF LastStep
  <1>1. l["ymm5"] = 0 /\ l["dst"] = a /\ DOMAIN l = VectorRegisters
    BY <1>0 DEF Stage, Operands, Temporaries, SignedTemporaries, LastStep
  <1> DEFINE x == 0   y == a   z == Sign(a)
  <1>2. Execute("vpcmpgtq", x, y) = z
    BY Zenon, Comparison
  <1> HIDE DEF x, y, z
  <1>3. m = [l EXCEPT !["ymm0"] = z]
    BY Zenon, <1>1, <1>2 DEF Executes, x, y
  <1>4. Writes(l, m, "ymm0", z)
    BY <1>1, <1>3, Instruction DEF VectorRegisters
  <1>5. m["ymm0"] = Sign(a) /\ \A reg \in VectorRegisters : reg # "ymm0" => m[reg] = l[reg]
    BY Zenon, <1>4 DEF Writes, z
  <1>6. /\ m["dst"] = l["dst"] /\ m["src"] = l["src"] /\ m["ymm1"] = l["ymm1"]
        /\ m["ymm2"] = l["ymm2"] /\ m["ymm3"] = l["ymm3"] /\ m["ymm4"] = l["ymm4"]
        /\ m["ymm5"] = l["ymm5"]
    BY <1>5 DEF VectorRegisters
  <1>7. Operands(m, a, b, from, target, 15)
    <2>1. 15 < LastStep(target) => 14 < LastStep(target)
      BY DEF LastStep
    <2>2. DOMAIN m = VectorRegisters /\ m = [reg \in VectorRegisters |-> m[reg]]
      BY Zenon, <1>4 DEF Writes
    <2>. QED BY <1>6, <2>1, <2>2 DEF Stage, Operands
  <1>8. Temporaries(m, a, b, 15)
    BY <1>5, <1>6, <1>0 DEF Stage, Temporaries
  <1>9. target = "ymm2" => SignedTemporaries(m, a, b, 15)
    BY <1>5, <1>6, <1>0 DEF Stage, SignedTemporaries
  <1>10. Result(m, a, b, target, 15)
    BY <1>5, <1>0 DEF Result, LastStep
  <1>. QED BY Zenon, <1>7, <1>8, <1>9, <1>10 DEF Stage

LEMMA Stage16 ==
  ASSUME NEW a \in 0 .. Word - 1, NEW b \in 0 .. Word - 1, NEW l, NEW m,
         NEW target \in {"dst", "ymm2"}, NEW from \in {"dst", "src"}, 16 <= LastStep(target),
         Stage(l, a, b, from, target, 15),
         Executes(l, m, "vpand", "ymm0", from, "ymm0")
  PROVE  Stage(m, a, b, from, target, 16)
  <1>0. target = "ymm2"
    BY DEF LastStep
  <1>1. l[from] = b /\ l["ymm0"] = Sign(a) /\ DOMAIN l = VectorRegisters
    BY <1>0 DEF Stage, Operands, Temporaries, SignedTemporaries, LastStep
  <1> DEFINE x == b   y == Sign(a)   z == Selected(a, b)
  <1>2. Execute("vpand", x, y) = z
    BY Zenon, Selection
  <1> HIDE DEF x, y, z
  <1>3. m = [l EXCEPT !["ymm0"] = z]
    BY Zenon, <1>1, <1>2 DEF Executes, x, y
  <1>4. Writes(l, m, "ymm0", z)
    BY <1>1, <1>3, Instruction DEF VectorRegisters
  <1>5. m["ymm0"] = Selected(a, b) /\ \A reg \in VectorRegisters : reg # "ymm0" => m[reg] = l[reg]
    BY Zenon, <1>4 DEF Writes, z
  <1>6. /\ m["dst"] = l["dst"] /\ m["src"] = l["src"] /\ m["ymm1"] = l["ymm1"]
        /\ m["ymm2"] = l["ymm2"] /\ m["ymm3"] = l["ymm3"] /\ m["ymm4"] = l["ymm4"]
        /\ m["ymm5"] = l["ymm5"]
    BY <1>5 DEF VectorRegisters
  <1>7. Operands(m, a, b, from, target, 16)
    <2>1. 16 < LastStep(target) => 15 < LastStep(target)
      BY DEF LastStep
    <2>2. DOMAIN m = VectorRegisters /\ m = [reg \in VectorRegisters |-> m[reg]]
      BY Zenon, <1>4 DEF Writes
    <2>. QED BY <1>6, <2>1, <2>2 DEF Stage, Operands
  <1>8. Temporaries(m, a, b, 16)
    BY <1>5, <1>6, <1>0 DEF Stage, Temporaries
  <1>9. target = "ymm2" => SignedTemporaries(m, a, b, 16)
    BY <1>5, <1>6, <1>0 DEF Stage, SignedTemporaries
  <1>10. Result(m, a, b, target, 16)
    BY <1>5, <1>0 DEF Result, LastStep
  <1>. QED BY Zenon, <1>7, <1>8, <1>9, <1>10 DEF Stage

LEMMA Stage17 ==
  ASSUME NEW a \in 0 .. Word - 1, NEW b \in 0 .. Word - 1, NEW l, NEW m,
         NEW target \in {"dst", "ymm2"}, NEW from \in {"dst", "src"}, 17 <= LastStep(target),
         Stage(l, a, b, from, target, 16),
         Executes(l, m, "vpsubq", "ymm2", "ymm2", "ymm0")
  PROVE  Stage(m, a, b, from, target, 17)
  <1>0. target = "ymm2"
    BY DEF LastStep
  <1>1. l["ymm2"] = HighOf(a, b) /\ l["ymm0"] = Selected(a, b) /\ DOMAIN l = VectorRegisters
    BY <1>0 DEF Stage, Operands, Temporaries, SignedTemporaries, LastStep
  <1> DEFINE x == HighOf(a, b)   y == Selected(a, b)   z == (HighOf(a, b) - Selected(a, b)) % Word
  <1>2. Execute("vpsubq", x, y) = z
    BY DEF Execute, Low, Up
  <1> HIDE DEF x, y, z
  <1>3. m = [l EXCEPT !["ymm2"] = z]
    BY Zenon, <1>1, <1>2 DEF Executes, x, y
  <1>4. Writes(l, m, "ymm2", z)
    BY <1>1, <1>3, Instruction DEF VectorRegisters
  <1>5. m["ymm2"] = (HighOf(a, b) - Selected(a, b)) % Word /\ \A reg \in VectorRegisters : reg # "ymm2" => m[reg] = l[reg]
    BY Zenon, <1>4 DEF Writes, z
  <1>6. /\ m["dst"] = l["dst"] /\ m["src"] = l["src"] /\ m["ymm0"] = l["ymm0"]
        /\ m["ymm1"] = l["ymm1"] /\ m["ymm3"] = l["ymm3"] /\ m["ymm4"] = l["ymm4"]
        /\ m["ymm5"] = l["ymm5"]
    BY <1>5 DEF VectorRegisters
  <1>7. Operands(m, a, b, from, target, 17)
    <2>1. 17 < LastStep(target) => 16 < LastStep(target)
      BY DEF LastStep
    <2>2. DOMAIN m = VectorRegisters /\ m = [reg \in VectorRegisters |-> m[reg]]
      BY Zenon, <1>4 DEF Writes
    <2>. QED BY <1>6, <2>1, <2>2 DEF Stage, Operands
  <1>8. Temporaries(m, a, b, 17)
    BY <1>5, <1>6, <1>0 DEF Stage, Temporaries
  <1>9. target = "ymm2" => SignedTemporaries(m, a, b, 17)
    BY <1>5, <1>6, <1>0 DEF Stage, SignedTemporaries
  <1>10. Result(m, a, b, target, 17)
    BY <1>5, <1>0 DEF Result, LastStep
  <1>. QED BY Zenon, <1>7, <1>8, <1>9, <1>10 DEF Stage

LEMMA Stage18 ==
  ASSUME NEW a \in 0 .. Word - 1, NEW b \in 0 .. Word - 1, NEW l, NEW m,
         NEW target \in {"dst", "ymm2"}, NEW from \in {"dst", "src"}, 18 <= LastStep(target),
         Stage(l, a, b, from, target, 17),
         Executes(l, m, "vpcmpgtq", "ymm1", "ymm5", from)
  PROVE  Stage(m, a, b, from, target, 18)
  <1>0. target = "ymm2"
    BY DEF LastStep
  <1>1. l["ymm5"] = 0 /\ l[from] = b /\ DOMAIN l = VectorRegisters
    BY <1>0 DEF Stage, Operands, Temporaries, SignedTemporaries, LastStep
  <1> DEFINE x == 0   y == b   z == Sign(b)
  <1>2. Execute("vpcmpgtq", x, y) = z
    BY Zenon, Comparison
  <1> HIDE DEF x, y, z
  <1>3. m = [l EXCEPT !["ymm1"] = z]
    BY Zenon, <1>1, <1>2 DEF Executes, x, y
  <1>4. Writes(l, m, "ymm1", z)
    BY <1>1, <1>3, Instruction DEF VectorRegisters
  <1>5. m["ymm1"] = Sign(b) /\ \A reg \in VectorRegisters : reg # "ymm1" => m[reg] = l[reg]
    BY Zenon, <1>4 DEF Writes, z
  <1>6. /\ m["dst"] = l["dst"] /\ m["src"] = l["src"] /\ m["ymm0"] = l["ymm0"]
        /\ m["ymm2"] = l["ymm2"] /\ m["ymm3"] = l["ymm3"] /\ m["ymm4"] = l["ymm4"]
        /\ m["ymm5"] = l["ymm5"]
    BY <1>5 DEF VectorRegisters
  <1>7. Operands(m, a, b, from, target, 18)
    <2>1. 18 < LastStep(target) => 17 < LastStep(target)
      BY DEF LastStep
    <2>2. DOMAIN m = VectorRegisters /\ m = [reg \in VectorRegisters |-> m[reg]]
      BY Zenon, <1>4 DEF Writes
    <2>. QED BY <1>6, <2>1, <2>2 DEF Stage, Operands
  <1>8. Temporaries(m, a, b, 18)
    BY <1>5, <1>6, <1>0 DEF Stage, Temporaries
  <1>9. target = "ymm2" => SignedTemporaries(m, a, b, 18)
    BY <1>5, <1>6, <1>0 DEF Stage, SignedTemporaries
  <1>10. Result(m, a, b, target, 18)
    BY <1>5, <1>0 DEF Result, LastStep
  <1>. QED BY Zenon, <1>7, <1>8, <1>9, <1>10 DEF Stage

LEMMA Stage19 ==
  ASSUME NEW a \in 0 .. Word - 1, NEW b \in 0 .. Word - 1, NEW l, NEW m,
         NEW target \in {"dst", "ymm2"}, NEW from \in {"dst", "src"}, 19 <= LastStep(target),
         Stage(l, a, b, from, target, 18),
         Executes(l, m, "vpand", "ymm1", "dst", "ymm1")
  PROVE  Stage(m, a, b, from, target, 19)
  <1>0. target = "ymm2"
    BY DEF LastStep
  <1>1. l["dst"] = a /\ l["ymm1"] = Sign(b) /\ DOMAIN l = VectorRegisters
    BY <1>0 DEF Stage, Operands, Temporaries, SignedTemporaries, LastStep
  <1> DEFINE x == a   y == Sign(b)   z == Selected(b, a)
  <1>2. Execute("vpand", x, y) = z
    BY Zenon, Selection
  <1> HIDE DEF x, y, z
  <1>3. m = [l EXCEPT !["ymm1"] = z]
    BY Zenon, <1>1, <1>2 DEF Executes, x, y
  <1>4. Writes(l, m, "ymm1", z)
    BY <1>1, <1>3, Instruction DEF VectorRegisters
  <1>5. m["ymm1"] = Selected(b, a) /\ \A reg \in VectorRegisters : reg # "ymm1" => m[reg] = l[reg]
    BY Zenon, <1>4 DEF Writes, z
  <1>6. /\ m["dst"] = l["dst"] /\ m["src"] = l["src"] /\ m["ymm0"] = l["ymm0"]
        /\ m["ymm2"] = l["ymm2"] /\ m["ymm3"] = l["ymm3"] /\ m["ymm4"] = l["ymm4"]
        /\ m["ymm5"] = l["ymm5"]
    BY <1>5 DEF VectorRegisters
  <1>7. Operands(m, a, b, from, target, 19)
    <2>1. 19 < LastStep(target) => 18 < LastStep(target)
      BY DEF LastStep
    <2>2. DOMAIN m = VectorRegisters /\ m = [reg \in VectorRegisters |-> m[reg]]
      BY Zenon, <1>4 DEF Writes
    <2>. QED BY <1>6, <2>1, <2>2 DEF Stage, Operands
  <1>8. Temporaries(m, a, b, 19)
    BY <1>5, <1>6, <1>0 DEF Stage, Temporaries
  <1>9. target = "ymm2" => SignedTemporaries(m, a, b, 19)
    BY <1>5, <1>6, <1>0 DEF Stage, SignedTemporaries
  <1>10. Result(m, a, b, target, 19)
    BY <1>5, <1>0 DEF Result, LastStep
  <1>. QED BY Zenon, <1>7, <1>8, <1>9, <1>10 DEF Stage

LEMMA Stage20 ==
  ASSUME NEW a \in 0 .. Word - 1, NEW b \in 0 .. Word - 1, NEW l, NEW m,
         NEW target \in {"dst", "ymm2"}, NEW from \in {"dst", "src"}, 20 <= LastStep(target),
         Stage(l, a, b, from, target, 19),
         Executes(l, m, "vpsubq", "dst", "ymm2", "ymm1")
  PROVE  Stage(m, a, b, from, target, 20)
  <1>0. target = "ymm2"
    BY DEF LastStep
  <1>1. l["ymm2"] = (HighOf(a, b) - Selected(a, b)) % Word /\ l["ymm1"] = Selected(b, a) /\ DOMAIN l = VectorRegisters
    BY <1>0 DEF Stage, Operands, Temporaries, SignedTemporaries, LastStep
  <1> DEFINE x == (HighOf(a, b) - Selected(a, b)) % Word   y == Selected(b, a)   z == (((HighOf(a, b) - Selected(a, b)) % Word) - Selected(b, a)) % Word
  <1>2. Execute("vpsubq", x, y) = z
    BY DEF Execute, Low, Up
  <1> HIDE DEF x, y, z
  <1>3. m = [l EXCEPT !["dst"] = z]
    BY Zenon, <1>1, <1>2 DEF Executes, x, y
  <1>4. Writes(l, m, "dst", z)
    BY <1>1, <1>3, Instruction DEF VectorRegisters
  <1>5. m["dst"] = (((HighOf(a, b) - Selected(a, b)) % Word) - Selected(b, a)) % Word /\ \A reg \in VectorRegisters : reg # "dst" => m[reg] = l[reg]
    BY Zenon, <1>4 DEF Writes, z
  <1>6. /\ m["src"] = l["src"] /\ m["ymm0"] = l["ymm0"] /\ m["ymm1"] = l["ymm1"]
        /\ m["ymm2"] = l["ymm2"] /\ m["ymm3"] = l["ymm3"] /\ m["ymm4"] = l["ymm4"]
        /\ m["ymm5"] = l["ymm5"]
    BY <1>5 DEF VectorRegisters
  <1>7. Operands(m, a, b, from, target, 20)
    <2>1. 20 < LastStep(target) => 19 < LastStep(target)
      BY DEF LastStep
    <2>2. DOMAIN m = VectorRegisters /\ m = [reg \in VectorRegisters |-> m[reg]]
      BY Zenon, <1>4 DEF Writes
    <2>. QED BY <1>6, <2>1, <2>2 DEF Stage, Operands, LastStep
  <1>8. Temporaries(m, a, b, 20)
    BY <1>5, <1>6, <1>0 DEF Stage, Temporaries
  <1>9. target = "ymm2" => SignedTemporaries(m, a, b, 20)
    BY <1>5, <1>6, <1>0 DEF Stage, SignedTemporaries
  <1>10. Result(m, a, b, target, 20)
    BY <1>5, <1>0 DEF Result, LastStep
  <1>. QED BY Zenon, <1>7, <1>8, <1>9, <1>10 DEF Stage


LEMMA StageStep ==
  ASSUME NEW a \in 0 .. Word - 1, NEW b \in 0 .. Word - 1, NEW l, NEW m,
         NEW target \in {"dst", "ymm2"}, NEW from \in {"dst", "src"}, NEW k \in Nat, k < LastStep(target),
         NEW op, op = Code(target, from)[k + 1], Stage(l, a, b, from, target, k),
         m = [l EXCEPT ![op[2]] = Execute(op[1], l[op[3]], l[op[4]])]
  PROVE  Stage(m, a, b, from, target, k + 1)
  <1> DEFINE code == Code(target, from)
  <1>a. /\ code[1] = <<"vpshufd", "ymm1", "dst", "dst">>
        /\ code[2] = <<"vpshufd", "ymm2", from, from>>
        /\ code[3] = <<"vpmuludq", "ymm3", "dst", from>>
        /\ code[4] = <<"vpmuludq", "ymm0", "ymm1", "ymm2">>
        /\ code[5] = <<"vpmuludq", "ymm2", "dst", "ymm2">>
        /\ code[6] = <<"vpsrlq", "ymm3", "ymm3", "ymm3">>
        /\ code[7] = <<"vpaddq", "ymm3", "ymm3", "ymm2">>
    <2> HIDE DEF code
    <2>1. code = Code(target, from)
      BY DEF code
    <2>. QED BY ZenonT(30), <2>1, CodeOf
  <1>b. /\ code[8] = <<"vpand", "ymm2", "ymm3", "ymm4">>
        /\ code[9] = <<"vpmuludq", "ymm1", from, "ymm1">>
        /\ code[10] = <<"vpsrlq", "ymm3", "ymm3", "ymm3">>
        /\ code[11] = <<"vpaddq", "ymm0", "ymm0", "ymm3">>
        /\ code[12] = <<"vpaddq", "ymm2", "ymm2", "ymm1">>
        /\ code[13] = <<"vpsrlq", "ymm2", "ymm2", "ymm2">>
        /\ code[14] = <<"vpaddq", target, "ymm0", "ymm2">>
    <2> HIDE DEF code
    <2>1. code = Code(target, from)
      BY DEF code
    <2>. QED BY ZenonT(30), <2>1, CodeOf
  <1>c. target = "ymm2" =>
          /\ code[15] = <<"vpcmpgtq", "ymm0", "ymm5", "dst">>
          /\ code[16] = <<"vpand", "ymm0", from, "ymm0">>
          /\ code[17] = <<"vpsubq", "ymm2", "ymm2", "ymm0">>
          /\ code[18] = <<"vpcmpgtq", "ymm1", "ymm5", from>>
          /\ code[19] = <<"vpand", "ymm1", "dst", "ymm1">>
          /\ code[20] = <<"vpsubq", "dst", "ymm2", "ymm1">>
    <2> HIDE DEF code
    <2>1. code = Code(target, from)
      BY DEF code
    <2>. QED BY ZenonT(30), <2>1, CodeOf
  <1>d. op = code[k + 1]
    OBVIOUS
  <1> HIDE DEF code
  <1>1. CASE k = 0
    <2>0. k + 1 = 1 /\ 1 <= LastStep(target)
      BY <1>1 DEF LastStep
    <2>2. op = <<"vpshufd", "ymm1", "dst", "dst">>
      BY Zenon, <1>a, <1>d, <2>0
    <2>3. op[1] = "vpshufd" /\ op[2] = "ymm1" /\ op[3] = "dst" /\ op[4] = "dst"
      BY <2>2
    <2>4. Executes(l, m, "vpshufd", "ymm1", "dst", "dst")
      BY Zenon, <2>3 DEF Executes
    <2>5. Stage(l, a, b, from, target, 0)
      BY Zenon, <1>1
    <2>6. Stage(m, a, b, from, target, 1)
      BY Zenon, <2>0, <2>4, <2>5, Stage1
    <2>. QED BY Zenon, <2>0, <2>6
  <1>2. CASE k = 1
    <2>0. k + 1 = 2 /\ 2 <= LastStep(target)
      BY <1>2 DEF LastStep
    <2>2. op = <<"vpshufd", "ymm2", from, from>>
      BY Zenon, <1>a, <1>d, <2>0
    <2>3. op[1] = "vpshufd" /\ op[2] = "ymm2" /\ op[3] = from /\ op[4] = from
      BY <2>2
    <2>4. Executes(l, m, "vpshufd", "ymm2", from, from)
      BY Zenon, <2>3 DEF Executes
    <2>5. Stage(l, a, b, from, target, 1)
      BY Zenon, <1>2
    <2>6. Stage(m, a, b, from, target, 2)
      BY Zenon, <2>0, <2>4, <2>5, Stage2
    <2>. QED BY Zenon, <2>0, <2>6
  <1>3. CASE k = 2
    <2>0. k + 1 = 3 /\ 3 <= LastStep(target)
      BY <1>3 DEF LastStep
    <2>2. op = <<"vpmuludq", "ymm3", "dst", from>>
      BY Zenon, <1>a, <1>d, <2>0
    <2>3. op[1] = "vpmuludq" /\ op[2] = "ymm3" /\ op[3] = "dst" /\ op[4] = from
      BY <2>2
    <2>4. Executes(l, m, "vpmuludq", "ymm3", "dst", from)
      BY Zenon, <2>3 DEF Executes
    <2>5. Stage(l, a, b, from, target, 2)
      BY Zenon, <1>3
    <2>6. Stage(m, a, b, from, target, 3)
      BY Zenon, <2>0, <2>4, <2>5, Stage3
    <2>. QED BY Zenon, <2>0, <2>6
  <1>4. CASE k = 3
    <2>0. k + 1 = 4 /\ 4 <= LastStep(target)
      BY <1>4 DEF LastStep
    <2>2. op = <<"vpmuludq", "ymm0", "ymm1", "ymm2">>
      BY Zenon, <1>a, <1>d, <2>0
    <2>3. op[1] = "vpmuludq" /\ op[2] = "ymm0" /\ op[3] = "ymm1" /\ op[4] = "ymm2"
      BY <2>2
    <2>4. Executes(l, m, "vpmuludq", "ymm0", "ymm1", "ymm2")
      BY Zenon, <2>3 DEF Executes
    <2>5. Stage(l, a, b, from, target, 3)
      BY Zenon, <1>4
    <2>6. Stage(m, a, b, from, target, 4)
      BY Zenon, <2>0, <2>4, <2>5, Stage4
    <2>. QED BY Zenon, <2>0, <2>6
  <1>5. CASE k = 4
    <2>0. k + 1 = 5 /\ 5 <= LastStep(target)
      BY <1>5 DEF LastStep
    <2>2. op = <<"vpmuludq", "ymm2", "dst", "ymm2">>
      BY Zenon, <1>a, <1>d, <2>0
    <2>3. op[1] = "vpmuludq" /\ op[2] = "ymm2" /\ op[3] = "dst" /\ op[4] = "ymm2"
      BY <2>2
    <2>4. Executes(l, m, "vpmuludq", "ymm2", "dst", "ymm2")
      BY Zenon, <2>3 DEF Executes
    <2>5. Stage(l, a, b, from, target, 4)
      BY Zenon, <1>5
    <2>6. Stage(m, a, b, from, target, 5)
      BY Zenon, <2>0, <2>4, <2>5, Stage5
    <2>. QED BY Zenon, <2>0, <2>6
  <1>6. CASE k = 5
    <2>0. k + 1 = 6 /\ 6 <= LastStep(target)
      BY <1>6 DEF LastStep
    <2>2. op = <<"vpsrlq", "ymm3", "ymm3", "ymm3">>
      BY Zenon, <1>a, <1>d, <2>0
    <2>3. op[1] = "vpsrlq" /\ op[2] = "ymm3" /\ op[3] = "ymm3" /\ op[4] = "ymm3"
      BY <2>2
    <2>4. Executes(l, m, "vpsrlq", "ymm3", "ymm3", "ymm3")
      BY Zenon, <2>3 DEF Executes
    <2>5. Stage(l, a, b, from, target, 5)
      BY Zenon, <1>6
    <2>6. Stage(m, a, b, from, target, 6)
      BY Zenon, <2>0, <2>4, <2>5, Stage6
    <2>. QED BY Zenon, <2>0, <2>6
  <1>7. CASE k = 6
    <2>0. k + 1 = 7 /\ 7 <= LastStep(target)
      BY <1>7 DEF LastStep
    <2>2. op = <<"vpaddq", "ymm3", "ymm3", "ymm2">>
      BY Zenon, <1>a, <1>d, <2>0
    <2>3. op[1] = "vpaddq" /\ op[2] = "ymm3" /\ op[3] = "ymm3" /\ op[4] = "ymm2"
      BY <2>2
    <2>4. Executes(l, m, "vpaddq", "ymm3", "ymm3", "ymm2")
      BY Zenon, <2>3 DEF Executes
    <2>5. Stage(l, a, b, from, target, 6)
      BY Zenon, <1>7
    <2>6. Stage(m, a, b, from, target, 7)
      BY Zenon, <2>0, <2>4, <2>5, Stage7
    <2>. QED BY Zenon, <2>0, <2>6
  <1>8. CASE k = 7
    <2>0. k + 1 = 8 /\ 8 <= LastStep(target)
      BY <1>8 DEF LastStep
    <2>2. op = <<"vpand", "ymm2", "ymm3", "ymm4">>
      BY Zenon, <1>b, <1>d, <2>0
    <2>3. op[1] = "vpand" /\ op[2] = "ymm2" /\ op[3] = "ymm3" /\ op[4] = "ymm4"
      BY <2>2
    <2>4. Executes(l, m, "vpand", "ymm2", "ymm3", "ymm4")
      BY Zenon, <2>3 DEF Executes
    <2>5. Stage(l, a, b, from, target, 7)
      BY Zenon, <1>8
    <2>6. Stage(m, a, b, from, target, 8)
      BY Zenon, <2>0, <2>4, <2>5, Stage8
    <2>. QED BY Zenon, <2>0, <2>6
  <1>9. CASE k = 8
    <2>0. k + 1 = 9 /\ 9 <= LastStep(target)
      BY <1>9 DEF LastStep
    <2>2. op = <<"vpmuludq", "ymm1", from, "ymm1">>
      BY Zenon, <1>b, <1>d, <2>0
    <2>3. op[1] = "vpmuludq" /\ op[2] = "ymm1" /\ op[3] = from /\ op[4] = "ymm1"
      BY <2>2
    <2>4. Executes(l, m, "vpmuludq", "ymm1", from, "ymm1")
      BY Zenon, <2>3 DEF Executes
    <2>5. Stage(l, a, b, from, target, 8)
      BY Zenon, <1>9
    <2>6. Stage(m, a, b, from, target, 9)
      BY Zenon, <2>0, <2>4, <2>5, Stage9
    <2>. QED BY Zenon, <2>0, <2>6
  <1>10. CASE k = 9
    <2>0. k + 1 = 10 /\ 10 <= LastStep(target)
      BY <1>10 DEF LastStep
    <2>2. op = <<"vpsrlq", "ymm3", "ymm3", "ymm3">>
      BY Zenon, <1>b, <1>d, <2>0
    <2>3. op[1] = "vpsrlq" /\ op[2] = "ymm3" /\ op[3] = "ymm3" /\ op[4] = "ymm3"
      BY <2>2
    <2>4. Executes(l, m, "vpsrlq", "ymm3", "ymm3", "ymm3")
      BY Zenon, <2>3 DEF Executes
    <2>5. Stage(l, a, b, from, target, 9)
      BY Zenon, <1>10
    <2>6. Stage(m, a, b, from, target, 10)
      BY Zenon, <2>0, <2>4, <2>5, Stage10
    <2>. QED BY Zenon, <2>0, <2>6
  <1>11. CASE k = 10
    <2>0. k + 1 = 11 /\ 11 <= LastStep(target)
      BY <1>11 DEF LastStep
    <2>2. op = <<"vpaddq", "ymm0", "ymm0", "ymm3">>
      BY Zenon, <1>b, <1>d, <2>0
    <2>3. op[1] = "vpaddq" /\ op[2] = "ymm0" /\ op[3] = "ymm0" /\ op[4] = "ymm3"
      BY <2>2
    <2>4. Executes(l, m, "vpaddq", "ymm0", "ymm0", "ymm3")
      BY Zenon, <2>3 DEF Executes
    <2>5. Stage(l, a, b, from, target, 10)
      BY Zenon, <1>11
    <2>6. Stage(m, a, b, from, target, 11)
      BY Zenon, <2>0, <2>4, <2>5, Stage11
    <2>. QED BY Zenon, <2>0, <2>6
  <1>12. CASE k = 11
    <2>0. k + 1 = 12 /\ 12 <= LastStep(target)
      BY <1>12 DEF LastStep
    <2>2. op = <<"vpaddq", "ymm2", "ymm2", "ymm1">>
      BY Zenon, <1>b, <1>d, <2>0
    <2>3. op[1] = "vpaddq" /\ op[2] = "ymm2" /\ op[3] = "ymm2" /\ op[4] = "ymm1"
      BY <2>2
    <2>4. Executes(l, m, "vpaddq", "ymm2", "ymm2", "ymm1")
      BY Zenon, <2>3 DEF Executes
    <2>5. Stage(l, a, b, from, target, 11)
      BY Zenon, <1>12
    <2>6. Stage(m, a, b, from, target, 12)
      BY Zenon, <2>0, <2>4, <2>5, Stage12
    <2>. QED BY Zenon, <2>0, <2>6
  <1>13. CASE k = 12
    <2>0. k + 1 = 13 /\ 13 <= LastStep(target)
      BY <1>13 DEF LastStep
    <2>2. op = <<"vpsrlq", "ymm2", "ymm2", "ymm2">>
      BY Zenon, <1>b, <1>d, <2>0
    <2>3. op[1] = "vpsrlq" /\ op[2] = "ymm2" /\ op[3] = "ymm2" /\ op[4] = "ymm2"
      BY <2>2
    <2>4. Executes(l, m, "vpsrlq", "ymm2", "ymm2", "ymm2")
      BY Zenon, <2>3 DEF Executes
    <2>5. Stage(l, a, b, from, target, 12)
      BY Zenon, <1>13
    <2>6. Stage(m, a, b, from, target, 13)
      BY Zenon, <2>0, <2>4, <2>5, Stage13
    <2>. QED BY Zenon, <2>0, <2>6
  <1>14. CASE k = 13
    <2>0. k + 1 = 14 /\ 14 <= LastStep(target)
      BY <1>14 DEF LastStep
    <2>2. op = <<"vpaddq", target, "ymm0", "ymm2">>
      BY Zenon, <1>b, <1>d, <2>0
    <2>3. op[1] = "vpaddq" /\ op[2] = target /\ op[3] = "ymm0" /\ op[4] = "ymm2"
      BY <2>2
    <2>4. Executes(l, m, "vpaddq", target, "ymm0", "ymm2")
      BY Zenon, <2>3 DEF Executes
    <2>5. Stage(l, a, b, from, target, 13)
      BY Zenon, <1>14
    <2>6. Stage(m, a, b, from, target, 14)
      BY Zenon, <2>0, <2>4, <2>5, Stage14
    <2>. QED BY Zenon, <2>0, <2>6
  <1>15. CASE k = 14
    <2>0. k + 1 = 15 /\ 15 <= LastStep(target)
      BY <1>15 DEF LastStep
    <2>1. target = "ymm2"
      BY <2>0 DEF LastStep
    <2>2. op = <<"vpcmpgtq", "ymm0", "ymm5", "dst">>
      BY Zenon, <1>c, <1>d, <2>0, <2>1
    <2>3. op[1] = "vpcmpgtq" /\ op[2] = "ymm0" /\ op[3] = "ymm5" /\ op[4] = "dst"
      BY <2>2
    <2>4. Executes(l, m, "vpcmpgtq", "ymm0", "ymm5", "dst")
      BY Zenon, <2>3 DEF Executes
    <2>5. Stage(l, a, b, from, target, 14)
      BY Zenon, <1>15
    <2>6. Stage(m, a, b, from, target, 15)
      BY Zenon, <2>0, <2>4, <2>5, Stage15
    <2>. QED BY Zenon, <2>0, <2>6
  <1>16. CASE k = 15
    <2>0. k + 1 = 16 /\ 16 <= LastStep(target)
      BY <1>16 DEF LastStep
    <2>1. target = "ymm2"
      BY <2>0 DEF LastStep
    <2>2. op = <<"vpand", "ymm0", from, "ymm0">>
      BY Zenon, <1>c, <1>d, <2>0, <2>1
    <2>3. op[1] = "vpand" /\ op[2] = "ymm0" /\ op[3] = from /\ op[4] = "ymm0"
      BY <2>2
    <2>4. Executes(l, m, "vpand", "ymm0", from, "ymm0")
      BY Zenon, <2>3 DEF Executes
    <2>5. Stage(l, a, b, from, target, 15)
      BY Zenon, <1>16
    <2>6. Stage(m, a, b, from, target, 16)
      BY Zenon, <2>0, <2>4, <2>5, Stage16
    <2>. QED BY Zenon, <2>0, <2>6
  <1>17. CASE k = 16
    <2>0. k + 1 = 17 /\ 17 <= LastStep(target)
      BY <1>17 DEF LastStep
    <2>1. target = "ymm2"
      BY <2>0 DEF LastStep
    <2>2. op = <<"vpsubq", "ymm2", "ymm2", "ymm0">>
      BY Zenon, <1>c, <1>d, <2>0, <2>1
    <2>3. op[1] = "vpsubq" /\ op[2] = "ymm2" /\ op[3] = "ymm2" /\ op[4] = "ymm0"
      BY <2>2
    <2>4. Executes(l, m, "vpsubq", "ymm2", "ymm2", "ymm0")
      BY Zenon, <2>3 DEF Executes
    <2>5. Stage(l, a, b, from, target, 16)
      BY Zenon, <1>17
    <2>6. Stage(m, a, b, from, target, 17)
      BY Zenon, <2>0, <2>4, <2>5, Stage17
    <2>. QED BY Zenon, <2>0, <2>6
  <1>18. CASE k = 17
    <2>0. k + 1 = 18 /\ 18 <= LastStep(target)
      BY <1>18 DEF LastStep
    <2>1. target = "ymm2"
      BY <2>0 DEF LastStep
    <2>2. op = <<"vpcmpgtq", "ymm1", "ymm5", from>>
      BY Zenon, <1>c, <1>d, <2>0, <2>1
    <2>3. op[1] = "vpcmpgtq" /\ op[2] = "ymm1" /\ op[3] = "ymm5" /\ op[4] = from
      BY <2>2
    <2>4. Executes(l, m, "vpcmpgtq", "ymm1", "ymm5", from)
      BY Zenon, <2>3 DEF Executes
    <2>5. Stage(l, a, b, from, target, 17)
      BY Zenon, <1>18
    <2>6. Stage(m, a, b, from, target, 18)
      BY Zenon, <2>0, <2>4, <2>5, Stage18
    <2>. QED BY Zenon, <2>0, <2>6
  <1>19. CASE k = 18
    <2>0. k + 1 = 19 /\ 19 <= LastStep(target)
      BY <1>19 DEF LastStep
    <2>1. target = "ymm2"
      BY <2>0 DEF LastStep
    <2>2. op = <<"vpand", "ymm1", "dst", "ymm1">>
      BY Zenon, <1>c, <1>d, <2>0, <2>1
    <2>3. op[1] = "vpand" /\ op[2] = "ymm1" /\ op[3] = "dst" /\ op[4] = "ymm1"
      BY <2>2
    <2>4. Executes(l, m, "vpand", "ymm1", "dst", "ymm1")
      BY Zenon, <2>3 DEF Executes
    <2>5. Stage(l, a, b, from, target, 18)
      BY Zenon, <1>19
    <2>6. Stage(m, a, b, from, target, 19)
      BY Zenon, <2>0, <2>4, <2>5, Stage19
    <2>. QED BY Zenon, <2>0, <2>6
  <1>20. CASE k = 19
    <2>0. k + 1 = 20 /\ 20 <= LastStep(target)
      BY <1>20 DEF LastStep
    <2>1. target = "ymm2"
      BY <2>0 DEF LastStep
    <2>2. op = <<"vpsubq", "dst", "ymm2", "ymm1">>
      BY Zenon, <1>c, <1>d, <2>0, <2>1
    <2>3. op[1] = "vpsubq" /\ op[2] = "dst" /\ op[3] = "ymm2" /\ op[4] = "ymm1"
      BY <2>2
    <2>4. Executes(l, m, "vpsubq", "dst", "ymm2", "ymm1")
      BY Zenon, <2>3 DEF Executes
    <2>5. Stage(l, a, b, from, target, 19)
      BY Zenon, <1>20
    <2>6. Stage(m, a, b, from, target, 20)
      BY Zenon, <2>0, <2>4, <2>5, Stage20
    <2>. QED BY Zenon, <2>0, <2>6
  <1>. QED
    <2>1. k \in 0 .. 19
      BY DEF LastStep
    <2>. QED BY <2>1, <1>1, <1>2, <1>3, <1>4, <1>5, <1>6, <1>7, <1>8, <1>9, <1>10, <1>11, <1>12, <1>13, <1>14, <1>15, <1>16, <1>17, <1>18, <1>19, <1>20

(* k instructions are done; the rest of the code is still to come.         *)
Target == IF factors.signed THEN "ymm2" ELSE "dst"
Remaining(k) ==
    /\ instructions \in Seq(Operations) /\ Len(instructions) = LastStep(Target) - k
    /\ \A i \in 1 .. LastStep(Target) - k : instructions[i] = Code(Target, factors.from)[k + i]
ArithmeticInv ==
    /\ factors.signed \in BOOLEAN /\ factors.from \in {"dst", "src"}
    /\ factors.dst \in 0 .. Word - 1 /\ factors.src \in 0 .. Word - 1
    /\ \E k \in 0 .. LastStep(Target) :
         Remaining(k) /\ Stage(lane, factors.dst, factors.src, factors.from, Target, k)

LEMMA ArithmeticInitInv == ArithmeticInit => ArithmeticInv
  <1>. SUFFICES ASSUME ArithmeticInit PROVE ArithmeticInv
    OBVIOUS
  <1>1. PICK signed \in BOOLEAN, same \in BOOLEAN, a \in 0 .. Word - 1, b \in 0 .. Word - 1 :
          LET from == IF same THEN "dst" ELSE "src"
          IN  /\ same => a = b
              /\ factors = [signed |-> signed, dst |-> a, src |-> b, from |-> from]
              /\ instructions = IF signed THEN Vpmulhq("dst", from) ELSE Vpmulhuq("dst", "dst", from)
              /\ lane = [dst |-> a, src |-> b, ymm0 |-> 0, ymm1 |-> 0, ymm2 |-> 0, ymm3 |-> 0,
                         ymm4 |-> LowerHalf, ymm5 |-> 0]
    BY Zenon DEF ArithmeticInit
  <1>2. /\ factors.signed = signed /\ factors.dst = a /\ factors.src = b
        /\ factors.from \in {"dst", "src"} /\ (factors.from = "dst" => a = b)
        /\ instructions = Code(Target, factors.from) /\ Target \in {"dst", "ymm2"}
    BY <1>1 DEF Code, Target
  <1>3. instructions \in Seq(Operations) /\ Len(instructions) = LastStep(Target)
    BY Zenon, <1>2, CodeOf
  <1>4. Remaining(0)
    BY <1>2, <1>3 DEF Remaining, LastStep
  <1>5. /\ DOMAIN lane = VectorRegisters /\ lane = [x \in VectorRegisters |-> lane[x]]
        /\ lane["ymm4"] = LowerHalf /\ lane["ymm5"] = 0 /\ lane["dst"] = a /\ lane["src"] = b
    BY <1>1 DEF VectorRegisters
  <1>6. Stage(lane, factors.dst, factors.src, factors.from, Target, 0)
    BY <1>2, <1>5 DEF Stage, Operands, Temporaries, SignedTemporaries, Result, LastStep
  <1>7. 0 \in 0 .. LastStep(Target)
    BY DEF LastStep
  <1>. QED BY Zenon, <1>1, <1>2, <1>4, <1>6, <1>7 DEF ArithmeticInv

LEMMA ArithmeticStepInv == ArithmeticInv /\ [ArithmeticNext]_arithmeticVars => ArithmeticInv'
  <1>. SUFFICES ASSUME ArithmeticInv, [ArithmeticNext]_arithmeticVars PROVE ArithmeticInv'
    OBVIOUS
  <1>1. CASE Compute
    <2> DEFINE op == Head(instructions)   a == factors.dst   b == factors.src   from == factors.from
               target == Target
    <2>1. /\ instructions # <<>> /\ instructions' = Tail(instructions) /\ factors' = factors
          /\ lane' = [lane EXCEPT ![op[2]] = Execute(op[1], lane[op[3]], lane[op[4]])]
      BY Zenon, <1>1 DEF Compute
    <2>2. /\ factors.signed \in BOOLEAN /\ from \in {"dst", "src"}
          /\ a \in 0 .. Word - 1 /\ b \in 0 .. Word - 1 /\ target \in {"dst", "ymm2"}
      BY DEF ArithmeticInv, Target
    <2>3. PICK k \in 0 .. LastStep(target) : Remaining(k) /\ Stage(lane, a, b, from, target, k)
      BY Zenon DEF ArithmeticInv
    <2>4. LastStep(target) \in Nat
      BY DEF LastStep
    <2>5. /\ instructions \in Seq(Operations) /\ Len(instructions) = LastStep(target) - k
          /\ \A i \in 1 .. LastStep(target) - k : instructions[i] = Code(target, from)[k + i]
      BY Zenon, <2>3 DEF Remaining
    <2>6. Len(instructions) \in Nat \ {0}
      BY <2>1, <2>5, EmptySeq, LenProperties
    <2>7. op = Code(target, from)[k + 1]
      <3>1. op = instructions[1] /\ 1 \in 1 .. LastStep(target) - k
        BY <2>3, <2>4, <2>5, <2>6
      <3>. QED BY Zenon, <2>5, <3>1
    <2>8. k \in Nat /\ k < LastStep(target) /\ k + 1 \in 0 .. LastStep(target)
      BY <2>3, <2>4, <2>5, <2>6
    <2> HIDE DEF op, a, b, from, target
    <2>9. Stage(lane', a, b, from, target, k + 1)
      BY Zenon, <2>1, <2>2, <2>3, <2>7, <2>8, StageStep
    <2>10. /\ instructions' \in Seq(Operations) /\ Len(instructions') = LastStep(target) - (k + 1)
           /\ \A i \in 1 .. LastStep(target) - (k + 1) : instructions'[i] = Code(target, from)[(k + 1) + i]
      <3>1. /\ instructions' \in Seq(Operations) /\ Len(instructions') = Len(instructions) - 1
            /\ \A i \in 1 .. Len(instructions') : instructions'[i] = instructions[i + 1]
        BY <2>1, <2>5, <2>6, HeadTailProperties
      <3>2. Len(instructions') = LastStep(target) - (k + 1)
        BY <2>4, <2>5, <2>8, <3>1
      <3>3. ASSUME NEW i \in 1 .. LastStep(target) - (k + 1)
            PROVE  instructions'[i] = Code(target, from)[(k + 1) + i]
        <4>1. i \in 1 .. Len(instructions') /\ i + 1 \in 1 .. LastStep(target) - k /\ k + (i + 1) = (k + 1) + i
          BY <2>4, <2>8, <3>2
        <4>. QED BY Zenon, <2>5, <3>1, <4>1
      <3>. QED BY Zenon, <3>1, <3>2, <3>3
    <2>11. factors'.dst = a /\ factors'.src = b /\ factors'.from = from /\ Target' = target
      BY <2>1 DEF a, b, from, target, Target
    <2>12. Remaining(k + 1)'
      <3>1. PICK n : n = k + 1
        OBVIOUS
      <3>2. Remaining(n)'
        BY Zenon, <2>10, <2>11, <3>1 DEF Remaining
      <3>. QED BY <3>1, <3>2
    <2>. QED BY Zenon, <2>1, <2>2, <2>8, <2>9, <2>11, <2>12 DEF ArithmeticInv
  <1>2. CASE UNCHANGED arithmeticVars
    <2>1. instructions' = instructions /\ lane' = lane /\ factors' = factors
      BY <1>2 DEF arithmeticVars
    <2>. QED BY <2>1 DEF ArithmeticInv, Remaining, Target
  <1>. QED BY <1>1, <1>2 DEF ArithmeticNext

(* The emulated multiplications leave the upper half of the product.       *)
LEMMA InvHighHalf == ArithmeticInv => HighHalf
  <1>. SUFFICES ASSUME ArithmeticInv, instructions = <<>> PROVE HighHalf
    BY DEF HighHalf
  <1> DEFINE a == factors.dst   b == factors.src
  <1>1. PICK k \in 0 .. LastStep(Target) : Remaining(k) /\ Stage(lane, a, b, factors.from, Target, k)
    BY Zenon DEF ArithmeticInv
  <1>2. a \in 0 .. Word - 1 /\ b \in 0 .. Word - 1 /\ factors.signed \in BOOLEAN
    BY DEF ArithmeticInv
  <1>3. k = LastStep(Target)
    <2>1. LastStep(Target) \in Nat /\ Len(instructions) = 0
      BY DEF LastStep
    <2>. QED BY <1>1, <2>1 DEF Remaining
  <1>4. /\ factors.from = "src" => lane.src = b
        /\ lane.dst = IF Target = "dst" THEN HighOf(a, b)
                      ELSE (((HighOf(a, b) - Selected(a, b)) % Word) - Selected(b, a)) % Word
    BY <1>1, <1>3 DEF Stage, Operands, Result
  <1>5. HighOf(a, b) = (a * b) \div Word
    BY <1>2, ProductOfHalves
  <1>6. CASE factors.signed
    <2>1. lane.dst = (((HighOf(a, b) - Selected(a, b)) % Word) - Selected(b, a)) % Word
      BY <1>4, <1>6 DEF Target
    <2>2. lane.dst = ((Signed(a) * Signed(b)) \div Word) % Word
      BY Zenon, <1>2, <1>5, <2>1, SignedProduct
    <2>. QED BY Zenon, <1>4, <1>6, <2>2 DEF HighHalf
  <1>7. CASE ~ factors.signed
    <2>1. lane.dst = (a * b) \div Word
      BY <1>4, <1>5, <1>7 DEF Target
    <2>. QED BY Zenon, <1>4, <1>7, <2>1 DEF HighHalf
  <1>. QED BY <1>6, <1>7

(* For words of any even width, the instructions that emulate a high       *)
(* multiplication leave the high half of the product in the destination,   *)
(* signed or not, whichever of the lanes the source comes from.            *)
THEOREM ArithmeticHighHalf == ArithmeticSpec => []HighHalf
  <1>. QED BY ArithmeticInitInv, ArithmeticStepInv, InvHighHalf, PTL DEF ArithmeticSpec

-----------------------------------------------------------------------------
(* DatasetProgram: what is on the stack, and what is in the lanes.         *)

HasAt(s, a, word) == a \in DOMAIN s /\ s[a] = word

LEMMA OverHas ==
  ASSUME NEW f, NEW g, NEW a, NEW word, HasAt(f, a, word) \/ (a \notin DOMAIN f /\ HasAt(g, a, word))
  PROVE  HasAt(Over(f, g), a, word)
  BY DEF Over, HasAt

-----------------------------------------------------------------------------
(* The stack: the pushed registers, then what alignStack took off, then    *)
(* the four local vectors at a multiple of 64.                             *)
Base == caller_rsp - 208
Frame == (Base - (Base % 64)) - 192

Saved(s) ==
    /\ \A i \in 1 .. 10 : HasAt(s, Base + 16 * (10 - i), Token(PushedXmm[i]))
    /\ \A i \in 1 .. 6 : HasAt(s, caller_rsp - 8 * i, Token(Pushed[i]))
Padded(s) == HasAt(s, Frame + 184, Number(Base % 64))

LaneSteps == {"save", "align", "set_up", "load_item", "fetch", "program", "low_half", "high_half",
              "store", "return", "returned"}

StackInv ==
    /\ lane_pc \in LaneSteps /\ caller_rsp \in Int
    /\ lane_pc = "save" => rsp = caller_rsp
    /\ lane_pc = "align" => rsp = Base /\ Saved(stack)
    /\ lane_pc \notin {"save", "align", "returned"} => rsp = Frame /\ Saved(stack) /\ Padded(stack)
    /\ lane_pc = "returned" => rsp = Base /\ Saved(stack)

(* Local vectors are written below everything that is read on return. *)
LEMMA LocalsKeepSaved ==
  ASSUME caller_rsp \in Int, rsp = Frame, NEW s, Saved(s), Padded(s),
         NEW offset \in {0, 32, 64, 96}, NEW vector
  PROVE  Saved(Over(Stored(offset, vector), s)) /\ Padded(Over(Stored(offset, vector), s))
  <1> DEFINE new == Over(Stored(offset, vector), s)
  <1>1. Base \in Int /\ Frame \in Int /\ Frame + 192 <= Base /\ caller_rsp = Base + 208
    BY DEF Base, Frame
  <1>2. \A a \in DOMAIN Stored(offset, vector) : a < Frame + 128
    BY <1>1 DEF Stored, Lane_Positions
  <1>3. ASSUME NEW a \in Int, NEW word, HasAt(s, a, word), a >= Frame + 128 PROVE HasAt(new, a, word)
    <2>1. a \notin DOMAIN Stored(offset, vector)
      BY <1>1, <1>2, <1>3
    <2>. QED BY Zenon, <1>3, <2>1, OverHas
  <1> HIDE DEF new
  <1>4. Padded(new)
    BY <1>1, <1>3 DEF Padded
  <1>5. ASSUME NEW i \in 1 .. 10 PROVE HasAt(new, Base + 16 * (10 - i), Token(PushedXmm[i]))
    <2>1. Base + 16 * (10 - i) \in Int /\ Base + 16 * (10 - i) >= Frame + 128
      BY <1>1
    <2>2. HasAt(s, Base + 16 * (10 - i), Token(PushedXmm[i]))
      BY DEF Saved
    <2>. QED BY <1>3, <2>1, <2>2
  <1>6. ASSUME NEW i \in 1 .. 6 PROVE HasAt(new, caller_rsp - 8 * i, Token(Pushed[i]))
    <2>1. caller_rsp - 8 * i \in Int /\ caller_rsp - 8 * i >= Frame + 128
      BY <1>1
    <2>2. HasAt(s, caller_rsp - 8 * i, Token(Pushed[i]))
      BY DEF Saved
    <2>. QED BY <1>3, <2>1, <2>2
  <1>. QED BY <1>4, <1>5, <1>6 DEF new, Saved

LEMMA StackSizes ==
  /\ DOMAIN Pushed = 1 .. 6 /\ Len(Pushed) = 6 /\ DOMAIN PushedXmm = 1 .. 10 /\ Len(PushedXmm) = 10
  /\ PushSize = 208 /\ Local_Size = 128
  BY DEF Pushed, PushedXmm, PushSize, Local_Size

LEMMA SaveAllStack == ASSUME StackInv, SaveAll PROVE StackInv'
  <1>1. /\ lane_pc = "save" /\ lane_pc' = "align" /\ rsp' = rsp - PushSize
        /\ caller_rsp' = caller_rsp
        /\ stack' = Over([a \in {rsp - 8 * i : i \in DOMAIN Pushed} |->
                            Token(Pushed[(rsp - a) \div 8])],
                         [a \in {rsp' + 16 * (Len(PushedXmm) - i) : i \in DOMAIN PushedXmm} |->
                            Token(PushedXmm[Len(PushedXmm) - ((a - rsp') \div 16)])])
    BY Zenon DEF SaveAll
  <1>2. rsp = caller_rsp /\ caller_rsp \in Int /\ rsp' = Base /\ Base \in Int /\ rsp = Base + 208
    BY <1>1, StackSizes DEF StackInv, Base
  <1> DEFINE f == [a \in {rsp - 8 * i : i \in 1 .. 6} |-> Token(Pushed[(rsp - a) \div 8])]
             g == [a \in {Base + 16 * (10 - i) : i \in 1 .. 10} |->
                            Token(PushedXmm[10 - ((a - Base) \div 16)])]
  <1>3. stack' = Over(f, g)
    BY <1>1, <1>2, StackSizes
  <1>4. ASSUME NEW i \in 1 .. 6 PROVE HasAt(Over(f, g), caller_rsp - 8 * i, Token(Pushed[i]))
    <2>1. (rsp - (rsp - 8 * i)) \div 8 = i
      BY <1>2
    <2>2. rsp - 8 * i \in DOMAIN f /\ f[rsp - 8 * i] = Token(Pushed[i])
      BY <2>1
    <2> HIDE DEF f, g
    <2>3. HasAt(f, rsp - 8 * i, Token(Pushed[i]))
      BY Zenon, <2>2 DEF HasAt
    <2>4. HasAt(Over(f, g), rsp - 8 * i, Token(Pushed[i]))
      BY Zenon, <2>3, OverHas
    <2>. QED BY <1>2, <2>4
  <1>5. ASSUME NEW i \in 1 .. 10
        PROVE  HasAt(Over(f, g), Base + 16 * (10 - i), Token(PushedXmm[i]))
    <2> DEFINE a == Base + 16 * (10 - i)
    <2>1. 10 - ((a - Base) \div 16) = i
      BY <1>2
    <2>2. a \in DOMAIN g /\ g[a] = Token(PushedXmm[i])
      BY <2>1
    <2>3. a \notin DOMAIN f
      BY <1>2
    <2> HIDE DEF f, g, a
    <2>4. HasAt(g, a, Token(PushedXmm[i]))
      BY Zenon, <2>2 DEF HasAt
    <2>5. HasAt(Over(f, g), a, Token(PushedXmm[i]))
      BY Zenon, <2>3, <2>4, OverHas
    <2>. QED BY <2>5 DEF a
  <1> HIDE DEF f, g
  <1>6. Saved(stack)'
    <2>1. \A i \in 1 .. 10 : HasAt(stack', Base + 16 * (10 - i), Token(PushedXmm[i]))
      BY <1>3, <1>5
    <2>2. \A i \in 1 .. 6 : HasAt(stack', caller_rsp - 8 * i, Token(Pushed[i]))
      BY <1>3, <1>4
    <2>. QED BY <1>1, <2>1, <2>2 DEF Saved, Base, HasAt
  <1>7. Base' = Base
    BY <1>1 DEF Base
  <1>. QED BY <1>1, <1>2, <1>6, <1>7 DEF StackInv, LaneSteps

LEMMA AlignStackStack == ASSUME StackInv, AlignStack PROVE StackInv'
  <1>1. /\ lane_pc = "align" /\ lane_pc' = "set_up" /\ rsp' = Aligned - Local_Size
        /\ caller_rsp' = caller_rsp
        /\ stack' = Over([a \in {rsp - (rsp % 64) - 8} |-> Number(rsp % 64)], stack)
    BY Zenon DEF AlignStack
  <1>2. rsp = Base /\ caller_rsp \in Int /\ Base \in Int /\ Saved(stack)
    BY <1>1 DEF StackInv, Base
  <1>3. rsp' = Frame /\ rsp - (rsp % 64) - 8 = Frame + 184 /\ Frame \in Int
        /\ Frame + 192 <= Base /\ caller_rsp = Base + 208
    BY <1>1, <1>2, StackSizes DEF Aligned, Frame, Base
  <1>4. Base' = Base /\ Frame' = Frame
    BY <1>1 DEF Base, Frame
  <1> DEFINE f == [a \in {Frame + 184} |-> Number(Base % 64)]
  <1>5. stack' = Over(f, stack)
    BY <1>1, <1>2, <1>3
  <1>6. HasAt(f, Frame + 184, Number(Base % 64))
    BY DEF HasAt
  <1>7. ASSUME NEW a \in Int, a >= Base, NEW word, HasAt(stack, a, word) PROVE HasAt(stack', a, word)
    <2>1. a \notin DOMAIN f
      BY <1>2, <1>3, <1>7
    <2> HIDE DEF f
    <2>. QED BY Zenon, <1>5, <1>7, <2>1, OverHas
  <1> HIDE DEF f
  <1>8. HasAt(stack', Frame + 184, Number(Base % 64))
    BY Zenon, <1>5, <1>6, OverHas
  <1>9. ASSUME NEW i \in 1 .. 10 PROVE HasAt(stack', Base + 16 * (10 - i), Token(PushedXmm[i]))
    <2>1. Base + 16 * (10 - i) \in Int /\ Base + 16 * (10 - i) >= Base
      BY <1>2
    <2>2. HasAt(stack, Base + 16 * (10 - i), Token(PushedXmm[i]))
      BY <1>2 DEF Saved
    <2>. QED BY <1>7, <2>1, <2>2
  <1>10. ASSUME NEW i \in 1 .. 6 PROVE HasAt(stack', caller_rsp - 8 * i, Token(Pushed[i]))
    <2>1. caller_rsp - 8 * i \in Int /\ caller_rsp - 8 * i >= Base
      BY <1>2, <1>3
    <2>2. HasAt(stack, caller_rsp - 8 * i, Token(Pushed[i]))
      BY <1>2 DEF Saved
    <2>. QED BY <1>7, <2>1, <2>2
  <1>11. Saved(stack)' /\ Padded(stack)'
    BY <1>1, <1>4, <1>8, <1>9, <1>10 DEF Saved, Padded, HasAt
  <1>. QED BY <1>1, <1>2, <1>3, <1>4, <1>11 DEF StackInv, LaneSteps

(* Only the local vectors change between the set-up and the return. *)
LEMMA LocalsStack ==
  ASSUME StackInv, lane_pc \notin {"save", "align", "returned"},
         lane_pc' \in LaneSteps \ {"save", "align", "returned"},
         rsp' = rsp, caller_rsp' = caller_rsp, Saved(stack'), Padded(stack')
  PROVE  StackInv'
  <1>1. Base' = Base /\ Frame' = Frame
    BY DEF Base, Frame
  <1>2. Saved(stack)' /\ Padded(stack)'
    BY <1>1 DEF Saved, Padded, HasAt
  <1>. QED BY <1>1, <1>2 DEF StackInv, LaneSteps

LEMMA SetUpStack == ASSUME StackInv, SetUp PROVE StackInv'
  <1>1. \E v : /\ lane_pc = "set_up" /\ lane_pc' = "load_item" /\ rsp' = rsp /\ caller_rsp' = caller_rsp
               /\ stack' = Over(Stored(0, v), Over(Stored(32, All(Token("cache_mask"))),
                             Over(Stored(64, All(Number(4))), Over(Stored(96, All(Number(4))), stack))))
    BY Zenon DEF SetUp
  <1>2. PICK v, u, w : /\ lane_pc = "set_up" /\ lane_pc' = "load_item" /\ rsp' = rsp
                    /\ caller_rsp' = caller_rsp
                    /\ stack' = Over(Stored(0, v), Over(Stored(32, u),
                                  Over(Stored(64, w), Over(Stored(96, w), stack))))
    BY Zenon, <1>1
  <1>3. rsp = Frame /\ Saved(stack) /\ Padded(stack) /\ caller_rsp \in Int
    BY <1>2 DEF StackInv
  <1>4. PICK s1 : s1 = Over(Stored(96, w), stack)
    OBVIOUS
  <1>5. Saved(s1) /\ Padded(s1)
    BY <1>3, <1>4, LocalsKeepSaved
  <1>6. PICK s2 : s2 = Over(Stored(64, w), s1)
    OBVIOUS
  <1>7. Saved(s2) /\ Padded(s2)
    BY <1>3, <1>5, <1>6, LocalsKeepSaved
  <1>8. PICK s3 : s3 = Over(Stored(32, u), s2)
    OBVIOUS
  <1>9. Saved(s3) /\ Padded(s3)
    BY <1>3, <1>7, <1>8, LocalsKeepSaved
  <1>10. stack' = Over(Stored(0, v), s3)
    BY Zenon, <1>2, <1>4, <1>6, <1>8
  <1>11. Saved(stack') /\ Padded(stack')
    BY <1>3, <1>9, <1>10, LocalsKeepSaved
  <1>. QED BY <1>2, <1>11, LocalsStack DEF LaneSteps

LEMMA StoreItemsStack == ASSUME StackInv, StoreItems PROVE StackInv'
  <1>1. /\ lane_pc = "store" /\ lane_pc' \in {"return", "load_item"} /\ rsp' = rsp
        /\ caller_rsp' = caller_rsp /\ stack' = Over(Stored(0, NextIndexes), stack)
    BY DEF StoreItems
  <1>2. rsp = Frame /\ Saved(stack) /\ Padded(stack) /\ caller_rsp \in Int
    BY <1>1 DEF StackInv
  <1>3. Saved(stack') /\ Padded(stack')
    BY <1>1, <1>2, LocalsKeepSaved
  <1>. QED BY <1>1, <1>3, LocalsStack DEF LaneSteps

LEMMA ReturnStack == ASSUME StackInv, Return PROVE StackInv'
  <1>1. /\ lane_pc = "return" /\ lane_pc' = "returned" /\ caller_rsp' = caller_rsp /\ stack' = stack
        /\ rsp' = rsp + Local_Size + 56 + 8 + stack[rsp + Local_Size + 56].item
    BY Zenon DEF Return
  <1>2. rsp = Frame /\ Saved(stack) /\ Padded(stack) /\ caller_rsp \in Int /\ Base \in Int
    BY <1>1 DEF StackInv, Base
  <1>3. rsp + Local_Size + 56 = Frame + 184
    BY <1>2, StackSizes DEF Frame
  <1>4. stack[rsp + Local_Size + 56].item = Base % 64
    BY <1>2, <1>3 DEF Padded, HasAt, Number
  <1>5. rsp' = Base
    BY <1>1, <1>2, <1>4, StackSizes DEF Frame
  <1>6. Base' = Base /\ Saved(stack)'
    BY <1>1, <1>2 DEF Base, Saved, HasAt
  <1>. QED BY <1>1, <1>2, <1>5, <1>6 DEF StackInv, LaneSteps

LEMMA OtherStepsStack ==
  ASSUME StackInv,
         LoadItem \/ FetchCache \/ RunSuperscalar \/ TransposeLow \/ TransposeHigh \/ UNCHANGED laneVars
  PROVE  StackInv'
  <1>1. /\ rsp' = rsp /\ caller_rsp' = caller_rsp /\ stack' = stack
        /\ \/ lane_pc' = lane_pc
           \/ /\ lane_pc \in {"load_item", "fetch", "program", "low_half", "high_half"}
              /\ lane_pc' \in {"fetch", "program", "low_half", "high_half", "store"}
    BY DEF LoadItem, FetchCache, RunSuperscalar, TransposeLow, TransposeHigh, laneVars, stackVars
  <1>2. Base' = Base /\ Frame' = Frame /\ Saved(stack)' = Saved(stack) /\ Padded(stack)' = Padded(stack)
    BY <1>1 DEF Base, Frame, Saved, Padded, HasAt
  <1>. QED BY <1>1, <1>2 DEF StackInv, LaneSteps

LEMMA StackStepInv == ASSUME StackInv, [LaneNext]_laneVars PROVE StackInv'
  BY Zenon, SaveAllStack, AlignStackStack, SetUpStack, StoreItemsStack, ReturnStack, OtherStepsStack
  DEF LaneNext

(* For any number of programs and jobs and any RSP, the local vectors are  *)
(* aligned, and the caller finds its registers and RSP again: what is read *)
(* off the stack on return lies above every vector that is written, and    *)
(* the alignment is undone by the amount it took.                          *)
THEOREM LaneStackBalanced == LaneSpec => []StackBalanced
  <1>1. LaneInit => StackInv
    <2> SUFFICES ASSUME LaneInit PROVE StackInv
      OBVIOUS
    <2>1. lane_pc = "save" /\ rsp = caller_rsp /\ caller_rsp \in Int
      BY DatasetProgramAssumption DEF LaneInit
    <2>. QED BY <2>1 DEF StackInv, LaneSteps
  <1>2. StackInv => StackBalanced
    <2> SUFFICES ASSUME StackInv PROVE StackBalanced
      OBVIOUS
    <2>1. ASSUME lane_pc \notin {"save", "align", "returned"} PROVE rsp % 32 = 0
      <3>1. rsp = Frame /\ Base \in Int
        BY <2>1 DEF StackInv, Base
      <3>. QED BY <3>1 DEF Frame
    <2>2. ASSUME lane_pc = "returned"
          PROVE  /\ \A i \in DOMAIN PoppedXmm : RestoredXmm(i) = Token(PoppedXmm[i])
                 /\ \A i \in DOMAIN Popped : Restored(i) = Token(Popped[i])
                 /\ rsp + PushSize = caller_rsp
      <3>1. rsp = Base /\ Saved(stack) /\ caller_rsp \in Int /\ Base \in Int /\ caller_rsp = Base + 208
        BY <2>2 DEF StackInv, Base
      <3>2. /\ DOMAIN PoppedXmm = 1 .. 10 /\ Len(PoppedXmm) = 10 /\ DOMAIN Popped = 1 .. 6
            /\ \A i \in 1 .. 10 : PoppedXmm[i] = PushedXmm[11 - i]
            /\ \A i \in 1 .. 6 : Popped[i] = Pushed[7 - i]
        BY DEF PoppedXmm, Popped, Pushed, PushedXmm, Reverse
      <3>3. ASSUME NEW i \in 1 .. 10 PROVE RestoredXmm(i) = Token(PoppedXmm[i])
        <4>1. 11 - i \in 1 .. 10 /\ rsp + 16 * (i - 1) = Base + 16 * (10 - (11 - i))
          BY <3>1
        <4>. QED BY <3>1, <3>2, <4>1 DEF RestoredXmm, Saved, HasAt
      <3>4. ASSUME NEW i \in 1 .. 6 PROVE Restored(i) = Token(Popped[i])
        <4>1. 7 - i \in 1 .. 6
              /\ rsp + 16 * Len(PoppedXmm) + 8 * (i - 1) = caller_rsp - 8 * (7 - i)
          BY <3>1, <3>2
        <4>. QED BY <3>1, <3>2, <4>1 DEF Restored, Saved, HasAt
      <3>. QED BY <3>1, <3>2, <3>3, <3>4, StackSizes
    <2>. QED BY <2>1, <2>2 DEF StackBalanced
  <1>3. StackInv /\ [LaneNext]_laneVars => StackInv'
    BY Zenon, StackStepInv
  <1>. QED BY <1>1, <1>2, <1>3, PTL DEF LaneSpec

-----------------------------------------------------------------------------
(* The four items of a round, one to a lane.                               *)
ItemAt(p) == job.start + r10 + p
P4 == 0 .. 3

Words(k, s) == \A p \in P4 : ymm[8 + k][p] = ItemWord(ItemAt(p), k, s)
(* After the last transposition: vector m has words 4h to 4h + 3 of item m. *)
RowsOfItem(h, m) == \A p \in P4 : ymm[8 + 4 * h + m][p] = ItemWord(ItemAt(m), 4 * h + p, 2 * Programs)

(* The local vectors: the indexes, the mask, and what is added to both.    *)
Locals ==
    \A p \in P4 :
       /\ HasAt(stack, rsp + 8 * p, Number(ItemAt(p)))
       /\ HasAt(stack, rsp + 32 + 8 * p, Token("cache_mask"))
       /\ HasAt(stack, rsp + 64 + 8 * p, Number(4))
       /\ HasAt(stack, rsp + 96 + 8 * p, Number(4))

Lines ==
    /\ rsi = CacheLine(ItemAt(0)) /\ r14 = CacheLine(ItemAt(1))
    /\ rdi = CacheLine(ItemAt(2)) /\ r15 = CacheLine(ItemAt(3))

Round == {"load_item", "fetch", "program", "low_half", "high_half", "store"}

JobInv ==
    /\ lane_pc \in LaneSteps
    /\ job \in Jobs /\ job.start \in Nat /\ job.count \in Nat
    /\ \A i \in 0 .. Programs - 2 : address_register[i] \in 0 .. 7
    /\ ymm = [n \in 0 .. 15 |-> ymm[n]]
    /\ lane_pc # "returned" => rsp \in Int

OutputInv ==
    /\ r10 \in Nat /\ r13 \in Nat
    /\ DOMAIN submemory = 0 .. 2 * job.count - 1
    /\ \A n \in 0 .. r10 - 1, k \in 0 .. 7 :
          submemory[2 * n + k \div 4][k % 4] = ItemWord(job.start + n, k, 2 * Programs)
    /\ lane_pc \in {"save", "align", "set_up"} => r10 = 0
    /\ lane_pc \in Round => r13 >= 1 /\ r10 + 4 * r13 = job.count
    /\ lane_pc \in {"return", "returned"} => r10 = job.count

RoundInv ==
    lane_pc \in Round =>
        /\ Locals
        /\ \A p \in P4 : ymm[6][p] = Token("cache") /\ ymm[7][p] = Number(ItemAt(p) + 1)

WordsInv ==
    /\ lane_pc = "load_item" => \A p \in P4 : ymm[3][p] = Number(ItemAt(p))
    /\ lane_pc \in {"fetch", "program", "low_half", "high_half"} => lane_i \in 0 .. Programs - 1
    /\ lane_pc = "fetch" => /\ lane_i = 0 => \A p \in P4 : ymm[3][p] = Number(ItemAt(p))
                            /\ \A k \in 0 .. 7 : Words(k, 2 * lane_i)
    /\ lane_pc = "program" => /\ \A k \in 0 .. 7 : Words(k, 2 * lane_i)
                              /\ \A p \in P4 : ymm[4][p] = Token("lower_half")
                                               /\ ymm[5][p] = Token("zero")
    /\ lane_pc = "low_half" => \A k \in 0 .. 7 : Words(k, 2 * lane_i + 1)
    /\ lane_pc = "high_half" =>
          /\ \A k \in 4 .. 7 : Words(k, 2 * lane_i + 1)
          /\ IF lane_i = Programs - 1 THEN \A m \in P4 : RowsOfItem(0, m)
             ELSE \A k \in P4 : Words(k, 2 * lane_i + 2)
    /\ lane_pc \in {"program", "low_half", "high_half"} => Lines
    /\ lane_pc = "store" => \A h \in 0 .. 1, m \in P4 : RowsOfItem(h, m)

ItemsInv == JobInv /\ OutputInv /\ RoundInv /\ WordsInv

LEMMA ItemsInitInv == LaneInit => ItemsInv
  <1> SUFFICES ASSUME LaneInit PROVE ItemsInv
    OBVIOUS
  <1>1. /\ lane_pc = "save" /\ job \in Jobs /\ r10 = 0 /\ r13 = 0
        /\ job.start \in Nat /\ job.count \in Nat
    BY DatasetProgramAssumption DEF LaneInit
  <1>2. JobInv
    BY <1>1, DatasetProgramAssumption DEF LaneInit, JobInv, LaneSteps
  <1>3. OutputInv
    BY <1>1 DEF LaneInit, OutputInv, Round
  <1>4. RoundInv /\ WordsInv
    BY <1>1 DEF RoundInv, WordsInv, Round
  <1>. QED BY <1>2, <1>3, <1>4 DEF ItemsInv

(* Before the first round nothing but the counters matters. *)
LEMMA EarlyItems == ASSUME ItemsInv, SaveAll \/ AlignStack PROVE ItemsInv'
  <1>1. /\ lane_pc \in {"save", "align"} /\ lane_pc' \in {"align", "set_up"}
        /\ job' = job /\ address_register' = address_register /\ ymm' = ymm
        /\ r10' = r10 /\ r13' = r13 /\ submemory' = submemory
    BY DEF SaveAll, AlignStack, outputVars
  <1>2. rsp' \in Int
    BY StackSizes DEF SaveAll, AlignStack, Aligned, ItemsInv, JobInv
  <1>3. JobInv'
    BY <1>1, <1>2 DEF ItemsInv, JobInv, LaneSteps
  <1>4. OutputInv'
    BY <1>1 DEF ItemsInv, OutputInv, Round
  <1>5. RoundInv' /\ WordsInv'
    BY <1>1 DEF RoundInv, WordsInv, Round
  <1>. QED BY <1>3, <1>4, <1>5 DEF ItemsInv

(* A vector on the stack, and those beside it. *)
LEMMA StoredVector ==
  ASSUME rsp \in Int, NEW s, NEW offset \in {0, 32, 64, 96}, NEW vector
  PROVE  /\ \A p \in P4 : HasAt(Over(Stored(offset, vector), s), rsp + offset + 8 * p, vector[p])
         /\ \A other \in {0, 32, 64, 96} \ {offset}, p \in P4 : \A word :
              HasAt(s, rsp + other + 8 * p, word) =>
                 HasAt(Over(Stored(offset, vector), s), rsp + other + 8 * p, word)
  <1> DEFINE f == Stored(offset, vector)
  <1>1. ASSUME NEW p \in P4 PROVE HasAt(Over(f, s), rsp + offset + 8 * p, vector[p])
    <2> DEFINE a == rsp + offset + 8 * p
    <2>1. (a - rsp - offset) \div 8 = p
      BY DEF P4
    <2>2. a \in DOMAIN f /\ f[a] = vector[p]
      BY <2>1 DEF Stored, Lane_Positions, P4
    <2> HIDE DEF a, f
    <2>3. HasAt(f, a, vector[p])
      BY Zenon, <2>2 DEF HasAt
    <2>4. HasAt(Over(f, s), a, vector[p])
      BY <2>3, OverHas
    <2>. QED BY <2>4 DEF a
  <1>2. ASSUME NEW other \in {0, 32, 64, 96} \ {offset}, NEW p \in P4, NEW word,
               HasAt(s, rsp + other + 8 * p, word)
        PROVE  HasAt(Over(f, s), rsp + other + 8 * p, word)
    <2>1. rsp + other + 8 * p \notin DOMAIN f
      BY DEF Stored, Lane_Positions, P4
    <2> HIDE DEF f
    <2>. QED BY Zenon, <1>2, <2>1, OverHas
  <1> HIDE DEF f
  <1>. QED BY <1>1, <1>2 DEF f

(* Exactly the steps that leave the job and the output alone. *)
LEMMA SetUpItems == ASSUME ItemsInv, SetUp PROVE ItemsInv'
  <1> DEFINE numbers == AddVectors(All(Number(job.start)), [p \in Lane_Positions |-> Number(p + 1)])
             indexes == AddVectors(numbers, All(Number(-1)))
             mask == All(Token("cache_mask"))   four == All(Number(4))
  <1>1. /\ lane_pc = "set_up" /\ lane_pc' = "load_item" /\ job' = job
        /\ address_register' = address_register /\ rsp' = rsp /\ submemory' = submemory
        /\ r10' = 0 /\ r13' = job.count \div 4
    BY Zenon DEF SetUp
  <1>2. ymm' = [ymm EXCEPT ![0] = All(Number(4)), ![3] = indexes, ![4] = All(Number(1)),
                           ![5] = numbers, ![6] = All(Token("cache")), ![7] = numbers]
    BY Zenon DEF SetUp
  <1>3. stack' = Over(Stored(0, indexes), Over(Stored(32, mask), Over(Stored(64, four),
                   Over(Stored(96, four), stack))))
    BY Zenon DEF SetUp
  <1>4. /\ rsp \in Int /\ job \in Jobs /\ job.start \in Nat /\ job.count \in Nat
        /\ ymm = [n \in 0 .. 15 |-> ymm[n]] /\ r10 = 0
    BY <1>1 DEF ItemsInv, JobInv, OutputInv
  <1>5. \A p \in P4 : /\ numbers[p] = Number(job.start + p + 1) /\ indexes[p] = Number(job.start + p)
                      /\ mask[p] = Token("cache_mask") /\ four[p] = Number(4)
    <2>1. \A p \in P4 : numbers[p] = Number(job.start + (p + 1))
      BY DEF AddVectors, AddWord, All, Number, Token, Lane_Positions, P4
    <2>2. \A p \in P4 : job.start + (p + 1) = (job.start + p) + 1
      BY <1>4 DEF P4
    <2>3. \A p \in P4 : numbers[p] = Number(job.start + p + 1)
      BY <2>1, <2>2
    <2> HIDE DEF numbers
    <2>4. \A p \in P4 : indexes[p] = Number((job.start + p + 1) + (-1))
      BY <2>3 DEF AddVectors, AddWord, All, Number, Token, Lane_Positions, P4
    <2>5. \A p \in P4 : (job.start + p + 1) + (-1) = job.start + p
      BY <1>4 DEF P4
    <2>. QED BY <2>3, <2>4, <2>5 DEF All, Lane_Positions, P4
  <1> HIDE DEF numbers, indexes, mask, four
  <1>6. \A p \in P4 : /\ ymm'[3][p] = Number(job.start + p)
                      /\ ymm'[6][p] = Token("cache") /\ ymm'[7][p] = Number(job.start + p + 1)
    <2>1. ymm'[3] = indexes /\ ymm'[6] = All(Token("cache")) /\ ymm'[7] = numbers
      BY <1>2, <1>4
    <2>. QED BY <1>5, <2>1 DEF All, Lane_Positions, P4
  <1>7. \A p \in P4 : /\ HasAt(stack', rsp + 0 + 8 * p, indexes[p])
                      /\ HasAt(stack', rsp + 32 + 8 * p, mask[p])
                      /\ HasAt(stack', rsp + 64 + 8 * p, four[p])
                      /\ HasAt(stack', rsp + 96 + 8 * p, four[p])
    <2>0. /\ rsp \in Int
          /\ 0 \in {0, 32, 64, 96} /\ 32 \in {0, 32, 64, 96} /\ 64 \in {0, 32, 64, 96}
          /\ 96 \in {0, 32, 64, 96} \ {64}
          /\ 64 \in {0, 32, 64, 96} \ {32} /\ 96 \in {0, 32, 64, 96} \ {32}
          /\ 32 \in {0, 32, 64, 96} \ {0} /\ 64 \in {0, 32, 64, 96} \ {0}
          /\ 96 \in {0, 32, 64, 96} \ {0}
      BY <1>4
    <2>1. PICK s1 : s1 = Over(Stored(96, four), stack)
      OBVIOUS
    <2>2. \A p \in P4 : HasAt(s1, rsp + 96 + 8 * p, four[p])
      BY <1>4, <2>1, StoredVector
    <2>3. PICK s2 : s2 = Over(Stored(64, four), s1)
      OBVIOUS
    <2>4. \A p \in P4 : HasAt(s2, rsp + 64 + 8 * p, four[p]) /\ HasAt(s2, rsp + 96 + 8 * p, four[p])
      <3>1. \A p \in P4 : HasAt(s2, rsp + 64 + 8 * p, four[p])
        BY Zenon, <2>3, <2>0, StoredVector
      <3>. QED BY Zenon, <2>0, <2>2, <2>3, <3>1, StoredVector
    <2>5. PICK s3 : s3 = Over(Stored(32, mask), s2)
      OBVIOUS
    <2>6. \A p \in P4 : /\ HasAt(s3, rsp + 32 + 8 * p, mask[p]) /\ HasAt(s3, rsp + 64 + 8 * p, four[p])
                        /\ HasAt(s3, rsp + 96 + 8 * p, four[p])
      <3>1. \A p \in P4 : HasAt(s3, rsp + 32 + 8 * p, mask[p])
        BY Zenon, <2>5, <2>0, StoredVector
      <3>2. \A other \in {0, 32, 64, 96} \ {32}, p \in P4 : \A word :
               HasAt(s2, rsp + other + 8 * p, word) => HasAt(s3, rsp + other + 8 * p, word)
        <4>1. rsp \in Int /\ 32 \in {0, 32, 64, 96}
          BY <2>0
        <4>. QED BY SMTT(60), <2>5, <4>1, StoredVector
      <3>. QED BY Zenon, <2>0, <2>4, <3>1, <3>2
    <2>7. stack' = Over(Stored(0, indexes), s3)
      BY Zenon, <1>3, <2>1, <2>3, <2>5
    <2>8. \A p \in P4 : HasAt(stack', rsp + 0 + 8 * p, indexes[p])
      BY Zenon, <2>7, <2>0, StoredVector
    <2>9. \A other \in {0, 32, 64, 96} \ {0}, p \in P4 : \A word :
             HasAt(s3, rsp + other + 8 * p, word) => HasAt(stack', rsp + other + 8 * p, word)
      <3>1. rsp \in Int /\ 0 \in {0, 32, 64, 96}
        BY <2>0
      <3>. QED BY ZenonT(60), <2>7, <3>1, StoredVector
    <2>. QED BY Zenon, <2>0, <2>6, <2>8, <2>9
  <1>8. \A p \in P4 : rsp + 0 + 8 * p = rsp + 8 * p /\ ItemAt(p)' = job.start + p
    BY <1>1, <1>4 DEF ItemAt, P4
  <1>9. RoundInv'
    <2>1. Locals'
      BY <1>1, <1>5, <1>7, <1>8 DEF Locals, HasAt
    <2>. QED BY <1>6, <1>8, <2>1 DEF RoundInv
  <1>10. WordsInv'
    BY <1>1, <1>6, <1>8 DEF WordsInv
  <1>11. JobInv'
    <2>1. ymm' = [n \in 0 .. 15 |-> ymm'[n]]
      BY <1>2, <1>4
    <2>. QED BY <1>1, <2>1 DEF ItemsInv, JobInv, LaneSteps
  <1>12. OutputInv'
    <2>1. job.count \in Nat \ {0} /\ job.count % 4 = 0
      BY <1>4, DatasetProgramAssumption
    <2>2. job.count \div 4 \in Nat /\ job.count \div 4 >= 1 /\ 4 * (job.count \div 4) = job.count
      BY <2>1
    <2>3. r13' \in Nat /\ r13' >= 1 /\ r10' + 4 * r13' = job.count
      BY <1>1, <2>1, <2>2
    <2>. QED BY <1>1, <2>1, <2>3 DEF ItemsInv, OutputInv, Round
  <1>. QED BY <1>9, <1>10, <1>11, <1>12 DEF ItemsInv

(* What a round's steps leave alone. *)
Untouched ==
    /\ job' = job /\ address_register' = address_register /\ rsp' = rsp /\ stack' = stack
    /\ r10' = r10 /\ r13' = r13 /\ submemory' = submemory

LEMMA RoundStep ==
  ASSUME ItemsInv, Untouched, lane_pc \in Round, lane_pc' \in Round,
         ymm' = [n \in 0 .. 15 |-> ymm'[n]], \A p \in P4 : ymm'[6][p] = ymm[6][p] /\ ymm'[7][p] = ymm[7][p]
  PROVE  JobInv' /\ OutputInv' /\ RoundInv' /\ \A n : ItemAt(n)' = ItemAt(n)
  <1>1. \A n : ItemAt(n)' = ItemAt(n)
    BY DEF Untouched, ItemAt
  <1>2. JobInv'
    BY DEF ItemsInv, JobInv, Untouched, Round, LaneSteps
  <1>3. OutputInv'
    BY DEF ItemsInv, OutputInv, Untouched, Round
  <1>4. RoundInv'
    <2>1. Locals' = Locals
      BY <1>1 DEF Locals, HasAt, Untouched
    <2>. QED BY <1>1, <2>1 DEF ItemsInv, RoundInv
  <1>. QED BY <1>1, <1>2, <1>3, <1>4

LEMMA LoadItemItems == ASSUME ItemsInv, LoadItem PROVE ItemsInv'
  <1>1. /\ lane_pc = "load_item" /\ lane_pc' = "fetch" /\ lane_i' = 0 /\ Untouched
    BY Zenon DEF LoadItem, Untouched, stackVars, outputVars
  <1>2. ymm' = [n \in 0 .. 15 |->
                  IF n < 8 THEN ymm[n]
                  ELSE LET k == IF n = 8 THEN 0 ELSE Constant(-128 + 32 * (n - 9))
                       IN  [p \in Lane_Positions |-> InitialWord(ymm[7][p], k)]]
    BY Zenon DEF LoadItem
  <1>3. \A n \in 0 .. 7 : ymm'[n] = ymm[n]
    BY <1>2
  <1>4. \A p \in P4 : ymm[7][p] = Number(ItemAt(p) + 1) /\ ItemAt(p) \in Int
    <2>1. job.start \in Nat /\ r10 \in Nat
      BY DEF ItemsInv, JobInv, OutputInv
    <2>2. \A p \in P4 : ItemAt(p) \in Int
      BY <2>1 DEF ItemAt, P4
    <2>. QED BY <1>1, <2>2 DEF ItemsInv, RoundInv, Round
  <1>5. ASSUME NEW k \in 0 .. 7, NEW p \in P4 PROVE ymm'[8 + k][p] = ItemWord(ItemAt(p), k, 0)
    <2>1. (IF 8 + k = 8 THEN 0 ELSE Constant(-128 + 32 * ((8 + k) - 9))) = k
      BY DEF Constant
    <2>2. 8 + k \in 0 .. 15 /\ ~ (8 + k < 8) /\ p \in Lane_Positions
      BY DEF P4, Lane_Positions
    <2>3. ymm'[8 + k] = [q \in Lane_Positions |->
            InitialWord(ymm[7][q], IF 8 + k = 8 THEN 0 ELSE Constant(-128 + 32 * ((8 + k) - 9)))]
      BY Zenon, <1>2, <2>2
    <2>4. ymm'[8 + k][p] = InitialWord(Number(ItemAt(p) + 1), k)
      BY Zenon, <1>4, <2>1, <2>2, <2>3
    <2>5. (ItemAt(p) + 1) - 1 = ItemAt(p)
      BY <1>4
    <2>6. InitialWord(Number(ItemAt(p) + 1), k) = ItemWord((ItemAt(p) + 1) - 1, k, 0)
      BY DEF InitialWord, Number
    <2>. QED BY Zenon, <2>4, <2>5, <2>6
  <1>6. ymm' = [n \in 0 .. 15 |-> ymm'[n]]
    BY <1>2
  <1>7. JobInv' /\ OutputInv' /\ RoundInv' /\ \A n : ItemAt(n)' = ItemAt(n)
    BY <1>1, <1>3, <1>6, RoundStep DEF Round
  <1>8. \A p \in P4 : ymm[3][p] = Number(ItemAt(p))
    BY <1>1 DEF ItemsInv, WordsInv
  <1>9. WordsInv'
    <2>1. \A k \in 0 .. 7 : Words(k, 2 * lane_i)'
      BY <1>1, <1>5, <1>7 DEF Words
    <2>2. \A p \in P4 : ymm'[3][p] = Number(ItemAt(p))
      BY <1>3, <1>8
    <2>3. lane_i' \in 0 .. Programs - 1
      BY <1>1, DatasetProgramAssumption
    <2>. QED BY <1>1, <1>7, <2>1, <2>2, <2>3 DEF WordsInv
  <1>. QED BY <1>7, <1>9 DEF ItemsInv

LEMMA FetchItems == ASSUME ItemsInv, FetchCache PROVE ItemsInv'
  <1> DEFINE indexes == IF lane_i = 0 THEN ymm[3] ELSE ymm[8 + address_register[lane_i - 1]]
             mask == StackVector(32)
             pointers == [p \in Lane_Positions |-> Pointer(indexes[p], mask[p], ymm[6][p])]
             fifth == All(Token("zero"))   fourth == All(Token("lower_half"))
             first == [p \in Lane_Positions |-> IF p < 2 THEN pointers[p + 2] ELSE Token("zero")]
  <1>1. /\ lane_pc = "fetch" /\ lane_pc' = "program" /\ lane_i' = lane_i /\ Untouched
        /\ rsi' = pointers[0] /\ r14' = pointers[1] /\ rdi' = pointers[2] /\ r15' = pointers[3]
    BY Zenon DEF FetchCache, Untouched, stackVars, outputVars
  <1>2. ymm' = [ymm EXCEPT ![0] = pointers, ![5] = fifth, ![4] = fourth, ![1] = first]
    BY Zenon DEF FetchCache
  <1>3. /\ lane_i \in 0 .. Programs - 1 /\ Programs \in Nat \ {0}
        /\ lane_i = 0 => \A p \in P4 : ymm[3][p] = Number(ItemAt(p))
        /\ \A k \in 0 .. 7 : Words(k, 2 * lane_i)
        /\ \A i \in 0 .. Programs - 2 : address_register[i] \in 0 .. 7
        /\ ymm = [n \in 0 .. 15 |-> ymm[n]]
    BY <1>1, DatasetProgramAssumption DEF ItemsInv, JobInv, WordsInv
  <1>4. \A p \in P4 : mask[p] = Token("cache_mask") /\ ymm[6][p] = Token("cache")
    <2>1. Locals /\ \A p \in P4 : ymm[6][p] = Token("cache")
      BY <1>1 DEF ItemsInv, RoundInv, Round
    <2>2. \A p \in P4 : stack[rsp + 32 + 8 * p] = Token("cache_mask")
      BY <2>1 DEF Locals, HasAt
    <2>. QED BY <2>1, <2>2 DEF StackVector, Lane_Positions, P4
  <1>5. ASSUME NEW p \in P4 PROVE indexes[p] = CacheLine(ItemAt(p))
    <2>1. CASE lane_i = 0
      BY <1>3, <2>1 DEF CacheLine
    <2>2. CASE lane_i # 0
      <3>1. PICK k \in 0 .. 7 : k = address_register[lane_i - 1]
        BY <1>3, <2>2
      <3>2. ymm[8 + k][p] = ItemWord(ItemAt(p), k, 2 * lane_i)
        BY <1>3 DEF Words
      <3>. QED BY <2>2, <3>1, <3>2 DEF CacheLine
    <2>. QED BY <2>1, <2>2
  <1> HIDE DEF indexes, mask
  <1>6. \A p \in P4 : pointers[p] = CacheLine(ItemAt(p))
    <2>1. \A p \in P4 : pointers[p] = Pointer(indexes[p], mask[p], ymm[6][p])
      BY DEF Lane_Positions, P4
    <2> HIDE DEF pointers
    <2>. QED BY <1>4, <1>5, <2>1 DEF Pointer
  <1>7. \A p \in P4 : fourth[p] = Token("lower_half") /\ fifth[p] = Token("zero")
    BY DEF All, Lane_Positions, P4
  <1> HIDE DEF pointers, first, fourth, fifth
  <1>8. /\ ymm' = [n \in 0 .. 15 |-> ymm'[n]] /\ ymm'[4] = fourth /\ ymm'[5] = fifth
        /\ \A n \in 6 .. 15 : ymm'[n] = ymm[n]
    <2>1. PICK y : y = ymm /\ y = [n \in 0 .. 15 |-> y[n]]
      BY <1>3
    <2>2. ymm' = [n \in 0 .. 15 |-> IF n = 1 THEN first ELSE IF n = 4 THEN fourth
                                   ELSE IF n = 5 THEN fifth ELSE IF n = 0 THEN pointers ELSE y[n]]
      BY <1>2, <2>1
    <2>. QED BY <2>1, <2>2
  <1>9. JobInv' /\ OutputInv' /\ RoundInv' /\ \A n : ItemAt(n)' = ItemAt(n)
    BY <1>1, <1>8, RoundStep DEF Round
  <1>10. \A k \in 0 .. 7 : Words(k, 2 * lane_i)'
    BY <1>1, <1>3, <1>8, <1>9 DEF Words
  <1>11. Lines'
    <2>1. /\ pointers[0] = CacheLine(ItemAt(0)) /\ pointers[1] = CacheLine(ItemAt(1))
          /\ pointers[2] = CacheLine(ItemAt(2)) /\ pointers[3] = CacheLine(ItemAt(3))
      BY <1>6 DEF P4
    <2>2. \A n : CacheLine(n)' = CacheLine(n)
      BY <1>1 DEF CacheLine, Untouched
    <2>. QED BY <1>1, <1>9, <2>1, <2>2 DEF Lines
  <1>12. WordsInv'
    BY <1>1, <1>3, <1>7, <1>8, <1>10, <1>11 DEF WordsInv
  <1>. QED BY <1>9, <1>12 DEF ItemsInv

LEMMA RunItems == ASSUME ItemsInv, RunSuperscalar PROVE ItemsInv'
  <1>1. /\ lane_pc = "program" /\ lane_pc' = "low_half" /\ lane_i' = lane_i /\ Untouched
        /\ rsi' = rsi /\ r14' = r14 /\ rdi' = rdi /\ r15' = r15
    BY Zenon DEF RunSuperscalar, Untouched, pointerVars, stackVars, outputVars
  <1>2. /\ lane_i \in 0 .. Programs - 1
        /\ \A k \in 0 .. 7 : Words(k, 2 * lane_i)
        /\ \A p \in P4 : ymm[4][p] = Token("lower_half") /\ ymm[5][p] = Token("zero")
        /\ Lines
    BY <1>1 DEF ItemsInv, WordsInv
  <1>3. \A n \in 0 .. 15, p \in P4 : ymm'[n][p] =
          IF n < 4 THEN Token("junk")
          ELSE IF n < 8 THEN ymm[n][p]
          ELSE IF Together(p) /\ ymm[4][p] = Token("lower_half") /\ ymm[5][p] = Token("zero")
          THEN ItemWord(ymm[8][p].item, n - 8, 2 * lane_i + 1)
          ELSE Token("junk")
    BY Zenon DEF RunSuperscalar, Lane_Positions, P4
  <1>4. \A p \in P4 : ymm'[6][p] = ymm[6][p] /\ ymm'[7][p] = ymm[7][p]
    BY <1>3
  <1>5. ymm' = [n \in 0 .. 15 |-> ymm'[n]]
    BY DEF RunSuperscalar
  <1>6. JobInv' /\ OutputInv' /\ RoundInv' /\ \A n : ItemAt(n)' = ItemAt(n)
    BY <1>1, <1>4, <1>5, RoundStep DEF Round
  <1>7. ASSUME NEW p \in P4 PROVE ymm[8][p].item = ItemAt(p) /\ Together(p)
    <2>1. \A k \in 0 .. 7 : ymm[8 + k][p] = ItemWord(ItemAt(p), k, 2 * lane_i)
      BY <1>2 DEF Words
    <2>2. ymm[8][p] = ItemWord(ItemAt(p), 0, 2 * lane_i)
      BY <2>1
    <2>3. ymm[8][p].item = ItemAt(p)
      BY <2>2 DEF ItemWord
    <2>. QED BY <2>1, <2>3 DEF Together
  <1>8. ASSUME NEW k \in 0 .. 7, NEW p \in P4
        PROVE  ymm'[8 + k][p] = ItemWord(ItemAt(p), k, 2 * lane_i + 1)
    <2>1. 8 + k \in 0 .. 15 /\ ~ (8 + k < 4) /\ ~ (8 + k < 8) /\ (8 + k) - 8 = k
      OBVIOUS
    <2>. QED BY Zenon, <1>2, <1>3, <1>7, <2>1
  <1>9. \A k \in 0 .. 7 : Words(k, 2 * lane_i + 1)'
    BY <1>1, <1>6, <1>8 DEF Words
  <1>10. Lines'
    <2>1. \A n : CacheLine(n)' = CacheLine(n)
      BY <1>1 DEF CacheLine, Untouched
    <2>. QED BY <1>1, <1>2, <1>6, <2>1 DEF Lines
  <1>11. WordsInv'
    BY <1>1, <1>2, <1>9, <1>10 DEF WordsInv
  <1>. QED BY <1>6, <1>11 DEF ItemsInv

(* Transposing four vectors: vector k gives word k of each row.            *)
Row0(v0, v1, v2, v3) == Vperm0x20(Vpunpcklqdq(v0, v1), Vpunpcklqdq(v2, v3))
Row1(v0, v1, v2, v3) == Vperm0x20(Vpunpckhqdq(v0, v1), Vpunpckhqdq(v2, v3))
Row2(v0, v1, v2, v3) == Vperm0x31(Vpunpcklqdq(v0, v1), Vpunpcklqdq(v2, v3))
Row3(v0, v1, v2, v3) == Vperm0x31(Vpunpckhqdq(v0, v1), Vpunpckhqdq(v2, v3))
Column(row, m, v0, v1, v2, v3) ==
    row[0] = v0[m] /\ row[1] = v1[m] /\ row[2] = v2[m] /\ row[3] = v3[m]

LEMMA RowWords ==
  \A v0, v1, v2, v3 : /\ Column(Row0(v0, v1, v2, v3), 0, v0, v1, v2, v3)
                      /\ Column(Row1(v0, v1, v2, v3), 1, v0, v1, v2, v3)
                      /\ Column(Row2(v0, v1, v2, v3), 2, v0, v1, v2, v3)
                      /\ Column(Row3(v0, v1, v2, v3), 3, v0, v1, v2, v3)
  <1> TAKE v0, v1, v2, v3
  <1>1. \A x, y : /\ Vpunpcklqdq(x, y)[0] = x[0] /\ Vpunpcklqdq(x, y)[1] = y[0]
                  /\ Vpunpcklqdq(x, y)[2] = x[2] /\ Vpunpcklqdq(x, y)[3] = y[2]
                  /\ Vpunpckhqdq(x, y)[0] = x[1] /\ Vpunpckhqdq(x, y)[1] = y[1]
                  /\ Vpunpckhqdq(x, y)[2] = x[3] /\ Vpunpckhqdq(x, y)[3] = y[3]
    BY DEF Vpunpcklqdq, Vpunpckhqdq, Lane_Positions
  <1>2. \A x, y : /\ Vperm0x20(x, y)[0] = x[0] /\ Vperm0x20(x, y)[1] = x[1]
                  /\ Vperm0x20(x, y)[2] = y[0] /\ Vperm0x20(x, y)[3] = y[1]
                  /\ Vperm0x31(x, y)[0] = x[2] /\ Vperm0x31(x, y)[1] = x[3]
                  /\ Vperm0x31(x, y)[2] = y[2] /\ Vperm0x31(x, y)[3] = y[3]
    BY DEF Vperm0x20, Vperm0x31, Lane_Positions
  <1>3. Column(Row0(v0, v1, v2, v3), 0, v0, v1, v2, v3)
    BY <1>1, <1>2 DEF Row0, Column
  <1>4. Column(Row1(v0, v1, v2, v3), 1, v0, v1, v2, v3)
    BY <1>1, <1>2 DEF Row1, Column
  <1>5. Column(Row2(v0, v1, v2, v3), 2, v0, v1, v2, v3)
    BY <1>1, <1>2 DEF Row2, Column
  <1>6. Column(Row3(v0, v1, v2, v3), 3, v0, v1, v2, v3)
    BY <1>1, <1>2 DEF Row3, Column
  <1>. QED BY <1>3, <1>4, <1>5, <1>6

(* The words 4h to 4h + 3 of item n after s steps.                         *)
LineOf(v, n, h, s) == \A p \in P4 : v[p] = ItemWord(n, 4 * h + p, s)

(* A row of item n, combined with its cache line.                          *)
LEMMA CombinedLine ==
  ASSUME NEW v, NEW n, NEW h, NEW pointer, lane_i \in Nat,
         LineOf(v, n, h, 2 * lane_i + 1), pointer = CacheLine(n)
  PROVE  LineOf(XorLine(v, pointer, h), n, h, 2 * lane_i + 2)
  <1>1. ASSUME NEW p \in P4 PROVE XorLine(v, pointer, h)[p] = ItemWord(n, 4 * h + p, 2 * lane_i + 2)
    <2>1. v[p] = ItemWord(n, 4 * h + p, 2 * lane_i + 1) /\ v[p].item = n
      BY DEF LineOf, ItemWord
    <2>2. XorLine(v, pointer, h)[p] = XorWord(v[p], pointer, 4 * h + p)
      BY DEF XorLine, P4, Lane_Positions
    <2>. QED BY Zenon, <2>1, <2>2 DEF XorWord
  <1>. QED BY <1>1 DEF LineOf

(* Vector k of a half has word 4h + k of every item.                       *)
ColumnsOf(v0, v1, v2, v3, h, s) ==
    \A p \in P4 :
       /\ v0[p] = ItemWord(ItemAt(p), 4 * h, s) /\ v1[p] = ItemWord(ItemAt(p), 4 * h + 1, s)
       /\ v2[p] = ItemWord(ItemAt(p), 4 * h + 2, s) /\ v3[p] = ItemWord(ItemAt(p), 4 * h + 3, s)
RowsOf(v0, v1, v2, v3, h, s) ==
    /\ LineOf(v0, ItemAt(0), h, s) /\ LineOf(v1, ItemAt(1), h, s)
    /\ LineOf(v2, ItemAt(2), h, s) /\ LineOf(v3, ItemAt(3), h, s)

LEMMA ColumnsToRows ==
  ASSUME NEW v0, NEW v1, NEW v2, NEW v3, NEW h \in 0 .. 1, NEW s, ColumnsOf(v0, v1, v2, v3, h, s)
  PROVE  RowsOf(Row0(v0, v1, v2, v3), Row1(v0, v1, v2, v3), Row2(v0, v1, v2, v3),
                Row3(v0, v1, v2, v3), h, s)
  <1>1. 4 * h + 0 = 4 * h
    OBVIOUS
  <1>2. ASSUME NEW m \in P4, NEW row, Column(row, m, v0, v1, v2, v3)
        PROVE  LineOf(row, ItemAt(m), h, s)
    BY <1>1, <1>2 DEF LineOf, Column, ColumnsOf, P4
  <1>3. 0 \in P4 /\ 1 \in P4 /\ 2 \in P4 /\ 3 \in P4
    BY DEF P4
  <1>. QED BY <1>2, <1>3, RowWords DEF RowsOf

LEMMA RowsToColumns ==
  ASSUME NEW v0, NEW v1, NEW v2, NEW v3, NEW h \in 0 .. 1, NEW s, RowsOf(v0, v1, v2, v3, h, s)
  PROVE  ColumnsOf(Row0(v0, v1, v2, v3), Row1(v0, v1, v2, v3), Row2(v0, v1, v2, v3),
                   Row3(v0, v1, v2, v3), h, s)
  <1>1. 4 * h + 0 = 4 * h
    OBVIOUS
  <1>2. ASSUME NEW m \in P4, NEW row, Column(row, m, v0, v1, v2, v3)
        PROVE  \A p \in P4 : row[p] = ItemWord(ItemAt(p), 4 * h + m, s)
    BY <1>2 DEF LineOf, Column, RowsOf, P4
  <1>3. 0 \in P4 /\ 1 \in P4 /\ 2 \in P4 /\ 3 \in P4
    BY DEF P4
  <1>4. /\ \A p \in P4 : Row0(v0, v1, v2, v3)[p] = ItemWord(ItemAt(p), 4 * h, s)
        /\ \A p \in P4 : Row1(v0, v1, v2, v3)[p] = ItemWord(ItemAt(p), 4 * h + 1, s)
        /\ \A p \in P4 : Row2(v0, v1, v2, v3)[p] = ItemWord(ItemAt(p), 4 * h + 2, s)
        /\ \A p \in P4 : Row3(v0, v1, v2, v3)[p] = ItemWord(ItemAt(p), 4 * h + 3, s)
    BY <1>1, <1>2, <1>3, RowWords
  <1>. QED BY <1>4 DEF ColumnsOf

LEMMA TransposeHalf ==
  ASSUME NEW h \in 0 .. 1, Transpose(h), Lines, lane_i \in Nat,
         ColumnsOf(ymm[8 + 4 * h], ymm[8 + 4 * h + 1], ymm[8 + 4 * h + 2], ymm[8 + 4 * h + 3], h,
                   2 * lane_i + 1)
  PROVE  /\ ymm' = [m \in 0 .. 15 |-> ymm'[m]]
         /\ \A m \in 6 .. 15 : m \notin 8 + 4 * h .. 8 + 4 * h + 3 => ymm'[m] = ymm[m]
         /\ IF lane_i = Programs - 1
            THEN RowsOf(ymm'[8 + 4 * h], ymm'[8 + 4 * h + 1], ymm'[8 + 4 * h + 2],
                        ymm'[8 + 4 * h + 3], h, 2 * lane_i + 2)
            ELSE ColumnsOf(ymm'[8 + 4 * h], ymm'[8 + 4 * h + 1], ymm'[8 + 4 * h + 2],
                           ymm'[8 + 4 * h + 3], h, 2 * lane_i + 2)
  <1> DEFINE n == 8 + 4 * h
             v0 == ymm[n]   v1 == ymm[n + 1]   v2 == ymm[n + 2]   v3 == ymm[n + 3]
             a == XorLine(Row0(v0, v1, v2, v3), rsi, h)   b == XorLine(Row1(v0, v1, v2, v3), r14, h)
             c == XorLine(Row2(v0, v1, v2, v3), rdi, h)   d == XorLine(Row3(v0, v1, v2, v3), r15, h)
             result == IF lane_i = Programs - 1 THEN <<a, b, c, d>>
                       ELSE <<Row0(a, b, c, d), Row1(a, b, c, d), Row2(a, b, c, d), Row3(a, b, c, d)>>
  <1>1. ymm' = [m \in 0 .. 15 |-> IF m < 6 THEN All(Token("junk"))
                                  ELSE IF m \in n .. n + 3 THEN result[m - n + 1] ELSE ymm[m]]
    BY Zenon, SMT DEF Transpose, Row0, Row1, Row2, Row3
  <1>2. RowsOf(Row0(v0, v1, v2, v3), Row1(v0, v1, v2, v3), Row2(v0, v1, v2, v3),
               Row3(v0, v1, v2, v3), h, 2 * lane_i + 1)
    BY Zenon, ColumnsToRows
  <1>3. RowsOf(a, b, c, d, h, 2 * lane_i + 2)
    BY <1>2, CombinedLine DEF RowsOf, Lines
  <1>4. lane_i # Programs - 1 =>
          ColumnsOf(Row0(a, b, c, d), Row1(a, b, c, d), Row2(a, b, c, d), Row3(a, b, c, d), h,
                    2 * lane_i + 2)
    BY Zenon, <1>3, RowsToColumns
  <1>5. n \in Int /\ n >= 8 /\ n + 3 <= 15 /\ n = 8 + 4 * h
    OBVIOUS
  <1> HIDE DEF n, result
  <1>6. /\ ymm'[n] = result[1] /\ ymm'[n + 1] = result[2] /\ ymm'[n + 2] = result[3]
        /\ ymm'[n + 3] = result[4]
    <2>1. \A j \in 0 .. 3 : ymm'[n + j] = result[j + 1]
      <3> TAKE j \in 0 .. 3
      <3>1. n + j \in 0 .. 15 /\ ~ (n + j < 6) /\ n + j \in n .. n + 3
        BY <1>5
      <3>2. (n + j) - n + 1 = j + 1
        BY <1>5
      <3>. QED BY <1>1, <3>1, <3>2
    <2>. QED BY <2>1, <1>5
  <1>7. /\ ymm' = [m \in 0 .. 15 |-> ymm'[m]]
        /\ \A m \in 6 .. 15 : m \notin n .. n + 3 => ymm'[m] = ymm[m]
    BY <1>1, <1>5
  <1> HIDE DEF a, b, c, d
  <1>8. CASE lane_i = Programs - 1
    <2>1. result[1] = a /\ result[2] = b /\ result[3] = c /\ result[4] = d
      BY <1>8 DEF result
    <2>. QED BY <1>3, <1>5, <1>6, <1>7, <1>8, <2>1
  <1>9. CASE lane_i # Programs - 1
    <2>1. /\ result[1] = Row0(a, b, c, d) /\ result[2] = Row1(a, b, c, d)
          /\ result[3] = Row2(a, b, c, d) /\ result[4] = Row3(a, b, c, d)
      BY <1>9 DEF result
    <2>. QED BY <1>4, <1>5, <1>6, <1>7, <1>9, <2>1
  <1>. QED BY <1>8, <1>9

(* The same of the registers of a vector y.                                *)
WordsIn(y, k, s) == \A p \in P4 : y[8 + k][p] = ItemWord(ItemAt(p), k, s)
RowsIn(y, h, m, s) == \A p \in P4 : y[8 + 4 * h + m][p] = ItemWord(ItemAt(m), 4 * h + p, s)

LEMMA ColumnsOfWords ==
  \A y, s : \A h \in 0 .. 1 :
     ColumnsOf(y[8 + 4 * h], y[8 + 4 * h + 1], y[8 + 4 * h + 2], y[8 + 4 * h + 3], h, s)
       <=> \A k \in P4 : WordsIn(y, 4 * h + k, s)
  <1> TAKE y, s
  <1> TAKE h \in 0 .. 1
  <1>1. /\ 8 + (4 * h + 0) = 8 + 4 * h /\ 8 + (4 * h + 1) = 8 + 4 * h + 1
        /\ 8 + (4 * h + 2) = 8 + 4 * h + 2 /\ 8 + (4 * h + 3) = 8 + 4 * h + 3
        /\ 4 * h + 0 = 4 * h
    OBVIOUS
  <1>3. (\A k \in P4 : WordsIn(y, 4 * h + k, s))
          <=> WordsIn(y, 4 * h + 0, s) /\ WordsIn(y, 4 * h + 1, s) /\ WordsIn(y, 4 * h + 2, s)
              /\ WordsIn(y, 4 * h + 3, s)
    BY DEF P4
  <1>. QED BY <1>1, <1>3 DEF ColumnsOf, WordsIn

LEMMA RowsOfWords ==
  \A y, s : \A h \in 0 .. 1 :
     RowsOf(y[8 + 4 * h], y[8 + 4 * h + 1], y[8 + 4 * h + 2], y[8 + 4 * h + 3], h, s)
       => \A m \in P4 : RowsIn(y, h, m, s)
  <1> TAKE y, s
  <1> TAKE h \in 0 .. 1
  <1>1. 8 + 4 * h + 0 = 8 + 4 * h
    OBVIOUS
  <1>. QED BY <1>1 DEF RowsOf, RowsIn, LineOf, P4

(* A transposition within the steps of a round.                            *)
LEMMA HalfItems ==
  ASSUME ItemsInv, NEW h \in 0 .. 1, Transpose(h), Untouched, lane_pc \in {"low_half", "high_half"},
         lane_pc' \in Round, \A k \in P4 : Words(4 * h + k, 2 * lane_i + 1)
  PROVE  /\ JobInv' /\ OutputInv' /\ RoundInv' /\ \A n : ItemAt(n)' = ItemAt(n)
         /\ \A m \in 6 .. 15 : m \notin 8 + 4 * h .. 8 + 4 * h + 3 => ymm'[m] = ymm[m]
         /\ IF lane_i = Programs - 1 THEN \A m \in P4 : RowsIn(ymm', h, m, 2 * Programs)
            ELSE \A k \in P4 : WordsIn(ymm', 4 * h + k, 2 * lane_i + 2)
  <1>1. lane_i \in 0 .. Programs - 1 /\ Programs \in Nat /\ Lines
    BY DatasetProgramAssumption DEF ItemsInv, WordsInv
  <1>2. PICK y : y = ymm'
    OBVIOUS
  <1>3. \A k \in P4 : WordsIn(ymm, 4 * h + k, 2 * lane_i + 1)
    BY DEF Words, WordsIn
  <1>4. ColumnsOf(ymm[8 + 4 * h], ymm[8 + 4 * h + 1], ymm[8 + 4 * h + 2], ymm[8 + 4 * h + 3], h,
                  2 * lane_i + 1)
    BY Zenon, <1>3, ColumnsOfWords
  <1>5. /\ y = [m \in 0 .. 15 |-> y[m]]
        /\ \A m \in 6 .. 15 : m \notin 8 + 4 * h .. 8 + 4 * h + 3 => y[m] = ymm[m]
        /\ IF lane_i = Programs - 1
           THEN RowsOf(y[8 + 4 * h], y[8 + 4 * h + 1], y[8 + 4 * h + 2], y[8 + 4 * h + 3], h,
                       2 * lane_i + 2)
           ELSE ColumnsOf(y[8 + 4 * h], y[8 + 4 * h + 1], y[8 + 4 * h + 2], y[8 + 4 * h + 3], h,
                          2 * lane_i + 2)
    <2>1. lane_i \in Nat
      BY <1>1
    <2>. QED BY <1>1, <1>2, <1>4, <2>1, TransposeHalf
  <1>6. y[6] = ymm[6] /\ y[7] = ymm[7]
    BY <1>5
  <1>7. JobInv' /\ OutputInv' /\ RoundInv' /\ \A n : ItemAt(n)' = ItemAt(n)
    <2>1. lane_pc \in Round
      BY DEF Round
    <2>. QED BY <1>2, <1>5, <1>6, <2>1, RoundStep
  <1>8. lane_i = Programs - 1 => 2 * lane_i + 2 = 2 * Programs
    BY <1>1
  <1>9. IF lane_i = Programs - 1 THEN \A m \in P4 : RowsIn(y, h, m, 2 * Programs)
        ELSE \A k \in P4 : WordsIn(y, 4 * h + k, 2 * lane_i + 2)
    <2>1. CASE lane_i = Programs - 1
      <3>1. \A m \in P4 : RowsIn(y, h, m, 2 * lane_i + 2)
        BY Zenon, <1>5, <2>1, RowsOfWords
      <3>. QED BY <1>8, <2>1, <3>1
    <2>2. CASE lane_i # Programs - 1
      BY Zenon, <1>5, <2>2, ColumnsOfWords
    <2>. QED BY <2>1, <2>2
  <1>. QED BY <1>2, <1>5, <1>7, <1>9

LEMMA LowItems == ASSUME ItemsInv, TransposeLow PROVE ItemsInv'
  <1>1. /\ lane_pc = "low_half" /\ lane_pc' = "high_half" /\ lane_i' = lane_i /\ Untouched
        /\ rsi' = rsi /\ r14' = r14 /\ rdi' = rdi /\ r15' = r15 /\ Transpose(0)
    BY Zenon DEF TransposeLow, Untouched, pointerVars, stackVars, outputVars
  <1>2. lane_i \in 0 .. Programs - 1 /\ Lines /\ \A k \in 0 .. 7 : Words(k, 2 * lane_i + 1)
    BY <1>1 DEF ItemsInv, WordsInv
  <1>3. \A k \in P4 : 4 * 0 + k = k /\ k \in 0 .. 7
    BY DEF P4
  <1>4. \A k \in P4 : Words(4 * 0 + k, 2 * lane_i + 1)
    BY <1>2, <1>3
  <1>5. /\ JobInv' /\ OutputInv' /\ RoundInv' /\ \A n : ItemAt(n)' = ItemAt(n)
        /\ \A m \in 6 .. 15 : m \notin 8 + 4 * 0 .. 8 + 4 * 0 + 3 => ymm'[m] = ymm[m]
        /\ IF lane_i = Programs - 1 THEN \A m \in P4 : RowsIn(ymm', 0, m, 2 * Programs)
           ELSE \A k \in P4 : WordsIn(ymm', 4 * 0 + k, 2 * lane_i + 2)
    <2>1. lane_pc \in {"low_half", "high_half"} /\ lane_pc' \in Round /\ 0 \in 0 .. 1
      BY <1>1 DEF Round
    <2>. QED BY Zenon, <1>1, <1>4, <2>1, HalfItems
  <1>6. \A k \in 4 .. 7 : Words(k, 2 * lane_i + 1)'
    <2>1. \A k \in 4 .. 7 : ymm'[8 + k] = ymm[8 + k]
      BY <1>5
    <2>2. \A k \in 4 .. 7 : k \in 0 .. 7
      OBVIOUS
    <2>. QED BY <1>1, <1>2, <1>5, <2>1, <2>2 DEF Words
  <1>7. IF lane_i = Programs - 1 THEN \A m \in P4 : RowsOfItem(0, m)'
        ELSE \A k \in P4 : Words(k, 2 * lane_i + 2)'
    BY <1>1, <1>3, <1>5 DEF RowsIn, RowsOfItem, WordsIn, Words
  <1>8. Lines'
    <2>1. \A n : CacheLine(n)' = CacheLine(n)
      BY <1>1 DEF CacheLine, Untouched
    <2>. QED BY <1>1, <1>2, <1>5, <2>1 DEF Lines
  <1>9. WordsInv'
    BY <1>1, <1>2, <1>6, <1>7, <1>8 DEF WordsInv
  <1>. QED BY <1>5, <1>9 DEF ItemsInv

LEMMA HighItems == ASSUME ItemsInv, TransposeHigh PROVE ItemsInv'
  <1>1. /\ lane_pc = "high_half" /\ lane_pc' = (IF lane_i = Programs - 1 THEN "store" ELSE "fetch")
        /\ lane_i' = lane_i + 1 /\ Untouched /\ Transpose(1)
    BY Zenon DEF TransposeHigh, Untouched, stackVars, outputVars
  <1>2. /\ lane_i \in 0 .. Programs - 1 /\ Programs \in Nat
        /\ \A k \in 4 .. 7 : Words(k, 2 * lane_i + 1)
        /\ IF lane_i = Programs - 1 THEN \A m \in P4 : RowsOfItem(0, m)
           ELSE \A k \in P4 : Words(k, 2 * lane_i + 2)
    BY <1>1, DatasetProgramAssumption DEF ItemsInv, WordsInv
  <1>3. \A k \in P4 : Words(4 * 1 + k, 2 * lane_i + 1)
    <2>1. \A k \in P4 : 4 * 1 + k \in 4 .. 7
      BY DEF P4
    <2>. QED BY <1>2, <2>1
  <1>4. /\ JobInv' /\ OutputInv' /\ RoundInv' /\ \A n : ItemAt(n)' = ItemAt(n)
        /\ \A m \in 6 .. 15 : m \notin 8 + 4 * 1 .. 8 + 4 * 1 + 3 => ymm'[m] = ymm[m]
        /\ IF lane_i = Programs - 1 THEN \A m \in P4 : RowsIn(ymm', 1, m, 2 * Programs)
           ELSE \A k \in P4 : WordsIn(ymm', 4 * 1 + k, 2 * lane_i + 2)
    <2>1. lane_pc \in {"low_half", "high_half"} /\ lane_pc' \in Round /\ 1 \in 0 .. 1
      BY <1>1 DEF Round
    <2>. QED BY Zenon, <1>1, <1>3, <2>1, HalfItems
  <1>5. \A m \in P4 : ymm'[8 + m] = ymm[8 + m] /\ ymm'[8 + 4 * 0 + m] = ymm[8 + 4 * 0 + m]
    BY <1>4 DEF P4
  <1>6. CASE lane_i = Programs - 1
    <2>1. \A m \in P4 : RowsOfItem(0, m)'
      BY <1>2, <1>4, <1>5, <1>6 DEF RowsOfItem
    <2>2. \A m \in P4 : RowsOfItem(1, m)'
      BY <1>4, <1>6 DEF RowsIn, RowsOfItem
    <2>3. \A h \in 0 .. 1, m \in P4 : RowsOfItem(h, m)'
      BY <2>1, <2>2
    <2>4. WordsInv'
      BY <1>1, <1>6, <2>3 DEF WordsInv
    <2>. QED BY <1>4, <2>4 DEF ItemsInv
  <1>7. CASE lane_i # Programs - 1
    <2>1. \A k \in P4 : WordsIn(ymm', k, 2 * lane_i + 2)
      BY <1>2, <1>4, <1>5, <1>7 DEF Words, WordsIn
    <2>2. \A k \in 0 .. 7 : WordsIn(ymm', k, 2 * lane_i + 2)
      <3>1. \A k \in 4 .. 7 : k - 4 \in P4 /\ 4 * 1 + (k - 4) = k
        BY DEF P4
      <3>2. \A k \in 4 .. 7 : WordsIn(ymm', k, 2 * lane_i + 2)
        BY <1>4, <1>7, <3>1
      <3>3. \A k \in 0 .. 7 : k \in P4 \/ k \in 4 .. 7
        BY DEF P4
      <3>. QED BY <2>1, <3>2, <3>3
    <2>3. 2 * lane_i' = 2 * lane_i + 2 /\ lane_i' \in 0 .. Programs - 1 /\ lane_i' # 0
      BY <1>1, <1>2, <1>7
    <2>4. \A k \in 0 .. 7 : Words(k, 2 * lane_i)'
      BY <1>4, <2>2, <2>3 DEF Words, WordsIn
    <2>5. WordsInv'
      BY <1>1, <1>7, <2>3, <2>4 DEF WordsInv
    <2>. QED BY <1>4, <2>5 DEF ItemsInv
  <1>. QED BY <1>6, <1>7

(* The register stored for half h of the m-th item.                        *)
LEMMA StoreOrder == \A m \in P4, h \in 0 .. 1 : Store_Order[2 * m + h + 1] = 8 + 4 * h + m
  <1>1. /\ Store_Order[1] = 8 /\ Store_Order[2] = 12 /\ Store_Order[3] = 9 /\ Store_Order[4] = 13
        /\ Store_Order[5] = 10 /\ Store_Order[6] = 14 /\ Store_Order[7] = 11 /\ Store_Order[8] = 15
    BY DEF Store_Order
  <1>. QED BY <1>1 DEF P4

LEMMA StoredOutput ==
  ASSUME ItemsInv, StoreItems
  PROVE  /\ DOMAIN submemory' = 0 .. 2 * job.count - 1
         /\ \A n \in 0 .. r10 + 3, k \in 0 .. 7 :
               submemory'[2 * n + k \div 4][k % 4] = ItemWord(job.start + n, k, 2 * Programs)
  <1> DEFINE f == [v \in 2 * r10 .. 2 * r10 + 7 |-> ymm[Store_Order[v - 2 * r10 + 1]]]
  <1>1. lane_pc = "store" /\ submemory' = Over(f, submemory)
    BY Zenon DEF StoreItems
  <1>2. /\ r10 \in Nat /\ r13 \in Nat /\ r13 >= 1 /\ r10 + 4 * r13 = job.count
        /\ DOMAIN submemory = 0 .. 2 * job.count - 1
        /\ \A n \in 0 .. r10 - 1, k \in 0 .. 7 :
              submemory[2 * n + k \div 4][k % 4] = ItemWord(job.start + n, k, 2 * Programs)
        /\ job.start \in Nat /\ job.count \in Nat
    BY <1>1 DEF ItemsInv, JobInv, OutputInv, Round
  <1>3. \A h \in 0 .. 1, m \in P4 : RowsOfItem(h, m)
    BY <1>1 DEF ItemsInv, WordsInv
  <1>4. /\ DOMAIN f = 2 * r10 .. 2 * r10 + 7
        /\ \A v \in DOMAIN f : f[v] = ymm[Store_Order[v - 2 * r10 + 1]]
    OBVIOUS
  <1> HIDE DEF f
  <1>5. /\ DOMAIN submemory' = DOMAIN f \union DOMAIN submemory
        /\ \A v \in DOMAIN f : submemory'[v] = f[v]
        /\ \A v \in DOMAIN submemory : v \notin DOMAIN f => submemory'[v] = submemory[v]
    BY <1>1 DEF Over
  <1>6. DOMAIN submemory' = 0 .. 2 * job.count - 1
    <2>1. \A v \in 2 * r10 .. 2 * r10 + 7 : v \in 0 .. 2 * job.count - 1
      BY <1>2
    <2>. QED BY <1>2, <1>4, <1>5, <2>1
  <1>7. ASSUME NEW n \in 0 .. r10 + 3, NEW k \in 0 .. 7
        PROVE  submemory'[2 * n + k \div 4][k % 4] = ItemWord(job.start + n, k, 2 * Programs)
    <2>1. PICK h \in 0 .. 1, w \in P4 : h = k \div 4 /\ w = k % 4 /\ k = 4 * h + w
      BY DEF P4
    <2>2. CASE n < r10
      <3>1. n \in 0 .. r10 - 1
        BY <1>2, <2>2
      <3>2. 2 * n + h \in DOMAIN submemory /\ 2 * n + h \notin DOMAIN f
        BY <1>2, <1>4, <3>1
      <3>3. submemory[2 * n + h][w] = ItemWord(job.start + n, k, 2 * Programs)
        BY <1>2, <2>1, <3>1
      <3>. QED BY <1>5, <2>1, <3>2, <3>3
    <2>3. CASE ~ (n < r10)
      <3>1. PICK m \in P4 : n = r10 + m
        <4>1. n - r10 \in P4 /\ n = r10 + (n - r10)
          BY <1>2, <2>3 DEF P4
        <4>. QED BY <4>1
      <3>2. 2 * n + h \in DOMAIN f /\ job.start + n = ItemAt(m)
        <4>1. r10 \in Nat /\ job.start \in Nat
          BY <1>2
        <4>2. job.start + n = ItemAt(m)
          BY <3>1, <4>1 DEF P4, ItemAt
        <4>3. (2 * n + h) \in 2 * r10 .. 2 * r10 + 7
          BY <3>1, <4>1 DEF P4
        <4>. QED BY <1>4, <4>2, <4>3
      <3>3. (2 * n + h) - 2 * r10 + 1 = 2 * m + h + 1
        BY <1>2, <3>1 DEF P4
      <3>4. f[2 * n + h] = ymm[8 + 4 * h + m]
        BY <1>4, <3>2, <3>3, StoreOrder
      <3>5. ymm[8 + 4 * h + m][w] = ItemWord(ItemAt(m), 4 * h + w, 2 * Programs)
        BY <1>3 DEF RowsOfItem
      <3>. QED BY <1>5, <2>1, <3>2, <3>4, <3>5
    <2>. QED BY <2>2, <2>3
  <1>. QED BY <1>6, <1>7

LEMMA StoreLocals ==
  ASSUME ItemsInv, StoreItems
  PROVE  /\ \A p \in P4 : /\ HasAt(stack', rsp + 8 * p, Number(ItemAt(p) + 4))
                          /\ HasAt(stack', rsp + 32 + 8 * p, Token("cache_mask"))
                          /\ HasAt(stack', rsp + 64 + 8 * p, Number(4))
                          /\ HasAt(stack', rsp + 96 + 8 * p, Number(4))
         /\ \A p \in P4 : /\ ymm'[3][p] = Number(ItemAt(p) + 4)
                          /\ ymm'[6][p] = Token("cache")
                          /\ ymm'[7][p] = Number(ItemAt(p) + 1 + 4)
         /\ ymm' = [n \in 0 .. 15 |-> ymm'[n]]
  <1> DEFINE next == NextIndexes
             plus == AddVectors(ymm[7], StackVector(64))
  <1>1. /\ lane_pc = "store" /\ stack' = Over(Stored(0, next), stack)
        /\ ymm' = [ymm EXCEPT ![7] = plus, ![3] = next]
    BY Zenon DEF StoreItems
  <1>2. /\ rsp \in Int /\ Locals /\ ymm = [n \in 0 .. 15 |-> ymm[n]]
        /\ \A p \in P4 : ymm[6][p] = Token("cache") /\ ymm[7][p] = Number(ItemAt(p) + 1)
    BY <1>1 DEF ItemsInv, JobInv, RoundInv, Round
  <1>3. \A p \in P4 : ItemAt(p) \in Int
    <2>1. job.start \in Nat /\ r10 \in Nat
      BY DEF ItemsInv, JobInv, OutputInv
    <2>. QED BY <2>1 DEF ItemAt, P4
  <1>4. \A p \in P4 : /\ StackVector(0)[p] = Number(ItemAt(p)) /\ StackVector(64)[p] = Number(4)
                      /\ StackVector(96)[p] = Number(4)
    <2>1. \A p \in P4 : rsp + 0 + 8 * p = rsp + 8 * p
      BY <1>2 DEF P4
    <2>. QED BY <1>2, <2>1 DEF Locals, HasAt, StackVector, Lane_Positions, P4
  <1>5. \A a, b : AddWord(Number(a), Number(b)) = Number(a + b)
    BY DEF AddWord, Number
  <1>6. \A v, w : \A p \in P4 : AddVectors(v, w)[p] = AddWord(v[p], w[p])
    BY DEF AddVectors, Lane_Positions, P4
  <1>7. \A p \in P4 : next[p] = Number(ItemAt(p) + 4) /\ plus[p] = Number(ItemAt(p) + 1 + 4)
    <2>1. \A p \in P4 : next[p] = AddWord(StackVector(0)[p], StackVector(96)[p])
      BY Zenon, <1>6 DEF NextIndexes
    <2>2. \A p \in P4 : plus[p] = AddWord(ymm[7][p], StackVector(64)[p])
      BY Zenon, <1>6
    <2>3. \A p \in P4 : (ItemAt(p) + 1) + 4 = ItemAt(p) + 1 + 4
      BY <1>3
    <2>4. \A p \in P4 : next[p] = Number(ItemAt(p) + 4)
      BY Zenon, <1>4, <1>5, <2>1
    <2>5. \A p \in P4 : plus[p] = Number((ItemAt(p) + 1) + 4)
      <3>1. \A p \in P4 : ymm[7][p] = Number(ItemAt(p) + 1) /\ StackVector(64)[p] = Number(4)
        BY <1>2, <1>4
      <3> HIDE DEF plus
      <3>. QED BY ZenonT(60), <1>5, <2>2, <3>1
    <2>. QED BY <2>3, <2>4, <2>5
  <1> HIDE DEF next, plus
  <1>8. \A p \in P4 : /\ HasAt(stack', rsp + 0 + 8 * p, next[p])
                      /\ HasAt(stack', rsp + 32 + 8 * p, Token("cache_mask"))
                      /\ HasAt(stack', rsp + 64 + 8 * p, Number(4))
                      /\ HasAt(stack', rsp + 96 + 8 * p, Number(4))
    <2>1. \A p \in P4 : HasAt(Over(Stored(0, next), stack), rsp + 0 + 8 * p, next[p])
      BY <1>2, StoredVector
    <2>2. \A p \in P4 : /\ HasAt(stack, rsp + 32 + 8 * p, Token("cache_mask"))
                        /\ HasAt(stack, rsp + 64 + 8 * p, Number(4))
                        /\ HasAt(stack, rsp + 96 + 8 * p, Number(4))
      BY <1>2 DEF Locals
    <2>3. PICK s : s = stack
      OBVIOUS
    <2>4. PICK new : new = Over(Stored(0, next), s)
      OBVIOUS
    <2>5. \A p \in P4 : /\ HasAt(new, rsp + 32 + 8 * p, Token("cache_mask"))
                        /\ HasAt(new, rsp + 64 + 8 * p, Number(4))
                        /\ HasAt(new, rsp + 96 + 8 * p, Number(4))
      <3>1. /\ rsp \in Int /\ 0 \in {0, 32, 64, 96}
            /\ 32 \in {0, 32, 64, 96} \ {0} /\ 64 \in {0, 32, 64, 96} \ {0}
            /\ 96 \in {0, 32, 64, 96} \ {0}
        BY <1>2
      <3>2. \A other \in {0, 32, 64, 96} \ {0}, p \in P4 : \A word :
               HasAt(s, rsp + other + 8 * p, word) => HasAt(new, rsp + other + 8 * p, word)
        BY Zenon, <2>4, <3>1, StoredVector
      <3>. QED BY Zenon, <2>2, <2>3, <3>1, <3>2
    <2>. QED BY <1>1, <2>1, <2>3, <2>4, <2>5
  <1>9. \A p \in P4 : rsp + 0 + 8 * p = rsp + 8 * p
    BY <1>2 DEF P4
  <1>10. /\ ymm'[3] = next /\ ymm'[6] = ymm[6] /\ ymm'[7] = plus
         /\ ymm' = [n \in 0 .. 15 |-> ymm'[n]]
    <2>1. PICK y : y = ymm
      OBVIOUS
    <2>2. PICK new : new = ymm'
      OBVIOUS
    <2>3. y = [n \in 0 .. 15 |-> y[n]] /\ new = [y EXCEPT ![7] = plus, ![3] = next]
      BY <1>1, <1>2, <2>1, <2>2
    <2>4. /\ DOMAIN y = 0 .. 15 /\ DOMAIN new = DOMAIN y
          /\ new = [n \in DOMAIN new |-> new[n]]
      BY <2>3
    <2>5. new[3] = next /\ new[6] = y[6] /\ new[7] = plus
      BY <2>3, <2>4
    <2>. QED BY <2>1, <2>2, <2>4, <2>5
  <1>. QED BY <1>2, <1>7, <1>8, <1>9, <1>10

LEMMA StoreItemsItems == ASSUME ItemsInv, StoreItems PROVE ItemsInv'
  <1>1. /\ lane_pc = "store" /\ job' = job /\ address_register' = address_register /\ rsp' = rsp
        /\ r10' = r10 + 4 /\ r13' = r13 - 1
        /\ lane_pc' = (IF r13 = 1 THEN "return" ELSE "load_item")
    BY Zenon DEF StoreItems
  <1>2. /\ r10 \in Nat /\ r13 \in Nat /\ r13 >= 1 /\ r10 + 4 * r13 = job.count
        /\ job \in Jobs /\ job.start \in Nat /\ job.count \in Nat
    BY <1>1 DEF ItemsInv, JobInv, OutputInv, Round
  <1>3. \A p \in P4 : ItemAt(p)' = ItemAt(p) + 4 /\ ItemAt(p)' + 1 = ItemAt(p) + 1 + 4
    BY <1>1, <1>2 DEF ItemAt, P4
  <1>4. JobInv'
    BY <1>1, StoreLocals DEF ItemsInv, JobInv, LaneSteps
  <1>5. OutputInv'
    <2>1. r10' - 1 = r10 + 3 /\ r10' \in Nat /\ r13' \in Nat
      BY <1>1, <1>2
    <2>2. /\ DOMAIN submemory' = 0 .. 2 * job'.count - 1
          /\ \A n \in 0 .. r10' - 1, k \in 0 .. 7 :
                submemory'[2 * n + k \div 4][k % 4] = ItemWord(job'.start + n, k, 2 * Programs)
      BY Zenon, <1>1, <2>1, StoredOutput
    <2>3. lane_pc' \in Round => r13' >= 1 /\ r10' + 4 * r13' = job'.count
      BY <1>1, <1>2 DEF Round
    <2>4. lane_pc' \in {"return", "returned"} => r10' = job'.count
      BY <1>1, <1>2
    <2>5. lane_pc' \notin {"save", "align", "set_up"}
      BY <1>1
    <2>. QED BY <2>1, <2>2, <2>3, <2>4, <2>5 DEF OutputInv
  <1>6. RoundInv'
    <2>1. Locals'
      BY <1>1, <1>3, StoreLocals DEF Locals, HasAt
    <2>. QED BY <1>3, <2>1, StoreLocals DEF RoundInv
  <1>7. WordsInv'
    BY <1>1, <1>3, StoreLocals DEF WordsInv
  <1>. QED BY <1>4, <1>5, <1>6, <1>7 DEF ItemsInv

LEMMA ReturnItems == ASSUME ItemsInv, Return PROVE ItemsInv'
  <1>1. /\ lane_pc = "return" /\ lane_pc' = "returned" /\ job' = job
        /\ address_register' = address_register /\ ymm' = ymm /\ r10' = r10 /\ r13' = r13
        /\ submemory' = submemory
    BY Zenon DEF Return, outputVars
  <1>2. OutputInv'
    BY <1>1 DEF ItemsInv, OutputInv, Round
  <1>3. RoundInv' /\ WordsInv'
    BY <1>1 DEF RoundInv, WordsInv, Round
  <1>4. JobInv'
    BY <1>1 DEF ItemsInv, JobInv, LaneSteps
  <1>. QED BY <1>2, <1>3, <1>4 DEF ItemsInv

(* For any number of programs, any address registers, jobs and RSP, each   *)
(* item that has been stored has its own words in order, and a job's code  *)
(* returns with all of its items stored and nothing else written: a lane   *)
(* keeps the words of one item through the transpositions, and the cache   *)
(* line it is combined with is that of the same item.                      *)
THEOREM LaneItemsInPlace == LaneSpec => []ItemsInPlace
  <1>1. ItemsInv /\ [LaneNext]_laneVars => ItemsInv'
    <2> SUFFICES ASSUME ItemsInv, [LaneNext]_laneVars PROVE ItemsInv'
      OBVIOUS
    <2>1. CASE UNCHANGED laneVars
      <3>1. /\ Untouched /\ lane_pc' = lane_pc /\ lane_i' = lane_i /\ ymm' = ymm
            /\ rsi' = rsi /\ rdi' = rdi /\ r14' = r14 /\ r15' = r15
        BY <2>1 DEF laneVars, Untouched
      <3>2. (\A n : ItemAt(n)' = ItemAt(n)) /\ \A n : CacheLine(n)' = CacheLine(n)
        BY <3>1 DEF ItemAt, CacheLine, Untouched
      <3>3. JobInv' /\ OutputInv'
        BY <3>1 DEF ItemsInv, JobInv, OutputInv, Untouched
      <3>4. RoundInv'
        BY <3>1, <3>2 DEF ItemsInv, RoundInv, Locals, HasAt, Untouched
      <3>5. WordsInv'
        BY Zenon, <3>1, <3>2 DEF ItemsInv, WordsInv, Words, RowsOfItem, Lines
      <3>. QED BY <3>3, <3>4, <3>5 DEF ItemsInv
    <2>. QED BY Zenon, <2>1, EarlyItems, SetUpItems, LoadItemItems, FetchItems, RunItems, LowItems,
                HighItems, StoreItemsItems, ReturnItems DEF LaneNext
  <1>2. ItemsInv => ItemsInPlace
    BY DEF ItemsInv, OutputInv, ItemsInPlace
  <1>. QED BY <1>1, <1>2, ItemsInitInv, PTL DEF LaneSpec
=============================================================================
