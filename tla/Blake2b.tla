-------------------------------- MODULE Blake2b --------------------------------
(***************************************************************************)
(* blake2b.cpp: how an input reaches the compression function.             *)
(*                                                                         *)
(* update() copies its input into the context's block and compresses       *)
(* nothing; hash() and the callers in argon2d.cpp compress where they know *)
(* that the block is full, or that the input has ended.  The bytes of the  *)
(* input are numbered from 1; 0 is a byte that is zero.                    *)
(***************************************************************************)
EXTENDS Integers, Sequences

CONSTANTS
    Block_Size,
    Sizes,          \* sizes of the inputs hash() is called with
    Key_Sizes       \* sizes of the passwords argon2d's initialize() is called with

(* hash() is called with inputs of up to a block, and with a register file *)
(* of two; what argon2d hashes fits into one (static_asserts in blake2b.cpp *)
(* and argon2d.cpp).                                                       *)
ASSUME Blake2bAssumption ==
    /\ Block_Size \in Nat /\ 64 + 8 + 4 <= Block_Size
    /\ Sizes \subseteq 1 .. Block_Size \union {2 * Block_Size}
    /\ Key_Sizes \subseteq Nat \ {0} /\ \A p \in Key_Sizes : p + 8 + 40 <= Block_Size

VARIABLES
    todo,        \* the calls that are left of the caller's code
    block,       \* ctx.block
    counter,     \* ctx.counter
    zeros,       \* the bytes of the input that update<true> only counts
    compressed   \* what the compression function was given

blake2bVars == <<todo, block, counter, zeros, compressed>>

-----------------------------------------------------------------------------
Positions == 1 .. Block_Size
Update(size) == [call |-> "update", size |-> size]
UpdateEmpty(size) == [call |-> "update<true>", size |-> size]
Compress == [call |-> "compress", size |-> 0]
Final == [call |-> "final", size |-> 0]

(* hash(); variant: an input of exactly one block is taken for a longer one. *)
HashCallsEarly(size) ==
    IF size < Block_Size THEN <<Update(size), Final>>
    ELSE <<Update(Block_Size), Compress, Update(size - Block_Size), Final>>
HashCalls(size) ==
    IF size <= Block_Size THEN <<Update(size), Final>>
    ELSE <<Update(Block_Size), Compress, Update(size - Block_Size), Final>>

(* initialize() of argon2d.cpp with RandomX's parameters: no tag, type 0,  *)
(* a salt of 8 bytes, neither secret nor data.                             *)
InitializeCalls(password) ==
    <<Update(4), UpdateEmpty(4), Update(4), Update(4), Update(4), UpdateEmpty(4),
      Update(4), Update(password), Update(4), Update(8), UpdateEmpty(4), UpdateEmpty(4),
      Final>>

(* blake2b::hash() of argon2d.cpp, the first digest. *)
LongHashCalls == <<Update(4), Update(72), Final>>

Blake2bInit ==
    /\ todo \in {HashCalls(s) : s \in Sizes} \union {InitializeCalls(p) : p \in Key_Sizes}
                  \union {LongHashCalls}
    /\ block = [i \in Positions |-> 0]
    /\ counter = 0
    /\ zeros = {}
    /\ compressed = <<>>

(* Where update() puts byte k of its input. *)
Place(k) == (counter % Block_Size) + k

(* ctx.counter after an input of that size. *)
Counted(size) == counter + size

DoUpdate ==
    /\ todo # <<>> /\ Head(todo).call = "update"
    /\ block' = [i \in Positions |->
                    IF i > Place(0) /\ i <= Place(Head(todo).size)
                    THEN counter + i - Place(0)
                    ELSE block[i]]
    /\ counter' = Counted(Head(todo).size)
    /\ todo' = Tail(todo)
    /\ UNCHANGED <<zeros, compressed>>

DoUpdateEmpty ==
    /\ todo # <<>> /\ Head(todo).call = "update<true>"
    /\ counter' = Counted(Head(todo).size)
    /\ zeros' = zeros \union (counter + 1 .. counter + Head(todo).size)
    /\ todo' = Tail(todo)
    /\ UNCHANGED <<block, compressed>>

DoCompress ==
    /\ todo # <<>> /\ Head(todo).call \in {"compress", "final"}
    /\ compressed' = Append(compressed, [block |-> block, counter |-> counter,
                                         last |-> Head(todo).call = "final"])
    /\ todo' = Tail(todo)
    /\ UNCHANGED <<block, counter, zeros>>

Blake2bNext ==
    \/ DoUpdate \/ DoUpdateEmpty \/ DoCompress
    \/ (todo = <<>> /\ UNCHANGED blake2bVars)

Blake2bSpec == Blake2bInit /\ [][Blake2bNext]_blake2bVars

-----------------------------------------------------------------------------
(* RFC 7693: the message is cut into blocks, the last one padded with      *)
(* zeros; the counter says how many bytes of it have been seen, and only   *)
(* the last block is marked.  An input is never empty here.                *)
MessageBlocks == (counter + Block_Size - 1) \div Block_Size
MessageBlock(k) ==
    [i \in Positions |->
        LET byte == (k - 1) * Block_Size + i
        IN IF byte <= counter /\ byte \notin zeros THEN byte ELSE 0]

(* hash(), and the incremental hashes of argon2d.cpp, compress exactly the *)
(* blocks of the RFC.                                                      *)
CompressesMessage ==
    todo = <<>> =>
        compressed = [k \in 1 .. MessageBlocks |->
                        [block |-> MessageBlock(k),
                         counter |-> IF k = MessageBlocks THEN counter ELSE k * Block_Size,
                         last |-> k = MessageBlocks]]
=============================================================================
