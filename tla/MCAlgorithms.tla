----------------------------- MODULE MCAlgorithms -----------------------------
(* The sequential algorithms that share no state with another component, one  *)
(* of them at a time: the others stay in an initial state.  Sizes are the     *)
(* code's, but for the branch's numbers, the registers of AsicContext, the    *)
(* lengths of Argon2d's slice, of the scratchpad and of a program, and the    *)
(* number of programs per item.                                               *)
EXTENDS DatasetPartition, BranchCondition, AsicContext, Blake2b, Blake2bRandom, Argon2d,
        AesPasses, DatasetProgram

(* Every machine with up to 256 hardware threads, and some with so many that  *)
(* a thread's share is less than the minimal job.                             *)
MCThreadCounts == 1 .. 256 \union {1000, 1024, 1040, 1041, 1100, 2048, 4096}
MCDatasetItems == 33554432 + 524287

(* The inputs the program hashes: up to one block, or the 256 bytes of a      *)
(* register file; keys of up to a block template's size.                      *)
MCSizes == 1 .. 128 \union {256}
MCKeySizes == 1 .. 76

(* Jobs of one and of two rounds; RSP when the code is called, behind the     *)
(* return address, for each place in 64 bytes a multiple of 16 may have.      *)
MCJobs == {[start |-> 0, count |-> 8], [start |-> 12, count |-> 4]}
MCStackPointers == {1000, 1016, 1032, 1048}

VARIABLE algorithm

MCInit ==
    /\ algorithm \in {"partition", "branch", "asic", "blake2b", "random", "argon2d", "aes",
                      "lanes"}
    /\ AsicInit /\ RandomInit /\ Init /\ AesInit
    /\ LaneInit
    /\ \/ algorithm = "lanes"
       \/ job.start = 0 /\ rsp = 1016 /\ \A i \in DOMAIN address_register : address_register[i] = 0
    /\ IF algorithm = "partition" THEN PartitionInit
       ELSE thread_count = 1 /\ task_divisor = 1 /\ phase = "divide"
    /\ IF algorithm = "branch" THEN BranchInit
       ELSE r = 0 /\ shift = Rx_Jump_Offset /\ imm = 0 /\ jumps = -1
    /\ IF algorithm = "blake2b" THEN Blake2bInit
       ELSE todo = <<>> /\ block = <<>> /\ counter = 0 /\ zeros = {} /\ compressed = <<>>

MCNext ==
    /\ UNCHANGED algorithm
    /\ \/ algorithm = "partition" /\ PartitionNext
          /\ UNCHANGED <<branchVars, asicVars, blake2bVars, randomVars, vars, aesVars, laneVars>>
       \/ algorithm = "branch" /\ BranchNext
          /\ UNCHANGED <<partitionVars, asicVars, blake2bVars, randomVars, vars, aesVars, laneVars>>
       \/ algorithm = "asic" /\ AsicNext
          /\ UNCHANGED <<partitionVars, branchVars, blake2bVars, randomVars, vars, aesVars, laneVars>>
       \/ algorithm = "blake2b" /\ Blake2bNext
          /\ UNCHANGED <<partitionVars, branchVars, asicVars, randomVars, vars, aesVars, laneVars>>
       \/ algorithm = "random" /\ RandomNext
          /\ UNCHANGED <<partitionVars, branchVars, asicVars, blake2bVars, vars, aesVars, laneVars>>
       \/ algorithm = "argon2d" /\ Next
          /\ UNCHANGED <<partitionVars, branchVars, asicVars, blake2bVars, randomVars, aesVars, laneVars>>
       \/ algorithm = "aes" /\ AesNext
          /\ UNCHANGED <<partitionVars, branchVars, asicVars, blake2bVars, randomVars, vars, laneVars>>
       \/ algorithm = "lanes" /\ LaneNext
          /\ UNCHANGED <<partitionVars, branchVars, asicVars, blake2bVars, randomVars, vars, aesVars>>

MCSpec == MCInit /\ [][MCNext]_<<algorithm, partitionVars, branchVars, asicVars, blake2bVars,
                                 randomVars, vars, aesVars, laneVars>>
=============================================================================
