--------------------------- MODULE DatasetPartition ---------------------------
(***************************************************************************)
(* dataset.cpp, generateDataset: how the dataset is cut into jobs.         *)
(*                                                                         *)
(* The dataset is padded so that every thread gets the same number of      *)
(* items, a multiple of the 4 items the jit function computes at a time;   *)
(* each thread's share is then halved again and again into jobs, as long   *)
(* as the padding does not have to change for it.  Sizes are counted in    *)
(* items of 64 bytes: all of the code's byte sizes are multiples of 64 and *)
(* below 2^32, so that its uint32_t arithmetic does not wrap.              *)
(***************************************************************************)
EXTENDS Integers

CONSTANTS
    ThreadCounts,        \* what hardware_concurrency() may return
    Dataset_Items,       \* Rx_Dataset_Base_Size + Rx_Dataset_Extra_Size
    Min_Items_Per_Job

ASSUME PartitionAssumption ==
    /\ ThreadCounts \subseteq Nat \ {0}
    /\ Dataset_Items \in Nat
    /\ Min_Items_Per_Job \in Nat

VARIABLES
    thread_count,
    task_divisor,
    phase           \* "divide": in the while loop, "divided": after it

partitionVars == <<thread_count, task_divisor, phase>>

-----------------------------------------------------------------------------
Batch == 4

(* Items added for a division of each thread's share into d jobs. *)
Alignment(d) == thread_count * Batch * d
Padding(d) == Alignment(d) - (Dataset_Items % Alignment(d))

dataset_items_count == Dataset_Items + Padding(1)
items_per_thread == dataset_items_count \div thread_count

items_per_job == items_per_thread \div task_divisor
max_jobs == dataset_items_count \div items_per_job

(* The divisor left by the loop is one doubling too far; variant: it is kept. *)
KeptDivisor(d) == d
LastDivisor(d) == IF d \div 2 > 1 THEN d \div 2 ELSE 1

(* The loop's condition. *)
MayDivide ==
    /\ items_per_thread \div task_divisor > Min_Items_Per_Job
    /\ Padding(task_divisor) = Padding(1)

PartitionInit ==
    /\ thread_count \in ThreadCounts
    /\ task_divisor = 1
    /\ phase = "divide"

Divide ==
    /\ phase = "divide"
    /\ MayDivide
    /\ task_divisor' = 2 * task_divisor
    /\ UNCHANGED <<thread_count, phase>>

Divided ==
    /\ phase = "divide"
    /\ ~ MayDivide
    /\ task_divisor' = LastDivisor(task_divisor)
    /\ phase' = "divided"
    /\ UNCHANGED thread_count

PartitionNext == Divide \/ Divided \/ (phase = "divided" /\ UNCHANGED partitionVars)

PartitionSpec == PartitionInit /\ [][PartitionNext]_partitionVars

-----------------------------------------------------------------------------
(* The jobs cover the padded dataset without a remainder: no item is left  *)
(* out by the two integer divisions and none lies past the memory; each is *)
(* a number of the 4 items that the jit function's loop steps by, which    *)
(* stops on equality; and there is one for every thread.                   *)
JobsCoverDataset ==
    phase = "divided" => /\ items_per_job > 0
                         /\ max_jobs * items_per_job = dataset_items_count
                         /\ items_per_job % Batch = 0
                         /\ max_jobs >= thread_count
=============================================================================
