--------------------------- MODULE DatasetGeneration ---------------------------
(***************************************************************************)
(* dataset.cpp, generateDataset: the threads that compute the dataset.     *)
(*                                                                         *)
(* thread_count threads share an atomic job counter, a local of            *)
(* generateDataset() they hold by reference.  Each takes the next job from *)
(* it until none is left; the caller joins them in order and returns the   *)
(* memory.  DatasetPartition shows that the jobs cover the dataset.        *)
(***************************************************************************)
EXTENDS Integers

CONSTANTS
    thread_count,
    items_per_job,
    max_jobs,
    SpawnFails      \* may std::thread fail to start?

ASSUME GenerationAssumption ==
    /\ thread_count \in Nat \ {0}
    /\ items_per_job \in Nat \ {0}
    /\ max_jobs \in Nat
    /\ SpawnFails \in BOOLEAN

VARIABLES
    job_counter,  \* atomic, fetch_add only
    task,         \* where each thread is in its task
    job_id,       \* local of each task
    generated,    \* times each item was computed
    caller,       \* where generateDataset() is
    tid           \* its loop variable

vars == <<job_counter, task, job_id, generated, caller, tid>>

-----------------------------------------------------------------------------
Threads == 0 .. thread_count - 1
Items == 0 .. max_jobs * items_per_job - 1

(* The items of job j: the subspan its thread writes. *)
JobItems(j) == j * items_per_job .. j * items_per_job + items_per_job - 1

Init ==
    /\ job_counter = 0
    /\ task = [t \in Threads |-> "none"]
    /\ job_id = [t \in Threads |-> 0]
    /\ generated = [i \in Items |-> 0]
    /\ caller = "spawn"
    /\ tid = 0

(* Variant of Spawn: the loop ends one thread early. *)
SpawnAllButOne ==
    /\ caller = "spawn"
    /\ task' = [task EXCEPT ![tid] = "fetch"]
    /\ IF tid = thread_count - 2
       THEN caller' = "join" /\ tid' = 0
       ELSE tid' = tid + 1 /\ UNCHANGED caller
    /\ UNCHANGED <<job_counter, job_id, generated>>

Spawn ==
    /\ caller = "spawn"
    /\ task' = [task EXCEPT ![tid] = "fetch"]
    /\ IF tid = thread_count - 1
       THEN caller' = "join" /\ tid' = 0
       ELSE tid' = tid + 1 /\ UNCHANGED caller
    /\ UNCHANGED <<job_counter, job_id, generated>>

(* The exception destroys the vector with its joinable threads. *)
SpawnThrows ==
    /\ SpawnFails
    /\ caller = "spawn"
    /\ caller' = IF tid = 0 THEN "thrown" ELSE "terminated"
    /\ UNCHANGED <<job_counter, task, job_id, generated, tid>>

(* The loop's test. *)
HasJob(j) == j < max_jobs

(* Variant of FetchJob: a load instead of the fetch_add. *)
LoadJob(t) ==
    /\ task[t] = "fetch"
    /\ job_id' = [job_id EXCEPT ![t] = job_counter]
    /\ UNCHANGED job_counter
    /\ task' = [task EXCEPT ![t] = IF HasJob(job_counter) THEN "work" ELSE "exit"]
    /\ UNCHANGED <<generated, caller, tid>>

FetchJob(t) ==
    /\ task[t] = "fetch"
    /\ job_id' = [job_id EXCEPT ![t] = job_counter]
    /\ job_counter' = job_counter + 1
    /\ task' = [task EXCEPT ![t] = IF HasJob(job_counter) THEN "work" ELSE "exit"]
    /\ UNCHANGED <<generated, caller, tid>>

RunJob(t) ==
    /\ task[t] = "work"
    /\ generated' = [i \in Items |->
                       IF i \in JobItems(job_id[t]) THEN generated[i] + 1 ELSE generated[i]]
    /\ task' = [task EXCEPT ![t] = "fetch"]
    /\ UNCHANGED <<job_counter, job_id, caller, tid>>

(* Variant of Join: a thread is joined as soon as it has had its last job. *)
JoinEarly ==
    /\ caller = "join"
    /\ job_counter >= max_jobs
    /\ IF tid = thread_count - 1
       THEN caller' = "returned" /\ UNCHANGED tid
       ELSE tid' = tid + 1 /\ UNCHANGED caller
    /\ UNCHANGED <<job_counter, task, job_id, generated>>

Join ==
    /\ caller = "join"
    /\ task[tid] = "exit"
    /\ IF tid = thread_count - 1
       THEN caller' = "returned" /\ UNCHANGED tid
       ELSE tid' = tid + 1 /\ UNCHANGED caller
    /\ UNCHANGED <<job_counter, task, job_id, generated>>

Finished ==
    /\ caller \in {"returned", "thrown", "terminated"}
    /\ UNCHANGED vars

Thread(t) == caller # "terminated" /\ (FetchJob(t) \/ RunJob(t))

Next ==
    \/ Spawn
    \/ SpawnThrows
    \/ Join
    \/ \E t \in Threads : Thread(t)
    \/ Finished

Spec == Init /\ [][Next]_vars

(* The operating system runs every thread; none of them waits for another. *)
FairSpec == Spec /\ WF_vars(Spawn \/ Join) /\ \A t \in Threads : WF_vars(Thread(t))
-----------------------------------------------------------------------------
GenerationTypeOK ==
    /\ job_counter \in Nat
    /\ task \in [Threads -> {"none", "fetch", "work", "exit"}]
    /\ job_id \in [Threads -> Nat]
    /\ generated \in [Items -> Nat]
    /\ caller \in {"spawn", "join", "returned", "thrown", "terminated"}
    /\ tid \in Threads

(* Every item of the dataset that generateDataset() returns was computed,  *)
(* and no item was computed twice on the way.                              *)
EachItemOnce ==
    \A i \in Items : /\ generated[i] <= 1
                     /\ caller = "returned" => generated[i] = 1

(* Two threads never write the same part of the memory: jit_program runs   *)
(* without any lock.                                                       *)
NoSharedJob ==
    \A t, u \in Threads :
        t # u /\ task[t] = "work" /\ task[u] = "work"
            => JobItems(job_id[t]) \intersect JobItems(job_id[u]) = {}

(* The threads use job_counter, cache and code of the caller: none runs    *)
(* once it has returned.                                                   *)
JoinedBeforeReturn ==
    caller = "returned" => \A t \in Threads : task[t] = "exit"

(* generateDataset() ends. *)
GenerationEnds == <>(caller \in {"returned", "thrown", "terminated"})
=============================================================================
