---------------------------- MODULE DatasetProofs ----------------------------
(***************************************************************************)
(* Proofs about DatasetGeneration, for every number of threads and jobs.   *)
(***************************************************************************)
EXTENDS DatasetGeneration, TLAPS

(* Job j has been taken and its thread is done with it. *)
Completed(j) ==
    /\ j < job_counter
    /\ \A t \in Threads : ~ (task[t] = "work" /\ job_id[t] = j)

CallerInv ==
    /\ caller = "spawn" => \A t \in Threads : t >= tid => task[t] = "none"
    /\ caller = "join" => \A t \in Threads : t < tid => task[t] = "exit"
    /\ caller = "returned" => \A t \in Threads : task[t] = "exit"

JobInv ==
    /\ \A t \in Threads : task[t] = "work" => job_id[t] < job_counter /\ job_id[t] < max_jobs
    /\ \A t, u \in Threads :
         t # u /\ task[t] = "work" /\ task[u] = "work" => job_id[t] # job_id[u]
    /\ \A t \in Threads : task[t] = "exit" => job_counter >= max_jobs

ItemInv ==
    \A i \in Items : \A j \in 0 .. max_jobs - 1 :
        i \in JobItems(j) => generated[i] = IF Completed(j) THEN 1 ELSE 0

GenInv == GenerationTypeOK /\ CallerInv /\ JobInv /\ ItemInv

-----------------------------------------------------------------------------
(* The jobs' item ranges are disjoint ... *)
LEMMA JobUnique ==
  ASSUME NEW j \in Nat, NEW k \in Nat, NEW i \in JobItems(j), i \in JobItems(k)
  PROVE  j = k
<1>1. ASSUME NEW a \in Nat, NEW b \in Nat, a < b
      PROVE  a * items_per_job + items_per_job <= b * items_per_job
  <2>1. PICK c \in Nat : b = a + 1 + c
    <3>1. b - a - 1 \in Nat /\ b = a + 1 + (b - a - 1)
      BY <1>1
    <3>2. QED
      BY <3>1
  <2>2. b * items_per_job = a * items_per_job + items_per_job + c * items_per_job
    BY <2>1, GenerationAssumption
  <2>3. c * items_per_job \in Nat /\ a * items_per_job \in Nat
    BY GenerationAssumption
  <2>4. QED
    BY <2>2, <2>3, GenerationAssumption
<1>2. /\ j * items_per_job <= i /\ i < j * items_per_job + items_per_job
      /\ k * items_per_job <= i /\ i < k * items_per_job + items_per_job
      /\ i \in Int /\ j * items_per_job \in Nat /\ k * items_per_job \in Nat
  BY GenerationAssumption DEF JobItems
<1>3. ~ (j < k) /\ ~ (k < j)
  BY <1>1, <1>2, GenerationAssumption
<1>4. QED
  BY <1>3

(* ... and cover the items. *)
LEMMA JobExists ==
  ASSUME NEW i \in Items
  PROVE  \E j \in 0 .. max_jobs - 1 : i \in JobItems(j)
<1> DEFINE q == i \div items_per_job
<1>1. i \in Nat /\ i < max_jobs * items_per_job
  BY GenerationAssumption DEF Items
<1>2. q \in Nat /\ q * items_per_job <= i /\ i < q * items_per_job + items_per_job
  BY <1>1, GenerationAssumption
<1> HIDE DEF q
<1>3. q < max_jobs
  <2>1. SUFFICES ASSUME q >= max_jobs PROVE FALSE
    BY <1>2, GenerationAssumption
  <2>2. q * items_per_job >= max_jobs * items_per_job
    BY <1>2, <2>1, GenerationAssumption
  <2>3. QED
    BY <1>1, <1>2, <2>2, GenerationAssumption
<1>4. i \in JobItems(q)
  BY <1>1, <1>2, GenerationAssumption DEF JobItems
<1>5. QED
  BY <1>2, <1>3, <1>4, GenerationAssumption

LEMMA ItemsOfJob ==
  ASSUME NEW j \in Nat
  PROVE  JobItems(j) \subseteq Nat
  BY GenerationAssumption DEF JobItems

-----------------------------------------------------------------------------
LEMMA GenInitInv == Init => GenInv
<1>1. Init => GenerationTypeOK /\ CallerInv /\ JobInv
  BY GenerationAssumption DEF Init, GenerationTypeOK, CallerInv, JobInv, Threads
<1>2. Init => ItemInv
  BY DEF Init, ItemInv, Completed
<1>3. QED
  BY <1>1, <1>2 DEF GenInv

LEMMA SpawnInv == ASSUME GenInv, Spawn PROVE GenInv'
<1> USE DEF GenInv
<1>1. tid \in Threads /\ task[tid] = "none"
  BY DEF GenerationTypeOK, CallerInv, Spawn, Threads
<1>2. GenerationTypeOK'
  BY GenerationAssumption DEF GenerationTypeOK, Spawn, Threads
<1>3. CallerInv'
  BY GenerationAssumption DEF GenerationTypeOK, CallerInv, Spawn, Threads
<1>4. JobInv'
  BY <1>1 DEF GenerationTypeOK, JobInv, Spawn
<1>5. \A j \in 0 .. max_jobs - 1 : Completed(j)' = Completed(j)
  BY <1>1 DEF GenerationTypeOK, Completed, Spawn
<1>6. ItemInv'
  BY <1>5 DEF ItemInv, Spawn
<1>7. QED
  BY <1>2, <1>3, <1>4, <1>6

LEMMA FetchInv == ASSUME GenInv, NEW t \in Threads, FetchJob(t) PROVE GenInv'
<1> USE DEF GenInv
<1>1. GenerationTypeOK'
  BY DEF GenerationTypeOK, FetchJob
<1>2. CallerInv'
  BY DEF GenerationTypeOK, CallerInv, FetchJob
<1>3. JobInv'
  BY GenerationAssumption DEF GenerationTypeOK, JobInv, FetchJob, HasJob
<1>4. ASSUME NEW j \in 0 .. max_jobs - 1
      PROVE  Completed(j)' = Completed(j)
  <2>1. CASE j = job_counter
    BY <2>1, GenerationAssumption DEF GenerationTypeOK, Completed, FetchJob, HasJob
  <2>2. CASE j # job_counter
    BY <2>2, GenerationAssumption DEF GenerationTypeOK, Completed, FetchJob, HasJob
  <2>3. QED
    BY <2>1, <2>2
<1>5. ItemInv'
  BY <1>4 DEF ItemInv, FetchJob
<1>6. QED
  BY <1>1, <1>2, <1>3, <1>5

LEMMA RunJobInv == ASSUME GenInv, NEW t \in Threads, RunJob(t) PROVE GenInv'
<1> USE DEF GenInv
<1>1. GenerationTypeOK'
  BY DEF GenerationTypeOK, RunJob
<1>2. CallerInv'
  BY DEF GenerationTypeOK, CallerInv, RunJob
<1>3. JobInv'
  BY DEF GenerationTypeOK, JobInv, RunJob
<1>4. ItemInv'
  <2>1. SUFFICES ASSUME NEW i \in Items, NEW j \in 0 .. max_jobs - 1, i \in JobItems(j)
                 PROVE  generated'[i] = IF Completed(j)' THEN 1 ELSE 0
    BY DEF ItemInv
  <2>2. job_id[t] \in Nat /\ job_id[t] < job_counter /\ task[t] = "work"
    BY DEF GenerationTypeOK, JobInv, RunJob
  <2>3. CASE j = job_id[t]
    <3>1. ~ Completed(j) /\ generated[i] = 0
      BY <2>1, <2>2, <2>3 DEF Completed, ItemInv
    <3>2. Completed(j)'
      BY <2>2, <2>3 DEF Completed, RunJob, JobInv, GenerationTypeOK
    <3>3. generated'[i] = 1
      BY <2>1, <2>3, <3>1 DEF RunJob
    <3>4. QED
      BY <3>2, <3>3
  <2>4. CASE j # job_id[t]
    <3>1. i \notin JobItems(job_id[t])
      BY <2>1, <2>2, <2>4, JobUnique
    <3>2. generated'[i] = generated[i]
      BY <3>1 DEF RunJob
    <3>3. Completed(j)' = Completed(j)
      BY <2>4 DEF Completed, RunJob, GenerationTypeOK
    <3>4. QED
      BY <2>1, <3>2, <3>3 DEF ItemInv
  <2>5. QED
    BY <2>3, <2>4
<1>5. QED
  BY <1>1, <1>2, <1>3, <1>4

LEMMA CallerStepInv == ASSUME GenInv, SpawnThrows \/ Join PROVE GenInv'
<1> USE DEF GenInv
<1>1. UNCHANGED <<job_counter, task, job_id, generated>>
  BY DEF SpawnThrows, Join
<1>2. GenerationTypeOK'
  BY <1>1, GenerationAssumption DEF GenerationTypeOK, SpawnThrows, Join, Threads
<1>3. CallerInv'
  BY <1>1, GenerationAssumption DEF GenerationTypeOK, CallerInv, SpawnThrows, Join, Threads
<1>4. JobInv' /\ ItemInv'
  BY <1>1 DEF JobInv, ItemInv, Completed
<1>5. QED
  BY <1>2, <1>3, <1>4

LEMMA GenStepInv == GenInv /\ [Next]_vars => GenInv'
<1>1. SUFFICES ASSUME GenInv, [Next]_vars PROVE GenInv'
  OBVIOUS
<1>2. CASE UNCHANGED vars
  BY <1>1, <1>2 DEF vars, GenInv, GenerationTypeOK, CallerInv, JobInv, ItemInv, Completed
<1>3. QED
  BY <1>1, <1>2, SpawnInv, FetchInv, RunJobInv, CallerStepInv DEF Next, Thread, Finished

-----------------------------------------------------------------------------
(* The variables keep their types.                                         *)
THEOREM GenerationTypeCorrect == Spec => []GenerationTypeOK
<1>1. GenInv => GenerationTypeOK
  BY DEF GenInv
<1>2. QED
  BY <1>1, GenInitInv, GenStepInv, PTL DEF Spec

(* When generateDataset() returns, every item was computed exactly once,   *)
(* whatever the interleaving of the threads on the counter.                *)
THEOREM GenerationEachItemOnce == Spec => []EachItemOnce
<1>1. ASSUME GenInv
      PROVE  EachItemOnce
  <2>1. SUFFICES ASSUME NEW i \in Items
                 PROVE  generated[i] <= 1 /\ (caller = "returned" => generated[i] = 1)
    BY DEF EachItemOnce
  <2>2. PICK j \in 0 .. max_jobs - 1 : i \in JobItems(j)
    BY JobExists
  <2>3. generated[i] = IF Completed(j) THEN 1 ELSE 0
    BY <1>1, <2>2 DEF GenInv, ItemInv
  <2>4. caller = "returned" => Completed(j)
    <3>1. SUFFICES ASSUME caller = "returned"
                   PROVE  Completed(j)
      OBVIOUS
    <3>2. \A t \in Threads : task[t] = "exit"
      BY <1>1, <3>1 DEF GenInv, CallerInv
    <3>3. 0 \in Threads
      BY GenerationAssumption DEF Threads
    <3>4. job_counter >= max_jobs /\ job_counter \in Nat
      BY <1>1, <3>2, <3>3 DEF GenInv, JobInv, GenerationTypeOK
    <3>5. QED
      BY <3>2, <3>4, GenerationAssumption DEF Completed
  <2>5. QED
    BY <2>3, <2>4
<1>2. QED
  BY <1>1, GenInitInv, GenStepInv, PTL DEF Spec

(* No two threads ever write the same part of the dataset's memory.        *)
THEOREM GenerationNoSharedJob == Spec => []NoSharedJob
<1>1. ASSUME GenInv
      PROVE  NoSharedJob
  <2>1. SUFFICES ASSUME NEW t \in Threads, NEW u \in Threads,
                        t # u, task[t] = "work", task[u] = "work",
                        NEW i \in JobItems(job_id[t]), i \in JobItems(job_id[u])
                 PROVE  FALSE
    BY DEF NoSharedJob
  <2>2. job_id[t] \in Nat /\ job_id[u] \in Nat /\ job_id[t] # job_id[u]
    BY <1>1, <2>1 DEF GenInv, GenerationTypeOK, JobInv
  <2>3. QED
    BY <2>1, <2>2, JobUnique
<1>2. QED
  BY <1>1, GenInitInv, GenStepInv, PTL DEF Spec

(* No thread is left running when generateDataset() returns.               *)
THEOREM GenerationJoins == Spec => []JoinedBeforeReturn
<1>1. GenInv => JoinedBeforeReturn
  BY DEF GenInv, CallerInv, JoinedBeforeReturn
<1>2. QED
  BY <1>1, GenInitInv, GenStepInv, PTL DEF Spec
=============================================================================
