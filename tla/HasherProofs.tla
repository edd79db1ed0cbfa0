----------------------------- MODULE HasherProofs -----------------------------
(***************************************************************************)
(* Proofs about Hasher, for every number of machines, keys and calls, when *)
(* the client sets keys and templates only while the hasher is stopped, in *)
(* the order of benchmarks.cpp.  Unless a theorem says otherwise, threads  *)
(* may fail to start, to be pinned to their core, and the generation of a  *)
(* dataset may throw.                                                      *)
(*                                                                         *)
(* No lock is held in hasher.cpp: what keeps the threads apart is that a   *)
(* thread exists only while vm_workers is not empty, and that the client   *)
(* does not touch machines, key or dataset as long as it is not.           *)
(***************************************************************************)
EXTENDS Hasher, VirtualMachineProofs, FiniteSetTheorems

(* The types of the variables that are not a machine's. *)
FieldTypes ==
    /\ running \in BOOLEAN
    /\ vm_workers \subseteq VMs
    /\ worker \in [VMs -> WorkerStates]
    /\ vm_init \in Nat
    /\ frame \in BOOLEAN
    /\ stray \in BOOLEAN
    /\ main \in MainStates
    /\ outcome \in Outcomes
    /\ key \in Keys \union {<<>>}
    /\ asked \in Keys \union {<<>>}
    /\ dataset \in Datasets \union {NoDataset}
    /\ generation \in 0 .. MaxGenerations
    /\ resetting \in [v : VMs, template : Template]
    /\ calls \in 0 .. MaxCalls

(* The threads are started in the order of their machines. *)
Crew ==
    \E k \in 0 .. N :
        /\ vm_workers = 0 .. k - 1
        /\ main = "spawn" => k < N

(* Only a thread that exists does anything, and only it executes. *)
Engaged ==
    \A v \in VMs :
        /\ worker[v] # "none" => v \in vm_workers
        /\ vm[v].pc # "idle" => worker[v] = "execute"

(* While threads exist, the machines are set and have the current dataset. *)
Ready == \A v \in VMs : vm[v].stage = "set" /\ vm[v].dataset = dataset

Occupied == main = "spawn" \/ vm_workers # {}

(* A key or a template is set only while no thread exists. *)
Quiet ==
    /\ main \in {"generate", "resetVM"} => vm_workers = {}
    /\ main = "generate" => generation < MaxGenerations /\ key \in Keys
    /\ main = "resetVM" => dataset \in Datasets

ThreadInv == FieldTypes /\ Crew /\ Engaged /\ (Occupied => Ready) /\ Quiet

HasherInv == VMInv /\ ThreadInv

-----------------------------------------------------------------------------
LEMMA HasherInitInv == HasherInit => HasherInv
<1> SUFFICES ASSUME HasherInit PROVE HasherInv
  OBVIOUS
<1> USE HasherAssumption
<1>1. VMInv
  BY VMInitInv DEF HasherInit
<1>2. SomeTemplate \in Template
  <2>1. PICK t \in Template : TRUE
    BY DEF HasherInit, VMInit
  <2>2. QED
    BY <2>1, Zenon DEF SomeTemplate
<1>3. FieldTypes
  <2>1. running \in BOOLEAN /\ frame \in BOOLEAN /\ stray \in BOOLEAN
    BY Zenon DEF HasherInit
  <2>2. /\ vm_workers \subseteq VMs
        /\ worker \in [VMs -> WorkerStates]
        /\ vm_init \in Nat
        /\ generation \in 0 .. MaxGenerations
        /\ calls \in 0 .. MaxCalls
    BY DEF HasherInit, WorkerStates
  <2>3. /\ main \in MainStates
        /\ outcome \in Outcomes
        /\ key \in Keys \union {<<>>}
        /\ asked \in Keys \union {<<>>}
        /\ dataset \in Datasets \union {NoDataset}
    BY DEF HasherInit, MainStates, Outcomes
  <2>4. resetting \in [v : VMs, template : Template]
    BY <1>2 DEF HasherInit
  <2>5. QED
    BY <2>1, <2>2, <2>3, <2>4, Zenon DEF FieldTypes
<1>4. Crew
  <2>1. 0 \in 0 .. N /\ 0 .. 0 - 1 = {} /\ 0 < N
    OBVIOUS
  <2>2. QED
    BY <2>1 DEF HasherInit, Crew
<1>5. Engaged
  BY DEF HasherInit, VMInit, Engaged
<1>6. ~ Occupied /\ Quiet
  BY DEF HasherInit, Occupied, Quiet
<1>7. QED
  BY <1>1, <1>3, <1>4, <1>5, <1>6 DEF HasherInv, ThreadInv

-----------------------------------------------------------------------------
(* The steps that leave the machines alone. *)
ClientStep ==
    \/ Run \/ RunAgain \/ Stop \/ StopIgnored \/ Destroy
    \/ \E k \in Keys : Reset(k) \/ ResetSameKey(k)
    \/ \E t \in Template : t.nonce \in Nonces /\ ResetVM(t)

MainStep ==
    \/ Spawn \/ SpawnThrows \/ WaitInit \/ RunReturns \/ RunFails \/ JoinWorkers
    \/ Generate \/ GenerateThrows \/ GenerateTerminates

WorkerStep(v) ==
    \/ Announce(v) \/ SetAffinity(v) \/ AffinityThrows(v) \/ ReportFailure(v)
    \/ CheckRunning(v) \/ WorkerAtBound(v)

(* A call keeps the invariant: it starts, or changes key and dataset, only *)
(* when no thread exists.                                                  *)
LEMMA ClientInv ==
  ASSUME HasherInv, ClientStops, ClientResetsVMs, ClientStep
  PROVE  ThreadInv'
<1> USE HasherAssumption DEF HasherInv, ThreadInv
<1>1. main = "idle" /\ calls' \in 0 .. MaxCalls /\ UNCHANGED vmVars
  BY DEF ClientStep, Run, RunAgain, Stop, StopIgnored, Destroy, Reset, ResetSameKey,
         ResetVM, Call, FieldTypes
<1>2. UNCHANGED <<vm_workers, worker, dataset, generation, stray>>
  BY DEF ClientStep, Run, RunAgain, Stop, StopIgnored, Destroy, Reset, ResetSameKey,
         ResetVM, threadVars, keyVars
<1>3. main' = "generate" => /\ vm_workers = {} /\ generation < MaxGenerations
                            /\ key' \in Keys
  BY <1>1 DEF ClientStep, Run, RunAgain, Stop, StopIgnored, Destroy, Reset, ResetSameKey,
         ResetVM, ClientMayReset
<1>4. main' = "resetVM" => /\ vm_workers = {} /\ dataset \in Datasets
  BY <1>1 DEF ClientStep, Run, RunAgain, Stop, StopIgnored, Destroy, Reset, ResetSameKey,
         ResetVM, ClientMayReset, ClientMayResetVM, FieldTypes
<1>5. main' = "spawn" => vm_workers = {} /\ Ready
  BY <1>1 DEF ClientStep, Run, RunAgain, Stop, StopIgnored, Destroy, Reset, ResetSameKey,
         ResetVM, ClientMayRun, Ready
<1>6. FieldTypes'
  <2>1. 0 \in VMs
    OBVIOUS
  <2>2. running' \in BOOLEAN /\ frame' \in BOOLEAN
    BY Zenon DEF ClientStep, Run, RunAgain, Stop, StopIgnored, Destroy, Reset, ResetSameKey,
           ResetVM, FieldTypes, threadVars
  <2>6. vm_init' \in Nat
    BY DEF ClientStep, Run, RunAgain, Stop, StopIgnored, Destroy, Reset, ResetSameKey,
           ResetVM, FieldTypes, threadVars
  <2>3. main' \in MainStates /\ outcome' \in Outcomes
    BY <1>1 DEF ClientStep, Run, RunAgain, Stop, StopIgnored, Destroy, Reset, ResetSameKey,
           ResetVM, FieldTypes, MainStates, Outcomes
  <2>4. key' \in Keys \union {<<>>} /\ asked' \in Keys \union {<<>>}
    BY DEF ClientStep, Run, RunAgain, Stop, StopIgnored, Destroy, Reset, ResetSameKey,
           ResetVM, FieldTypes, keyVars
  <2>5. resetting' \in [v : VMs, template : Template]
    BY <2>1 DEF ClientStep, Run, RunAgain, Stop, StopIgnored, Destroy, Reset, ResetSameKey,
           ResetVM, FieldTypes
  <2>7. QED
    BY <1>1, <1>2, <2>2, <2>3, <2>4, <2>5, <2>6 DEF FieldTypes
<1>7. Crew'
  <2>1. PICK k \in 0 .. N : vm_workers = 0 .. k - 1
    BY DEF Crew
  <2>2. main' = "spawn" => k < N
    BY <1>5, <2>1
  <2>3. QED
    BY <1>2, <2>1, <2>2 DEF Crew
<1>8. Engaged'
  BY <1>1, <1>2 DEF Engaged, vmVars
<1>9. Occupied' => Ready'
  BY <1>1, <1>2, <1>5 DEF Occupied, Ready, vmVars
<1>10. Quiet'
  BY <1>2, <1>3, <1>4 DEF Quiet
<1>11. QED
  BY <1>6, <1>7, <1>8, <1>9, <1>10

LEMMA SpawnInv ==
  ASSUME HasherInv, Spawn
  PROVE  ThreadInv'
<1> USE HasherAssumption DEF HasherInv, ThreadInv
<1>1. PICK k \in 0 .. N : vm_workers = 0 .. k - 1 /\ k < N
  BY DEF Crew, Spawn
<1>2. Cardinality(vm_workers) = k
  BY <1>1, FS_Interval
<1>3. /\ k \in VMs
      /\ vm_workers' = 0 .. (k + 1) - 1
      /\ vm_workers' = vm_workers \union {k}
      /\ worker' = [worker EXCEPT ![k] = "start"]
      /\ main' = IF k = N - 1 THEN "wait" ELSE "spawn"
      /\ main = "spawn"
  <2>1. k \in VMs /\ (0 .. k - 1) \union {k} = 0 .. (k + 1) - 1
    BY <1>1
  <2>2. QED
    BY <1>1, <1>2, <2>1 DEF Spawn
<1>4. UNCHANGED <<vmVars, running, vm_init, frame, stray, keyVars, outcome, resetting, calls>>
  BY DEF Spawn
<1>5. FieldTypes'
  BY <1>3, <1>4 DEF FieldTypes, keyVars, WorkerStates, MainStates
<1>6. Crew'
  <2>1. k + 1 \in 0 .. N /\ (main' = "spawn" => k + 1 < N)
    BY <1>1, <1>3
  <2>2. QED
    BY <1>3, <2>1 DEF Crew
<1>7. Engaged'
  <2>1. vm[k].pc = "idle"
    <3>1. k \notin vm_workers
      BY <1>1
    <3>2. QED
      BY <1>3, <3>1 DEF Engaged
  <2>2. QED
    BY <1>3, <1>4, <2>1 DEF Engaged, vmVars, FieldTypes
<1>8. Ready'
  BY <1>3, <1>4 DEF Occupied, Ready, vmVars, keyVars
<1>9. Quiet'
  BY <1>3 DEF Quiet
<1>10. QED
  BY <1>5, <1>6, <1>7, <1>8, <1>9

LEMMA JoinInv ==
  ASSUME HasherInv, JoinWorkers
  PROVE  ThreadInv'
<1> USE HasherAssumption DEF HasherInv, ThreadInv
<1>1. /\ main = "join" /\ main' \in {"idle", "destroyed"}
      /\ vm_workers' = {}
      /\ worker' = [v \in VMs |-> "none"]
      /\ frame' = FALSE
      /\ UNCHANGED <<vmVars, running, vm_init, stray, keyVars, outcome, resetting, calls>>
      /\ \A v \in vm_workers : worker[v] = "returned"
  BY DEF JoinWorkers
<1>2. FieldTypes'
  BY <1>1 DEF FieldTypes, keyVars, WorkerStates, MainStates
<1>3. Crew'
  <2>1. 0 \in 0 .. N /\ 0 .. 0 - 1 = {} /\ main' # "spawn"
    BY <1>1
  <2>2. QED
    BY <1>1, <2>1 DEF Crew
<1>4. \A v \in VMs : vm[v].pc = "idle"
  BY <1>1 DEF Engaged
<1>5. QED
  BY <1>1, <1>2, <1>3, <1>4 DEF Engaged, Occupied, Quiet, vmVars

LEMMA GenerateInv ==
  ASSUME HasherInv, Generate
  PROVE  ThreadInv'
<1> USE HasherAssumption DEF HasherInv, ThreadInv
<1>1. /\ vm_workers = {} /\ main' = "idle"
      /\ key \in Keys /\ generation + 1 \in 1 .. MaxGenerations
      /\ generation' = generation + 1
      /\ dataset' = [id |-> generation + 1, key |-> key]
      /\ outcome' = "returned"
      /\ UNCHANGED <<vmVars, threadVars, key, asked, resetting, calls>>
  BY DEF Generate, Quiet, FieldTypes
<1>2. dataset' \in Datasets
  BY <1>1
<1>3. FieldTypes'
  BY <1>1, <1>2 DEF FieldTypes, threadVars, MainStates, Outcomes
<1>4. QED
  BY <1>1, <1>3 DEF Crew, Engaged, Occupied, Quiet, vmVars, threadVars

LEMMA MainInv ==
  ASSUME HasherInv, MainStep
  PROVE  ThreadInv'
<1>1. CASE Spawn
  BY <1>1, SpawnInv
<1>2. CASE JoinWorkers
  BY <1>2, JoinInv
<1>3. CASE Generate
  BY <1>3, GenerateInv
<1>4. CASE \/ SpawnThrows \/ WaitInit \/ RunReturns \/ RunFails
           \/ GenerateThrows \/ GenerateTerminates
  <2> USE DEF HasherInv, ThreadInv
  <2>1. /\ main' \notin {"spawn", "generate", "resetVM"} /\ main' \in MainStates
        /\ UNCHANGED <<vmVars, vm_workers, worker, vm_init, stray, key, dataset,
                       generation, resetting, calls>>
        /\ running' \in BOOLEAN /\ frame' \in BOOLEAN /\ outcome' \in Outcomes
        /\ asked' \in Keys \union {<<>>}
    BY <1>4 DEF SpawnThrows, WaitInit, RunReturns, RunFails, GenerateThrows,
       GenerateTerminates, threadVars, keyVars, FieldTypes, MainStates, Outcomes
  <2>2. FieldTypes' /\ Crew'
    BY <2>1 DEF FieldTypes, Crew
  <2>3. QED
    BY <2>1, <2>2 DEF Engaged, Occupied, Ready, Quiet, vmVars
<1>5. QED
  BY <1>1, <1>2, <1>3, <1>4 DEF MainStep

(* What a worker does besides executing touches only its own state, vm_init *)
(* and, when its thread dies, the process.                                  *)
LEMMA WorkerInv ==
  ASSUME HasherInv, NEW v \in VMs, WorkerStep(v)
  PROVE  ThreadInv'
<1> USE HasherAssumption DEF HasherInv, ThreadInv
<1>1. /\ worker[v] # "none"
      /\ worker[v] = "execute" => vm[v].pc = "idle"
      /\ worker' \in [VMs -> WorkerStates]
      /\ \A u \in VMs : u # v => worker'[u] = worker[u]
      /\ UNCHANGED <<vmVars, vm_workers, keyVars, outcome, resetting>>
      /\ running' = running /\ frame' = frame
      /\ main' \in {main, "terminated"}
      /\ stray' \in BOOLEAN
      /\ calls' = calls
  BY DEF WorkerStep, Announce, SetAffinity, AffinityThrows, ReportFailure, CheckRunning,
     WorkerAtBound, AddInit, threadVars, callVars, FieldTypes, WorkerStates
<1>2. vm_init' \in Nat
  BY DEF WorkerStep, Announce, SetAffinity, AffinityThrows, ReportFailure, CheckRunning,
     WorkerAtBound, AddInit, threadVars, FieldTypes
<1>3. v \in vm_workers /\ vm[v].pc = "idle"
  BY <1>1 DEF Engaged
<1>4. FieldTypes' /\ Crew'
  BY <1>1, <1>2 DEF FieldTypes, Crew, MainStates, keyVars
<1>5. Engaged'
  BY <1>1, <1>3 DEF Engaged, vmVars
<1>6. QED
  BY <1>1, <1>4, <1>5 DEF Occupied, Ready, Quiet, vmVars, keyVars

-----------------------------------------------------------------------------
(* The two steps that change a machine: while no thread exists the client  *)
(* resets it, and while the machines are set its thread executes it.       *)
LEMMA OffsetType ==
  ASSUME NEW t \in Template
  PROVE  NextBy(t, NonceOffset) \in Template
<1> USE HasherAssumption, VMAssumption
<1>1. NonceOffset \in Int
  BY DEF NonceOffset
<1> HIDE DEF NonceOffset
<1>2. (t.nonce + NonceOffset) % Nonce_Values \in 0 .. Nonce_Values - 1
  BY <1>1 DEF Template
<1>3. QED
  BY <1>2 DEF NextBy, Template

LEMMA ResetMachineInv ==
  ASSUME HasherInv, ResetMachine
  PROVE  VMNext /\ ThreadInv'
<1> USE HasherAssumption DEF HasherInv, ThreadInv
<1> DEFINE v == resetting.v
           t == resetting.template
<1>1. /\ main = "resetVM" /\ vm_workers = {} /\ dataset \in Datasets
      /\ v \in VMs /\ t \in Template
  BY DEF ResetMachine, Quiet, FieldTypes
<1>2. /\ UNCHANGED <<threadVars, keyVars, calls>>
      /\ \/ /\ ResetDataset(v, dataset) \/ ResetTemplate(v, t)
            /\ UNCHANGED <<main, outcome, resetting>>
         \/ /\ ResetFlags(v)
            /\ IF v = N - 1
               THEN main' = "idle" /\ outcome' = "returned" /\ UNCHANGED resetting
               ELSE /\ resetting' = [v |-> v + 1, template |-> NextBy(t, NonceOffset)]
                    /\ UNCHANGED <<main, outcome>>
  BY DEF ResetMachine
<1>3. \A u \in VMs : vm[u].pc = "idle"
  BY <1>1 DEF Engaged
<1>4. VMNext
  BY <1>1, <1>2, <1>3 DEF VMNext
<1>5. \A u \in VMs : vm'[u].pc = "idle"
  <2>1. vm \in [VMs -> Machine]
    BY DEF VMInv, VMTypeOK
  <2>2. CASE ResetDataset(v, dataset)
    BY <1>3, <2>1, <2>2 DEF ResetDataset, Machine
  <2>3. CASE ResetTemplate(v, t)
    BY <1>3, <2>1, <2>3 DEF ResetTemplate, Machine
  <2>4. CASE ResetFlags(v)
    BY <1>3, <2>1, <2>4 DEF ResetFlags, Machine
  <2>5. QED
    BY <1>2, <2>2, <2>3, <2>4
<1>6. resetting' \in [v : VMs, template : Template]
  <2>1. v # N - 1 => v + 1 \in VMs
    BY <1>1
  <2>2. NextBy(t, NonceOffset) \in Template
    BY <1>1, OffsetType
  <2>3. QED
    BY <1>2, <2>1, <2>2 DEF FieldTypes
<1>7. main' \in {"idle", "resetVM"} /\ outcome' \in Outcomes
  BY <1>1, <1>2 DEF FieldTypes, Outcomes
<1>8. FieldTypes'
  BY <1>2, <1>6, <1>7 DEF FieldTypes, threadVars, keyVars, MainStates
<1>9. QED
  BY <1>1, <1>2, <1>4, <1>5, <1>7, <1>8
     DEF Crew, Engaged, Occupied, Quiet, threadVars, keyVars

(* Executing leaves a machine's job and the other machines alone. *)
LEMMA ExecuteStepKeeps ==
  ASSUME VMInv, NEW v \in VMs, ExecuteStep(v)
  PROVE  /\ \A u \in VMs : u # v => vm'[u] = vm[u]
         /\ vm'[v].stage = vm[v].stage /\ vm'[v].dataset = vm[v].dataset
<1>1. vm \in [VMs -> Machine]
  BY DEF VMInv, VMTypeOK
<1>2. CASE Execute(v)
  BY <1>1, <1>2 DEF Execute, Machine
<1>3. CASE InitializeMemory(v)
  BY <1>1, <1>3 DEF InitializeMemory, Machine
<1>4. CASE ExecuteNext(v)
  BY <1>1, <1>4 DEF ExecuteNext, Machine
<1>5. CASE RunProgram(v)
  BY <1>1, <1>5 DEF RunProgram, Machine
<1>6. CASE NextTemplate(v)
  BY <1>1, <1>6 DEF NextTemplate, Machine
<1>7. CASE HashAndFill(v)
  BY <1>1, <1>7 DEF HashAndFill, Machine
<1>8. CASE Callback(v)
  BY <1>1, <1>8 DEF Callback, Machine
<1>9. QED
  BY <1>2, <1>3, <1>4, <1>5, <1>6, <1>7, <1>8 DEF ExecuteStep

LEMMA WorkerExecutesInv ==
  ASSUME HasherInv, NEW v \in VMs, WorkerExecutes(v)
  PROVE  VMNext /\ ThreadInv'
<1> USE HasherAssumption DEF HasherInv, ThreadInv
<1>1. /\ worker[v] = "execute" /\ ExecuteStep(v)
      /\ worker' = [worker EXCEPT ![v] = IF vm'[v].pc = "idle" THEN "check" ELSE "execute"]
      /\ UNCHANGED <<running, vm_workers, vm_init, frame, stray, keyVars, callVars>>
  BY DEF WorkerExecutes
<1>2. v \in vm_workers /\ Ready
  BY <1>1 DEF Engaged, Occupied
<1>3. VMNext
  BY <1>1, <1>2 DEF VMNext, Ready
<1>4. /\ \A u \in VMs : u # v => vm'[u] = vm[u]
      /\ vm'[v].stage = vm[v].stage /\ vm'[v].dataset = vm[v].dataset
  BY <1>1, ExecuteStepKeeps
<1>5. FieldTypes' /\ Crew'
  BY <1>1 DEF FieldTypes, Crew, WorkerStates, keyVars, callVars
<1>6. Engaged'
  BY <1>1, <1>2, <1>4 DEF Engaged, FieldTypes
<1>7. Ready'
  BY <1>1, <1>2, <1>4 DEF Ready, keyVars
<1>8. Quiet'
  BY <1>1 DEF Quiet, keyVars, callVars
<1>9. QED
  BY <1>3, <1>5, <1>6, <1>7, <1>8

-----------------------------------------------------------------------------
LEMMA QuietSteps ==
  /\ ClientStep => UNCHANGED vmVars
  /\ MainStep => UNCHANGED vmVars
  /\ \A v \in VMs : WorkerStep(v) => UNCHANGED vmVars
<1>1. ClientStep => UNCHANGED vmVars
  BY DEF ClientStep, Run, RunAgain, Stop, StopIgnored, Destroy, Reset, ResetSameKey,
         ResetVM
<1>2. MainStep => UNCHANGED vmVars
  BY DEF MainStep, Spawn, SpawnThrows, WaitInit, RunReturns, RunFails, JoinWorkers,
         Generate, GenerateThrows, GenerateTerminates
<1>3. \A v \in VMs : WorkerStep(v) => UNCHANGED vmVars
  BY DEF WorkerStep, Announce, SetAffinity, AffinityThrows, ReportFailure, CheckRunning,
         WorkerAtBound
<1>4. QED
  BY <1>1, <1>2, <1>3

LEMMA HasherSteps ==
  ASSUME Next
  PROVE  \/ ClientStep \/ MainStep \/ ResetMachine
         \/ \E v \in VMs : WorkerStep(v) \/ WorkerExecutes(v)
         \/ UNCHANGED vars
  BY DEF Next, Client, Continue, Worker, Finished, ClientStep, MainStep, WorkerStep

(* Every step keeps the invariant, and is a step of VMSpec. *)
LEMMA HasherInvStep ==
  ASSUME HasherInv, ClientStops, ClientResetsVMs, [Next]_vars
  PROVE  HasherInv' /\ [VMNext]_vmVars
<1>1. [VMNext]_vmVars /\ ThreadInv'
  <2>1. CASE ClientStep
    BY <2>1, ClientInv, QuietSteps
  <2>2. CASE MainStep
    BY <2>2, MainInv, QuietSteps
  <2>3. CASE ResetMachine
    BY <2>3, ResetMachineInv
  <2>4. ASSUME NEW v \in VMs, WorkerStep(v)
        PROVE  [VMNext]_vmVars /\ ThreadInv'
    BY <2>4, WorkerInv, QuietSteps
  <2>5. ASSUME NEW v \in VMs, WorkerExecutes(v)
        PROVE  [VMNext]_vmVars /\ ThreadInv'
    BY <2>5, WorkerExecutesInv
  <2>6. CASE UNCHANGED vars
    BY <2>6 DEF HasherInv, ThreadInv, FieldTypes, Crew, Engaged, Occupied, Ready, Quiet,
       vars, vmVars, threadVars, keyVars, callVars
  <2>7. QED
    BY <2>1, <2>2, <2>3, <2>4, <2>5, <2>6, HasherSteps
<1>2. VMInv'
  BY <1>1, VMInvStep DEF HasherInv
<1>3. QED
  BY <1>1, <1>2 DEF HasherInv

(* The variables of the hasher keep their types.                           *)
THEOREM HasherTypeCorrect == ClientStops /\ ClientResetsVMs => (Spec => []HasherTypeOK)
<1> SUFFICES ASSUME ClientStops, ClientResetsVMs PROVE Spec => []HasherTypeOK
  OBVIOUS
<1>1. HasherInv => HasherTypeOK
  BY Zenon DEF HasherInv, VMInv, ThreadInv, FieldTypes, HasherTypeOK
<1>2. HasherInv /\ [Next]_vars => HasherInv'
  BY HasherInvStep
<1>3. QED
  BY <1>1, <1>2, HasherInitInv, PTL DEF Spec

(* Although no lock is held, client and workers take turns at the machines *)
(* as VMSpec says: no machine is reset while its worker executes it.       *)
THEOREM HasherTakesTurns == ClientStops /\ ClientResetsVMs => (Spec => MachinesTakeTurns)
<1> SUFFICES ASSUME ClientStops, ClientResetsVMs PROVE Spec => MachinesTakeTurns
  OBVIOUS
<1>1. HasherInit => VMInit
  BY DEF HasherInit
<1>2. HasherInv /\ [Next]_vars => HasherInv' /\ [VMNext]_vmVars
  BY HasherInvStep
<1>3. QED
  BY <1>1, <1>2, HasherInitInv, PTL DEF Spec, MachinesTakeTurns, VMSpec

(* The hasher's machines deliver the hashes they promise: the hasher       *)
(* implements VMSpec, which implements HashStream.                         *)
THEOREM HasherDeliversStream == ClientStops /\ ClientResetsVMs => (Spec => DeliversStream)
<1>1. MachinesTakeTurns => DeliversStream
  BY VMImplementsStream DEF MachinesTakeTurns
<1>2. QED
  BY <1>1, HasherTakesTurns

(* A program never runs over no dataset, nor over one a later reset() has  *)
(* freed: the address that executeNext() holds is that of the dataset.     *)
THEOREM HasherDatasetLive == ClientStops /\ ClientResetsVMs => (Spec => []DatasetLive)
<1> SUFFICES ASSUME ClientStops, ClientResetsVMs PROVE Spec => []DatasetLive
  OBVIOUS
<1>1. HasherInv => DatasetLive
  <2>1. SUFFICES ASSUME HasherInv, NEW v \in VMs, vm[v].pc = "program"
                 PROVE  vm[v].dataset_ptr # NoDataset /\ vm[v].dataset_ptr = dataset
    BY DEF DatasetLive
  <2>2. Ready
    BY <2>1 DEF HasherInv, ThreadInv, Engaged, Occupied
  <2>3. MachineIntact(vm[v], delivered[v])
    BY <2>1 DEF HasherInv, VMInv
  <2>4. vm[v].dataset_ptr = vm[v].dataset /\ vm[v].dataset \in Datasets
    BY <2>1, <2>2, <2>3 DEF Ready, MachineIntact, MemoryIntact
  <2>5. QED
    BY <2>2, <2>4, VMAssumption DEF Ready
<1>2. HasherInv /\ [Next]_vars => HasherInv'
  BY HasherInvStep
<1>3. QED
  BY <1>1, <1>2, HasherInitInv, PTL DEF Spec

-----------------------------------------------------------------------------
(* The key: what reset() compares and stores is what the dataset is of.    *)
PrefixFree == \A j, k \in Keys : IsPrefix(j, k) => j = k

KeyInv ==
    /\ main \notin {"generate", "terminated"} /\ key # <<>> =>
          dataset # NoDataset /\ dataset.key = key
    /\ asked # <<>> => asked = key

LEMMA KeyInvStep ==
  ASSUME HasherInv, KeyInv, PrefixFree, ~ GenerationFails, ClientStops, ClientResetsVMs,
         [Next]_vars
  PROVE  KeyInv'
<1> USE HasherAssumption DEF HasherInv, ThreadInv
<1>1. CASE main' = main /\ UNCHANGED keyVars
  BY <1>1 DEF KeyInv, keyVars
<1>2. CASE main \notin {"generate", "terminated"} /\ main' # "generate" /\ UNCHANGED keyVars
  BY <1>2 DEF KeyInv, keyVars
<1>3. ASSUME NEW k \in Keys, Reset(k)
      PROVE  KeyInv'
  BY <1>3 DEF Reset, KeyInv
<1>4. ASSUME NEW k \in Keys, ResetSameKey(k)
      PROVE  KeyInv'
  <2>1. key \in Keys /\ (IsPrefix(k, key) \/ IsPrefix(key, k))
    BY <1>4 DEF ResetSameKey, KeyUnchanged, FieldTypes, IsStrictPrefix
  <2>2. k = key
    BY <2>1, Zenon DEF PrefixFree
  <2>3. QED
    BY <1>4, <2>2 DEF ResetSameKey, KeyInv, Call
<1>5. CASE Generate
  <2>1. dataset' \in Datasets /\ dataset'.key = key'
    BY <1>5 DEF Generate, Quiet, FieldTypes
  <2>2. dataset' # NoDataset
    BY <2>1, VMAssumption
  <2>3. QED
    BY <1>5, <2>1, <2>2 DEF Generate, KeyInv
<1>6. CASE ResetMachine
  BY <1>2, <1>6 DEF ResetMachine
<1>7. CASE MainStep /\ ~ Generate /\ ~ GenerateTerminates
  BY <1>2, <1>7 DEF MainStep, Spawn, SpawnThrows, WaitInit, RunReturns, RunFails,
     JoinWorkers, GenerateThrows
<1>12. CASE GenerateTerminates
  BY <1>12 DEF GenerateTerminates, KeyInv, keyVars
<1>8. CASE Run \/ RunAgain \/ Stop \/ StopIgnored \/ Destroy \/ \E t \in Template : ResetVM(t)
  BY <1>2, <1>8 DEF Run, RunAgain, Stop, StopIgnored, Destroy, ResetVM, Call
<1>9. ASSUME NEW v \in VMs, WorkerStep(v) \/ WorkerExecutes(v)
      PROVE  KeyInv'
  <2>1. UNCHANGED keyVars /\ main' \in {main, "terminated"} /\ worker[v] # "none"
    BY <1>9 DEF WorkerStep, Announce, SetAffinity, AffinityThrows, ReportFailure,
       CheckRunning, WorkerAtBound, WorkerExecutes, callVars
  <2>2. main # "generate"
    BY <2>1 DEF Engaged, Quiet
  <2>3. QED
    BY <2>1, <2>2 DEF KeyInv, keyVars
<1>10. CASE UNCHANGED vars
  BY <1>1, <1>10 DEF vars, callVars
<1>11. QED
  BY <1>3, <1>4, <1>5, <1>6, <1>7, <1>8, <1>9, <1>10, <1>12, HasherSteps DEF ClientStep

(* A reset(k) that returns leaves the dataset of k, however often keys are *)
(* set, if no key is a prefix of another and the generation never throws:  *)
(* both are needed, see the runs MCHasherPrefixKey and MCHasherRetry.      *)
THEOREM HasherResetTakesEffect ==
  ClientStops /\ ClientResetsVMs /\ ~ GenerationFails /\ PrefixFree => (Spec => []ResetTakesEffect)
<1> SUFFICES ASSUME ClientStops, ClientResetsVMs, ~ GenerationFails, PrefixFree
             PROVE  Spec => []ResetTakesEffect
  OBVIOUS
<1>1. HasherInit => KeyInv
  BY DEF HasherInit, KeyInv
<1>2. KeyInv => ResetTakesEffect
  BY DEF KeyInv, ResetTakesEffect
<1>3. HasherInv /\ [Next]_vars => HasherInv'
  BY HasherInvStep
<1>4. HasherInv /\ KeyInv /\ [Next]_vars => KeyInv'
  BY KeyInvStep
<1>5. QED
  BY <1>1, <1>2, <1>3, <1>4, HasherInitInv, PTL DEF Spec

-----------------------------------------------------------------------------
(* The counter that the workers write into run()'s activation: as long as  *)
(* run() waits it is the number of workers that have written it.           *)
Counted == {v \in VMs : worker[v] \notin {"none", "start"}}

StartInv ==
    /\ stray = FALSE
    /\ \A v \in VMs : worker[v] # "refused"
    /\ main \in {"spawn", "wait"} => frame = TRUE /\ vm_init = Cardinality(Counted)
    /\ main \notin {"spawn", "wait", "terminated"} => \A v \in VMs : worker[v] # "start"

LEMMA CountedFinite ==
  /\ IsFiniteSet(Counted) /\ Cardinality(Counted) <= N
  /\ Cardinality(Counted) = N => Counted = VMs
<1>1. IsFiniteSet(VMs) /\ Cardinality(VMs) = N
  BY FS_Interval, HasherAssumption
<1>2. Counted \in SUBSET VMs
  BY DEF Counted
<1>3. QED
  BY <1>1, <1>2, FS_Subset

LEMMA StartInvStep ==
  ASSUME HasherInv, StartInv, ~ AffinityFails, ~ SpawnFails, ClientStops, ClientResetsVMs,
         [Next]_vars
  PROVE  StartInv'
<1> USE DEF HasherInv, ThreadInv
<1>1. ASSUME UNCHANGED <<worker, stray, vm_init, frame>>,
             main' = main \/ main' = "terminated"
                \/ {main, main'} \cap {"spawn", "wait", "terminated"} = {}
      PROVE  StartInv'
  BY <1>1 DEF StartInv, Counted
<1>2. CASE Run
  <2>1. \A v \in VMs : worker[v] = "none"
    BY <1>2 DEF Run, Engaged
  <2>2. Counted' = {} /\ Cardinality({}) = 0
    BY <1>2, <2>1, FS_EmptySet DEF Run, Counted
  <2>3. QED
    BY <1>2, <2>1, <2>2 DEF Run, StartInv
<1>3. CASE RunAgain \/ Stop \/ StopIgnored \/ Destroy
           \/ (\E k \in Keys : Reset(k) \/ ResetSameKey(k)) \/ \E t \in Template : ResetVM(t)
  BY <1>1, <1>3 DEF RunAgain, Stop, StopIgnored, Destroy, Reset, ResetSameKey, ResetVM,
     Call, threadVars
<1>4. CASE Spawn
  <2>1. PICK k \in VMs : k \notin vm_workers /\ worker' = [worker EXCEPT ![k] = "start"]
    <3>1. PICK k \in 0 .. N : vm_workers = 0 .. k - 1 /\ k < N
      BY <1>4 DEF Crew, Spawn
    <3>2. Cardinality(vm_workers) = k
      BY <3>1, FS_Interval
    <3>3. k \in VMs /\ k \notin vm_workers
      BY <3>1, HasherAssumption
    <3>4. QED
      BY <1>4, <3>2, <3>3 DEF Spawn
  <2>2. worker[k] = "none" /\ worker \in [VMs -> WorkerStates]
    BY <2>1 DEF Engaged, FieldTypes
  <2>3. Counted' = Counted /\ \A v \in VMs : worker'[v] # "refused"
    BY <2>1, <2>2 DEF Counted, StartInv
  <2>4. QED
    BY <1>4, <2>3 DEF Spawn, StartInv
<1>5. CASE WaitInit
  <2>1. vm_init = N
    BY <1>5, CountedFinite, FS_CardinalityType, HasherAssumption DEF WaitInit, Awaited, StartInv,
       FieldTypes
  <2>2. Counted = VMs
    BY <1>5, <2>1, CountedFinite DEF WaitInit, StartInv
  <2>3. \A v \in VMs : worker[v] # "start"
    BY <2>2 DEF Counted
  <2>4. QED
    BY <1>5, <2>3 DEF WaitInit, StartInv, threadVars
<1>6. CASE \/ RunReturns \/ RunFails \/ Generate \/ GenerateThrows
           \/ GenerateTerminates \/ ResetMachine
  <2>1. main \notin {"spawn", "wait", "terminated"} /\ main' \notin {"spawn", "wait", "terminated"}
    BY <1>6 DEF RunReturns, RunFails, Generate, GenerateThrows,
       GenerateTerminates, ResetMachine
  <2>2. UNCHANGED <<worker, stray>>
    BY <1>6 DEF RunReturns, RunFails, Generate, GenerateThrows,
       GenerateTerminates, ResetMachine, threadVars
  <2>3. QED
    BY <2>1, <2>2 DEF StartInv
<1>7. CASE JoinWorkers
  BY <1>7 DEF JoinWorkers, StartInv
<1>8. ASSUME NEW v \in VMs, Announce(v), main # "terminated"
      PROVE  StartInv'
  <2>1. main \in {"spawn", "wait"} /\ frame = TRUE /\ vm_init = Cardinality(Counted)
    BY <1>8 DEF Announce, StartInv
  <2>2. /\ v \notin Counted /\ Counted' = Counted \union {v}
        /\ \A u \in VMs : worker'[u] # "refused"
    BY <1>8 DEF Announce, Counted, FieldTypes, StartInv
  <2>3. Cardinality(Counted') = Cardinality(Counted) + 1
    BY <2>2, CountedFinite, FS_AddElement
  <2>4. vm_init' = vm_init + 1 /\ stray' = FALSE /\ UNCHANGED <<frame, main>>
    BY <1>8, <2>1 DEF Announce, AddInit, StartInv, callVars
  <2>5. QED
    BY <2>1, <2>2, <2>3, <2>4 DEF StartInv
<1>9. ASSUME NEW v \in VMs,
             \/ SetAffinity(v) \/ ReportFailure(v) \/ CheckRunning(v)
             \/ WorkerAtBound(v) \/ WorkerExecutes(v)
      PROVE  StartInv'
  <2>1. /\ worker[v] \notin {"none", "start"}
        /\ worker'[v] \notin {"none", "start", "refused"}
        /\ \A u \in VMs : u # v => worker'[u] = worker[u]
        /\ UNCHANGED <<stray, vm_init, frame, main>>
    BY <1>9 DEF SetAffinity, ReportFailure, CheckRunning, WorkerAtBound, WorkerExecutes,
       FieldTypes, StartInv, callVars
  <2>2. Counted' = Counted
    BY <2>1 DEF Counted
  <2>3. QED
    BY <2>1, <2>2 DEF StartInv
<1>10. ASSUME NEW v \in VMs, AffinityThrows(v)
       PROVE  StartInv'
  BY <1>1, <1>10 DEF AffinityThrows, threadVars
<1>11. CASE UNCHANGED vars
  BY <1>1, <1>11 DEF vars, threadVars, callVars
<1>12. QED
  BY <1>2, <1>3, <1>4, <1>5, <1>6, <1>7, <1>8, <1>9, <1>10, <1>11
     DEF Next, Client, Continue, Worker, Finished, SpawnThrows

(* No worker writes run()'s local counter once run() has ended, if threads *)
(* start and are pinned to their cores: a failure of either kind lets run() *)
(* end while others have not yet counted themselves.                        *)
THEOREM HasherNoStrayInit ==
  ClientStops /\ ClientResetsVMs /\ ~ AffinityFails /\ ~ SpawnFails => (Spec => []NoStrayInit)
<1> SUFFICES ASSUME ClientStops, ClientResetsVMs, ~ AffinityFails, ~ SpawnFails
             PROVE  Spec => []NoStrayInit
  OBVIOUS
<1>1. HasherInit => StartInv
  BY DEF HasherInit, StartInv
<1>2. StartInv => NoStrayInit
  BY Zenon DEF StartInv, NoStrayInit
<1>3. HasherInv /\ [Next]_vars => HasherInv'
  BY HasherInvStep
<1>4. HasherInv /\ StartInv /\ [Next]_vars => StartInv'
  BY StartInvStep
<1>5. QED
  BY <1>1, <1>2, <1>3, <1>4, HasherInitInv, PTL DEF Spec

-----------------------------------------------------------------------------
(* The nonces: arithmetic of a counter that wraps, and of equal shares.    *)
LEMMA ModUnique ==
  ASSUME NEW M \in Nat \ {0}, NEW q \in Int, NEW r \in 0 .. M - 1
  PROVE  (q * M + r) % M = r
<1> DEFINE a == q * M + r
           d == a \div M
           m == a % M
<1>1. d \in Int /\ m \in Int /\ a = d * M + m /\ 0 <= m /\ m < M
  BY SMT
<1>2. m = a % M
  OBVIOUS
<1> HIDE DEF d, m
<1>3. ASSUME NEW b \in Int, NEW c \in Int, b < c PROVE b * M + M <= c * M
  <2>1. PICK e \in Nat : c = (b + 1) + e
    <3>1. (c - b) - 1 \in Nat /\ c = (b + 1) + ((c - b) - 1)
      BY <1>3
    <3>2. QED
      BY <3>1
  <2>2. c * M = (b * M + M) + e * M /\ e * M \in Nat
    BY <2>1
  <2>3. QED
    BY <2>2
<1>4. ~ (d < q)
  BY <1>1, <1>3
<1>5. ~ (q < d)
  BY <1>1, <1>3
<1>6. d = q
  BY <1>1, <1>4, <1>5
<1>7. QED
  BY <1>1, <1>2, <1>6

LEMMA ModSplit ==
  ASSUME NEW M \in Nat \ {0}, NEW a \in Int
  PROVE  a % M \in 0 .. M - 1 /\ \E q \in Int : a = q * M + (a % M)
<1> DEFINE d == a \div M
           m == a % M
<1>1. d \in Int /\ m \in Int /\ a = d * M + m /\ 0 <= m /\ m < M
  BY SMT
<1>2. m = a % M
  OBVIOUS
<1> HIDE DEF d, m
<1>3. a % M \in 0 .. M - 1 /\ a = d * M + (a % M)
  BY <1>1, <1>2
<1>4. QED
  BY <1>1, <1>3, Zenon

LEMMA ModAdd ==
  ASSUME NEW M \in Nat \ {0}, NEW a \in Int, NEW n \in Int
  PROVE  ((a % M) + n) % M = (a + n) % M
<1> DEFINE r == a % M
           s == (a + n) % M
<1>1. PICK q \in Int : a = q * M + r
  BY ModSplit
<1>2. r \in 0 .. M - 1
  BY ModSplit
<1>3. a + n \in Int
  OBVIOUS
<1>4. s \in 0 .. M - 1 /\ \E p \in Int : a + n = p * M + s
  BY <1>3, ModSplit
<1>5. PICK p \in Int : a + n = p * M + s
  BY <1>4
<1> HIDE DEF r, s
<1>6. r + n = (p - q) * M + s /\ p - q \in Int
  BY <1>1, <1>2, <1>4, <1>5
<1>7. ((p - q) * M + s) % M = s
  BY <1>4, <1>6, ModUnique, Zenon
<1>8. QED
  BY <1>6, <1>7 DEF r, s

LEMMA ModDistinct ==
  ASSUME NEW M \in Nat \ {0}, NEW a \in Int, NEW b \in Int, a < b, b - a < M
  PROVE  a % M # b % M
<1> SUFFICES ASSUME a % M = b % M PROVE FALSE
  OBVIOUS
<1> DEFINE r == a % M
<1>1. PICK p \in Int : a = p * M + r
  BY ModSplit
<1>2. PICK q \in Int : b = q * M + r
  BY ModSplit
<1>3. r \in Int
  BY ModSplit
<1> HIDE DEF r
<1>4. b - a = (q - p) * M /\ q - p \in Int
  BY <1>1, <1>2, <1>3
<1>5. PICK e \in Int : e = q - p
  BY <1>4
<1>6. b - a = e * M
  BY <1>4, <1>5
<1>7. CASE e <= 0
  <2>1. PICK f \in Nat : e = - f
    <3>1. - e \in Nat /\ e = - (- e)
      BY <1>7
    <3>2. QED
      BY <3>1
  <2>2. f * M \in Nat /\ e * M = - (f * M)
    BY <2>1
  <2>3. QED
    BY <1>6, <2>2
<1>8. CASE e > 0
  <2>1. PICK f \in Nat : e = f + 1
    <3>1. e - 1 \in Nat /\ e = (e - 1) + 1
      BY <1>8
    <3>2. QED
      BY <3>1
  <2>2. f * M \in Nat /\ e * M = f * M + M
    BY <2>1
  <2>3. QED
    BY <1>6, <2>2
<1>9. QED
  BY <1>7, <1>8

LEMMA OffsetNat == NonceOffset \in Nat /\ N * NonceOffset < Nonce_Values
<1> DEFINE d == (Nonce_Values - 1) \div N
           m == (Nonce_Values - 1) % N
<1>1. N \in Nat \ {0} /\ Nonce_Values - 1 \in Nat
  BY HasherAssumption, VMAssumption
<1>2. d \in Nat /\ m \in Nat /\ Nonce_Values - 1 = d * N + m
  BY <1>1, SMT
<1>3. NonceOffset = d
  BY DEF NonceOffset
<1> HIDE DEF d, m
<1>4. N * d = d * N /\ d * N \in Nat
  BY <1>1, <1>2
<1>5. Nonce_Values = (d * N + m) + 1
  BY <1>2, VMAssumption
<1>6. N * d < Nonce_Values
  BY <1>2, <1>4, <1>5
<1>7. QED
  BY <1>2, <1>3, <1>6

(* Positions in two machines' shares are less than the number of nonces apart. *)
LEMMA SharesApart ==
  ASSUME NEW u \in VMs, NEW v \in VMs, u < v,
         NEW j \in 1 .. NonceOffset, NEW k \in 1 .. NonceOffset
  PROVE  LET x == u * NonceOffset + (j - 1)
             y == v * NonceOffset + (k - 1)
         IN  x \in Nat /\ y \in Nat /\ x < y /\ y - x < Nonce_Values
<1>1. PICK w \in Nat : w = NonceOffset
  BY OffsetNat
<1>2. /\ u \in Nat /\ v \in Nat /\ v <= N - 1 /\ N \in Nat /\ N * w < Nonce_Values
      /\ j \in 1 .. w /\ k \in 1 .. w /\ Nonce_Values \in Nat
  BY <1>1, OffsetNat, HasherAssumption, VMAssumption
<1>3. PICK e \in Nat : v = (u + 1) + e
  <2>1. (v - u) - 1 \in Nat /\ v = (u + 1) + ((v - u) - 1)
    BY <1>2
  <2>2. QED
    BY <2>1
<1>4. PICK f \in Nat : N = (v + 1) + f
  <2>1. (N - v) - 1 \in Nat /\ N = (v + 1) + ((N - v) - 1)
    BY <1>2
  <2>2. QED
    BY <2>1
<1>5. v * w = (u * w + w) + e * w /\ e * w \in Nat /\ u * w \in Nat
  BY <1>2, <1>3
<1>6. N * w = (v * w + w) + f * w /\ f * w \in Nat /\ v * w \in Nat
  BY <1>2, <1>4
<1>7. QED
  BY <1>1, <1>2, <1>5, <1>6

LEMMA NextByNext ==
  ASSUME NEW t \in Template, NEW m \in Nat, NEW n \in Nat
  PROVE  NextBy(NextBy(t, m), n) = NextBy(t, m + n)
<1>1. t.nonce \in Int /\ Nonce_Values \in Nat \ {0}
  BY VMAssumption DEF Template
<1>2. (((t.nonce + m) % Nonce_Values) + n) % Nonce_Values = ((t.nonce + m) + n) % Nonce_Values
  <2>1. t.nonce + m \in Int /\ n \in Int
    BY <1>1
  <2>2. QED
    BY <1>1, <2>1, ModAdd
<1>3. (t.nonce + m) + n = t.nonce + (m + n)
  BY <1>1
<1>4. QED
  BY <1>2, <1>3, Zenon DEF NextBy

LEMMA NextByZero == \A t \in Template : NextBy(t, 0) = t
<1> SUFFICES ASSUME NEW t \in Template PROVE NextBy(t, 0) = t
  OBVIOUS
<1>1. t.nonce \in 0 .. Nonce_Values - 1 /\ Nonce_Values \in Nat \ {0}
  BY VMAssumption DEF Template
<1>2. (t.nonce + 0) % Nonce_Values = t.nonce
  <2>1. (0 * Nonce_Values + t.nonce) % Nonce_Values = t.nonce
    BY <1>1, ModUnique
  <2>2. 0 * Nonce_Values + t.nonce = t.nonce + 0
    BY <1>1
  <2>3. QED
    BY <2>1, <2>2
<1>3. QED
  BY <1>2 DEF NextBy, Template

LEMMA NextByType ==
  ASSUME NEW t \in Template, NEW n \in Nat
  PROVE  NextBy(t, n) \in Template
<1>1. t.nonce + n \in Int /\ Nonce_Values \in Nat \ {0}
  BY VMAssumption DEF Template
<1>2. (t.nonce + n) % Nonce_Values \in 0 .. Nonce_Values - 1
  BY <1>1, ModSplit
<1>3. QED
  BY <1>2 DEF NextBy, Template

-----------------------------------------------------------------------------
(* The hashes of a machine whose job began with template t. *)
StreamFrom(v, t) ==
    /\ cursors[v] = NextBy(t, Len(delivered[v]))
    /\ \A k \in 1 .. Len(delivered[v]) : delivered[v][k].of = NextBy(t, k - 1)

(* Template machine v starts with when resetVM is given b. *)
Beginning(b, v) == NextBy(b, v * NonceOffset)

Placed(b) ==
    \A v \in VMs : vm[v].stage = "set" /\ (main = "resetVM" => v < resetting.v)
                    => StreamFrom(v, Beginning(b, v))

(* A reset is under way for one machine at most, and all the machines that *)
(* are set, or have been set by the call that is under way, started from   *)
(* templates a multiple of NonceOffset apart.                              *)
ShareInv ==
    /\ \A v \in VMs : vm[v].stage \in {"template", "flags"} => main = "resetVM" /\ v = resetting.v
    /\ main = "resetVM" /\ vm[resetting.v].stage = "flags" =>
         vm[resetting.v].block_template = resetting.template
    /\ \E b \in Template :
         /\ main = "resetVM" => resetting.template = Beginning(b, resetting.v)
         /\ Placed(b)

LEMMA BeginningType ==
  ASSUME NEW b \in Template, NEW v \in VMs
  PROVE  v * NonceOffset \in Nat /\ Beginning(b, v) \in Template
<1>1. v \in Nat /\ NonceOffset \in Nat
  BY OffsetNat, HasherAssumption
<1>2. v * NonceOffset \in Nat
  BY <1>1
<1>3. QED
  BY <1>2, NextByType DEF Beginning

LEMMA BeginningNext ==
  ASSUME NEW b \in Template, NEW v \in VMs
  PROVE  NextBy(Beginning(b, v), NonceOffset) = Beginning(b, v + 1)
<1>1. v * NonceOffset \in Nat /\ NonceOffset \in Nat
  BY BeginningType, OffsetNat
<1>2. NextBy(Beginning(b, v), NonceOffset) = NextBy(b, v * NonceOffset + NonceOffset)
  BY <1>1, NextByNext DEF Beginning
<1>3. v * NonceOffset + NonceOffset = (v + 1) * NonceOffset
  BY <1>1, HasherAssumption
<1>4. QED
  BY <1>2, <1>3 DEF Beginning

(* A machine that executes goes on with its stream. *)
LEMMA StreamGoesOn ==
  ASSUME HasherInv, NEW v \in VMs, NEW t \in Template, StreamFrom(v, t),
         ExecuteStep(v), vm[v].stage = "set"
  PROVE  StreamFrom(v, t)'
<1>1. delivered[v] \in Seq(Digest) /\ DOMAIN delivered = VMs
  BY DEF HasherInv, VMInv, VMTypeOK
<1>2. CASE Callback(v)
  <2>1. Stream!Deliver(v)
    BY <1>2, DeliverStep DEF HasherInv
  <2>2. /\ delivered' = [delivered EXCEPT ![v] = Append(@, Result(cursors[v], datas[v]))]
        /\ cursors' = [cursors EXCEPT ![v] = Next1(@)]
    BY <2>1 DEF Stream!Deliver, cursors, datas
  <2>3. /\ delivered'[v] = Append(delivered[v], Result(cursors[v], datas[v]))
        /\ cursors'[v] = NextBy(cursors[v], 1)
    BY <1>1, <2>2 DEF cursors, Next1
  <2>4. /\ Len(delivered'[v]) = Len(delivered[v]) + 1
        /\ delivered'[v][Len(delivered[v]) + 1].of = cursors[v]
        /\ \A k \in 1 .. Len(delivered[v]) : delivered'[v][k] = delivered[v][k]
    BY <1>1, <2>3 DEF Result
  <2>5. cursors'[v] = NextBy(t, Len(delivered[v]) + 1)
    <3>1. Len(delivered[v]) \in Nat /\ 1 \in Nat
      BY <1>1
    <3>2. NextBy(NextBy(t, Len(delivered[v])), 1) = NextBy(t, Len(delivered[v]) + 1)
      BY <3>1, NextByNext
    <3>3. QED
      BY <2>3, <3>2 DEF StreamFrom
  <2>6. ASSUME NEW k \in 1 .. Len(delivered'[v])
        PROVE  delivered'[v][k].of = NextBy(t, k - 1)
    <3>1. CASE k \in 1 .. Len(delivered[v])
      BY <2>4, <3>1 DEF StreamFrom
    <3>2. CASE k = Len(delivered[v]) + 1
      <4>1. k - 1 = Len(delivered[v])
        BY <1>1, <3>2
      <4>2. QED
        BY <2>4, <3>2, <4>1 DEF StreamFrom
    <3>3. QED
      BY <1>1, <2>4, <3>1, <3>2
  <2>7. QED
    BY <2>4, <2>5, <2>6 DEF StreamFrom
<1>3. CASE ~ Callback(v)
  <2>1. UNCHANGED Stream!streamVars
    BY <1>3, StutterStep DEF HasherInv, ExecuteStep
  <2>2. cursors' = cursors /\ delivered' = delivered
    BY <2>1 DEF Stream!streamVars, cursors
  <2>3. QED
    BY <2>2 DEF StreamFrom
<1>4. QED
  BY <1>2, <1>3

LEMMA ShareReset ==
  ASSUME HasherInv, ShareInv, ResetMachine
  PROVE  ShareInv'
<1> USE HasherAssumption DEF HasherInv, ThreadInv
<1>0. PICK v \in VMs, t \in Template : v = resetting.v /\ t = resetting.template
  BY DEF FieldTypes
<1>1. /\ main = "resetVM" /\ v = resetting.v /\ t = resetting.template
      /\ vm \in [VMs -> Machine] /\ delivered \in [VMs -> Seq(Digest)]
  BY <1>0 DEF ResetMachine, VMInv, VMTypeOK
<1>2. PICK b \in Template : t = Beginning(b, v) /\ Placed(b)
  BY <1>1 DEF ShareInv
<1>3. \A u \in VMs : u # v => vm[u].stage \notin {"template", "flags"}
  BY <1>1 DEF ShareInv
<1>4. CASE ResetDataset(v, dataset) \/ ResetTemplate(v, t)
  <2>1. UNCHANGED <<main, resetting>>
    BY <1>1, <1>4 DEF ResetMachine, ResetDataset, ResetTemplate, ResetFlags
  <2>2. \A u \in VMs : u # v => vm'[u] = vm[u] /\ delivered'[u] = delivered[u]
    BY <1>1, <1>4 DEF ResetDataset, ResetTemplate
  <2>3. Placed(b)'
    <3>1. SUFFICES ASSUME NEW u \in VMs, u < v
                   PROVE  vm'[u].stage = "set" => StreamFrom(u, Beginning(b, u))'
      BY <1>1, <2>1 DEF Placed
    <3>2. u # v /\ cursors'[u] = cursors[u] /\ delivered'[u] = delivered[u]
      BY <2>2, <3>1 DEF cursors
    <3>3. QED
      BY <1>1, <1>2, <2>2, <3>1, <3>2 DEF Placed, StreamFrom, Beginning
  <2>4. CASE ResetDataset(v, dataset)
    <3>1. vm'[v].stage = "template"
      BY <1>1, <2>4 DEF ResetDataset, Machine
    <3>2. QED
      BY <1>1, <1>2, <1>3, <2>1, <2>2, <2>3, <3>1 DEF ShareInv, Beginning
  <2>5. CASE ResetTemplate(v, t)
    <3>1. vm'[v].stage = "flags" /\ vm'[v].block_template = t
      BY <1>1, <2>5 DEF ResetTemplate, Machine
    <3>2. QED
      BY <1>1, <1>2, <1>3, <2>1, <2>2, <2>3, <3>1 DEF ShareInv, Beginning
  <2>6. QED
    BY <1>4, <2>4, <2>5
<1>5. CASE ResetFlags(v)
  <2>1. /\ vm[v].stage = "flags" /\ vm[v].block_template = t /\ vm[v].pc = "idle"
        /\ delivered[v] = <<>>
    BY <1>1, <1>5 DEF ShareInv, ResetFlags, VMInv, MachineIntact
  <2>2. /\ \A u \in VMs : u # v => vm'[u] = vm[u]
        /\ vm'[v].stage = "set" /\ vm'[v].block_template = t /\ vm'[v].pc = "idle"
        /\ delivered' = delivered
    BY <1>1, <1>5, <2>1 DEF ResetFlags, Machine
  <2>3. StreamFrom(v, t)'
    <3>1. cursors'[v] = t
      BY <1>1, <2>2 DEF cursors, CursorOf, Cursor
    <3>2. delivered'[v] = <<>> /\ Len(delivered'[v]) = 0
      BY <2>1, <2>2
    <3>3. NextBy(t, 0) = t
      BY <1>1, NextByZero
    <3>4. QED
      BY <3>1, <3>2, <3>3 DEF StreamFrom
  <2>4. ASSUME NEW u \in VMs, u < v, vm'[u].stage = "set"
        PROVE  StreamFrom(u, Beginning(b, u))'
    <3>1. u # v /\ cursors'[u] = cursors[u] /\ delivered'[u] = delivered[u]
      BY <2>2, <2>4 DEF cursors
    <3>2. QED
      BY <1>1, <1>2, <2>2, <2>4, <3>1 DEF Placed, StreamFrom, Beginning
  <2>5. /\ v = N - 1 => main' = "idle"
        /\ v # N - 1 => /\ main' = "resetVM"
                        /\ resetting' = [v |-> v + 1, template |-> NextBy(t, NonceOffset)]
    BY <1>1, <2>1 DEF ResetMachine, ResetDataset, ResetTemplate, ResetFlags
  <2>6. main' = "resetVM" => /\ resetting'.v = v + 1
                            /\ resetting'.template = Beginning(b, resetting'.v)
                            /\ vm'[resetting'.v].stage # "flags"
    <3>1. v # N - 1 => v + 1 \in VMs /\ v + 1 # v
      BY <1>1
    <3>2. v # N - 1 => resetting'.v = v + 1 /\ resetting'.template = NextBy(t, NonceOffset)
      BY <2>5
    <3>3. NextBy(t, NonceOffset) = Beginning(b, v + 1)
      BY <1>1, <1>2, BeginningNext
    <3>4. QED
      BY <1>3, <2>2, <2>5, <3>1, <3>2, <3>3
  <2>7. Placed(b)'
    <3>1. SUFFICES ASSUME NEW u \in VMs, vm'[u].stage = "set",
                          main' = "resetVM" => u < resetting'.v
                   PROVE  StreamFrom(u, Beginning(b, u))'
      BY DEF Placed
    <3>2. u < v \/ u = v
      BY <1>1, <2>5, <2>6, <3>1
    <3>3. QED
      BY <1>2, <2>3, <2>4, <3>1, <3>2 DEF StreamFrom, Beginning
  <2>8. \A u \in VMs : vm'[u].stage \notin {"template", "flags"}
    BY <1>3, <2>2
  <2>9. QED
    BY <1>2, <2>6, <2>7, <2>8 DEF ShareInv, Beginning
<1>6. QED
  BY <1>1, <1>4, <1>5 DEF ResetMachine

LEMMA ShareInvStep ==
  ASSUME HasherInv, ShareInv, ClientStops, ClientResetsVMs, [Next]_vars
  PROVE  ShareInv'
<1> USE HasherAssumption DEF HasherInv, ThreadInv
<1>1. ASSUME UNCHANGED <<vmVars, resetting>>, main # "resetVM", main' # "resetVM"
      PROVE  ShareInv'
  <2>1. UNCHANGED <<vm, delivered, cursors>>
    BY <1>1 DEF vmVars, cursors
  <2>2. PICK b \in Template : Placed(b)
    BY DEF ShareInv
  <2>3. Placed(b)'
    BY <1>1, <2>1, <2>2 DEF Placed, StreamFrom, Beginning
  <2>4. QED
    BY <1>1, <2>1, <2>3 DEF ShareInv
<1>2. CASE UNCHANGED vars
  <2>1. UNCHANGED <<vm, delivered, main, resetting, cursors>>
    BY <1>2 DEF vars, vmVars, callVars, cursors
  <2>2. QED
    BY <2>1 DEF ShareInv, Placed, StreamFrom, Beginning
<1>3. ASSUME NEW t \in Template, ResetVM(t)
      PROVE  ShareInv'
  <2>1. /\ main = "idle" /\ main' = "resetVM" /\ resetting' = [v |-> 0, template |-> t]
        /\ UNCHANGED vm
    BY <1>3 DEF ResetVM, Call, vmVars
  <2>2. \A v \in VMs : vm[v].stage \notin {"template", "flags"}
    BY <2>1 DEF ShareInv
  <2>3. 0 \in VMs /\ \A v \in VMs : ~ (v < 0)
    OBVIOUS
  <2>4. Placed(t)'
    BY <2>1, <2>3 DEF Placed
  <2>5. Beginning(t, 0) = t
    <3>1. 0 * NonceOffset = 0
      BY OffsetNat
    <3>2. QED
      BY <3>1, NextByZero DEF Beginning
  <2>6. resetting'.template = Beginning(t, resetting'.v)
    BY <2>1, <2>5
  <2>7. QED
    BY <2>1, <2>2, <2>3, <2>4, <2>6 DEF ShareInv, Beginning
<1>4. CASE ClientStep /\ ~ \E t \in Template : ResetVM(t)
  BY <1>1, <1>4 DEF ClientStep, Run, RunAgain, Stop, StopIgnored, Destroy, Reset,
     ResetSameKey, Call
<1>5. CASE MainStep
  BY <1>1, <1>5 DEF MainStep, Spawn, SpawnThrows, WaitInit, RunReturns, RunFails,
     JoinWorkers, Generate, GenerateThrows, GenerateTerminates
<1>6. CASE ResetMachine
  BY <1>6, ShareReset
<1>7. ASSUME NEW v \in VMs, WorkerStep(v)
      PROVE  ShareInv'
  <2>1. UNCHANGED <<vmVars, resetting>> /\ main' \in {main, "terminated"} /\ worker[v] # "none"
    BY <1>7 DEF WorkerStep, Announce, SetAffinity, AffinityThrows, ReportFailure,
       CheckRunning, WorkerAtBound, callVars
  <2>2. main # "resetVM"
    BY <2>1 DEF Engaged, Quiet
  <2>3. QED
    BY <1>1, <2>1, <2>2
<1>8. ASSUME NEW v \in VMs, WorkerExecutes(v)
      PROVE  ShareInv'
  <2>1. ExecuteStep(v) /\ worker[v] # "none" /\ UNCHANGED <<main, resetting>>
    BY <1>8 DEF WorkerExecutes, callVars
  <2>2. main # "resetVM" /\ Ready
    BY <2>1 DEF Engaged, Quiet, Occupied
  <2>3. PICK b \in Template : Placed(b)
    BY DEF ShareInv
  <2>4. /\ \A u \in VMs : u # v => vm'[u] = vm[u] /\ delivered'[u] = delivered[u]
        /\ vm'[v].stage = "set"
    <3>1. delivered' = delivered \/ \E s : delivered' = [delivered EXCEPT ![v] = s]
      BY <2>1 DEF ExecuteStep, Execute, InitializeMemory, ExecuteNext, RunProgram,
         NextTemplate, HashAndFill, Callback
    <3>2. QED
      BY <2>1, <2>2, <3>1, ExecuteStepKeeps DEF Ready, VMInv, VMTypeOK
  <2>5. ASSUME NEW u \in VMs
        PROVE  StreamFrom(u, Beginning(b, u))'
    <3>1. StreamFrom(u, Beginning(b, u)) /\ vm[u].stage = "set"
      BY <2>2, <2>3 DEF Placed, Ready
    <3>2. CASE u = v
      <4>1. PICK t \in Template : t = Beginning(b, u)
        BY BeginningType
      <4>2. StreamFrom(v, t)'
        BY <2>1, <3>1, <3>2, <4>1, StreamGoesOn
      <4>3. QED
        BY <3>2, <4>1, <4>2 DEF StreamFrom, Beginning
    <3>3. CASE u # v
      <4>1. cursors'[u] = cursors[u] /\ delivered'[u] = delivered[u]
        BY <2>4, <3>3 DEF cursors
      <4>2. QED
        BY <3>1, <4>1 DEF StreamFrom, Beginning
    <3>4. QED
      BY <3>2, <3>3
  <2>6. \A u \in VMs : vm'[u].stage = "set"
    BY <2>2, <2>4 DEF Ready
  <2>7. Placed(b)'
    BY <2>5 DEF Placed
  <2>8. QED
    BY <2>1, <2>2, <2>6, <2>7 DEF ShareInv
<1>9. QED
  BY <1>2, <1>3, <1>4, <1>5, <1>6, <1>7, <1>8, HasherSteps

(* Two machines never deliver the hash of the same nonce of a job, as long *)
(* as neither has used up its share: the offset resetVM() works out by a   *)
(* division that rounds down is right for any number of machines and       *)
(* nonces, also where the nonces wrap.                                     *)
THEOREM HasherNoncesDisjoint == ClientStops /\ ClientResetsVMs => (Spec => []NoncesDisjoint)
<1> SUFFICES ASSUME ClientStops, ClientResetsVMs PROVE Spec => []NoncesDisjoint
  OBVIOUS
<1>1. HasherInit => ShareInv
  <2> SUFFICES ASSUME HasherInit PROVE ShareInv
    OBVIOUS
  <2>1. main = "idle" /\ \A v \in VMs : vm[v].stage = "unset"
    BY DEF HasherInit, VMInit
  <2>2. PICK t \in Template : TRUE
    BY DEF HasherInit, VMInit
  <2>3. QED
    BY <2>1, <2>2 DEF ShareInv, Placed
<1>2. HasherInv /\ ShareInv => NoncesDisjoint
  <2>1. SUFFICES ASSUME HasherInv, ShareInv, main # "resetVM",
                        NEW u \in VMs, NEW v \in VMs, u # v,
                        NEW j \in 1 .. Len(delivered[u]), NEW k \in 1 .. Len(delivered[v]),
                        j <= Share, k <= Share
                 PROVE  delivered[u][j].of # delivered[v][k].of
    BY Zenon DEF NoncesDisjoint
  <2>2. PICK b \in Template : Placed(b)
    BY <2>1 DEF ShareInv
  <2>3. Share = NonceOffset
    BY DEF Share, NonceOffset
  <2>4. ASSUME NEW w \in VMs, NEW i \in 1 .. Len(delivered[w]), i <= Share
        PROVE  /\ i \in 1 .. NonceOffset
               /\ delivered[w][i].of = NextBy(b, w * NonceOffset + (i - 1))
    <3>1. delivered[w] \in Seq(Digest) /\ MachineIntact(vm[w], delivered[w])
      BY <2>1 DEF HasherInv, VMInv, VMTypeOK
    <3>2. vm[w].stage = "set"
      BY <2>4, <3>1 DEF MachineIntact
    <3>3. delivered[w][i].of = NextBy(Beginning(b, w), i - 1)
      BY <2>1, <2>2, <2>4, <3>2 DEF Placed, StreamFrom
    <3>4. i - 1 \in Nat /\ w * NonceOffset \in Nat /\ i \in 1 .. NonceOffset
      BY <2>3, <2>4, <3>1, BeginningType, OffsetNat
    <3>5. NextBy(Beginning(b, w), i - 1) = NextBy(b, w * NonceOffset + (i - 1))
      BY <3>4, NextByNext DEF Beginning
    <3>6. QED
      BY <3>3, <3>4, <3>5
  <2>5. ASSUME NEW x \in Nat, NEW y \in Nat, x < y, y - x < Nonce_Values
        PROVE  NextBy(b, x) # NextBy(b, y)
    <3>1. /\ b.nonce + x \in Int /\ b.nonce + y \in Int /\ Nonce_Values \in Nat \ {0}
          /\ b.nonce + x < b.nonce + y /\ (b.nonce + y) - (b.nonce + x) < Nonce_Values
      BY <2>5, VMAssumption DEF Template
    <3>2. (b.nonce + x) % Nonce_Values # (b.nonce + y) % Nonce_Values
      BY <3>1, ModDistinct
    <3>3. NextBy(b, x).nonce # NextBy(b, y).nonce
      BY <3>2 DEF NextBy
    <3>4. QED
      BY <3>3
  <2> DEFINE x == u * NonceOffset + (j - 1)
             y == v * NonceOffset + (k - 1)
  <2>6. /\ j \in 1 .. NonceOffset /\ delivered[u][j].of = NextBy(b, x)
        /\ k \in 1 .. NonceOffset /\ delivered[v][k].of = NextBy(b, y)
    BY <2>1, <2>4
  <2>7. CASE u < v
    <3>1. x \in Nat /\ y \in Nat /\ x < y /\ y - x < Nonce_Values
      BY <2>7, <2>6, SharesApart
    <3>2. QED
      BY <2>5, <2>6, <3>1, Zenon
  <2>8. CASE v < u
    <3>1. y \in Nat /\ x \in Nat /\ y < x /\ x - y < Nonce_Values
      BY <2>8, <2>6, SharesApart
    <3>2. QED
      BY <2>5, <2>6, <3>1, Zenon
  <2>9. QED
    BY <2>1, <2>7, <2>8, HasherAssumption
<1>3. HasherInv /\ [Next]_vars => HasherInv'
  BY HasherInvStep
<1>4. HasherInv /\ ShareInv /\ [Next]_vars => ShareInv'
  BY ShareInvStep
<1>5. QED
  BY <1>1, <1>2, <1>3, <1>4, HasherInitInv, PTL DEF Spec

-----------------------------------------------------------------------------
(* Failures: the flag running is set while threads exist that have not     *)
(* been told to stop.                                                      *)
CleanInv ==
    /\ main \in {"spawn", "wait", "check"} => running = TRUE
    /\ main \in {"wait", "check"} => vm_workers = VMs
    /\ main = "join" => running = FALSE
    /\ main \notin {"join", "terminated"} /\ vm_workers # {} => running = TRUE
    /\ outcome = "threw" => main \in {"join", "idle", "terminated"}
    /\ outcome = "threw" /\ main = "idle" => vm_workers = {} /\ running = FALSE
    /\ CrashCause

LEMMA CrewSize ==
  ASSUME HasherInv
  PROVE  /\ Cardinality(vm_workers) \in 0 .. N
         /\ Cardinality(vm_workers) = N <=> vm_workers = VMs
         /\ Cardinality(vm_workers) = 0 <=> vm_workers = {}
         /\ main = "spawn" => Cardinality(vm_workers) < N
<1> USE HasherAssumption
<1>1. PICK k \in 0 .. N : vm_workers = 0 .. k - 1 /\ (main = "spawn" => k < N)
  BY DEF HasherInv, ThreadInv, Crew
<1>2. Cardinality(vm_workers) = k
  BY <1>1, FS_Interval
<1>3. IsFiniteSet(VMs) /\ Cardinality(VMs) = N
  BY FS_Interval
<1>4. k = N <=> vm_workers = VMs
  BY <1>1, <1>2, <1>3
<1>5. k = 0 <=> vm_workers = {}
  BY <1>1, <1>2, FS_EmptySet
<1>6. QED
  BY <1>1, <1>2, <1>4, <1>5

LEMMA CleanInvStep ==
  ASSUME HasherInv, CleanInv, ClientStops, ClientResetsVMs, [Next]_vars
  PROVE  CleanInv'
<1> USE HasherAssumption DEF HasherInv, ThreadInv
<1>1. running = TRUE \/ running = FALSE
  BY Zenon DEF FieldTypes
<1>2. CASE Run
  BY <1>2, Zenon DEF Run, Call, CleanInv, CrashCause
<1>3. CASE RunAgain \/ StopIgnored
  BY <1>3 DEF RunAgain, StopIgnored, Call, CleanInv, CrashCause, threadVars
<1>4. CASE Stop
  BY <1>4 DEF Stop, Call, CleanInv, CrashCause
<1>5. CASE Destroy
  <2>1. CASE StopGuard /\ running' = FALSE /\ main' = "join"
    BY <1>5, <2>1 DEF Destroy, CleanInv, CrashCause
  <2>2. CASE ~ StopGuard /\ running' = running
             /\ main' = IF vm_workers = {} THEN "destroyed" ELSE "terminated"
    <3>1. main = "idle" /\ vm_workers' = vm_workers /\ outcome' = "destroying"
      BY <1>5 DEF Destroy, Call
    <3>2. vm_workers # {} => ~ (Cardinality(vm_workers) >= N)
      BY <2>2, <3>1 DEF StopGuard, CleanInv
    <3>3. vm_workers # {} => Cardinality(vm_workers) \in 1 .. N - 1
      BY <3>2, CrewSize
    <3>4. QED
      BY <2>2, <3>1, <3>3 DEF CleanInv, CrashCause
  <2>3. QED
    BY <1>5, <2>1, <2>2, Zenon DEF Destroy
<1>6. ASSUME NEW k \in Keys, Reset(k) \/ ResetSameKey(k)
      PROVE  CleanInv'
  BY <1>6 DEF Reset, ResetSameKey, Call, CleanInv, CrashCause, threadVars
<1>7. ASSUME NEW t \in Template, ResetVM(t)
      PROVE  CleanInv'
  BY <1>7 DEF ResetVM, Call, CleanInv, CrashCause, threadVars
<1>8. CASE Spawn
  <2>1. PICK k \in 0 .. N : vm_workers = 0 .. k - 1 /\ k < N
    BY <1>8 DEF Crew, Spawn
  <2>2. Cardinality(vm_workers) = k
    BY <2>1, FS_Interval
  <2>3. k = N - 1 => vm_workers \union {k} = VMs
    BY <2>1
  <2>4. QED
    BY <1>8, <2>2, <2>3 DEF Spawn, CleanInv, CrashCause
<1>9. CASE SpawnThrows \/ WaitInit \/ RunReturns
  BY <1>9 DEF SpawnThrows, WaitInit, RunReturns, CleanInv, CrashCause, threadVars
<1>10. CASE RunFails
  <2>1. StopGuard
    <3>1. running = TRUE /\ vm_workers = VMs
      BY <1>10 DEF RunFails, CleanInv
    <3>2. Cardinality(vm_workers) >= N
      BY <3>1, CrewSize
    <3>3. QED
      BY <3>1, <3>2 DEF StopGuard
  <2>2. running' = FALSE /\ main' = "join" /\ UNCHANGED vm_workers
    BY <1>10, <2>1 DEF RunFails
  <2>3. QED
    BY <2>2 DEF CleanInv, CrashCause
<1>11. CASE JoinWorkers
  BY <1>11 DEF JoinWorkers, CleanInv, CrashCause
<1>12. CASE Generate \/ GenerateThrows \/ GenerateTerminates \/ ResetMachine
  BY <1>12 DEF Generate, GenerateThrows, GenerateTerminates, ResetMachine, CleanInv,
     CrashCause, threadVars
<1>13. ASSUME NEW v \in VMs, main # "terminated",
              \/ Announce(v) \/ SetAffinity(v) \/ ReportFailure(v) \/ CheckRunning(v)
              \/ WorkerAtBound(v) \/ WorkerExecutes(v)
       PROVE  CleanInv'
  <2>1. UNCHANGED <<running, vm_workers, main, outcome>>
    BY <1>13 DEF Announce, SetAffinity, ReportFailure, CheckRunning, WorkerAtBound,
       WorkerExecutes, callVars
  <2>2. QED
    BY <1>13, <2>1 DEF CleanInv, CrashCause
<1>14. ASSUME NEW v \in VMs, AffinityThrows(v)
       PROVE  CleanInv'
  <2>1. /\ v \in vm_workers /\ worker'[v] = "affinity" /\ main' = "terminated"
        /\ \E bits \in MaskWidths : ~ MaskFits(v, bits)
        /\ UNCHANGED <<vm_workers, outcome>>
    BY <1>14 DEF AffinityThrows, threadVars, Engaged
  <2>2. CrashCause'
    BY <2>1 DEF CrashCause
  <2>3. QED
    BY <2>1, <2>2 DEF CleanInv
<1>15. CASE UNCHANGED vars
  BY <1>15 DEF vars, threadVars, callVars, CleanInv, CrashCause
<1>16. QED
  BY <1>2, <1>3, <1>4, <1>5, <1>6, <1>7, <1>8, <1>9, <1>10, <1>11, <1>12, <1>13, <1>14,
     <1>15 DEF Next, Client, Continue, Worker, Finished

LEMMA CleanInvInit == HasherInit => CleanInv
  BY DEF HasherInit, CleanInv, CrashCause

(* An exception thrown by run() for a failed worker leaves no thread and a *)
(* hasher that can be run again, whichever workers fail.                   *)
THEOREM HasherThrowCleansUp == ClientStops /\ ClientResetsVMs => (Spec => []ThrowCleansUp)
<1> SUFFICES ASSUME ClientStops, ClientResetsVMs PROVE Spec => []ThrowCleansUp
  OBVIOUS
<1>1. CleanInv => ThrowCleansUp
  BY Zenon DEF CleanInv, ThrowCleansUp
<1>2. HasherInv /\ [Next]_vars => HasherInv'
  BY HasherInvStep
<1>3. HasherInv /\ CleanInv /\ [Next]_vars => CleanInv'
  BY CleanInvStep
<1>4. QED
  BY <1>1, <1>2, <1>3, CleanInvInit, HasherInitInv, PTL DEF Spec

(* Nothing ends the process but a core id past the affinity mask, the      *)
(* destruction of a hasher that has only some of its threads, and, with    *)
(* more than one hardware thread, a dataset generation that could not      *)
(* start all of its own.                                                   *)
THEOREM HasherCrashCause == ClientStops /\ ClientResetsVMs => (Spec => []CrashCause)
<1> SUFFICES ASSUME ClientStops, ClientResetsVMs PROVE Spec => []CrashCause
  OBVIOUS
<1>1. CleanInv => CrashCause
  BY DEF CleanInv
<1>2. HasherInv /\ [Next]_vars => HasherInv'
  BY HasherInvStep
<1>3. HasherInv /\ CleanInv /\ [Next]_vars => CleanInv'
  BY CleanInvStep
<1>4. QED
  BY <1>1, <1>2, <1>3, CleanInvInit, HasherInitInv, PTL DEF Spec
=============================================================================
