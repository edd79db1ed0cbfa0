------------------------------- MODULE Hasher -------------------------------
(***************************************************************************)
(* hasher.hpp / hasher.cpp, thread.hpp: the multi-threaded hash generator. *)
(*                                                                         *)
(* One client thread calls run, stop, reset, resetVM and the destructor;   *)
(* run starts one worker thread per virtual machine, which executes its    *)
(* machine in a loop until the atomic flag running is cleared.  The client *)
(* and the workers share running, the counter vm_init (a local of run that *)
(* the workers hold by reference), the dataset and the machines' fields.   *)
(***************************************************************************)
EXTENDS VirtualMachine, SequencesExt

CONSTANTS
    N,              \* vms.size()
    Keys,           \* keys: sequences of bytes, as reset compares them
    MaskWidths,     \* bits to_ulong() can return, depending on the build
    Nonces,         \* nonces of the templates the client passes to resetVM
    Hardware_Threads,\* std::thread::hardware_concurrency()
    ClientStops,    \* does the client stop the hasher before it resets it?
    ClientResetsVMs,\* does it reset the machines before they run over a new dataset?
    OverreadMatches,\* may bytes past the stored key equal those of a longer key?
    AffinityFails,  \* may SetThreadAffinityMask fail?
    SpawnFails,     \* may std::thread fail to start?
    GenerationFails,\* may the dataset generation throw before it has a thread?
    MaxGenerations, \* bound: datasets generated
    MaxCalls        \* bound: calls of the client that have an effect

ASSUME HasherAssumption ==
    /\ N \in Nat \ {0}
    /\ MaxGenerations \in Nat
    /\ MaxCalls \in Nat
    /\ VMs = 0 .. N - 1
    /\ MaskWidths \subseteq Nat
    /\ Hardware_Threads \in Nat \ {0}
    /\ N \in {Hardware_Threads, Hardware_Threads \div 2}
    /\ {ClientStops, ClientResetsVMs, OverreadMatches} \subseteq BOOLEAN
    /\ Nonces \subseteq 0 .. Nonce_Values - 1
    /\ Datasets = [id : 1 .. MaxGenerations, key : Keys]

VARIABLES
    running,     \* Hasher::running
    vm_workers,  \* machines whose thread is in Hasher::vm_workers
    worker,      \* where each worker thread is
    vm_init,     \* local of run(): workers counted, plus N for a failure
    frame,       \* is the activation of run() that owns vm_init alive?
    stray,       \* did a worker write vm_init after that activation ended?
    main,        \* where the client thread is
    outcome,     \* how the client's last call ended
    key,         \* Hasher::key
    asked,       \* key of the client's last reset() that did not throw
    dataset,     \* Hasher::dataset
    generation,  \* datasets generated so far
    resetting,   \* locals of resetVM(): machine and its block template
    calls        \* calls made so far

threadVars == <<running, vm_workers, worker, vm_init, frame, stray>>
keyVars == <<key, asked, dataset, generation>>
callVars == <<main, outcome, resetting, calls>>
vars == <<vmVars, threadVars, keyVars, callVars>>

-----------------------------------------------------------------------------
WorkerStates == {"none", "start", "affinity", "refused", "check", "execute", "returned"}
MainStates == {"idle", "spawn", "wait", "check", "join", "generate", "resetVM",
               "destroyed", "terminated"}
Outcomes == {"none", "returned", "threw", "unspawned", "ungenerated", "unstarted",
             "stopped", "destroying"}

(* resetVM: the machines' templates are offset nonces apart; variant: less. *)
NonceOffsetShort == ((Nonce_Values - 1) \div N) - 2
NonceOffset == (Nonce_Values - 1) \div N
SomeTemplate == CHOOSE t \in Template : TRUE

(* reset: std::equal compares the new key with as many bytes of the stored *)
(* one.  A new key that is a prefix of the stored one counts as equal.  Of *)
(* a longer new key the rest is compared with bytes past the end of the    *)
(* stored vector, whose value is anything: if the stored key is its prefix *)
(* both outcomes are possible.  Variant: one byte is compared.             *)
KeyUnchangedFirstByte(k) == key # <<>> /\ Head(k) = Head(key)
KeyUnchanged(k) ==
    /\ key # <<>>
    /\ \/ IsPrefix(k, key)
       \/ OverreadMatches /\ IsStrictPrefix(key, k)

KeyChanged(k) == ~ (key # <<>> /\ IsPrefix(k, key))

(* setThreadAffinity: the mask holds bit 2 * coreid or to_ulong throws. *)
MaskFits(v, bits) == 2 * v < bits

-----------------------------------------------------------------------------
HasherInit ==
    /\ VMInit
    /\ running = FALSE
    /\ vm_workers = {}
    /\ worker = [v \in VMs |-> "none"]
    /\ vm_init = 0
    /\ frame = FALSE
    /\ stray = FALSE
    /\ main = "idle"
    /\ outcome = "none"
    /\ key = <<>>
    /\ asked = <<>>
    /\ dataset = NoDataset
    /\ generation = 0
    /\ resetting = [v |-> 0, template |-> SomeTemplate]
    /\ calls = 0

(* A call of the client: made when the previous one is over. *)
Call ==
    /\ main = "idle"
    /\ calls < MaxCalls
    /\ calls' = calls + 1

(* ClientStops: key and templates are set while no worker exists, as       *)
(* benchmarks.cpp does; the README's resetJobParameters() sets them while  *)
(* the workers execute.  ClientResetsVMs: the machines are reset after the *)
(* last reset() and before run(); without it a machine runs before it has  *)
(* a dataset, as in the README's initialize(), or after stop() and reset() *)
(* with the span of the dataset that reset() has freed.                    *)
ClientMayReset == ClientStops => vm_workers = {}
ClientMayResetVM == ClientMayReset /\ (ClientResetsVMs => dataset # NoDataset)
ClientMayRun ==
    ClientResetsVMs => \A v \in VMs : vm[v].stage = "set" /\ vm[v].dataset = dataset

-----------------------------------------------------------------------------
(* Hasher::run *)
Run ==
    /\ Call
    /\ ClientMayRun
    /\ vm_workers = {} /\ ~ running
    /\ running' = TRUE
    /\ vm_init' = 0
    /\ frame' = TRUE
    /\ main' = "spawn"
    /\ outcome' = "none"
    /\ UNCHANGED <<vmVars, vm_workers, worker, stray, keyVars, resetting>>

RunAgain ==
    /\ Call
    /\ ClientMayRun
    /\ vm_workers # {} \/ running
    /\ outcome' = "returned"
    /\ UNCHANGED <<vmVars, threadVars, keyVars, main, resetting>>

Spawn ==
    /\ main = "spawn"
    /\ LET v == Cardinality(vm_workers)
       IN  /\ vm_workers' = vm_workers \union {v}
           /\ worker' = [worker EXCEPT ![v] = "start"]
           /\ main' = IF v = N - 1 THEN "wait" ELSE "spawn"
    /\ UNCHANGED <<vmVars, running, vm_init, frame, stray, keyVars, outcome, resetting, calls>>

(* emplace_back throws: the exception leaves run() as it is. *)
SpawnThrows ==
    /\ SpawnFails
    /\ main = "spawn"
    /\ frame' = FALSE
    /\ main' = "idle"
    /\ outcome' = "unspawned"
    /\ UNCHANGED <<vmVars, running, vm_workers, worker, vm_init, stray, keyVars, resetting, calls>>

(* How many workers have to be counted before run() goes on; variant: one. *)
AwaitedOne == 1
Awaited == N

WaitInit ==
    /\ main = "wait"
    /\ vm_init >= Awaited
    /\ main' = "check"
    /\ UNCHANGED <<vmVars, threadVars, keyVars, outcome, resetting, calls>>

RunReturns ==
    /\ main = "check"
    /\ vm_init <= N
    /\ frame' = FALSE
    /\ main' = "idle"
    /\ outcome' = "returned"
    /\ UNCHANGED <<vmVars, running, vm_workers, worker, vm_init, stray, keyVars, resetting, calls>>

-----------------------------------------------------------------------------
(* Hasher::stop; variant of its guard: it insists on a worker too many. *)
StopGuardExcess == Cardinality(vm_workers) > N /\ running
StopGuard == Cardinality(vm_workers) >= N /\ running

(* A failed worker: run() calls stop() and throws. *)
RunFails ==
    /\ main = "check"
    /\ vm_init > N
    /\ IF StopGuard
       THEN running' = FALSE /\ main' = "join" /\ UNCHANGED frame
       ELSE main' = "idle" /\ frame' = FALSE /\ UNCHANGED running
    /\ outcome' = "threw"
    /\ UNCHANGED <<vmVars, vm_workers, worker, vm_init, stray, keyVars, resetting, calls>>

Stop ==
    /\ Call
    /\ StopGuard
    /\ running' = FALSE
    /\ main' = "join"
    /\ outcome' = "stopped"
    /\ UNCHANGED <<vmVars, vm_workers, worker, vm_init, frame, stray, keyVars, resetting>>

StopIgnored ==
    /\ Call
    /\ ~ StopGuard
    /\ outcome' = "stopped"
    /\ UNCHANGED <<vmVars, threadVars, keyVars, main, resetting>>

(* Variant of JoinWorkers: only the first worker is joined. *)
JoinFirst ==
    /\ main = "join"
    /\ worker[0] = "returned"
    /\ vm_workers' = {}
    /\ worker' = [worker EXCEPT ![0] = "none"]
    /\ frame' = FALSE
    /\ main' = IF outcome = "destroying" THEN "destroyed" ELSE "idle"
    /\ UNCHANGED <<vmVars, running, vm_init, stray, keyVars, outcome, resetting, calls>>

(* Every worker is joined, then the vector is cleared. *)
JoinWorkers ==
    /\ main = "join"
    /\ \A v \in vm_workers : worker[v] = "returned"
    /\ vm_workers' = {}
    /\ worker' = [v \in VMs |-> "none"]
    /\ frame' = FALSE
    /\ main' = IF outcome = "destroying" THEN "destroyed" ELSE "idle"
    /\ UNCHANGED <<vmVars, running, vm_init, stray, keyVars, outcome, resetting, calls>>

(* ~Hasher: stop, then the members' destructors, of which that of a        *)
(* joinable thread ends the process.                                       *)
Destroy ==
    /\ Call
    /\ \/ /\ StopGuard
          /\ running' = FALSE
          /\ main' = "join"
       \/ /\ ~ StopGuard
          /\ UNCHANGED running
          /\ main' = IF vm_workers = {} THEN "destroyed" ELSE "terminated"
    /\ outcome' = "destroying"
    /\ UNCHANGED <<vmVars, vm_workers, worker, vm_init, frame, stray, keyVars, resetting>>

-----------------------------------------------------------------------------
(* Hasher::reset *)
ResetSameKey(k) ==
    /\ Call
    /\ ClientMayReset
    /\ KeyUnchanged(k)
    /\ asked' = k
    /\ outcome' = "returned"
    /\ UNCHANGED <<vmVars, threadVars, key, dataset, generation, main, resetting>>

Reset(k) ==
    /\ Call
    /\ ClientMayReset
    /\ KeyChanged(k)
    /\ generation < MaxGenerations
    /\ key' = k
    /\ asked' = k
    /\ main' = "generate"
    /\ outcome' = "none"
    /\ UNCHANGED <<vmVars, threadVars, dataset, generation, resetting>>

(* The move assignment frees the old dataset. *)
Generate ==
    /\ main = "generate"
    /\ generation' = generation + 1
    /\ dataset' = [id |-> generation + 1, key |-> key]
    /\ main' = "idle"
    /\ outcome' = "returned"
    /\ UNCHANGED <<vmVars, threadVars, key, asked, resetting, calls>>

(* No memory, no code page, or no first thread: an exception.              *)
GenerateThrows ==
    /\ GenerationFails
    /\ main = "generate"
    /\ main' = "idle"
    /\ asked' = <<>>
    /\ outcome' = "ungenerated"
    /\ UNCHANGED <<vmVars, threadVars, key, dataset, generation, resetting, calls>>

(* generateDataset cannot start its second thread, or a later one: its     *)
(* vector is destroyed with threads that are joinable.                     *)
GenerateTerminates ==
    /\ SpawnFails /\ Hardware_Threads > 1
    /\ main = "generate"
    /\ main' = "terminated"
    /\ outcome' = "unstarted"
    /\ UNCHANGED <<vmVars, threadVars, keyVars, resetting, calls>>

-----------------------------------------------------------------------------
(* Hasher::resetVM *)
ResetVM(t) ==
    /\ Call
    /\ ClientMayResetVM
    /\ resetting' = [v |-> 0, template |-> t]
    /\ main' = "resetVM"
    /\ outcome' = "none"
    /\ UNCHANGED <<vmVars, threadVars, keyVars>>

ResetMachine ==
    /\ main = "resetVM"
    /\ LET v == resetting.v
       IN  \/ /\ \/ ResetDataset(v, dataset)
                 \/ ResetTemplate(v, resetting.template)
              /\ UNCHANGED <<main, outcome, resetting>>
           \/ /\ ResetFlags(v)
              /\ IF v = N - 1
                 THEN main' = "idle" /\ outcome' = "returned" /\ UNCHANGED resetting
                 ELSE /\ resetting' = [v |-> v + 1,
                                       template |-> NextBy(resetting.template, NonceOffset)]
                      /\ UNCHANGED <<main, outcome>>
    /\ UNCHANGED <<threadVars, keyVars, calls>>

-----------------------------------------------------------------------------
(* The workers. *)
AddInit(n) ==
    /\ vm_init' = vm_init + n
    /\ stray' = (stray \/ ~ frame)

Announce(v) ==
    /\ worker[v] = "start"
    /\ AddInit(1)
    /\ worker' = [worker EXCEPT ![v] = "affinity"]
    /\ UNCHANGED <<vmVars, running, vm_workers, frame, keyVars, callVars>>

SetAffinity(v) ==
    /\ worker[v] = "affinity"
    /\ \E bits \in MaskWidths : MaskFits(v, bits)
    /\ \/ worker' = [worker EXCEPT ![v] = "check"]
       \/ AffinityFails /\ worker' = [worker EXCEPT ![v] = "refused"]
    /\ UNCHANGED <<vmVars, running, vm_workers, vm_init, frame, stray, keyVars, callVars>>

(* An exception that leaves a thread's function ends the process. *)
AffinityThrows(v) ==
    /\ worker[v] = "affinity"
    /\ \E bits \in MaskWidths : ~ MaskFits(v, bits)
    /\ main' = "terminated"
    /\ UNCHANGED <<vmVars, threadVars, keyVars, outcome, resetting, calls>>

ReportFailure(v) ==
    /\ worker[v] = "refused"
    /\ AddInit(N)
    /\ worker' = [worker EXCEPT ![v] = "returned"]
    /\ UNCHANGED <<vmVars, running, vm_workers, frame, keyVars, callVars>>

(* What a worker's loop tests; variant: it does not look at running. *)
KeepLooping == TRUE
LoopCondition == running

CheckRunning(v) ==
    /\ worker[v] = "check"
    /\ worker' = [worker EXCEPT ![v] = IF LoopCondition THEN "execute" ELSE "returned"]
    /\ UNCHANGED <<vmVars, running, vm_workers, vm_init, frame, stray, keyVars, callVars>>

(* vm.execute(callback), one step; the loop tests running again after it. *)
WorkerExecutes(v) ==
    /\ worker[v] = "execute"
    /\ ExecuteStep(v)
    /\ worker' = [worker EXCEPT ![v] = IF vm'[v].pc = "idle" THEN "check" ELSE "execute"]
    /\ UNCHANGED <<running, vm_workers, vm_init, frame, stray, keyVars, callVars>>

(* At the bound on hashes a worker only watches running. *)
WorkerAtBound(v) ==
    /\ worker[v] = "execute"
    /\ vm[v].pc = "idle" /\ ~ vm[v].new_block_template /\ vm[v].hashes >= MaxHashes
    /\ worker' = [worker EXCEPT ![v] = "check"]
    /\ UNCHANGED <<vmVars, running, vm_workers, vm_init, frame, stray, keyVars, callVars>>

Worker(v) ==
    /\ main # "terminated"
    /\ \/ Announce(v)
       \/ SetAffinity(v)
       \/ AffinityThrows(v)
       \/ ReportFailure(v)
       \/ CheckRunning(v)
       \/ WorkerExecutes(v)
       \/ WorkerAtBound(v)

-----------------------------------------------------------------------------
(* The steps of a call that is under way. *)
Continue ==
    \/ Spawn
    \/ SpawnThrows
    \/ WaitInit
    \/ RunReturns
    \/ RunFails
    \/ JoinWorkers
    \/ Generate
    \/ GenerateThrows
    \/ GenerateTerminates
    \/ ResetMachine

Client ==
    \/ Run
    \/ RunAgain
    \/ Stop
    \/ StopIgnored
    \/ Destroy
    \/ \E k \in Keys : Reset(k) \/ ResetSameKey(k)
    \/ \E t \in Template : t.nonce \in Nonces /\ ResetVM(t)

(* The client makes no more calls. *)
Finished ==
    /\ main \in {"destroyed", "terminated"} \/ (calls = MaxCalls /\ main = "idle")
    /\ UNCHANGED vars

Next ==
    \/ Client
    \/ Continue
    \/ \E v \in VMs : Worker(v)
    \/ Finished

Spec == HasherInit /\ [][Next]_vars

(* Threads are scheduled: a call that is under way and a worker go on.  No *)
(* call is ever owed by the client.                                        *)
FairSpec ==
    /\ Spec
    /\ WF_vars(Continue)
    /\ \A v \in VMs : WF_vars(Worker(v))

-----------------------------------------------------------------------------
(* Types of the hasher's variables. *)
HasherTypeOK ==
    /\ VMTypeOK
    /\ running \in BOOLEAN
    /\ vm_workers \subseteq VMs
    /\ worker \in [VMs -> WorkerStates]
    /\ vm_init \in Nat
    /\ frame \in BOOLEAN
    /\ stray \in BOOLEAN
    /\ main \in MainStates
    /\ outcome \in Outcomes
    /\ key \in Keys \union {<<>>}
    /\ asked \in Keys \union {<<>>}
    /\ dataset \in Datasets \union {NoDataset}
    /\ generation \in 0 .. MaxGenerations
    /\ resetting \in [v : VMs, template : Template]
    /\ calls \in 0 .. MaxCalls

(* A program runs over the hasher's dataset: never over none, and never    *)
(* over one that a later reset() has freed (dataset = generateDataset).    *)
DatasetLive ==
    \A v \in VMs : vm[v].pc = "program" =>
        /\ vm[v].dataset_ptr # NoDataset
        /\ vm[v].dataset_ptr = dataset

(* Two machines never deliver the hash of the same nonce of a job, as long *)
(* as none has used up its share of the nonces.                            *)
Share == (Nonce_Values - 1) \div N
NoncesDisjoint ==
    main # "resetVM" =>
        \A u, v \in VMs : u # v =>
            \A j \in 1 .. Len(delivered[u]), k \in 1 .. Len(delivered[v]) :
                j <= Share /\ k <= Share =>
                    delivered[u][j].of # delivered[v][k].of

(* The workers add to vm_init only while run() waits for them: the counter *)
(* is a local of run().                                                    *)
NoStrayInit == ~ stray

(* After a reset(k) that did not throw, the dataset is the one of k.       *)
ResetTakesEffect ==
    main \notin {"generate", "terminated"} /\ asked # <<>> =>
        dataset # NoDataset /\ dataset.key = asked

(* What can end the process (no callback throws): a core id that is past   *)
(* the affinity mask; destroying a hasher whose run() threw while it was   *)
(* starting threads, because stop() takes no notice of a hasher that has   *)
(* only some of them; a dataset generation that could not start all its    *)
(* threads, which needs a second hardware thread and happens in reset().   *)
CrashCause ==
    main = "terminated" =>
        \/ \E v \in vm_workers, bits \in MaskWidths :
              worker[v] = "affinity" /\ ~ MaskFits(v, bits)
        \/ /\ outcome = "destroying"
           /\ Cardinality(vm_workers) \in 1 .. N - 1
        \/ /\ outcome = "unstarted"
           /\ Hardware_Threads > 1

(* While the hasher runs and the client has control, no worker is gone:    *)
(* "if any thread failed to initialize, stop and throw exception".         *)
FailureReported ==
    main = "idle" /\ running =>
        \A v \in vm_workers : worker[v] \notin {"refused", "returned"}

(* An exception thrown by run() for a failed worker leaves no thread and a *)
(* hasher that can be run again.                                           *)
ThrowCleansUp ==
    main = "idle" /\ outcome = "threw" => vm_workers = {} /\ ~ running

(* The client and the workers take turns at the machines as VMSpec says,   *)
(* although no lock is held: no machine is reset while its worker executes *)
(* it, or executed before a reset is complete.                             *)
MachinesTakeTurns == VMSpec

(* Every call returns: run() sees its workers counted, stop() sees them    *)
(* leave their loops.                                                      *)
CallsReturn ==
    (main \notin {"idle", "destroyed", "terminated"})
        ~> (main \in {"idle", "destroyed", "terminated"})
=============================================================================
