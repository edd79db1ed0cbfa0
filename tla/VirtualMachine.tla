---------------------------- MODULE VirtualMachine ----------------------------
(***************************************************************************)
(* virtualmachine.hpp / virtualmachine.cpp: the RandomX virtual machines.  *)
(*                                                                         *)
(* A machine hashes one block template after another: it seeds itself from *)
(* the template, runs Rx_Program_Count chained programs over the dataset,  *)
(* and delivers the hash of the final register file to the callback.  The  *)
(* code overlaps two hashes: the scratchpad of the next template is filled *)
(* before the hash of the current one is delivered.                        *)
(*                                                                         *)
(* Data is abstracted to its provenance.  The content of a seed, of the    *)
(* scratchpad and of the register file is a Digest: the template it grew   *)
(* from, the number of programs that were applied, and the datasets those  *)
(* programs read.  Mixed is any content that is not such a chain.          *)
(***************************************************************************)
EXTENDS Integers, Sequences, FiniteSets

CONSTANTS
    VMs,               \* identifiers of the machines
    Jobs,              \* what distinguishes block templates besides the nonce
    Nonce_Values,      \* number of values of the nonce, 2^32 in the code
    Datasets,          \* dataset memory blocks
    NoDataset,         \* the null span a machine holds before its first reset
    Rx_Program_Count,  \* programs chained into one hash, 8 in the code
    Mixed,             \* content that is not the chain of one template
    MaxHashes          \* bound: hashes a machine delivers after a reset

VARIABLES
    vm,        \* the machines' fields and the locals of their execute()
    delivered  \* hashes passed to the callback since the machine's last reset

vmVars == <<vm, delivered>>

-----------------------------------------------------------------------------
Template == [job : Jobs, nonce : 0 .. Nonce_Values - 1]

Content == [of : Template, rounds : 0 .. Rx_Program_Count,
            on : SUBSET (Datasets \union {NoDataset})]

Digest == Content \union {Mixed}

ASSUME VMAssumption ==
    /\ Nonce_Values \in Nat \ {0}
    /\ Rx_Program_Count \in Nat \ {0}
    /\ MaxHashes \in Nat
    /\ NoDataset \notin Datasets \union Template
    /\ Mixed \notin Content

(* The phases of execute() and the fields reset() still has to write. *)
Phases == {"idle", "initialize", "program", "next", "fill", "callback"}
Stages == {"unset", "template", "flags", "set"}

Machine == [block_template : Template, dataset : Datasets \union {NoDataset},
            new_block_template : BOOLEAN,
            seed : Digest, scratchpad : Digest, rf : Digest, output : Digest,
            hashes : Nat, pc : Phases, i : 0 .. Rx_Program_Count - 1,
            dataset_ptr : Datasets \union {NoDataset}, stage : Stages]

-----------------------------------------------------------------------------
(* BlockTemplate::next: the nonce is a uint32_t and wraps. *)
NextBy(t, offset) == [job |-> t.job, nonce |-> (t.nonce + offset) % Nonce_Values]
Next1(t) == NextBy(t, 1)

(* blake2b::hash of a block template starts a chain. *)
Hash(t) == [of |-> t, rounds |-> 0, on |-> {}]

(* A chained program: generated from the seed, run over the scratchpad and *)
(* the dataset.  The register file it leaves continues the chain only when *)
(* seed and scratchpad are at the same point of the same chain.            *)
Program(s, pad, d) ==
    IF s = pad /\ s # Mixed
    THEN [of |-> s.of, rounds |-> s.rounds + 1, on |-> s.on \union {d}]
    ELSE Mixed

(* Index of the last program of the chain. *)
LastProgram == Rx_Program_Count - 1

(* The hash of template t over dataset d. *)
Result(t, d) == [of |-> t, rounds |-> Rx_Program_Count, on |-> {d}]

-----------------------------------------------------------------------------
(* The constructor leaves block_template, seed and output indeterminate. *)
VMInit ==
    /\ \E t \in Template :
         vm = [v \in VMs |->
                [block_template |-> t, dataset |-> NoDataset,
                 new_block_template |-> FALSE,
                 seed |-> Mixed, scratchpad |-> Mixed, rf |-> Mixed, output |-> Mixed,
                 hashes |-> 0, pc |-> "idle", i |-> 0,
                 dataset_ptr |-> NoDataset, stage |-> "unset"]]
    /\ delivered = [v \in VMs |-> <<>>]

(* VirtualMachine::reset, one field after another: the thread that calls   *)
(* it is not the thread that executes the machine.                         *)
ResetDataset(v, d) ==
    /\ vm[v].stage \in {"unset", "set"}
    /\ vm' = [vm EXCEPT ![v] = [@ EXCEPT !.dataset = d, !.stage = "template"]]
    /\ delivered' = [delivered EXCEPT ![v] = <<>>]

ResetTemplate(v, t) ==
    /\ vm[v].stage = "template"
    /\ vm' = [vm EXCEPT ![v] = [@ EXCEPT !.block_template = t, !.stage = "flags"]]
    /\ UNCHANGED delivered

ResetFlags(v) ==
    /\ vm[v].stage = "flags"
    /\ vm' = [vm EXCEPT ![v] = [@ EXCEPT !.new_block_template = TRUE, !.hashes = 0,
                                         !.stage = "set"]]
    /\ UNCHANGED delivered

-----------------------------------------------------------------------------
(* execute(): a new template only initializes the memory, no hash yet. *)
Execute(v) ==
    /\ vm[v].pc = "idle"
    /\ vm[v].new_block_template
    /\ vm' = [vm EXCEPT ![v] = [@ EXCEPT !.new_block_template = FALSE, !.pc = "initialize"]]
    /\ UNCHANGED delivered

InitializeMemory(v) ==
    /\ vm[v].pc = "initialize"
    /\ LET s == Hash(vm[v].block_template)
       IN  vm' = [vm EXCEPT ![v] = [@ EXCEPT !.seed = s, !.scratchpad = s, !.pc = "idle"]]
    /\ UNCHANGED delivered

(* execute() without a new template is executeNext(), whose locals hold    *)
(* the dataset's address for the whole chain.                              *)
ExecuteNext(v) ==
    /\ vm[v].pc = "idle"
    /\ ~ vm[v].new_block_template
    /\ vm[v].hashes < MaxHashes
    /\ vm' = [vm EXCEPT ![v] = [@ EXCEPT !.dataset_ptr = vm[v].dataset, !.i = 0,
                                         !.pc = "program"]]
    /\ UNCHANGED delivered

(* generateProgram, compileProgram and the jit call; every program but the *)
(* last one seeds its successor from the register file.                    *)
RunProgram(v) ==
    LET m == vm[v]
        r == Program(m.seed, m.scratchpad, m.dataset_ptr)
    IN  /\ m.pc = "program"
        /\ \/ /\ m.i < LastProgram
              /\ vm' = [vm EXCEPT ![v] = [@ EXCEPT !.rf = r, !.scratchpad = r, !.seed = r,
                                                   !.i = m.i + 1]]
           \/ /\ m.i = LastProgram
              /\ vm' = [vm EXCEPT ![v] = [@ EXCEPT !.rf = r, !.scratchpad = r, !.pc = "next"]]
        /\ UNCHANGED delivered

(* Variant of NextTemplate: the nonce is advanced twice. *)
NextTemplateSkipping(v) ==
    /\ vm[v].pc = "next"
    /\ LET t == NextBy(vm[v].block_template, 2)
       IN  vm' = [vm EXCEPT ![v] = [@ EXCEPT !.block_template = t, !.seed = Hash(t), !.pc = "fill"]]
    /\ UNCHANGED delivered

(* The template of the next hash and its seed, while the register file     *)
(* still holds the current one.                                            *)
NextTemplate(v) ==
    /\ vm[v].pc = "next"
    /\ LET t == Next1(vm[v].block_template)
       IN  vm' = [vm EXCEPT ![v] = [@ EXCEPT !.block_template = t, !.seed = Hash(t), !.pc = "fill"]]
    /\ UNCHANGED delivered

(* hashAndFill1R: the scratchpad is hashed into rf.a and refilled in one   *)
(* pass; the hash of rf is the output.                                     *)
HashAndFill(v) ==
    /\ vm[v].pc = "fill"
    /\ vm' = [vm EXCEPT ![v] = [@ EXCEPT !.scratchpad = vm[v].seed, !.output = vm[v].rf,
                                         !.hashes = vm[v].hashes + 1, !.pc = "callback"]]
    /\ UNCHANGED delivered

Callback(v) ==
    /\ vm[v].pc = "callback"
    /\ delivered' = [delivered EXCEPT ![v] = Append(@, vm[v].output)]
    /\ vm' = [vm EXCEPT ![v] = [@ EXCEPT !.pc = "idle"]]

ExecuteStep(v) ==
    \/ Execute(v)
    \/ InitializeMemory(v)
    \/ ExecuteNext(v)
    \/ RunProgram(v)
    \/ NextTemplate(v)
    \/ HashAndFill(v)
    \/ Callback(v)

-----------------------------------------------------------------------------
(* One thread per machine that resets it between two executions, as tests  *)
(* and fuzzer do; a reset is finished before the machine executes.         *)
VMNext ==
    \E v \in VMs :
        \/ vm[v].pc = "idle" /\ \E d \in Datasets : ResetDataset(v, d)
        \/ \E t \in Template : ResetTemplate(v, t)
        \/ ResetFlags(v)
        \/ vm[v].stage = "set" /\ ExecuteStep(v)

VMSpec == VMInit /\ [][VMNext]_vmVars

-----------------------------------------------------------------------------
(* Types of the machines' fields. *)
VMTypeOK ==
    /\ vm \in [VMs -> Machine]
    /\ delivered \in [VMs -> Seq(Digest)]

(* The k-th hash delivered after a reset is the hash of the template the   *)
(* reset installed, advanced k - 1 times, over the dataset it installed:   *)
(* the fused hashing and filling neither skips, repeats nor mixes nonces.  *)
ChainIntact ==
    \A v \in VMs : \A k \in 1 .. Len(delivered[v]) :
        /\ delivered[v][k] # Mixed
        /\ delivered[v][k] = Result(delivered[v][k].of, vm[v].dataset)
        /\ k > 1 => delivered[v][k].of = NextBy(delivered[v][k - 1].of, 1)

(* The stream of hashes each machine delivers: the template that comes next *)
(* is the one in the register file from NextTemplate on.                   *)
Cursor(m) == IF m.pc \in {"fill", "callback"} THEN m.rf.of ELSE m.block_template
CursorOf(m) == IF m.stage = "set" THEN Cursor(m) ELSE NoDataset
DataOf(m) == IF m.stage = "set" THEN m.dataset ELSE NoDataset

Stream == INSTANCE HashStream WITH
              None <- NoDataset,
              cursor <- [v \in VMs |-> CursorOf(vm[v])],
              data <- [v \in VMs |-> DataOf(vm[v])],
              stream <- delivered

(* The machines implement HashStream: a job's hashes are those of its      *)
(* consecutive nonces, from the template given to reset on.                *)
DeliversStream == Stream!Spec
=============================================================================
