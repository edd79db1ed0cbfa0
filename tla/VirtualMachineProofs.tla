------------------------ MODULE VirtualMachineProofs ------------------------
(***************************************************************************)
(* Proofs about VirtualMachine, for every number of machines, every nonce  *)
(* width and every length of the chain of programs.                        *)
(***************************************************************************)
EXTENDS VirtualMachine, TLAPS

(* The chain of template t after k programs over dataset d. *)
Chain(t, k, d) == [of |-> t, rounds |-> k, on |-> IF k = 0 THEN {} ELSE {d}]

StreamIntact(s, d) ==
    \A k \in 1 .. Len(s) :
        /\ s[k] \in Content
        /\ s[k] = Result(s[k].of, d)
        /\ k > 1 => s[k].of = Next1(s[k - 1].of)

(* What the memory of a machine holds in each phase. *)
MemoryIntact(m) ==
    /\ m.pc = "idle" /\ ~ m.new_block_template =>
         m.seed = Hash(m.block_template) /\ m.scratchpad = Hash(m.block_template)
    /\ m.pc = "program" =>
         /\ m.seed = Chain(m.block_template, m.i, m.dataset)
         /\ m.scratchpad = m.seed
         /\ m.dataset_ptr = m.dataset
    /\ m.pc = "next" => m.rf = Result(m.block_template, m.dataset)
    /\ m.pc \in {"fill", "callback"} =>
         /\ m.rf = Result(m.rf.of, m.dataset)
         /\ m.block_template = Next1(m.rf.of)
         /\ m.rf.of \in Template
         /\ m.seed = Hash(m.block_template)
    /\ m.pc = "callback" => m.scratchpad = m.seed /\ m.output = m.rf

MachineIntact(m, s) ==
    /\ m.stage # "set" => s = <<>> /\ m.pc = "idle"
    /\ m.stage # "unset" => m.dataset \in Datasets
    /\ m.stage = "set" =>
         /\ StreamIntact(s, m.dataset)
         /\ Len(s) > 0 => Cursor(m) = Next1(s[Len(s)].of)
         /\ m.new_block_template => m.pc = "idle" /\ s = <<>>
         /\ m.pc = "initialize" => s = <<>>
         /\ MemoryIntact(m)

VMInv ==
    /\ VMTypeOK
    /\ \A v \in VMs : MachineIntact(vm[v], delivered[v])

-----------------------------------------------------------------------------
LEMMA NextType == \A t \in Template : Next1(t) \in Template
  BY VMAssumption DEF Next1, NextBy, Template

LEMMA HashType == \A t \in Template : Hash(t) \in Digest
  BY VMAssumption DEF Hash, Digest, Content

LEMMA VMInitInv == VMInit => VMInv
  BY VMAssumption DEF VMInit, VMInv, VMTypeOK, Machine, Digest, Phases, Stages,
     MachineIntact

LEMMA ProgramType ==
  ASSUME NEW s \in Digest, NEW pad, NEW d \in Datasets \union {NoDataset},
         s # Mixed => s.rounds < Rx_Program_Count
  PROVE  Program(s, pad, d) \in Digest
  BY VMAssumption DEF Program, Digest, Content

-----------------------------------------------------------------------------
(* A step that replaces one machine and its stream preserves the invariant *)
(* as soon as what it puts there is intact.                                *)
LEMMA OneMachine ==
  ASSUME VMInv, NEW v \in VMs, NEW m \in Machine, NEW s \in Seq(Digest),
         vm' = [vm EXCEPT ![v] = m],
         delivered' = [delivered EXCEPT ![v] = s],
         MachineIntact(m, s)
  PROVE  VMInv'
<1>1. VMTypeOK'
  BY DEF VMInv, VMTypeOK
<1>2. ASSUME NEW u \in VMs
      PROVE  MachineIntact(vm'[u], delivered'[u])
  <2>1. CASE u = v
    BY <2>1 DEF VMInv, VMTypeOK
  <2>2. CASE u # v
    <3>1. vm'[u] = vm[u] /\ delivered'[u] = delivered[u]
      BY <2>2 DEF VMInv, VMTypeOK
    <3>2. QED
      BY <3>1 DEF VMInv
  <2>3. QED
    BY <2>1, <2>2
<1>3. QED
  BY <1>1, <1>2 DEF VMInv

LEMMA SameStream ==
  ASSUME VMTypeOK, NEW v \in VMs, UNCHANGED delivered
  PROVE  /\ delivered' = [delivered EXCEPT ![v] = delivered[v]]
         /\ delivered[v] \in Seq(Digest)
  BY DEF VMTypeOK

LEMMA ResetDatasetInv ==
  ASSUME VMInv, NEW v \in VMs, NEW d \in Datasets, ResetDataset(v, d), vm[v].pc = "idle"
  PROVE  VMInv'
<1> DEFINE m == [vm[v] EXCEPT !.dataset = d, !.stage = "template"]
<1>1. vm[v] \in Machine
  BY DEF VMInv, VMTypeOK
<1>2. m \in Machine
  BY <1>1 DEF Machine, Stages
<1>3. MachineIntact(m, <<>>)
  BY <1>1 DEF MachineIntact, Machine
<1>4. <<>> \in Seq(Digest)
  OBVIOUS
<1>5. QED
  BY <1>2, <1>3, <1>4, OneMachine DEF ResetDataset

LEMMA ResetTemplateInv ==
  ASSUME VMInv, NEW v \in VMs, NEW t \in Template, ResetTemplate(v, t)
  PROVE  VMInv'
<1> DEFINE m == [vm[v] EXCEPT !.block_template = t, !.stage = "flags"]
<1>1. vm[v] \in Machine /\ VMTypeOK
  BY DEF VMInv, VMTypeOK
<1>2. m \in Machine
  BY <1>1 DEF Machine, Stages
<1>3. MachineIntact(m, delivered[v])
  BY <1>1 DEF MachineIntact, Machine, VMInv, ResetTemplate
<1>4. QED
  BY <1>1, <1>2, <1>3, OneMachine, SameStream DEF ResetTemplate

LEMMA ResetFlagsInv ==
  ASSUME VMInv, NEW v \in VMs, ResetFlags(v)
  PROVE  VMInv'
<1> DEFINE m == [vm[v] EXCEPT !.new_block_template = TRUE, !.hashes = 0, !.stage = "set"]
<1>1. vm[v] \in Machine /\ VMTypeOK
  BY DEF VMInv, VMTypeOK
<1>2. m \in Machine
  BY <1>1 DEF Machine, Stages
<1>3. MachineIntact(m, delivered[v])
  BY <1>1 DEF MachineIntact, MemoryIntact, StreamIntact, Machine, VMInv, ResetFlags
<1>4. QED
  BY <1>1, <1>2, <1>3, OneMachine, SameStream DEF ResetFlags

LEMMA ExecuteInv ==
  ASSUME VMInv, NEW v \in VMs, Execute(v), vm[v].stage = "set"
  PROVE  VMInv'
<1> DEFINE m == [vm[v] EXCEPT !.new_block_template = FALSE, !.pc = "initialize"]
<1>1. vm[v] \in Machine /\ VMTypeOK
  BY DEF VMInv, VMTypeOK
<1>2. m \in Machine
  BY <1>1 DEF Machine, Phases
<1>3. MachineIntact(m, delivered[v])
  BY <1>1 DEF MachineIntact, MemoryIntact, StreamIntact, Machine, VMInv, Execute,
              Cursor
<1>4. QED
  BY <1>1, <1>2, <1>3, OneMachine, SameStream DEF Execute

LEMMA InitializeMemoryInv ==
  ASSUME VMInv, NEW v \in VMs, InitializeMemory(v), vm[v].stage = "set"
  PROVE  VMInv'
<1> DEFINE s == Hash(vm[v].block_template)
           m == [vm[v] EXCEPT !.seed = s, !.scratchpad = s, !.pc = "idle"]
<1>1. vm[v] \in Machine /\ VMTypeOK
  BY DEF VMInv, VMTypeOK
<1>2. s \in Digest
  BY <1>1, HashType DEF Machine
<1>3. m \in Machine
  BY <1>1, <1>2 DEF Machine, Phases
<1>4. MachineIntact(m, delivered[v])
  BY <1>1 DEF MachineIntact, MemoryIntact, StreamIntact, Machine, VMInv, InitializeMemory,
              Cursor
<1>5. QED
  BY <1>1, <1>3, <1>4, OneMachine, SameStream DEF InitializeMemory

LEMMA ExecuteNextInv ==
  ASSUME VMInv, NEW v \in VMs, ExecuteNext(v), vm[v].stage = "set"
  PROVE  VMInv'
<1> DEFINE m == [vm[v] EXCEPT !.dataset_ptr = vm[v].dataset, !.i = 0, !.pc = "program"]
<1>1. vm[v] \in Machine /\ VMTypeOK
  BY DEF VMInv, VMTypeOK
<1>2. m \in Machine
  <2>1. vm[v].dataset \in Datasets \union {NoDataset} /\ "program" \in Phases
    BY <1>1 DEF Machine, Phases
  <2>2. 0 \in 0 .. Rx_Program_Count - 1
    BY VMAssumption
  <2>3. QED
    BY <1>1, <2>1, <2>2 DEF Machine
<1>3. vm[v].pc = "idle" /\ ~ vm[v].new_block_template /\ MachineIntact(vm[v], delivered[v])
  BY DEF VMInv, ExecuteNext
<1>4. MemoryIntact(m)
  BY <1>1, <1>3 DEF MachineIntact, MemoryIntact, Machine, Hash, Chain
<1>5. MachineIntact(m, delivered[v])
  BY <1>1, <1>3, <1>4 DEF MachineIntact, StreamIntact, Machine, Cursor
<1>6. QED
  BY <1>1, <1>2, <1>5, OneMachine, SameStream DEF ExecuteNext

LEMMA RunProgramInv ==
  ASSUME VMInv, NEW v \in VMs, RunProgram(v), vm[v].stage = "set"
  PROVE  VMInv'
<1> DEFINE r == Program(vm[v].seed, vm[v].scratchpad, vm[v].dataset_ptr)
           t == vm[v].block_template
           d == vm[v].dataset
           i == vm[v].i
<1>1. vm[v] \in Machine /\ VMTypeOK
  BY DEF VMInv, VMTypeOK
<1>2. vm[v].pc = "program" /\ MachineIntact(vm[v], delivered[v])
  BY DEF VMInv, RunProgram
<1>3. /\ i \in 0 .. Rx_Program_Count - 1
      /\ t \in Template
      /\ d \in Datasets
  BY <1>1, <1>2 DEF Machine, MachineIntact
<1>4. /\ vm[v].seed = Chain(t, i, d)
      /\ vm[v].scratchpad = Chain(t, i, d)
      /\ vm[v].dataset_ptr = d
  BY <1>2 DEF MachineIntact, MemoryIntact
<1>5. Chain(t, i, d) # Mixed
  BY <1>3, VMAssumption DEF Chain, Content
<1>6. r = Chain(t, i + 1, d)
  <2>1. r = [of |-> t, rounds |-> i + 1, on |-> (IF i = 0 THEN {} ELSE {d}) \union {d}]
    BY <1>4, <1>5 DEF Program, Chain
  <2>2. (IF i = 0 THEN {} ELSE {d}) \union {d} = {d}
    OBVIOUS
  <2>3. i + 1 # 0
    BY <1>3
  <2>4. QED
    BY <2>1, <2>2, <2>3 DEF Chain
<1>7. r \in Digest
  BY <1>3, <1>6, VMAssumption DEF Chain, Digest, Content
<1> HIDE DEF r
<1>8. CASE i < LastProgram
  <2> DEFINE m == [vm[v] EXCEPT !.rf = r, !.scratchpad = r, !.seed = r, !.i = i + 1]
  <2>1. i + 1 \in 0 .. Rx_Program_Count - 1
    BY <1>3, <1>8, VMAssumption DEF LastProgram
  <2>2. m \in Machine
    BY <1>1, <1>7, <2>1 DEF Machine
  <2>3. MemoryIntact(m)
    BY <1>1, <1>2, <1>4, <1>6 DEF MemoryIntact, Machine
  <2>4. MachineIntact(m, delivered[v])
    BY <1>1, <1>2, <2>3 DEF MachineIntact, Machine, Cursor
  <2>5. i # LastProgram
    BY <1>3, <1>8, VMAssumption DEF LastProgram
  <2>6. vm' = [vm EXCEPT ![v] = m] /\ UNCHANGED delivered
    BY <2>5 DEF RunProgram, r
  <2>7. QED
    BY <1>1, <2>2, <2>4, <2>6, OneMachine, SameStream
<1>9. CASE i = LastProgram
  <2> DEFINE m == [vm[v] EXCEPT !.rf = r, !.scratchpad = r, !.pc = "next"]
  <2>1. m \in Machine
    BY <1>1, <1>7 DEF Machine, Phases
  <2>2. i + 1 = Rx_Program_Count /\ i + 1 # 0
    BY <1>3, <1>9, VMAssumption DEF LastProgram
  <2>3. r = Result(t, d)
    BY <1>6, <2>2 DEF Chain, Result
  <2>4. MemoryIntact(m)
    BY <1>1, <2>3 DEF MemoryIntact, Machine
  <2>5. MachineIntact(m, delivered[v])
    BY <1>1, <1>2, <2>4 DEF MachineIntact, Machine, Cursor
  <2>6. ~ (i < LastProgram)
    BY <1>3, <1>9
  <2>7. vm' = [vm EXCEPT ![v] = m] /\ UNCHANGED delivered
    BY <1>9, <2>6 DEF RunProgram, r
  <2>8. QED
    BY <1>1, <2>1, <2>5, <2>7, OneMachine, SameStream
<1>10. QED
  BY <1>8, <1>9 DEF RunProgram

LEMMA NextTemplateInv ==
  ASSUME VMInv, NEW v \in VMs, NextTemplate(v), vm[v].stage = "set"
  PROVE  VMInv'
<1> DEFINE t == Next1(vm[v].block_template)
           m == [vm[v] EXCEPT !.block_template = t, !.seed = Hash(t), !.pc = "fill"]
<1>1. vm[v] \in Machine /\ VMTypeOK
  BY DEF VMInv, VMTypeOK
<1>2. vm[v].pc = "next" /\ MachineIntact(vm[v], delivered[v])
  BY DEF VMInv, NextTemplate
<1>3. vm[v].block_template \in Template /\ t \in Template /\ Hash(t) \in Digest
  BY <1>1, NextType, HashType DEF Machine
<1> HIDE DEF t
<1>4. m \in Machine
  BY <1>1, <1>3 DEF Machine, Phases
<1>5. vm[v].rf.of = vm[v].block_template
  BY <1>2 DEF MachineIntact, MemoryIntact, Result
<1>6. MemoryIntact(m)
  BY <1>1, <1>2, <1>3, <1>5 DEF MemoryIntact, MachineIntact, Machine, t
<1>7. MachineIntact(m, delivered[v])
  BY <1>1, <1>2, <1>5, <1>6 DEF MachineIntact, Machine, Cursor
<1>8. QED
  BY <1>1, <1>4, <1>7, OneMachine, SameStream DEF NextTemplate, t

LEMMA HashAndFillInv ==
  ASSUME VMInv, NEW v \in VMs, HashAndFill(v), vm[v].stage = "set"
  PROVE  VMInv'
<1> DEFINE m == [vm[v] EXCEPT !.scratchpad = vm[v].seed, !.output = vm[v].rf,
                              !.hashes = vm[v].hashes + 1, !.pc = "callback"]
<1>1. vm[v] \in Machine /\ VMTypeOK
  BY DEF VMInv, VMTypeOK
<1>2. vm[v].pc = "fill" /\ MachineIntact(vm[v], delivered[v])
  BY DEF VMInv, HashAndFill
<1>3. m \in Machine
  <2>1. vm[v].seed \in Digest /\ vm[v].rf \in Digest /\ vm[v].hashes + 1 \in Nat
    BY <1>1 DEF Machine
  <2>2. "callback" \in Phases
    BY DEF Phases
  <2>3. QED
    BY <1>1, <2>1, <2>2 DEF Machine
<1>4. MemoryIntact(m)
  BY <1>1, <1>2 DEF MemoryIntact, MachineIntact, Machine
<1>5. MachineIntact(m, delivered[v])
  BY <1>1, <1>2, <1>4 DEF MachineIntact, Machine, Cursor
<1>6. QED
  BY <1>1, <1>3, <1>5, OneMachine, SameStream DEF HashAndFill

LEMMA CallbackInv ==
  ASSUME VMInv, NEW v \in VMs, Callback(v), vm[v].stage = "set"
  PROVE  VMInv'
<1> DEFINE m == [vm[v] EXCEPT !.pc = "idle"]
           s == Append(delivered[v], vm[v].output)
           d == vm[v].dataset
<1>1. vm[v] \in Machine /\ VMTypeOK /\ delivered[v] \in Seq(Digest)
  BY DEF VMInv, VMTypeOK
<1>2. vm[v].pc = "callback" /\ MachineIntact(vm[v], delivered[v])
  BY DEF VMInv, Callback
<1>3. m \in Machine /\ s \in Seq(Digest)
  BY <1>1 DEF Machine, Phases
<1>4. /\ vm[v].output = Result(vm[v].rf.of, d)
      /\ vm[v].block_template = Next1(vm[v].rf.of)
      /\ vm[v].output.of = vm[v].rf.of
  BY <1>2 DEF MachineIntact, MemoryIntact, Result
<1>5. MemoryIntact(m)
  BY <1>1, <1>2 DEF MemoryIntact, MachineIntact, Machine
<1> vm[v].output \in Content
  <2>1. vm[v].rf.of \in Template /\ d \in Datasets
    BY <1>2 DEF MachineIntact, MemoryIntact
  <2>2. QED
    BY <1>4, <2>1, VMAssumption DEF Result, Content
<1>6. Len(delivered[v]) > 0 => vm[v].output.of = Next1(delivered[v][Len(delivered[v])].of)
  BY <1>2, <1>4 DEF MachineIntact, Cursor
<1>7. StreamIntact(s, d)
  <2>1. StreamIntact(delivered[v], d)
    BY <1>2 DEF MachineIntact
  <2>2. SUFFICES ASSUME NEW k \in 1 .. Len(s)
                 PROVE  /\ s[k] \in Content
                        /\ s[k] = Result(s[k].of, d)
                        /\ k > 1 => s[k].of = Next1(s[k - 1].of)
    BY DEF StreamIntact
  <2>3. CASE k \in 1 .. Len(delivered[v])
    BY <1>1, <2>1, <2>3 DEF StreamIntact
  <2>4. CASE k = Len(delivered[v]) + 1
    <3>1. s[k] = vm[v].output /\ (k > 1 => s[k - 1] = delivered[v][Len(delivered[v])])
      BY <1>1, <2>4
    <3>2. QED
      BY <1>1, <1>4, <1>6, <2>4, <3>1
  <2>5. QED
    BY <1>1, <2>3, <2>4
<1>8. Cursor(m) = Next1(s[Len(s)].of)
  BY <1>1, <1>4 DEF Cursor, Machine
<1>9. MachineIntact(m, s)
  BY <1>1, <1>2, <1>5, <1>7, <1>8 DEF MachineIntact, Machine
<1>10. QED
  BY <1>1, <1>3, <1>9, OneMachine DEF Callback

-----------------------------------------------------------------------------
LEMMA VMInvStep ==
  ASSUME VMInv, [VMNext]_vmVars
  PROVE  VMInv'
<1>1. CASE VMNext
  <2>1. PICK v \in VMs :
         \/ vm[v].pc = "idle" /\ \E d \in Datasets : ResetDataset(v, d)
         \/ \E t \in Template : ResetTemplate(v, t)
         \/ ResetFlags(v)
         \/ vm[v].stage = "set" /\ ExecuteStep(v)
    BY <1>1 DEF VMNext
  <2>2. QED
    BY <2>1, ResetDatasetInv, ResetTemplateInv, ResetFlagsInv, ExecuteInv,
       InitializeMemoryInv, ExecuteNextInv, RunProgramInv, NextTemplateInv,
       HashAndFillInv, CallbackInv
       DEF ExecuteStep
<1>2. CASE UNCHANGED vmVars
  BY <1>2 DEF vmVars, VMInv, VMTypeOK
<1>3. QED
  BY <1>1, <1>2

(* The fields of the machines keep their types.                            *)
THEOREM VMTypeCorrect == VMSpec => []VMTypeOK
<1>1. VMInv => VMTypeOK
  BY DEF VMInv
<1>2. QED
  BY <1>1, VMInitInv, VMInvStep, PTL DEF VMSpec

(* Whatever is delivered since a reset are the hashes of consecutive       *)
(* nonces, each a full chain of programs over the dataset of the reset:    *)
(* the fusion of hashing and filling in executeNext() loses nothing.       *)
THEOREM VMChainIntact == VMSpec => []ChainIntact
<1>1. VMInv => ChainIntact
  <2>1. SUFFICES ASSUME VMInv, NEW v \in VMs, NEW k \in 1 .. Len(delivered[v])
                 PROVE  /\ delivered[v][k] # Mixed
                        /\ delivered[v][k] = Result(delivered[v][k].of, vm[v].dataset)
                        /\ k > 1 => delivered[v][k].of = NextBy(delivered[v][k - 1].of, 1)
    BY DEF ChainIntact
  <2>2. vm[v] \in Machine /\ delivered[v] \in Seq(Digest)
    BY <2>1 DEF VMInv, VMTypeOK
  <2>3. vm[v].stage = "set" /\ StreamIntact(delivered[v], vm[v].dataset)
    BY <2>1, <2>2 DEF VMInv, MachineIntact
  <2>4. delivered[v][k] # Mixed
    BY <2>1, <2>3, VMAssumption DEF StreamIntact
  <2>5. QED
    BY <2>1, <2>3, <2>4 DEF StreamIntact, Next1
<1>2. QED
  BY <1>1, VMInitInv, VMInvStep, PTL DEF VMSpec

-----------------------------------------------------------------------------
(* The refinement: what a step of one machine does to the abstract state.  *)
cursors == [u \in VMs |-> CursorOf(vm[u])]
datas == [u \in VMs |-> DataOf(vm[u])]

LEMMA OneCursor ==
  ASSUME VMInv, NEW v \in VMs, NEW m, vm' = [vm EXCEPT ![v] = m]
  PROVE  /\ cursors' = [cursors EXCEPT ![v] = CursorOf(m)]
         /\ datas' = [datas EXCEPT ![v] = DataOf(m)]
<1>1. vm \in [VMs -> Machine]
  BY DEF VMInv, VMTypeOK
<1>2. \A u \in VMs : vm'[u] = IF u = v THEN m ELSE vm[u]
  BY <1>1
<1>3. QED
  BY <1>1, <1>2 DEF cursors, datas

(* A step that moves neither cursor, data nor stream is a stutter. *)
LEMMA Stutter ==
  ASSUME VMInv, NEW v \in VMs, NEW m, vm' = [vm EXCEPT ![v] = m],
         UNCHANGED delivered,
         CursorOf(m) = CursorOf(vm[v]), DataOf(m) = DataOf(vm[v])
  PROVE  UNCHANGED Stream!streamVars
<1>1. cursors' = cursors /\ datas' = datas
  BY OneCursor DEF cursors, datas
<1>2. QED
  BY <1>1 DEF Stream!streamVars, cursors, datas
LEMMA WithdrawStep ==
  ASSUME VMInv, NEW v \in VMs, NEW d \in Datasets, ResetDataset(v, d)
  PROVE  Stream!Withdraw(v)
<1> DEFINE m == [vm[v] EXCEPT !.dataset = d, !.stage = "template"]
<1>1. vm[v] \in Machine
  BY DEF VMInv, VMTypeOK
<1>2. CursorOf(m) = NoDataset /\ DataOf(m) = NoDataset
  BY <1>1 DEF CursorOf, DataOf, Machine
<1>3. vm' = [vm EXCEPT ![v] = m] /\ delivered' = [delivered EXCEPT ![v] = <<>>]
  BY DEF ResetDataset
<1> HIDE DEF m
<1>4. /\ cursors' = [cursors EXCEPT ![v] = NoDataset]
      /\ datas' = [datas EXCEPT ![v] = NoDataset]
  BY <1>2, <1>3, OneCursor
<1>5. QED
  BY <1>3, <1>4 DEF Stream!Withdraw, cursors, datas

LEMMA AssignStep ==
  ASSUME VMInv, NEW v \in VMs, ResetFlags(v)
  PROVE  \E t \in Template, d \in Datasets : Stream!Assign(v, t, d)
<1> DEFINE m == [vm[v] EXCEPT !.new_block_template = TRUE, !.hashes = 0, !.stage = "set"]
           t == vm[v].block_template
           d == vm[v].dataset
<1>1. vm[v] \in Machine /\ MachineIntact(vm[v], delivered[v]) /\ vm[v].stage = "flags"
  BY DEF VMInv, VMTypeOK, ResetFlags
<1>2. vm[v].pc = "idle" /\ t \in Template /\ d \in Datasets
  BY <1>1 DEF MachineIntact, Machine
<1>3. CursorOf(m) = t /\ DataOf(m) = d
  BY <1>1, <1>2 DEF CursorOf, Cursor, DataOf, Machine
<1>4. vm' = [vm EXCEPT ![v] = m] /\ UNCHANGED delivered
  BY DEF ResetFlags
<1> HIDE DEF m
<1>5. cursors[v] = NoDataset
  BY <1>1 DEF cursors, CursorOf
<1>6. /\ cursors' = [cursors EXCEPT ![v] = t]
      /\ datas' = [datas EXCEPT ![v] = d]
  BY <1>3, <1>4, OneCursor
<1>7. Stream!Assign(v, t, d)
  BY <1>4, <1>5, <1>6 DEF Stream!Assign, cursors, datas
<1>8. QED
  BY <1>2, <1>7

LEMMA DeliverStep ==
  ASSUME VMInv, NEW v \in VMs, Callback(v), vm[v].stage = "set"
  PROVE  Stream!Deliver(v)
<1> DEFINE m == [vm[v] EXCEPT !.pc = "idle"]
           d == vm[v].dataset
           t == vm[v].rf.of
<1>1. vm[v] \in Machine /\ MachineIntact(vm[v], delivered[v]) /\ vm[v].pc = "callback"
  BY DEF VMInv, VMTypeOK, Callback
<1>2. /\ vm[v].output = Result(t, d)
      /\ vm[v].block_template = Next1(t)
      /\ t \in Template
  BY <1>1 DEF MachineIntact, MemoryIntact
<1>3. cursors[v] = t /\ datas[v] = d
  BY <1>1 DEF cursors, datas, CursorOf, DataOf, Cursor
<1>4. CursorOf(m) = Next1(t) /\ DataOf(m) = d
  BY <1>1, <1>2 DEF CursorOf, DataOf, Cursor, Machine
<1>5. vm' = [vm EXCEPT ![v] = m] /\ delivered' = [delivered EXCEPT ![v] = Append(@, Result(t, d))]
  BY <1>2 DEF Callback
<1> HIDE DEF m
<1>6. t # NoDataset
  BY <1>2, VMAssumption
<1>7. cursors' = [cursors EXCEPT ![v] = Next1(cursors[v])]
  <2>1. cursors' = [cursors EXCEPT ![v] = CursorOf(m)]
    BY <1>5, OneCursor
  <2>2. QED
    BY <1>3, <1>4, <2>1
<1>8. datas' = datas
  <2>1. datas' = [datas EXCEPT ![v] = DataOf(m)]
    BY <1>5, OneCursor
  <2>2. QED
    BY <1>3, <1>4, <2>1 DEF datas
<1>9. QED
  BY <1>3, <1>5, <1>6, <1>7, <1>8 DEF Stream!Deliver, cursors, datas

LEMMA StutterStep ==
  ASSUME VMInv, NEW v \in VMs,
         \/ \E t \in Template : ResetTemplate(v, t)
         \/ /\ vm[v].stage = "set"
            /\ \/ Execute(v) \/ InitializeMemory(v) \/ ExecuteNext(v)
               \/ RunProgram(v) \/ NextTemplate(v) \/ HashAndFill(v)
  PROVE  UNCHANGED Stream!streamVars
<1> USE DEF CursorOf, DataOf, Cursor
<1>1. vm[v] \in Machine /\ MachineIntact(vm[v], delivered[v])
  BY DEF VMInv, VMTypeOK
<1>2. ASSUME NEW t \in Template, ResetTemplate(v, t)
      PROVE  UNCHANGED Stream!streamVars
  BY <1>1, <1>2, Stutter DEF ResetTemplate, Machine
<1>3. CASE vm[v].stage = "set" /\ Execute(v)
  BY <1>1, <1>3, Stutter DEF Execute, Machine
<1>4. CASE vm[v].stage = "set" /\ InitializeMemory(v)
  BY <1>1, <1>4, Stutter DEF InitializeMemory, Machine
<1>5. CASE vm[v].stage = "set" /\ ExecuteNext(v)
  BY <1>1, <1>5, Stutter DEF ExecuteNext, Machine
<1>6. CASE vm[v].stage = "set" /\ RunProgram(v)
  BY <1>1, <1>6, Stutter DEF RunProgram, Machine
<1>7. CASE vm[v].stage = "set" /\ NextTemplate(v)
  <2>1. vm[v].rf.of = vm[v].block_template
    BY <1>1, <1>7 DEF MachineIntact, MemoryIntact, NextTemplate, Result
  <2>2. QED
    BY <1>1, <1>7, <2>1, Stutter DEF NextTemplate, Machine
<1>8. CASE vm[v].stage = "set" /\ HashAndFill(v)
  BY <1>1, <1>8, Stutter DEF HashAndFill, Machine
<1>9. QED
  BY <1>2, <1>3, <1>4, <1>5, <1>6, <1>7, <1>8

(* The machines of virtualmachine.cpp implement HashStream: a machine      *)
(* delivers the hashes of the nonces from the template of its last reset   *)
(* on, in order, without a gap or a repetition.                            *)
THEOREM VMImplementsStream == VMSpec => DeliversStream
<1>1. VMInit => Stream!Init
  BY DEF VMInit, Stream!Init, CursorOf, DataOf
<1>2. VMInv /\ [VMNext]_vmVars => [Stream!Next]_Stream!streamVars
  <2>1. SUFFICES ASSUME VMInv, [VMNext]_vmVars
                 PROVE  [Stream!Next]_Stream!streamVars
    OBVIOUS
  <2>2. CASE VMNext
    <3>1. PICK v \in VMs :
           \/ vm[v].pc = "idle" /\ \E d \in Datasets : ResetDataset(v, d)
           \/ \E t \in Template : ResetTemplate(v, t)
           \/ ResetFlags(v)
           \/ vm[v].stage = "set" /\ ExecuteStep(v)
      BY <2>2 DEF VMNext
    <3>2. QED
      BY <2>1, <3>1, WithdrawStep, AssignStep, DeliverStep, StutterStep
         DEF ExecuteStep, Stream!Next
  <2>3. CASE UNCHANGED vmVars
    BY <2>3 DEF vmVars, Stream!streamVars
  <2>4. QED
    BY <2>1, <2>2, <2>3
<1>3. QED
  BY <1>1, <1>2, VMInitInv, VMInvStep, PTL DEF VMSpec, DeliversStream, Stream!Spec
=============================================================================
