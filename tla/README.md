# A verification project for modernRX

modernRX computes RandomX hashes on AVX2/AVX-512 processors. This directory
holds TLA+ models of the parts of it where order, concurrency or bookkeeping
decides whether a hash is right, the TLC configurations that check them on
small instances, and proofs for TLAPS about them. Paths are those of the
repository; `hasher.cpp:70` means `src/modernRX/hasher.cpp`, line 70.

To repeat a check: `tlc -config MCHasher.cfg MCHasher`; to repeat the proofs:
`tlapm VirtualMachineProofs.tla`.

## 1. The system

```
   client ── run/stop/reset/resetVM ──> Hasher ── one thread per machine ──> VirtualMachine
                                          │                                    │  execute
                              reset(key)  │                                    ├─ blake2b, AES passes
                                          v                                    ├─ BytecodeCompiler ─> jit code, in its frame
                                   generateDataset                             └─ reads the dataset
                                     │     │    │
                     Argon2d cache ──┘     │    └── DatasetCompiler (Assembler) ─> jit code, run by threads
                     (blake2b)             │
                        Superscalar generator x 8 (Blake2bRandom)
```

| Part | State | Operations | What is hard about it | What makes it correct |
|---|---|---|---|---|
| **Hasher** (`hasher.cpp`, `thread.hpp`) | flag `running`, worker threads, machines, key, dataset, the counter `vm_init` that `run()` shares with its workers | `run`, `stop`, `reset`, `resetVM`, destructor; the workers' function | interleavings of the client's thread with one worker per machine; failures of affinity, of thread creation, of generation; memory freed while it is read | programs only read a live dataset; a stopped hasher is quiet; failures are reported; a reset takes effect; every call returns |
| **VirtualMachine** (`virtualmachine.cpp`, `blocktemplate.hpp`) | template, dataset span, seed, scratchpad, register file, `new_block_template`, count of hashes | `reset`, `execute`, `executeNext` | the memory of the next hash is filled before the current hash is delivered; the nonce wraps | every nonce is hashed once, in order, over one dataset |
| **Bytecode compiler** (`bytecodecompiler.cpp`, `compileProgram`) | offsets of the instructions, last use of each register, last rounding instruction, last CFROUND | one function per opcode | decisions that reach across instructions, made in one pass: branch targets, removal of CFROUNDs, short and long jumps | branches land on instructions, rounding modes are those of the program, code fits its buffer, loops end |
| **Dataset generation** (`dataset.cpp`) | job counter, threads, memory | `generateDataset` | threads take jobs without a lock; integer arithmetic that cuts the dataset | every item computed once; threads are gone when the caller's locals are |
| **Dataset compiler, assembler** (`datasetcompiler.cpp`, `assembler.hpp`) | code, data, RBX and its offset, labels, data pointers | `compile`, `schedule`, `label`, `jne`, `flushData`, `flushCode` | offsets kept in 8 bits beside a moving base; padding that shifts what was already measured | constants are read where they are stored; jumps go to labels |
| **Superscalar generator** (`superscalar.cpp`, `instructionset.hpp`) | port schedule, register availability, program context, asic latencies | `generate` | a long search that gives instructions up; state recorded later than it is decided on | it ends, its program fits, values are not overwritten before they are ready |
| **Argon2d cache** (`argon2d.cpp`) | memory blocks, the context of indexes | `fillMemory` and its passes | the next reference block is chosen before the block it depends on is stored | the blocks referred to are those of the Argon2 definition |
| **Blake2b, its random generator** (`blake2b.cpp`, `blake2brandom.cpp`) | block, counter; state, position | `hash`, `update`, `final`; `getUint8`, `getUint32` | `update` trusts its callers | the blocks compressed are those of RFC 7693; bytes are drawn once, in order |
| **Program frame** (`virtualmachineprogram.cpp`) | all registers, the register file, 16 bytes below the scratchpad | prologue, loop, epilogue, as a table of machine code | addresses are mixed an iteration early and packed in halves of registers; the register file is also the save area | the loop is the specification's; the caller's registers survive |
| **Dataset program** (`datasetcompiler.cpp`, the code it generates) | YMM registers, stack, pointers, output | prologue, one iteration for four items, epilogue | four items at once, transposed to meet their cache lines and back; an aligned stack | each item gets its own cache lines and its own place |
| **AES passes** (`aes1rrandom.cpp`, `aes4rrandom.cpp`, `aes1rhash.cpp`) | seed of four lanes, state of the hash, scratchpad, program | `fill1R`, `fill4R`, `hashAndFill1R` | one pass hashes and overwrites; the seed runs on through all of them | the hash is that of the scratchpad before it was refilled |
| **Instruction encoding, emulated multiplication** (`assemblerdef.hpp`, `assembler.hpp`) | – | `vex2`, `vex3`, `evex`, `rex`, `addr`; `vpmulhuq`, `vpmulhq` | register numbers split over inverted bits of prefixes of different length; carries between partial products | the processor decodes the operands that were asked for; the destination holds the upper half |
| Memory helpers, constants, CPU detection | – | wrappers | – | tests |

Interaction: the client calls the hasher, which calls into the machines; the
workers call back into the client with hashes (`callback`). The hasher's
threads share `running` (atomic), `vm_init` (atomic, by reference), the dataset
(plain memory behind a span that each machine copies) and the machines' fields
(plain). The generation's threads share one atomic counter. Everything else is
called sequentially on one thread.

## 2. The modules

| Module | Models | Extends / composes |
|---|---|---|
| `HashStream` | what a machine promises: the abstract specification | – |
| `VirtualMachine` | the machines; implements `HashStream` | instantiates `HashStream` |
| `VirtualMachineProofs` | proofs about it | `VirtualMachine` |
| `Hasher`, `HasherProofs` | client, workers, lifetimes; proofs | `VirtualMachine`; the proofs use `VirtualMachineProofs` |
| `DatasetGeneration`, `DatasetProofs` | threads and jobs of `generateDataset`; proofs | |
| `DatasetPartition` | its arithmetic | |
| `DatasetCompiler` | placement of code and constants | |
| `DatasetCompilerProofs` | proofs about `DatasetCompiler`, `Encoding`, `Superscalar` | |
| `DatasetProgram` | what the code it generates does when it runs | relies on `Arithmetic`'s use of YMM4 and YMM5 |
| `Encoding` | the bytes of an instruction, and how the processor reads them | |
| `Arithmetic` | the multiplications AVX2 does not have | |
| `RandomXLoop` | what executing a program promises: the abstract specification | – |
| `ProgramFrame` | the machine code around a program; implements `RandomXLoop` | instantiates `RandomXLoop` |
| `CallFrame` | how that code is entered and left | |
| `ProgramFrameProofs` | proofs about both | |
| `BytecodeCompiler`, `BytecodeCompilerProofs` | compilation of a program and the run of the result; proofs | |
| `BranchCondition` | the arithmetic of CBRANCH | relies on `BytecodeCompiler`'s `ConditionUndisturbed` |
| `Superscalar` | the generator | |
| `AsicContext` | the address register | |
| `Argon2d`, `Argon2dProofs` | the cache's memory; proofs | |
| `Blake2b`, `Blake2bRandom` | hashing, the generator's random numbers | |
| `AesPasses` | the passes over scratchpad and program | relies on `VirtualMachine` for the chain of programs |
| `AlgorithmProofs` | proofs about `AsicContext`, `Blake2b`, `Blake2bRandom`, `DatasetPartition`, `AesPasses`, `BranchCondition`, `Arithmetic`, `DatasetProgram`, none of which shares state with another | |
| `MC*` | constants for TLC | |

How state and actions correspond to the code:

* **VirtualMachine.** `vm[v]` is the machine's object (`block_template`,
  `dataset`, `new_block_template`, `seed`, `scratchpad`, `rf`, `output`,
  `hashes`) with the locals of `executeNext` (`i`, `dataset_ptr`) and a program
  counter. A seed, scratchpad or register file is the *provenance* of its
  content: the template the chain began with, how many programs were applied,
  which datasets they read; `Mixed` is content that is no such chain. A program
  carries the chain on only if its seed and its scratchpad are at the same point
  (`Program`). `reset()` is three actions, since a worker may read between
  its assignments.
* **Hasher.** `main` is where the client's thread is in a call, `worker[v]`
  where each worker is. `frame` says whether the activation of `run()` that owns
  `vm_init` is alive, `stray` that a worker wrote to it afterwards. `dataset` is
  the memory the hasher owns: a machine's span of any other is dangling. A key
  is a sequence of bytes and `KeyUnchanged` is the `std::equal` of the code,
  whose read past a shorter stored key is either outcome (`OverreadMatches`
  FALSE: the bytes found there differ). Two constants select the clients, both
  TRUE for tests and benchmarks: `ClientStops` (reset only while no worker
  exists) and `ClientResetsVMs` (reset the machines after the last `reset()`
  before they run; without it there is the README's example, which runs first,
  and a client that runs machines with the span of a dataset `reset()` has freed).
  The generation ends in one of three ways: a dataset, an exception before there
  is a thread (`GenerateThrows`), or the end of the process because the second or
  a later thread cannot be started (`GenerateTerminates`, the `"terminated"` of
  `DatasetGeneration!SpawnThrows`). The bits `to_ulong()` can return depend on
  the build: `MaskWidths` is the set of possible widths.
* **DatasetGeneration.** One action per atomic step of a task: the
  `fetch_add`, then the computation of a job's items. `generated` counts how
  often each item was computed. The caller's loop variable is `tid`.
* **BytecodeCompiler.** One action per class of opcode (an opcode's effect on
  the compiler's bookkeeping and its size), then the processor executes what
  was emitted, branches taken or not as it likes. `fprc` is the rounding mode
  of a processor that executes every CFROUND, `mxcsr` that of the jit's code.
* **Superscalar.** One action per step of the loop: choice of a buffer, choice
  of an instruction, issue of a macro-op (with all its early exits). Random
  choices are any choice. The schedule of the ports is the set of busy cells of
  its table, numbered as they lie in memory: eight rows, one behind the other. A
  macro-op without a port is written to the first row at the cycle it asked for;
  no search keeps that cycle within the row, and past its end lie the rows that
  the other macro-ops read.
* **DatasetCompiler.** Instructions are their lengths. An action of the compiler
  asks for instructions (`queue`), `Schedule` places one and pads the page if it
  would cross its end.
* **ProgramFrame.** One action per piece of the code: prologue, reading of
  scratchpad and dataset, the program (any values in the registers, any store to
  the scratchpad), mixing, storing. A half of a register is the set of its one
  bits: exclusive or is the symmetric difference and a mask an intersection, so
  that the same definitions serve for three bits and, in the proofs, for any
  number. `reserved` is `OtherConsts::reserved`, the 16 bytes in which the
  addresses wait while the program uses RAX and RDX. `RandomXLoop` has the loop
  in the order of the RandomX specification, with `ma` and `mx` and both
  addresses as variables of their own; the mapping reads them out of the
  registers that hold them at each point.
* **CallFrame.** `content` says whose value is in each register and each entry
  of the register file. A run of instructions that does not read what it
  has written is one parallel assignment.
* **DatasetProgram.** A quadword is named by the item it belongs to, its register
  and how far its computation is; anything that is not computed from the
  right parts has another name. The stack is a function of addresses.
* **AesPasses.** A lane is what it started from followed by the rounds it went
  through; a line of the scratchpad is four of them. One action per line.
* **Encoding.** One step: any request the dataset compiler makes, over registers
  that cover each value of the two bits that change the encoding and
  displacements of none, one and four bytes, and the decoding of the fields by
  the rules of the instruction set. An immediate is no field of it: it follows
  these bytes unchanged.
* **Arithmetic.** One action per instruction of the emulation.
* **Argon2d.** A block's content is the number of times it was written, an xor
  of blocks the set of those that occur an odd number of times.
* **Blake2b.** `todo` is the rest of the caller's sequence of calls; bytes are
  numbered by their place in the input, so that a wrong byte can be told from a
  right one.

## 3. What the runs check

Every property of a passing run has a mutant in `PROJECT.json`: a plausible bug
(the *variant* definitions of the modules) under which TLC finds it violated.

| Run | Question | Bounds and why they are enough |
|---|---|---|
| `MCHasher` | Do client and workers take turns at the machines, are lifetimes kept, are the right hashes delivered? | Two machines (a second one is what sharing needs), two keys and two datasets (an old and a new one), two chained programs, three hashes per reset (the first is special, the second follows another, the third shows a wrap), a nonce that starts at its last value, seven calls: reset, resetVM, run, stop and the same again after. 187 112 states. |
| `MCHasherFaults` | What do failures leave behind, does every call return? | The same machines with one hash, six calls; affinity, thread creation (of `run()` and of the generation) and the generation may fail whenever they are tried, a core may be past the mask. Checked under fairness. 55 332 states. |
| `MCHasherRunFirst`, `MCHasherAffinity`, `MCHasherPrefixKey`, `MCHasherRetry` | Does the code do what its documentation and comments say? | See section 6. |
| `MCDatasetGeneration` | Is each item computed exactly once, does the generation end? | Three threads, five jobs of two items: more jobs than threads, not a multiple. The theorems lift the bound. |
| `MCProgram` | Does a program run as its source would, in a loop that is the specification's, and does the caller get its registers back? | *Compiled program*: every program of five instructions over eight that exercise every bookkeeping rule (two CFROUND sizes, two branch registers, rounding with the longest code, a swap, a rotation without code), two iterations of the loop since a rounding mode survives into the next. *Frame*: half words of three bits (of a line, of an item above the line, above both), two iterations, since addresses are mixed one ahead, memory whose lines and items differ in all registers; the theorems lift the bounds. *Call*: all 31 registers and all 20 entries of the register file, two chained programs. 511 082 states. |
| `MCSuperscalar` | Are values overwritten too early, does it end and fit? | Three registers, eight cycles, ten instructions, two instructions thrown away before the slot is given up: small enough for all random choices, and each of the limits is reached. With two, not with one, a macro-op without a port is asked for past its row of the schedule. 117 233 states. |
| `MCDatasetCompiler` | Is each constant read where it was stored, does no instruction cross a page, is each instruction encoded as asked, are products right? | Pages of 64 bytes are crossed several times; two programs of up to five instructions store enough constants for the 8-bit offset to turn over. *Encoding*: vectors 0, 4, 5, 7, 8, 12, 13, 15 and all general registers (every combination of extension bits, and the numbers that need a SIB byte or a displacement), displacements of each size: those asked for, up to the 144 of the last vector register pushed, and the numbers on both sides of what a byte can say. *Arithmetic*: half words of three bits, all pairs of factors: every combination of carries. |
| `MCDatasetCompilerJump` | Does the loop's jump reach its label? | As above; see section 6. |
| `MCAlgorithms` | Are the sequential algorithms right for every input? | `DatasetPartition` with the real sizes and every thread count to 256 and some larger; `BranchCondition` scaled down to an 8-bit register, for all values; four registers and chains of six for `AsicContext` (the theorem lifts the bound); `Blake2b` with its real block and every size the program hashes; `Blake2bRandom` with its real state through five states; `Argon2d` with slices of four blocks (the first, a middle and the last block of a slice differ) and the code's three iterations and 32 halves of a digest; `AesPasses` with three lines (first, middle, last), four lines of program (two of entropy) and two hashes; `DatasetProgram` with three programs (first, middle, last), stack pointers of every alignment and jobs of one and two iterations. One algorithm moves at a time, the others stay in an initial state: they share nothing. |

The properties worth a reader's attention:

* `MachinesTakeTurns` (`MCHasher`): although `reset` writes the machines' fields
  without a lock, client and workers use each machine in the order `VMSpec`
  describes, as long as the client stops the hasher before it resets it. This is
  what makes the theorems about `VMSpec` apply to the multi-threaded hasher.
* `DeliversStream`: the machines implement `HashStream`. Filling the scratchpad
  of the next template before the current hash is delivered is not visible.
* `NoStrayInit`, `DatasetLive`: lifetimes of `run()`'s locals and of the dataset.
* `NoncesDisjoint`: two machines do not hash the same nonce within the offset
  `resetVM()` leaves between them, wrapped or not.
* `CrashCause`: the process can be ended in three ways only: a core id past the
  affinity mask, destroying a hasher whose `run()` threw between two threads, and
  a `reset()` whose dataset generation could not start its second or a later
  thread.
* `SuperscalarTypeOK`: the program array has room for every instruction. That the
  schedule has a row for each write is not true, and not claimed: what holds is
  that the writes past a row stay within the table (`ThrowawaysFit`: the last
  cycle that can be asked for is 1203 of 1392 cells in the code).
* `DecodesAsAsked`: no register is taken for another one, and no displacement is
  read with another size, sign or unit.
* `RoundingExact`: the CFROUNDs the compiler overwrites are never missed,
  whichever branches are taken.
* `ConditionUndisturbed` and `AtMostTwoJumps` belong together: nothing in a
  branch's loop writes its register, hence its immediate alone decides how often
  it is taken, which is twice in a row at most (`bytecodecompiler.cpp:412`).
* `EarlyBytesRight`: the bytes that choose a reference block are put together
  from the inputs of `mixBlocks()` before the block exists, and are those it
  then has, in the second pass too, where the old content takes part in the xor.
* `FrameImplementsLoop`: the machine code's loop, which mixes the addresses of an
  iteration at the end of the one before and mixes `mx` before it adds the
  dataset item, is the loop of the specification, prefetches included.
* `CallPreserves`, `LoopEnvironment`: the register file is the save area, the
  program's source of constants and the result, one after the other. Each call
  gives the caller's registers back and starts from the constants, although
  the call before has overwritten them.
* `HashOfOldPad`, `ProgramOfTemplate`: the fused pass hashes the scratchpad as it
  was, and each program comes from the seed of its own template.
* `ItemsInPlace`: each item is combined with the cache lines its own registers
  choose, and stored at its own number, through two transpositions per program.
* `DecodesAsAsked`, `HighHalf`: two places where a slip shows for a few operands
  only.
* `AvailabilityGrows`, `GeneratorEnds`: the generator records a destination's
  availability macro-ops after it has chosen it; and it ends although it may
  throw instructions away.

## 4. Fairness

* `Hasher!FairSpec`: weak fairness of the steps of a call that is under way and
  of each worker. They are operating system threads, none of which waits for a
  lock; the one wait, `vm_init` in `run()`, is a guard. The client owes no call,
  and none of the workers' choices (failing or not) is under fairness.
* `DatasetGeneration!FairSpec`: weak fairness of the caller and of each thread,
  for the same reason.
* `Superscalar!SuperscalarFairSpec`: weak fairness of the next step of a sequential loop.

## 5. What is proved

The proofs hold for every value of the constants that satisfies the modules'
ASSUMEs.

* **VirtualMachine** (`VirtualMachineProofs`). `VMTypeCorrect`,
  `VMChainIntact` and `VMImplementsStream`: for any number of machines, any
  nonce width, any number of chained programs, a machine delivers the
  hashes of its job's successive nonces, each once, over the job's dataset.
  `ChainIntact`
  (what a machine delivers is a chain without a gap) only speaks of delivered hashes, so it is not inductive. `VMInv`
  adds what the memory holds in each phase: at rest, seed and scratchpad are
  those of the next template; after `i` programs both are the chain's i-th
  element; between `NextTemplate` and the callback the register file holds
  the old hash and the seed the new template. The refinement follows from it
  action by action: only `Callback` (a delivery), `ResetDataset` (a withdrawal)
  and `ResetFlags` (an assignment) are visible. Assumption: `VMSpec`'s order of
  resets and executions, which `HasherTakesTurns` proves of the hasher.
* **Hasher** (`HasherProofs`), for any number of machines, keys, calls and
  generations, and a client with `ClientStops` and `ClientResetsVMs`.
  `HasherTakesTurns`: client and workers use the machines as `VMSpec` says,
  without a lock. With `VMImplementsStream` it gives `HasherDeliversStream`, the
  hashes of the multi-threaded hasher. `HasherDatasetLive`, `HasherTypeCorrect`,
  `HasherThrowCleansUp`, `HasherCrashCause` and `HasherNoncesDisjoint` hold with
  every failure the model has; `HasherNoStrayInit` needs threads that start and
  affinities that can be set, `HasherResetTakesEffect` keys none of which is a
  prefix of another and generations that do not throw: the runs of section 6
  show that these conditions are needed. `HasherInv` says that workers
  exist only while `vm_workers` is not empty, that client calls which touch
  machines, key or dataset are under way only while it is empty, and in which
  phase a machine is while nobody executes it. `KeyInv` ties the key to the
  dataset, `StartInv` the counter `vm_init` to the workers that have counted
  themselves, `ShareInv` the machines' templates to multiples of `NonceOffset`
  (modular arithmetic, so that the nonce may wrap), `CleanInv` the flag `running`
  and the set of workers to where the client's call is.
* **DatasetGeneration** (`DatasetProofs`). `GenerationTypeCorrect`,
  `GenerationEachItemOnce`, `GenerationNoSharedJob`, `GenerationJoins`, for
  any number of threads, jobs and items. The invariant says that working threads
  hold different jobs below the counter, that an item of a job has been computed
  once if the job is completed and not at all otherwise, and how far the caller's
  loops are. Two lemmas of arithmetic show that each item belongs to exactly one
  job.
* **BytecodeCompiler** (`BytecodeCompilerProofs`), for programs of any size and
  any instructions, whose branches are taken or not in any way. `Placement` says
  that the instructions lie one behind the other, what each was
  compiled to, and that each branch leads to an instruction since which nothing
  has used its register. From it follow `ProgramTypeCorrect`, `ProgramCodeFits`
  (32 bytes for each instruction are enough) and `ProgramConditionUndisturbed`;
  with where the processor is (`Running`), `ProgramLandsOnInstruction`.
  `ProgramRoundingExact` needs two more: `Modes`, what the compiler knows by
  `last_fp_instr` and `last_cfround_instr`, and `InMode`, which says that if a
  CFROUND was missed the processor is at a *quiet* place: it comes to another
  before anything rounds, and a branch on the way leads to a quiet place again.
  Instructions without code share their offset with the next one, which is why
  `Placement` has to say where code is.
* **DatasetCompiler** (`DatasetCompilerProofs`). `CompilerReadsItsConstant`:
  for any number of programs of any size, every constant is read where it was
  stored. The invariant is that RBX plus the offset is the end of the data
  while programs are compiled, and that the offset is a multiple of the vector's
  size within 8 bits. `CompilerNoInstructionCrosses` (pages longer than the
  longest instruction), `CompilerTypeCorrect` (the offset keeps to 8 bits) and
  `CompilerPointersFilled` (the code that is given away has its data pointers)
  hold where the arguments of `makeExecutable` (`datasetcompiler.cpp:240`) are
  evaluated from the last to the first, as the compiler the project is built
  with does.
* **Argon2d** (`Argon2dProofs`). `ArgonTypeCorrect`, `ArgonLongHash`,
  `ArgonPassOrder`, `ArgonNoAliasing`, `ArgonEarlyBytesRight`, for any length of
  slices from two blocks on, any number of passes and any length of a digest. The
  invariant has three parts: how far the long hash is (`HashInv`); that the
  blocks before the context's index have been written once more often than those
  behind it, with the reference inside the window (`LaneInv`, by cases over the
  four slices); and that the bytes which choose the next reference are those of
  the block about to be written (`EarlyInv`).
* **ProgramFrame** (`ProgramFrameProofs`). `FrameTypeCorrect`,
  `FrameAddressesInside`, `FrameRefines`: for scratchpads and datasets of any
  size, any program and any number of iterations, the loop stays inside them and
  implements `RandomXLoop`. The invariant says for each point of the code what
  the registers hold: at the start of an iteration the addresses are masked and
  RDX is turned so that the halves meet the right lines, while the program runs
  they are below the scratchpad, and the item prefetched is the one that the
  next iteration adds. Each action of the code is one step of the loop
  or none.
* **CallFrame** (`ProgramFrameProofs`). `CallPreserved` and
  `LoopFindsEnvironment`, for any number of calls. `CallInv` says at each of the
  26 instructions which values of the caller are still in their registers and
  which wait in the register file (`CallerValues`), where the machine's
  registers (`MachineValues`) and the loop's constants (`ProgramValues`) are,
  and that the file's address is in one of the registers known (`Pointers`).
* **Superscalar** (`DatasetCompilerProofs`). `SuperscalarTypes`: for any number
  of registers, length of the schedule and maximal size of a program, what is
  generated fits, and what is written past a row of the schedule stays in its
  table. `SuperscalarTypeOK` is not inductive: `RoomInv` adds that
  there is room whenever an instruction is under way (`done()` is only asked
  between instructions), `CycleInv` bounds the cycle by four for each instruction
  thrown away since the last macro-op was issued, and the instruction set has to
  be known to put micro-ops on ports that exist. `ThrowawaysFit` is the one
  assumption about the code's numbers.
  `SuperscalarAvailability`: a register's availability never moves back. It needs
  `PendingInv`: when the first macro-op of a full multiplication has chosen a
  register that is not ready, it will be ready less than four cycles from now,
  and four is the latency of the macro-op that writes it.
* **Encoding** (`DatasetCompilerProofs`). `EncodingDecodes`: whatever is asked
  for, in each of the forms of a request, for every combination of registers and
  every displacement of 32 bits, is what the processor finds. One lemma for each
  kind of prefix says that the shortest is only taken where the bits it lacks
  would be clear; `AddrFields` says that `ModRM.mod` and the displacement, which
  decide about its size separately, agree. A scaled displacement has to be a
  multiple of its unit and to fit into a byte before it is scaled, as the code's
  are.
* **DatasetProgram** (`AlgorithmProofs`), for any number of programs, any address
  registers, jobs of any length that is a multiple of four, and any RSP.
  `LaneItemsInPlace`: `ItemsInPlace` only speaks of what has been stored, so
  `ItemsInv` says what is in the vectors at each point: register k of lane p is
  word k of item p of this round, at the step its programs are at (`Words`),
  after the last transposition vector m is a row of item m (`RowsOfItem`), the
  four pointers are the cache lines of these items (`Lines`), and the local
  vectors hold their numbers (`Locals`). That the four shuffles transpose is a
  lemma of its own (`RowWords`), used in both directions. `LaneStackBalanced`:
  `StackInv` says what lies above the local vectors, which no store reaches.
* **Arithmetic** (`AlgorithmProofs`). `ArithmeticHighHalf`: for words of
  any even width from two bits on, what the instructions leave is the high half
  of the product. The invariant has what each register holds after each
  instruction, in terms of the partial products; that these sums do not overflow
  and that the signed product is the unsigned one less the correction are lemmas
  about numbers.
* **Blake2b** (`AlgorithmProofs`). `Blake2bCompressesMessage`: for any size of a
  block, the compression gets the message's blocks in order. The assumptions are
  the sizes that the program asks for: inputs of up to a block or of exactly two,
  and pieces that fit into one block together. `blake2b.cpp` and `argon2d.cpp:53`
  have static assertions for them, and they are needed: an input that fills
  its second block in part would be followed by bytes of the first.
* **Blake2bRandom** (`AlgorithmProofs`). `RandomDrawsInOrder`, for states of any
  size from four bytes on; the invariant is that the position is behind the
  bytes handed out last.
* **DatasetPartition** (`AlgorithmProofs`). `PartitionCoversDataset`, for any
  number of threads and items. The invariant is that the divisor has the padding
  of the undivided dataset or is twice one that has; the rest is
  division with rest.
* **AesPasses** (`AlgorithmProofs`). `AesHashOfOldPad` and
  `AesProgramOfTemplate`, for scratchpads and programs of any length and any
  number of hashes. `AesInv` says for each pass how many lines are new, that the
  lane is what the hash of the lines before this one gives, and that the seed is
  that of the template after as many rounds.
* **BranchCondition** (`AlgorithmProofs`). `BranchAtMostTwoJumps`, for any
  width of registers, immediates and conditions that fit together as the code's
  do. The invariant bounds the part of the register up to the tested bits: after
  one jump it is below 2^shift, after two below half of that, and what the patched
  immediate adds then sets one of the bits without coming round.
* **AsicContext** (`AlgorithmProofs`). `AsicAddressRegister`: the address
  register is the first with the longest chain, for any number of registers. The
  invariant adds that `max_latency` is the chain of `max_latency_register`.

Some of the proofs need induction over numbers, for which the library's theorem
cannot be used (it takes an operator as a parameter). Instead
`LeastNatural` (every set of numbers has a least element, from the
well-foundedness of inclusion of finite sets) gives the smallest
counterexample, which the proof then contradicts.

Only model-checked: liveness (`CallsReturn`, `GenerationEnds`, `GeneratorEnds`),
which is out of the prover's reach. Every other property of a passing run is
proved. Of the runs that expect a violation, `FailureReported` and `JumpsToLabel`
are false in general; `DatasetLive` and `ResetTakesEffect` are proved under the
conditions whose lack these runs show.

## 6. Where the code and its documentation disagree

Each of the following is a run that TLC answers with a counterexample.

* `MCHasherRunFirst`: the example in the repository's README calls `run()` on a
  hasher without a key. A machine that was never reset executes a program
  over its null dataset (`virtualmachine.cpp:61`).
* `MCHasherAffinity`: a worker counts itself in `vm_init` before it sets its
  affinity (`hasher.cpp:70`). `run()` may see all workers counted and return
  before a failure is added, so the failure is not reported, and the
  addition then goes to a local of a function that has returned.
* `MCHasherPrefixKey`: `reset()` with a prefix of the stored key keeps the old
  dataset (`hasher.cpp:123` compares as many bytes as the new key has). The trace
  sets the key `<<1, 2>>` and then `<<1>>`.
* `MCHasherRetry`: `reset()` stores the key (`hasher.cpp:127`) before it generates
  the dataset, and the generation can throw. The client that tries again with the
  same key gets no exception and no dataset: the keys are equal
  (`hasher.cpp:123`).
* `MCDatasetCompilerJump`: `jne()` works its displacement out before
  `schedule()` pads the page in front of the jump (`assembler.hpp:410`, `:774`).
  If the padding happens, the loop's jump lands behind its label by the number of
  bytes padded. Whether it happens depends on the length of the generated code.

The models show more, for which the project keeps no run of its own. Each can be
repeated by changing a configuration:

* `ClientStops = FALSE` in `MCHasher.cfg`, the order of the README's
  `resetJobParameters()`: `DatasetLive` fails (`reset()` frees the dataset the
  workers read, `hasher.cpp:142`) and `DeliversStream` fails (`resetVM()` changes a
  machine in the middle of a hash).
* `ClientResetsVMs = FALSE` there: besides the run of `MCHasherRunFirst`,
  `DatasetLive` fails after `stop()`, `reset()` with a new key and `run()`, since
  the machines still hold a span of the dataset `reset()` has freed.
* `OverreadMatches = TRUE` in `MCHasherPrefixKey.cfg`: when the stored key is a
  prefix of a *longer* new one, `std::equal` goes on past the end of the stored
  vector (`hasher.cpp:123`). If the bytes there happen to be those of the new
  key, the old dataset stays in this case, too. `ResetTakesEffect` then fails
  with `<<1>>` followed by `<<1, 2>>`. This is undefined behaviour, apart from the
  case above, which needs none.
* An exception from the affinity mask (`thread.hpp:10`) leaves a worker's
  function and ends the process; `CrashCause` allows for it, and
  `MCHasherFaults` gets there with `MaskWidths = {2}`.
* If the operating system refuses the second or a later thread of a dataset
  generation, `dataset.cpp:61` leaves `generateDataset()` with a vector of joinable
  threads, whose destructor ends the process; the client of `reset()` gets no
  exception. `CrashCause` allows for it (`GenerateTerminates`), and `MCHasherFaults`
  gets there.
* After `run()` has thrown between two threads (`hasher.cpp:69`), there are fewer
  workers than machines: `stop()` returns at once (`hasher.cpp:98`), without
  joining the workers that exist, and they go on running.
* `Sizes <- 1 .. 256` for `Blake2b`: an input of 129 to 255 bytes leaves bytes of
  the first block behind the second part of the input (`blake2b.cpp:39`), so
  `CompressesMessage` fails. The program hashes no such input.
* A macro-op without a port is scheduled at whatever cycle it asks for
  (`superscalar.cpp:400`), and throwaways move that cycle on; line 245 then writes
  past its row of the schedule, into that of P5 and those behind it, which is
  undefined though it stays within the table. `MCSuperscalar` gets there. With the
  code's real latency it is open whether a generator can.

Read while modelling, wrong only in words:

* `virtualmachine.cpp:145` calls the last 64 bytes of the program the new seed.
  The seed is the state of `fill4R` after its last line; the registers of the
  stored program are masked (`aes4rrandom.cpp:78`).
* `assembler.hpp:605` and `:650` give the order in which XMM registers are pushed
  and popped the wrong way round; the code's own order is the one
  `StackBalanced` shows to be right.

## 7. What is not modelled, and why

* What AES rounds, the Argon2 permutation, the compression function and the
  instructions of a RandomX program compute: data without control, covered by
  the repository's test vectors.
* Immediates of the encoded instructions: copied behind the fields `Encoding`
  has, as are the bytes of `vzeroupper`, `ret` and the nops, which have none.
* Encodings nobody asks for. `Encoding` covers the forms and operands that the
  dataset compiler uses. Others would not decode as asked: a base register RSP or
  R12 with the 3-byte VEX prefix (X is not inverted), a scaled displacement
  whose mode is chosen from the unscaled offset (`assembler.hpp:838`), an
  immediate form with both operands in the upper half, a destination below and a
  first source above 7 in the four-operand form. They are limits of the
  assembler, without effect on the program.
* The XMM conversions and the floating point registers of the frame are one
  value: no address depends on them.
* The seeds of chained programs, which `AesPasses` leaves to `VirtualMachine`
  (they come from the register file by way of blake2b).
* Allocation, executable memory, CPU detection (`heaparray.hpp`, `virtualmem.hpp`,
  `cpuinfo.hpp`): wrappers of the operating system. The ownership of the dataset
  is part of `Hasher`. An allocation that fails while a dataset is generated is
  `GenerateThrows`.
* `Hasher::hashes()`: reads counters without synchronization and changes nothing.
* A processor without usable threads: the model assumes one machine at least.
* Weak memory: `running`, `vm_init` and `job_counter` are sequentially consistent
  atomics in the code. Plain fields are ordered by thread creation and join
  whenever `ClientStops` holds; without it they race, and the
  model's interleavings are some of the outcomes.

## 8. Plan

Done, in the order of importance: machines and hasher, generation of the
dataset, the two compilers, the superscalar generator, the cache, the sequential
algorithms, the code around programs of both kinds, AES passes, encoding; the
refinements of `HashStream` and `RandomXLoop`; proofs for machines, hasher,
generation, both compilers, generator, cache, frame and call, encoding, and the
sequential algorithms: every safety property of the runs.

Next, models:

1. The size of the code of eight superscalar programs against the jit's buffer
   (`datasetcompiler.cpp:14`), from `Superscalar` and `DatasetCompiler` together.
   It needs the real numbers of cycles and ports, and with them a bound that is
   proved, since TLC cannot enumerate programs of that size.
2. `Hasher` with live resets under a client that restarts the stream.

Next, proofs:

1. The addition chain of `Arithmetic` inside `DatasetProgram`: that a program
   which emulates multiplications uses YMM4 and YMM5 as `RunSuperscalar` assumes.
2. The refinement of the dataset's generation as a whole: jobs of
   `DatasetGeneration`, each computed by `DatasetProgram`, with the sizes of
   `DatasetPartition`.
3. The buffer of eight superscalar programs (model 1 above).
