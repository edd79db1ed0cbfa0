--------------------------- MODULE ProgramFrameProofs ---------------------------
(***************************************************************************)
(* The machine code around a program implements the loop of the            *)
(* specification, for any sizes of dataset and scratchpad, any entropy,    *)
(* any program and any number of iterations.                               *)
(***************************************************************************)
EXTENDS ProgramFrame, CallFrame, TLAPS

ZeroWord == [lo |-> {}, hi |-> {}]
Address0 == Address(reserved.hi, entropy.mx \intersect Line_Bits)
Address1 == Address(reserved.lo, entropy.ma \intersect Line_Bits)
ReadMix == XorWords(ReadReg(0), ReadReg(1))

(* RDX holds the addresses of the iteration that comes next, mixed early;  *)
(* the copy below the scratchpad holds those of the present one.           *)
FrameInv ==
    /\ FrameTypeOK
    /\ frame_pc # "prologue" => rdi.lo \in Offsets /\ prefetched = rdi.lo
    /\ frame_pc = "prologue" => regs = Zeros /\ fe = Zeros
    /\ frame_pc = "load" =>
         /\ rbx \in 1 .. Iterations
         /\ eax = rdx.lo
         /\ rdx.hi = Xor(Address0, ReadMix.lo) \intersect Line_Bits
         /\ rdx.lo = Xor(Address1, ReadMix.hi) \intersect Line_Bits
    /\ frame_pc \in {"execute", "mix", "store"} =>
         /\ rbx \in 1 .. Iterations
         /\ reserved.lo \in Lines /\ reserved.hi \in Lines
    /\ frame_pc = "store" => ecx = reserved.lo /\ rdx.lo = reserved.hi

-----------------------------------------------------------------------------
LEMMA XorHalf == ASSUME NEW S, NEW a \in SUBSET S, NEW b \in SUBSET S PROVE Xor(a, b) \in SUBSET S
  BY DEF Xor

LEMMA XorWordType == ASSUME NEW a \in Word, NEW b \in Word PROVE XorWords(a, b) \in Word
  BY XorHalf DEF XorWords, Word, Half

LEMMA XorFileType == ASSUME NEW a \in File, NEW b \in File PROVE XorFiles(a, b) \in File
  <1>1. ASSUME NEW i \in 0 .. 7 PROVE XorWords(a[i], b[i]) \in Word
    BY XorWordType DEF File
  <1>. QED BY <1>1 DEF XorFiles, File

LEMMA ZerosType == Zeros \in File
  BY DEF Zeros, File, Word, Half

LEMMA MaskType == ASSUME NEW w \in Word PROVE Mask(w, Line_Bits) \in Word
  BY DEF Mask, Word, Half

(* Read registers are words of the register file. *)
LEMMA ReadRegType ==
    ASSUME FrameAssumption, entropy \in Entropies, regs \in File, NEW k \in 0 .. 3
    PROVE  ReadReg(k) \in Word
  <1>1. entropy.read[k] \in 0 .. 1
    BY DEF FrameAssumption
  <1>2. 2 * k + entropy.read[k] \in 0 .. 7
    BY <1>1
  <1>. QED BY <1>2 DEF ReadReg, File

(* Masking before the exclusive or or after it makes no difference. *)
LEMMA XorMask ==
    ASSUME NEW S, NEW a, NEW b, NEW c
    PROVE  Xor(Xor(a, b), c) \intersect S = Xor(a \intersect S, Xor(b, c)) \intersect S
  BY DEF Xor

LEMMA XorEmpty == ASSUME NEW a PROVE Xor({}, a) = a /\ Xor(a, {}) = a
  BY DEF Xor

-----------------------------------------------------------------------------
THEOREM FrameTypeCorrect == FrameSpec => []FrameInv
<1>a. FrameInit => FrameInv
  BY FrameAssumption, ZerosType
     DEF FrameInit, FrameInv, FrameTypeOK, Word, Half, FrameAssumption
<1>b. FrameInv /\ [FrameNext]_frameVars => FrameInv'
  <2> SUFFICES ASSUME FrameInv, [FrameNext]_frameVars PROVE FrameInv'
    OBVIOUS
  <2> USE FrameAssumption
  <2>1. CASE Prologue
    <3>1. entropy.ma \in Half /\ entropy.mx \in Half
      BY DEF FrameInv, FrameTypeOK, FrameAssumption
    <3>2. FrameTypeOK'
      BY <2>1, <3>1, ZerosType DEF Prologue, FrameInv, FrameTypeOK, FrameAssumption, Word, Half
    <3>3. ReadMix' = ZeroWord
      <4>1. \A k \in 0 .. 3 : ReadReg(k)' = ZeroWord
        <5> TAKE k \in 0 .. 3
        <5>1. 2 * k + entropy.read[k] \in 0 .. 7
          BY DEF FrameInv, FrameTypeOK, FrameAssumption
        <5>. QED BY <5>1, <2>1 DEF Prologue, ReadReg, Zeros, ZeroWord
      <4>2. ReadReg(0)' = ZeroWord /\ ReadReg(1)' = ZeroWord
        BY <4>1
      <4>3. XorWords(ZeroWord, ZeroWord) = ZeroWord
        BY XorEmpty DEF XorWords, ZeroWord
      <4>. QED BY <4>2, <4>3 DEF ReadMix
    <3>4. /\ rdx'.hi = Xor(Address0', ReadMix'.lo) \intersect Line_Bits
          /\ rdx'.lo = Xor(Address1', ReadMix'.hi) \intersect Line_Bits
      <4>1. Address0' = entropy.mx \intersect Line_Bits /\ Address1' = entropy.ma \intersect Line_Bits
        BY <2>1 DEF Prologue, Address0, Address1, Address
      <4>2. ReadMix'.lo = {} /\ ReadMix'.hi = {}
        BY <3>3 DEF ZeroWord
      <4>. QED BY <4>1, <4>2, <2>1, XorEmpty DEF Prologue, FrameAssumption
    <3>. QED BY <2>1, <3>1, <3>2, <3>4 DEF Prologue, FrameInv, Offsets, FrameAssumption
  <2>2. CASE LoopInit
    <3>1. eax \in Lines /\ rdx.hi \in Lines
      BY <2>2 DEF LoopInit, FrameInv, Lines
    <3>2. FrameTypeOK'
      <4>1. regs' \in File /\ fe' \in File
        BY <2>2, <3>1, XorFileType DEF LoopInit, FrameInv, FrameTypeOK
      <4>. QED BY <2>2, <4>1 DEF LoopInit, FrameInv, FrameTypeOK, Word, Half
    <3>. QED BY <2>2, <3>1, <3>2 DEF LoopInit, FrameInv
  <2>3. CASE RunProgram
    <3>1. FrameTypeOK'
      <4>1. scratchpad' \in [Lines -> File]
        BY <2>3 DEF RunProgram, FrameInv, FrameTypeOK, FrameAssumption
      <4>2. eax' \in Half /\ ecx' \in Half /\ rdx' \in Word
        BY <2>3 DEF RunProgram, FrameAssumption, Word
      <4>. QED BY <2>3, <4>1, <4>2 DEF RunProgram, FrameInv, FrameTypeOK, FrameAssumption
    <3>. QED BY <2>3, <3>1 DEF RunProgram, FrameInv
  <2>4. CASE LoopMix
    <3>1. Mixed \in Offsets
      BY DEF Mixed, Offsets
    <3>2. FrameTypeOK'
      <4>1. regs' \in File
        BY <2>4, XorFileType DEF LoopMix, FrameInv, FrameTypeOK, FrameAssumption
      <4>2. Mixed \in Half /\ rdi.lo \in Half
        BY <3>1 DEF Offsets, Half, FrameAssumption, FrameInv, FrameTypeOK, Word
      <4>. QED BY <2>4, <4>1, <4>2 DEF LoopMix, FrameInv, FrameTypeOK, Word, Half
    <3>. QED BY <2>4, <3>1, <3>2 DEF LoopMix, FrameInv
  <2>5. CASE LoopStore
    <3>1. ecx \in Lines /\ rdx.lo \in Lines
      BY <2>5 DEF LoopStore, FrameInv
    <3>2. /\ ReadMix \in Word
          /\ NextAddresses \in Word
          /\ NextAddresses.hi = ReadMix.lo \intersect Line_Bits
          /\ NextAddresses.lo = ReadMix.hi \intersect Line_Bits
      <4>1. ReadMix \in Word
        BY ReadRegType, XorWordType DEF ReadMix, FrameInv, FrameTypeOK
      <4>. QED BY <4>1 DEF NextAddresses, ReadMix, Mask, Ror32, Word, Half
    <3>3. FrameTypeOK'
      <4>1. scratchpad' \in [Lines -> File]
        BY <2>5, <3>1 DEF LoopStore, StoreRegisters, FrameInv, FrameTypeOK
      <4>2. rbx' \in 0 .. Iterations
        BY <2>5 DEF LoopStore, FrameInv, FrameAssumption
      <4>. QED BY <2>5, <3>2, <4>1, <4>2 DEF LoopStore, FrameInv, FrameTypeOK, Word
    <3>4. ASSUME frame_pc' = "load"
          PROVE  /\ rbx' \in 1 .. Iterations
                 /\ eax' = rdx'.lo
                 /\ rdx'.hi = Xor(Address0', ReadMix'.lo) \intersect Line_Bits
                 /\ rdx'.lo = Xor(Address1', ReadMix'.hi) \intersect Line_Bits
      <4>1. rbx' \in 1 .. Iterations /\ rbx' # Iterations
        BY <2>5, <3>4 DEF LoopStore, FrameInv, FrameAssumption
      <4>2. Address0' = {} /\ Address1' = {}
        BY <3>4, <4>1 DEF Address0, Address1, Address
      <4>3. ReadMix' = ReadMix
        BY <2>5 DEF LoopStore, ReadMix, ReadReg
      <4>. QED BY <2>5, <3>2, <4>1, <4>2, <4>3, XorEmpty DEF LoopStore
    <3>5. frame_pc' \in {"load", "done"} /\ rdi' = rdi /\ prefetched' = prefetched
      BY <2>5 DEF LoopStore
    <3>6. rdi.lo \in Offsets /\ prefetched = rdi.lo
      BY <2>5 DEF LoopStore, FrameInv
    <3>. QED BY <3>3, <3>4, <3>5, <3>6 DEF FrameInv
  <2>6. CASE UNCHANGED frameVars
    BY <2>6 DEF frameVars, FrameInv, FrameTypeOK, Address0, Address1, Address, ReadMix, ReadReg
  <2>. QED BY <2>1, <2>2, <2>3, <2>4, <2>5, <2>6 DEF FrameNext
<1>. QED BY <1>a, <1>b, PTL DEF FrameSpec

(* Every address the loop uses is that of an item or of a line, and every  *)
(* item was prefetched.                                                    *)
THEOREM FrameAddressesInside == FrameSpec => []AddressesInside
<1>1. FrameInv => AddressesInside
  <2> SUFFICES ASSUME FrameInv PROVE AddressesInside
    OBVIOUS
  <2>1. ASSUME frame_pc = "load" PROVE eax \in Lines /\ rdx.hi \in Lines
    BY <2>1 DEF FrameInv, Lines
  <2>. QED BY <2>1 DEF FrameInv, AddressesInside
<1>. QED BY <1>1, FrameTypeCorrect, PTL

-----------------------------------------------------------------------------
(* The loop of the specification, as it sees the registers of the code. *)

LEMMA FrameInitRefines == FrameInit => Abstract!Init
  BY FrameAssumption
     DEF FrameInit, Abstract!Init, Loop, Address, Zeros, Abstract!Zeros, FrameAssumption

LEMMA FrameStepRefines ==
    ASSUME FrameInv, [FrameNext]_frameVars
    PROVE  [Abstract!Next]_(Abstract!loopVars)
<1> USE FrameAssumption
<1>1. CASE Prologue
  <2>1. Loop(rdi.hi \intersect Item_Bits, entropy.mx \intersect Item_Bits)'
          = Loop(rdi.hi \intersect Item_Bits, entropy.mx \intersect Item_Bits)
    BY <1>1 DEF Prologue, Loop
  <2>. QED BY <1>1, <2>1 DEF Prologue, FrameInv, Loop, Address, Abstract!loopVars
<1>2. CASE LoopInit
  <2>1. Abstract!XorWords(Abstract!ReadReg(0), Abstract!ReadReg(1)) = ReadMix
    BY <1>2 DEF LoopInit, ReadMix, ReadReg, XorWords, Xor, Loop,
                Abstract!ReadReg, Abstract!XorWords, Abstract!Xor
  <2>2. /\ rdx.hi = Abstract!Xor(Address0, ReadMix.lo) \intersect Line_Bits
        /\ rdx.lo = Abstract!Xor(Address1, ReadMix.hi) \intersect Line_Bits
    BY <1>2 DEF LoopInit, FrameInv, Xor, Abstract!Xor
  <2>3. regs' = Abstract!XorFiles(regs, scratchpad[rdx.hi]) /\ fe' = scratchpad[rdx.lo]
    BY <1>2 DEF LoopInit, FrameInv, XorFiles, XorWords, Xor,
                Abstract!XorFiles, Abstract!XorWords, Abstract!Xor
  <2>4. /\ Address(reserved.hi, entropy.mx \intersect Line_Bits)' = rdx.hi
        /\ Address(reserved.lo, entropy.ma \intersect Line_Bits)' = rdx.lo
    BY <1>2 DEF LoopInit, Address
  <2>5. Abstract!Load
    BY <1>2, <2>1, <2>2, <2>3, <2>4 DEF LoopInit, Abstract!Load, Loop, Address0, Address1
  <2>. QED BY <2>5 DEF Abstract!Next
<1>3. CASE RunProgram
  <2>1. Abstract!Execute
    BY <1>3 DEF RunProgram, Abstract!Execute, Loop, Address, Lines
  <2>. QED BY <2>1 DEF Abstract!Next
<1>4. CASE LoopMix
  <2>1. Mixed = Abstract!Xor(rdi.hi \intersect Item_Bits,
                   Abstract!Xor(Abstract!ReadReg(2).lo, Abstract!ReadReg(3).lo))
                  \intersect Item_Bits
    <3>1. Abstract!ReadReg(2) = ReadReg(2) /\ Abstract!ReadReg(3) = ReadReg(3)
      BY <1>4 DEF LoopMix, ReadReg, Loop, Abstract!ReadReg
    <3>2. Mixed = Xor(rdi.hi \intersect Item_Bits, Xor(ReadReg(2).lo, ReadReg(3).lo))
                    \intersect Item_Bits
      BY XorMask DEF Mixed
    <3>. QED BY <3>1, <3>2 DEF Xor, Abstract!Xor
  <2>2. regs' = Abstract!XorFiles(regs, Items[rdi.lo])
    BY <1>4 DEF LoopMix, XorFiles, XorWords, Xor,
                Abstract!XorFiles, Abstract!XorWords, Abstract!Xor
  <2>3. rdi.lo \intersect Item_Bits = rdi.lo
    BY <1>4 DEF LoopMix, FrameInv, Offsets
  <2>4. Abstract!Mix
    BY <1>4, <2>1, <2>2, <2>3 DEF LoopMix, Abstract!Mix, Loop, Address
  <2>. QED BY <2>4 DEF Abstract!Next
<1>5. CASE LoopStore
  <2>1. ecx = reserved.lo /\ rdx.lo = reserved.hi /\ rbx \in 1 .. Iterations
    BY <1>5 DEF LoopStore, FrameInv
  <2>2. scratchpad' = [[scratchpad EXCEPT ![reserved.lo] = regs] EXCEPT ![reserved.hi] = fe]
    <3>1. scratchpad \in [Lines -> File]
      BY DEF FrameInv, FrameTypeOK
    <3>. QED BY <1>5, <2>1, <3>1 DEF LoopStore, StoreRegisters
  <2>3. /\ Address(reserved.hi, entropy.mx \intersect Line_Bits)' = {}
        /\ Address(reserved.lo, entropy.ma \intersect Line_Bits)' = {}
    <3>1. rbx' # Iterations /\ frame_pc' \in {"load", "done"}
      BY <1>5, <2>1 DEF LoopStore, FrameAssumption
    <3>. QED BY <3>1 DEF Address
  <2>4. Abstract!Store
    BY <1>5, <2>2, <2>3 DEF LoopStore, Abstract!Store, Loop, Address
  <2>. QED BY <2>4 DEF Abstract!Next
<1>6. CASE UNCHANGED frameVars
  BY <1>6 DEF frameVars, Loop, Address, Abstract!loopVars
<1>. QED BY <1>1, <1>2, <1>3, <1>4, <1>5, <1>6 DEF FrameNext

(* The machine code implements the loop of the specification. *)
THEOREM FrameRefines == FrameSpec => FrameImplementsLoop
<1>. QED BY FrameTypeCorrect, FrameInitRefines, FrameStepRefines, PTL
         DEF FrameSpec, FrameImplementsLoop, Abstract!Spec

-----------------------------------------------------------------------------
(***************************************************************************)
(* The call of the code.  Its invariant says of every value that matters   *)
(* in which location it is before each instruction: a value that is moved  *)
(* has one interval of instructions per place.                             *)
(***************************************************************************)
(* A value is in a location while the code is between two instructions; it *)
(* is in its entry of the file from there on until the next call.          *)
In(value, location, first, last) == ip \in first .. last => content[location] = value
Stored(value, entry, store) ==
    ip > store \/ (ip = 0 /\ calls > 0) => content[entry] = value

(* A register of the caller's, kept in an entry of the file. *)
Kept(register, entry, save, restore) ==
    content[IF ip \in save + 1 .. restore THEN entry ELSE register] = Caller(register)

(* A register of the machine's on its way to its entry, by way of one      *)
(* register or of two.                                                     *)
Exchanged(value, first, register, store, entry) ==
    In(value, register, first, store) /\ Stored(value, entry, store)
Moved(value, first, register, move, temporary, store, entry) ==
    In(value, register, first, move) /\ In(value, temporary, move + 1, store)
    /\ Stored(value, entry, store)

CallerValues ==
    /\ Kept("rbx", "r0", 2, 16) /\ Kept("rbp", "r1", 2, 16)
    /\ Kept("rsi", "r2", 4, 16) /\ Kept("rdi", "r3", 4, 16)
    /\ Kept("r12", "r4", 6, 18) /\ Kept("r13", "r5", 6, 18)
    /\ Kept("r14", "r6", 6, 20) /\ Kept("r15", "r7", 6, 20)
    /\ Kept("xmm6", "f0", 6, 22) /\ Kept("xmm7", "f1", 6, 22)
    /\ Kept("xmm8", "f2", 8, 22) /\ Kept("xmm9", "f3", 8, 22)
    /\ Kept("xmm10", "e0", 10, 24) /\ Kept("xmm11", "e1", 10, 24)
    /\ Kept("xmm12", "e2", 12, 26) /\ Kept("xmm13", "e3", 12, 26)
    /\ Kept("xmm14", "a0", 12, 26) /\ Kept("xmm15", "a1", 12, 26)

MachineValues ==
    /\ Exchanged(Machine("r0"), 15, "r8", 16, "r0")
    /\ Exchanged(Machine("r1"), 15, "r9", 16, "r1")
    /\ Exchanged(Machine("r2"), 15, "r10", 16, "r2")
    /\ Exchanged(Machine("r3"), 15, "r11", 16, "r3")
    /\ Moved(Machine("r4"), 15, "r12", 17, "rax", 18, "r4")
    /\ Moved(Machine("r5"), 15, "r13", 17, "rdx", 18, "r5")
    /\ Moved(Machine("r6"), 15, "r14", 19, "rax", 20, "r6")
    /\ Moved(Machine("r7"), 15, "r15", 19, "rdx", 20, "r7")
    /\ Exchanged(Machine("f0"), 15, "xmm0", 22, "f0")
    /\ Exchanged(Machine("f1"), 15, "xmm1", 22, "f1")
    /\ Exchanged(Machine("f2"), 15, "xmm2", 22, "f2")
    /\ Exchanged(Machine("f3"), 15, "xmm3", 22, "f3")
    /\ Exchanged(Machine("e0"), 15, "xmm4", 24, "e0")
    /\ Exchanged(Machine("e1"), 15, "xmm5", 24, "e1")
    /\ In(Machine("e2"), "xmm6", 15, 21) /\ In(Machine("e2"), "xmm12", 22, 25)
    /\ In(Machine("e2"), "xmm2", 26, 26) /\ Stored(Machine("e2"), "e2", 26)
    /\ In(Machine("e3"), "xmm7", 15, 21) /\ In(Machine("e3"), "xmm13", 22, 25)
    /\ In(Machine("e3"), "xmm3", 26, 26) /\ Stored(Machine("e3"), "e3", 26)

ProgramValues ==
    /\ In(Value("program_a0"), "xmm8", 10, 21) /\ In(Value("program_a0"), "xmm14", 22, 25)
    /\ In(Value("program_a0"), "xmm4", 26, 26) /\ Stored(Value("program_a0"), "a0", 26)
    /\ In(Value("program_a1"), "xmm9", 10, 21) /\ In(Value("program_a1"), "xmm15", 22, 25)
    /\ In(Value("program_a1"), "xmm5", 26, 26) /\ Stored(Value("program_a1"), "a1", 26)
    /\ Moved(Value("program_a2"), 12, "xmm10", 23, "xmm0", 26, "a2")
    /\ Moved(Value("program_a3"), 12, "xmm11", 23, "xmm1", 26, "a3")
    /\ In(Value("address_mask"), "a2", 1, 26) /\ In(Value("rounding_modes"), "a3", 1, 26)

Scratchpad == Value("scratchpad")
Pointers ==
    /\ In(Scratchpad, "rcx", 1, 5) /\ In(Scratchpad, "rax", 2, 3) /\ In(Scratchpad, "rdx", 4, 5)
    /\ In(Scratchpad, "rbx", 6, 7) /\ In(Scratchpad, "rsi", 6, 16)
    /\ In(Scratchpad, "rcx", 8, 14) /\ In(Scratchpad, "rcx", 16, 26)
    /\ In(Value("dataset"), "rdx", 1, 3) /\ In(Value("dataset"), "rbp", 4, 14)
    /\ \A n \in {"r8", "r9", "r10", "r11", "r12", "r13", "r14", "r15"} :
          In(Value("zero"), n, 14, 14)

CallInv ==
    /\ ip \in 0 .. 26 /\ calls \in Nat /\ DOMAIN content = Locations /\ ~ wild
    /\ CallerValues
    /\ MachineValues
    /\ ProgramValues
    /\ Pointers

-----------------------------------------------------------------------------
LEMMA CodeLengths == LoopPosition = 14 /\ DOMAIN Code = 1 .. 26 /\ Len(Code) = 26
  <1>1. Len(PrologueCode) = 13
    BY DEF PrologueCode
  <1>2. Len(Code) = 26 /\ DOMAIN Code = 1 .. 26
    BY DEF Code, PrologueCode, EpilogueCode, Integers45
  <1>. QED BY <1>1, <1>2 DEF LoopPosition, Code

LEMMA LocationNames == Locations =
    {"rbx", "rbp", "rsi", "rdi", "r12", "r13", "r14", "r15", "xmm6", "xmm7", "xmm8", "xmm9",
     "xmm10", "xmm11", "xmm12", "xmm13", "xmm14", "xmm15", "rax", "rcx", "rdx", "r8", "r9",
     "r10", "r11", "xmm0", "xmm1", "xmm2", "xmm3", "xmm4", "xmm5",
     "r0", "r1", "r2", "r3", "r4", "r5", "r6", "r7", "f0", "f1", "f2", "f3",
     "e0", "e1", "e2", "e3", "a0", "a1", "a2", "a3"}
  BY DEF Locations, Entries, Machine_Registers, Callee_Saved, Volatile

Source(s) == IF s \in Locations THEN content[s] ELSE Value(s)

(* One instruction of the code. *)
LEMMA Effect ==
  ASSUME Instruction, ip \in 0 .. 26, NEW b, NEW a, Code[ip] = [base |-> b, a |-> a]
  PROVE  /\ content' = [l \in Locations |-> IF l \in DOMAIN a THEN Source(a[l]) ELSE content[l]]
         /\ wild' = (wild \/ (b # "none" /\ content[b] # Value("scratchpad")))
         /\ ip' = (IF ip = 26 THEN 0 ELSE ip + 1)
         /\ calls' = IF ip = 26 THEN calls + 1 ELSE calls
  BY CodeLengths DEF Instruction, Source

(* Each instruction of prologue and epilogue. *)
LEMMA InstructionInv == ASSUME CallInv, Instruction PROVE CallInv'
  <1>. ip \in 0 .. 26 /\ ~ wild /\ calls \in Nat
    BY DEF CallInv
  <1>0. CallerValues /\ MachineValues /\ ProgramValues /\ Pointers
    BY DEF CallInv
  <1>. USE DEF CallerValues, MachineValues, ProgramValues, Pointers, Scratchpad, Kept, In,
               Stored, Exchanged, Moved, Source
  <1>1. CASE ip = 1
    <2> DEFINE a == [rax |-> "rcx"]
    <2>1. Code[1] = [base |-> "none", a |-> a]
      BY DEF Code, PrologueCode, EpilogueCode, Integers45, Assign, Via
    <2>2. /\ content' = [l \in Locations |-> IF l \in {"rax"}
                                           THEN Source(a[l]) ELSE content[l]]
          /\ ip' = 2 /\ calls' = calls
      BY <1>1, <2>1, Effect
    <2>4. ~ wild'
      BY <1>1, <2>1, Effect
    <2>5. CallerValues'
      BY <1>0, <1>1, <2>2, LocationNames
    <2>6. MachineValues'
      BY <1>0, <1>1, <2>2, LocationNames
    <2>7. ProgramValues'
      BY <1>0, <1>1, <2>2, LocationNames
    <2>8. Pointers'
      BY <1>0, <1>1, <2>2, LocationNames
    <2> HIDE DEF CallerValues, MachineValues, ProgramValues, Pointers
    <2>. QED BY <1>1, <2>2, <2>4, <2>5, <2>6, <2>7, <2>8 DEF CallInv
  <1>2. CASE ip = 2
    <2> DEFINE a == [r0 |-> "rbx", r1 |-> "rbp"]
    <2>1. Code[2] = [base |-> "rax", a |-> a]
      BY DEF Code, PrologueCode, EpilogueCode, Integers45, Assign, Via
    <2>2. /\ content' = [l \in Locations |-> IF l \in {"r0", "r1"}
                                           THEN Source(a[l]) ELSE content[l]]
          /\ ip' = 3 /\ calls' = calls
      BY <1>2, <2>1, Effect
    <2>. content["rax"] = Value("scratchpad")
      BY <1>0, <1>2
    <2>4. ~ wild'
      BY <1>2, <2>1, Effect, Zenon
    <2>5. CallerValues'
      BY <1>0, <1>2, <2>2, LocationNames
    <2>6. MachineValues'
      BY <1>0, <1>2, <2>2, LocationNames
    <2>7. ProgramValues'
      BY <1>0, <1>2, <2>2, LocationNames
    <2>8. Pointers'
      BY <1>0, <1>2, <2>2, LocationNames
    <2> HIDE DEF CallerValues, MachineValues, ProgramValues, Pointers
    <2>. QED BY <1>2, <2>2, <2>4, <2>5, <2>6, <2>7, <2>8 DEF CallInv
  <1>3. CASE ip = 3
    <2> DEFINE a == [rbx |-> "rdx", rdx |-> "rax", rax |-> "computed", rbp |-> "rdx"]
    <2>1. Code[3] = [base |-> "none", a |-> a]
      BY DEF Code, PrologueCode, EpilogueCode, Integers45, Assign, Via
    <2>2. /\ content' = [l \in Locations |-> IF l \in {"rbx", "rdx", "rax", "rbp"}
                                           THEN Source(a[l]) ELSE content[l]]
          /\ ip' = 4 /\ calls' = calls
      BY <1>3, <2>1, Effect
    <2>4. ~ wild'
      BY <1>3, <2>1, Effect
    <2>5. CallerValues'
      BY <1>0, <1>3, <2>2, LocationNames
    <2>6. MachineValues'
      BY <1>0, <1>3, <2>2, LocationNames
    <2>7. ProgramValues'
      BY <1>0, <1>3, <2>2, LocationNames
    <2>8. Pointers'
      BY <1>0, <1>3, <2>2, LocationNames
    <2> HIDE DEF CallerValues, MachineValues, ProgramValues, Pointers
    <2>. QED BY <1>3, <2>2, <2>4, <2>5, <2>6, <2>7, <2>8 DEF CallInv
  <1>4. CASE ip = 4
    <2> DEFINE a == [r2 |-> "rsi", r3 |-> "rdi"]
    <2>1. Code[4] = [base |-> "rdx", a |-> a]
      BY DEF Code, PrologueCode, EpilogueCode, Integers45, Assign, Via
    <2>2. /\ content' = [l \in Locations |-> IF l \in {"r2", "r3"}
                                           THEN Source(a[l]) ELSE content[l]]
          /\ ip' = 5 /\ calls' = calls
      BY <1>4, <2>1, Effect
    <2>. content["rdx"] = Value("scratchpad")
      BY <1>0, <1>4
    <2>4. ~ wild'
      BY <1>4, <2>1, Effect, Zenon
    <2>5. CallerValues'
      BY <1>0, <1>4, <2>2, LocationNames
    <2>6. MachineValues'
      BY <1>0, <1>4, <2>2, LocationNames
    <2>7. ProgramValues'
      BY <1>0, <1>4, <2>2, LocationNames
    <2>8. Pointers'
      BY <1>0, <1>4, <2>2, LocationNames
    <2> HIDE DEF CallerValues, MachineValues, ProgramValues, Pointers
    <2>. QED BY <1>4, <2>2, <2>4, <2>5, <2>6, <2>7, <2>8 DEF CallInv
  <1>5. CASE ip = 5
    <2> DEFINE a == [rdi |-> "computed", rbx |-> "rdx", rsi |-> "rcx", rcx |-> "computed",
                     rdx |-> "computed"]
    <2>1. Code[5] = [base |-> "none", a |-> a]
      BY DEF Code, PrologueCode, EpilogueCode, Integers45, Assign, Via
    <2>2. /\ content' = [l \in Locations |-> IF l \in {"rdi", "rbx", "rsi", "rcx", "rdx"}
                                           THEN Source(a[l]) ELSE content[l]]
          /\ ip' = 6 /\ calls' = calls
      BY <1>5, <2>1, Effect
    <2>4. ~ wild'
      BY <1>5, <2>1, Effect
    <2>5. CallerValues'
      BY <1>0, <1>5, <2>2, LocationNames
    <2>6. MachineValues'
      BY <1>0, <1>5, <2>2, LocationNames
    <2>7. ProgramValues'
      BY <1>0, <1>5, <2>2, LocationNames
    <2>8. Pointers'
      BY <1>0, <1>5, <2>2, LocationNames
    <2> HIDE DEF CallerValues, MachineValues, ProgramValues, Pointers
    <2>. QED BY <1>5, <2>2, <2>4, <2>5, <2>6, <2>7, <2>8 DEF CallInv
  <1>6. CASE ip = 6
    <2> DEFINE a == [r4 |-> "r12", r5 |-> "r13", r6 |-> "r14", r7 |-> "r15",
                     f0 |-> "xmm6", f1 |-> "xmm7"]
    <2>1. Code[6] = [base |-> "rbx", a |-> a]
      BY DEF Code, PrologueCode, EpilogueCode, Integers45, Assign, Via
    <2>2. /\ content' = [l \in Locations |-> IF l \in {"r4", "r5", "r6", "r7", "f0", "f1"}
                                           THEN Source(a[l]) ELSE content[l]]
          /\ ip' = 7 /\ calls' = calls
      BY <1>6, <2>1, Effect
    <2>. content["rbx"] = Value("scratchpad")
      BY <1>0, <1>6
    <2>4. ~ wild'
      BY <1>6, <2>1, Effect, Zenon
    <2>5. CallerValues'
      BY <1>0, <1>6, <2>2, LocationNames
    <2>6. MachineValues'
      BY <1>0, <1>6, <2>2, LocationNames
    <2>7. ProgramValues'
      BY <1>0, <1>6, <2>2, LocationNames
    <2>8. Pointers'
      BY <1>0, <1>6, <2>2, LocationNames
    <2> HIDE DEF CallerValues, MachineValues, ProgramValues, Pointers
    <2>. QED BY <1>6, <2>2, <2>4, <2>5, <2>6, <2>7, <2>8 DEF CallInv
  <1>7. CASE ip = 7
    <2> DEFINE a == [rcx |-> "rbx", rbx |-> "computed", rax |-> "computed",
                     xmm1 |-> "computed", xmm2 |-> "computed", xmm3 |-> "computed",
                     xmm4 |-> "computed", xmm5 |-> "computed", xmm6 |-> "computed",
                     xmm7 |-> "computed"]
    <2>1. Code[7] = [base |-> "none", a |-> a]
      BY DEF Code, PrologueCode, EpilogueCode, Integers45, Assign, Via
    <2>2. /\ content' = [l \in Locations |->
             IF l \in {"rcx", "rbx", "rax", "xmm1", "xmm2", "xmm3", "xmm4", "xmm5", "xmm6",
                       "xmm7"}
                                           THEN Source(a[l]) ELSE content[l]]
          /\ ip' = 8 /\ calls' = calls
      BY <1>7, <2>1, Effect
    <2>4. ~ wild'
      BY <1>7, <2>1, Effect
    <2>5. CallerValues'
      BY <1>0, <1>7, <2>2, LocationNames
    <2>6. MachineValues'
      BY <1>0, <1>7, <2>2, LocationNames
    <2>7. ProgramValues'
      BY <1>0, <1>7, <2>2, LocationNames
    <2>8. Pointers'
      BY <1>0, <1>7, <2>2, LocationNames
    <2> HIDE DEF CallerValues, MachineValues, ProgramValues, Pointers
    <2>. QED BY <1>7, <2>2, <2>4, <2>5, <2>6, <2>7, <2>8 DEF CallInv
  <1>8. CASE ip = 8
    <2> DEFINE a == [f2 |-> "xmm8", f3 |-> "xmm9"]
    <2>1. Code[8] = [base |-> "rcx", a |-> a]
      BY DEF Code, PrologueCode, EpilogueCode, Integers45, Assign, Via
    <2>2. /\ content' = [l \in Locations |-> IF l \in {"f2", "f3"}
                                           THEN Source(a[l]) ELSE content[l]]
          /\ ip' = 9 /\ calls' = calls
      BY <1>8, <2>1, Effect
    <2>. content["rcx"] = Value("scratchpad")
      BY <1>0, <1>8
    <2>4. ~ wild'
      BY <1>8, <2>1, Effect, Zenon
    <2>5. CallerValues'
      BY <1>0, <1>8, <2>2, LocationNames
    <2>6. MachineValues'
      BY <1>0, <1>8, <2>2, LocationNames
    <2>7. ProgramValues'
      BY <1>0, <1>8, <2>2, LocationNames
    <2>8. Pointers'
      BY <1>0, <1>8, <2>2, LocationNames
    <2> HIDE DEF CallerValues, MachineValues, ProgramValues, Pointers
    <2>. QED BY <1>8, <2>2, <2>4, <2>5, <2>6, <2>7, <2>8 DEF CallInv
  <1>9. CASE ip = 9
    <2> DEFINE a == [xmm8 |-> "program_a0", xmm9 |-> "program_a1"]
    <2>1. Code[9] = [base |-> "none", a |-> a]
      BY DEF Code, PrologueCode, EpilogueCode, Integers45, Assign, Via
    <2>2. /\ content' = [l \in Locations |-> IF l \in {"xmm8", "xmm9"}
                                           THEN Source(a[l]) ELSE content[l]]
          /\ ip' = 10 /\ calls' = calls
      BY <1>9, <2>1, Effect
    <2>4. ~ wild'
      BY <1>9, <2>1, Effect
    <2>5. CallerValues'
      BY <1>0, <1>9, <2>2, LocationNames
    <2>6. MachineValues'
      BY <1>0, <1>9, <2>2, LocationNames
    <2>7. ProgramValues'
      BY <1>0, <1>9, <2>2, LocationNames
    <2>8. Pointers'
      BY <1>0, <1>9, <2>2, LocationNames
    <2> HIDE DEF CallerValues, MachineValues, ProgramValues, Pointers
    <2>. QED BY <1>9, <2>2, <2>4, <2>5, <2>6, <2>7, <2>8 DEF CallInv
  <1>10. CASE ip = 10
    <2> DEFINE a == [e0 |-> "xmm10", e1 |-> "xmm11"]
    <2>1. Code[10] = [base |-> "rcx", a |-> a]
      BY DEF Code, PrologueCode, EpilogueCode, Integers45, Assign, Via
    <2>2. /\ content' = [l \in Locations |-> IF l \in {"e0", "e1"}
                                           THEN Source(a[l]) ELSE content[l]]
          /\ ip' = 11 /\ calls' = calls
      BY <1>10, <2>1, Effect
    <2>. content["rcx"] = Value("scratchpad")
      BY <1>0, <1>10
    <2>4. ~ wild'
      BY <1>10, <2>1, Effect, Zenon
    <2>5. CallerValues'
      BY <1>0, <1>10, <2>2, LocationNames
    <2>6. MachineValues'
      BY <1>0, <1>10, <2>2, LocationNames
    <2>7. ProgramValues'
      BY <1>0, <1>10, <2>2, LocationNames
    <2>8. Pointers'
      BY <1>0, <1>10, <2>2, LocationNames
    <2> HIDE DEF CallerValues, MachineValues, ProgramValues, Pointers
    <2>. QED BY <1>10, <2>2, <2>4, <2>5, <2>6, <2>7, <2>8 DEF CallInv
  <1>11. CASE ip = 11
    <2> DEFINE a == [xmm10 |-> "program_a2", xmm11 |-> "program_a3"]
    <2>1. Code[11] = [base |-> "none", a |-> a]
      BY DEF Code, PrologueCode, EpilogueCode, Integers45, Assign, Via
    <2>2. /\ content' = [l \in Locations |-> IF l \in {"xmm10", "xmm11"}
                                           THEN Source(a[l]) ELSE content[l]]
          /\ ip' = 12 /\ calls' = calls
      BY <1>11, <2>1, Effect
    <2>4. ~ wild'
      BY <1>11, <2>1, Effect
    <2>5. CallerValues'
      BY <1>0, <1>11, <2>2, LocationNames
    <2>6. MachineValues'
      BY <1>0, <1>11, <2>2, LocationNames
    <2>7. ProgramValues'
      BY <1>0, <1>11, <2>2, LocationNames
    <2>8. Pointers'
      BY <1>0, <1>11, <2>2, LocationNames
    <2> HIDE DEF CallerValues, MachineValues, ProgramValues, Pointers
    <2>. QED BY <1>11, <2>2, <2>4, <2>5, <2>6, <2>7, <2>8 DEF CallInv
  <1>12. CASE ip = 12
    <2> DEFINE a == [e2 |-> "xmm12", e3 |-> "xmm13", a0 |-> "xmm14", a1 |-> "xmm15"]
    <2>1. Code[12] = [base |-> "rcx", a |-> a]
      BY DEF Code, PrologueCode, EpilogueCode, Integers45, Assign, Via
    <2>2. /\ content' = [l \in Locations |-> IF l \in {"e2", "e3", "a0", "a1"}
                                           THEN Source(a[l]) ELSE content[l]]
          /\ ip' = 13 /\ calls' = calls
      BY <1>12, <2>1, Effect
    <2>. content["rcx"] = Value("scratchpad")
      BY <1>0, <1>12
    <2>4. ~ wild'
      BY <1>12, <2>1, Effect, Zenon
    <2>5. CallerValues'
      BY <1>0, <1>12, <2>2, LocationNames
    <2>6. MachineValues'
      BY <1>0, <1>12, <2>2, LocationNames
    <2>7. ProgramValues'
      BY <1>0, <1>12, <2>2, LocationNames
    <2>8. Pointers'
      BY <1>0, <1>12, <2>2, LocationNames
    <2> HIDE DEF CallerValues, MachineValues, ProgramValues, Pointers
    <2>. QED BY <1>12, <2>2, <2>4, <2>5, <2>6, <2>7, <2>8 DEF CallInv
  <1>13. CASE ip = 13
    <2> DEFINE a == [rax |-> "rdx", rbx |-> "computed", xmm0 |-> "computed",
                     xmm13 |-> "computed", xmm14 |-> "computed", xmm15 |-> "computed",
                     r8 |-> "zero", r9 |-> "zero", r10 |-> "zero", r11 |-> "zero",
                     r12 |-> "zero", r13 |-> "zero", r14 |-> "zero", r15 |-> "zero"]
    <2>1. Code[13] = [base |-> "none", a |-> a]
      BY DEF Code, PrologueCode, EpilogueCode, Integers45, Assign, Via
    <2>2. /\ content' = [l \in Locations |->
             IF l \in {"rax", "rbx", "xmm0", "xmm13", "xmm14", "xmm15", "r8", "r9", "r10",
                       "r11", "r12", "r13", "r14", "r15"}
                                           THEN Source(a[l]) ELSE content[l]]
          /\ ip' = 14 /\ calls' = calls
      BY <1>13, <2>1, Effect
    <2>4. ~ wild'
      BY <1>13, <2>1, Effect
    <2>5. CallerValues'
      BY <1>0, <1>13, <2>2, LocationNames
    <2>6. MachineValues'
      BY <1>0, <1>13, <2>2, LocationNames
    <2>7. ProgramValues'
      BY <1>0, <1>13, <2>2, LocationNames
    <2>8. Pointers'
      BY <1>0, <1>13, <2>2, LocationNames
    <2> HIDE DEF CallerValues, MachineValues, ProgramValues, Pointers
    <2>. QED BY <1>13, <2>2, <2>4, <2>5, <2>6, <2>7, <2>8 DEF CallInv
  <1>15. CASE ip = 15
    <2> DEFINE a == [rcx |-> "rsi"]
    <2>1. Code[15] = [base |-> "none", a |-> a]
      BY DEF Code, PrologueCode, EpilogueCode, Integers45, Assign, Via
    <2>2. /\ content' = [l \in Locations |-> IF l \in {"rcx"}
                                           THEN Source(a[l]) ELSE content[l]]
          /\ ip' = 16 /\ calls' = calls
      BY <1>15, <2>1, Effect
    <2>4. ~ wild'
      BY <1>15, <2>1, Effect
    <2>5. CallerValues'
      BY <1>0, <1>15, <2>2, LocationNames
    <2>6. MachineValues'
      BY <1>0, <1>15, <2>2, LocationNames
    <2>7. ProgramValues'
      BY <1>0, <1>15, <2>2, LocationNames
    <2>8. Pointers'
      BY <1>0, <1>15, <2>2, LocationNames
    <2> HIDE DEF CallerValues, MachineValues, ProgramValues, Pointers
    <2>. QED BY <1>15, <2>2, <2>4, <2>5, <2>6, <2>7, <2>8 DEF CallInv
  <1>16. CASE ip = 16
    <2> DEFINE a == [rbx |-> "r0", r0 |-> "r8", rbp |-> "r1", r1 |-> "r9", rsi |-> "r2",
                     r2 |-> "r10", rdi |-> "r3", r3 |-> "r11"]
    <2>1. Code[16] = [base |-> "rcx", a |-> a]
      BY DEF Code, PrologueCode, EpilogueCode, Integers45, Assign, Via
    <2>2. /\ content' = [l \in Locations |->
             IF l \in {"rbx", "r0", "rbp", "r1", "rsi", "r2", "rdi", "r3"}
                                           THEN Source(a[l]) ELSE content[l]]
          /\ ip' = 17 /\ calls' = calls
      BY <1>16, <2>1, Effect
    <2>. content["rcx"] = Value("scratchpad")
      BY <1>0, <1>16
    <2>4. ~ wild'
      BY <1>16, <2>1, Effect, Zenon
    <2>5. CallerValues'
      BY <1>0, <1>16, <2>2, LocationNames
    <2>6. MachineValues'
      BY <1>0, <1>16, <2>2, LocationNames
    <2>7. ProgramValues'
      BY <1>0, <1>16, <2>2, LocationNames
    <2>8. Pointers'
      BY <1>0, <1>16, <2>2, LocationNames
    <2> HIDE DEF CallerValues, MachineValues, ProgramValues, Pointers
    <2>. QED BY <1>16, <2>2, <2>4, <2>5, <2>6, <2>7, <2>8 DEF CallInv
  <1>17. CASE ip = 17
    <2> DEFINE a == [rax |-> "r12", rdx |-> "r13"]
    <2>1. Code[17] = [base |-> "none", a |-> a]
      BY DEF Code, PrologueCode, EpilogueCode, Integers45, Assign, Via
    <2>2. /\ content' = [l \in Locations |-> IF l \in {"rax", "rdx"}
                                           THEN Source(a[l]) ELSE content[l]]
          /\ ip' = 18 /\ calls' = calls
      BY <1>17, <2>1, Effect
    <2>4. ~ wild'
      BY <1>17, <2>1, Effect
    <2>5. CallerValues'
      BY <1>0, <1>17, <2>2, LocationNames
    <2>6. MachineValues'
      BY <1>0, <1>17, <2>2, LocationNames
    <2>7. ProgramValues'
      BY <1>0, <1>17, <2>2, LocationNames
    <2>8. Pointers'
      BY <1>0, <1>17, <2>2, LocationNames
    <2> HIDE DEF CallerValues, MachineValues, ProgramValues, Pointers
    <2>. QED BY <1>17, <2>2, <2>4, <2>5, <2>6, <2>7, <2>8 DEF CallInv
  <1>18. CASE ip = 18
    <2> DEFINE a == [r12 |-> "r4", r4 |-> "rax", r13 |-> "r5", r5 |-> "rdx"]
    <2>1. Code[18] = [base |-> "rcx", a |-> a]
      BY DEF Code, PrologueCode, EpilogueCode, Integers45, Assign, Via
    <2>2. /\ content' = [l \in Locations |-> IF l \in {"r12", "r4", "r13", "r5"}
                                           THEN Source(a[l]) ELSE content[l]]
          /\ ip' = 19 /\ calls' = calls
      BY <1>18, <2>1, Effect
    <2>. content["rcx"] = Value("scratchpad")
      BY <1>0, <1>18
    <2>4. ~ wild'
      BY <1>18, <2>1, Effect, Zenon
    <2>5. CallerValues'
      BY <1>0, <1>18, <2>2, LocationNames
    <2>6. MachineValues'
      BY <1>0, <1>18, <2>2, LocationNames
    <2>7. ProgramValues'
      BY <1>0, <1>18, <2>2, LocationNames
    <2>8. Pointers'
      BY <1>0, <1>18, <2>2, LocationNames
    <2> HIDE DEF CallerValues, MachineValues, ProgramValues, Pointers
    <2>. QED BY <1>18, <2>2, <2>4, <2>5, <2>6, <2>7, <2>8 DEF CallInv
  <1>19. CASE ip = 19
    <2> DEFINE a == [rax |-> "r14", rdx |-> "r15"]
    <2>1. Code[19] = [base |-> "none", a |-> a]
      BY DEF Code, PrologueCode, EpilogueCode, Integers45, Assign, Via
    <2>2. /\ content' = [l \in Locations |-> IF l \in {"rax", "rdx"}
                                           THEN Source(a[l]) ELSE content[l]]
          /\ ip' = 20 /\ calls' = calls
      BY <1>19, <2>1, Effect
    <2>4. ~ wild'
      BY <1>19, <2>1, Effect
    <2>5. CallerValues'
      BY <1>0, <1>19, <2>2, LocationNames
    <2>6. MachineValues'
      BY <1>0, <1>19, <2>2, LocationNames
    <2>7. ProgramValues'
      BY <1>0, <1>19, <2>2, LocationNames
    <2>8. Pointers'
      BY <1>0, <1>19, <2>2, LocationNames
    <2> HIDE DEF CallerValues, MachineValues, ProgramValues, Pointers
    <2>. QED BY <1>19, <2>2, <2>4, <2>5, <2>6, <2>7, <2>8 DEF CallInv
  <1>20. CASE ip = 20
    <2> DEFINE a == [r14 |-> "r6", r6 |-> "rax", r15 |-> "r7", r7 |-> "rdx"]
    <2>1. Code[20] = [base |-> "rcx", a |-> a]
      BY DEF Code, PrologueCode, EpilogueCode, Integers45, Assign, Via
    <2>2. /\ content' = [l \in Locations |-> IF l \in {"r14", "r6", "r15", "r7"}
                                           THEN Source(a[l]) ELSE content[l]]
          /\ ip' = 21 /\ calls' = calls
      BY <1>20, <2>1, Effect
    <2>. content["rcx"] = Value("scratchpad")
      BY <1>0, <1>20
    <2>4. ~ wild'
      BY <1>20, <2>1, Effect, Zenon
    <2>5. CallerValues'
      BY <1>0, <1>20, <2>2, LocationNames
    <2>6. MachineValues'
      BY <1>0, <1>20, <2>2, LocationNames
    <2>7. ProgramValues'
      BY <1>0, <1>20, <2>2, LocationNames
    <2>8. Pointers'
      BY <1>0, <1>20, <2>2, LocationNames
    <2> HIDE DEF CallerValues, MachineValues, ProgramValues, Pointers
    <2>. QED BY <1>20, <2>2, <2>4, <2>5, <2>6, <2>7, <2>8 DEF CallInv
  <1>21. CASE ip = 21
    <2> DEFINE a == [xmm12 |-> "xmm6", xmm13 |-> "xmm7", xmm14 |-> "xmm8", xmm15 |-> "xmm9"]
    <2>1. Code[21] = [base |-> "none", a |-> a]
      BY DEF Code, PrologueCode, EpilogueCode, Integers45, Assign, Via
    <2>2. /\ content' = [l \in Locations |-> IF l \in {"xmm12", "xmm13", "xmm14", "xmm15"}
                                           THEN Source(a[l]) ELSE content[l]]
          /\ ip' = 22 /\ calls' = calls
      BY <1>21, <2>1, Effect
    <2>4. ~ wild'
      BY <1>21, <2>1, Effect
    <2>5. CallerValues'
      BY <1>0, <1>21, <2>2, LocationNames
    <2>6. MachineValues'
      BY <1>0, <1>21, <2>2, LocationNames
    <2>7. ProgramValues'
      BY <1>0, <1>21, <2>2, LocationNames
    <2>8. Pointers'
      BY <1>0, <1>21, <2>2, LocationNames
    <2> HIDE DEF CallerValues, MachineValues, ProgramValues, Pointers
    <2>. QED BY <1>21, <2>2, <2>4, <2>5, <2>6, <2>7, <2>8 DEF CallInv
  <1>22. CASE ip = 22
    <2> DEFINE a == [xmm6 |-> "f0", f0 |-> "xmm0", xmm7 |-> "f1", f1 |-> "xmm1",
                     xmm8 |-> "f2", f2 |-> "xmm2", xmm9 |-> "f3", f3 |-> "xmm3"]
    <2>1. Code[22] = [base |-> "rcx", a |-> a]
      BY DEF Code, PrologueCode, EpilogueCode, Integers45, Assign, Via
    <2>2. /\ content' = [l \in Locations |->
             IF l \in {"xmm6", "f0", "xmm7", "f1", "xmm8", "f2", "xmm9", "f3"}
                                           THEN Source(a[l]) ELSE content[l]]
          /\ ip' = 23 /\ calls' = calls
      BY <1>22, <2>1, Effect
    <2>. content["rcx"] = Value("scratchpad")
      BY <1>0, <1>22
    <2>4. ~ wild'
      BY <1>22, <2>1, Effect, Zenon
    <2>5. CallerValues'
      BY <1>0, <1>22, <2>2, LocationNames
    <2>6. MachineValues'
      BY <1>0, <1>22, <2>2, LocationNames
    <2>7. ProgramValues'
      BY <1>0, <1>22, <2>2, LocationNames
    <2>8. Pointers'
      BY <1>0, <1>22, <2>2, LocationNames
    <2> HIDE DEF CallerValues, MachineValues, ProgramValues, Pointers
    <2>. QED BY <1>22, <2>2, <2>4, <2>5, <2>6, <2>7, <2>8 DEF CallInv
  <1>23. CASE ip = 23
    <2> DEFINE a == [xmm0 |-> "xmm10", xmm1 |-> "xmm11"]
    <2>1. Code[23] = [base |-> "none", a |-> a]
      BY DEF Code, PrologueCode, EpilogueCode, Integers45, Assign, Via
    <2>2. /\ content' = [l \in Locations |-> IF l \in {"xmm0", "xmm1"}
                                           THEN Source(a[l]) ELSE content[l]]
          /\ ip' = 24 /\ calls' = calls
      BY <1>23, <2>1, Effect
    <2>4. ~ wild'
      BY <1>23, <2>1, Effect
    <2>5. CallerValues'
      BY <1>0, <1>23, <2>2, LocationNames
    <2>6. MachineValues'
      BY <1>0, <1>23, <2>2, LocationNames
    <2>7. ProgramValues'
      BY <1>0, <1>23, <2>2, LocationNames
    <2>8. Pointers'
      BY <1>0, <1>23, <2>2, LocationNames
    <2> HIDE DEF CallerValues, MachineValues, ProgramValues, Pointers
    <2>. QED BY <1>23, <2>2, <2>4, <2>5, <2>6, <2>7, <2>8 DEF CallInv
  <1>24. CASE ip = 24
    <2> DEFINE a == [xmm10 |-> "e0", e0 |-> "xmm4", xmm11 |-> "e1", e1 |-> "xmm5"]
    <2>1. Code[24] = [base |-> "rcx", a |-> a]
      BY DEF Code, PrologueCode, EpilogueCode, Integers45, Assign, Via
    <2>2. /\ content' = [l \in Locations |-> IF l \in {"xmm10", "e0", "xmm11", "e1"}
                                           THEN Source(a[l]) ELSE content[l]]
          /\ ip' = 25 /\ calls' = calls
      BY <1>24, <2>1, Effect
    <2>. content["rcx"] = Value("scratchpad")
      BY <1>0, <1>24
    <2>4. ~ wild'
      BY <1>24, <2>1, Effect, Zenon
    <2>5. CallerValues'
      BY <1>0, <1>24, <2>2, LocationNames
    <2>6. MachineValues'
      BY <1>0, <1>24, <2>2, LocationNames
    <2>7. ProgramValues'
      BY <1>0, <1>24, <2>2, LocationNames
    <2>8. Pointers'
      BY <1>0, <1>24, <2>2, LocationNames
    <2> HIDE DEF CallerValues, MachineValues, ProgramValues, Pointers
    <2>. QED BY <1>24, <2>2, <2>4, <2>5, <2>6, <2>7, <2>8 DEF CallInv
  <1>25. CASE ip = 25
    <2> DEFINE a == [xmm2 |-> "xmm12", xmm3 |-> "xmm13", xmm4 |-> "xmm14", xmm5 |-> "xmm15"]
    <2>1. Code[25] = [base |-> "none", a |-> a]
      BY DEF Code, PrologueCode, EpilogueCode, Integers45, Assign, Via
    <2>2. /\ content' = [l \in Locations |-> IF l \in {"xmm2", "xmm3", "xmm4", "xmm5"}
                                           THEN Source(a[l]) ELSE content[l]]
          /\ ip' = 26 /\ calls' = calls
      BY <1>25, <2>1, Effect
    <2>4. ~ wild'
      BY <1>25, <2>1, Effect
    <2>5. CallerValues'
      BY <1>0, <1>25, <2>2, LocationNames
    <2>6. MachineValues'
      BY <1>0, <1>25, <2>2, LocationNames
    <2>7. ProgramValues'
      BY <1>0, <1>25, <2>2, LocationNames
    <2>8. Pointers'
      BY <1>0, <1>25, <2>2, LocationNames
    <2> HIDE DEF CallerValues, MachineValues, ProgramValues, Pointers
    <2>. QED BY <1>25, <2>2, <2>4, <2>5, <2>6, <2>7, <2>8 DEF CallInv
  <1>26. CASE ip = 26
    <2> DEFINE a == [xmm12 |-> "e2", e2 |-> "xmm2", xmm13 |-> "e3", e3 |-> "xmm3",
                     xmm14 |-> "a0", a0 |-> "xmm4", xmm15 |-> "a1", a1 |-> "xmm5",
                     a2 |-> "xmm0", a3 |-> "xmm1"]
    <2>1. Code[26] = [base |-> "rcx", a |-> a]
      BY DEF Code, PrologueCode, EpilogueCode, Integers45, Assign, Via
    <2>2. /\ content' = [l \in Locations |->
             IF l \in {"xmm12", "e2", "xmm13", "e3", "xmm14", "a0", "xmm15", "a1", "a2",
                       "a3"}
                                           THEN Source(a[l]) ELSE content[l]]
          /\ ip' = 0 /\ calls' = calls + 1
      BY <1>26, <2>1, Effect
    <2>. content["rcx"] = Value("scratchpad")
      BY <1>0, <1>26
    <2>4. ~ wild'
      BY <1>26, <2>1, Effect, Zenon
    <2>5. CallerValues'
      BY <1>0, <1>26, <2>2, LocationNames
    <2>6. MachineValues'
      BY <1>0, <1>26, <2>2, LocationNames
    <2>7. ProgramValues'
      BY <1>0, <1>26, <2>2, LocationNames
    <2>8. Pointers'
      BY <1>0, <1>26, <2>2, LocationNames
    <2> HIDE DEF CallerValues, MachineValues, ProgramValues, Pointers
    <2>. QED BY <1>26, <2>2, <2>4, <2>5, <2>6, <2>7, <2>8 DEF CallInv
  <1>. QED BY <1>1, <1>2, <1>3, <1>4, <1>5, <1>6, <1>7, <1>8, <1>9, <1>10, <1>11, <1>12,
              <1>13, <1>15, <1>16, <1>17, <1>18, <1>19, <1>20, <1>21, <1>22, <1>23, <1>24,
              <1>25, <1>26, CodeLengths DEF Instruction

LEMMA CallStepInv == ASSUME CallInv, Call PROVE CallInv'
  <1>. /\ ip = 0 /\ ip' = 1 /\ calls' = calls /\ wild' = wild
       /\ content' = [content EXCEPT
              !["a2"] = Value("address_mask"), !["a3"] = Value("rounding_modes"),
              !["rcx"] = Value("scratchpad"), !["rdx"] = Value("dataset"),
              !["r8"] = Value("program")]
    BY DEF Call, Written
  <1>1. DOMAIN content = Locations /\ CallerValues /\ calls \in Nat /\ ~ wild
    BY DEF CallInv
  <1>. QED BY <1>1, LocationNames
       DEF CallInv, CallerValues, MachineValues, ProgramValues, Pointers, Scratchpad, Kept, In,
           Stored, Exchanged, Moved

(* The loop's registers, each with the register of the machine it is for. *)
LEMMA LoopRegisters ==
  ASSUME RunLoop
  PROVE  /\ content' = [l \in Locations |->
               IF l \in {"r8", "r9", "r10", "r11", "r12", "r13", "r14", "r15",
                         "xmm0", "xmm1", "xmm2", "xmm3", "xmm4", "xmm5", "xmm6", "xmm7"}
               THEN Machine(CHOOSE e \in Entries : l = Machine_Registers[e])
               ELSE IF l \in {"rax", "rbx", "rcx", "rdx", "rdi", "xmm12"} THEN Value("computed")
               ELSE content[l]]
  <1>1. ASSUME NEW l \in Locations
        PROVE  (\E e \in Entries \ Constant_Registers : l = Machine_Registers[e])
               <=> l \in {"r8", "r9", "r10", "r11", "r12", "r13", "r14", "r15",
                         "xmm0", "xmm1", "xmm2", "xmm3", "xmm4", "xmm5", "xmm6", "xmm7"}
    BY DEF Entries, Machine_Registers, Constant_Registers
  <1>. QED BY <1>1 DEF RunLoop

(* No two entries share a register. *)
LEMMA Inverse ==
  ASSUME NEW e \in Entries
  PROVE  (CHOOSE d \in Entries : Machine_Registers[e] = Machine_Registers[d]) = e
  BY DEF Entries, Machine_Registers

LEMMA RunLoopInv == ASSUME CallInv, RunLoop PROVE CallInv'
  <1>1. /\ ip = 14 /\ ip' = 15 /\ calls' = calls /\ wild' = wild /\ DOMAIN content' = Locations
    BY CodeLengths DEF RunLoop
  <1>2. CallerValues /\ MachineValues /\ ProgramValues /\ Pointers /\ calls \in Nat /\ ~ wild
    BY DEF CallInv
  <1>3. CallerValues'
    BY <1>1, <1>2, LoopRegisters, LocationNames DEF CallerValues, Kept
  <1>4. ASSUME NEW e \in Entries \ Constant_Registers
        PROVE  content'[Machine_Registers[e]] = Machine(e)
    <2>1. \E d \in Entries \ Constant_Registers : Machine_Registers[e] = Machine_Registers[d]
      OBVIOUS
    <2>2. Machine_Registers[e] \in Locations
      BY LocationNames DEF Entries, Machine_Registers
    <2>. QED BY <2>1, <2>2, Inverse DEF RunLoop
  <1>5. MachineValues'
    <2>1. \A e \in {"r0", "r1", "r2", "r3", "r4", "r5", "r6", "r7", "f0", "f1", "f2", "f3",
                    "e0", "e1", "e2", "e3"} : content'[Machine_Registers[e]] = Machine(e)
      BY <1>4 DEF Entries, Machine_Registers, Constant_Registers
    <2>. QED BY <1>1, <2>1 DEF MachineValues, In, Stored, Exchanged, Moved, Machine_Registers
  <1>6. ProgramValues'
    BY <1>1, <1>2, LoopRegisters, LocationNames DEF ProgramValues, In, Stored, Moved
  <1>7. Pointers'
    BY <1>1, <1>2, LoopRegisters, LocationNames DEF Pointers, In, Scratchpad
  <1>. QED BY <1>1, <1>2, <1>3, <1>5, <1>6, <1>7 DEF CallInv

LEMMA CallInitInv == CallInit => CallInv
  <1>. SUFFICES ASSUME CallInit PROVE CallInv
    OBVIOUS
  <1>1. \A l \in Callee_Saved : content[l] = Caller(l)
    BY LocationNames DEF CallInit, Callee_Saved, Locations, Entries, Machine_Registers
  <1>. QED BY <1>1
       DEF CallInit, CallInv, CallerValues, MachineValues, ProgramValues, Pointers, Scratchpad,
           Kept, In, Stored, Exchanged, Moved, Callee_Saved

LEMMA CallNextInv == CallInv /\ [CallNext]_callVars => CallInv'
  <1>1. ASSUME CallInv, UNCHANGED callVars PROVE CallInv'
    BY <1>1 DEF callVars, CallInv, CallerValues, MachineValues, ProgramValues, Pointers,
           Kept, In, Stored, Exchanged, Moved
  <1>. QED BY <1>1, CallStepInv, InstructionInv, RunLoopInv DEF CallNext

LEMMA CallInvariant == CallSpec => []CallInv
  BY CallInitInv, CallNextInv, PTL DEF CallSpec

(* When a call returns the caller has its registers back, and each entry   *)
(* of the register file, by way of which they were kept, holds the         *)
(* register of the machine it is for: after any number of calls.           *)
THEOREM CallPreserved == CallSpec => []CallPreserves
  <1>1. CallInv => CallPreserves
    <2>. SUFFICES ASSUME CallInv, ip = 0, calls > 0
                  PROVE  /\ \A l \in Callee_Saved : content[l] = Caller(l)
                         /\ \A e \in Entries : content[e] = IF e \in Constant_Registers
                               THEN Value(Program_Registers[e]) ELSE Machine(e)
      BY DEF CallPreserves
    <2>1. CallerValues /\ MachineValues /\ ProgramValues
      BY DEF CallInv
    <2>2. \A l \in Callee_Saved : content[l] = Caller(l)
      BY <2>1 DEF CallerValues, Kept, Callee_Saved
    <2>3. \A e \in Entries : content[e] = IF e \in Constant_Registers
                               THEN Value(Program_Registers[e]) ELSE Machine(e)
      BY <2>1 DEF MachineValues, ProgramValues, Stored, Exchanged, Moved, Entries,
                  Machine_Registers, Constant_Registers, Program_Registers
    <2>. QED BY <2>2, <2>3
  <1>. QED BY <1>1, CallInvariant, PTL

(* The loop finds its pointers, constants and zero registers, those that   *)
(* the previous call has overwritten included, and the file is accessed    *)
(* only through a pointer to it.                                           *)
THEOREM LoopFindsEnvironment == CallSpec => []LoopEnvironment
  <1>1. CallInv => LoopEnvironment
    BY CodeLengths DEF CallInv, ProgramValues, Pointers, Scratchpad, In, Stored, Moved,
           LoopEnvironment, Machine_Registers, Constant_Registers, Program_Registers
  <1>. QED BY <1>1, CallInvariant, PTL
===============================================================================
