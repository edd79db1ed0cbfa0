------------------------------ MODULE ProgramFrame ------------------------------
(***************************************************************************)
(* virtualmachineprogram.cpp: the machine code around a RandomX program,   *)
(* from the entropy it takes its addresses from to the end of its loop;    *)
(* virtualmachine.cpp patches the numbers of the read registers into it.   *)
(*                                                                         *)
(* The code keeps ma and mx in the two halves of RDI, both scratchpad      *)
(* addresses in the halves of RDX, and mixes the addresses of an iteration *)
(* at the end of the one before.  The program between the two pieces uses  *)
(* RAX, RCX and RDX itself, so that the addresses wait in the 16 bytes     *)
(* below the scratchpad.  Only addresses are computed bit by bit (a half   *)
(* of a register is the set of its bits that are one); the floating point  *)
(* registers are one value, since converting and combining them uses no    *)
(* address.  CallFrame models how the registers are saved and restored.    *)
(***************************************************************************)
EXTENDS Integers

CONSTANTS
    Item_Bits,    \* 0x7fffffc0, Cache_Line_Align_Mask
    Line_Bits,    \* 0x001fffc0, Scratchpad_L3_Mask64
    Bits,         \* of half a word
    Files,        \* contents a program may leave in its registers and store
    Items,        \* the dataset, shifted by what the entropy asks for
    Pads,         \* contents of the scratchpad before the program
    Entropies,    \* what the program's entropy says: ma, mx and read registers
    Clobbered,    \* what a program may leave in RAX, RCX and RDX
    Iterations    \* 2048

Half == SUBSET Bits
Word == [lo : Half, hi : Half]
File == [0 .. 7 -> Word]
Offsets == SUBSET Item_Bits
Lines == SUBSET Line_Bits

ASSUME FrameAssumption ==
    /\ Line_Bits \subseteq Item_Bits /\ Item_Bits \subseteq Bits
    /\ Files \subseteq File
    /\ Items \in [Offsets -> File]
    /\ Pads \subseteq [Lines -> File]
    /\ Entropies \subseteq [ma : Half, mx : Half, read : [0 .. 3 -> 0 .. 1]]
    /\ Clobbered \subseteq Word
    /\ Iterations \in Nat \ {0}

VARIABLES
    frame_pc,    \* the piece of code that comes next
    entropy,     \* of the program, constant
    eax,         \* RAX, of which a half is used
    ecx,         \* RCX, likewise
    rdx, rdi,
    rbx,         \* iterations left
    reserved,    \* OtherConsts::reserved
    regs,        \* R8 to R15
    fe,          \* XMM0 to XMM7
    scratchpad,
    prefetched   \* the item a prefetch asked for last

frameVars == <<frame_pc, entropy, eax, ecx, rdx, rdi, rbx, reserved, regs, fe, scratchpad,
               prefetched>>

-----------------------------------------------------------------------------
Xor(a, b) == (a \ b) \union (b \ a)
XorWords(a, b) == [lo |-> Xor(a.lo, b.lo), hi |-> Xor(a.hi, b.hi)]
XorFiles(a, b) == [i \in 0 .. 7 |-> XorWords(a[i], b[i])]
Zeros == [i \in 0 .. 7 |-> [lo |-> {}, hi |-> {}]]
Mask(w, bits) == [lo |-> w.lo \intersect bits, hi |-> w.hi \intersect bits]
Ror32(w) == [lo |-> w.hi, hi |-> w.lo]

(* compileProgram patches read_reg0 to read_reg3 by one bit each. *)
ReadReg(k) == regs[2 * k + entropy.read[k]]

(* RDX and RDI when the prologue starts do not matter. *)
FrameInit ==
    /\ frame_pc = "prologue"
    /\ entropy \in Entropies
    /\ eax = {} /\ ecx = {}
    /\ rdx = [lo |-> {}, hi |-> {}] /\ rdi = [lo |-> {}, hi |-> {}]
    /\ rbx = 0
    /\ reserved = [lo |-> {}, hi |-> {}]
    /\ regs = Zeros /\ fe = Zeros
    /\ scratchpad \in Pads
    /\ prefetched = {}

(* The prologue masks ma for the dataset, but not mx. *)
Prologue ==
    LET ma == entropy.ma \intersect Item_Bits
    IN  /\ frame_pc = "prologue"
        /\ frame_pc' = "load"
        /\ prefetched' = ma
        /\ rdi' = [lo |-> ma, hi |-> entropy.mx]
        /\ rdx' = [lo |-> ma \intersect Line_Bits, hi |-> entropy.mx \intersect Line_Bits]
        /\ eax' = ma \intersect Line_Bits
        /\ ecx' = {}
        /\ rbx' = Iterations
        /\ regs' = Zeros
        /\ UNCHANGED <<entropy, reserved, fe, scratchpad>>

(* Loop initialization: the addresses are put away before they are split. *)
LoopInit ==
    /\ frame_pc = "load"
    /\ frame_pc' = "execute"
    /\ fe' = scratchpad[eax]
    /\ reserved' = rdx
    /\ rdx' = [lo |-> rdx.hi, hi |-> {}]
    /\ regs' = XorFiles(regs, scratchpad[rdx.hi])
    /\ UNCHANGED <<entropy, eax, ecx, rdi, rbx, scratchpad, prefetched>>

(* The compiled program: its results are its own, its temporaries lost.    *)
(* It stores to any line of the scratchpad, never below it.                *)
RunProgram ==
    /\ frame_pc = "execute"
    /\ frame_pc' = "mix"
    /\ regs' \in Files
    /\ fe' \in Files
    /\ \/ UNCHANGED scratchpad
       \/ \E line \in Lines, content \in Files :
             scratchpad' = [scratchpad EXCEPT ![line] = content]
    /\ \E junk \in Clobbered : eax' = junk.lo /\ ecx' = junk.hi /\ rdx' = junk
    /\ UNCHANGED <<entropy, rdi, rbx, reserved, prefetched>>

(* The new mx takes the read registers as the program left them; variant:  *)
(* it is not masked.                                                       *)
MixedUnmasked == Xor(Xor(rdi.hi, ReadReg(2).lo), ReadReg(3).lo)
Mixed == Xor(Xor(rdi.hi, ReadReg(2).lo), ReadReg(3).lo) \intersect Item_Bits

(* Loop finalization up to the combination of f and e; writing EDI clears  *)
(* the upper half of RDI.                                                  *)
LoopMix ==
    LET offset == rdi.lo
    IN  /\ frame_pc = "mix"
        /\ frame_pc' = "store"
        /\ ecx' = reserved.lo
        /\ rdx' = [lo |-> reserved.hi, hi |-> {}]
        /\ prefetched' = Mixed
        /\ regs' = XorFiles(regs, Items[offset])
        /\ eax' = {}                      \* shifted out of the lower half
        /\ rdi' = [lo |-> Mixed, hi |-> offset]
        /\ UNCHANGED <<entropy, rbx, reserved, fe, scratchpad>>

(* The addresses of the next iteration; variant: not turned. *)
NextAddressesUnturned == Mask(XorWords(ReadReg(0), ReadReg(1)), Line_Bits)
NextAddresses == Ror32(Mask(XorWords(ReadReg(0), ReadReg(1)), Line_Bits))

(* The stores; that of the integer registers is skipped when the other     *)
(* would overwrite it.                                                     *)
StoreRegisters ==
    IF ecx = rdx.lo THEN scratchpad ELSE [scratchpad EXCEPT ![ecx] = regs]

LoopStore ==
    /\ frame_pc = "store"
    /\ scratchpad' = [StoreRegisters EXCEPT ![rdx.lo] = fe]
    /\ rdx' = NextAddresses
    /\ eax' = NextAddresses.lo
    /\ rbx' = rbx - 1
    /\ frame_pc' = IF rbx = 1 THEN "done" ELSE "load"
    /\ UNCHANGED <<entropy, ecx, rdi, reserved, regs, fe, prefetched>>

FrameNext ==
    \/ Prologue \/ LoopInit \/ RunProgram \/ LoopMix \/ LoopStore
    \/ (frame_pc = "done" /\ UNCHANGED frameVars)

FrameSpec == FrameInit /\ [][FrameNext]_frameVars

-----------------------------------------------------------------------------
FrameTypeOK ==
    /\ frame_pc \in {"prologue", "load", "execute", "mix", "store", "done"}
    /\ entropy \in Entropies
    /\ eax \in Half /\ ecx \in Half
    /\ rdx \in Word /\ rdi \in Word /\ reserved \in Word
    /\ rbx \in 0 .. Iterations
    /\ regs \in File /\ fe \in File
    /\ scratchpad \in [Lines -> File]
    /\ prefetched \in Half

(* Addresses taken from registers the program has computed stay within the *)
(* dataset and the scratchpad, at the start of an item or of a line, and   *)
(* an item is read only when it was prefetched an iteration earlier.       *)
AddressesInside ==
    /\ frame_pc \in {"load", "execute", "mix"} =>
          /\ rdi.lo \in Offsets
          /\ prefetched = rdi.lo
    /\ frame_pc = "load" => eax \in Lines /\ rdx.hi \in Lines
    /\ frame_pc = "store" => ecx \in Lines /\ rdx.lo \in Lines

(* Before the prologue has run the loop is in the state it will set up. *)
Loop(x, initial) == IF frame_pc = "prologue" THEN initial ELSE x

(* spAddr0 and spAddr1: where the code has mixed the next addresses        *)
(* already, those of the specification are still zero.                     *)
Address(saved, initial) ==
    IF frame_pc \in {"execute", "mix", "store"} THEN saved
    ELSE IF frame_pc = "prologue" \/ (frame_pc = "load" /\ rbx = Iterations) THEN initial
    ELSE {}

Abstract == INSTANCE RandomXLoop WITH
    step <- Loop(frame_pc, "load"),
    ic <- Loop(rbx, Iterations),
    ma <- Loop(rdi.lo, entropy.ma \intersect Item_Bits),
    mx <- Loop(rdi.hi \intersect Item_Bits, entropy.mx \intersect Item_Bits),
    spAddr0 <- Address(reserved.hi, entropy.mx \intersect Line_Bits),
    spAddr1 <- Address(reserved.lo, entropy.ma \intersect Line_Bits),
    r <- Loop(regs, Zeros),
    pad <- scratchpad,
    prefetched <- Loop(prefetched, entropy.ma \intersect Item_Bits)

(* The machine code executes the loop of the specification: the order in   *)
(* which it mixes, saves, prefetches, reads and stores makes no difference *)
(* that the program or the next iteration could tell.                      *)
FrameImplementsLoop == Abstract!Spec
=============================================================================
