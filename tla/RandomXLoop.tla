------------------------------ MODULE RandomXLoop ------------------------------
(***************************************************************************)
(* What executing a RandomX program promises: the steps of one iteration   *)
(* of the virtual machine's loop, in the order of the specification the    *)
(* code refers to (virtualmachine.hpp: "4-virtual-machine").               *)
(*                                                                         *)
(* Two memory registers ma and mx address the dataset and change places in *)
(* every iteration; spAddr0 and spAddr1 address two lines of the           *)
(* scratchpad, mixed anew from two integer registers in every iteration.   *)
(* A half of a word is the set of its bits that are one, so that exclusive *)
(* or is the symmetric difference and a mask is an intersection.           *)
(***************************************************************************)
EXTENDS Integers

CONSTANTS Item_Bits,   \* bits of the offset of a dataset item
          Line_Bits,   \* bits of the offset of a line of the scratchpad
          Files,       \* contents the program may leave in its registers
          Items,       \* the dataset
          Pads,        \* contents of the scratchpad before the program
          Entropies,   \* what the generator sets
          Iterations

VARIABLES step, entropy, ic, ma, mx, spAddr0, spAddr1, r, fe, pad, prefetched

loopVars == <<step, entropy, ic, ma, mx, spAddr0, spAddr1, r, fe, pad, prefetched>>

-----------------------------------------------------------------------------
Xor(a, b) == (a \ b) \union (b \ a)
XorWords(a, b) == [lo |-> Xor(a.lo, b.lo), hi |-> Xor(a.hi, b.hi)]
XorFiles(a, b) == [i \in 0 .. 7 |-> XorWords(a[i], b[i])]
Zeros == [i \in 0 .. 7 |-> [lo |-> {}, hi |-> {}]]

(* readReg0 to readReg3: one of two registers each. *)
ReadReg(k) == r[2 * k + entropy.read[k]]

Init ==
    /\ step = "load"
    /\ entropy \in Entropies
    /\ ic = Iterations
    /\ ma = entropy.ma \intersect Item_Bits
    /\ mx = entropy.mx \intersect Item_Bits
    /\ spAddr0 = mx \intersect Line_Bits
    /\ spAddr1 = ma \intersect Line_Bits
    /\ r = Zeros
    /\ fe = Zeros
    /\ pad \in Pads
    /\ prefetched = ma

(* The addresses are mixed with two registers, the integer registers with  *)
(* one line; the floating point registers are converted from the other.    *)
Load ==
    LET mix == XorWords(ReadReg(0), ReadReg(1))
        line0 == Xor(spAddr0, mix.lo) \intersect Line_Bits
        line1 == Xor(spAddr1, mix.hi) \intersect Line_Bits
    IN  /\ step = "load"
        /\ step' = "execute"
        /\ spAddr0' = line0
        /\ spAddr1' = line1
        /\ r' = XorFiles(r, pad[line0])
        /\ fe' = pad[line1]
        /\ UNCHANGED <<entropy, ic, ma, mx, pad, prefetched>>

(* The program computes what it likes, with stores to the scratchpad. *)
Execute ==
    /\ step = "execute"
    /\ step' = "mix"
    /\ r' \in Files
    /\ fe' \in Files
    /\ \/ UNCHANGED pad
       \/ \E line \in SUBSET Line_Bits, content \in Files : pad' = [pad EXCEPT ![line] = content]
    /\ UNCHANGED <<entropy, ic, ma, mx, spAddr0, spAddr1, prefetched>>

(* mx is mixed and its item prefetched, the item at ma is read, the two    *)
(* change places.                                                          *)
Mix ==
    LET mixed == Xor(mx, Xor(ReadReg(2).lo, ReadReg(3).lo)) \intersect Item_Bits
    IN  /\ step = "mix"
        /\ step' = "store"
        /\ prefetched' = mixed
        /\ r' = XorFiles(r, Items[ma])
        /\ ma' = mixed
        /\ mx' = ma
        /\ UNCHANGED <<entropy, ic, spAddr0, spAddr1, fe, pad>>

(* Integer registers to one line, then floating point registers to the     *)
(* other, which may be the same.                                           *)
Store ==
    /\ step = "store"
    /\ pad' = [[pad EXCEPT ![spAddr1] = r] EXCEPT ![spAddr0] = fe]
    /\ spAddr0' = {}
    /\ spAddr1' = {}
    /\ ic' = ic - 1
    /\ step' = IF ic = 1 THEN "done" ELSE "load"
    /\ UNCHANGED <<entropy, ma, mx, r, fe, prefetched>>

Next == Load \/ Execute \/ Mix \/ Store

Spec == Init /\ [][Next]_loopVars
=============================================================================
