------------------------------- MODULE AesPasses -------------------------------
(***************************************************************************)
(* aes1rrandom.cpp, aes4rrandom.cpp, aes1rhash.cpp: the passes over the    *)
(* scratchpad and the program, in the order virtualmachine.cpp calls them. *)
(*                                                                         *)
(* A new block template fills the scratchpad (fill1R).  Each hash then     *)
(* generates a program from the seed the fill has left (fill4R), which     *)
(* stores to the scratchpad (as do the programs chained to it, whose seeds *)
(* come from the register file and which are left out), and ends with one  *)
(* pass that hashes a line, advances the seed of the next hash and         *)
(* overwrites the line with it (hashAndFill1R).                            *)
(*                                                                         *)
(* A round of AES is opaque: <<"enc", key>> or <<"dec", key>>; a state is  *)
(* what it started from, followed by the rounds it went through.  Lines of *)
(* 64 bytes have four lanes of 16.                                         *)
(***************************************************************************)
EXTENDS Integers, Sequences

CONSTANTS
    Pad_Lines,      \* Rx_Scratchpad_L3_Size / 64
    Program_Lines,  \* Rx_Program_Bytes_Size / 64
    Max_Hashes      \* bound on executions of the machine

ASSUME AesAssumption == /\ Pad_Lines \in Nat \ {0} /\ Max_Hashes \in Nat
                        /\ Program_Lines \in Nat /\ Program_Lines > 2

Lanes == 0 .. 3

VARIABLES
    aes_call,    \* the pass that runs, or "run" while the program does
    aes_line,    \* the next line of it
    lane_state,  \* hash_state0 to hash_state3
    aes_seed,    \* seed0 to seed3
    aes_pad,     \* the scratchpad
    aes_program, \* what fill4R has written
    aes_hash,    \* what hashAndFill1R has written to the register file
    before,      \* ghost: the scratchpad when the last pass over it began
    aes_hashes   \* ghost: how many hashes have been taken

aesVars == <<aes_call, aes_line, lane_state, aes_seed, aes_pad, aes_program, aes_hash, before,
             aes_hashes>>

-----------------------------------------------------------------------------
Enc(state, key) == Append(state, <<"enc", key>>)
Dec(state, key) == Append(state, <<"dec", key>>)

(* What blake2b makes of the template after n hashes. *)
TemplateSeed(n) == [l \in Lanes |-> << <<"template", <<n, l>> >> >>]
Empty == [l \in Lanes |-> << >>]
HashState == [l \in Lanes |-> << <<"hash state", l>> >>]

(* Lanes 0 and 2 of the hash are encoded, 1 and 3 decoded, by the line. *)
Absorb(state, keys) ==
    [l \in Lanes |-> IF l % 2 = 0 THEN Enc(state[l], keys[l]) ELSE Dec(state[l], keys[l])]
XKey(k) == [l \in Lanes |-> <<"xkey", k>>]

(* The generator has it the other way round, with a key for each lane. *)
Advance1R(state) ==
    [l \in Lanes |-> LET key == <<"1R key", l>>
                     IN  IF l % 2 = 0 THEN Dec(state[l], key) ELSE Enc(state[l], key)]

(* Four rounds with keys 0 to 3 in the lower lanes and 4 to 7 in the upper. *)
Advance4R(state) ==
    [l \in Lanes |->
       LET Key(k) == <<"4R key", IF l < 2 THEN k ELSE k + 4>>
           Round(s, k) == IF l % 2 = 0 THEN Dec(s, Key(k)) ELSE Enc(s, Key(k))
       IN  Round(Round(Round(Round(state[l], 0), 1), 2), 3)]

(* The registers of instructions are masked, the 128 bytes of entropy are  *)
(* not, nor is the seed.                                                   *)
Masked(line, state) ==
    IF line >= 2 THEN [l \in Lanes |-> Append(state[l], <<"and", "mask">>)] ELSE state

AesInit ==
    /\ aes_call = "fill1R"
    /\ aes_line = 0
    /\ lane_state = Empty
    /\ aes_seed = TemplateSeed(0)
    /\ aes_pad = [i \in 0 .. Pad_Lines - 1 |-> Empty]
    /\ aes_program = [i \in 0 .. Program_Lines - 1 |-> Empty]
    /\ aes_hash = Empty
    /\ before = aes_pad
    /\ aes_hashes = 0

(* Goes to the next line, or behind the last one to another pass. *)
NextLine(count, call) ==
    /\ aes_line' = IF aes_line + 1 = count THEN 0 ELSE aes_line + 1
    /\ aes_call' = IF aes_line + 1 = count THEN call ELSE aes_call

Fill1R ==
    /\ aes_call = "fill1R"
    /\ aes_seed' = Advance1R(aes_seed)
    /\ aes_pad' = [aes_pad EXCEPT ![aes_line] = aes_seed']
    /\ NextLine(Pad_Lines, "fill4R")
    /\ UNCHANGED <<lane_state, aes_program, aes_hash, before, aes_hashes>>

Fill4R ==
    /\ aes_call = "fill4R"
    /\ aes_seed' = Advance4R(aes_seed)
    /\ aes_program' = [aes_program EXCEPT ![aes_line] = Masked(aes_line, aes_seed')]
    /\ NextLine(Program_Lines, "run")
    /\ UNCHANGED <<lane_state, aes_pad, aes_hash, before, aes_hashes>>

(* The program stores where it likes; the template's next seed follows. *)
RunAndSeed ==
    /\ aes_call = "run"
    /\ aes_hashes < Max_Hashes
    /\ \E stored \in SUBSET (0 .. Pad_Lines - 1) :
          aes_pad' = [i \in 0 .. Pad_Lines - 1 |->
                        IF i \in stored THEN [l \in Lanes |-> << <<"stored", <<i, l>> >> >>]
                        ELSE aes_pad[i]]
    /\ before' = aes_pad'
    /\ aes_seed' = TemplateSeed(aes_hashes + 1)
    /\ lane_state' = HashState
    /\ aes_call' = "hashAndFill1R"
    /\ UNCHANGED <<aes_line, aes_program, aes_hash, aes_hashes>>

(* One line of the fused pass; variant: the line is overwritten before it  *)
(* is absorbed.                                                            *)
HashLineFilled(line) == Absorb(lane_state, Advance1R(aes_seed))
HashLine(line) == Absorb(lane_state, aes_pad[line])

(* The seed of the next program; variant: what it was before the pass. *)
SeedOutKept == TemplateSeed(aes_hashes + 1)
SeedOut == Advance1R(aes_seed)

HashAndFill1R ==
    /\ aes_call = "hashAndFill1R"
    /\ aes_pad' = [aes_pad EXCEPT ![aes_line] = Advance1R(aes_seed)]
    /\ NextLine(Pad_Lines, "fill4R")
    /\ UNCHANGED <<aes_program, before>>
    /\ LET last == aes_line + 1 = Pad_Lines
           absorbed == HashLine(aes_line)
           finished == Absorb(Absorb(absorbed, XKey(0)), XKey(1))
       IN  /\ lane_state' = absorbed
           /\ aes_seed' = IF last THEN SeedOut ELSE Advance1R(aes_seed)
           /\ aes_hash' = IF last THEN finished ELSE aes_hash
           /\ aes_hashes' = IF last THEN aes_hashes + 1 ELSE aes_hashes

AesNext ==
    \/ Fill1R \/ Fill4R \/ RunAndSeed \/ HashAndFill1R
    \/ (aes_call = "run" /\ aes_hashes = Max_Hashes /\ UNCHANGED aesVars)

AesSpec == AesInit /\ [][AesNext]_aesVars

-----------------------------------------------------------------------------
(* hash1R, the plain hash of a memory area: what the fused pass stands for. *)
Hash1R(input) ==
    LET state[i \in 0 .. Pad_Lines] ==
          IF i = 0 THEN HashState ELSE Absorb(state[i - 1], input[i - 1])
    IN  Absorb(Absorb(state[Pad_Lines], XKey(0)), XKey(1))

(* The generators' states after i lines. *)
After1R(state, i) ==
    LET after[n \in 0 .. i] == IF n = 0 THEN state ELSE Advance1R(after[n - 1])
    IN  after[i]
After4R(state, i) ==
    LET after[n \in 0 .. i] == IF n = 0 THEN state ELSE Advance4R(after[n - 1])
    IN  after[i]

(* The hash put into the register file is that of the scratchpad as the    *)
(* program left it, although the same pass has overwritten all of it.      *)
HashOfOldPad == aes_call = "fill4R" /\ aes_hashes > 0 => aes_hash = Hash1R(before)

(* The scratchpad a program starts on and the program itself come from the *)
(* same template: the program's generator goes on where that of the        *)
(* scratchpad has ended, be it filled by fill1R or by the fused pass.      *)
ProgramOfTemplate ==
    aes_call = "run" =>
        /\ \A i \in 0 .. Pad_Lines - 1 :
              aes_pad[i] = After1R(TemplateSeed(aes_hashes), i + 1)
        /\ \A i \in 0 .. Program_Lines - 1 :
              aes_program[i] =
                Masked(i, After4R(After1R(TemplateSeed(aes_hashes), Pad_Lines), i + 1))
=============================================================================
