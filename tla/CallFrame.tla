------------------------------- MODULE CallFrame -------------------------------
(***************************************************************************)
(* virtualmachineprogram.cpp: how the machine code is entered and left.    *)
(*                                                                         *)
(* The code is called like a function of the Windows ABI, with the         *)
(* scratchpad in RCX, the dataset in RDX and the program in R8, and uses   *)
(* every register.  It keeps the caller's values in the register file      *)
(* itself, below the scratchpad, and the epilogue exchanges them for the   *)
(* registers of the virtual machine.  The last two entries of the file, a2 *)
(* and a3, hold constants for the program meanwhile, which executeNext     *)
(* writes before each call.                                                *)
(*                                                                         *)
(* A run of instructions is one parallel assignment, a record from what is *)
(* written to what it is read from; nothing is written and read again in   *)
(* the same one.  The loop is a single step (see ProgramFrame).            *)
(***************************************************************************)
EXTENDS Integers, Sequences

CONSTANT Rx_Program_Count

ASSUME CallAssumption == Rx_Program_Count \in Nat \ {0}

VARIABLES
    content,   \* of the registers and of the entries of the register file
    ip,        \* index of the next instruction, 0 outside of it
    wild,      \* has the file been accessed through another pointer?
    calls      \* finished calls

callVars == <<content, ip, wild, calls>>

-----------------------------------------------------------------------------
Callee_Saved == {"rbx", "rbp", "rsi", "rdi", "r12", "r13", "r14", "r15", "xmm6", "xmm7",
                 "xmm8", "xmm9", "xmm10", "xmm11", "xmm12", "xmm13", "xmm14", "xmm15"}
Volatile == {"rax", "rcx", "rdx", "r8", "r9", "r10", "r11",
             "xmm0", "xmm1", "xmm2", "xmm3", "xmm4", "xmm5"}

(* The register file, and the registers the loop keeps it in. *)
Machine_Registers ==
    [r0 |-> "r8", r1 |-> "r9", r2 |-> "r10", r3 |-> "r11",
     r4 |-> "r12", r5 |-> "r13", r6 |-> "r14", r7 |-> "r15",
     f0 |-> "xmm0", f1 |-> "xmm1", f2 |-> "xmm2", f3 |-> "xmm3",
     e0 |-> "xmm4", e1 |-> "xmm5", e2 |-> "xmm6", e3 |-> "xmm7",
     a0 |-> "xmm8", a1 |-> "xmm9", a2 |-> "xmm10", a3 |-> "xmm11"]
Entries == DOMAIN Machine_Registers
Constant_Registers == {"a0", "a1", "a2", "a3"}   \* the loop does not write them

Locations == Callee_Saved \union Volatile \union Entries

Caller(register) == <<"caller", register>>
Machine(entry) == <<"machine", entry>>
Value(name) == <<"value", name>>

(* Registers only, or the file by way of a pointer. *)
Assign(assignments) == [base |-> "none", a |-> assignments]
Via(pointer, assignments) == [base |-> pointer, a |-> assignments]

(* The program's a registers are loaded once those they go to are saved. *)
PrologueCode == <<
    Assign([rax |-> "rcx"]),
    Via("rax", [r0 |-> "rbx", r1 |-> "rbp"]),
    Assign([rbx |-> "rdx", rdx |-> "rax", rax |-> "computed", rbp |-> "rdx"]),
    Via("rdx", [r2 |-> "rsi", r3 |-> "rdi"]),
    Assign([rdi |-> "computed", rbx |-> "rdx", rsi |-> "rcx", rcx |-> "computed",
            rdx |-> "computed"]),
    Via("rbx", [r4 |-> "r12", r5 |-> "r13", r6 |-> "r14", r7 |-> "r15",
                f0 |-> "xmm6", f1 |-> "xmm7"]),
    Assign([rcx |-> "rbx", rbx |-> "computed", rax |-> "computed", xmm1 |-> "computed",
            xmm2 |-> "computed", xmm3 |-> "computed", xmm4 |-> "computed",
            xmm5 |-> "computed", xmm6 |-> "computed", xmm7 |-> "computed"]),
    Via("rcx", [f2 |-> "xmm8", f3 |-> "xmm9"]),
    Assign([xmm8 |-> "program_a0", xmm9 |-> "program_a1"]),
    Via("rcx", [e0 |-> "xmm10", e1 |-> "xmm11"]),
    Assign([xmm10 |-> "program_a2", xmm11 |-> "program_a3"]),
    Via("rcx", [e2 |-> "xmm12", e3 |-> "xmm13", a0 |-> "xmm14", a1 |-> "xmm15"]),
    Assign([rax |-> "rdx", rbx |-> "computed", xmm0 |-> "computed", xmm13 |-> "computed",
            xmm14 |-> "computed", xmm15 |-> "computed", r8 |-> "zero", r9 |-> "zero",
            r10 |-> "zero", r11 |-> "zero", r12 |-> "zero", r13 |-> "zero", r14 |-> "zero",
            r15 |-> "zero"])>>

(* Registers that are saved themselves are moved away before they are      *)
(* restored; variant: R12 and R13 are not.                                 *)
IntegersUnmoved ==
    <<Via("rcx", [r12 |-> "r4", r13 |-> "r5"]),
      Via("rcx", [r4 |-> "r12", r5 |-> "r13"])>>
Integers45 ==
    <<Assign([rax |-> "r12", rdx |-> "r13"]),
      Via("rcx", [r12 |-> "r4", r4 |-> "rax", r13 |-> "r5", r5 |-> "rdx"])>>

EpilogueCode ==
    <<Assign([rcx |-> "rsi"]),
      Via("rcx", [rbx |-> "r0", r0 |-> "r8", rbp |-> "r1", r1 |-> "r9",
                  rsi |-> "r2", r2 |-> "r10", rdi |-> "r3", r3 |-> "r11"])>>
    \o Integers45 \o
    <<Assign([rax |-> "r14", rdx |-> "r15"]),
      Via("rcx", [r14 |-> "r6", r6 |-> "rax", r15 |-> "r7", r7 |-> "rdx"]),
      Assign([xmm12 |-> "xmm6", xmm13 |-> "xmm7", xmm14 |-> "xmm8", xmm15 |-> "xmm9"]),
      Via("rcx", [xmm6 |-> "f0", f0 |-> "xmm0", xmm7 |-> "f1", f1 |-> "xmm1",
                  xmm8 |-> "f2", f2 |-> "xmm2", xmm9 |-> "f3", f3 |-> "xmm3"]),
      Assign([xmm0 |-> "xmm10", xmm1 |-> "xmm11"]),
      Via("rcx", [xmm10 |-> "e0", e0 |-> "xmm4", xmm11 |-> "e1", e1 |-> "xmm5"]),
      Assign([xmm2 |-> "xmm12", xmm3 |-> "xmm13", xmm4 |-> "xmm14", xmm5 |-> "xmm15"]),
      Via("rcx", [xmm12 |-> "e2", e2 |-> "xmm2", xmm13 |-> "e3", e3 |-> "xmm3",
                  xmm14 |-> "a0", a0 |-> "xmm4", xmm15 |-> "a1", a1 |-> "xmm5",
                  a2 |-> "xmm0", a3 |-> "xmm1"])>>

LoopPosition == Len(PrologueCode) + 1
Code == PrologueCode \o <<Assign([rax |-> "computed"])>> \o EpilogueCode

-----------------------------------------------------------------------------
CallInit ==
    /\ content = [l \in Locations |-> IF l \in Entries THEN Value("old") ELSE Caller(l)]
    /\ ip = 0
    /\ wild = FALSE
    /\ calls = 0

(* executeNext writes the constants before each call; variant: only before *)
(* the first one.                                                          *)
WrittenOnce(entry, constant) == IF calls = 0 THEN Value(constant) ELSE content[entry]
Written(entry, constant) == Value(constant)

Call ==
    /\ ip = 0 /\ calls < Rx_Program_Count
    /\ ip' = 1
    /\ content' = [content EXCEPT !["a2"] = Written("a2", "address_mask"),
                                  !["a3"] = Written("a3", "rounding_modes"),
                                  !["rcx"] = Value("scratchpad"),
                                  !["rdx"] = Value("dataset"),
                                  !["r8"] = Value("program")]
    /\ UNCHANGED <<wild, calls>>

Instruction ==
    LET i == Code[ip]
        Read(s) == IF s \in Locations THEN content[s] ELSE Value(s)
    IN  /\ ip \in DOMAIN Code \ {LoopPosition}
        /\ content' = [l \in Locations |-> IF l \in DOMAIN i.a THEN Read(i.a[l]) ELSE content[l]]
        /\ wild' = (wild \/ (i.base # "none" /\ content[i.base] # Value("scratchpad")))
        /\ ip' = IF ip = Len(Code) THEN 0 ELSE ip + 1
        /\ calls' = IF ip = Len(Code) THEN calls + 1 ELSE calls

(* The loop leaves its registers with new values, temporaries, counter and *)
(* memory registers with what it needed last.                              *)
RunLoop ==
    /\ ip = LoopPosition
    /\ ip' = ip + 1
    /\ content' =
         [l \in Locations |->
            IF \E e \in Entries \ Constant_Registers : l = Machine_Registers[e]
            THEN Machine(CHOOSE e \in Entries : l = Machine_Registers[e])
            ELSE IF l \in {"rax", "rbx", "rcx", "rdx", "rdi", "xmm12"} THEN Value("computed")
            ELSE content[l]]
    /\ UNCHANGED <<wild, calls>>

CallNext ==
    \/ Call \/ Instruction \/ RunLoop
    \/ (ip = 0 /\ calls = Rx_Program_Count /\ UNCHANGED callVars)

CallSpec == CallInit /\ [][CallNext]_callVars

-----------------------------------------------------------------------------
Program_Registers == [a0 |-> "program_a0", a1 |-> "program_a1", a2 |-> "program_a2",
                      a3 |-> "program_a3"]

(* When a call returns the caller has its registers back and every entry   *)
(* of the file, which is hashed next, holds the register it is for: in     *)
(* between each of them had to hold the other's value.                     *)
CallPreserves ==
    ip = 0 /\ calls > 0 =>
        /\ \A l \in Callee_Saved : content[l] = Caller(l)
        /\ \A e \in Entries : content[e] = IF e \in Constant_Registers
                                           THEN Value(Program_Registers[e]) ELSE Machine(e)

(* The loop runs with what it relies on: pointers to scratchpad and        *)
(* dataset, zero registers, the a registers of this program, and in the    *)
(* file the constants that the previous call has overwritten; and the file *)
(* is accessed only through a pointer to it.                               *)
LoopEnvironment ==
    /\ ip = LoopPosition =>
         /\ content["rsi"] = Value("scratchpad") /\ content["rbp"] = Value("dataset")
         /\ \A e \in Constant_Registers :
               content[Machine_Registers[e]] = Value(Program_Registers[e])
         /\ \A n \in {"r8", "r9", "r10", "r11", "r12", "r13", "r14", "r15"} :
               content[n] = Value("zero")
         /\ content["a2"] = Value("address_mask")
         /\ content["a3"] = Value("rounding_modes")
    /\ ~ wild
=============================================================================
