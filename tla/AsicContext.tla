------------------------------ MODULE AsicContext ------------------------------
(***************************************************************************)
(* superscalar.cpp, updateAsicContext: while a superscalar program grows,  *)
(* the generator keeps for every register the length of the longest chain  *)
(* of instructions its value depends on, and the register with the longest *)
(* chain, which becomes the program's address register.                    *)
(***************************************************************************)
EXTENDS Integers

CONSTANTS Register_Count, MaxLatency \* bound: length of the chains

NoRegister == -1
Registers == 0 .. Register_Count - 1

ASSUME AsicAssumption == Register_Count \in Nat \ {0} /\ MaxLatency \in Nat

VARIABLES latencies, max_latency, max_latency_register

asicVars == <<latencies, max_latency, max_latency_register>>

-----------------------------------------------------------------------------
AsicInit ==
    /\ latencies = [r \in Registers |-> 0]
    /\ max_latency = 0
    /\ max_latency_register = 0

(* The latency of dst after an operation on it with source src. *)
Latency(src, dst) ==
    IF src \in Registers \ {dst} /\ latencies[src] > latencies[dst]
    THEN latencies[src] + 1
    ELSE latencies[dst] + 1

(* Variant of Replaces: equal latencies keep the register that is there. *)
ReplacesGreater(latency, dst) == latency > max_latency
Replaces(latency, dst) ==
    \/ latency > max_latency
    \/ latency = max_latency /\ dst < max_latency_register

UpdateAsicContext(src, dst) ==
    LET latency == Latency(src, dst)
    IN  /\ latency <= MaxLatency
        /\ latencies' = [latencies EXCEPT ![dst] = latency]
        /\ IF Replaces(latency, dst)
           THEN max_latency_register' = dst /\ max_latency' = latency
           ELSE UNCHANGED <<max_latency, max_latency_register>>

(* The bound is reached. *)
AsicFinished == (\A r \in Registers : latencies[r] = MaxLatency) /\ UNCHANGED asicVars

AsicNext ==
    \/ \E dst \in Registers, src \in Registers \union {NoRegister} : UpdateAsicContext(src, dst)
    \/ AsicFinished

AsicSpec == AsicInit /\ [][AsicNext]_asicVars

-----------------------------------------------------------------------------
AsicTypeOK ==
    /\ latencies \in [Registers -> Nat]
    /\ max_latency \in Nat
    /\ max_latency_register \in Registers

(* The address register, kept up to date step by step, is the first of the *)
(* registers with the largest latency of all: what a scan of the register  *)
(* file would pick, which two implementations have to agree on.            *)
AddressRegisterIsFirstMax ==
    \A r \in Registers :
        \/ latencies[r] < latencies[max_latency_register]
        \/ latencies[r] = latencies[max_latency_register] /\ r >= max_latency_register
=============================================================================
