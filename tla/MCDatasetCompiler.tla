-------------------------- MODULE MCDatasetCompiler --------------------------
(* The generator of the dataset's code and the assembler under it.  Two       *)
(* programs of up to five instructions of the code's lengths, pages of 64     *)
(* bytes, and short stand-ins for the fixed pieces of code; requests for one  *)
(* instruction each; the emulated multiplications of words of six bits.       *)
EXTENDS DatasetCompiler, Encoding, Arithmetic

MCSaveRegisters == <<1, 2, 4>>
MCSetup == <<3, 7>>
MCLoadItem == <<5, 5>>
MCFetchCache == <<4, 5>>
MCTranspose == <<5, 6>>
MCStoreItems == <<7, 4>>

(* Local vectors, cache lines, constants of RBX, and the ten vector         *)
(* registers pushed, the last two of them beyond a byte; both boundaries.   *)
MCOffsets == {-129, -128, -32, 0, 32, 96, 112, 127, 128, 144}

VARIABLE part

MCInit ==
    /\ part \in {"generator", "encoding", "arithmetic"}
    /\ Init
    /\ IF part = "encoding" THEN EncodingInit
       ELSE request = Request("rex", "none", 0, 0, Register(0)) /\ encoded = <<>>
    /\ IF part = "arithmetic" THEN ArithmeticInit
       ELSE /\ instructions = <<>>
            /\ lane = [dst |-> 0]
            /\ factors = [signed |-> FALSE, dst |-> 0, src |-> 0, from |-> "dst"]

MCNext ==
    /\ UNCHANGED part
    /\ \/ part = "generator" /\ Next /\ UNCHANGED <<encodingVars, arithmeticVars>>
       \/ part = "encoding" /\ EncodingNext /\ UNCHANGED <<vars, arithmeticVars>>
       \/ part = "arithmetic" /\ ArithmeticNext /\ UNCHANGED <<vars, encodingVars>>

MCSpec == MCInit /\ [][MCNext]_<<part, vars, encodingVars, arithmeticVars>>
=============================================================================
