----------------------------- MODULE Blake2bRandom -----------------------------
(***************************************************************************)
(* blake2brandom.cpp: the generator behind the superscalar programs.       *)
(*                                                                         *)
(* A state of 64 bytes is handed out from its front in pieces of one and   *)
(* four bytes; when it has too few left it is hashed into the next one.    *)
(* States are numbered, the seed being number 0.                           *)
(***************************************************************************)
EXTENDS Integers

CONSTANTS
    State_Size,      \* blake2b::Max_Digest_Size
    Max_State        \* bound on the number of states a run goes through

ASSUME RandomAssumption ==
    /\ State_Size \in Nat /\ State_Size >= 4
    /\ Max_State \in Nat \ {0}

VARIABLES
    state,      \* number of the current state
    position,   \* first byte of it that was not handed out
    drawn       \* the bytes handed out last: of which state, the first, how many

randomVars == <<state, position, drawn>>

-----------------------------------------------------------------------------
(* rehashIfNeeded; variant: one byte early. *)
TooFewEarly(p, needed) == p + needed >= State_Size
TooFew(p, needed) == p + needed > State_Size

Rehashed(s, p, needed) ==
    IF TooFew(p, needed) THEN [state |-> s + 1, position |-> 0] ELSE [state |-> s, position |-> p]

(* The constructor hashes the seed by asking for more than there is. *)
RandomInit ==
    LET r == Rehashed(0, 0, State_Size + 1)
    IN /\ state = r.state
       /\ position = r.position
       /\ drawn = [state |-> 0, first |-> 0, size |-> 0]

(* Draw size bytes from byte r.position of the state. *)
Draw(size) ==
    LET r == Rehashed(state, position, size)
    IN /\ r.state <= Max_State
       /\ state' = r.state
       /\ position' = r.position + size
       /\ drawn' = [state |-> r.state, first |-> r.position, size |-> size]

GetUint8 == Draw(1)
GetUint32 == Draw(4)

(* The bound is reached. *)
OutOfStates == state = Max_State /\ position = State_Size /\ UNCHANGED randomVars

RandomNext == GetUint8 \/ GetUint32 \/ OutOfStates

RandomSpec == RandomInit /\ [][RandomNext]_randomVars

-----------------------------------------------------------------------------
(* Every number begins where the one before it ended, or with the next     *)
(* state: no byte is handed out twice, no state is skipped, and bytes are  *)
(* only dropped in front of a number that needs more than are left.        *)
DrawsInOrder ==
    [][IF drawn'.state = drawn.state THEN drawn'.first = drawn.first + drawn.size
       ELSE /\ drawn'.state = drawn.state + 1 /\ drawn'.first = 0
            /\ drawn.state > 0 => drawn.first + drawn.size + drawn'.size > State_Size]_randomVars
=============================================================================
