------------------------------ MODULE HashStream ------------------------------
(***************************************************************************)
(* What a virtual machine promises, without saying how: once a job (a      *)
(* template and a dataset) is assigned to it, it delivers the hashes of    *)
(* the template's successive nonces over that dataset, each exactly once   *)
(* and in order, until the job is withdrawn.                               *)
(***************************************************************************)
EXTENDS Sequences

CONSTANTS VMs, Template, Datasets, None, Next1(_), Result(_, _)

VARIABLES
    cursor,  \* template whose hash is delivered next, None without a job
    data,    \* dataset of the job
    stream   \* hashes delivered for the job

streamVars == <<cursor, data, stream>>

Init ==
    /\ cursor = [v \in VMs |-> None]
    /\ data = [v \in VMs |-> None]
    /\ stream = [v \in VMs |-> <<>>]

Withdraw(v) ==
    /\ cursor' = [cursor EXCEPT ![v] = None]
    /\ data' = [data EXCEPT ![v] = None]
    /\ stream' = [stream EXCEPT ![v] = <<>>]

Assign(v, t, d) ==
    /\ cursor[v] = None
    /\ cursor' = [cursor EXCEPT ![v] = t]
    /\ data' = [data EXCEPT ![v] = d]
    /\ UNCHANGED stream

Deliver(v) ==
    /\ cursor[v] # None
    /\ stream' = [stream EXCEPT ![v] = Append(@, Result(cursor[v], data[v]))]
    /\ cursor' = [cursor EXCEPT ![v] = Next1(@)]
    /\ UNCHANGED data

Next ==
    \E v \in VMs :
        \/ Withdraw(v)
        \/ \E t \in Template, d \in Datasets : Assign(v, t, d)
        \/ Deliver(v)

Spec == Init /\ [][Next]_streamVars
=============================================================================
