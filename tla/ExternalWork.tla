---------------------------- MODULE ExternalWork ----------------------------
(* What coding jobs promise about work outside: a job is launched once and *)
(* asked for outside at most once; while one is launched no other is, in   *)
(* its workspace; and it is settled once, when nothing of it can touch the *)
(* workspace any more.                                                     *)
EXTENDS Integers

CONSTANTS Job, Place, Operation, None

VARIABLES phase, asked, active

vars == <<phase, asked, active>>

Init ==
    /\ phase = [j \in Job |-> "none"]
    /\ asked = [j \in Job |-> 0]
    /\ active = {}

Beside(j) == {k \in Job \ {j} : Place[k] = Place[j]}

(* An operation identity belongs to one job.                               *)
Prepare(j) ==
    /\ phase[j] = "none"
    /\ \A k \in Job \ {j} : Operation[k] # None /\ Operation[k] = Operation[j] => phase[k] = "none"
    /\ phase' = [phase EXCEPT ![j] = "prepared"]
    /\ UNCHANGED <<asked, active>>

Launch(j) ==
    /\ phase[j] = "prepared"
    /\ \A k \in Beside(j) : phase[k] # "launched" /\ k \notin active
    /\ phase' = [phase EXCEPT ![j] = "launched"]
    /\ UNCHANGED <<asked, active>>

Submit(j) ==
    /\ phase[j] = "launched" /\ asked[j] = 0
    /\ asked' = [asked EXCEPT ![j] = 1]
    /\ active' = active \union {j}
    /\ UNCHANGED phase

Finish(j) == j \in active /\ active' = active \ {j} /\ UNCHANGED <<phase, asked>>

Settle(j) ==
    /\ phase[j] = "launched" /\ asked[j] = 1 /\ j \notin active
    /\ \E s \in {"completed", "failed"} : phase' = [phase EXCEPT ![j] = s]
    /\ UNCHANGED <<asked, active>>

Next == \E j \in Job : Prepare(j) \/ Launch(j) \/ Submit(j) \/ Finish(j) \/ Settle(j)

Spec == Init /\ [][Next]_vars
=============================================================================
