------------------------------ MODULE Custody ------------------------------
(***************************************************************************)
(* What the owner lease of src/src/host-state.ts promises its callers,     *)
(* without saying how: at most one operation runs inside a directory at a  *)
(* time, and no operation starts there until every custody that ended      *)
(* without a recorded release has been put on the evidence record.         *)
(*                                                                         *)
(* HostLease implements this module.                                       *)
(***************************************************************************)
EXTENDS FiniteSets

CONSTANTS
    Owner,       \* runtimes that may enter: current ones and older ones
    Anonymous,   \* the owners that leave no custody name behind
    Name         \* custody names (the nonces of published owner markers)

VARIABLES
    inside,      \* owners whose operation is running
    open,        \* custodies entered and not released in an orderly way
    evidence     \* ended custodies kept on record for good

custodyVars == <<inside, open, evidence>>

Init ==
    /\ inside = {}
    /\ open = {}
    /\ evidence = {}

(* A custody may be named before its owner gets inside: an acquisition     *)
(* that dies between the two leaves a name that must be accounted for.     *)
Claim(n) ==
    /\ inside = {}
    /\ open \subseteq evidence
    /\ n \notin open
    /\ open' = open \union {n}
    /\ UNCHANGED <<inside, evidence>>

Enter(o, n) ==
    /\ inside = {}
    /\ open \subseteq evidence
    /\ n \notin open
    /\ inside' = {o}
    /\ open' = open \union {n}
    /\ UNCHANGED evidence

EnterAnonymous(o) ==
    /\ inside = {}
    /\ open \subseteq evidence
    /\ inside' = {o}
    /\ UNCHANGED <<open, evidence>>

(* The operation is over, or its owner died. *)
Leave(o) ==
    /\ o \in inside
    /\ inside' = inside \ {o}
    /\ UNCHANGED <<open, evidence>>

Release(n) ==
    /\ inside = {}
    /\ n \in open \ evidence
    /\ open' = open \ {n}
    /\ UNCHANGED <<inside, evidence>>

(* An abandoned custody is put on record, never while anyone is inside. *)
Record(n) ==
    /\ inside = {}
    /\ n \in open \ evidence
    /\ evidence' = evidence \union {n}
    /\ UNCHANGED <<inside, open>>

Next ==
    \/ \E n \in Name : Claim(n) \/ Release(n) \/ Record(n)
    \/ \E o \in Owner \ Anonymous, n \in Name : Enter(o, n)
    \/ \E o \in Anonymous : EnterAnonymous(o)
    \/ \E o \in Owner : Leave(o)

Spec == Init /\ [][Next]_custodyVars
=============================================================================
