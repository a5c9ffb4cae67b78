------------------------------ MODULE Channel ------------------------------
(***************************************************************************)
(* What a mailbox promises: a key is posted once, with one body, while     *)
(* there is room; a posted message is taken once; a revoked capability     *)
(* does neither.                                                           *)
(***************************************************************************)
EXTENDS Naturals, FiniteSets

CONSTANTS
    Key,            \* idempotency keys
    Body,           \* messages
    MaxMessages,    \* capacity
    None

Capability == {"send", "receive"}

VARIABLES
    post,       \* post[k]: the body posted under k, or None
    taken,      \* the keys whose message was taken
    revoked     \* capabilities no longer active

vars == <<post, taken, revoked>>

Waiting == {k \in Key : post[k] # None} \ taken

Init == post = [k \in Key |-> None] /\ taken = {} /\ revoked = {}

Post(k, b) ==
    /\ "send" \notin revoked
    /\ post[k] = None
    /\ Cardinality(Waiting) < MaxMessages
    /\ post' = [post EXCEPT ![k] = b]
    /\ UNCHANGED <<taken, revoked>>

Take(k) ==
    /\ "receive" \notin revoked
    /\ k \in Waiting
    /\ taken' = taken \union {k}
    /\ UNCHANGED <<post, revoked>>

Revoke(c) ==
    /\ revoked' = revoked \union {c}
    /\ UNCHANGED <<post, taken>>

Next ==
    \/ \E k \in Key, b \in Body : Post(k, b)
    \/ \E k \in Key : Take(k)
    \/ \E c \in Capability : Revoke(c)

Spec == Init /\ [][Next]_vars
=============================================================================
