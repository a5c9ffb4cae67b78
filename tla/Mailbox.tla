------------------------------ MODULE Mailbox ------------------------------
(***************************************************************************)
(* One file mailbox and the operations of several processes on it          *)
(* (src/src/mailbox.ts): create, send, receive, hasPending and revoke.     *)
(*                                                                         *)
(* A message is an immutable claim under its idempotency key, and a marker *)
(* that is pending and then consumed.  Every operation checks its          *)
(* capability, takes the create-exclusive lock file or fails at once,      *)
(* checks again, and works one file at a time.  A process that dies leaves *)
(* the lock: the mailbox refuses everything until an operator removes it.  *)
(* Creation has a lease instead, which ends with its process, and writes   *)
(* two capability records before the config that names them.               *)
(*                                                                         *)
(* Digests are the identity: a marker holds the body its claim must have.  *)
(***************************************************************************)
EXTENDS Naturals, FiniteSets

CONSTANTS
    Client,         \* processes with an operation under way
    Key,            \* idempotency keys, in the order of their file names
    Body,           \* messages
    Nonce,          \* what makes the capabilities of a creation unique
    MaxMessages,    \* pending markers the mailbox admits
    None

ASSUME KeyAssumption == Key \subseteq Nat
ASSUME BoundAssumption == MaxMessages \in Nat \ {0}
Capability == {"send", "receive"}
Dead == "dead"      \* the lock of a process that is gone

ASSUME NoneAssumption == None \notin Body \union Client \union Nonce /\ None \notin Nat
ASSUME DeadAssumption == Dead \notin Client \union {None}

Task == [op : {"send"}, key : Key, body : Body]
        \union [op : {"receive", "probe"}, key : {None}, body : {None}]
        \union [op : {"revoke"}, key : {None}, body : Capability]
Creation == [op : {"create"}, key : {None}, body : Nonce]

Needs(t) == CASE t.op = "send" -> "send"
              [] t.op = "revoke" -> t.body
              [] OTHER -> "receive"

VARIABLES
    \* on disk
    lock,       \* who created the lock file
    claims,     \* claims[k]: messages/
    pending,    \* pending[k]: pending/
    consumed,   \* consumed[k]: consumed/
    records,    \* capability records, each of a creation
    revoked,    \* capability records of the mailbox marked revoked
    config,     \* config.json: the creation whose capabilities it names
    \* the operations
    pc, task, found, ok,
    accepted    \* the <<key, body>> whose send returned to its caller

messages == <<claims, pending, consumed>>
admitted == <<records, config>>
disk == <<messages, revoked, admitted>>
vars == <<lock, disk, pc, task, found, ok, accepted>>

Files == [Key -> Body \union {None}]
Named(f) == {k \in Key : f[k] # None}
Creating == {"record send", "record receive", "config"}
Inside == {"check", "claim", "mark", "deliver", "consume", "revoke", "release"}

TypeOK ==
    /\ lock \in Client \union {None, Dead}
    /\ claims \in Files /\ pending \in Files /\ consumed \in Files
    /\ records \subseteq Nonce \X Capability
    /\ revoked \subseteq Capability
    /\ config \in Nonce \union {None}
    /\ pc \in [Client -> {"idle", "lock"} \union Creating \union Inside]
    /\ task \in [Client -> Task \union Creation \union {None}]
    /\ found \in [Client -> Key \union {None}]
    /\ ok \in [Client -> BOOLEAN]
    /\ accepted \subseteq Key \X Body

Init ==
    /\ lock = None
    /\ claims = [k \in Key |-> None] /\ pending = claims /\ consumed = claims
    /\ records = {} /\ revoked = {} /\ config = None
    /\ pc = [c \in Client |-> "idle"] /\ task = [c \in Client |-> None]
    /\ found = [c \in Client |-> None] /\ ok = [c \in Client |-> FALSE]
    /\ accepted = {}

Goto(c, l) == pc' = [pc EXCEPT ![c] = l]
Finish(c) ==
    /\ Goto(c, "idle")
    /\ task' = [task EXCEPT ![c] = None]
    /\ found' = [found EXCEPT ![c] = None]
    /\ ok' = [ok EXCEPT ![c] = FALSE]
-----------------------------------------------------------------------------
(* createLocked, under the admission lease, which refuses at once.  A      *)
(* mailbox that is there is answered (or refused, for other bounds), and   *)
(* whether there is room for another is up to the others.                  *)
Create(c) ==
    /\ pc[c] = "idle" /\ config = None
    /\ \A d \in Client : pc[d] \notin Creating
    /\ \E n \in Nonce :
          /\ \A r \in records : r[1] # n
          /\ task' = [task EXCEPT ![c] = [op |-> "create", key |-> None, body |-> n]]
    /\ Goto(c, "record send")
    /\ UNCHANGED <<lock, disk, found, ok, accepted>>

WriteRecord(c, cap, from, to) ==
    /\ pc[c] = from
    /\ records' = records \union {<<task[c].body, cap>>}
    /\ Goto(c, to)
    /\ UNCHANGED <<lock, messages, revoked, config, task, found, ok, accepted>>

(* Mistake: the config goes before the record of the receiver.             *)
PublishEarly(c) ==
    /\ pc[c] = "record receive"
    /\ config' = task[c].body
    /\ Finish(c)
    /\ UNCHANGED <<lock, messages, revoked, records, accepted>>

(* Immutable: who finds a config there is answered with it.                *)
WriteConfig(c) ==
    /\ pc[c] = "config"
    /\ config' = IF config = None THEN task[c].body ELSE config
    /\ Finish(c)
    /\ UNCHANGED <<lock, messages, revoked, records, accepted>>

(* resolve: the record is there, is not revoked, and is the one the config *)
(* names; what an interrupted creation left resolves to nothing.           *)
Active(cap) == config # None /\ <<config, cap>> \in records /\ cap \notin revoked

(* The capability is resolved without the lock first.                      *)
Begin(c) ==
    /\ pc[c] = "idle"
    /\ \E t \in Task :
          /\ Active(Needs(t))
          /\ task' = [task EXCEPT ![c] = t]
    /\ Goto(c, "lock")
    /\ UNCHANGED <<lock, disk, found, ok, accepted>>

TakeLock(c) ==
    /\ pc[c] = "lock"
    /\ lock = None
    /\ lock' = c
    /\ Goto(c, "check")
    /\ UNCHANGED <<disk, task, found, ok, accepted>>

Locked(c) ==
    /\ pc[c] = "lock"
    /\ lock # None
    /\ Finish(c)
    /\ UNCHANGED <<lock, disk, accepted>>

At(c, op) == pc[c] = "check" /\ task[c].op = op

(* Mistake: the check before the lock is trusted.                          *)
Trusted(c) == TRUE

Resolved(c) == Active(Needs(task[c]))

(* It is resolved again with the lock held.                                *)
Denied(c) ==
    /\ pc[c] = "check"
    /\ ~ Resolved(c)
    /\ Goto(c, "release")
    /\ UNCHANGED <<lock, disk, task, found, ok, accepted>>

Full == Cardinality(Named(pending)) >= MaxMessages

(* Mistake: a claim that is there is not compared.                         *)
CheckSendKey(c) ==
    /\ At(c, "send") /\ Resolved(c)
    /\ Goto(c, IF claims[task[c].key] # None THEN "mark" ELSE IF Full THEN "release" ELSE "claim")
    /\ UNCHANGED <<lock, disk, task, found, ok, accepted>>

(* sendLocked up to the claim: the claim that is there must be for the     *)
(* same body.  A marker without its claim is refused too; ClaimBinds shows *)
(* that no operation leaves one.                                           *)
CheckSend(c) ==
    /\ At(c, "send") /\ Resolved(c)
    /\ LET k == task[c].key IN
          Goto(c, IF claims[k] = task[c].body THEN "mark"
                  ELSE IF claims[k] = None /\ ~ Full THEN "claim"
                  ELSE "release")
    /\ UNCHANGED <<lock, disk, task, found, ok, accepted>>

(* A file is linked into place once; whoever comes second compares.        *)
Publish(f, c) == IF f[task[c].key] = None THEN [f EXCEPT ![task[c].key] = task[c].body] ELSE f
Agrees(f, c) == f[task[c].key] = task[c].body

WriteClaim(c) ==
    /\ pc[c] = "claim"
    /\ claims' = Publish(claims, c)
    /\ Goto(c, IF Agrees(claims', c) THEN "mark" ELSE "release")
    /\ UNCHANGED <<lock, pending, consumed, revoked, admitted, task, found, ok, accepted>>

(* Mistake: the claim says that the message was delivered.                 *)
CheckClaim(c) ==
    /\ pc[c] = "mark"
    /\ ok' = [ok EXCEPT ![c] = Agrees(claims, c)]
    /\ Goto(c, "release")
    /\ UNCHANGED <<lock, disk, task, found, accepted>>

(* A marker, pending or consumed, answers the send; otherwise there must   *)
(* be room, also for a claim that an earlier send left without a marker.   *)
CheckMarkers(c) ==
    /\ pc[c] = "mark"
    /\ LET marked == task[c].key \in Named(pending) \union Named(consumed) IN
          /\ ok' = [ok EXCEPT ![c] = marked /\ (Agrees(pending, c) \/ Agrees(consumed, c))]
          /\ Goto(c, IF marked \/ Full THEN "release" ELSE "deliver")
    /\ UNCHANGED <<lock, disk, task, found, accepted>>

WritePending(c) ==
    /\ pc[c] = "deliver"
    /\ pending' = Publish(pending, c)
    /\ ok' = [ok EXCEPT ![c] = Agrees(pending', c)]
    /\ Goto(c, "release")
    /\ UNCHANGED <<lock, claims, consumed, revoked, admitted, task, found, accepted>>

(* receiveLocked takes the first pending file; an empty mailbox suspends   *)
(* the effect.  Its retries are for a marker that vanishes, which the lock *)
(* rules out.                                                              *)
CheckReceive(c) ==
    /\ At(c, "receive") /\ Resolved(c)
    /\ IF Named(pending) = {}
       THEN Goto(c, "release") /\ UNCHANGED found
       ELSE /\ found' = [found EXCEPT ![c] =
                  CHOOSE k \in Named(pending) : \A l \in Named(pending) : k <= l]
            /\ Goto(c, "consume")
    /\ UNCHANGED <<lock, disk, task, ok, accepted>>

(* One rename moves the marker.                                            *)
Consume(c) ==
    /\ pc[c] = "consume"
    /\ consumed' = [consumed EXCEPT ![found[c]] = pending[found[c]]]
    /\ pending' = [pending EXCEPT ![found[c]] = None]
    /\ ok' = [ok EXCEPT ![c] = TRUE]
    /\ Goto(c, "release")
    /\ UNCHANGED <<lock, claims, revoked, admitted, task, found, accepted>>

Probe(c) ==
    /\ At(c, "probe") /\ Resolved(c)
    /\ ok' = [ok EXCEPT ![c] = Named(pending) # {}]
    /\ Goto(c, "release")
    /\ UNCHANGED <<lock, disk, task, found, accepted>>

CheckRevoke(c) ==
    /\ At(c, "revoke") /\ Resolved(c)
    /\ Goto(c, "revoke")
    /\ UNCHANGED <<lock, disk, task, found, ok, accepted>>

WriteRevoked(c) ==
    /\ pc[c] = "revoke"
    /\ revoked' = revoked \union {task[c].body}
    /\ ok' = [ok EXCEPT ![c] = TRUE]
    /\ Goto(c, "release")
    /\ UNCHANGED <<lock, messages, admitted, task, found, accepted>>

(* The lock file goes first, then the caller has its answer.               *)
Release(c) ==
    /\ pc[c] = "release"
    /\ lock' = None
    /\ accepted' = IF ok[c] /\ task[c].op = "send"
                   THEN accepted \union {<<task[c].key, task[c].body>>} ELSE accepted
    /\ Finish(c)
    /\ UNCHANGED disk

(* A file operation throws: the finally block still removes the lock, and  *)
(* what was written stays.                                                 *)
Throw(c) ==
    /\ pc[c] \in Inside
    /\ ok' = [ok EXCEPT ![c] = FALSE]
    /\ Goto(c, "release")
    /\ UNCHANGED <<lock, disk, task, found, accepted>>

(* A creation that throws ends as one that dies: its lease is let go.      *)
Crash(c) ==
    /\ pc[c] # "idle"
    /\ lock' = IF lock = c THEN Dead ELSE lock
    /\ Finish(c)
    /\ UNCHANGED <<disk, accepted>>

(* An operator has reconciled the operation that died.                     *)
Reconcile ==
    /\ lock = Dead
    /\ lock' = None
    /\ UNCHANGED <<disk, pc, task, found, ok, accepted>>
-----------------------------------------------------------------------------
Operation(c) ==
    \/ WriteRecord(c, "send", "record send", "record receive")
    \/ WriteRecord(c, "receive", "record receive", "config")
    \/ WriteConfig(c)
    \/ TakeLock(c) \/ Locked(c) \/ Denied(c)
    \/ CheckSend(c) \/ WriteClaim(c) \/ CheckMarkers(c) \/ WritePending(c)
    \/ CheckReceive(c) \/ Consume(c) \/ Probe(c)
    \/ CheckRevoke(c) \/ WriteRevoked(c) \/ Release(c)

Next ==
    \/ \E c \in Client : Create(c) \/ Begin(c) \/ Operation(c) \/ Throw(c) \/ Crash(c)
    \/ Reconcile

Spec == Init /\ [][Next]_vars
-----------------------------------------------------------------------------
(* Whoever finds a mailbox can use it, also after creations that died: the *)
(* capabilities its config names are on record (275-284, 342-349).         *)
CapabilitiesAdmitted ==
    config # None => \A cap \in Capability : <<config, cap>> \in records

(* A marker is never without its claim, and says what the claim says: the  *)
(* checks of sendLocked and receiveLocked for orphans and mismatches do    *)
(* not fire by the mailbox's own doing, whichever step died.               *)
ClaimBinds ==
    \A k \in Key :
        /\ pending[k] # None => pending[k] = claims[k]
        /\ consumed[k] # None => consumed[k] = claims[k]

(* A send that returned is delivered: its message waits or was consumed.   *)
(* Two senders are never both told that one key carries their body.        *)
AcceptedKept ==
    \A a \in accepted : a[2] \in {pending[a[1]], consumed[a[1]]}

(* The mailbox is a channel: one posting per key, in room, one taking, and *)
(* none of either once the capability is revoked.                          *)
Abstract == INSTANCE Channel WITH
    post <- [k \in Key |-> IF pending[k] # None THEN pending[k] ELSE consumed[k]],
    taken <- {k \in Key : consumed[k] # None /\ pending[k] = None}
ImplementsChannel == Abstract!Spec
=============================================================================
