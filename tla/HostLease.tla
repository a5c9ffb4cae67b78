----------------------------- MODULE HostLease -----------------------------
(***************************************************************************)
(* The owner lease of one host directory, src/src/host-state.ts: acquire,  *)
(* releaseMarker and hostLease.  Every process supervisor dispatch,        *)
(* mailbox admission, outbox delivery and application commit runs inside   *)
(* one.                                                                    *)
(*                                                                         *)
(* Custody is two things: a SQLite write transaction on .owner.sqlite that *)
(* the operating system releases when its process dies, and the pathname   *)
(* .lock holding a marker with a random nonce, which a crash leaves behind.*)
(* An older runtime knows only the pathname: it creates .lock exclusively  *)
(* and fails when it exists.                                               *)
(*                                                                         *)
(* Each step below is one file or database operation; other runtimes, and  *)
(* crashes, come between any two of them.                                  *)
(***************************************************************************)
EXTENDS Naturals, FiniteSets

CONSTANTS
    Actor,        \* live runtimes that use the lease
    OldRuntime,   \* runtimes that know only the pathname
    Nonce,        \* random marker nonces
    MaxOwners,    \* most markers kept under owners/ (256 in the code)
    MaxPolls,     \* polls of a retrying caller before its deadline (2000/25)
    NoActor, NoMarker, OldMarker

ASSUME MaxOwnersAssumption == MaxOwners \in Nat
ASSUME MaxPollsAssumption == MaxPolls \in Nat
ASSUME DistinctAssumption ==
    /\ NoActor \notin Actor
    /\ NoMarker \notin Nonce
    /\ OldMarker \notin Nonce \union {NoMarker}
    /\ Actor \intersect OldRuntime = {}

VARIABLES
    table,     \* algal_owner table: "absent", "empty" or "ready"
    txn,       \* the actor inside BEGIN IMMEDIATE, or NoActor
    lock,      \* content of .lock
    owners,    \* nonces under owners/
    pc,        \* pc[a]: the step of acquire/hostLease a is about to take
    seen,      \* seen[a]: `previous`, the marker a read
    mine,      \* mine[a]: the marker a published
    polls,     \* polls[a]: polls left before the retry deadline
    old,       \* old runtimes now holding .lock
    unreleased \* nonces published and not yet unlinked by their owner

vars == <<table, txn, lock, owners, pc, seen, mine, polls, old, unreleased>>

locals == <<seen, mine, polls>>
disk == <<table, lock, owners, old, unreleased>>

Steps == {"idle", "table", "contract", "insert", "begin", "read", "archive",
          "unlink", "publish", "action", "compare", "remove", "rollback"}

Marker == Nonce \union {NoMarker, OldMarker}

TypeOK ==
    /\ table \in {"absent", "empty", "ready"}
    /\ txn \in Actor \union {NoActor}
    /\ lock \in Marker
    /\ owners \subseteq Nonce
    /\ pc \in [Actor -> Steps]
    /\ seen \in [Actor -> Marker]
    /\ mine \in [Actor -> Marker]
    /\ polls \in [Actor -> 0..MaxPolls]
    /\ old \subseteq OldRuntime
    /\ unreleased \subseteq Nonce

Init ==
    /\ table = "absent"
    /\ txn = NoActor
    /\ lock = NoMarker
    /\ owners = {}
    /\ pc = [a \in Actor |-> "idle"]
    /\ seen = [a \in Actor |-> NoMarker]
    /\ mine = [a \in Actor |-> NoMarker]
    /\ polls = [a \in Actor |-> 0]
    /\ old = {}
    /\ unreleased = {}

goto(a, step) == pc' = [pc EXCEPT ![a] = step]
-----------------------------------------------------------------------------
(* Leaving acquire with an error, lines 173-177: the connection is closed, *)
(* which ends the transaction, and nothing on disk is undone.              *)
Fail(a) ==
    /\ goto(a, "idle")
    /\ txn' = IF txn = a THEN NoActor ELSE txn
    /\ UNCHANGED locals

(* Mistake: a retrying caller never looks at its deadline. *)
ContendedForever(a) ==
    /\ goto(a, "table")
    /\ UNCHANGED <<txn, locals, disk>>

(* SQLITE_BUSY, the only error hostLease retries (lines 188-193): with the *)
(* deadline ahead the caller polls again, otherwise it reports contention. *)
Contended(a) ==
    /\ \/ /\ polls[a] > 0
          /\ polls' = [polls EXCEPT ![a] = @ - 1]
          /\ goto(a, "table")
       \/ /\ polls' = [polls EXCEPT ![a] = 0]
          /\ goto(a, "idle")
    /\ UNCHANGED <<txn, seen, mine, disk>>

(* hostLease with SHARED_LEASE_RETRY, or with no retry. *)
Call(a) ==
    /\ pc[a] = "idle"
    /\ \E p \in {0, MaxPolls} : polls' = [polls EXCEPT ![a] = p]
    /\ goto(a, "table")
    /\ UNCHANGED <<txn, seen, mine, disk>>

(* CREATE TABLE IF NOT EXISTS, line 139: a write, unless it exists. *)
EnsureTable(a) ==
    /\ pc[a] = "table"
    /\ \/ /\ table = "absent"
          /\ table' = "empty"
          /\ goto(a, "contract")
          /\ UNCHANGED <<txn, lock, owners, old, unreleased, locals>>
       \/ /\ table # "absent"
          /\ goto(a, "contract")
          /\ UNCHANGED <<txn, locals, disk>>
       \/ /\ \E b \in Actor \ {a} : pc[b] \in {"table", "insert"}
          /\ table # "ready"
          /\ Contended(a)

(* Line 143: an initialized database needs no contract write. *)
ReadContract(a) ==
    /\ pc[a] = "contract"
    /\ goto(a, IF table = "empty" THEN "insert" ELSE "begin")
    /\ UNCHANGED <<txn, locals, disk>>

(* INSERT OR IGNORE, line 148: a momentary write of its own. *)
InsertContract(a) ==
    /\ pc[a] = "insert"
    /\ \/ /\ txn = NoActor
          /\ table' = "ready"
          /\ goto(a, "begin")
          /\ UNCHANGED <<txn, lock, owners, old, unreleased, locals>>
       \/ /\ \/ txn # NoActor
             \/ \E b \in Actor \ {a} : pc[b] \in {"insert", "begin"}
          /\ Contended(a)

(* Mistake: the marker is trusted without the database transaction. *)
BeginWithoutTransaction(a) ==
    /\ pc[a] = "begin"
    /\ goto(a, "read")
    /\ UNCHANGED <<txn, locals, disk>>

(* BEGIN IMMEDIATE and the contract read again under it, lines 151-154. *)
Begin(a) ==
    /\ pc[a] = "begin"
    /\ \/ /\ txn = NoActor
          /\ IF table = "ready"
             THEN /\ txn' = a
                  /\ goto(a, "read")
                  /\ UNCHANGED locals
             ELSE Fail(a)
          /\ UNCHANGED disk
       \/ /\ \/ txn # NoActor
             \/ \E b \in Actor \ {a} : pc[b] \in {"insert", "begin"}
          /\ Contended(a)

(* Lines 155-165: a recognized marker is what a dead owner left. *)
ReadLock(a) ==
    /\ pc[a] = "read"
    /\ \/ /\ lock = NoMarker
          /\ seen' = [seen EXCEPT ![a] = lock]
          /\ goto(a, "publish")
          /\ UNCHANGED <<txn, mine, polls>>
       \/ /\ lock \in Nonce
          /\ lock \in owners \/ Cardinality(owners) < MaxOwners
          /\ seen' = [seen EXCEPT ![a] = lock]
          /\ goto(a, "archive")
          /\ UNCHANGED <<txn, mine, polls>>
       \/ /\ lock \in Nonce        \* BUDGET_EXHAUSTED
          /\ lock \notin owners /\ Cardinality(owners) >= MaxOwners
          /\ Fail(a)
       \/ /\ lock = OldMarker      \* operator reconciliation required
          /\ Fail(a)
    /\ UNCHANGED disk

(* Mistake: a dead owner's marker is thrown away. *)
ArchiveNothing(a) ==
    /\ pc[a] = "archive"
    /\ goto(a, "unlink")
    /\ UNCHANGED <<txn, locals, disk>>

(* Line 166. *)
Archive(a) ==
    /\ pc[a] = "archive"
    /\ owners' = owners \union {seen[a]}
    /\ goto(a, "unlink")
    /\ UNCHANGED <<table, txn, lock, old, unreleased, locals>>

(* Line 167: whatever the pathname holds now is removed. *)
UnlinkStale(a) ==
    /\ pc[a] = "unlink"
    /\ \/ /\ lock # NoMarker
          /\ lock' = NoMarker
          /\ goto(a, "publish")
          /\ UNCHANGED <<table, txn, owners, old, unreleased, locals>>
       \/ /\ lock = NoMarker
          /\ Fail(a)
          /\ UNCHANGED disk

(* Mistake: the marker is renamed into place over whatever is there. *)
PublishOver(a) ==
    /\ pc[a] = "publish"
    /\ \E n \in Nonce \ (owners \union unreleased) :
          /\ lock' = n
          /\ unreleased' = unreleased \union {n}
          /\ mine' = [mine EXCEPT ![a] = n]
    /\ goto(a, "action")
    /\ UNCHANGED <<table, txn, owners, old, seen, polls>>

(* Lines 170-171: a fresh marker is linked into place.  The link succeeds  *)
(* only on a free pathname; the directory sync after it may still fail.    *)
Publish(a) ==
    /\ pc[a] = "publish"
    /\ \/ /\ lock = NoMarker
          /\ \E n \in Nonce \ (owners \union unreleased) :
                /\ lock' = n
                /\ unreleased' = unreleased \union {n}
                /\ \/ /\ mine' = [mine EXCEPT ![a] = n]
                      /\ goto(a, "action")
                      /\ UNCHANGED <<txn, seen, polls>>
                   \/ Fail(a)
          /\ UNCHANGED <<table, owners, old>>
       \/ /\ lock # NoMarker
          /\ Fail(a)
          /\ UNCHANGED disk

(* Mistake: the transaction ends before the marker is removed. *)
ActThenRollback(a) ==
    /\ pc[a] = "action"
    /\ goto(a, "compare")
    /\ txn' = NoActor
    /\ UNCHANGED <<locals, disk>>

(* Line 196: the caller's operation returns or throws. *)
Act(a) ==
    /\ pc[a] = "action"
    /\ goto(a, "compare")
    /\ UNCHANGED <<txn, locals, disk>>

(* Line 103: releaseMarker refuses a marker that is not its own. *)
CompareMarker(a) ==
    /\ pc[a] = "compare"
    /\ goto(a, IF lock = mine[a] THEN "remove" ELSE "rollback")
    /\ UNCHANGED <<txn, locals, disk>>

(* Line 104. *)
RemoveMarker(a) ==
    /\ pc[a] = "remove"
    /\ lock' = NoMarker
    /\ unreleased' = unreleased \ {mine[a]}
    /\ goto(a, "rollback")
    /\ UNCHANGED <<table, txn, owners, old, locals>>

(* Line 199. *)
Rollback(a) ==
    /\ pc[a] = "rollback"
    /\ Fail(a)
    /\ UNCHANGED disk

(* A file operation fails: while acquiring, acquire throws; while          *)
(* releasing, the transaction is still rolled back.                        *)
IoError(a) ==
    /\ \/ pc[a] \in {"table", "contract", "read", "archive", "unlink", "publish"} /\ Fail(a)
       \/ pc[a] \in {"compare", "remove"} /\ goto(a, "rollback") /\ UNCHANGED <<txn, locals>>
    /\ UNCHANGED disk

(* The process dies: the transaction goes with it, the pathname does not. *)
Crash(a) ==
    /\ pc[a] # "idle"
    /\ Fail(a)
    /\ UNCHANGED disk
-----------------------------------------------------------------------------
(* An older runtime: create-exclusive on .lock, unlink when done; a crash  *)
(* leaves the file for an operator to remove.                              *)
OldAcquire(o) ==
    /\ lock = NoMarker
    /\ lock' = OldMarker
    /\ old' = old \union {o}
    /\ UNCHANGED <<table, txn, owners, pc, unreleased, locals>>

OldRelease(o) ==
    /\ o \in old
    /\ lock' = NoMarker
    /\ old' = old \ {o}
    /\ UNCHANGED <<table, txn, owners, pc, unreleased, locals>>

OldCrash(o) ==
    /\ o \in old
    /\ old' = old \ {o}
    /\ UNCHANGED <<table, txn, lock, owners, pc, unreleased, locals>>

Reconcile ==
    /\ lock = OldMarker
    /\ old = {}
    /\ lock' = NoMarker
    /\ UNCHANGED <<table, txn, owners, pc, old, unreleased, locals>>
-----------------------------------------------------------------------------
Progress(a) ==
    \/ EnsureTable(a) \/ ReadContract(a) \/ InsertContract(a) \/ Begin(a)
    \/ ReadLock(a) \/ Archive(a) \/ UnlinkStale(a) \/ Publish(a)
    \/ Act(a) \/ CompareMarker(a) \/ RemoveMarker(a) \/ Rollback(a)

Next ==
    \/ \E a \in Actor : Call(a) \/ Progress(a) \/ IoError(a) \/ Crash(a)
    \/ \E o \in OldRuntime : OldAcquire(o) \/ OldRelease(o) \/ OldCrash(o)
    \/ Reconcile

Spec == Init /\ [][Next]_vars

(* Every step of a live runtime is eventually taken; nothing obliges a     *)
(* caller to call, an old runtime to finish or an operator to reconcile.   *)
FairSpec == Spec /\ \A a \in Actor : WF_vars(Progress(a))
-----------------------------------------------------------------------------
Inside == {a \in Actor : pc[a] = "action"} \union old

(* No two operations run inside one directory, whichever mixture of        *)
(* current and older runtimes runs, crashes and recovers (lines 180-182).  *)
MutualExclusion == \A x, y \in Inside : x = y

(* A marker whose owner did not remove it is never lost: it is on record   *)
(* under owners/ or still holds the pathname (lines 156-171).              *)
EvidenceRetained == unreleased \subseteq owners \union {lock}

(* An owner that comes to release finds its own marker, so releaseMarker's *)
(* refusal (line 103) is never met and nobody else's marker is removed.    *)
MarkerIsMine == \A a \in Actor : pc[a] \in {"action", "compare", "remove"} => lock = mine[a]

(* The evidence directory never outgrows its bound, which hostNames would  *)
(* turn into a directory no later owner can acquire (lines 97, 164-165).   *)
OwnersBounded == Cardinality(owners) <= MaxOwners

(* A caller always gets an answer: custody, contention or an error. *)
Answered == \A a \in Actor : pc[a] # "idle" ~> pc[a] \in {"idle", "action"}

(* The lease implements Custody. *)
Abstract == INSTANCE Custody WITH
    Owner <- Actor \union OldRuntime, Anonymous <- OldRuntime, Name <- Nonce,
    inside <- Inside, open <- unreleased, evidence <- owners
ImplementsCustody == Abstract!Spec
=============================================================================
