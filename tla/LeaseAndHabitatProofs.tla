------------------------ MODULE LeaseAndHabitatProofs ------------------------
(***************************************************************************)
(* Proofs about HostLease, the lease of a host's directory, and about      *)
(* HabitatSchedule, the schedules run there (the last sections).           *)
(*                                                                         *)
(* HostLease, for any number of runtimes, nonces and polls: the            *)
(* transaction is held by exactly the actor in the custody steps, so only  *)
(* it touches a recognized marker, so the marker an owner read or          *)
(* published is still there when it acts on it.                            *)
(***************************************************************************)
EXTENDS HostLease, HabitatSchedule, FiniteSetTheorems, SequenceTheorems, WellFoundedInduction, TLAPS

(* The steps taken inside the transaction. *)
Custodial == {"read", "archive", "unlink", "publish", "action", "compare",
              "remove", "rollback"}

(* The transaction belongs to the one actor inside those steps. *)
TxnInv == \A a \in Actor : pc[a] \in Custodial <=> txn = a

(* A dead owner's marker stays put from its reading to its removal, and is *)
(* on record before it is removed.                                         *)
StaleInv == \A a \in Actor :
    /\ pc[a] \in {"archive", "unlink"} => seen[a] \in Nonce /\ lock = seen[a]
    /\ pc[a] = "unlink" => seen[a] \in owners

(* A live owner's marker stays put and off the record. *)
MineInv == \A a \in Actor : pc[a] \in {"action", "compare", "remove"} =>
    mine[a] \in Nonce \ owners /\ lock = mine[a]

(* The pathname: a nonce there is unreleased, an old runtime is alone. *)
LockInv ==
    /\ lock \in Nonce => lock \in unreleased
    /\ old # {} => lock = OldMarker
    /\ \A o, q \in old : o = q

IInv ==
    /\ TypeOK
    /\ TxnInv
    /\ StaleInv
    /\ MineInv
    /\ LockInv
    /\ EvidenceRetained
-----------------------------------------------------------------------------
LEMMA InitIInv == Init => IInv
BY DistinctAssumption, MaxPollsAssumption
   DEF Init, IInv, TypeOK, TxnInv, StaleInv, MineInv, LockInv, EvidenceRetained,
       Steps, Marker, Custodial

(* Type correctness of a step needs the other parts only to know that a    *)
(* marker read or published is one.                                        *)
LEMMA TypeStep == IInv /\ [Next]_vars => TypeOK'
<1> SUFFICES ASSUME IInv, [Next]_vars PROVE TypeOK'
  OBVIOUS
<1> USE DistinctAssumption, MaxPollsAssumption
    DEF IInv, TypeOK, StaleInv, MineInv, Steps, Marker, goto, Fail, Contended, locals, disk
<1>1. ASSUME NEW a \in Actor, Call(a) PROVE TypeOK'
  BY <1>1 DEF Call
<1>2. ASSUME NEW a \in Actor, Progress(a) PROVE TypeOK'
  <2>1. CASE EnsureTable(a) BY <2>1 DEF EnsureTable
  <2>2. CASE ReadContract(a) BY <2>2 DEF ReadContract
  <2>3. CASE InsertContract(a) BY <2>3 DEF InsertContract
  <2>4. CASE Begin(a) BY <2>4 DEF Begin
  <2>5. CASE ReadLock(a) BY <2>5 DEF ReadLock
  <2>6. CASE Archive(a) BY <2>6 DEF Archive
  <2>7. CASE UnlinkStale(a) BY <2>7 DEF UnlinkStale
  <2>8. CASE Publish(a) BY <2>8 DEF Publish
  <2>9. CASE Act(a) BY <2>9 DEF Act
  <2>10. CASE CompareMarker(a) BY <2>10 DEF CompareMarker
  <2>11. CASE RemoveMarker(a) BY <2>11 DEF RemoveMarker
  <2>12. CASE Rollback(a) BY <2>12 DEF Rollback
  <2>13. QED BY <1>2, <2>1, <2>2, <2>3, <2>4, <2>5, <2>6, <2>7, <2>8, <2>9,
                <2>10, <2>11, <2>12 DEF Progress
<1>3. ASSUME NEW a \in Actor, IoError(a) \/ Crash(a) PROVE TypeOK'
  BY <1>3 DEF IoError, Crash
<1>4. ASSUME NEW o \in OldRuntime, OldAcquire(o) \/ OldRelease(o) \/ OldCrash(o)
      PROVE TypeOK'
  BY <1>4 DEF OldAcquire, OldRelease, OldCrash
<1>5. CASE Reconcile
  BY <1>5 DEF Reconcile
<1>6. CASE UNCHANGED vars
  BY <1>6 DEF vars
<1>7. QED BY <1>1, <1>2, <1>3, <1>4, <1>5, <1>6 DEF Next

(* The transaction is taken only when free and ends only with its owner.   *)
LEMMA TxnStep == IInv /\ [Next]_vars => TxnInv'
<1> SUFFICES ASSUME IInv, [Next]_vars PROVE TxnInv'
  OBVIOUS
<1> USE DistinctAssumption
    DEF IInv, TypeOK, TxnInv, Custodial, Steps, goto, Fail, Contended, locals, disk
<1>1. ASSUME NEW a \in Actor, Call(a) PROVE TxnInv'
  BY <1>1 DEF Call
<1>2. ASSUME NEW a \in Actor, Progress(a) PROVE TxnInv'
  <2>1. CASE EnsureTable(a) BY <2>1 DEF EnsureTable
  <2>2. CASE ReadContract(a) BY <2>2 DEF ReadContract
  <2>3. CASE InsertContract(a) BY <2>3 DEF InsertContract
  <2>4. CASE Begin(a) BY <2>4 DEF Begin
  <2>5. CASE ReadLock(a) BY <2>5 DEF ReadLock
  <2>6. CASE Archive(a) BY <2>6 DEF Archive
  <2>7. CASE UnlinkStale(a) BY <2>7 DEF UnlinkStale
  <2>8. CASE Publish(a) BY <2>8 DEF Publish
  <2>9. CASE Act(a) BY <2>9 DEF Act
  <2>10. CASE CompareMarker(a) BY <2>10 DEF CompareMarker
  <2>11. CASE RemoveMarker(a) BY <2>11 DEF RemoveMarker
  <2>12. CASE Rollback(a) BY <2>12 DEF Rollback
  <2>13. QED BY <1>2, <2>1, <2>2, <2>3, <2>4, <2>5, <2>6, <2>7, <2>8, <2>9,
                <2>10, <2>11, <2>12 DEF Progress
<1>3. ASSUME NEW a \in Actor, IoError(a) \/ Crash(a) PROVE TxnInv'
  BY <1>3 DEF IoError, Crash
<1>4. ASSUME NEW o \in OldRuntime, OldAcquire(o) \/ OldRelease(o) \/ OldCrash(o)
      PROVE TxnInv'
  BY <1>4 DEF OldAcquire, OldRelease, OldCrash
<1>5. CASE Reconcile
  BY <1>5 DEF Reconcile
<1>6. CASE UNCHANGED vars
  BY <1>6 DEF vars
<1>7. QED BY <1>1, <1>2, <1>3, <1>4, <1>5, <1>6 DEF Next

(* Only the transaction's holder removes or replaces a recognized marker.  *)
LEMMA CustodyStep ==
    IInv /\ [Next]_vars => StaleInv' /\ MineInv' /\ LockInv' /\ EvidenceRetained'
<1> DEFINE Inv == StaleInv /\ MineInv /\ LockInv /\ EvidenceRetained
<1> SUFFICES ASSUME IInv, [Next]_vars PROVE Inv'
  OBVIOUS
<1> USE DistinctAssumption
    DEF IInv, TypeOK, TxnInv, StaleInv, MineInv, LockInv, EvidenceRetained, Custodial,
        Steps, Marker, goto, Fail, Contended, locals, disk
<1>1. ASSUME NEW a \in Actor, Call(a) PROVE Inv'
  BY <1>1 DEF Call
<1>2. ASSUME NEW a \in Actor, Progress(a) PROVE Inv'
  <2>1. CASE EnsureTable(a) BY <2>1 DEF EnsureTable
  <2>2. CASE ReadContract(a) BY <2>2 DEF ReadContract
  <2>3. CASE InsertContract(a) BY <2>3 DEF InsertContract
  <2>4. CASE Begin(a) BY <2>4 DEF Begin
  <2>5. CASE ReadLock(a) BY <2>5 DEF ReadLock
  <2>6. CASE Archive(a) BY <2>6 DEF Archive
  <2>7. CASE UnlinkStale(a) BY <2>7 DEF UnlinkStale
  <2>8. CASE Publish(a) BY <2>8 DEF Publish
  <2>9. CASE Act(a) BY <2>9 DEF Act
  <2>10. CASE CompareMarker(a) BY <2>10 DEF CompareMarker
  <2>11. CASE RemoveMarker(a) BY <2>11 DEF RemoveMarker
  <2>12. CASE Rollback(a) BY <2>12 DEF Rollback
  <2>13. QED BY <1>2, <2>1, <2>2, <2>3, <2>4, <2>5, <2>6, <2>7, <2>8, <2>9,
                <2>10, <2>11, <2>12 DEF Progress
<1>3. ASSUME NEW a \in Actor, IoError(a) \/ Crash(a) PROVE Inv'
  BY <1>3 DEF IoError, Crash
<1>4. ASSUME NEW o \in OldRuntime, OldAcquire(o) \/ OldRelease(o) \/ OldCrash(o)
      PROVE Inv'
  BY <1>4 DEF OldAcquire, OldRelease, OldCrash
<1>5. CASE Reconcile
  BY <1>5 DEF Reconcile
<1>6. CASE UNCHANGED vars
  BY <1>6 DEF vars
<1>7. QED BY <1>1, <1>2, <1>3, <1>4, <1>5, <1>6 DEF Next

(* The inductive invariant holds in every behaviour.                       *)
LEMMA IInvHolds == Spec => []IInv
<1>1. IInv /\ [Next]_vars => IInv'
  BY TypeStep, TxnStep, CustodyStep DEF IInv
<1>2. QED BY InitIInv, <1>1, PTL DEF Spec
-----------------------------------------------------------------------------
(* Every variable keeps its type.                                          *)
THEOREM TypeCorrect == Spec => []TypeOK
<1>1. IInv => TypeOK BY DEF IInv
<1>2. QED BY IInvHolds, <1>1, PTL

(* Two operations never run inside one directory: two current runtimes     *)
(* would both hold the transaction, and an old one would have to share the *)
(* pathname (host-state.ts, lines 180-182).                                *)
THEOREM Exclusion == Spec => []MutualExclusion
<1>1. IInv => MutualExclusion
  BY DistinctAssumption
     DEF IInv, TypeOK, TxnInv, MineInv, LockInv, MutualExclusion, Inside, Custodial, Marker
<1>2. QED BY IInvHolds, <1>1, PTL

(* A marker its owner did not remove is on record or still in place, after *)
(* any crash at any step of acquiring or releasing (lines 156-171).        *)
THEOREM Evidence == Spec => []EvidenceRetained
<1>1. IInv => EvidenceRetained BY DEF IInv
<1>2. QED BY IInvHolds, <1>1, PTL

(* A releasing owner always finds its own marker (line 103).               *)
THEOREM OwnMarker == Spec => []MarkerIsMine
<1>1. IInv => MarkerIsMine BY DEF IInv, MineInv, MarkerIsMine
<1>2. QED BY IInvHolds, <1>1, PTL
-----------------------------------------------------------------------------
(* The evidence bound holds from the check of line 165 to the write of     *)
(* line 166, because only the transaction's holder writes there.           *)
RoomInv ==
    /\ IsFiniteSet(owners)
    /\ OwnersBounded
    /\ \A a \in Actor : pc[a] = "archive" =>
          seen[a] \in owners \/ Cardinality(owners) < MaxOwners

LEMMA RoomStep == IInv /\ RoomInv /\ [Next]_vars => RoomInv'
<1> SUFFICES ASSUME IInv, RoomInv, [Next]_vars PROVE RoomInv'
  OBVIOUS
<1> USE DistinctAssumption, MaxOwnersAssumption
    DEF RoomInv, OwnersBounded, IInv, TypeOK, TxnInv, Custodial, Steps, goto, Fail,
        Contended, locals, disk
<1>0. Cardinality(owners) \in Nat
  BY FS_CardinalityType
<1>1. ASSUME NEW a \in Actor, Archive(a) PROVE RoomInv'
  <2>1. owners' = owners \union {seen[a]}
    BY <1>1 DEF Archive
  <2>2. IsFiniteSet(owners') /\ Cardinality(owners') <= MaxOwners
    <3>1. /\ IsFiniteSet(owners \union {seen[a]})
          /\ Cardinality(owners \union {seen[a]}) =
                IF seen[a] \in owners THEN Cardinality(owners) ELSE Cardinality(owners) + 1
      BY FS_AddElement
    <3>2. Cardinality(owners \union {seen[a]}) <= MaxOwners
      BY <1>0, <1>1, <3>1 DEF Archive
    <3>3. QED BY <2>1, <3>1, <3>2
  <2>3. \A b \in Actor : pc'[b] # "archive"
    BY <1>1 DEF Archive
  <2>4. QED BY <2>2, <2>3
<1>2. ASSUME NEW a \in Actor, ReadLock(a) PROVE RoomInv'
  BY <1>0, <1>2 DEF ReadLock
<1>3. ASSUME NEW a \in Actor, Call(a) \/ IoError(a) \/ Crash(a) PROVE RoomInv'
  BY <1>3 DEF Call, IoError, Crash
<1>4. ASSUME NEW a \in Actor, EnsureTable(a) \/ ReadContract(a) \/ InsertContract(a) \/ Begin(a)
      PROVE RoomInv'
  BY <1>4 DEF EnsureTable, ReadContract, InsertContract, Begin
<1>5. ASSUME NEW a \in Actor, UnlinkStale(a) \/ Publish(a) \/ Act(a)
      PROVE RoomInv'
  BY <1>5 DEF UnlinkStale, Publish, Act
<1>6. ASSUME NEW a \in Actor, CompareMarker(a) \/ RemoveMarker(a) \/ Rollback(a)
      PROVE RoomInv'
  BY <1>6 DEF CompareMarker, RemoveMarker, Rollback
<1>7. ASSUME NEW o \in OldRuntime, OldAcquire(o) \/ OldRelease(o) \/ OldCrash(o)
      PROVE RoomInv'
  BY <1>7 DEF OldAcquire, OldRelease, OldCrash
<1>8. CASE Reconcile
  BY <1>8 DEF Reconcile
<1>9. CASE UNCHANGED vars
  BY <1>9 DEF vars
<1>10. QED BY <1>1, <1>2, <1>3, <1>4, <1>5, <1>6, <1>7, <1>8, <1>9 DEF Next, Progress

(* The evidence directory never outgrows its bound (lines 97, 164-166).    *)
THEOREM EvidenceBound == Spec => []OwnersBounded
<1>1. Init => RoomInv
  BY MaxOwnersAssumption, FS_EmptySet DEF Init, RoomInv, OwnersBounded
<1>2. RoomInv => OwnersBounded
  BY DEF RoomInv
<1>3. QED BY IInvHolds, RoomStep, <1>1, <1>2, PTL DEF Spec
-----------------------------------------------------------------------------
(* Every step of the lease is a step of the abstract custody, or none.     *)
LEMMA RefineStep == IInv /\ [Next]_vars => [Abstract!Next]_(Abstract!custodyVars)
<1> SUFFICES ASSUME IInv, [Next]_vars, ~ UNCHANGED <<Inside, unreleased, owners>>
             PROVE Abstract!Next
  BY DEF Abstract!custodyVars
<1> DEFINE Quiet == Inside = {} /\ unreleased \subseteq owners
<1> USE DistinctAssumption
    DEF IInv, TypeOK, TxnInv, StaleInv, MineInv, LockInv, EvidenceRetained, Custodial,
        Steps, Marker, Inside, goto, Fail, Contended, locals, disk
<1>1. ASSUME NEW a \in Actor, Archive(a) PROVE Abstract!Next
  <2>1. Abstract!Record(seen[a])
    BY <1>1 DEF Archive, Abstract!Record
  <2>2. QED BY <1>1, <2>1 DEF Archive, Abstract!Next
<1>2. ASSUME NEW a \in Actor, Publish(a) PROVE Abstract!Next
  <2>1. PICK n \in Nonce \ (owners \union unreleased) :
           /\ lock = NoMarker
           /\ unreleased' = unreleased \union {n}
           /\ \/ mine' = [mine EXCEPT ![a] = n] /\ goto(a, "action")
              \/ Fail(a)
    BY <1>2 DEF Publish
  <2>2. UNCHANGED <<owners, old>> /\ Quiet
    BY <1>2, <2>1 DEF Publish
  <2>3. CASE goto(a, "action")
    <3>1. Inside' = {a} BY <1>2, <2>2, <2>3
    <3>2. Abstract!Enter(a, n) BY <2>1, <2>2, <3>1 DEF Abstract!Enter
    <3>3. QED BY <3>2 DEF Abstract!Next
  <2>4. CASE Fail(a)
    <3>1. Inside' = {} BY <1>2, <2>2, <2>4
    <3>2. Abstract!Claim(n) BY <2>1, <2>2, <3>1 DEF Abstract!Claim
    <3>3. QED BY <3>2 DEF Abstract!Next
  <2>5. QED BY <2>1, <2>3, <2>4
<1>3. ASSUME NEW a \in Actor, Act(a) \/ (Crash(a) /\ pc[a] = "action")
      PROVE Abstract!Next
  <2>1. a \in Inside /\ Inside' = Inside \ {a} /\ UNCHANGED <<unreleased, owners>>
    BY <1>3 DEF Act, Crash
  <2>2. Abstract!Leave(a) BY <2>1 DEF Abstract!Leave
  <2>3. QED BY <2>2 DEF Abstract!Next
<1>4. ASSUME NEW a \in Actor, RemoveMarker(a) PROVE Abstract!Next
  <2>1. Inside = {} /\ Inside' = {} /\ mine[a] \in unreleased \ owners
    BY <1>4 DEF RemoveMarker
  <2>2. Abstract!Release(mine[a])
    BY <1>4, <2>1 DEF RemoveMarker, Abstract!Release
  <2>3. QED BY <1>4, <2>1, <2>2 DEF RemoveMarker, Abstract!Next
<1>5. ASSUME NEW o \in OldRuntime, OldAcquire(o) PROVE Abstract!Next
  <2>1. Quiet /\ Inside' = {o} /\ UNCHANGED <<unreleased, owners>>
    BY <1>5 DEF OldAcquire
  <2>2. Abstract!EnterAnonymous(o) BY <2>1 DEF Abstract!EnterAnonymous
  <2>3. QED BY <2>2 DEF Abstract!Next
<1>6. ASSUME NEW o \in OldRuntime, OldRelease(o) \/ OldCrash(o) PROVE Abstract!Next
  <2>1. o \in Inside /\ Inside' = Inside \ {o} /\ UNCHANGED <<unreleased, owners>>
    BY <1>6 DEF OldRelease, OldCrash
  <2>2. Abstract!Leave(o) BY <2>1 DEF Abstract!Leave
  <2>3. QED BY <2>2 DEF Abstract!Next
<1>7. ASSUME NEW a \in Actor, Call(a) \/ EnsureTable(a) \/ ReadContract(a) \/ InsertContract(a)
                              \/ Begin(a) \/ ReadLock(a)
      PROVE UNCHANGED <<Inside, unreleased, owners>>
  BY <1>7 DEF Call, EnsureTable, ReadContract, InsertContract, Begin, ReadLock
<1>8. ASSUME NEW a \in Actor, UnlinkStale(a) \/ CompareMarker(a) \/ Rollback(a) \/ IoError(a)
                              \/ (Crash(a) /\ pc[a] # "action")
      PROVE UNCHANGED <<Inside, unreleased, owners>>
  BY <1>8 DEF UnlinkStale, CompareMarker, Rollback, IoError, Crash
<1>9. ASSUME Reconcile \/ UNCHANGED vars PROVE UNCHANGED <<Inside, unreleased, owners>>
  BY <1>9 DEF Reconcile, vars
<1>10. QED BY <1>1, <1>2, <1>3, <1>4, <1>5, <1>6, <1>7, <1>8, <1>9 DEF Next, Progress

(* The lease implements the abstract custody: what callers rely on holds   *)
(* whatever the number of runtimes and wherever they crash.                *)
THEOREM Refinement == Spec => ImplementsCustody
<1>1. Init => Abstract!Init
  BY DEF Init, Abstract!Init, Inside
<1>2. QED BY IInvHolds, RefineStep, <1>1, PTL DEF Spec, ImplementsCustody, Abstract!Spec
-----------------------------------------------------------------------------
(***************************************************************************)
(* Proofs about HabitatSchedule, for any activities, plans, ceilings,      *)
(* costs and budgets, any number of invocations and of failures.  What a   *)
(* schedule does next follows from its runs and its budget, except for     *)
(* what a run will cost.  So the journal is one path of runs granted one   *)
(* after another, and every invocation is on it, but for the one run it is *)
(* about to append (JournalInv, MemoryInv); where the path is blocked      *)
(* nothing is granted, nothing is appended, and one record is possible     *)
(* (RecordInv).                                                            *)
(***************************************************************************)
Upto(t, i) == SubSeq(t, 1, i)
Begins(t, j) == Len(t) <= Len(j) /\ t = Upto(j, Len(t))

(* What is asked for after the runs t, whose turn it is, and what its      *)
(* manifest exceeds.                                                       *)
Asking(t) == {a \in Activity : Ask(t, a) \in Manifest}
Before(t) == IF Len(t) = 0 THEN -1 ELSE t[Len(t)].activity
DueActivity(t) == NextTurn(Before(t), Asking(t))
DueManifest(t) == Ask(t, DueActivity(t))
Excess(l, t) == Exceeded(l, Totals(t), Ceiling[DueManifest(t)])

(* The run is one that the schedule grants after t, and nothing else was   *)
(* granted along t.                                                        *)
Grants(l, t, run) ==
    /\ Asking(t) # {} /\ Excess(l, t) = {}
    /\ run.activity = DueActivity(t) /\ run.manifest = DueManifest(t)
    /\ run.receipt.cost.attempts <= Ceiling[run.manifest].attempts
Path(l, t) ==
    /\ t \in Seq(RunRecord)
    /\ \A i \in 1..Len(t) : Grants(l, Upto(t, i - 1), t[i])

(* Who asks after i runs is who has a run later or asks in the end.        *)
Later(t, i) == {t[k].activity : k \in i..Len(t)}
Ordered(t) == \A i \in 1..Len(t) : Asking(Upto(t, i - 1)) = Later(t, i) \union Asking(t)

(* Nothing is granted after t, and this is what is recorded of it.         *)
Blocked(l, t) == Asking(t) = {} \/ Excess(l, t) # {}
Refused(l, t) == [activity |-> DueActivity(t), manifest |-> DueManifest(t), reasons |-> Excess(l, t)]
Conclusion(l, t) ==
    [limits |-> l, runs |-> t, charged |-> Totals(t),
     refused |-> IF Asking(t) = {} THEN None ELSE Refused(l, t),
     outcome |-> [a \in Activity |-> IF a \in Asking(t) THEN "exhausted" ELSE "complete"]]

(* The journal is one path under one budget, and a record is of all of it. *)
JournalInv ==
    /\ journal # <<>> => header # None
    /\ Path(header, journal)
RecordInv ==
    /\ records # {} => header # None /\ Blocked(header, journal)
    /\ \A r \in records : r = Conclusion(header, journal)

(* What an invocation has in memory: a path that begins the journal, but   *)
(* for the run it is about to append, and its account.                     *)
Fresh(h) == /\ journaled[h] = <<>> /\ turns[h] = <<>> /\ charged[h] = Nothing
            /\ last[h] = -1 /\ refused[h] = None /\ ended[h] = {}
Booked(h) ==
    /\ limits[h] = header /\ header # None
    /\ Begins(journaled[h], journal)
    /\ Path(header, turns[h]) /\ Ordered(turns[h])
    /\ charged[h] = Totals(turns[h])
Unrefused(h) == refused[h] = None /\ ended[h] = {} /\ last[h] = Before(turns[h])
Denied(h) ==
    /\ Asking(turns[h]) # {} /\ Excess(header, turns[h]) # {}
    /\ refused[h] = Refused(header, turns[h])
    /\ ended[h] # {} /\ ended[h] \subseteq Asking(turns[h])
Memory(h) ==
    /\ stage[h] \in {"idle", "header", "read"} => Fresh(h)
    /\ stage[h] = "header" => limits[h] \in Limits
    /\ stage[h] = "read" => limits[h] = header /\ header # None
    /\ stage[h] \in {"pump", "append"} => Booked(h)
    /\ stage[h] = "pump" => Begins(turns[h], journal) /\ (Unrefused(h) \/ Denied(h))
    /\ stage[h] = "append" =>
          /\ turns[h] # <<>> /\ Unrefused(h)
          /\ Begins(Upto(turns[h], Len(turns[h]) - 1), journal)
MemoryInv == \A h \in Host : Memory(h)

HabitatInv == HabitatTypeOK /\ JournalInv /\ RecordInv /\ MemoryInv

(* Only invocation h moves.                                                *)
MemoryTypes ==
    /\ stage \in [Host -> {"idle", "header", "read", "pump", "append"}]
    /\ limits \in [Host -> Limits \union {None}]
    /\ journaled \in [Host -> Seq(RunRecord)] /\ turns \in [Host -> Seq(RunRecord)]
    /\ charged \in [Host -> [work : Nat, attempts : Nat, runs : Nat]]
    /\ last \in [Host -> Activity \union {-1}]
    /\ refused \in [Host -> Refusal \union {None}]
    /\ ended \in [Host -> SUBSET Activity]
Elsewhere(h) == \A g \in Host \ {h} :
    /\ stage'[g] = stage[g] /\ limits'[g] = limits[g] /\ journaled'[g] = journaled[g]
    /\ turns'[g] = turns[g] /\ charged'[g] = charged[g] /\ last'[g] = last[g]
    /\ refused'[g] = refused[g] /\ ended'[g] = ended[g]
-----------------------------------------------------------------------------
(* Induction from the least number, without the induction theorems.        *)
Below == {p \in Nat \X Nat : p[1] < p[2]}

LEMMA BelowWellFounded == IsWellFoundedOn(Below, Nat)
  BY NatLessThanWellFounded DEF OpToRel, Below

LEMMA LeastNumber ==
    ASSUME NEW S \in SUBSET Nat, S # {}
    PROVE  \E i \in S : \A j \in S : i <= j
<1>1. \E i \in S : \A j \in S : <<j, i>> \notin Below
  BY BelowWellFounded, WFMin
<1>2. \A i, j \in S : <<j, i>> \notin Below => i <= j
  BY DEF Below
<1> QED BY <1>1, <1>2

(* What holds of 0, and of k if of k - 1, holds of all.                    *)
LEMMA UpFrom ==
    ASSUME NEW n \in Nat, NEW S \in SUBSET (0..n), 0 \in S,
           \A k \in 1..n : k - 1 \in S => k \in S
    PROVE  S = 0..n
<1> SUFFICES ASSUME (0..n) \ S # {} PROVE FALSE
  OBVIOUS
<1>1. (0..n) \ S \in SUBSET Nat
  OBVIOUS
<1>2. PICK k \in (0..n) \ S : \A j \in (0..n) \ S : k <= j
  BY <1>1, LeastNumber
<1>3. k \in 1..n /\ k - 1 \in 0..n /\ ~ (k <= k - 1)
  BY <1>2
<1>4. k - 1 \in S
  BY <1>2, <1>3
<1> QED BY <1>2, <1>3, <1>4

(* A value can be carried along n steps.                                   *)
Carries(f, n, V, b, step) ==
    /\ f \in [0..n -> V] /\ f[0] = b
    /\ \A k \in 1..n : f[k] = step[<<k, f[k - 1]>>]

LEMMA Carried ==
    ASSUME NEW n \in Nat, NEW V, NEW b \in V, NEW step \in [(1..n) \X V -> V]
    PROVE  \E f : Carries(f, n, V, b, step)
<1> DEFINE S == {m \in 0..n : \E f : Carries(f, m, V, b, step)}
<1>1. 0 \in S
  <2> DEFINE f == [k \in 0..0 |-> b]
  <2>1. f \in [0..0 -> V] /\ f[0] = b /\ 1..0 = {}
    OBVIOUS
  <2>2. Carries(f, 0, V, b, step)
    BY <2>1 DEF Carries
  <2> QED BY <2>2
<1>2. ASSUME NEW m \in 1..n, m - 1 \in S PROVE m \in S
  <2>1. PICK f : Carries(f, m - 1, V, b, step)
    BY <1>2
  <2>2. f \in [0..m - 1 -> V] /\ f[0] = b /\ \A k \in 1..m - 1 : f[k] = step[<<k, f[k - 1]>>]
    BY <2>1 DEF Carries
  <2> DEFINE g == [k \in 0..m |-> IF k = m THEN step[<<m, f[m - 1]>>] ELSE f[k]]
  <2>3. m - 1 \in 0..m - 1 /\ m \in 0..m /\ 0 \in 0..m /\ 0 # m
    OBVIOUS
  <2>4. f[m - 1] \in V
    BY <2>2, <2>3
  <2>5. step[<<m, f[m - 1]>>] \in V
    BY <2>4
  <2>6. \A k \in 0..m : k # m => k \in 0..m - 1
    OBVIOUS
  <2>7. g \in [0..m -> V]
    BY <2>2, <2>5, <2>6
  <2>8. g[0] = b
    BY <2>2, <2>3
  <2>9. ASSUME NEW k \in 1..m PROVE g[k] = step[<<k, g[k - 1]>>]
    <3>1. k \in 0..m /\ k - 1 \in 0..m /\ k - 1 # m
      OBVIOUS
    <3>2. g[k - 1] = f[k - 1]
      BY <3>1
    <3>3. CASE k = m
      BY <3>1, <3>2, <3>3
    <3>4. CASE k # m
      <4>1. k \in 1..m - 1
        BY <3>4
      <4>2. g[k] = f[k]
        BY <3>1, <3>4
      <4> QED BY <4>1, <4>2, <3>2, <2>2
    <3> QED BY <3>3, <3>4
  <2>10. Carries(g, m, V, b, step)
    BY <2>7, <2>8, <2>9 DEF Carries
  <2> QED BY <2>10
<1>3. S = 0..n
  <2> HIDE DEF S
  <2>1. S \in SUBSET (0..n)
    BY DEF S
  <2> QED BY <1>1, <1>2, <2>1, UpFrom
<1>4. n \in 0..n
  OBVIOUS
<1> QED BY <1>3, <1>4

(* The account of a sequence of runs, run by run.                          *)
Account == [work : Nat, attempts : Nat, runs : Nat]
Accounts(t, f) ==
    /\ f \in [0..Len(t) -> Account] /\ f[0] = Nothing
    /\ \A k \in 1..Len(t) : f[k] = Charge(f[k - 1], t[k])

LEMMA ChargeType ==
    ASSUME NEW c \in Account, NEW run \in RunRecord
    PROVE  Charge(c, run) \in Account /\ Charge(c, run).runs = c.runs + 1
<1>1. run.receipt.cost \in Amount
  BY HabitatAmounts DEF RunRecord
<1>2. run.receipt.cost.work \in Nat /\ run.receipt.cost.attempts \in Nat
  BY <1>1 DEF Amount
<1> QED BY <1>2 DEF Account, Charge

LEMMA AccountsExist ==
    ASSUME NEW t \in Seq(RunRecord)
    PROVE  \E f : Accounts(t, f)
<1>1. PICK n \in Nat : n = Len(t)
  OBVIOUS
<1> DEFINE step == [p \in (1..n) \X Account |-> Charge(p[2], t[p[1]])]
<1>2. \A k \in 1..n : t[k] \in RunRecord
  BY <1>1
<1>3. \A p \in (1..n) \X Account : Charge(p[2], t[p[1]]) \in Account
  BY <1>2, ChargeType
<1>4. step \in [(1..n) \X Account -> Account]
  BY <1>3
<1>5. Nothing \in Account
  BY DEF Nothing, Account
<1>6. PICK f : Carries(f, n, Account, Nothing, step)
  <2> HIDE DEF step
  <2> QED BY <1>4, <1>5, Carried
<1>7. f \in [0..n -> Account] /\ f[0] = Nothing /\ \A k \in 1..n : f[k] = step[<<k, f[k - 1]>>]
  BY <1>6 DEF Carries
<1>8. ASSUME NEW k \in 1..n PROVE f[k] = Charge(f[k - 1], t[k])
  <2>1. f[k - 1] \in Account
    BY <1>7
  <2> QED BY <2>1, <1>7
<1> QED BY <1>1, <1>7, <1>8 DEF Accounts

LEMMA TotalsOf ==
    ASSUME NEW t \in Seq(RunRecord), NEW f, Accounts(t, f)
    PROVE  Totals(t) = f[Len(t)]
<1>1. PICK n \in Nat : n = Len(t)
  OBVIOUS
<1> DEFINE Sums(g) == g = [k \in 0..Len(t) |-> IF k = 0 THEN Nothing ELSE Charge(g[k - 1], t[k])]
<1>2. Sums(f)
  <2>1. f = [k \in 0..n |-> f[k]]
    BY <1>1 DEF Accounts
  <2>2. \A k \in 0..n : f[k] = IF k = 0 THEN Nothing ELSE Charge(f[k - 1], t[k])
    BY <1>1 DEF Accounts
  <2> QED BY <1>1, <2>1, <2>2
<1> DEFINE total == CHOOSE g : Sums(g)
<1>3. Sums(total)
  BY <1>2
<1>4. Totals(t) = total[Len(t)]
  BY DEF Totals
<1> HIDE DEF total
<1>5. total[0] = Nothing /\ \A k \in 1..n : total[k] = Charge(total[k - 1], t[k])
  BY <1>1, <1>3
<1>6. \A k \in 0..n : total[k] = f[k]
  <2> DEFINE S == {k \in 0..n : total[k] = f[k]}
  <2>1. 0 \in S
    BY <1>5 DEF Accounts
  <2>2. \A k \in 1..n : k - 1 \in S => k \in S
    BY <1>1, <1>5 DEF Accounts
  <2>3. S \in SUBSET (0..n)
    OBVIOUS
  <2> HIDE DEF S
  <2>4. S = 0..n
    BY <2>1, <2>2, <2>3, UpFrom
  <2> QED BY <2>4 DEF S
<1> QED BY <1>1, <1>4, <1>6

LEMMA TotalsEmpty == Totals(<<>>) = Nothing
<1>1. <<>> \in Seq(RunRecord) /\ Len(<<>>) = 0
  OBVIOUS
<1>2. PICK f : Accounts(<<>>, f)
  BY <1>1, AccountsExist
<1>3. Totals(<<>>) = f[Len(<<>>)]
  BY <1>1, <1>2, TotalsOf
<1> QED BY <1>1, <1>2, <1>3 DEF Accounts

LEMMA TotalsAppend ==
    ASSUME NEW t \in Seq(RunRecord), NEW run \in RunRecord
    PROVE  Totals(Append(t, run)) = Charge(Totals(t), run)
<1> DEFINE u == Append(t, run)
<1>1. PICK n \in Nat : n = Len(t)
  OBVIOUS
<1>2. u \in Seq(RunRecord) /\ Len(u) = n + 1 /\ u[n + 1] = run /\ \A k \in 1..n : u[k] = t[k]
  BY <1>1
<1> HIDE DEF u
<1>3. PICK g : Accounts(u, g)
  BY <1>2, AccountsExist
<1> DEFINE f == [k \in 0..n |-> g[k]]
<1>4. f \in [0..n -> Account] /\ f[0] = Nothing
  BY <1>2, <1>3 DEF Accounts
<1>5. ASSUME NEW k \in 1..n PROVE f[k] = Charge(f[k - 1], t[k])
  BY <1>2, <1>3 DEF Accounts
<1>6. Accounts(t, f)
  <2> HIDE DEF f
  <2> QED BY <1>1, <1>4, <1>5 DEF Accounts
<1>7. Totals(t) = f[n] /\ Totals(u) = g[n + 1]
  <2> HIDE DEF f
  <2>1. Totals(t) = f[Len(t)]
    BY <1>6, TotalsOf
  <2>2. Totals(u) = g[Len(u)]
    BY <1>2, <1>3, TotalsOf
  <2> QED BY <1>1, <1>2, <2>1, <2>2
<1>8. g[n + 1] = Charge(g[n], run)
  BY <1>2, <1>3 DEF Accounts
<1>9. f[n] = g[n]
  BY <1>1
<1> QED BY <1>7, <1>8, <1>9 DEF u

LEMMA TotalsType ==
    ASSUME NEW t \in Seq(RunRecord)
    PROVE  Totals(t) \in Account
<1>1. PICK n \in Nat : n = Len(t)
  OBVIOUS
<1>2. PICK f : Accounts(t, f)
  BY AccountsExist
<1>3. f[n] \in Account
  BY <1>1, <1>2 DEF Accounts
<1> QED BY <1>1, <1>2, <1>3, TotalsOf

(* What activity a was given, run by run.                                  *)
Handed(g, run, a) == IF run.activity = a THEN Append(g, run.receipt.cost) ELSE g
Gifts(t, a, f) ==
    /\ f \in [0..Len(t) -> Seq(Cost)] /\ f[0] = <<>>
    /\ \A k \in 1..Len(t) : f[k] = Handed(f[k - 1], t[k], a)

LEMMA GiftsExist ==
    ASSUME NEW t \in Seq(RunRecord), NEW a
    PROVE  \E f : Gifts(t, a, f)
<1>1. PICK n \in Nat : n = Len(t)
  OBVIOUS
<1> DEFINE step == [p \in (1..n) \X Seq(Cost) |-> Handed(p[2], t[p[1]], a)]
<1>2. \A k \in 1..n : t[k] \in RunRecord
  BY <1>1
<1>3. ASSUME NEW g \in Seq(Cost), NEW run \in RunRecord PROVE Handed(g, run, a) \in Seq(Cost)
  <2>1. run.receipt.cost \in Cost
    BY DEF RunRecord
  <2> QED BY <2>1 DEF Handed
<1>4. step \in [(1..n) \X Seq(Cost) -> Seq(Cost)]
  BY <1>2, <1>3
<1>5. <<>> \in Seq(Cost)
  OBVIOUS
<1>6. PICK f : Carries(f, n, Seq(Cost), <<>>, step)
  <2> HIDE DEF step
  <2> QED BY <1>4, <1>5, Carried
<1>7. f \in [0..n -> Seq(Cost)] /\ f[0] = <<>> /\ \A k \in 1..n : f[k] = step[<<k, f[k - 1]>>]
  BY <1>6 DEF Carries
<1>8. ASSUME NEW k \in 1..n PROVE f[k] = Handed(f[k - 1], t[k], a)
  <2>1. f[k - 1] \in Seq(Cost)
    BY <1>7
  <2> QED BY <2>1, <1>7
<1> QED BY <1>1, <1>7, <1>8 DEF Gifts

LEMMA GivenOf ==
    ASSUME NEW t \in Seq(RunRecord), NEW a, NEW f, Gifts(t, a, f)
    PROVE  Given(t, a) = f[Len(t)]
<1>1. PICK n \in Nat : n = Len(t)
  OBVIOUS
<1> DEFINE Upon(g, k) ==
             IF k = 0 THEN <<>>
             ELSE IF t[k].activity = a THEN Append(g[k - 1], t[k].receipt.cost) ELSE g[k - 1]
           Hands(g) == g = [k \in 0..Len(t) |-> Upon(g, k)]
           given == CHOOSE g : Hands(g)
<1>2. Given(t, a) = given[Len(t)]
  BY DEF Given
<1>3. \A g : Upon(g, 0) = <<>> /\ \A k \in 1..n : Upon(g, k) = Handed(g[k - 1], t[k], a)
  BY DEF Handed
<1> HIDE DEF Upon
<1>4. Hands(f)
  <2>1. f = [k \in 0..n |-> f[k]]
    BY <1>1 DEF Gifts
  <2>2. \A k \in 0..n : k = 0 \/ k \in 1..n
    OBVIOUS
  <2>3. \A k \in 0..n : f[k] = Upon(f, k)
    BY <1>1, <1>3, <2>2 DEF Gifts
  <2> QED BY <1>1, <2>1, <2>3
<1>5. given[0] = <<>> /\ \A k \in 1..n : given[k] = Handed(given[k - 1], t[k], a)
  <2>1. Hands(given)
    BY <1>4
  <2> HIDE DEF given
  <2>2. \A k \in 0..n : given[k] = Upon(given, k)
    BY <1>1, <2>1
  <2>3. 0 \in 0..n /\ \A k \in 1..n : k \in 0..n
    OBVIOUS
  <2> QED BY <1>3, <2>2, <2>3
<1> HIDE DEF given
<1>6. \A k \in 0..n : given[k] = f[k]
  <2> DEFINE S == {k \in 0..n : given[k] = f[k]}
  <2>1. 0 \in S
    BY <1>5 DEF Gifts
  <2>2. \A k \in 1..n : k - 1 \in S => k \in S
    BY <1>1, <1>5 DEF Gifts
  <2>3. S \in SUBSET (0..n)
    OBVIOUS
  <2> HIDE DEF S
  <2>4. S = 0..n
    BY <2>1, <2>2, <2>3, UpFrom
  <2> QED BY <2>4 DEF S
<1> QED BY <1>1, <1>2, <1>6

(* A run gives nothing to the other activities, which ask as before.       *)
LEMMA GivenOther ==
    ASSUME NEW t \in Seq(RunRecord), NEW run \in RunRecord, NEW a, run.activity # a
    PROVE  Ask(Append(t, run), a) = Ask(t, a)
<1> DEFINE u == Append(t, run)
<1>1. PICK n \in Nat : n = Len(t)
  OBVIOUS
<1>2. u \in Seq(RunRecord) /\ Len(u) = n + 1 /\ u[n + 1] = run /\ \A k \in 1..n : u[k] = t[k]
  BY <1>1
<1> HIDE DEF u
<1>3. PICK g : Gifts(u, a, g)
  BY <1>2, GiftsExist
<1> DEFINE f == [k \in 0..n |-> g[k]]
<1>4. f \in [0..n -> Seq(Cost)] /\ f[0] = <<>>
  BY <1>2, <1>3 DEF Gifts
<1>5. ASSUME NEW k \in 1..n PROVE f[k] = Handed(f[k - 1], t[k], a)
  BY <1>2, <1>3 DEF Gifts
<1>6. Gifts(t, a, f)
  <2> HIDE DEF f
  <2> QED BY <1>1, <1>4, <1>5 DEF Gifts
<1>7. Given(t, a) = f[n] /\ Given(u, a) = g[n + 1]
  <2> HIDE DEF f
  <2>1. Given(t, a) = f[Len(t)]
    BY <1>6, GivenOf
  <2>2. Given(u, a) = g[Len(u)]
    BY <1>2, <1>3, GivenOf
  <2> QED BY <1>1, <1>2, <2>1, <2>2
<1>8. g[n + 1] = Handed(g[n], run, a)
  BY <1>2, <1>3 DEF Gifts
<1>9. Handed(g[n], run, a) = g[n]
  BY DEF Handed
<1>10. f[n] = g[n]
  BY <1>1
<1>11. Given(u, a) = Given(t, a)
  BY <1>7, <1>8, <1>9, <1>10
<1> QED BY <1>11 DEF Ask, u

-----------------------------------------------------------------------------
(* Beginnings of a sequence.                                               *)
LEMMA UptoFacts ==
    ASSUME NEW S, NEW t \in Seq(S), NEW i \in Nat, i <= Len(t)
    PROVE  /\ Upto(t, i) \in Seq(S) /\ Len(Upto(t, i)) = i
           /\ \A k \in 1..i : Upto(t, i)[k] = t[k]
           /\ Upto(t, Len(t)) = t
  BY DEF Upto

LEMMA UptoUpto ==
    ASSUME NEW S, NEW t \in Seq(S), NEW i \in Nat, NEW k \in Nat, k <= i, i <= Len(t)
    PROVE  Upto(Upto(t, i), k) = Upto(t, k)
<1>1. Upto(t, i) \in Seq(S) /\ Len(Upto(t, i)) = i /\ \A j \in 1..i : Upto(t, i)[j] = t[j]
  BY UptoFacts
<1>2. Upto(t, k) \in Seq(S) /\ Len(Upto(t, k)) = k /\ \A j \in 1..k : Upto(t, k)[j] = t[j]
  BY UptoFacts
<1> DEFINE v == Upto(t, i)
<1> HIDE DEF v
<1>3. Upto(v, k) \in Seq(S) /\ Len(Upto(v, k)) = k /\ \A j \in 1..k : Upto(v, k)[j] = v[j]
  BY <1>1, UptoFacts DEF v
<1>4. \A j \in 1..k : Upto(v, k)[j] = Upto(t, k)[j]
  BY <1>1, <1>2, <1>3 DEF v
<1> QED BY <1>2, <1>3, <1>4, SeqEqual DEF v

LEMMA UptoAppend ==
    ASSUME NEW S, NEW t \in Seq(S), NEW x \in S, NEW i \in Nat, i <= Len(t)
    PROVE  Upto(Append(t, x), i) = Upto(t, i)
<1> DEFINE u == Append(t, x)
<1>1. u \in Seq(S) /\ i <= Len(u) /\ \A j \in 1..Len(t) : u[j] = t[j]
  OBVIOUS
<1> HIDE DEF u
<1>2. Upto(t, i) \in Seq(S) /\ Len(Upto(t, i)) = i /\ \A j \in 1..i : Upto(t, i)[j] = t[j]
  BY UptoFacts
<1>3. Upto(u, i) \in Seq(S) /\ Len(Upto(u, i)) = i /\ \A j \in 1..i : Upto(u, i)[j] = u[j]
  BY <1>1, UptoFacts
<1>4. \A j \in 1..i : Upto(u, i)[j] = Upto(t, i)[j]
  BY <1>1, <1>2, <1>3
<1> QED BY <1>2, <1>3, <1>4, SeqEqual DEF u

(* A sequence is what precedes its last element, and that.                 *)
LEMMA UptoLast ==
    ASSUME NEW S, NEW t \in Seq(S), NEW n \in 1..Len(t)
    PROVE  /\ t[n] \in S /\ Upto(t, n - 1) \in Seq(S)
           /\ Upto(t, n) = Append(Upto(t, n - 1), t[n])
<1>0. PICK m \in Nat : m = Len(t)
  OBVIOUS
<1>1. Upto(t, n) \in Seq(S) /\ Len(Upto(t, n)) = n /\ \A j \in 1..n : Upto(t, n)[j] = t[j]
  BY UptoFacts
<1>2. n - 1 \in Nat /\ n - 1 <= Len(t)
  BY <1>0
<1>3. /\ Upto(t, n - 1) \in Seq(S) /\ Len(Upto(t, n - 1)) = n - 1
      /\ \A j \in 1..n - 1 : Upto(t, n - 1)[j] = t[j]
  BY <1>2, UptoFacts
<1> DEFINE v == Upto(t, n - 1)
           u == Append(v, t[n])
<1> HIDE DEF v
<1>4. t[n] \in S
  BY <1>0
<1>5. u \in Seq(S) /\ Len(u) = n /\ u[n] = t[n] /\ \A j \in 1..n - 1 : u[j] = v[j]
  BY <1>0, <1>3, <1>4 DEF v
<1> HIDE DEF u
<1>6. \A j \in 1..n : u[j] = Upto(t, n)[j]
  BY <1>1, <1>3, <1>5 DEF v
<1>7. Upto(t, n) = u
  BY <1>1, <1>5, <1>6, SeqEqual
<1> QED BY <1>3, <1>4, <1>7 DEF u, v

LEMMA BeginsAppend ==
    ASSUME NEW S, NEW t \in Seq(S), NEW j \in Seq(S), NEW x \in S, Begins(t, j)
    PROVE  Begins(t, Append(j, x))
<1>1. Len(t) \in Nat /\ Len(t) <= Len(j) /\ Len(Append(j, x)) = Len(j) + 1
  BY DEF Begins
<1>2. Upto(Append(j, x), Len(t)) = Upto(j, Len(t))
  BY <1>1, UptoAppend
<1> QED BY <1>1, <1>2 DEF Begins

LEMMA BeginsLonger ==
    ASSUME NEW S, NEW t \in Seq(S), NEW j \in Seq(S), Begins(t, j), Len(t) < Len(j)
    PROVE  Begins(Append(t, j[Len(t) + 1]), j)
<1>1. PICK n \in Nat : n = Len(t)
  OBVIOUS
<1>2. n + 1 \in 1..Len(j) /\ n + 1 - 1 = n
  BY <1>1
<1>3. Upto(j, n + 1) = Append(Upto(j, n), j[n + 1]) /\ j[n + 1] \in S
  BY <1>2, UptoLast
<1>4. t = Upto(j, n)
  BY <1>1 DEF Begins
<1>5. Len(Append(t, j[n + 1])) = n + 1
  BY <1>1, <1>3
<1> QED BY <1>1, <1>2, <1>3, <1>4, <1>5 DEF Begins

LEMMA BeginsSame ==
    ASSUME NEW S, NEW j \in Seq(S)
    PROVE  Begins(j, j) /\ Begins(<<>>, j)
<1>1. Upto(j, Len(j)) = j
  BY UptoFacts DEF Upto
<1>2. Len(<<>>) = 0 /\ Upto(j, 0) = <<>>
  BY DEF Upto
<1> QED BY <1>1, <1>2 DEF Begins
-----------------------------------------------------------------------------
(* Turns.                                                                  *)
LEMMA TurnTaken ==
    ASSUME NEW before \in Int, NEW W \in SUBSET Activity, W # {}
    PROVE  NextTurn(before, W) \in W
<1> DEFINE step(a) == (a - before - 1 + N) % N
           S == {step(a) : a \in W}
<1>1. \A a \in W : step(a) \in Nat
  BY HabitatCounts DEF Activity
<1> HIDE DEF step
<1>2. S \in SUBSET Nat /\ S # {}
  BY <1>1
<1>3. PICK m \in S : \A k \in S : m <= k
  BY <1>2, LeastNumber
<1>4. \E a \in W : \A b \in W : step(a) <= step(b)
  BY <1>3
<1> QED BY <1>4 DEF NextTurn, step

LEMMA AskingAppend ==
    ASSUME NEW t \in Seq(RunRecord), NEW run \in RunRecord
    PROVE  Asking(Append(t, run)) \union {run.activity} = Asking(t) \union {run.activity}
  BY GivenOther DEF Asking

LEMMA BeforeType ==
    ASSUME NEW t \in Seq(RunRecord)
    PROVE  Before(t) \in Activity \union {-1} /\ Before(t) \in Int
<1>1. Len(t) # 0 => t[Len(t)] \in RunRecord
  OBVIOUS
<1> QED BY <1>1, HabitatCounts DEF Before, RunRecord, Activity

LEMMA DueAsks ==
    ASSUME NEW t \in Seq(RunRecord), Asking(t) # {}
    PROVE  DueActivity(t) \in Asking(t) /\ DueActivity(t) \in Activity /\ DueManifest(t) \in Manifest
<1>1. Asking(t) \in SUBSET Activity
  BY DEF Asking
<1>2. DueActivity(t) \in Asking(t)
  BY <1>1, BeforeType, TurnTaken DEF DueActivity
<1> QED BY <1>2 DEF Asking, DueManifest

LEMMA PathAppend ==
    ASSUME NEW l, NEW t, NEW run \in RunRecord, Path(l, t), Grants(l, t, run)
    PROVE  Path(l, Append(t, run))
<1> DEFINE u == Append(t, run)
<1>1. t \in Seq(RunRecord)
  BY DEF Path
<1>2. PICK n \in Nat : n = Len(t)
  BY <1>1
<1>3. u \in Seq(RunRecord) /\ Len(u) = n + 1 /\ u[n + 1] = run /\ \A k \in 1..n : u[k] = t[k]
  BY <1>1, <1>2
<1>4. \A i \in 0..n : Upto(u, i) = Upto(t, i)
  BY <1>1, <1>2, UptoAppend
<1>5. Upto(t, n) = t
  BY <1>1, <1>2, UptoFacts
<1> HIDE DEF u
<1>6. ASSUME NEW i \in 1..n + 1 PROVE Grants(l, Upto(u, i - 1), u[i])
  <2>1. CASE i = n + 1
    BY <1>3, <1>4, <1>5, <2>1
  <2>2. CASE i # n + 1
    <3>1. i \in 1..n /\ i - 1 \in 0..n
      BY <2>2
    <3> QED BY <1>2, <1>3, <1>4, <3>1 DEF Path
  <2> QED BY <2>1, <2>2
<1> QED BY <1>3, <1>6 DEF Path, u

LEMMA PathUpto ==
    ASSUME NEW l, NEW t, Path(l, t), NEW i \in Nat, i <= Len(t)
    PROVE  Path(l, Upto(t, i))
<1>1. t \in Seq(RunRecord)
  BY DEF Path
<1>2. /\ Upto(t, i) \in Seq(RunRecord) /\ Len(Upto(t, i)) = i
      /\ \A k \in 1..i : Upto(t, i)[k] = t[k]
  BY <1>1, UptoFacts
<1>3. ASSUME NEW k \in 1..i PROVE Grants(l, Upto(Upto(t, i), k - 1), Upto(t, i)[k])
  <2>1. k - 1 \in Nat /\ k - 1 <= i /\ k \in 1..Len(t)
    BY <1>1
  <2>2. Upto(Upto(t, i), k - 1) = Upto(t, k - 1)
    BY <1>1, <2>1, UptoUpto
  <2> QED BY <1>2, <2>1, <2>2 DEF Path
<1> QED BY <1>2, <1>3 DEF Path

LEMMA OrderedAppend ==
    ASSUME NEW t \in Seq(RunRecord), NEW run \in RunRecord,
           Ordered(t), run.activity \in Asking(t)
    PROVE  Ordered(Append(t, run))
<1> DEFINE u == Append(t, run)
           a == run.activity
<1>1. PICK n \in Nat : n = Len(t)
  OBVIOUS
<1>2. u \in Seq(RunRecord) /\ Len(u) = n + 1 /\ u[n + 1] = run /\ \A k \in 1..n : u[k] = t[k]
  BY <1>1
<1>3. Asking(u) \union {a} = Asking(t)
  BY AskingAppend
<1>4. \A i \in 0..n : Upto(u, i) = Upto(t, i)
  BY <1>1, UptoAppend
<1>5. Upto(t, n) = t
  BY <1>1, UptoFacts
<1> HIDE DEF u
<1>6. ASSUME NEW i \in 1..n + 1 PROVE Asking(Upto(u, i - 1)) = Later(u, i) \union Asking(u)
  <2>1. CASE i = n + 1
    <3>1. Later(u, i) = {a}
      BY <1>2, <2>1 DEF Later
    <3> QED BY <1>3, <1>4, <1>5, <2>1, <3>1
  <2>2. CASE i # n + 1
    <3>1. i \in 1..n /\ i - 1 \in 0..n
      BY <2>2
    <3>2. Later(u, i) = Later(t, i) \union {a}
      <4>1. \A k \in i..n + 1 : k = n + 1 \/ k \in i..n
        OBVIOUS
      <4>2. n + 1 \in i..n + 1 /\ \A k \in i..n : k \in i..n + 1 /\ k \in 1..n
        BY <3>1
      <4> QED BY <1>1, <1>2, <4>1, <4>2 DEF Later
    <3>3. Asking(Upto(u, i - 1)) = Later(t, i) \union Asking(t)
      BY <1>1, <1>4, <3>1 DEF Ordered
    <3> QED BY <1>3, <3>2, <3>3
  <2> QED BY <2>1, <2>2
<1> QED BY <1>2, <1>6 DEF Ordered, u

LEMMA PathRuns ==
    ASSUME NEW l, NEW t, Path(l, t), NEW i \in Nat, i <= Len(t)
    PROVE  Totals(Upto(t, i)).runs = i
<1>1. t \in Seq(RunRecord)
  BY DEF Path
<1>2. PICK n \in Nat : n = Len(t)
  BY <1>1
<1> DEFINE S == {k \in 0..n : Totals(Upto(t, k)).runs = k}
<1>3. 0 \in S
  <2>1. Upto(t, 0) = <<>>
    BY DEF Upto
  <2> QED BY <2>1, TotalsEmpty DEF Nothing
<1>4. ASSUME NEW k \in 1..n, k - 1 \in S PROVE k \in S
  <2>1. /\ t[k] \in RunRecord /\ Upto(t, k - 1) \in Seq(RunRecord)
        /\ Upto(t, k) = Append(Upto(t, k - 1), t[k])
    BY <1>1, <1>2, UptoLast
  <2>2. Totals(Upto(t, k)) = Charge(Totals(Upto(t, k - 1)), t[k])
    BY <2>1, TotalsAppend
  <2>3. Totals(Upto(t, k)).runs = Totals(Upto(t, k - 1)).runs + 1
    BY <2>1, <2>2, TotalsType, ChargeType
  <2> QED BY <1>4, <2>3
<1>5. S = 0..n
  <2>1. S \in SUBSET (0..n)
    OBVIOUS
  <2> HIDE DEF S
  <2> QED BY <1>3, <1>4, <2>1, UpFrom
<1> QED BY <1>2, <1>5

LEMMA PathWithin ==
    ASSUME NEW l \in Limits, NEW t, Path(l, t)
    PROVE  Len(t) <= l.runs
<1>1. t \in Seq(RunRecord) /\ l.runs \in Nat
  BY HabitatAmounts DEF Path
<1>2. PICK n \in Nat : n = Len(t)
  BY <1>1
<1>3. CASE n = 0
  BY <1>1, <1>2, <1>3
<1>4. CASE n # 0
  <2>1. n \in 1..Len(t) /\ n - 1 \in Nat /\ n - 1 <= Len(t)
    BY <1>2, <1>4
  <2>2. Excess(l, Upto(t, n - 1)) = {}
    BY <2>1 DEF Path, Grants
  <2>3. ~ (Totals(Upto(t, n - 1)).runs + 1 > l.runs)
    BY <2>2 DEF Excess, Exceeded
  <2>4. Totals(Upto(t, n - 1)).runs = n - 1
    BY <2>1, PathRuns
  <2> QED BY <1>1, <1>2, <2>3, <2>4
<1> QED BY <1>3, <1>4

LEMMA RefusedType ==
    ASSUME NEW l, NEW t \in Seq(RunRecord), Asking(t) # {}
    PROVE  Refused(l, t) \in Refusal /\ Refused(l, t) # None
<1>1. DueActivity(t) \in Activity /\ DueManifest(t) \in Manifest
  BY DueAsks
<1>2. Excess(l, t) \in SUBSET {"attempts", "work", "runs"}
  BY DEF Excess, Exceeded
<1>3. Refused(l, t) \in Refusal
  BY <1>1, <1>2 DEF Refused, Refusal
<1> QED BY <1>3, HabitatNone

(* The parser derives the turns from the runs and outcomes alone and comes *)
(* to the same: who had a run later or was refused in the end is who was   *)
(* waiting.                                                                *)
LEMMA ConclusionAccepted ==
    ASSUME NEW l \in Limits, NEW t, Path(l, t), Ordered(t), Blocked(l, t)
    PROVE  Accepts(Conclusion(l, t))
<1> DEFINE r == Conclusion(l, t)
           exhausted == {a \in Activity : r.outcome[a] = "exhausted"}
           Remaining(i) == {r.runs[j].activity : j \in i..Len(r.runs)}
           before(i) == IF i = 1 THEN -1 ELSE r.runs[i - 1].activity
<1>1. /\ r.limits = l /\ r.runs = t /\ r.charged = Totals(t)
      /\ r.refused = IF Asking(t) = {} THEN None ELSE Refused(l, t)
  BY DEF Conclusion
<1>2. exhausted = Asking(t)
  BY DEF Conclusion, Asking
<1>3. t \in Seq(RunRecord)
  BY DEF Path
<1>4. PICK n \in Nat : n = Len(t)
  BY <1>3
<1>5. \A i \in 1..n : Remaining(i) = Later(t, i)
  BY <1>1 DEF Later
<1>6. ASSUME NEW i \in 1..n + 1 PROVE before(i) = Before(Upto(t, i - 1))
  <2>1. i - 1 \in Nat /\ i - 1 <= Len(t)
    BY <1>4
  <2>2. Len(Upto(t, i - 1)) = i - 1 /\ \A k \in 1..i - 1 : Upto(t, i - 1)[k] = t[k]
    BY <1>3, <2>1, UptoFacts
  <2> QED BY <1>1, <2>1, <2>2 DEF Before
<1> HIDE DEF r, exhausted, Remaining, before
<1>7. ASSUME NEW i \in 1..n
      PROVE  /\ Exceeded(l, Totals(SubSeq(t, 1, i - 1)), Ceiling[t[i].manifest]) = {}
             /\ t[i].receipt.cost.attempts <= Ceiling[t[i].manifest].attempts
             /\ t[i].activity = NextTurn(before(i), Remaining(i) \union exhausted)
  <2>1. Grants(l, Upto(t, i - 1), t[i])
    BY <1>4 DEF Path
  <2>2. Asking(Upto(t, i - 1)) = Remaining(i) \union exhausted
    BY <1>2, <1>4, <1>5 DEF Ordered
  <2>3. before(i) = Before(Upto(t, i - 1))
    BY <1>6
  <2>4. t[i].activity = NextTurn(before(i), Remaining(i) \union exhausted)
    BY <2>1, <2>2, <2>3 DEF Grants, DueActivity
  <2> QED BY <2>1, <2>4 DEF Grants, Excess, Upto
<1>8. exhausted = {} <=> r.refused = None
  BY <1>1, <1>2, <1>3, RefusedType
<1>9. exhausted # {} =>
          /\ r.refused.reasons # {}
          /\ r.refused.reasons = Exceeded(l, r.charged, Ceiling[r.refused.manifest])
          /\ r.refused.activity = NextTurn(before(n + 1), exhausted)
  <2>1. Upto(t, n) = t /\ n + 1 - 1 = n /\ n + 1 \in 1..n + 1
    BY <1>3, <1>4, UptoFacts
  <2>2. before(n + 1) = Before(t)
    BY <1>6, <2>1
  <2> QED BY <1>1, <1>2, <2>2 DEF Refused, Excess, Blocked, DueActivity
<1>10. Len(t) <= l.runs
  BY PathWithin
<1> QED BY <1>1, <1>4, <1>7, <1>8, <1>9, <1>10 DEF Accepts, exhausted, Remaining, before, r

-----------------------------------------------------------------------------
LEMMA HabitatInitInv == HabitatInit => HabitatInv
<1> SUFFICES ASSUME HabitatInit PROVE HabitatInv
  OBVIOUS
<1>1. Nothing \in [work : Nat, attempts : Nat, runs : Nat]
  BY DEF Nothing
<1>2. HabitatTypeOK
  BY <1>1, HabitatCounts DEF HabitatInit, HabitatTypeOK
<1>3. JournalInv
  <2>1. 1..Len(<<>>) = {} /\ <<>> \in Seq(RunRecord)
    OBVIOUS
  <2> QED BY <2>1 DEF HabitatInit, JournalInv, Path
<1>4. RecordInv /\ MemoryInv
  BY DEF HabitatInit, RecordInv, MemoryInv, Memory, Fresh
<1> QED BY <1>2, <1>3, <1>4 DEF HabitatInv

(* What one invocation does leaves the memory of the others right: the     *)
(* header is set once and the journal only grows.                          *)
LEMMA OthersKept ==
    ASSUME HabitatInv, NEW h \in Host, Elsewhere(h),
           header' = header \/ header = None,
           journal' = journal \/ \E x \in RunRecord : journal' = Append(journal, x),
           NEW g \in Host \ {h}
    PROVE  Memory(g)'
<1>1. Memory(g)
  BY DEF HabitatInv, MemoryInv
<1>2. journal \in Seq(RunRecord) /\ turns[g] \in Seq(RunRecord) /\ journaled[g] \in Seq(RunRecord)
  BY DEF HabitatInv, HabitatTypeOK
<1>3. ASSUME NEW t \in Seq(RunRecord), Begins(t, journal) PROVE Begins(t, journal')
  BY <1>2, <1>3, BeginsAppend
<1>4. CASE stage[g] \in {"idle", "header", "read"}
  BY <1>1, <1>4 DEF Elsewhere, Memory, Fresh
<1>5. CASE stage[g] \notin {"idle", "header", "read"}
  <2>1. stage[g] \in {"pump", "append"}
    BY <1>5 DEF HabitatInv, HabitatTypeOK
  <2>2. header' = header /\ Booked(g)
    BY <1>1, <2>1 DEF Memory, Booked
  <2>3. Begins(journaled'[g], journal')
    BY <1>2, <1>3, <2>2 DEF Booked, Elsewhere
  <2>4. Booked(g)'
    BY <2>2, <2>3 DEF Booked, Elsewhere
  <2>5. CASE stage[g] = "pump"
    <3>1. Begins(turns[g], journal')
      BY <1>1, <1>2, <1>3, <2>5 DEF Memory
    <3>2. (Unrefused(g) \/ Denied(g))'
      BY <1>1, <2>2, <2>5 DEF Memory, Unrefused, Denied, Elsewhere
    <3> QED BY <2>4, <2>5, <3>1, <3>2 DEF Memory, Elsewhere
  <2>6. CASE stage[g] = "append"
    <3> DEFINE t == Upto(turns[g], Len(turns[g]) - 1)
    <3>1. turns[g] # <<>> /\ Unrefused(g) /\ Begins(t, journal)
      BY <1>1, <2>6 DEF Memory
    <3>2. Len(turns[g]) \in 1..Len(turns[g])
      BY <1>2, <3>1
    <3>3. t \in Seq(RunRecord)
      BY <1>2, <3>2, UptoLast
    <3>4. Begins(t, journal')
      BY <1>3, <3>1, <3>3
    <3> QED BY <2>4, <2>6, <3>1, <3>4 DEF Memory, Elsewhere, Unrefused
  <2> QED BY <2>1, <2>5, <2>6
<1> QED BY <1>4, <1>5

LEMMA HabitatEnd ==
    ASSUME HabitatTypeOK, NEW h \in Host, End(h)
    PROVE  MemoryTypes' /\ Elsewhere(h) /\ Memory(h)'
<1>1. /\ stage' = [stage EXCEPT ![h] = "idle"] /\ limits' = [limits EXCEPT ![h] = None]
      /\ journaled' = [journaled EXCEPT ![h] = <<>>] /\ turns' = [turns EXCEPT ![h] = <<>>]
      /\ charged' = [charged EXCEPT ![h] = Nothing] /\ last' = [last EXCEPT ![h] = -1]
      /\ refused' = [refused EXCEPT ![h] = None] /\ ended' = [ended EXCEPT ![h] = {}]
  BY DEF End, Goto
<1>2. <<>> \in Seq(RunRecord) /\ Nothing \in [work : Nat, attempts : Nat, runs : Nat]
  BY DEF Nothing
<1>3. MemoryTypes'
  BY <1>1, <1>2 DEF HabitatTypeOK, MemoryTypes
<1>4. Elsewhere(h)
  BY <1>1 DEF HabitatTypeOK, Elsewhere
<1>5. Memory(h)'
  BY <1>1 DEF HabitatTypeOK, Memory, Fresh
<1> QED BY <1>3, <1>4, <1>5

(* An invocation that ends without a record leaves the rest as it is.      *)
LEMMA EndKeeps ==
    ASSUME HabitatInv, NEW h \in Host, End(h), UNCHANGED <<header, journal, records>>,
           faults' \in 0..MaxFaults
    PROVE  HabitatInv'
<1>1. MemoryTypes' /\ Elsewhere(h) /\ Memory(h)'
  BY HabitatEnd DEF HabitatInv
<1>2. HabitatTypeOK'
  BY <1>1 DEF HabitatInv, HabitatTypeOK, MemoryTypes
<1>3. MemoryInv'
  BY <1>1, OthersKept DEF MemoryInv
<1>4. JournalInv' /\ RecordInv'
  BY DEF HabitatInv, JournalInv, RecordInv
<1> QED BY <1>2, <1>3, <1>4 DEF HabitatInv

LEMMA OpenHabitat ==
    ASSUME HabitatInv, NEW h \in Host, NEW l \in Limits, Open(h, l)
    PROVE  HabitatInv'
<1>1. /\ stage[h] = "idle" /\ header \in {None, l}
      /\ limits' = [limits EXCEPT ![h] = l]
      /\ stage' = [stage EXCEPT ![h] = IF header = None THEN "header" ELSE "read"]
      /\ UNCHANGED <<header, journal, store, journaled, account, faults, records>>
  BY DEF Open, Goto, onDisk
<1>2. HabitatTypeOK'
  BY <1>1 DEF HabitatInv, HabitatTypeOK, account
<1>3. Elsewhere(h)
  BY <1>1 DEF HabitatInv, HabitatTypeOK, Elsewhere, account
<1>4. Memory(h)'
  BY <1>1 DEF HabitatInv, HabitatTypeOK, MemoryInv, Memory, Fresh, account
<1>5. MemoryInv'
  BY <1>1, <1>3, <1>4, OthersKept DEF MemoryInv
<1>6. JournalInv' /\ RecordInv'
  BY <1>1 DEF HabitatInv, JournalInv, RecordInv
<1> QED BY <1>2, <1>5, <1>6 DEF HabitatInv

LEMMA WriteHeaderHabitat ==
    ASSUME HabitatInv, NEW h \in Host, WriteHeader(h)
    PROVE  HabitatInv'
<1>1. stage[h] = "header" /\ UNCHANGED <<journal, store, faults, records>>
  BY DEF WriteHeader
<1>2. CASE header \notin {None, limits[h]}
  <2>1. End(h) /\ UNCHANGED header
    BY <1>2 DEF WriteHeader
  <2> QED BY <1>1, <2>1, EndKeeps DEF HabitatInv, HabitatTypeOK
<1>3. CASE header \in {None, limits[h]}
  <2>1. /\ header' = limits[h] /\ stage' = [stage EXCEPT ![h] = "read"]
        /\ UNCHANGED <<limits, journaled, account>>
    BY <1>3 DEF WriteHeader, Goto
  <2>2. limits[h] \in Limits /\ limits[h] # None
    BY <1>1, HabitatNone DEF HabitatInv, MemoryInv, Memory
  <2>3. HabitatTypeOK'
    BY <1>1, <2>1, <2>2 DEF HabitatInv, HabitatTypeOK, account
  <2>4. Elsewhere(h)
    BY <2>1 DEF HabitatInv, HabitatTypeOK, Elsewhere, account
  <2>5. Memory(h)'
    BY <1>1, <2>1, <2>2 DEF HabitatInv, HabitatTypeOK, MemoryInv, Memory, Fresh, account
  <2>6. header' = header \/ header = None
    BY <1>3, <2>1
  <2>7. MemoryInv'
    BY <1>1, <2>4, <2>5, <2>6, OthersKept DEF MemoryInv
  <2>8. header = None => journal = <<>> /\ records = {}
    BY DEF HabitatInv, JournalInv, RecordInv
  <2>9. JournalInv'
    <3>1. 1..Len(<<>>) = {} /\ <<>> \in Seq(RunRecord)
      OBVIOUS
    <3> QED BY <1>1, <2>1, <2>2, <2>6, <2>8, <3>1 DEF HabitatInv, JournalInv, Path
  <2>10. RecordInv'
    BY <1>1, <2>6, <2>8 DEF HabitatInv, RecordInv
  <2> QED BY <2>3, <2>7, <2>9, <2>10 DEF HabitatInv
<1> QED BY <1>2, <1>3

LEMMA ReadEntriesHabitat ==
    ASSUME HabitatInv, NEW h \in Host, ReadEntries(h)
    PROVE  HabitatInv'
<1>1. /\ stage[h] = "read" /\ journaled' = [journaled EXCEPT ![h] = journal]
      /\ stage' = [stage EXCEPT ![h] = "pump"]
      /\ UNCHANGED <<header, journal, store, limits, account, faults, records>>
  BY DEF ReadEntries, Goto, onDisk
<1>2. HabitatTypeOK'
  BY <1>1 DEF HabitatInv, HabitatTypeOK, account
<1>3. Elsewhere(h)
  BY <1>1 DEF HabitatInv, HabitatTypeOK, Elsewhere, account
<1>4. Fresh(h) /\ limits[h] = header /\ header # None
  BY <1>1 DEF HabitatInv, MemoryInv, Memory
<1>5. Memory(h)'
  <2>1. /\ stage'[h] = "pump" /\ limits'[h] = header /\ journaled'[h] = journal /\ turns'[h] = <<>>
        /\ charged'[h] = Nothing /\ last'[h] = -1 /\ refused'[h] = None /\ ended'[h] = {}
    BY <1>1, <1>4 DEF HabitatInv, HabitatTypeOK, Fresh, account
  <2>2. 1..Len(<<>>) = {} /\ Len(<<>>) = 0 /\ <<>> \in Seq(RunRecord)
    OBVIOUS
  <2>3. Path(header, <<>>) /\ Ordered(<<>>) /\ Totals(<<>>) = Nothing /\ Before(<<>>) = -1
    BY <2>2, TotalsEmpty DEF Path, Ordered, Before
  <2>4. Begins(journal, journal) /\ Begins(<<>>, journal)
    BY BeginsSame DEF HabitatInv, HabitatTypeOK
  <2>5. Booked(h)' /\ Unrefused(h)' /\ Begins(turns[h], journal)'
    BY <1>1, <1>4, <2>1, <2>3, <2>4 DEF Booked, Unrefused
  <2> QED BY <2>1, <2>5 DEF Memory
<1>6. MemoryInv'
  BY <1>1, <1>3, <1>5, OthersKept DEF MemoryInv
<1>7. JournalInv' /\ RecordInv'
  BY <1>1 DEF HabitatInv, JournalInv, RecordInv
<1> QED BY <1>2, <1>6, <1>7 DEF HabitatInv

(* Whoever is granted or refused a run goes by its own runs.               *)
LEMMA TurnIsDue ==
    ASSUME HabitatInv, NEW h \in Host, Granting(h), Unrefused(h)
    PROVE  /\ Asking(turns[h]) # {} /\ limits[h] = header /\ header # None
           /\ Turn(h) = DueActivity(turns[h]) /\ Wanted(h) = DueManifest(turns[h])
           /\ Reasons(h) = Excess(header, turns[h])
           /\ Turn(h) \in Asking(turns[h]) /\ Turn(h) \in Activity /\ Wanted(h) \in Manifest
<1>1. Waiting(h) = Asking(turns[h])
  BY DEF Unrefused, Waiting, Asking
<1>2. stage[h] = "pump" /\ Waiting(h) # {}
  BY DEF Granting, Pumping
<1>3. turns[h] \in Seq(RunRecord) /\ limits[h] = header /\ header # None /\ charged[h] = Totals(turns[h])
  BY <1>2 DEF HabitatInv, HabitatTypeOK, MemoryInv, Memory, Booked
<1>4. Turn(h) = DueActivity(turns[h])
  BY <1>1 DEF Turn, DueActivity, Unrefused
<1>5. Wanted(h) = DueManifest(turns[h])
  BY <1>4 DEF Wanted, DueManifest
<1>6. Reasons(h) = Excess(header, turns[h])
  BY <1>3, <1>5 DEF Reasons, Excess
<1> QED BY <1>1, <1>2, <1>3, <1>4, <1>5, <1>6, DueAsks

LEMMA FitsUnrefused ==
    ASSUME HabitatInv, NEW h \in Host, Granting(h), refused[h] = None
    PROVE  Unrefused(h)
<1>1. turns[h] \in Seq(RunRecord) /\ (Unrefused(h) \/ Denied(h))
  BY DEF HabitatInv, HabitatTypeOK, MemoryInv, Memory, Granting, Pumping
<1> QED BY <1>1, RefusedType DEF Denied

LEMMA RefuseHabitat ==
    ASSUME HabitatInv, NEW h \in Host, Refuse(h)
    PROVE  HabitatInv'
<1> DEFINE t == turns[h]
<1>1. /\ Granting(h) /\ ~ Fits(h)
      /\ refused' = [refused EXCEPT ![h] = IF @ = None
            THEN [activity |-> Turn(h), manifest |-> Wanted(h), reasons |-> Reasons(h)] ELSE @]
      /\ ended' = [ended EXCEPT ![h] = @ \union {Turn(h)}]
      /\ last' = [last EXCEPT ![h] = Turn(h)]
      /\ UNCHANGED <<header, journal, store, stage, limits, journaled, turns, charged, faults, records>>
  BY DEF Refuse, onDisk
<1>2. stage[h] = "pump" /\ Waiting(h) # {} /\ t \in Seq(RunRecord) /\ Memory(h) /\ HabitatTypeOK
  BY <1>1 DEF Granting, Pumping, HabitatInv, HabitatTypeOK, MemoryInv
<1>3. Turn(h) \in Waiting(h)
  <2>1. last[h] \in Int /\ Waiting(h) \in SUBSET Activity
    BY <1>2, HabitatCounts DEF HabitatTypeOK, Activity, Waiting
  <2> QED BY <1>2, <2>1, TurnTaken DEF Turn
<1>4. Turn(h) \in Asking(t) /\ Turn(h) \in Activity
  BY <1>3 DEF Waiting, Asking
<1>5. refused'[h] = Refused(header, t) /\ Asking(t) # {} /\ Excess(header, t) # {}
      /\ ended[h] \subseteq Asking(t)
  <2>1. CASE Denied(h)
    BY <1>1, <1>2, <2>1, RefusedType DEF Denied, HabitatTypeOK
  <2>2. CASE Unrefused(h)
    <3>1. /\ Asking(t) # {} /\ Turn(h) = DueActivity(t) /\ Wanted(h) = DueManifest(t)
          /\ Reasons(h) = Excess(header, t)
      BY <1>1, <2>2, TurnIsDue
    <3> QED BY <1>1, <1>2, <2>2, <3>1 DEF Unrefused, Refused, Fits, HabitatTypeOK
  <2> QED BY <1>2, <2>1, <2>2 DEF Memory
<1>6. ended'[h] = ended[h] \union {Turn(h)}
  BY <1>1, <1>2 DEF HabitatTypeOK
<1>7. Denied(h)'
  BY <1>1, <1>4, <1>5, <1>6 DEF Denied
<1>8. Memory(h)'
  BY <1>1, <1>2, <1>7 DEF Memory, Booked
<1>9. HabitatTypeOK'
  <2>1. refused'[h] \in Refusal
    BY <1>2, <1>5, RefusedType
  <2>2. refused' \in [Host -> Refusal \union {None}]
    BY <1>1, <1>2, <2>1 DEF HabitatTypeOK
  <2>3. ended' \in [Host -> SUBSET Activity]
    BY <1>1, <1>2, <1>4 DEF HabitatTypeOK
  <2> QED BY <1>1, <1>2, <1>4, <2>2, <2>3 DEF HabitatTypeOK
<1>10. Elsewhere(h)
  BY <1>1, <1>2 DEF HabitatTypeOK, Elsewhere
<1>11. MemoryInv'
  BY <1>1, <1>8, <1>10, OthersKept DEF MemoryInv
<1>12. JournalInv' /\ RecordInv'
  BY <1>1 DEF HabitatInv, JournalInv, RecordInv
<1> QED BY <1>9, <1>11, <1>12 DEF HabitatInv

(* A granted run, executed or served, extends the path.                    *)
LEMMA BookKeeps ==
    ASSUME HabitatInv, NEW h \in Host, Granting(h), Fits(h), NEW run \in RunRecord, Book(h, run),
           run.activity = Turn(h), run.manifest = Wanted(h),
           run.receipt.cost.attempts <= Ceiling[run.manifest].attempts,
           UNCHANGED <<header, journal, records, faults>>,
           \/ stage' = [stage EXCEPT ![h] = "append"]
           \/ UNCHANGED stage /\ Begins(Append(turns[h], run), journal)
    PROVE  HabitatInv'
<1> DEFINE t == turns[h]
           u == Append(t, run)
<1>1. /\ turns' = [turns EXCEPT ![h] = u] /\ charged' = [charged EXCEPT ![h] = Charge(@, run)]
      /\ last' = [last EXCEPT ![h] = run.activity]
      /\ UNCHANGED <<limits, journaled, refused, ended>>
  BY DEF Book
<1>2. stage[h] = "pump" /\ t \in Seq(RunRecord) /\ Memory(h) /\ HabitatTypeOK
  BY DEF Granting, Pumping, HabitatInv, HabitatTypeOK, MemoryInv
<1>3. Unrefused(h) /\ Booked(h) /\ Begins(t, journal)
  BY <1>2, FitsUnrefused DEF Fits, Memory
<1>4. Grants(header, t, run) /\ run.activity \in Asking(t)
  BY <1>3, TurnIsDue DEF Grants, Fits
<1>5. Path(header, u)
  BY <1>3, <1>4, PathAppend DEF Booked
<1>6. Ordered(u)
  BY <1>2, <1>3, <1>4, OrderedAppend DEF Booked
<1>7. Charge(charged[h], run) = Totals(u) /\ Charge(charged[h], run) \in Account
  BY <1>2, <1>3, TotalsAppend, TotalsType, ChargeType DEF Booked
<1>8. /\ u \in Seq(RunRecord) /\ u # <<>> /\ Before(u) = run.activity
      /\ Upto(u, Len(u) - 1) = t
  <2>1. PICK n \in Nat : n = Len(t)
    BY <1>2
  <2>2. u \in Seq(RunRecord) /\ Len(u) = n + 1 /\ u[n + 1] = run
    BY <1>2, <2>1
  <2>3. Upto(u, n) = Upto(t, n) /\ Upto(t, n) = t
    BY <1>2, <2>1, UptoAppend, UptoFacts
  <2> HIDE DEF u
  <2> QED BY <2>2, <2>3 DEF Before
<1> HIDE DEF u
<1>9. /\ turns'[h] = u /\ charged'[h] = Totals(u) /\ last'[h] = run.activity
      /\ limits'[h] = limits[h] /\ journaled'[h] = journaled[h]
      /\ refused'[h] = refused[h] /\ ended'[h] = ended[h]
  BY <1>1, <1>2, <1>7 DEF HabitatTypeOK
<1>10. Booked(h)' /\ Unrefused(h)'
  BY <1>3, <1>5, <1>6, <1>8, <1>9 DEF Booked, Unrefused
<1>11. Memory(h)'
  <2>1. CASE stage' = [stage EXCEPT ![h] = "append"]
    <3>1. stage'[h] = "append"
      BY <1>2, <2>1 DEF HabitatTypeOK
    <3> QED BY <1>3, <1>8, <1>9, <1>10, <3>1 DEF Memory
  <2>2. CASE UNCHANGED stage /\ Begins(u, journal)
    BY <1>2, <1>9, <1>10, <2>2 DEF Memory
  <2> QED BY <2>1, <2>2 DEF u
<1>12. HabitatTypeOK'
  <2>1. turns' \in [Host -> Seq(RunRecord)] /\ charged' \in [Host -> [work : Nat, attempts : Nat, runs : Nat]]
    BY <1>1, <1>2, <1>7, <1>8 DEF HabitatTypeOK, Account
  <2>2. last' \in [Host -> Activity \union {-1}]
    BY <1>1, <1>2 DEF HabitatTypeOK, RunRecord
  <2>3. stage' \in [Host -> {"idle", "header", "read", "pump", "append"}]
    BY <1>2 DEF HabitatTypeOK
  <2> QED BY <1>1, <1>2, <2>1, <2>2, <2>3 DEF HabitatTypeOK
<1>13. Elsewhere(h)
  BY <1>1, <1>2 DEF HabitatTypeOK, Elsewhere
<1>14. MemoryInv'
  BY <1>11, <1>13, OthersKept DEF MemoryInv
<1>15. JournalInv' /\ RecordInv'
  BY DEF HabitatInv, JournalInv, RecordInv
<1> QED BY <1>12, <1>14, <1>15 DEF HabitatInv

LEMMA ExecuteHabitat ==
    ASSUME HabitatInv, NEW h \in Host, Execute(h)
    PROVE  HabitatInv'
<1>1. PICK c \in Costs(Wanted(h)) : Book(h, Run(h, c))
  BY DEF Execute
<1>2. /\ Granting(h) /\ Fits(h) /\ UNCHANGED <<header, journal, records, faults>>
      /\ stage' = [stage EXCEPT ![h] = "append"]
  BY DEF Execute, Goto
<1>3. Turn(h) \in Activity /\ Wanted(h) \in Manifest
  BY <1>2, FitsUnrefused, TurnIsDue DEF Fits
<1>4. c \in Cost /\ c.attempts <= Ceiling[Wanted(h)].attempts
  BY <1>1 DEF Costs
<1>5. Given(turns[h], Turn(h)) \in Seq(Cost)
  <2>1. turns[h] \in Seq(RunRecord)
    BY DEF HabitatInv, HabitatTypeOK
  <2>2. PICK n \in Nat : n = Len(turns[h])
    BY <2>1
  <2>3. PICK f : Gifts(turns[h], Turn(h), f)
    BY <2>1, GiftsExist
  <2>4. f[n] \in Seq(Cost)
    BY <2>2, <2>3 DEF Gifts
  <2> QED BY <2>1, <2>2, <2>3, <2>4, GivenOf
<1>6. Run(h, c) \in RunRecord
  BY <1>3, <1>4, <1>5 DEF Run, Receipt, RunRecord
<1>7. /\ Run(h, c).activity = Turn(h) /\ Run(h, c).manifest = Wanted(h)
      /\ Run(h, c).receipt.cost.attempts <= Ceiling[Run(h, c).manifest].attempts
  BY <1>4 DEF Run, Receipt
<1> QED BY <1>1, <1>2, <1>6, <1>7, BookKeeps

LEMMA ServeHabitat ==
    ASSUME HabitatInv, NEW h \in Host, Serve(h)
    PROVE  HabitatInv'
<1> DEFINE t == turns[h]
           k == Len(t) + 1
           entry == journaled[h][k]
<1>1. /\ Granting(h) /\ Fits(h) /\ k <= Len(journaled[h])
      /\ UNCHANGED <<header, journal, store, faults, records>>
  BY DEF Serve, Position, onDisk
<1>2. CASE End(h)
  BY <1>1, <1>2, EndKeeps DEF HabitatInv, HabitatTypeOK
<1>3. CASE ~ End(h)
  <2>1. /\ entry.activity = Turn(h) /\ entry.manifest = Wanted(h)
        /\ Book(h, entry) /\ UNCHANGED stage
    BY <1>3 DEF Serve, Position
  <2>2. /\ Memory(h) /\ stage[h] = "pump" /\ t \in Seq(RunRecord)
        /\ journal \in Seq(RunRecord) /\ journaled[h] \in Seq(RunRecord)
    BY <1>1 DEF Granting, Pumping, HabitatInv, HabitatTypeOK, MemoryInv
  <2>3. Begins(journaled[h], journal) /\ Begins(t, journal) /\ Path(header, journal)
    BY <2>2 DEF Memory, Booked, HabitatInv, JournalInv
  <2>4. entry = journal[k] /\ Len(t) < Len(journal) /\ k \in 1..Len(journal)
    <3>1. PICK n \in Nat : n = Len(journaled[h])
      BY <2>2
    <3>2. n <= Len(journal) /\ journaled[h] = Upto(journal, n)
      BY <2>3, <3>1 DEF Begins
    <3>3. \A i \in 1..n : Upto(journal, n)[i] = journal[i]
      BY <2>2, <3>1, <3>2, UptoFacts
    <3>4. k \in 1..n
      BY <1>1, <2>2, <3>1
    <3>5. entry = journal[k]
      BY <3>2, <3>3, <3>4
    <3> QED BY <2>2, <3>2, <3>4, <3>5
  <2>5. Begins(Append(t, entry), journal)
    BY <2>2, <2>3, <2>4, BeginsLonger
  <2>6. entry \in RunRecord /\ entry.receipt.cost.attempts <= Ceiling[entry.manifest].attempts
    BY <2>2, <2>3, <2>4 DEF Path, Grants
  <2> QED BY <1>1, <2>1, <2>5, <2>6, BookKeeps
<1> QED BY <1>2, <1>3

(* The journal holds what was to be appended, which was granted after it.  *)
LEMMA AppendKeeps ==
    ASSUME HabitatInv, NEW h \in Host, stage[h] = "append",
           stage' = [stage EXCEPT ![h] = "pump"],
           UNCHANGED <<header, limits, journaled, account, faults, records>>,
           Booked(h), Unrefused(h), Begins(turns[h], journal'),
           \/ journal' = journal
           \/ /\ \E x \in RunRecord : journal' = Append(journal, x) /\ Grants(header, journal, x)
              /\ journal' = turns[h]
    PROVE  HabitatInv'
<1>1. journal \in Seq(RunRecord) /\ journaled[h] \in Seq(RunRecord)
  BY DEF HabitatInv, HabitatTypeOK
<1>2. journal' \in Seq(RunRecord) /\ Begins(journaled[h], journal')
  <2>1. Begins(journaled[h], journal)
    BY DEF Booked
  <2>2. CASE journal' = journal
    BY <1>1, <2>1, <2>2
  <2>3. ASSUME NEW x \in RunRecord, journal' = Append(journal, x)
        PROVE  journal' \in Seq(RunRecord) /\ Begins(journaled[h], journal')
    <3>1. Begins(journaled[h], Append(journal, x))
      BY <1>1, <2>1, BeginsAppend
    <3> QED BY <1>1, <2>3, <3>1
  <2> QED BY <2>2, <2>3
<1>3. HabitatTypeOK'
  BY <1>2 DEF HabitatInv, HabitatTypeOK, account
<1>4. Elsewhere(h)
  BY DEF HabitatInv, HabitatTypeOK, Elsewhere, account
<1>5. Memory(h)'
  BY <1>2 DEF HabitatInv, HabitatTypeOK, Memory, Booked, Unrefused, account
<1>6. MemoryInv'
  BY <1>4, <1>5, OthersKept DEF MemoryInv
<1>7. JournalInv'
  BY DEF HabitatInv, JournalInv, Booked
<1>8. RecordInv'
  BY DEF HabitatInv, RecordInv, Grants, Blocked
<1> QED BY <1>3, <1>6, <1>7, <1>8 DEF HabitatInv

(* Where nothing more is granted the journal does not grow.                *)
LEMMA AppendEntryHabitat ==
    ASSUME HabitatInv, NEW h \in Host, AppendEntry(h)
    PROVE  HabitatInv'
<1> DEFINE t == turns[h]
           n == Len(t)
           v == Upto(t, n - 1)
<1>1. stage[h] = "append" /\ UNCHANGED <<header, store, faults, records>>
  BY DEF AppendEntry
<1>2. CASE n <= Len(journal) /\ journal[n] # t[n]
  <2>1. End(h) /\ UNCHANGED journal
    BY <1>2 DEF AppendEntry
  <2> QED BY <1>1, <2>1, EndKeeps DEF HabitatInv, HabitatTypeOK
<1>3. CASE ~ (n <= Len(journal) /\ journal[n] # t[n])
  <2>1. /\ journal' = IF n <= Len(journal) THEN journal ELSE Append(journal, t[n])
        /\ stage' = [stage EXCEPT ![h] = "pump"] /\ UNCHANGED <<limits, journaled, account>>
    BY <1>3 DEF AppendEntry, Goto
  <2>2. /\ Memory(h) /\ t \in Seq(RunRecord) /\ journal \in Seq(RunRecord)
        /\ journaled[h] \in Seq(RunRecord)
    BY DEF HabitatInv, HabitatTypeOK, MemoryInv
  <2>3. Booked(h) /\ t # <<>> /\ Unrefused(h) /\ Begins(v, journal)
    BY <1>1, <2>2 DEF Memory
  <2>4. PICK m \in Nat : m = n
    BY <2>2
  <2>5. m \in 1..n /\ n \in 1..n
    BY <2>2, <2>3, <2>4
  <2>6. t[n] \in RunRecord /\ v \in Seq(RunRecord) /\ Upto(t, n) = Append(v, t[n]) /\ Upto(t, n) = t
    <3>1. t[n] \in RunRecord /\ v \in Seq(RunRecord) /\ Upto(t, n) = Append(v, t[n])
      BY <2>2, <2>5, UptoLast
    <3>2. Upto(t, n) = t
      BY <2>2, <2>4, UptoFacts
    <3> QED BY <3>1, <3>2
  <2>7. Len(v) = m - 1 /\ Len(v) <= Len(journal) /\ v = Upto(journal, Len(v))
    <3>1. m - 1 \in Nat /\ m - 1 <= Len(t)
      BY <2>4, <2>5
    <3> QED BY <2>2, <2>3, <2>4, <3>1, UptoFacts DEF Begins
  <2> HIDE DEF v
  <2>8. CASE n <= Len(journal)
    <3>1. journal' = journal /\ journal[m] = t[n] /\ Len(v) < Len(journal) /\ Len(v) + 1 = m
      BY <1>3, <2>1, <2>2, <2>4, <2>7, <2>8
    <3>2. Begins(Append(v, journal[Len(v) + 1]), journal)
      BY <2>2, <2>3, <2>6, <3>1, BeginsLonger
    <3>3. Begins(t, journal')
      BY <2>6, <3>1, <3>2
    <3> QED BY <3>1, <3>3, <1>1, <2>1, <2>2, <2>3, AppendKeeps
  <2>9. CASE ~ (n <= Len(journal))
    <3>1. PICK j \in Nat : j = Len(journal)
      BY <2>2
    <3>2. j = m - 1 /\ journal' = Append(journal, t[n])
      BY <2>1, <2>4, <2>7, <2>9, <3>1
    <3>3. v = journal
      <4>1. Upto(journal, j) = journal
        BY <2>2, <3>1, UptoFacts
      <4> QED BY <2>7, <3>2, <4>1
    <3>4. journal' = t
      BY <2>6, <3>2, <3>3
    <3>5. Begins(t, journal')
      BY <2>2, <3>4, BeginsSame
    <3>6. Grants(header, journal, t[n])
      BY <2>3, <2>5, <3>3 DEF Booked, Path, v
    <3> QED BY <1>1, <2>1, <2>2, <2>3, <2>6, <3>2, <3>4, <3>5, <3>6, AppendKeeps
  <2> QED BY <2>8, <2>9
<1> QED BY <1>2, <1>3

LEMMA FinishedConcluded ==
    ASSUME HabitatInv, NEW h \in Host, Finished(h)
    PROVE  /\ header \in Limits /\ Path(header, turns[h]) /\ Ordered(turns[h])
           /\ Blocked(header, turns[h]) /\ turns[h] = journal
           /\ Record(h) = Conclusion(header, turns[h])
<1> DEFINE t == turns[h]
<1>1. stage[h] = "pump" /\ Waiting(h) = {}
  BY DEF Finished, Pumping
<1>2. /\ Memory(h) /\ t \in Seq(RunRecord) /\ journal \in Seq(RunRecord)
      /\ header \in Limits \union {None} /\ Path(header, journal) /\ ended[h] \in SUBSET Activity
  BY DEF HabitatInv, HabitatTypeOK, MemoryInv, JournalInv
<1>3. Booked(h) /\ Begins(t, journal) /\ (Unrefused(h) \/ Denied(h))
  BY <1>1, <1>2 DEF Memory
<1>4. ended[h] = Asking(t)
  BY <1>1, <1>3 DEF Waiting, Asking, Unrefused, Denied
<1>5. refused[h] = IF Asking(t) = {} THEN None ELSE Refused(header, t)
  BY <1>3, <1>4 DEF Unrefused, Denied
<1>6. Record(h) = Conclusion(header, t)
  BY <1>3, <1>4, <1>5 DEF Record, Conclusion, Booked
<1>7. Blocked(header, t)
  BY <1>3, <1>4 DEF Blocked, Unrefused, Denied
<1>8. t = journal
  <2>1. PICK n \in Nat : n = Len(t)
    BY <1>2
  <2>2. PICK j \in Nat : j = Len(journal)
    BY <1>2
  <2>3. n <= j /\ t = Upto(journal, n)
    BY <1>3, <2>1, <2>2 DEF Begins
  <2>4. ASSUME n < j PROVE FALSE
    <3>1. n + 1 \in 1..Len(journal) /\ n + 1 - 1 = n
      BY <2>2, <2>4
    <3>2. Grants(header, Upto(journal, n), journal[n + 1])
      BY <1>2, <3>1 DEF Path
    <3> QED BY <1>7, <2>3, <3>2 DEF Grants, Blocked
  <2>5. Upto(journal, j) = journal
    BY <1>2, <2>2, UptoFacts
  <2> QED BY <2>3, <2>4, <2>5
<1>9. header \in Limits
  BY <1>2, <1>3 DEF Booked
<1> QED BY <1>3, <1>6, <1>7, <1>8, <1>9 DEF Booked

LEMMA CloseHabitat ==
    ASSUME HabitatInv, NEW h \in Host, Close(h)
    PROVE  HabitatInv'
<1>1. Finished(h) /\ End(h) /\ UNCHANGED <<header, journal, store, faults>>
  BY DEF Close, onDisk
<1>2. records' \subseteq records \union {Record(h)}
  BY DEF Close
<1>3. /\ Blocked(header, journal) /\ header \in Limits
      /\ Record(h) = Conclusion(header, journal)
  BY <1>1, FinishedConcluded
<1>4. RecordInv'
  BY <1>1, <1>2, <1>3, HabitatNone DEF HabitatInv, RecordInv
<1>5. MemoryTypes' /\ Elsewhere(h) /\ Memory(h)'
  BY <1>1, HabitatEnd DEF HabitatInv
<1>6. HabitatTypeOK'
  BY <1>1, <1>5 DEF HabitatInv, HabitatTypeOK, MemoryTypes
<1>7. MemoryInv'
  BY <1>1, <1>5, OthersKept DEF MemoryInv
<1>8. JournalInv'
  BY <1>1 DEF HabitatInv, JournalInv
<1> QED BY <1>4, <1>6, <1>7, <1>8 DEF HabitatInv

LEMMA HabitatStep == HabitatInv /\ [HabitatNext]_habitatVars => HabitatInv'
<1> SUFFICES ASSUME HabitatInv, [HabitatNext]_habitatVars PROVE HabitatInv'
  OBVIOUS
<1>1. CASE UNCHANGED habitatVars
  <2>1. UNCHANGED <<header, journal, stage, limits, journaled, turns, charged, last, refused,
                    ended, faults, records>>
    BY <1>1 DEF habitatVars, onDisk, account
  <2> QED BY <2>1 DEF HabitatInv, HabitatTypeOK, JournalInv, RecordInv, MemoryInv, Memory, Fresh,
                      Booked, Unrefused, Denied
<1>2. ASSUME NEW h \in Host, NEW l \in Limits, Open(h, l) PROVE HabitatInv'
  BY <1>2, OpenHabitat
<1>3. ASSUME NEW h \in Host, Stop(h) PROVE HabitatInv'
  BY <1>3, EndKeeps DEF Stop, onDisk, HabitatInv, HabitatTypeOK
<1>4. ASSUME NEW h \in Host, Interrupt(h) PROVE HabitatInv'
  <2>1. faults' \in 0..MaxFaults
    BY <1>4, HabitatCounts DEF Interrupt, HabitatInv, HabitatTypeOK
  <2> QED BY <1>4, <2>1, EndKeeps DEF Interrupt, onDisk
<1>5. ASSUME NEW h \in Host, Step(h) PROVE HabitatInv'
  BY <1>3, <1>5, WriteHeaderHabitat, ReadEntriesHabitat, RefuseHabitat, ServeHabitat,
     ExecuteHabitat, AppendEntryHabitat, CloseHabitat DEF Step
<1> QED BY <1>1, <1>2, <1>4, <1>5 DEF HabitatNext
-----------------------------------------------------------------------------
(* Every variable of the invocations and of their journal keeps its type.  *)
THEOREM HabitatTypes == HabitatSpec => []HabitatTypeOK
<1>1. HabitatInv => HabitatTypeOK
  BY DEF HabitatInv
<1> QED BY HabitatInitInv, HabitatStep, <1>1, PTL DEF HabitatSpec

(* Whatever activities ask, runs cost and budgets refuse, the record of a  *)
(* schedule that has done its work is one that its own parser accepts      *)
(* (habitat-schedule.ts, 159-215, 486-503).                                *)
THEOREM ParserAccepts == HabitatSpec => []RecordAccepted
<1>1. HabitatInv => RecordAccepted
  BY FinishedConcluded, ConclusionAccepted DEF RecordAccepted
<1> QED BY HabitatInitInv, HabitatStep, <1>1, PTL DEF HabitatSpec

(* However many invocations stop, overlap and resume over a journal, the   *)
(* records they come to are one (habitat-schedule.ts, 27-30, 270-273).     *)
THEOREM OneRecord == HabitatSpec => []RecordsAgree
<1>1. HabitatInv => RecordsAgree
  BY DEF HabitatInv, RecordInv, RecordsAgree
<1> QED BY HabitatInitInv, HabitatStep, <1>1, PTL DEF HabitatSpec
=============================================================================
