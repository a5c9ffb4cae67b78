----------------------- MODULE ProcessCreationProofs -----------------------
(***************************************************************************)
(* Proofs about ProcessCreation, for any number of creators, older         *)
(* runtimes, names and definitions.  The argument: the custody belongs to  *)
(* the one creator inside it, whose marker therefore stays in the          *)
(* interlock, so that nobody else changes the store between what it        *)
(* admitted and what it writes.                                            *)
(***************************************************************************)
EXTENDS ProcessCreation, FiniteSetTheorems, TLAPS

(* What each variable holds, beyond TypeOK. *)
TWInv ==
    /\ TypeOK
    /\ head \in [Name -> [def : Definition, gen : 0..MaxGenerations] \union {None}]
    /\ want \in [Creator -> (Name \X Definition) \union {None}]
    /\ IsFiniteSet(dirs) /\ IsFiniteSet(archived)

(* A creator past the custody's acquisition is its holder. *)
CustodyInv == \A c \in Creator : pc[c] \notin {"idle", "custody"} => custody = c

(* Whose the interlock is: the holder's while it is inside, a dead one's   *)
(* that still fits the archive while it is put there, or an older          *)
(* runtime's, which is alone.                                              *)
InterlockInv ==
    /\ \A c \in Creator :
          /\ pc[c] \in Critical \union {"unscratch"} => interlock \in Nonce /\ interlock = mine[c]
          /\ pc[c] \in {"archive", "unlink"} => interlock \in Nonce
          /\ pc[c] = "archive" => interlock \in archived \/ Cardinality(archived) < MaxArchived
    /\ old # {} => interlock = OldMarker
    /\ \A o, q \in old : o = q

(* What a creator found when it was admitted still holds when it writes.   *)
AdmittedInv == \A c \in Creator :
    /\ pc[c] = "mkdir" => NameOf(c) \notin dirs /\ Cardinality(dirs) < MaxProcesses
    /\ pc[c] = "claim" => NameOf(c) \in dirs /\ head[NameOf(c)] = None
    /\ pc[c] = "publish" => Resumable(NameOf(c), DefOf(c))

(* The store at any time: nothing is on record of a name without its       *)
(* directory, and every answer given is still true.                        *)
StoreInv ==
    /\ ClaimsKept
    /\ \A n \in Name : marker[n] # None \/ head[n] # None => n \in dirs
    /\ \A n \in Name, d \in Definition : <<n, d>> \in made => head[n] # None

IInv == TWInv /\ CustodyInv /\ InterlockInv /\ AdmittedInv /\ StoreInv
-----------------------------------------------------------------------------
LEMMA InitIInv == Init => IInv
<1> SUFFICES ASSUME Init PROVE IInv
  OBVIOUS
<1>1. IsFiniteSet({}) /\ Cardinality({}) = 0
  BY FS_EmptySet
<1>2. QED BY <1>1, CreationBounds, CreationDistinct
             DEF Init, IInv, TWInv, TypeOK, CustodyInv, InterlockInv, AdmittedInv, StoreInv,
                 ClaimsKept, Scratch, Critical, Location, NameOf, DefOf

(* Type correctness needs the rest for the two bounds only.                *)
LEMMA TypeStep == IInv /\ [Next]_vars => TWInv'
<1> SUFFICES ASSUME IInv, [Next]_vars PROVE TWInv'
  OBVIOUS
<1> USE CreationBounds, CreationDistinct
    DEF IInv, TWInv, TypeOK, InterlockInv, store, lockfile, locals, Goto, NameOf, DefOf, End, Abandon, Scratch, Critical, Location
<1>1. ASSUME NEW c \in Creator, NEW n \in Name, NEW d \in Definition, Call(c, n, d) PROVE TWInv'
  BY <1>1 DEF Call
<1>2. ASSUME NEW c \in Creator, Step(c) PROVE TWInv'
  <2>1. CASE TakeCustody(c) BY <2>1 DEF TakeCustody
  <2>2. CASE ReadInterlock(c) BY <2>2 DEF ReadInterlock
  <2>3. CASE Archive(c)
    <3>1. IsFiniteSet(archived \union {interlock})
          /\ Cardinality(archived \union {interlock}) =
                IF interlock \in archived THEN Cardinality(archived) ELSE Cardinality(archived) + 1
      BY FS_AddElement
    <3>2. Cardinality(archived) \in Nat BY FS_CardinalityType
    <3>3. QED BY <2>3, <3>1, <3>2 DEF Archive
  <2>4. CASE UnlinkPrior(c) BY <2>4 DEF UnlinkPrior
  <2>5. CASE Occupy(c) BY <2>5 DEF Occupy
  <2>6. CASE Link(c) BY <2>6 DEF Link
  <2>7. CASE Unscratch(c) BY <2>7 DEF Unscratch
  <2>8. CASE Admit(c) BY <2>8 DEF Admit
  <2>9. CASE Mkdir(c)
    <3>1. IsFiniteSet(dirs \union {NameOf(c)}) BY FS_AddElement
    <3>2. QED BY <2>9, <3>1 DEF Mkdir
  <2>10. CASE Claim(c) BY <2>10 DEF Claim
  <2>11. CASE Publish(c) BY <2>11 DEF Publish
  <2>12. CASE Unmark(c) BY <2>12 DEF Unmark
  <2>13. CASE Release(c) BY <2>13 DEF Release
  <2>14. CASE Free(c) BY <2>14 DEF Free
  <2>15. QED BY <1>2, <2>1, <2>2, <2>3, <2>4, <2>5, <2>6, <2>7,
                <2>8, <2>9, <2>10, <2>11, <2>12, <2>13, <2>14 DEF Step
<1>3. ASSUME NEW c \in Creator, Throw(c) PROVE TWInv'
  <2>1. strays' = strays \/ strays' = {Scratch}
    BY <1>3 DEF Throw
  <2>2. strays' \subseteq {Scratch}
    BY <2>1
  <2>3. pc' \in [Creator -> Location] /\ (\A x \in Creator : pc'[x] # "idle" => want'[x] \in Name \X Definition)
    BY <1>3 DEF Throw
  <2>4. /\ custody' \in Creator \union {None} /\ mine' \in [Creator -> Nonce \union {None}]
        /\ want' \in [Creator -> (Name \X Definition) \union {None}] /\ faults' \in 0..MaxFaults
    BY <1>3 DEF Throw
  <2>5. UNCHANGED <<dirs, marker, head, interlock, archived, old, made>>
    BY <1>3 DEF Throw
  <2>6. QED BY <2>2, <2>3, <2>4, <2>5
<1>4. ASSUME NEW c \in Creator, Crash(c) PROVE TWInv'
  BY <1>4 DEF Crash
<1>5. ASSUME NEW n \in Name, Dispatch(n) PROVE TWInv'
  BY <1>5 DEF Dispatch
<1>6. ASSUME NEW o \in OldRuntime, OldAcquire(o) \/ OldRelease(o) \/ OldCrash(o)
      PROVE TWInv'
  BY <1>6 DEF OldAcquire, OldRelease, OldCrash
<1>7. ASSUME NEW o \in OldRuntime, NEW n \in Name, NEW d \in Definition, OldCreate(o, n, d)
      PROVE TWInv'
  <2>1. IsFiniteSet(dirs \union {n}) BY FS_AddElement
  <2>2. QED BY <1>7, <2>1 DEF OldCreate
<1>8. CASE Reconcile
  BY <1>8 DEF Reconcile
<1>9. CASE UNCHANGED vars
  BY <1>9 DEF vars
<1>10. QED BY <1>1, <1>2, <1>3, <1>4, <1>5, <1>6, <1>7, <1>8, <1>9 DEF Next

(* The custody is taken only when free, and ends with its holder.          *)
LEMMA CustodyStep == IInv /\ [Next]_vars => CustodyInv'
<1> SUFFICES ASSUME IInv, [Next]_vars PROVE CustodyInv'
  OBVIOUS
<1> USE CreationDistinct
    DEF IInv, TWInv, TypeOK, CustodyInv, store, lockfile, locals, Goto, NameOf, DefOf, End, Abandon, Scratch, Critical, Location
<1>1. ASSUME NEW c \in Creator, NEW n \in Name, NEW d \in Definition, Call(c, n, d) PROVE CustodyInv'
  BY <1>1 DEF Call
<1>2. ASSUME NEW c \in Creator, Step(c) PROVE CustodyInv'
  <2>1. CASE TakeCustody(c) BY <2>1 DEF TakeCustody
  <2>2. CASE ReadInterlock(c) BY <2>2 DEF ReadInterlock
  <2>3. CASE Archive(c) BY <2>3 DEF Archive
  <2>4. CASE UnlinkPrior(c) BY <2>4 DEF UnlinkPrior
  <2>5. CASE Occupy(c) BY <2>5 DEF Occupy
  <2>6. CASE Link(c) BY <2>6 DEF Link
  <2>7. CASE Unscratch(c) BY <2>7 DEF Unscratch
  <2>8. CASE Admit(c) BY <2>8 DEF Admit
  <2>9. CASE Mkdir(c) BY <2>9 DEF Mkdir
  <2>10. CASE Claim(c) BY <2>10 DEF Claim
  <2>11. CASE Publish(c) BY <2>11 DEF Publish
  <2>12. CASE Unmark(c) BY <2>12 DEF Unmark
  <2>13. CASE Release(c) BY <2>13 DEF Release
  <2>14. CASE Free(c) BY <2>14 DEF Free
  <2>15. QED BY <1>2, <2>1, <2>2, <2>3, <2>4, <2>5, <2>6, <2>7,
                <2>8, <2>9, <2>10, <2>11, <2>12, <2>13, <2>14 DEF Step
<1>3. ASSUME NEW c \in Creator, Throw(c) PROVE CustodyInv'
  BY <1>3 DEF Throw
<1>4. ASSUME NEW c \in Creator, Crash(c) PROVE CustodyInv'
  BY <1>4 DEF Crash
<1>5. ASSUME NEW n \in Name, Dispatch(n) PROVE CustodyInv'
  BY <1>5 DEF Dispatch
<1>6. ASSUME NEW o \in OldRuntime, OldAcquire(o) \/ OldRelease(o) \/ OldCrash(o)
      PROVE CustodyInv'
  BY <1>6 DEF OldAcquire, OldRelease, OldCrash
<1>7. ASSUME NEW o \in OldRuntime, NEW n \in Name, NEW d \in Definition, OldCreate(o, n, d)
      PROVE CustodyInv'
  BY <1>7 DEF OldCreate
<1>8. CASE Reconcile
  BY <1>8 DEF Reconcile
<1>9. CASE UNCHANGED vars
  BY <1>9 DEF vars
<1>10. QED BY <1>1, <1>2, <1>3, <1>4, <1>5, <1>6, <1>7, <1>8, <1>9 DEF Next

(* Only its owner removes a marker from the interlock.                     *)
LEMMA InterlockStep == IInv /\ [Next]_vars => InterlockInv'
<1> SUFFICES ASSUME IInv, [Next]_vars PROVE InterlockInv'
  OBVIOUS
<1> USE CreationDistinct
    DEF IInv, TWInv, TypeOK, CustodyInv, InterlockInv, store, lockfile, locals, Goto, NameOf, DefOf, End, Abandon, Scratch, Critical, Location
<1>1. ASSUME NEW c \in Creator, NEW n \in Name, NEW d \in Definition, Call(c, n, d) PROVE InterlockInv'
  BY <1>1 DEF Call
<1>2. ASSUME NEW c \in Creator, Step(c) PROVE InterlockInv'
  <2>1. CASE TakeCustody(c) BY <2>1 DEF TakeCustody
  <2>2. CASE ReadInterlock(c)
    <3>1. Cardinality(archived) \in Nat BY FS_CardinalityType
    <3>2. QED BY <2>2, <3>1, CreationBounds DEF ReadInterlock
  <2>3. CASE Archive(c) BY <2>3 DEF Archive
  <2>4. CASE UnlinkPrior(c) BY <2>4 DEF UnlinkPrior
  <2>5. CASE Occupy(c) BY <2>5 DEF Occupy
  <2>6. CASE Link(c) BY <2>6 DEF Link
  <2>7. CASE Unscratch(c) BY <2>7 DEF Unscratch
  <2>8. CASE Admit(c) BY <2>8 DEF Admit
  <2>9. CASE Mkdir(c) BY <2>9 DEF Mkdir
  <2>10. CASE Claim(c) BY <2>10 DEF Claim
  <2>11. CASE Publish(c) BY <2>11 DEF Publish
  <2>12. CASE Unmark(c) BY <2>12 DEF Unmark
  <2>13. CASE Release(c) BY <2>13 DEF Release
  <2>14. CASE Free(c) BY <2>14 DEF Free
  <2>15. QED BY <1>2, <2>1, <2>2, <2>3, <2>4, <2>5, <2>6, <2>7,
                <2>8, <2>9, <2>10, <2>11, <2>12, <2>13, <2>14 DEF Step
<1>3. ASSUME NEW c \in Creator, Throw(c) PROVE InterlockInv'
  BY <1>3 DEF Throw
<1>4. ASSUME NEW c \in Creator, Crash(c) PROVE InterlockInv'
  BY <1>4 DEF Crash
<1>5. ASSUME NEW n \in Name, Dispatch(n) PROVE InterlockInv'
  BY <1>5 DEF Dispatch
<1>6. ASSUME NEW o \in OldRuntime, OldAcquire(o) \/ OldRelease(o) \/ OldCrash(o)
      PROVE InterlockInv'
  BY <1>6 DEF OldAcquire, OldRelease, OldCrash
<1>7. ASSUME NEW o \in OldRuntime, NEW n \in Name, NEW d \in Definition, OldCreate(o, n, d)
      PROVE InterlockInv'
  BY <1>7 DEF OldCreate
<1>8. CASE Reconcile
  BY <1>8 DEF Reconcile
<1>9. CASE UNCHANGED vars
  BY <1>9 DEF vars
<1>10. QED BY <1>1, <1>2, <1>3, <1>4, <1>5, <1>6, <1>7, <1>8, <1>9 DEF Next

(* Nobody else changes the store while a creator is inside.                *)
LEMMA AdmittedStep == IInv /\ [Next]_vars => AdmittedInv'
<1> SUFFICES ASSUME IInv, [Next]_vars PROVE AdmittedInv'
  OBVIOUS
<1> USE CreationDistinct
    DEF IInv, TWInv, TypeOK, CustodyInv, InterlockInv, AdmittedInv, Resumable, store, lockfile, locals, Goto, NameOf, DefOf, End, Abandon, Scratch, Critical, Location
<1>1. ASSUME NEW c \in Creator, NEW n \in Name, NEW d \in Definition, Call(c, n, d) PROVE AdmittedInv'
  BY <1>1 DEF Call
<1>2. ASSUME NEW c \in Creator, Step(c) PROVE AdmittedInv'
  <2>1. CASE TakeCustody(c) BY <2>1 DEF TakeCustody
  <2>2. CASE ReadInterlock(c) BY <2>2 DEF ReadInterlock
  <2>3. CASE Archive(c) BY <2>3 DEF Archive
  <2>4. CASE UnlinkPrior(c) BY <2>4 DEF UnlinkPrior
  <2>5. CASE Occupy(c) BY <2>5 DEF Occupy
  <2>6. CASE Link(c) BY <2>6 DEF Link
  <2>7. CASE Unscratch(c) BY <2>7 DEF Unscratch
  <2>8. CASE Admit(c) BY <2>8 DEF Admit
  <2>9. CASE Mkdir(c) BY <2>9 DEF Mkdir, StoreInv
  <2>10. CASE Claim(c) BY <2>10 DEF Claim
  <2>11. CASE Publish(c) BY <2>11 DEF Publish
  <2>12. CASE Unmark(c) BY <2>12 DEF Unmark
  <2>13. CASE Release(c) BY <2>13 DEF Release
  <2>14. CASE Free(c) BY <2>14 DEF Free
  <2>15. QED BY <1>2, <2>1, <2>2, <2>3, <2>4, <2>5, <2>6, <2>7,
                <2>8, <2>9, <2>10, <2>11, <2>12, <2>13, <2>14 DEF Step
<1>3. ASSUME NEW c \in Creator, Throw(c) PROVE AdmittedInv'
  BY <1>3 DEF Throw
<1>4. ASSUME NEW c \in Creator, Crash(c) PROVE AdmittedInv'
  BY <1>4 DEF Crash
<1>5. ASSUME NEW n \in Name, Dispatch(n) PROVE AdmittedInv'
  BY <1>5 DEF Dispatch
<1>6. ASSUME NEW o \in OldRuntime, OldAcquire(o) \/ OldRelease(o) \/ OldCrash(o)
      PROVE AdmittedInv'
  BY <1>6 DEF OldAcquire, OldRelease, OldCrash
<1>7. ASSUME NEW o \in OldRuntime, NEW n \in Name, NEW d \in Definition, OldCreate(o, n, d)
      PROVE AdmittedInv'
  BY <1>7 DEF OldCreate
<1>8. CASE Reconcile
  BY <1>8 DEF Reconcile
<1>9. CASE UNCHANGED vars
  BY <1>9 DEF vars
<1>10. QED BY <1>1, <1>2, <1>3, <1>4, <1>5, <1>6, <1>7, <1>8, <1>9 DEF Next

(* A directory is made while there is room, and a head published where     *)
(* there was none.                                                         *)
LEMMA StoreStep == IInv /\ [Next]_vars => StoreInv'
<1> SUFFICES ASSUME IInv, [Next]_vars PROVE StoreInv'
  OBVIOUS
<1> USE CreationBounds, CreationDistinct
    DEF IInv, TWInv, TypeOK, AdmittedInv, StoreInv, ClaimsKept, Resumable, store, lockfile, locals, Goto, NameOf, DefOf, End, Abandon, Scratch, Critical, Location
<1>1. ASSUME NEW c \in Creator, NEW n \in Name, NEW d \in Definition, Call(c, n, d) PROVE StoreInv'
  BY <1>1 DEF Call
<1>2. ASSUME NEW c \in Creator, Step(c) PROVE StoreInv'
  <2>1. CASE TakeCustody(c) BY <2>1 DEF TakeCustody
  <2>2. CASE ReadInterlock(c) BY <2>2 DEF ReadInterlock
  <2>3. CASE Archive(c) BY <2>3 DEF Archive
  <2>4. CASE UnlinkPrior(c) BY <2>4 DEF UnlinkPrior
  <2>5. CASE Occupy(c) BY <2>5 DEF Occupy
  <2>6. CASE Link(c) BY <2>6 DEF Link
  <2>7. CASE Unscratch(c) BY <2>7 DEF Unscratch
  <2>8. CASE Admit(c) BY <2>8 DEF Admit
  <2>9. CASE Mkdir(c)
    <3>1. Cardinality(dirs \union {NameOf(c)}) = Cardinality(dirs) + 1
      BY <2>9, FS_AddElement DEF Mkdir
    <3>2. Cardinality(dirs) \in Nat BY FS_CardinalityType
    <3>3. QED BY <2>9, <3>1, <3>2 DEF Mkdir
  <2>10. CASE Claim(c) BY <2>10 DEF Claim
  <2>11. CASE Publish(c) BY <2>11 DEF Publish
  <2>12. CASE Unmark(c) BY <2>12 DEF Unmark
  <2>13. CASE Release(c) BY <2>13 DEF Release
  <2>14. CASE Free(c) BY <2>14 DEF Free
  <2>15. QED BY <1>2, <2>1, <2>2, <2>3, <2>4, <2>5, <2>6, <2>7,
                <2>8, <2>9, <2>10, <2>11, <2>12, <2>13, <2>14 DEF Step
<1>3. ASSUME NEW c \in Creator, Throw(c) PROVE StoreInv'
  BY <1>3 DEF Throw
<1>4. ASSUME NEW c \in Creator, Crash(c) PROVE StoreInv'
  BY <1>4 DEF Crash
<1>5. ASSUME NEW n \in Name, Dispatch(n) PROVE StoreInv'
  BY <1>5 DEF Dispatch
<1>6. ASSUME NEW o \in OldRuntime, OldAcquire(o) \/ OldRelease(o) \/ OldCrash(o)
      PROVE StoreInv'
  BY <1>6 DEF OldAcquire, OldRelease, OldCrash
<1>7. ASSUME NEW o \in OldRuntime, NEW n \in Name, NEW d \in Definition, OldCreate(o, n, d)
      PROVE StoreInv'
  <2>1. Cardinality(dirs \union {n}) = Cardinality(dirs) + 1
    BY <1>7, FS_AddElement DEF OldCreate
  <2>2. Cardinality(dirs) \in Nat BY FS_CardinalityType
  <2>3. QED BY <1>7, <2>1, <2>2 DEF OldCreate
<1>8. CASE Reconcile
  BY <1>8 DEF Reconcile
<1>9. CASE UNCHANGED vars
  BY <1>9 DEF vars
<1>10. QED BY <1>1, <1>2, <1>3, <1>4, <1>5, <1>6, <1>7, <1>8, <1>9 DEF Next

LEMMA IInvHolds == Spec => []IInv
<1>1. IInv /\ [Next]_vars => IInv'
  BY TypeStep, CustodyStep, InterlockStep, AdmittedStep, StoreStep DEF IInv
<1>2. QED BY InitIInv, <1>1, PTL DEF Spec
-----------------------------------------------------------------------------
(* Every variable keeps its type, the archive of abandoned interlocks its  *)
(* bound (process.ts, 518-520).                                            *)
THEOREM CreationTypes == Spec => []TypeOK
<1>1. IInv => TypeOK
  BY DEF IInv, TWInv
<1>2. QED BY IInvHolds, <1>1, PTL

(* At most one creation is past the interlock, of any number of creators   *)
(* and older runtimes.                                                     *)
THEOREM OneCreation == Spec => []CreationExclusive
<1>1. IInv => CreationExclusive
  BY CreationDistinct DEF IInv, CustodyInv, InterlockInv, CreationExclusive, Inside, Critical
<1>2. QED BY IInvHolds, <1>1, PTL

(* The names stay within their bound and consistent with every answer,     *)
(* wherever creations are interrupted.                                     *)
THEOREM ClaimsStayKept == Spec => []ClaimsKept
<1>1. IInv => ClaimsKept
  BY DEF IInv, StoreInv
<1>2. QED BY IInvHolds, <1>1, PTL

(* No creation takes a published process back.                             *)
THEOREM CreationKeepsHeads == Spec => NeverRewound
<1> DEFINE Kept == \A n \in Name : head[n] # None =>
          head'[n] # None /\ head'[n].def = head[n].def /\ head'[n].gen >= head[n].gen
<1>1. IInv /\ [Next]_vars => [Kept]_vars
  <2> SUFFICES ASSUME IInv, [Next]_vars PROVE Kept \/ UNCHANGED vars
    OBVIOUS
  <2> USE CreationBounds, CreationDistinct DEF IInv, TWInv, TypeOK
  <2>1. ASSUME NEW c \in Creator, Publish(c) PROVE Kept
    BY <2>1 DEF Publish, AdmittedInv, Resumable, NameOf, DefOf, locals
  <2>2. ASSUME NEW n \in Name, Dispatch(n) PROVE Kept
    BY <2>2 DEF Dispatch
  <2>3. ASSUME NEW o \in OldRuntime, NEW n \in Name, NEW d \in Definition, OldCreate(o, n, d)
        PROVE Kept
    BY <2>3 DEF OldCreate, StoreInv
  <2>4. ASSUME UNCHANGED head PROVE Kept
    BY <2>4
  <2>5. ASSUME NEW c \in Creator, Step(c), ~ Publish(c) PROVE UNCHANGED head
    BY <2>5 DEF Step, store, TakeCustody, ReadInterlock, Archive, UnlinkPrior, Occupy, Link,
                Unscratch, Admit,
                Mkdir, Claim, Unmark, Release, Free
  <2>6. QED BY <2>1, <2>2, <2>3, <2>4, <2>5
               DEF Next, store, Call, Throw, Crash, OldAcquire, OldRelease, OldCrash, Reconcile
<1>2. QED BY IInvHolds, <1>1, PTL DEF Spec, NeverRewound
=============================================================================
