--------------------------- MODULE MailboxProofs ---------------------------
(***************************************************************************)
(* Proofs about Mailbox, for any number of clients, keys and bodies and    *)
(* any capacity.  The argument: the lock file makes the messages and the   *)
(* revocations the business of one client at a time, so what it checked    *)
(* still holds when it writes, and what it wrote when it answers.          *)
(***************************************************************************)
EXTENDS Mailbox, FiniteSetTheorems, WellFoundedInduction, TLAPS

(* What each variable holds: the files, and the operations' own variables. *)
DiskOK ==
    /\ lock \in Client \union {None, Dead}
    /\ claims \in Files /\ pending \in Files /\ consumed \in Files
    /\ records \subseteq Nonce \X Capability
    /\ revoked \subseteq Capability
    /\ config \in Nonce \union {None}
    /\ accepted \subseteq Key \X Body
    /\ IsFiniteSet(Named(pending))

LocalsOK ==
    /\ pc \in [Client -> {"idle", "lock"} \union Creating \union Inside]
    /\ task \in [Client -> Task \union Creation \union {None}]
    /\ found \in [Client -> Key \union {None}]
    /\ ok \in [Client -> BOOLEAN]
    /\ \A c \in Client :
          /\ pc[c] \in Creating => task[c] \in Creation
          /\ pc[c] \in {"lock"} \union Inside => task[c] \in Task

TWInv == DiskOK /\ LocalsOK

(* Whoever works on the mailbox is the one whose lock file is there. *)
LockInv == \A c \in Client : pc[c] \in Inside => lock = c

(* A creation writes the config behind the records it names. *)
RecordsInv ==
    /\ CapabilitiesAdmitted
    /\ \A c \in Client :
          /\ pc[c] = "record receive" => <<task[c].body, "send">> \in records
          /\ pc[c] = "config" => \A cap \in Capability : <<task[c].body, cap>> \in records

(* What the holder of the lock has checked or done so far. *)
Working == Inside \ {"check", "release"}
Knows(c) ==
    /\ pc[c] \in Working => Needs(task[c]) \notin revoked
    /\ pc[c] \in {"claim", "mark", "deliver"} => task[c].op = "send"
    /\ pc[c] \in {"mark", "deliver"} => claims[task[c].key] = task[c].body
    /\ pc[c] = "deliver" => /\ ~ Full
                           /\ pending[task[c].key] = None
                           /\ consumed[task[c].key] = None
    /\ pc[c] = "consume" => task[c].op = "receive" /\ found[c] \in Named(pending)
    /\ pc[c] = "revoke" => task[c].op = "revoke"
    /\ pc[c] # "release" => ok[c] = FALSE
    /\ pc[c] = "release" /\ ok[c] /\ task[c].op = "send" =>
          task[c].body \in {pending[task[c].key], consumed[task[c].key]}
OperationInv == \A c \in Client : Knows(c)

IInv == TWInv /\ LockInv /\ RecordsInv /\ OperationInv /\ ClaimBinds /\ AcceptedKept
-----------------------------------------------------------------------------
(* The fields of a task. *)
LEMMA TaskFields ==
    /\ \A t \in Task : t.op = "send" => t.key \in Key /\ t.body \in Body
    /\ \A t \in Task : t.op = "revoke" => t.body \in Capability
    /\ \A t \in Creation : t.body \in Nonce
BY DEF Task, Creation

(* A set of keys has a first one. *)
LEMMA FirstKey ==
    ASSUME NEW S, S \subseteq Nat, S # {}
    PROVE  \E k \in S : \A l \in S : k <= l
<1> DEFINE R == {ss \in Nat \X Nat : ss[1] < ss[2]}
<1>1. IsWellFoundedOn(R, Nat)
  BY NatLessThanWellFounded DEF OpToRel
<1> HIDE DEF R
<1>2. PICK x \in S : \A y \in S : <<y, x>> \notin R
  BY <1>1, WFMin
<1>3. ASSUME NEW y \in S PROVE x <= y
  <2>1. <<y, x>> \in Nat \X Nat /\ <<y, x>> \notin R BY <1>2
  <2>2. ~ (y < x) BY <2>1 DEF R
  <2>3. QED BY <2>1, <2>2
<1>4. QED BY <1>3

(* What receive finds is a pending message. *)
LEMMA FoundPending ==
    ASSUME IInv, NEW c \in Client, CheckReceive(c), Named(pending) # {}
    PROVE  found' = [found EXCEPT ![c] = found'[c]] /\ found'[c] \in Named(pending)
<1>1. Named(pending) \subseteq Nat
  BY KeyAssumption DEF Named
<1>2. \E k \in Named(pending) : \A l \in Named(pending) : k <= l
  BY <1>1, FirstKey
<1>3. QED BY <1>2 DEF CheckReceive, IInv, TWInv, LocalsOK

LEMMA InitIInv == Init => IInv
<1> SUFFICES ASSUME Init PROVE IInv
  OBVIOUS
<1>1. Named(pending) = {} BY DEF Init, Named
<1>2. IsFiniteSet(Named(pending)) BY <1>1, FS_EmptySet
<1>3. QED BY <1>2, NoneAssumption
             DEF Init, IInv, TWInv, DiskOK, LocalsOK, Files, LockInv, RecordsInv,
                 CapabilitiesAdmitted, OperationInv, Knows, ClaimBinds, AcceptedKept, Creating,
                 Inside, Working

(* The types of the files. *)
LEMMA DiskStep == IInv /\ [Next]_vars => DiskOK'
<1> SUFFICES ASSUME IInv, [Next]_vars PROVE DiskOK'
  OBVIOUS
<1> USE KeyAssumption, BoundAssumption, NoneAssumption, DeadAssumption
    DEF IInv, TWInv, DiskOK, LocalsOK, Files, Capability, OperationInv, Knows, messages, admitted, disk, Goto, Finish, Creating, Inside, At, Resolved
<1>1. ASSUME NEW c \in Client, Create(c) PROVE DiskOK'
  BY <1>1 DEF Create
<1>2. ASSUME NEW c \in Client, Begin(c) PROVE DiskOK'
  BY <1>2 DEF Begin
<1>3. ASSUME NEW c \in Client, Operation(c) PROVE DiskOK'
  <2>1. CASE WriteRecord(c, "send", "record send", "record receive")
    <3>1. task[c].body \in Nonce BY <2>1, TaskFields DEF WriteRecord
    <3>2. \A cap \in Capability : <<task[c].body, cap>> \in Nonce \X Capability BY <3>1
    <3>3. \E cap \in Capability : records' = records \union {<<task[c].body, cap>>}
      BY <2>1 DEF WriteRecord
    <3>4. records' \subseteq Nonce \X Capability BY <3>2, <3>3
    <3>5. QED BY <2>1, <3>4 DEF WriteRecord
  <2>2. CASE WriteRecord(c, "receive", "record receive", "config")
    <3>1. task[c].body \in Nonce BY <2>2, TaskFields DEF WriteRecord
    <3>2. \A cap \in Capability : <<task[c].body, cap>> \in Nonce \X Capability BY <3>1
    <3>3. \E cap \in Capability : records' = records \union {<<task[c].body, cap>>}
      BY <2>2 DEF WriteRecord
    <3>4. records' \subseteq Nonce \X Capability BY <3>2, <3>3
    <3>5. QED BY <2>2, <3>4 DEF WriteRecord
  <2>3. CASE WriteConfig(c)
    <3>1. task[c].body \in Nonce BY <2>3, TaskFields DEF WriteConfig
    <3>2. QED BY <2>3, <3>1 DEF WriteConfig
  <2>4. CASE TakeLock(c) BY <2>4 DEF TakeLock
  <2>5. CASE Locked(c) BY <2>5 DEF Locked
  <2>6. CASE Denied(c) BY <2>6 DEF Denied
  <2>7. CASE CheckSend(c) BY <2>7 DEF CheckSend
  <2>8. CASE WriteClaim(c)
    <3>1. task[c].key \in Key /\ task[c].body \in Body BY <2>8, TaskFields DEF WriteClaim
    <3>2. QED BY <2>8, <3>1 DEF WriteClaim, Publish
  <2>9. CASE CheckMarkers(c) BY <2>9 DEF CheckMarkers
  <2>10. CASE WritePending(c)
    <3>1. task[c].key \in Key /\ task[c].body \in Body BY <2>10, TaskFields DEF WritePending
    <3>2. IsFiniteSet(Named(pending) \union {task[c].key}) BY FS_AddElement
    <3>3. Named(pending') \subseteq Named(pending) \union {task[c].key}
      BY <2>10, <3>1 DEF WritePending, Publish, Named
    <3>4. IsFiniteSet(Named(pending')) BY <3>2, <3>3, FS_Subset
    <3>5. QED BY <2>10, <3>1, <3>4 DEF WritePending, Publish
  <2>11. CASE CheckReceive(c) BY <2>11 DEF CheckReceive
  <2>12. CASE Consume(c)
    <3>1. Named(pending') \subseteq Named(pending)
      BY <2>12 DEF Consume, Named
    <3>2. IsFiniteSet(Named(pending')) BY <3>1, FS_Subset
    <3>3. found[c] \in Key BY <2>12 DEF Consume, Named
    <3>4. QED BY <2>12, <3>2, <3>3 DEF Consume
  <2>13. CASE Probe(c) BY <2>13 DEF Probe
  <2>14. CASE CheckRevoke(c) BY <2>14 DEF CheckRevoke
  <2>15. CASE WriteRevoked(c)
    <3>1. task[c].body \in Capability BY <2>15, TaskFields DEF WriteRevoked
    <3>2. QED BY <2>15, <3>1 DEF WriteRevoked
  <2>16. CASE Release(c)
    <3>1. task[c].op = "send" => task[c].key \in Key /\ task[c].body \in Body
      BY <2>16, TaskFields DEF Release
    <3>2. CASE ok[c] /\ task[c].op = "send"
      <4>1. accepted' = accepted \union {<<task[c].key, task[c].body>>} BY <2>16, <3>2 DEF Release
      <4>2. <<task[c].key, task[c].body>> \in Key \X Body BY <3>1, <3>2
      <4>3. QED BY <2>16, <4>1, <4>2 DEF Release
    <3>3. CASE ~ (ok[c] /\ task[c].op = "send") BY <2>16, <3>3 DEF Release
    <3>4. QED BY <3>2, <3>3
  <2>17. QED BY <1>3, <2>1, <2>2, <2>3, <2>4, <2>5, <2>6, <2>7, <2>8,
                 <2>9, <2>10, <2>11, <2>12, <2>13, <2>14, <2>15, <2>16 DEF Operation
<1>4. ASSUME NEW c \in Client, Throw(c) PROVE DiskOK'
  BY <1>4 DEF Throw
<1>5. ASSUME NEW c \in Client, Crash(c) PROVE DiskOK'
  BY <1>5 DEF Crash
<1>6. CASE Reconcile
  BY <1>6 DEF Reconcile
<1>7. CASE UNCHANGED vars
  BY <1>7 DEF vars
<1>8. QED BY <1>1, <1>2, <1>3, <1>4, <1>5, <1>6, <1>7 DEF Next

(* The types of the operations' variables. *)
LEMMA LocalsStep == IInv /\ [Next]_vars => LocalsOK'
<1> SUFFICES ASSUME IInv, [Next]_vars PROVE LocalsOK'
  OBVIOUS
<1> USE KeyAssumption, BoundAssumption, NoneAssumption, DeadAssumption
    DEF IInv, TWInv, LocalsOK, messages, admitted, disk, Goto, Finish, Creating, Inside, At, Resolved
<1>1. ASSUME NEW c \in Client, Create(c) PROVE LocalsOK'
  <2>1. PICK t \in Creation : task' = [task EXCEPT ![c] = t] BY <1>1 DEF Create, Creation
  <2>2. QED BY <1>1, <2>1 DEF Create
<1>2. ASSUME NEW c \in Client, Begin(c) PROVE LocalsOK'
  <2>1. PICK t \in Task : task' = [task EXCEPT ![c] = t] BY <1>2 DEF Begin
  <2>2. QED BY <1>2, <2>1 DEF Begin
<1>3. ASSUME NEW c \in Client, Operation(c) PROVE LocalsOK'
  <2>1. CASE WriteRecord(c, "send", "record send", "record receive")
    BY <2>1 DEF WriteRecord
  <2>2. CASE WriteRecord(c, "receive", "record receive", "config")
    BY <2>2 DEF WriteRecord
  <2>3. CASE WriteConfig(c) BY <2>3 DEF WriteConfig
  <2>4. CASE TakeLock(c) BY <2>4 DEF TakeLock
  <2>5. CASE Locked(c) BY <2>5 DEF Locked
  <2>6. CASE Denied(c) BY <2>6 DEF Denied
  <2>7. CASE CheckSend(c) BY <2>7 DEF CheckSend
  <2>8. CASE WriteClaim(c) BY <2>8 DEF WriteClaim
  <2>9. CASE CheckMarkers(c) BY <2>9 DEF CheckMarkers
  <2>10. CASE WritePending(c)
    BY <2>10 DEF WritePending, Agrees
  <2>11. CASE CheckReceive(c)
    <3>1. CASE Named(pending) = {} BY <2>11, <3>1 DEF CheckReceive
    <3>2. CASE Named(pending) # {}
      <4>1. found' = [found EXCEPT ![c] = found'[c]] /\ found'[c] \in Key
        BY <2>11, <3>2, FoundPending DEF Named
      <4>2. QED BY <2>11, <3>2, <4>1 DEF CheckReceive
    <3>3. QED BY <3>1, <3>2
  <2>12. CASE Consume(c) BY <2>12 DEF Consume
  <2>13. CASE Probe(c) BY <2>13 DEF Probe
  <2>14. CASE CheckRevoke(c) BY <2>14 DEF CheckRevoke
  <2>15. CASE WriteRevoked(c) BY <2>15 DEF WriteRevoked
  <2>16. CASE Release(c) BY <2>16 DEF Release
  <2>17. QED BY <1>3, <2>1, <2>2, <2>3, <2>4, <2>5, <2>6, <2>7, <2>8,
                 <2>9, <2>10, <2>11, <2>12, <2>13, <2>14, <2>15, <2>16 DEF Operation
<1>4. ASSUME NEW c \in Client, Throw(c) PROVE LocalsOK'
  BY <1>4 DEF Throw
<1>5. ASSUME NEW c \in Client, Crash(c) PROVE LocalsOK'
  BY <1>5 DEF Crash
<1>6. CASE Reconcile
  BY <1>6 DEF Reconcile
<1>7. CASE UNCHANGED vars
  BY <1>7 DEF vars
<1>8. QED BY <1>1, <1>2, <1>3, <1>4, <1>5, <1>6, <1>7 DEF Next

(* The lock file is made when there is none and removed by its owner, or   *)
(* by an operator when its owner is gone.                                  *)
LEMMA LockStep == IInv /\ [Next]_vars => LockInv'
<1> SUFFICES ASSUME IInv, [Next]_vars PROVE LockInv'
  OBVIOUS
<1> USE KeyAssumption, BoundAssumption, NoneAssumption, DeadAssumption
    DEF IInv, TWInv, LocalsOK, LockInv, messages, admitted, disk, Goto, Finish, Creating, Inside, At, Resolved
<1>1. ASSUME NEW c \in Client, Create(c) PROVE LockInv'
  BY <1>1 DEF Create
<1>2. ASSUME NEW c \in Client, Begin(c) PROVE LockInv'
  BY <1>2 DEF Begin
<1>3. ASSUME NEW c \in Client, Operation(c) PROVE LockInv'
  <2>1. CASE WriteRecord(c, "send", "record send", "record receive")
    BY <2>1 DEF WriteRecord
  <2>2. CASE WriteRecord(c, "receive", "record receive", "config")
    BY <2>2 DEF WriteRecord
  <2>3. CASE WriteConfig(c) BY <2>3 DEF WriteConfig
  <2>4. CASE TakeLock(c) BY <2>4 DEF TakeLock
  <2>5. CASE Locked(c) BY <2>5 DEF Locked
  <2>6. CASE Denied(c) BY <2>6 DEF Denied
  <2>7. CASE CheckSend(c) BY <2>7 DEF CheckSend
  <2>8. CASE WriteClaim(c) BY <2>8 DEF WriteClaim
  <2>9. CASE CheckMarkers(c) BY <2>9 DEF CheckMarkers
  <2>10. CASE WritePending(c) BY <2>10 DEF WritePending
  <2>11. CASE CheckReceive(c) BY <2>11 DEF CheckReceive
  <2>12. CASE Consume(c) BY <2>12 DEF Consume
  <2>13. CASE Probe(c) BY <2>13 DEF Probe
  <2>14. CASE CheckRevoke(c) BY <2>14 DEF CheckRevoke
  <2>15. CASE WriteRevoked(c) BY <2>15 DEF WriteRevoked
  <2>16. CASE Release(c) BY <2>16 DEF Release
  <2>17. QED BY <1>3, <2>1, <2>2, <2>3, <2>4, <2>5, <2>6, <2>7, <2>8,
                 <2>9, <2>10, <2>11, <2>12, <2>13, <2>14, <2>15, <2>16 DEF Operation
<1>4. ASSUME NEW c \in Client, Throw(c) PROVE LockInv'
  BY <1>4 DEF Throw
<1>5. ASSUME NEW c \in Client, Crash(c) PROVE LockInv'
  BY <1>5 DEF Crash
<1>6. CASE Reconcile
  BY <1>6 DEF Reconcile
<1>7. CASE UNCHANGED vars
  BY <1>7 DEF vars
<1>8. QED BY <1>1, <1>2, <1>3, <1>4, <1>5, <1>6, <1>7 DEF Next

(* Records are only added, and a config is only written once. *)
LEMMA RecordsStep == IInv /\ [Next]_vars => RecordsInv'
<1> SUFFICES ASSUME IInv, [Next]_vars PROVE RecordsInv'
  OBVIOUS
<1> USE KeyAssumption, BoundAssumption, NoneAssumption, DeadAssumption
    DEF IInv, TWInv, LocalsOK, RecordsInv, CapabilitiesAdmitted, Capability, messages, admitted, disk, Goto, Finish, Creating, Inside, At, Resolved
<1>1. ASSUME NEW c \in Client, Create(c) PROVE RecordsInv'
  BY <1>1 DEF Create
<1>2. ASSUME NEW c \in Client, Begin(c) PROVE RecordsInv'
  BY <1>2 DEF Begin
<1>3. ASSUME NEW c \in Client, Operation(c) PROVE RecordsInv'
  <2>1. CASE WriteRecord(c, "send", "record send", "record receive")
    BY <2>1 DEF WriteRecord
  <2>2. CASE WriteRecord(c, "receive", "record receive", "config")
    BY <2>2 DEF WriteRecord
  <2>3. CASE WriteConfig(c) BY <2>3 DEF WriteConfig
  <2>4. CASE TakeLock(c) BY <2>4 DEF TakeLock
  <2>5. CASE Locked(c) BY <2>5 DEF Locked
  <2>6. CASE Denied(c) BY <2>6 DEF Denied
  <2>7. CASE CheckSend(c) BY <2>7 DEF CheckSend
  <2>8. CASE WriteClaim(c) BY <2>8 DEF WriteClaim
  <2>9. CASE CheckMarkers(c) BY <2>9 DEF CheckMarkers
  <2>10. CASE WritePending(c) BY <2>10 DEF WritePending
  <2>11. CASE CheckReceive(c) BY <2>11 DEF CheckReceive
  <2>12. CASE Consume(c) BY <2>12 DEF Consume
  <2>13. CASE Probe(c) BY <2>13 DEF Probe
  <2>14. CASE CheckRevoke(c) BY <2>14 DEF CheckRevoke
  <2>15. CASE WriteRevoked(c) BY <2>15 DEF WriteRevoked
  <2>16. CASE Release(c) BY <2>16 DEF Release
  <2>17. QED BY <1>3, <2>1, <2>2, <2>3, <2>4, <2>5, <2>6, <2>7, <2>8,
                 <2>9, <2>10, <2>11, <2>12, <2>13, <2>14, <2>15, <2>16 DEF Operation
<1>4. ASSUME NEW c \in Client, Throw(c) PROVE RecordsInv'
  BY <1>4 DEF Throw
<1>5. ASSUME NEW c \in Client, Crash(c) PROVE RecordsInv'
  BY <1>5 DEF Crash
<1>6. CASE Reconcile
  BY <1>6 DEF Reconcile
<1>7. CASE UNCHANGED vars
  BY <1>7 DEF vars
<1>8. QED BY <1>1, <1>2, <1>3, <1>4, <1>5, <1>6, <1>7 DEF Next

(* What a client knows stays so while another works: only the holder of    *)
(* the lock changes messages or revocations.                               *)
LEMMA KnowsKept ==
    ASSUME NEW d \in Client, Knows(d),
           pc'[d] = pc[d], task'[d] = task[d], found'[d] = found[d], ok'[d] = ok[d],
           pc[d] \in Inside => UNCHANGED <<messages, revoked>>
    PROVE  Knows(d)'
BY DEF Knows, Working, Inside, Full, Named, messages

LEMMA OthersKnow ==
    ASSUME IInv, NEW c \in Client, NEW d \in Client, c # d,
           Create(c) \/ Begin(c) \/ Operation(c) \/ Throw(c) \/ Crash(c)
    PROVE  Knows(d)'
<1> USE DEF IInv, TWInv, LocalsOK, LockInv, messages, admitted, disk, Goto, Finish, Creating, Inside, At, Resolved
<1>1. pc'[d] = pc[d] /\ task'[d] = task[d] /\ found'[d] = found[d] /\ ok'[d] = ok[d]
  BY DEF Create, Begin, Operation, WriteRecord, WriteConfig, TakeLock, Locked, Denied, CheckSend,
         WriteClaim, CheckMarkers, WritePending, CheckReceive, Consume, Probe, CheckRevoke,
         WriteRevoked, Release, Throw, Crash
<1>2. pc[c] \notin Inside => UNCHANGED <<messages, revoked>>
  BY DEF Create, Begin, Operation, WriteRecord, WriteConfig, TakeLock, Locked, Denied, CheckSend,
         WriteClaim, CheckMarkers, WritePending, CheckReceive, Consume, Probe, CheckRevoke,
         WriteRevoked, Release, Throw, Crash
<1>3. pc[d] \in Inside => pc[c] \notin Inside
  OBVIOUS
<1>4. Knows(d)
  BY DEF OperationInv
<1>5. QED BY <1>1, <1>2, <1>3, <1>4, KnowsKept

(* What it knows itself after each of its steps. *)
LEMMA KnowsStep ==
    ASSUME IInv, NEW c \in Client,
           Create(c) \/ Begin(c) \/ Operation(c) \/ Throw(c) \/ Crash(c)
    PROVE  Knows(c)'
<1> USE KeyAssumption, BoundAssumption, NoneAssumption, DeadAssumption
    DEF IInv, TWInv, LocalsOK, DiskOK, Files, Working, messages, admitted, disk, Goto, Finish, Creating, Inside, At, Resolved
<1>1. Knows(c)
  BY DEF OperationInv
<1> USE <1>1 DEF Knows
<1>2. CASE Create(c) \/ Begin(c) \/ Throw(c) \/ Crash(c)
  BY <1>2 DEF Create, Begin, Throw, Crash
<1>3. CASE WriteConfig(c) \/ Locked(c) \/ Release(c)
  BY <1>3 DEF WriteConfig, Locked, Release
<1>4. CASE \/ WriteRecord(c, "send", "record send", "record receive")
           \/ WriteRecord(c, "receive", "record receive", "config")
           \/ TakeLock(c) \/ Denied(c)
  BY <1>4 DEF WriteRecord, TakeLock, Denied
<1>5. CASE CheckSend(c)
  BY <1>5 DEF CheckSend, Active
<1>6. CASE WriteClaim(c)
  BY <1>6, TaskFields DEF WriteClaim, Publish, Agrees
<1>7. CASE CheckMarkers(c)
  <2>1. task[c].key \in Key /\ task[c].body \in Body
    BY <1>7, TaskFields DEF CheckMarkers
  <2>2. /\ task' = task /\ UNCHANGED <<messages, revoked>>
        /\ pc'[c] = "deliver" \/ pc'[c] = "release"
    BY <1>7 DEF CheckMarkers
  <2>3. CASE pc'[c] = "deliver"
    <3>1. task[c].key \notin Named(pending) \union Named(consumed) /\ ~ Full
      BY <1>7, <2>3 DEF CheckMarkers
    <3>2. ok'[c] = FALSE
      BY <1>7, <3>1 DEF CheckMarkers
    <3>3. pending[task[c].key] = None /\ consumed[task[c].key] = None
      BY <2>1, <3>1 DEF Named
    <3>4. ~ Full'
      BY <2>2, <3>1 DEF Full, Named
    <3>5. QED BY <1>7, <2>1, <2>2, <2>3, <3>2, <3>3, <3>4 DEF CheckMarkers
  <2>4. CASE pc'[c] = "release"
    BY <1>7, <2>1, <2>2, <2>4 DEF CheckMarkers, Agrees
  <2>5. QED BY <2>2, <2>3, <2>4
<1>8. CASE WritePending(c)
  BY <1>8, TaskFields DEF WritePending, Publish, Agrees
<1>9. CASE CheckReceive(c)
  BY <1>9, FoundPending DEF CheckReceive, Active
<1>10. CASE Consume(c) \/ Probe(c)
  BY <1>10 DEF Consume, Probe
<1>11. CASE CheckRevoke(c) \/ WriteRevoked(c)
  BY <1>11 DEF CheckRevoke, WriteRevoked, Active
<1>12. QED BY <1>2, <1>3, <1>4, <1>5, <1>6, <1>7, <1>8, <1>9, <1>10, <1>11 DEF Operation

LEMMA OperationStep == IInv /\ [Next]_vars => OperationInv'
<1> SUFFICES ASSUME IInv, [Next]_vars, NEW d \in Client PROVE Knows(d)'
  BY DEF OperationInv
<1>1. ASSUME NEW c \in Client,
             Create(c) \/ Begin(c) \/ Operation(c) \/ Throw(c) \/ Crash(c)
      PROVE  Knows(d)'
  BY <1>1, KnowsStep, OthersKnow
<1>2. CASE Reconcile \/ UNCHANGED vars
  BY <1>2, KnowsKept DEF Reconcile, vars, disk, messages, IInv, OperationInv
<1>3. QED BY <1>1, <1>2 DEF Next

(* A marker is written behind its claim, and moves when it is consumed. *)
LEMMA MessagesStep == IInv /\ [Next]_vars => ClaimBinds' /\ AcceptedKept'
<1> SUFFICES ASSUME IInv, [Next]_vars PROVE ClaimBinds' /\ AcceptedKept'
  OBVIOUS
<1> USE KeyAssumption, BoundAssumption, NoneAssumption, DeadAssumption
    DEF IInv, TWInv, DiskOK, LocalsOK, Files, ClaimBinds, AcceptedKept
<1>1. ASSUME UNCHANGED <<messages, accepted>> PROVE ClaimBinds' /\ AcceptedKept'
  BY <1>1 DEF messages
<1>2. ASSUME NEW c \in Client, WriteClaim(c) PROVE ClaimBinds' /\ AcceptedKept'
  <2>1. task[c].key \in Key /\ task[c].body \in Body
    BY <1>2, TaskFields DEF WriteClaim, OperationInv, Knows, Inside
  <2>2. QED BY <1>2, <2>1 DEF WriteClaim, Publish
<1>3. ASSUME NEW c \in Client, WritePending(c) PROVE ClaimBinds' /\ AcceptedKept'
  <2>1. /\ task[c].key \in Key /\ claims[task[c].key] = task[c].body
        /\ pending[task[c].key] = None /\ consumed[task[c].key] = None
    BY <1>3, TaskFields DEF WritePending, OperationInv, Knows, Inside
  <2>2. QED BY <1>3, <2>1 DEF WritePending, Publish
<1>4. ASSUME NEW c \in Client, Consume(c) PROVE ClaimBinds' /\ AcceptedKept'
  <2>1. found[c] \in Key /\ pending[found[c]] # None
    BY <1>4 DEF Consume, OperationInv, Knows, Named
  <2>2. QED BY <1>4, <2>1 DEF Consume
<1>5. ASSUME NEW c \in Client, Release(c) PROVE ClaimBinds' /\ AcceptedKept'
  <2>1. ok[c] /\ task[c].op = "send" => task[c].body \in {pending[task[c].key], consumed[task[c].key]}
    BY <1>5 DEF Release, OperationInv, Knows
  <2>2. QED BY <1>5, <2>1 DEF Release, disk, messages
<1>6. QED BY <1>1, <1>2, <1>3, <1>4, <1>5
             DEF Next, Create, Begin, Operation, WriteRecord, WriteConfig, TakeLock, Locked, Denied,
                 CheckSend, CheckMarkers, CheckReceive, Probe, CheckRevoke, WriteRevoked, Throw,
                 Crash, Reconcile, vars, disk, messages

LEMMA IInvHolds == Spec => []IInv
<1>1. IInv /\ [Next]_vars => IInv'
  BY DiskStep, LocalsStep, LockStep, RecordsStep, OperationStep, MessagesStep DEF IInv, TWInv
<1>2. QED BY InitIInv, <1>1, PTL DEF Spec
-----------------------------------------------------------------------------
(* Every variable keeps its type.                                          *)
THEOREM MailboxTypes == Spec => []TypeOK
<1>1. IInv => TypeOK
  BY DEF IInv, TWInv, DiskOK, LocalsOK, TypeOK
<1>2. QED BY IInvHolds, <1>1, PTL

(* Whoever finds a config finds the capability records it names.           *)
THEOREM CreationUsable == Spec => []CapabilitiesAdmitted
<1>1. IInv => CapabilitiesAdmitted
  BY DEF IInv, RecordsInv
<1>2. QED BY IInvHolds, <1>1, PTL

(* No marker is without its claim or says something else.                  *)
THEOREM ClaimsBind == Spec => []ClaimBinds
<1>1. IInv => ClaimBinds
  BY DEF IInv
<1>2. QED BY IInvHolds, <1>1, PTL

(* What was accepted is delivered, whatever fails and dies.                *)
THEOREM AcceptedStays == Spec => []AcceptedKept
<1>1. IInv => AcceptedKept
  BY DEF IInv
<1>2. QED BY IInvHolds, <1>1, PTL
-----------------------------------------------------------------------------
Posted == [k \in Key |-> IF pending[k] # None THEN pending[k] ELSE consumed[k]]
Taken == {k \in Key : consumed[k] # None /\ pending[k] = None}

(* What waits in the channel is what is pending in the mailbox. *)
LEMMA WaitingPending == IInv => Abstract!Waiting = Named(pending)
BY DEF Abstract!Waiting, Named, IInv, TWInv, DiskOK, Files

(* The channel's instance of FiniteSets is the mailbox's. *)
LEMMA SameCardinality == \A S : Abstract!Cardinality(S) = Cardinality(S)
BY DEF Abstract!Cardinality, Cardinality

(* Posting, taking and revoking are one step each; everything else is      *)
(* invisible in the channel.                                               *)
LEMMA RefineStep == IInv /\ [Next]_vars => [Abstract!Next]_(Abstract!vars)
<1> SUFFICES ASSUME IInv, [Next]_vars
             PROVE  Abstract!Next \/ UNCHANGED <<Posted, Taken, revoked>>
  BY DEF Abstract!vars, Posted, Taken
<1> USE DEF IInv, TWInv, DiskOK, LocalsOK, Files
<1>1. ASSUME NEW c \in Client, WritePending(c) PROVE Abstract!Next
  <2> PICK k \in Key, b \in Body : k = task[c].key /\ b = task[c].body
    BY <1>1, TaskFields DEF WritePending, OperationInv, Knows, Inside
  <2>1. /\ pending[k] = None /\ consumed[k] = None /\ ~ Full
        /\ task[c].op = "send" /\ Needs(task[c]) \notin revoked
    BY <1>1 DEF WritePending, OperationInv, Knows, Working, Inside
  <2>2. Abstract!Cardinality(Abstract!Waiting) < MaxMessages
    <3>1. Cardinality(Named(pending)) \in Nat BY FS_CardinalityType
    <3>2. QED BY <2>1, <3>1, WaitingPending, BoundAssumption, SameCardinality DEF Full
  <2>3. pending' = [pending EXCEPT ![k] = b] /\ UNCHANGED <<consumed, revoked>>
    BY <1>1, <2>1 DEF WritePending, Publish
  <2>4. Posted' = [Posted EXCEPT ![k] = b] /\ Taken' = Taken
    BY <2>1, <2>3, NoneAssumption DEF Posted, Taken
  <2>5. Posted[k] = None BY <2>1 DEF Posted
  <2>6. "send" \notin revoked BY <2>1 DEF Needs
  <2>7. Abstract!Post(k, b)
    BY <2>2, <2>3, <2>4, <2>5, <2>6 DEF Abstract!Post, Posted, Taken
  <2>8. QED BY <2>7 DEF Abstract!Next
<1>2. ASSUME NEW c \in Client, Consume(c) PROVE Abstract!Next
  <2> PICK k \in Key : k = found[c]
    BY <1>2 DEF Consume, OperationInv, Knows, Named
  <2>1. pending[k] # None /\ task[c].op = "receive" /\ Needs(task[c]) \notin revoked
    BY <1>2 DEF Consume, OperationInv, Knows, Named, Working, Inside
  <2>2. /\ pending' = [pending EXCEPT ![k] = None]
        /\ consumed' = [consumed EXCEPT ![k] = pending[k]]
        /\ UNCHANGED revoked
    BY <1>2 DEF Consume
  <2>3. Posted' = Posted /\ Taken' = Taken \union {k}
    BY <2>1, <2>2 DEF Posted, Taken
  <2>4. k \in Abstract!Waiting BY <2>1, WaitingPending DEF Named
  <2>5. "receive" \notin revoked BY <2>1 DEF Needs
  <2>6. Abstract!Take(k)
    BY <2>2, <2>3, <2>4, <2>5 DEF Abstract!Take, Posted, Taken
  <2>7. QED BY <2>6 DEF Abstract!Next
<1>3. ASSUME NEW c \in Client, WriteRevoked(c) PROVE Abstract!Next
  <2>1. task[c].body \in Capability
    BY <1>3, TaskFields DEF WriteRevoked, OperationInv, Knows, Inside
  <2>2. Abstract!Revoke(task[c].body)
    BY <1>3 DEF WriteRevoked, messages, Abstract!Revoke
  <2>3. QED BY <2>1, <2>2 DEF Abstract!Next, Abstract!Capability, Capability
<1>4. ASSUME UNCHANGED <<pending, consumed, revoked>>
      PROVE  UNCHANGED <<Posted, Taken, revoked>>
  BY <1>4 DEF Posted, Taken
<1>5. QED BY <1>1, <1>2, <1>3, <1>4
             DEF Next, Create, Begin, Operation, WriteRecord, WriteConfig, TakeLock, Locked, Denied,
                 CheckSend, WriteClaim, CheckMarkers, CheckReceive, Probe, CheckRevoke, Release,
                 Throw, Crash, Reconcile, vars, disk, messages

(* The mailbox is a channel, whatever its clients do and wherever they die.*)
THEOREM MailboxIsChannel == Spec => ImplementsChannel
<1>1. Init => Abstract!Init
  BY DEF Init, Abstract!Init
<1>2. QED BY IInvHolds, RefineStep, <1>1, PTL DEF Spec, ImplementsChannel, Abstract!Spec
=============================================================================
