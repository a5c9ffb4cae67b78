--------------------- MODULE ApplicationLifecycleProofs ---------------------
(* Proofs about ApplicationLifecycle, for any callers, commands and bounds *)
(* and any number of failures.                                             *)
(*                                                                         *)
(* Custody is under three leases, so that two calls may work at once; the  *)
(* argument is which ones never do.  Who serves the outbox under the       *)
(* creation lease keeps everyone out of the application's own (RoomInv),   *)
(* so that two never serve at once, and no intent is asked for twice       *)
(* (RowInv, CallsInv): all of Base holds whatever happens.  Who commits    *)
(* under the pending lease does so on no history, on which there is        *)
(* nothing to serve, or it overlaps with nobody, or the step that follows  *)
(* is remembered by overtaken.  So until then what a call established      *)
(* about history and outbox (WorkInv) holds until it acts on it, and       *)
(* history and outbox agree (HistoryInv).                                  *)
EXTENDS ApplicationLifecycle, SequenceTheorems, TLAPS

Committing == {"prepare", "publish"}
Serving == {"dispatch", "row", "more", "call", "record", "reconcile"}

(* Who works holds the lease its custody is under.                         *)
CustodyOf(c) ==
    /\ pc[c] \in {"idle", "scan"} => room[c] = None
    /\ pc[c] = "lease" => room[c] \in {"application", "pending"}
    /\ pc[c] \in Working => room[c] \in Room /\ lease[room[c]] = c
CustodyInv == \A c \in Client : CustodyOf(c)

(* A call is at a step of its own kind.                                    *)
CallOf(c) ==
    pc[c] # "idle" =>
        /\ job[c] \in Job
        /\ pc[c] \in {"commit"} \union Committing => job[c].what = "commit"
        /\ pc[c] \in Serving => job[c].what # "commit"
        /\ pc[c] \in Serving \ {"reconcile"} => job[c].what = "dispatch"
        /\ pc[c] = "reconcile" => job[c].what = "reconcile"
        /\ job[c].what = "commit" => (job[c].cmd.kind = "create" <=> job[c].expected = <<>>)
CallInv == \A c \in Client : CallOf(c)

(* What each lease is for.                                                 *)
RoomOf(c) ==
    /\ room[c] = "creation" => pc[c] \in Serving
    /\ room[c] = "pending" => pc[c] # "idle" /\ job[c].what = "commit"
    /\ room[c] = "application" => head # <<>> /\ \A d \in Client : room[d] # "creation"
RoomInv == \A c \in Client : RoomOf(c)

(* What a call that serves the outbox knows of it, whoever commits.        *)
RowOf(c) ==
    /\ pc[c] \in {"row", "more", "call", "record"} => \A i \in rows[c] : ~ Dispatched(i)
    /\ pc[c] \in {"call", "record"} => row[c] \in Op /\ Dispatched(row[c])
    /\ pc[c] = "call" => calls[row[c]] = 0
    /\ pc[c] = "record" => answer[c] \in Outcome
RowInv == \A c \in Client : RowOf(c)

CallsInv == \A i \in Op : calls[i] <= 1 /\ (~ Dispatched(i) => calls[i] = 0)

Base == TypeOK /\ CustodyInv /\ CallInv /\ RoomInv /\ RowInv /\ CallsInv

(* What a call knows of history and outbox while it works, in a custody    *)
(* that was exclusive.                                                     *)
WorkOf(c) ==
    /\ pc[c] \in Committing =>
          /\ head = job[c].expected
          /\ job[c].cmd.op \notin Known(head)
          /\ Barrier(job[c].cmd, head)
    /\ pc[c] \in {"row", "more", "call", "record"} => rows[c] \subseteq Waiting
    /\ pc[c] \in {"call", "record"} => outbox[row[c]].status = "started"
WorkInv == \A c \in Client : WorkOf(c)

(* What the outbox holds is live work of the history.                      *)
Live(h) == Created(h) \ Abandoned(h)
HistoryInv ==
    /\ Readable(head)
    /\ Abandoned(head) \subseteq Created(head)
    /\ \A i \in Op : Dispatched(i) => i \in Live(head)

Sound == Base /\ WorkInv /\ HistoryInv
IInv == Base /\ (overtaken = 0 => WorkInv /\ HistoryInv)
-----------------------------------------------------------------------------
LEMMA CommandFields ==
    ASSUME NEW cmd \in Command
    PROVE  /\ cmd.op \in Op /\ cmd.kind \in Kind /\ cmd.intent \in BOOLEAN
           /\ \A i \in Op : cmd.drain[i] \in Disposition
           /\ Named(cmd) # {} => cmd.kind = "migrate"
<1>1. cmd \in [op : Op, kind : Kind, intent : BOOLEAN, drain : [Op -> Disposition]]
  BY CommandAssumption
<1>2. cmd.kind # "migrate" => Named(cmd) = {}
  BY CommandAssumption DEF Named
<1>3. QED BY <1>1, <1>2

LEMMA JobFields ==
    ASSUME NEW j \in Job
    PROVE  /\ j.what \in {"commit", "dispatch", "reconcile"}
           /\ j.what = "commit" => j.cmd \in Command /\ j.expected \in Seq(Command)
           /\ j.what \in {"dispatch", "reconcile"} => j.config \in Config
           /\ j.what = "reconcile" => j.intent \in Op
BY DEF Job

(* Writing the status of a record that is there.                           *)
Entry == [config : Config, status : Outcome \union {"started"}]
LEMMA StatusSet ==
    ASSUME outbox \in [Op -> Entry \union {None}], NEW i \in Op, outbox[i] # None,
           NEW s \in Outcome \union {"started"}, outbox' = [outbox EXCEPT ![i].status = s]
    PROVE  /\ outbox' \in [Op -> Entry \union {None}]
           /\ outbox'[i].status = s /\ outbox'[i] # None
           /\ \A j \in Op \ {i} : outbox'[j] = outbox[j]
<1>1. outbox[i] \in Entry
  OBVIOUS
<1>2. [outbox[i] EXCEPT !.status = s] \in Entry /\ [outbox[i] EXCEPT !.status = s].status = s
  BY <1>1 DEF Entry
<1>3. None \notin Entry
  BY NoneAssumption DEF Entry, Outcome
<1>4. outbox' = [outbox EXCEPT ![i] = [outbox[i] EXCEPT !.status = s]]
  OBVIOUS
<1>5. QED BY <1>2, <1>3, <1>4

(* A step is one caller's, and leaves the others where they are with the   *)
(* leases they hold.                                                       *)
Commits(c) == \E cmd \in Command, h \in Expected : Commit(c, cmd, h)
Serves(c) == \E k \in Config : DispatchPending(c, k) \/ \E i \in Op : ReconcileDispatch(c, i, k)
Moves(c) == Commits(c) \/ Serves(c) \/ Step(c) \/ Fail(c)

Elsewhere(c) ==
    /\ \A d \in Client \ {c} :
          /\ pc'[d] = pc[d] /\ job'[d] = job[d] /\ room'[d] = room[d]
          /\ rows'[d] = rows[d] /\ row'[d] = row[d] /\ answer'[d] = answer[d]
    /\ \A r \in Room : \A d \in Client \ {c} : lease[r] = d => lease'[r] = d

LEMMA OneMoves ==
    ASSUME TypeOK, Next, ~ Neighbour
    PROVE  \E c \in Client : Moves(c) /\ Elsewhere(c)
<1>1. PICK c \in Client : Moves(c)
  BY DEF Next, Moves, Commits, Serves
<1>2. \A d \in Client \ {c} :
          /\ pc'[d] = pc[d] /\ job'[d] = job[d] /\ room'[d] = room[d]
          /\ rows'[d] = rows[d] /\ row'[d] = row[d] /\ answer'[d] = answer[d]
  BY <1>1 DEF Moves, Commits, Serves, TypeOK, Commit, DispatchPending, ReconcileDispatch, Call, Step, Scan, TakeLease,
       CheckCommit, Prepare, Publish, Select, Deny, Start, Ask, Record, EndBatch, Reconcile, Fail,
       Goto, Finish, locals
<1>3. \A r \in Room : \A d \in Client \ {c} : lease[r] = d => lease'[r] = d
  BY <1>1, NoneAssumption DEF Moves, Commits, Serves, TypeOK, Commit, DispatchPending, ReconcileDispatch, Call, Step, Scan,
       TakeLease, CheckCommit, Prepare, Publish, Select, Deny, Start, Ask, Record, EndBatch, Reconcile,
       Fail, Finish
<1>4. QED BY <1>1, <1>2, <1>3 DEF Elsewhere

(* The ghost looks at the state that is left.                              *)
LEMMA WatchStep ==
    ASSUME TypeOK, Watch
    PROVE  /\ overtaken' \in {0, 1}
           /\ overtaken' = 0 => overtaken = 0 /\ \A x \in Client : ~ Overlapping(x)
BY DEF TypeOK, Watch

LEMMA AllWatch ==
    ASSUME NEW c \in Client, Moves(c)
    PROVE  Watch
BY DEF Moves, Commits, Serves, Step, Commit, DispatchPending, ReconcileDispatch, Call, Scan, TakeLease,
       CheckCommit, Prepare, Publish, Select, Deny, Start, Ask, Record, EndBatch, Reconcile, Fail, Finish, Goto
-----------------------------------------------------------------------------
LEMMA FinishType ==
    ASSUME TypeOK, NEW c \in Client, Finish(c)
    PROVE  /\ lease' \in [Room -> Client \union {None}]
           /\ pc' \in [Client -> {"idle", "scan", "lease"} \union Working]
           /\ job' \in [Client -> Job \union {None}]
           /\ room' \in [Client -> Room \union {None}]
           /\ read' \in [Client -> Seq(Command)]
           /\ rows' \in [Client -> SUBSET Op]
           /\ row' \in [Client -> Op \union {None}]
           /\ answer' \in [Client -> Outcome \union {None}]
BY EmptySeq DEF TypeOK, Finish, Goto

LEMMA NeighbourStep ==
    ASSUME TypeOK, Neighbour
    PROVE  /\ TypeOK'
           /\ UNCHANGED <<head, ops, outbox, own, lease, pc, job, room, read, rows, row, answer, faults, calls>>
           /\ overtaken' = 0 => overtaken = 0
<1>1. UNCHANGED <<head, ops, outbox, own, lease, pc, job, room, read, rows, row, answer, faults, calls>>
  BY DEF Neighbour, disk, locals
<1>2. Watch
  BY DEF Neighbour
<1>3. overtaken' \in {0, 1} /\ (overtaken' = 0 => overtaken = 0)
  BY <1>2, WatchStep
<1>4. others' \in Nat /\ own + others' <= MaxApplications
  BY BoundsAssumption DEF Neighbour, Exhausted, TypeOK
<1>5. QED BY <1>1, <1>3, <1>4 DEF TypeOK

LEMMA TypeStep ==
    ASSUME Base, NEW c \in Client, Moves(c)
    PROVE  TypeOK'
<1> USE DEF Base
<1>0. overtaken' \in {0, 1}
  BY AllWatch, WatchStep
<1>1. ASSUME NEW j \in Job, Call(c, j) PROVE TypeOK'
  BY <1>0, <1>1 DEF TypeOK, Call, Goto, disk, namespace
<1>2. CASE Commits(c)
  <2>1. PICK cmd \in Command, h \in Expected : Commit(c, cmd, h)
    BY <1>2 DEF Commits
  <2>2. [what |-> "commit", cmd |-> cmd, expected |-> h] \in Job
    BY ExpectedAssumption DEF Job
  <2>3. QED BY <1>1, <2>1, <2>2 DEF Commit
<1>3. CASE Serves(c)
  <2>1. PICK k \in Config : DispatchPending(c, k) \/ \E i \in Op : ReconcileDispatch(c, i, k)
    BY <1>3 DEF Serves
  <2>2. CASE DispatchPending(c, k)
    <3>1. [what |-> "dispatch", config |-> k] \in Job
      BY DEF Job
    <3>2. QED BY <1>1, <2>2, <3>1 DEF DispatchPending
  <2>3. CASE \E i \in Op : ReconcileDispatch(c, i, k)
    <3>1. PICK i \in Op : ReconcileDispatch(c, i, k)
      BY <2>3
    <3>2. [what |-> "reconcile", intent |-> i, config |-> k] \in Job
      BY DEF Job
    <3>3. QED BY <1>1, <3>1, <3>2 DEF ReconcileDispatch
  <2>4. QED BY <2>1, <2>2, <2>3
<1>4. CASE Scan(c)
  <2>1. job[c].what \in Working /\ {"application", "pending", "creation"} \subseteq Room
    BY <1>4, JobFields DEF Scan, CallInv, CallOf, Working, Room
  <2>2. CASE Finish(c)
    BY <1>0, <1>4, <2>2, FinishType DEF Scan, TypeOK, disk, namespace
  <2>3. CASE ~ Finish(c)
    <3>1. Chosen(c) \in Room
      BY <2>1 DEF Chosen
    <3>2. QED BY <1>0, <1>4, <2>1, <2>3, <3>1 DEF Scan, TypeOK, Goto, disk, namespace
  <2>4. QED BY <2>2, <2>3
<1>5. CASE TakeLease(c)
  <2>1. job[c].what \in Working /\ room[c] \in Room
    BY <1>5, JobFields DEF TakeLease, CallInv, CallOf, Working, CustodyInv, CustodyOf, Room
  <2>2. CASE Finish(c)
    BY <1>0, <1>5, <2>2, FinishType DEF TakeLease, TypeOK, disk, namespace
  <2>3. CASE ~ Finish(c)
    BY <1>0, <1>5, <2>1, <2>3 DEF TakeLease, TypeOK, Goto, disk, namespace, locals
  <2>4. QED BY <2>2, <2>3
<1>6. CASE CheckCommit(c) \/ Select(c)
  <2>1. CASE Finish(c)
    BY <1>0, <1>6, <2>1, FinishType DEF CheckCommit, Select, TypeOK, disk, namespace
  <2>2. CASE ~ Finish(c)
    <3>1. Waiting \subseteq Op
      BY DEF Waiting, Pending, Created
    <3>2. CASE CheckCommit(c)
      BY <1>0, <2>2, <3>2 DEF CheckCommit, TypeOK, Goto, disk, namespace, locals, Working
    <3>3. CASE Select(c)
      <4>1. /\ read' = [read EXCEPT ![c] = head]
            /\ rows' = [rows EXCEPT ![c] = Waiting] /\ pc' = [pc EXCEPT ![c] = "row"]
            /\ UNCHANGED <<disk, namespace, lease, job, room, row, answer, faults, calls>>
        BY <2>2, <3>3 DEF Select, Goto
      <4>2. rows' \in [Client -> SUBSET Op] /\ read' \in [Client -> Seq(Command)]
        BY <3>1, <4>1 DEF TypeOK
      <4>3. QED BY <1>0, <4>1, <4>2 DEF TypeOK, disk, namespace, Working
    <3>4. QED BY <1>6, <3>2, <3>3
  <2>3. QED BY <2>1, <2>2
<1>7. CASE Prepare(c)
  <2>1. /\ Request(c) \in [cmd : Command, expected : Seq(Command)]
        /\ job[c].cmd.op \in Op
    BY <1>7, JobFields, CommandFields DEF Prepare, CallInv, CallOf, Committing, Request
  <2>2. own' \in {0, 1} /\ others' \in Nat /\ own' + others' <= MaxApplications
    BY <1>7, BoundsAssumption DEF Prepare, Charged, Exhausted, TypeOK
  <2>3. CASE Finish(c)
    BY <1>0, <1>7, <2>1, <2>2, <2>3, FinishType DEF Prepare, TypeOK
  <2>4. CASE ~ Finish(c)
    <3>1. ops' \in [Op -> [cmd : Command, expected : Seq(Command)] \union {None}]
      BY <1>7, <2>1, <2>4 DEF Prepare, TypeOK
    <3>2. QED BY <1>0, <1>7, <2>2, <2>4, <3>1 DEF Prepare, TypeOK, Goto, locals, Working
  <2>5. QED BY <2>3, <2>4
<1>8. CASE Publish(c)
  <2>1. job[c].expected \in Seq(Command) /\ job[c].cmd \in Command
    BY <1>8, JobFields DEF Publish, CallInv, CallOf, Committing
  <2>2. Append(job[c].expected, job[c].cmd) \in Seq(Command)
    BY <2>1, AppendProperties
  <2>3. QED BY <1>0, <1>8, <2>2, FinishType DEF Publish, TypeOK, namespace
<1>9. CASE Deny(c)
  BY <1>0, <1>9 DEF Deny, TypeOK, disk, namespace
<1>10. CASE Start(c)
  <2>1. PICK i \in Op :
          LET record == [config |-> job[c].config, status |-> "started"] IN
          IF outbox[i] \in {None, record}
          THEN /\ outbox' = [outbox EXCEPT ![i] = record]
               /\ rows' = [rows EXCEPT ![c] = @ \ {i}]
               /\ row' = [row EXCEPT ![c] = i]
               /\ Goto(c, "call")
               /\ UNCHANGED <<lease, job, room, read, answer>>
          ELSE Finish(c) /\ UNCHANGED outbox
    BY <1>10 DEF Start
  <2>2. UNCHANGED <<head, ops, namespace, faults, calls>>
    BY <1>10 DEF Start
  <2>3. [config |-> job[c].config, status |-> "started"] \in Entry
    BY <1>10, JobFields DEF Start, CallInv, CallOf, Serving, Entry
  <2>4. CASE Finish(c) /\ UNCHANGED outbox
    BY <1>0, <2>2, <2>4, FinishType DEF TypeOK, namespace
  <2>5. CASE ~ (Finish(c) /\ UNCHANGED outbox)
    <3>1. /\ outbox' = [outbox EXCEPT ![i] = [config |-> job[c].config, status |-> "started"]]
          /\ rows' = [rows EXCEPT ![c] = @ \ {i}]
          /\ row' = [row EXCEPT ![c] = i]
          /\ Goto(c, "call")
          /\ UNCHANGED <<lease, job, room, read, answer>>
      BY <2>1, <2>5
    <3>2. outbox' \in [Op -> Entry \union {None}]
      BY <2>3, <3>1 DEF TypeOK, Entry
    <3>3. rows' \in [Client -> SUBSET Op] /\ row' \in [Client -> Op \union {None}]
      BY <3>1 DEF TypeOK
    <3>4. QED BY <1>0, <2>2, <3>1, <3>2, <3>3 DEF TypeOK, Goto, Working, Entry, namespace
  <2>6. QED BY <2>4, <2>5
<1>11. CASE Ask(c)
  <2>1. row[c] \in Op
    BY <1>11 DEF Ask, RowInv, RowOf
  <2>2. calls' \in [Op -> Nat]
    BY <1>11, <2>1 DEF Ask, TypeOK
  <2>3. QED BY <1>0, <1>11, <2>2 DEF Ask, TypeOK, Goto, disk, namespace, Working
<1>12. CASE Record(c)
  <2>1. outbox' \in [Op -> Entry \union {None}]
    BY <1>12, StatusSet DEF Record, RowInv, RowOf, TypeOK, Entry, Dispatched
  <2>2. QED BY <1>0, <1>12, <2>1 DEF Record, TypeOK, Goto, Entry, Working, namespace
<1>13. CASE EndBatch(c)
  BY <1>0, <1>13, FinishType DEF EndBatch, TypeOK, disk, namespace
<1>14. CASE Reconcile(c)
  <2>1. outbox' \in [Op -> Entry \union {None}]
    <3>1. job[c].intent \in Op
      BY <1>14, JobFields DEF Reconcile, CallInv, CallOf
    <3>2. CASE UNCHANGED outbox
      BY <3>2 DEF TypeOK, Entry
    <3>3. CASE outbox' # outbox
      <4>1. PICK a \in Outcome : outbox' = [outbox EXCEPT ![job[c].intent].status = a]
        BY <1>14, <3>3 DEF Reconcile
      <4>2. QED BY <1>14, <3>1, <3>3, <4>1, StatusSet DEF Reconcile, TypeOK, Entry, Dispatched
    <3>4. QED BY <3>2, <3>3
  <2>2. QED BY <1>0, <1>14, <2>1, FinishType DEF Reconcile, TypeOK, Entry, namespace
<1>15. CASE Fail(c)
  <2>1. faults' \in 0..MaxFaults
    BY <1>15, BoundsAssumption DEF Fail, TypeOK
  <2>2. own' \in {0, 1} /\ others' \in Nat /\ own' + others' <= MaxApplications
    <3>1. others' = others /\ (own' = own \/ (own' = 1 /\ Charged))
      BY <1>15 DEF Fail
    <3>2. QED BY <3>1, BoundsAssumption DEF Charged, Exhausted, TypeOK
  <2>3. QED BY <1>0, <1>15, <2>1, <2>2, FinishType DEF Fail, TypeOK, disk
<1>16. QED BY <1>2, <1>3, <1>4, <1>5, <1>6, <1>7, <1>8, <1>9, <1>10, <1>11, <1>12, <1>13, <1>14, <1>15
       DEF Moves, Step
-----------------------------------------------------------------------------
(* What a step does to the call that takes it.                             *)
Goes(c) ==
    /\ UNCHANGED <<lease, job, room>> /\ pc[c] \in Working /\ pc'[c] \in Working
    /\ pc[c] \in {"commit"} \union Committing <=> pc'[c] \in {"commit"} \union Committing
    /\ pc[c] \in Serving \ {"reconcile"} <=> pc'[c] \in Serving \ {"reconcile"}
    /\ pc[c] # "reconcile"

LEMMA MoveKinds ==
    ASSUME TypeOK, NEW c \in Client, Moves(c)
    PROVE  \/ Finish(c)
           \/ Commits(c) \/ Serves(c)
           \/ Scan(c)
           \/ (TakeLease(c) /\ UNCHANGED locals)
           \/ Goes(c)
<1> USE DEF TypeOK, Goto, locals
<1>1. CASE CheckCommit(c) \/ Prepare(c)
  BY <1>1 DEF CheckCommit, Prepare, Goes, Working, Committing, Serving
<1>2. CASE Select(c) \/ Deny(c)
  BY <1>2 DEF Select, Deny, Goes, Working, Committing, Serving
<1>3. CASE Start(c)
  <2>1. pc[c] \in {"row", "more"} /\ (Finish(c) \/ (pc'[c] = "call" /\ UNCHANGED <<lease, job, room>>))
    BY <1>3 DEF Start
  <2>2. QED BY <2>1 DEF Goes, Working, Committing, Serving
<1>4. CASE Ask(c) \/ Record(c)
  BY <1>4 DEF Ask, Record, Goes, Working, Committing, Serving
<1>5. QED BY <1>1, <1>2, <1>3, <1>4 DEF Moves, Step, TakeLease, Publish, EndBatch, Reconcile, Fail

LEMMA CustodyStep ==
    ASSUME Base, NEW c \in Client, Moves(c), Elsewhere(c)
    PROVE  CustodyInv'
<1>1. ASSUME NEW d \in Client \ {c} PROVE CustodyOf(d)'
  BY DEF Base, CustodyInv, CustodyOf, Elsewhere
<1>2. CustodyOf(c)'
  <2> USE DEF Base, TypeOK, CustodyInv, CustodyOf, Goto
  <2>1. CASE Finish(c)
    BY <2>1 DEF Finish, Working
  <2>2. CASE Commits(c) \/ Serves(c)
    BY <2>2 DEF Commits, Serves, Commit, DispatchPending, ReconcileDispatch, Call, Working
  <2>3. CASE Scan(c)
    <3>1. job[c].what \in Working \ {"lease"}
      BY <2>3, JobFields DEF Scan, CallInv, CallOf, Working
    <3>2. QED BY <2>1, <2>3, <3>1 DEF Scan, Chosen, Working, Room
  <2>4. CASE TakeLease(c) /\ UNCHANGED locals
    <3>1. job[c].what \in Working \ {"lease"}
      BY <2>4, JobFields DEF TakeLease, CallInv, CallOf, Working
    <3>2. QED BY <2>4, <3>1 DEF TakeLease, Finish, Working, Room, locals
  <2>5. CASE Goes(c)
    BY <2>5 DEF Goes, Working
  <2> HIDE DEF Base, TypeOK, CustodyInv, CustodyOf, Goto
  <2>6. TypeOK
    BY DEF Base
  <2>7. QED BY <2>1, <2>2, <2>3, <2>4, <2>5, <2>6, MoveKinds
<1>3. QED BY <1>1, <1>2 DEF CustodyInv

(* The history is only replaced by a commit, and never by none.            *)
LEMMA HeadStep ==
    ASSUME Base, NEW c \in Client, Moves(c)
    PROVE  /\ head' = head \/ Publish(c)
           /\ head' = <<>> => head = <<>>
<1>1. head' = head \/ Publish(c)
  BY DEF Moves, Commits, Serves, Step, Commit, DispatchPending, ReconcileDispatch, Call, Scan, TakeLease, CheckCommit, Prepare,
       Select, Deny, Start, Ask, Record, EndBatch, Reconcile, Fail, disk
<1>2. Publish(c) => head' # <<>>
  <2> SUFFICES ASSUME Publish(c) PROVE head' # <<>>
    OBVIOUS
  <2>1. job[c].expected \in Seq(Command) /\ job[c].cmd \in Command
    BY JobFields DEF Publish, Base, CallInv, CallOf, Committing
  <2>2. QED BY <2>1, AppendProperties DEF Publish
<1>3. QED BY <1>1, <1>2

LEMMA CallStep ==
    ASSUME Base, NEW c \in Client, Moves(c), Elsewhere(c)
    PROVE  CallInv'
<1>1. ASSUME NEW d \in Client \ {c} PROVE CallOf(d)'
  BY DEF Base, CallInv, CallOf, Elsewhere
<1>2. CallOf(c)'
  <2> USE DEF Base, TypeOK, CallInv, CallOf, Goto
  <2>1. CASE Finish(c)
    BY <2>1 DEF Finish
  <2>2. CASE Commits(c)
    <3>1. PICK cmd \in Command, h \in Expected : Commit(c, cmd, h)
      BY <2>2 DEF Commits
    <3>2. DEFINE j == [what |-> "commit", cmd |-> cmd, expected |-> h]
    <3>3. j \in Job /\ j.what = "commit" /\ j.cmd = cmd /\ j.expected = h
      BY ExpectedAssumption DEF Job
    <3>4. pc'[c] = "scan" /\ job'[c] = j /\ (cmd.kind = "create" <=> h = <<>>)
      BY <3>1 DEF Commit, Call
    <3> HIDE DEF j
    <3>5. QED BY <3>3, <3>4 DEF Committing, Serving
  <2>3. CASE Serves(c)
    <3>1. PICK k \in Config : DispatchPending(c, k) \/ \E i \in Op : ReconcileDispatch(c, i, k)
      BY <2>3 DEF Serves
    <3>2. job'[c] \in Job /\ job'[c].what # "commit" /\ pc'[c] = "scan"
      BY <3>1 DEF DispatchPending, ReconcileDispatch, Call, Job
    <3>3. QED BY <3>2 DEF Committing, Serving
  <2>4. CASE Scan(c) \/ (TakeLease(c) /\ UNCHANGED locals)
    <3>1. CASE Finish(c)
      BY <2>1, <3>1
    <3>2. CASE ~ Finish(c)
      <4>1. UNCHANGED job /\ pc'[c] \in {"lease", job[c].what} /\ pc[c] # "idle"
        BY <2>4, <3>2 DEF Scan, TakeLease, locals
      <4>2. job[c] \in Job
        BY <4>1
      <4>3. QED BY <4>1, <4>2, JobFields DEF Committing, Serving
    <3>3. QED BY <3>1, <3>2
  <2>5. CASE Goes(c)
    BY <2>5 DEF Goes, Committing, Serving, Working
  <2> HIDE DEF Base, TypeOK, CallInv, CallOf, Goto
  <2>6. TypeOK
    BY DEF Base
  <2>7. QED BY <2>1, <2>2, <2>3, <2>4, <2>5, <2>6, MoveKinds
<1>3. QED BY <1>1, <1>2 DEF CallInv

LEMMA RoomStep ==
    ASSUME Base, NEW c \in Client, Moves(c), Elsewhere(c)
    PROVE  RoomInv'
<1>0. /\ head' = <<>> => head = <<>>
      /\ \A d \in Client : room[d] = "creation" => lease["creation"] = d
      /\ None \notin Room
  BY HeadStep, NoneAssumption DEF Base, RoomInv, RoomOf, CustodyInv, CustodyOf, Serving, Working
<1>1. \/ room'[c] \in {room[c], None}
      \/ /\ Scan(c) /\ room'[c] = "creation" /\ head = <<>> /\ job[c].what # "commit"
      \/ /\ Scan(c) /\ room'[c] = "pending" /\ head = <<>> /\ job[c].what = "commit"
      \/ /\ Scan(c) /\ room'[c] = "application" /\ head # <<>> /\ lease["creation"] = None
  BY DEF Base, TypeOK, Moves, Commits, Serves, Step, Commit, DispatchPending, ReconcileDispatch, Call, Scan, TakeLease, CheckCommit, Chosen,
       Prepare, Publish, Select, Deny, Start, Ask, Record, EndBatch, Reconcile, Fail, Finish, locals
<1>2. ASSUME NEW d \in Client \ {c} PROVE RoomOf(d)'
  <2>1. room[d] = "application" => \A e \in Client : room'[e] # "creation"
    BY <1>0, <1>1 DEF Base, RoomInv, RoomOf, Elsewhere, Room
  <2>2. QED BY <1>0, <2>1 DEF Base, RoomInv, RoomOf, Elsewhere
<1>3. RoomOf(c)'
  <2> USE DEF Base, TypeOK, RoomInv, RoomOf, Goto
  <2>1. CASE room'[c] = None
    BY <1>0, <2>1 DEF Room
  <2>2. CASE Scan(c) /\ room'[c] # None
    <3>1. /\ UNCHANGED <<job, head>> /\ pc'[c] # "idle" /\ job[c] \in Job
          /\ room'[c] = "creation" => pc'[c] = job[c].what
      <4>1. ~ Finish(c)
        BY <2>2 DEF Finish
      <4>2. job[c] \in Job /\ job[c].what # "idle"
        BY <2>2, JobFields DEF Scan, CallInv, CallOf
      <4>3. QED BY <2>2, <4>1, <4>2 DEF Scan, disk
    <3>2. room'[c] = "application" => head # <<>> /\ \A d \in Client : room'[d] # "creation"
      BY <1>0, <1>1, <2>2, NoneAssumption DEF Scan, Elsewhere
    <3>3. room'[c] = "creation" => pc'[c] \in Serving
      BY <1>1, <2>2, <3>1, JobFields, NoneAssumption DEF Serving, Scan, CustodyInv, CustodyOf, Room
    <3>4. room'[c] = "pending" => job[c].what = "commit"
      BY <1>1, <2>2, NoneAssumption DEF Scan, CallInv, CallOf, CustodyInv, CustodyOf, Room
    <3>5. QED BY <3>1, <3>2, <3>3, <3>4
  <2>3. CASE room'[c] = room[c] /\ room[c] # None /\ ~ Scan(c)
    <3>1. pc[c] \notin {"idle", "scan"}
      BY <2>3 DEF CustodyInv, CustodyOf
    <3>2. CASE Finish(c)
      BY <2>3, <3>2 DEF Finish
    <3>3. CASE ~ Finish(c)
      <4>1. UNCHANGED job /\ pc'[c] # "idle" /\ (pc[c] \in Serving => pc'[c] \in Serving)
        <5>1. Goes(c) \/ (TakeLease(c) /\ UNCHANGED locals)
          BY <3>1, <3>3, <2>3, MoveKinds DEF Commits, Serves, Commit, DispatchPending, ReconcileDispatch, Call
        <5>2. CASE Goes(c)
          BY <5>2 DEF Goes, Serving, Working
        <5>3. CASE TakeLease(c) /\ UNCHANGED locals
          <6>1. pc[c] = "lease" /\ pc'[c] = job[c].what /\ job[c] \in Job
            BY <3>3, <5>3 DEF TakeLease, CallInv, CallOf
          <6>2. QED BY <5>3, <6>1, JobFields DEF locals, Serving
        <5>4. QED BY <5>1, <5>2, <5>3
      <4>2. room[c] = "application" => \A d \in Client : room'[d] # "creation"
        BY <2>3 DEF Elsewhere
      <4>3. QED BY <1>0, <2>3, <4>1, <4>2
    <3>4. QED BY <3>2, <3>3
  <2>4. QED BY <1>1, <2>1, <2>2, <2>3
<1>4. QED BY <1>2, <1>3 DEF RoomInv
-----------------------------------------------------------------------------
(* Only who serves writes the outbox, and one intent at a time: one that   *)
(* waits is dispatched, or one that was dispatched is written again.       *)
Wrote(i) == outbox'[i] # None /\ \A j \in Op \ {i} : outbox'[j] = outbox[j]

LEMMA StartWrites ==
    ASSUME Base, NEW c \in Client, Start(c), ~ Finish(c)
    PROVE  \E i \in Op :
              /\ i \in rows[c] /\ ~ Dispatched(i) /\ Wrote(i) /\ outbox'[i].status = "started"
              /\ rows'[c] = rows[c] \ {i} /\ row'[c] = i /\ pc'[c] = "call"
<1>1. PICK i \in Op :
        /\ i \in rows[c]
        /\ outbox' = [outbox EXCEPT ![i] = [config |-> job[c].config, status |-> "started"]]
        /\ rows' = [rows EXCEPT ![c] = @ \ {i}]
        /\ row' = [row EXCEPT ![c] = i]
        /\ Goto(c, "call")
  BY DEF Start, First
<1>2. ~ Dispatched(i)
  BY <1>1 DEF Start, Base, RowInv, RowOf
<1>3. [config |-> job[c].config, status |-> "started"] \in Entry
  BY JobFields DEF Start, Base, CallInv, CallOf, Serving, Entry
<1>4. outbox'[i] \in Entry /\ outbox'[i].status = "started" /\ \A j \in Op \ {i} : outbox'[j] = outbox[j]
  BY <1>1, <1>3 DEF Base, TypeOK
<1>5. outbox'[i] # None
  BY <1>4, NoneAssumption DEF Entry
<1>6. rows'[c] = rows[c] \ {i} /\ row'[c] = i /\ pc'[c] = "call"
  BY <1>1 DEF Base, TypeOK, Goto
<1>7. QED BY <1>1, <1>2, <1>4, <1>5, <1>6 DEF Wrote

LEMMA RecordWrites ==
    ASSUME Base, NEW c \in Client, Record(c)
    PROVE  /\ row[c] \in Op /\ Dispatched(row[c]) /\ Wrote(row[c])
           /\ outbox'[row[c]].status = answer[c]
<1>1. row[c] \in Op /\ Dispatched(row[c]) /\ answer[c] \in Outcome
  BY DEF Record, Base, RowInv, RowOf
<1>2. QED BY <1>1, StatusSet DEF Record, Base, TypeOK, Entry, Dispatched, Wrote

LEMMA ReconcileWrites ==
    ASSUME Base, NEW c \in Client, Reconcile(c), outbox' # outbox
    PROVE  \E i \in Op :
              /\ i \in Pending(head) /\ Dispatched(i) /\ Wrote(i)
              /\ outbox'[i].status \in Outcome
<1>1. job[c].intent \in Op /\ job[c].intent \in Pending(head) /\ Dispatched(job[c].intent)
  BY JobFields DEF Reconcile, Base, CallInv, CallOf
<1>2. PICK a \in Outcome : outbox' = [outbox EXCEPT ![job[c].intent].status = a]
  BY DEF Reconcile
<1>3. outbox \in [Op -> Entry \union {None}] /\ a \in Outcome \union {"started"} /\ outbox[job[c].intent] # None
  BY <1>1 DEF Base, TypeOK, Entry, Dispatched
<1>4. /\ outbox'[job[c].intent].status = a /\ outbox'[job[c].intent] # None
      /\ \A j \in Op \ {job[c].intent} : outbox'[j] = outbox[j]
  BY <1>1, <1>2, <1>3, StatusSet
<1>5. QED BY <1>1, <1>4 DEF Wrote

LEMMA OutboxKinds ==
    ASSUME TypeOK, NEW c \in Client, Moves(c), outbox' # outbox
    PROVE  (Start(c) /\ ~ Finish(c)) \/ Record(c) \/ Reconcile(c)
BY DEF TypeOK, Goto, Finish, Moves, Commits, Serves, Step, Commit, DispatchPending, ReconcileDispatch, Call, Scan,
       TakeLease, CheckCommit, Prepare, Publish, Select, Deny, Start, Ask, EndBatch, Fail, disk

LEMMA CallsKinds ==
    ASSUME NEW c \in Client, Moves(c), calls' # calls
    PROVE  Ask(c)
BY DEF Moves, Commits, Serves, Step, Commit, DispatchPending, ReconcileDispatch, Call, Scan, TakeLease,
       CheckCommit, Prepare, Publish, Select, Deny, Start, Record, EndBatch, Reconcile, Fail

LEMMA OutboxStep ==
    ASSUME Base, NEW c \in Client, Moves(c), outbox' # outbox
    PROVE  /\ pc[c] \in Serving /\ UNCHANGED <<head, calls>>
           /\ \E i \in Op : Wrote(i)
           /\ \A i \in Op : Dispatched(i) => Dispatched(i)'
<1>1. (Start(c) /\ ~ Finish(c)) \/ Record(c) \/ Reconcile(c)
  BY OutboxKinds DEF Base
<1>2. pc[c] \in Serving /\ UNCHANGED <<head, calls>>
  BY <1>1 DEF Start, Record, Reconcile, Serving
<1>3. PICK i \in Op : Wrote(i)
  BY <1>1, StartWrites, RecordWrites, ReconcileWrites
<1>4. QED BY <1>2, <1>3 DEF Wrote, Dispatched

(* Two never serve.                                                        *)
LEMMA ServeAlone ==
    ASSUME Base, NEW c \in Client, NEW d \in Client, c # d, pc[c] \in Serving
    PROVE  pc[d] \notin Serving
<1>1. \A e \in {c, d} :
        pc[e] \in Serving =>
            /\ room[e] \in Room /\ lease[room[e]] = e /\ room[e] # "pending"
            /\ room[e] = "application" => \A f \in Client : room[f] # "creation"
  BY DEF Base, CustodyInv, CustodyOf, CallInv, CallOf, RoomInv, RoomOf, Serving, Working
<1>2. QED BY <1>1 DEF Room

LEMMA RowStepOther ==
    ASSUME Base, NEW c \in Client, Moves(c), Elsewhere(c), NEW d \in Client \ {c}
    PROVE  RowOf(d)'
<1>1. /\ pc'[d] = pc[d] /\ rows'[d] = rows[d] /\ row'[d] = row[d] /\ answer'[d] = answer[d]
      /\ RowOf(d)
  BY DEF Elsewhere, Base, RowInv
<1>2. CASE UNCHANGED <<outbox, calls>>
  <2>1. \A i : Dispatched(i)' <=> Dispatched(i)
    BY <1>2 DEF Dispatched
  <2>2. QED BY <1>1, <1>2, <2>1 DEF RowOf
<1>3. CASE outbox' # outbox \/ calls' # calls
  <2>1. pc[c] \in Serving
    BY <1>3, OutboxStep, CallsKinds DEF Ask, Serving
  <2>2. pc[d] \notin Serving
    BY <2>1, ServeAlone
  <2>3. QED BY <1>1, <2>2 DEF RowOf, Serving
<1>4. QED BY <1>2, <1>3

LEMMA RowStepOwn ==
    ASSUME Base, NEW c \in Client, Moves(c)
    PROVE  RowOf(c)'
<1> USE DEF RowOf
<1>0. TypeOK /\ RowOf(c)
  BY DEF Base, RowInv
<1>1. CASE pc'[c] \notin {"row", "more", "call", "record"}
  BY <1>1
<1>2. CASE (Select(c) /\ ~ Finish(c)) \/ Deny(c)
  <2>1. pc'[c] \in {"row", "more"} /\ UNCHANGED outbox /\ \A i \in rows'[c] : ~ Dispatched(i)
    BY <1>0, <1>2 DEF Select, Waiting, Deny, disk, Goto, TypeOK
  <2>2. QED BY <2>1 DEF Dispatched
<1>3. CASE Start(c) /\ ~ Finish(c)
  <2>1. PICK i \in Op :
          /\ i \in rows[c] /\ ~ Dispatched(i) /\ Wrote(i) /\ outbox'[i].status = "started"
          /\ rows'[c] = rows[c] \ {i} /\ row'[c] = i /\ pc'[c] = "call"
    BY <1>3, StartWrites
  <2>2. calls' = calls /\ calls[i] = 0
    BY <1>3, <2>1 DEF Start, Base, CallsInv
  <2>3. \A j \in rows'[c] : j \in Op /\ j # i /\ ~ Dispatched(j)
    BY <1>0, <1>3, <2>1 DEF Start, TypeOK
  <2>4. \A j \in rows'[c] : ~ Dispatched(j)'
    BY <2>1, <2>3 DEF Wrote, Dispatched
  <2>5. QED BY <2>1, <2>2, <2>4 DEF Wrote, Dispatched
<1>4. CASE Ask(c)
  <2>1. /\ pc[c] = "call" /\ pc'[c] = "record" /\ UNCHANGED <<outbox, rows, row>>
        /\ answer'[c] \in Outcome
    BY <1>0, <1>4 DEF Ask, disk, Goto, TypeOK
  <2>2. QED BY <1>0, <2>1 DEF Dispatched
<1>5. CASE Record(c)
  <2>1. row[c] \in Op /\ Dispatched(row[c]) /\ Wrote(row[c])
    BY <1>5, RecordWrites
  <2>2. pc[c] = "record" /\ pc'[c] = "more" /\ UNCHANGED rows
    BY <1>0, <1>5 DEF Record, Goto, TypeOK
  <2>3. \A i \in rows[c] : i \in Op /\ ~ Dispatched(i)
    BY <1>0, <2>2 DEF TypeOK
  <2>4. \A i \in rows[c] : ~ Dispatched(i)'
    BY <2>1, <2>3 DEF Wrote, Dispatched
  <2>5. QED BY <2>2, <2>4
<1>6. CASE Finish(c)
  BY <1>0, <1>1, <1>6 DEF Finish, Goto, TypeOK
<1>7. CASE CheckCommit(c) \/ Prepare(c)
  BY <1>0, <1>1, <1>6, <1>7 DEF CheckCommit, Prepare, Goto, TypeOK
<1>8. CASE Commits(c) \/ Serves(c) \/ Scan(c) \/ (TakeLease(c) /\ ~ Finish(c))
  <2>1. CASE Commits(c) \/ Serves(c)
    BY <1>0, <1>1, <2>1 DEF Commits, Serves, Commit, DispatchPending, ReconcileDispatch, Call, Goto, TypeOK
  <2>2. CASE (Scan(c) /\ ~ Finish(c)) \/ (TakeLease(c) /\ ~ Finish(c))
    <3>1. pc'[c] \in {"lease", job[c].what} /\ job[c] \in Job
      BY <1>0, <2>2 DEF Scan, TakeLease, Goto, TypeOK, Base, CallInv, CallOf
    <3>2. QED BY <1>1, <3>1, JobFields
  <2>3. QED BY <1>6, <1>8, <2>1, <2>2
<1>9. CASE Publish(c) \/ EndBatch(c) \/ Reconcile(c) \/ Fail(c)
  BY <1>6, <1>9 DEF Publish, EndBatch, Reconcile, Fail
<1>10. QED BY <1>2, <1>3, <1>4, <1>5, <1>6, <1>7, <1>8, <1>9 DEF Moves, Step

LEMMA CallsStep ==
    ASSUME Base, NEW c \in Client, Moves(c)
    PROVE  CallsInv'
<1>0. TypeOK /\ CallsInv
  BY DEF Base
<1>1. CASE UNCHANGED calls
  <2>1. \A i \in Op : Dispatched(i) => Dispatched(i)'
    BY OutboxStep DEF Dispatched
  <2>2. QED BY <1>0, <1>1, <2>1 DEF CallsInv
<1>2. CASE calls' # calls
  <2>1. Ask(c)
    BY <1>2, CallsKinds
  <2>2. /\ UNCHANGED outbox /\ row[c] \in Op /\ Dispatched(row[c]) /\ calls[row[c]] = 0
        /\ calls' = [calls EXCEPT ![row[c]] = @ + 1]
    BY <2>1 DEF Ask, disk, Base, RowInv, RowOf
  <2>3. calls'[row[c]] = 1 /\ \A j \in Op \ {row[c]} : calls'[j] = calls[j]
    BY <1>0, <2>2 DEF TypeOK
  <2>4. \A i : Dispatched(i)' <=> Dispatched(i)
    BY <2>2 DEF Dispatched
  <2>5. QED BY <1>0, <2>2, <2>3, <2>4 DEF CallsInv
<1>3. QED BY <1>1, <1>2

LEMMA BaseStep ==
    ASSUME Base, NEW c \in Client, Moves(c), Elsewhere(c)
    PROVE  Base'
<1>1. RowInv'
  BY RowStepOther, RowStepOwn DEF RowInv
<1>2. QED BY <1>1, TypeStep, CustodyStep, CallStep, RoomStep, CallsStep DEF Base
-----------------------------------------------------------------------------
(* What one more command adds to what a history says.                      *)
LEMMA HistoryAppend ==
    ASSUME NEW h \in Seq(Command), NEW cmd \in Command
    PROVE  LET g == Append(h, cmd) IN
           /\ g \in Seq(Command) /\ Len(g) = Len(h) + 1 /\ Len(h) \in Nat
           /\ \A n \in 1..Len(h) : g[n] = h[n]
           /\ g[Len(h) + 1] = cmd
           /\ Created(g) = Created(h) \union {i \in Op : i = cmd.op /\ cmd.intent}
           /\ Abandoned(g) = Abandoned(h) \union {i \in Op : cmd.drain[i] = "abandoned"}
           /\ Known(g) = Known(h) \union {cmd.op}
<1> DEFINE g == Append(h, cmd)
<1>1. /\ g \in Seq(Command) /\ Len(g) = Len(h) + 1 /\ Len(h) \in Nat
      /\ \A n \in 1..Len(h) : g[n] = h[n]
      /\ g[Len(h) + 1] = cmd
  BY AppendProperties, LenProperties
<1> HIDE DEF g
<1>2. \A n : n \in 1..Len(g) <=> n \in 1..Len(h) \/ n = Len(h) + 1
  BY <1>1
<1>3. /\ Created(g) = Created(h) \union {i \in Op : i = cmd.op /\ cmd.intent}
      /\ Abandoned(g) = Abandoned(h) \union {i \in Op : cmd.drain[i] = "abandoned"}
  BY <1>1, <1>2 DEF Created, Abandoned
<1>4. Known(g) = Known(h) \union {cmd.op}
  <2>1. \A n \in 1..Len(h) : g[n].op = h[n].op
    BY <1>1
  <2>2. ASSUME NEW x \in Known(g) PROVE x \in Known(h) \union {cmd.op}
    BY <1>1, <1>2 DEF Known
  <2>3. ASSUME NEW x \in Known(h) \union {cmd.op} PROVE x \in Known(g)
    BY <1>1, <1>2 DEF Known
  <2>4. QED BY <2>2, <2>3
<1>5. QED BY <1>1, <1>3, <1>4 DEF g

LEMMA SubSeqAppend ==
    ASSUME NEW h \in Seq(Command), NEW cmd \in Command
    PROVE  LET g == Append(h, cmd) IN
           /\ \A n \in 1..Len(h) : SubSeq(g, 1, n - 1) = SubSeq(h, 1, n - 1)
           /\ SubSeq(g, 1, Len(h)) = h
<1> DEFINE g == Append(h, cmd)
<1>1. /\ g \in Seq(Command) /\ Len(g) = Len(h) + 1 /\ Len(h) \in Nat
      /\ \A n \in 1..Len(h) : g[n] = h[n]
  BY AppendProperties, LenProperties
<1> HIDE DEF g
<1>2. ASSUME NEW n \in 0..Len(h) PROVE SubSeq(g, 1, n) = SubSeq(h, 1, n)
  <2>1. \A i \in 1..n : g[i] \in Command /\ h[i] \in Command /\ g[i] = h[i]
    BY <1>1, ElementOfSeq
  <2>2. n \in Int /\ 1 \in Int /\ n - 1 + 1 = n /\ (1 <= n \/ n = 0)
    BY <1>1
  <2>3. /\ SubSeq(g, 1, n) \in Seq(Command) /\ Len(SubSeq(g, 1, n)) = n
        /\ \A i \in 1..n : SubSeq(g, 1, n)[i] = g[i]
    BY <2>1, <2>2, SubSeqProperties
  <2>4. /\ SubSeq(h, 1, n) \in Seq(Command) /\ Len(SubSeq(h, 1, n)) = n
        /\ \A i \in 1..n : SubSeq(h, 1, n)[i] = h[i]
    BY <2>1, <2>2, SubSeqProperties
  <2>5. QED BY <2>1, <2>3, <2>4, SeqEqual
<1>3. \A n \in 1..Len(h) : n - 1 \in 0..Len(h)
  BY <1>1
<1>4. SubSeq(g, 1, Len(h)) = h
  BY <1>1, <1>2, SubSeqFull
<1>5. QED BY <1>2, <1>3, <1>4 DEF g

(* On no history there is nothing to serve.                                *)
LEMMA NothingCreated ==
    ASSUME head = <<>>
    PROVE  Created(head) = {} /\ Waiting = {}
<1>1. \A n \in 1..Len(head) : FALSE
  BY EmptySeq
<1>2. QED BY <1>1 DEF Created, Waiting, Pending

(* Where nobody overlaps, two never commit, and who commits while another  *)
(* serves does so on no history.                                           *)
LEMMA Alone ==
    ASSUME Sound, \A x \in Client : ~ Overlapping(x), NEW c \in Client, NEW d \in Client, c # d
    PROVE  /\ ~ (pc[c] \in Committing /\ pc[d] \in Committing)
           /\ pc[c] \in Committing /\ pc[d] \in Serving => head = <<>>
<1>1. \A e \in {c, d} :
        pc[e] \in Committing \union Serving =>
            /\ pc[e] \in Working
            /\ room[e] \in Room /\ lease[room[e]] = e
            /\ pc[e] \in Serving => room[e] # "pending"
            /\ pc[e] \in Committing => room[e] # "creation" /\ head = job[e].expected
            /\ room[e] = "application" => head # <<>> /\ \A f \in Client : room[f] # "creation"
  BY DEF Sound, Base, CustodyInv, CustodyOf, CallInv, CallOf, RoomInv, RoomOf, WorkInv, WorkOf, Serving, Committing,
     Working
<1>2. ASSUME NEW e \in {c, d}, NEW f \in {c, d}, e # f, pc[e] \in Committing, pc[f] \in Working, room[e] = "pending"
      PROVE  head = <<>>
  <2>1. ~ Overlapping(e) /\ f \in Client \ {e}
    BY <1>2
  <2>2. job[e].expected = <<>>
    BY <1>2, <2>1 DEF Overlapping, Late, Committing
  <2>3. QED BY <1>1, <1>2, <2>2
<1>3. QED BY <1>1, <1>2 DEF Room

(* Whoever is left alone knows what it knew.                               *)
LEMMA WorkKept ==
    ASSUME NEW d \in Client, WorkOf(d), UNCHANGED <<head, outbox>>,
           pc'[d] = pc[d], job'[d] = job[d], rows'[d] = rows[d], row'[d] = row[d]
    PROVE  WorkOf(d)'
<1>1. \A cmd : Barrier(cmd, head) => Barrier(cmd, head)'
  BY DEF Barrier, Pending, Settled, Dispatched
<1>2. Waiting' = Waiting
  BY DEF Waiting, Pending, Settled, Dispatched
<1>3. \A i : Dispatched(i) <=> Dispatched(i)'
  BY DEF Dispatched
<1>4. QED BY <1>1, <1>2, <1>3 DEF WorkOf

(* What is written is live work.                                           *)
LEMMA WritesLive ==
    ASSUME Sound, NEW c \in Client, Moves(c), outbox' # outbox
    PROVE  \E i \in Op : Wrote(i) /\ i \in Live(head)
<1>1. Base /\ HistoryInv
  BY DEF Sound
<1>2. CASE Start(c) /\ ~ Finish(c)
  <2>1. PICK i \in Op : i \in rows[c] /\ Wrote(i)
    BY <1>1, <1>2, StartWrites
  <2>2. i \in Waiting
    BY <1>2, <2>1 DEF Start, Sound, WorkInv, WorkOf
  <2>3. QED BY <2>1, <2>2 DEF Waiting, Pending, Live
<1>3. CASE Record(c)
  BY <1>1, <1>3, RecordWrites DEF HistoryInv
<1>4. CASE Reconcile(c)
  BY <1>1, <1>4, ReconcileWrites DEF Pending, Live
<1>5. QED BY <1>1, <1>2, <1>3, <1>4, OutboxKinds DEF Base

LEMMA WorkStepOther ==
    ASSUME Sound, \A x \in Client : ~ Overlapping(x), NEW c \in Client, Moves(c), Elsewhere(c), NEW d \in Client \ {c}
    PROVE  WorkOf(d)'
<1>0. /\ pc'[d] = pc[d] /\ job'[d] = job[d] /\ rows'[d] = rows[d] /\ row'[d] = row[d]
      /\ WorkOf(d) /\ Base
  BY DEF Elsewhere, Sound, WorkInv
<1>1. CASE UNCHANGED <<head, outbox>>
  BY <1>0, <1>1, WorkKept
<1>2. CASE outbox' # outbox
  <2>1. PICK i \in Op : i \in Live(head)
    BY <1>2, WritesLive
  <2>2. pc[c] \in Serving /\ head # <<>>
    BY <1>0, <1>2, <2>1, OutboxStep, NothingCreated DEF Live
  <2>3. pc[d] \notin Serving /\ pc[d] \notin Committing
    BY <1>0, <2>2, Alone, ServeAlone
  <2>4. QED BY <1>0, <2>3 DEF WorkOf, Serving, Committing
<1>3. CASE head' # head
  <2>1. Publish(c) /\ pc[c] \in Committing
    BY <1>0, <1>3, HeadStep DEF Publish, Committing
  <2>2. pc[d] \notin Committing
    BY <2>1, Alone
  <2>3. pc[d] \notin {"call", "record"} /\ (pc[d] \in {"row", "more"} => rows[d] = {})
    <3>1. pc[d] \in Serving => Created(head) = {} /\ Waiting = {}
      BY <2>1, Alone, NothingCreated
    <3>2. pc[d] \notin {"call", "record"}
      BY <1>0, <3>1 DEF Base, RowInv, RowOf, Sound, HistoryInv, Live, Serving
    <3>3. pc[d] \in {"row", "more"} => rows[d] = {}
      BY <1>0, <3>1 DEF WorkOf, Serving
    <3>4. QED BY <3>2, <3>3
  <2>4. QED BY <1>0, <2>2, <2>3 DEF WorkOf, Serving, Committing
<1>4. QED BY <1>1, <1>2, <1>3

LEMMA WorkStepOwn ==
    ASSUME Sound, NEW c \in Client, Moves(c)
    PROVE  WorkOf(c)'
<1> USE DEF WorkOf, Committing
<1>0. TypeOK /\ WorkOf(c) /\ Base
  BY DEF Sound, Base, WorkInv
<1>1. CASE pc'[c] \in {"idle", "scan", "lease", "commit", "dispatch", "reconcile"}
  BY <1>1
<1>2. CASE CheckCommit(c) /\ ~ Finish(c)
  <2>1. Admissible(c) /\ pc'[c] = "prepare" /\ UNCHANGED <<head, outbox, job>>
    BY <1>0, <1>2 DEF CheckCommit, disk, locals, Goto, TypeOK
  <2>2. head = job[c].expected /\ job[c].cmd.op \notin Known(head) /\ Barrier(job[c].cmd, head)
    BY <2>1 DEF Admissible
  <2>3. Barrier(job[c].cmd, head)'
    BY <2>1, <2>2 DEF Barrier, Pending, Settled, Dispatched
  <2>4. QED BY <2>1, <2>2, <2>3
<1>3. CASE Prepare(c) /\ ~ Finish(c)
  <2>1. pc[c] = "prepare" /\ pc'[c] = "publish" /\ UNCHANGED <<head, outbox, job>>
    BY <1>0, <1>3 DEF Prepare, locals, Goto, TypeOK
  <2>2. Barrier(job[c].cmd, head)'
    BY <1>0, <2>1 DEF Barrier, Pending, Settled, Dispatched
  <2>3. QED BY <1>0, <2>1, <2>2
<1>4. CASE (Select(c) /\ ~ Finish(c)) \/ Deny(c)
  <2>1. rows'[c] \subseteq Waiting /\ pc'[c] \in {"row", "more"} /\ UNCHANGED <<head, outbox>>
    BY <1>0, <1>4 DEF Select, Deny, disk, Goto, TypeOK
  <2>2. Waiting' = Waiting
    BY <2>1 DEF Waiting, Pending, Settled, Dispatched
  <2>3. QED BY <2>1, <2>2
<1>5. CASE Start(c) /\ ~ Finish(c)
  <2>1. PICK i \in Op :
          /\ i \in rows[c] /\ ~ Dispatched(i) /\ Wrote(i) /\ outbox'[i].status = "started"
          /\ rows'[c] = rows[c] \ {i} /\ row'[c] = i /\ pc'[c] = "call"
    BY <1>0, <1>5, StartWrites
  <2>2. UNCHANGED head /\ rows[c] \subseteq Waiting
    BY <1>0, <1>5 DEF Start
  <2>3. rows'[c] \subseteq Waiting'
    BY <2>1, <2>2 DEF Waiting, Pending, Settled, Dispatched, Wrote, Created
  <2>4. QED BY <2>1, <2>3
<1>6. CASE Ask(c)
  <2>1. pc[c] = "call" /\ pc'[c] = "record" /\ UNCHANGED <<head, outbox, rows, row>>
    BY <1>0, <1>6 DEF Ask, disk, Goto, TypeOK
  <2>2. Waiting' = Waiting
    BY <2>1 DEF Waiting, Pending, Settled, Dispatched
  <2>3. QED BY <1>0, <2>1, <2>2
<1>7. CASE Record(c)
  <2>1. row[c] \in Op /\ Dispatched(row[c]) /\ Wrote(row[c])
    BY <1>0, <1>7, RecordWrites
  <2>2. pc[c] = "record" /\ pc'[c] = "more" /\ UNCHANGED <<head, rows>>
    BY <1>0, <1>7 DEF Record, Goto, TypeOK
  <2>3. rows[c] \subseteq Waiting
    BY <1>0, <2>2
  <2>4. rows[c] \subseteq Waiting'
    BY <2>1, <2>2, <2>3 DEF Waiting, Pending, Settled, Dispatched, Wrote, Created
  <2>5. QED BY <2>2, <2>4
<1>8. CASE Finish(c)
  BY <1>0, <1>1, <1>8 DEF Finish, Goto, TypeOK
<1>9. CASE Commits(c) \/ Serves(c) \/ Scan(c) \/ (TakeLease(c) /\ ~ Finish(c))
  <2>1. CASE Commits(c) \/ Serves(c)
    BY <1>0, <1>1, <2>1 DEF Commits, Serves, Commit, DispatchPending, ReconcileDispatch, Call, Goto, TypeOK
  <2>2. CASE (Scan(c) /\ ~ Finish(c)) \/ (TakeLease(c) /\ ~ Finish(c))
    <3>1. pc'[c] \in {"lease", job[c].what} /\ job[c] \in Job
      BY <1>0, <2>2 DEF Scan, TakeLease, Goto, TypeOK, Base, CallInv, CallOf
    <3>2. QED BY <1>1, <3>1, JobFields
  <2>3. QED BY <1>8, <1>9, <2>1, <2>2
<1>10. CASE Publish(c) \/ EndBatch(c) \/ Reconcile(c) \/ Fail(c)
  BY <1>8, <1>10 DEF Publish, EndBatch, Reconcile, Fail
<1>11. QED BY <1>2, <1>3, <1>4, <1>5, <1>6, <1>7, <1>8, <1>9, <1>10 DEF Moves, Step

LEMMA WorkStep ==
    ASSUME Sound, \A x \in Client : ~ Overlapping(x), NEW c \in Client, Moves(c), Elsewhere(c)
    PROVE  WorkInv'
BY WorkStepOther, WorkStepOwn DEF WorkInv
-----------------------------------------------------------------------------
(* A readable history stays so when work that was not abandoned is         *)
(* dispatched.                                                             *)
LEMMA ReadableKept ==
    ASSUME Readable(head), head' = head,
           \A i \in Op : Dispatched(i) => Dispatched(i)',
           \A i \in Op : i \in Abandoned(head) => ~ Dispatched(i)'
    PROVE  Readable(head)'
<1> SUFFICES ASSUME NEW n \in 1..Len(head)
             PROVE  DrainRetained(SubSeq(head, 1, n - 1), head[n])'
  BY DEF Readable
<1> DEFINE live == Created(SubSeq(head, 1, n - 1)) \ Abandoned(SubSeq(head, 1, n - 1))
<1>1. DrainRetained(SubSeq(head, 1, n - 1), head[n])
  BY DEF Readable
<1>2. \A i \in live : i \in Op
  BY DEF Created
<1>3. \A i \in live : head[n].drain[i] = "abandoned" => i \in Abandoned(head)
  BY <1>2 DEF Abandoned
<1>4. QED BY <1>1, <1>2, <1>3 DEF DrainRetained, Dispatched

(* The command that Publish appends is one that history admits.            *)
LEMMA PublishAppends ==
    ASSUME Sound, NEW c \in Client, Publish(c)
    PROVE  \E cmd \in Command :
              /\ head' = Append(head, cmd) /\ UNCHANGED <<outbox, calls>>
              /\ cmd.op \notin Known(head) /\ Barrier(cmd, head)
              /\ cmd.kind = "create" <=> head = <<>>
<1>1. job[c].cmd \in Command /\ (job[c].cmd.kind = "create" <=> job[c].expected = <<>>)
  BY JobFields DEF Publish, Sound, Base, CallInv, CallOf, Committing
<1>2. head = job[c].expected /\ job[c].cmd.op \notin Known(head) /\ Barrier(job[c].cmd, head)
  BY DEF Publish, Sound, WorkInv, WorkOf, Committing
<1>3. QED BY <1>1, <1>2 DEF Publish

(* A drain the barrier admits is about live work only, and says of all of  *)
(* it that still waits what becomes of it.                                 *)
LEMMA BarrierDrains ==
    ASSUME NEW cmd \in Command, NEW h, Barrier(cmd, h)
    PROVE  /\ DrainRetained(h, cmd)
           /\ \A i \in Op : cmd.drain[i] # "none" => i \in Live(h) /\ ~ Dispatched(i)
<1>1. Named(cmd) # {} => Named(cmd) = {i \in Pending(h) : ~ Dispatched(i)}
  BY CommandFields DEF Barrier
<1>2. \A i \in Op : cmd.drain[i] # "none" => i \in Pending(h) /\ ~ Dispatched(i)
  BY <1>1 DEF Named
<1>3. \A i \in Pending(h) : i \in Live(h)
  BY DEF Pending, Live
<1>4. \A i \in Live(h) : i \in Pending(h) \/ Settled(i)
  BY DEF Pending, Live
<1>5. \A i \in Live(h) : i \in Op /\ (Settled(i) => Dispatched(i))
  BY DEF Live, Created, Settled
<1>6. DrainRetained(h, cmd)
  <2> SUFFICES ASSUME Named(cmd) # {}
               PROVE  /\ Named(cmd) \subseteq Live(h)
                      /\ \A i \in Live(h) :
                            /\ cmd.drain[i] = "abandoned" => ~ Dispatched(i)
                            /\ cmd.drain[i] = "none" => Dispatched(i)
    BY DEF DrainRetained, Live
  <2>1. Named(cmd) \subseteq Live(h)
    BY <1>2, <1>3 DEF Named
  <2>2. ASSUME NEW i \in Live(h)
        PROVE  /\ cmd.drain[i] = "abandoned" => ~ Dispatched(i)
               /\ cmd.drain[i] = "none" => Dispatched(i)
    BY <1>1, <1>2, <1>4, <1>5 DEF Named
  <2>3. QED BY <2>1, <2>2
<1>7. QED BY <1>2, <1>3, <1>6

LEMMA PublishReadable ==
    ASSUME Sound, NEW cmd \in Command, head' = Append(head, cmd), UNCHANGED outbox,
           cmd.op \notin Known(head), Barrier(cmd, head), cmd.kind = "create" <=> head = <<>>
    PROVE  Readable(head)'
<1>1. PICK h \in Seq(Command) : h = head
  BY DEF Sound, Base, TypeOK
<1>2. PICK g \in Seq(Command) : g = Append(h, cmd)
  BY AppendProperties
<1>3. g = head'
  BY <1>1, <1>2
<1>4. /\ Len(h) \in Nat /\ Len(g) = Len(h) + 1
      /\ \A n \in 1..Len(h) : g[n] = h[n]
      /\ g[Len(h) + 1] = cmd
      /\ \A n \in 1..Len(h) : SubSeq(g, 1, n - 1) = SubSeq(h, 1, n - 1)
      /\ SubSeq(g, 1, Len(h)) = h
  BY <1>2, HistoryAppend, SubSeqAppend
<1>5. \A f, e : DrainRetained(f, e) => DrainRetained(f, e)'
  BY DEF DrainRetained, Dispatched
<1>6. Readable(h)
  BY <1>1 DEF Sound, HistoryInv
<1>7. ASSUME NEW n \in 1..Len(h)
      PROVE  /\ g[n].kind = "create" <=> n = 1
             /\ \A m \in 1..(n - 1) : g[m].op # g[n].op
             /\ DrainRetained(SubSeq(g, 1, n - 1), g[n])'
  <2>1. \A m \in 1..(n - 1) : m \in 1..Len(h)
    BY <1>4
  <2>2. /\ h[n].kind = "create" <=> n = 1
        /\ \A m \in 1..(n - 1) : h[m].op # h[n].op
        /\ DrainRetained(SubSeq(h, 1, n - 1), h[n])
    BY <1>6 DEF Readable
  <2>3. DrainRetained(SubSeq(h, 1, n - 1), h[n])'
    BY <1>5, <2>2
  <2>4. QED BY <1>4, <2>1, <2>2, <2>3
<1>8. /\ g[Len(h) + 1].kind = "create" <=> Len(h) + 1 = 1
      /\ \A m \in 1..(Len(h) + 1 - 1) : g[m].op # g[Len(h) + 1].op
      /\ DrainRetained(SubSeq(g, 1, Len(h) + 1 - 1), g[Len(h) + 1])'
  <2>1. Len(h) + 1 - 1 = Len(h) /\ (h = <<>> <=> Len(h) + 1 = 1)
    BY <1>4, EmptySeq
  <2>2. \A m \in 1..Len(h) : g[m].op # cmd.op
    BY <1>1, <1>4 DEF Known
  <2>3. DrainRetained(h, cmd)
    BY <1>1, BarrierDrains
  <2>4. DrainRetained(h, cmd)'
    BY <1>5, <2>3
  <2>5. QED BY <1>1, <1>4, <2>1, <2>2, <2>4
<1>9. \A n \in 1..Len(g) : n \in 1..Len(h) \/ n = Len(h) + 1
  BY <1>4
<1>10. Readable(g)'
  BY <1>7, <1>8, <1>9 DEF Readable
<1>11. QED BY <1>3, <1>10 DEF Readable

LEMMA HistoryStep ==
    ASSUME Sound, NEW c \in Client, Moves(c)
    PROVE  HistoryInv'
<1>0. TypeOK /\ HistoryInv /\ Base
  BY DEF Sound, Base
<1>1. CASE UNCHANGED <<head, outbox>>
  <2>1. Readable(head)'
    BY <1>0, <1>1, ReadableKept DEF HistoryInv, Dispatched, Live
  <2>2. QED BY <1>0, <1>1, <2>1 DEF HistoryInv, Dispatched
<1>2. CASE outbox' # outbox
  <2>1. PICK i \in Op : Wrote(i) /\ i \in Live(head)
    BY <1>2, WritesLive
  <2>2. UNCHANGED head
    BY <1>0, <1>2, OutboxStep
  <2>3. \A j \in Op : Dispatched(j) => Dispatched(j)'
    BY <2>1 DEF Dispatched, Wrote
  <2>4. \A j \in Op : Dispatched(j)' => j \in Live(head)
    BY <1>0, <2>1 DEF Dispatched, Wrote, HistoryInv
  <2>5. Readable(head)'
    <3>1. \A j \in Abandoned(head) : j \notin Live(head)
      BY DEF Live
    <3>2. QED BY <1>0, <2>2, <2>3, <2>4, <3>1, ReadableKept DEF HistoryInv
  <2>6. QED BY <1>0, <2>2, <2>4, <2>5 DEF HistoryInv
<1>3. CASE head' # head
  <2>1. PICK cmd \in Command :
          /\ head' = Append(head, cmd) /\ UNCHANGED <<outbox, calls>>
          /\ cmd.op \notin Known(head) /\ Barrier(cmd, head)
          /\ cmd.kind = "create" <=> head = <<>>
    BY <1>0, <1>3, HeadStep, PublishAppends
  <2>2. Readable(head)'
    BY <2>1, PublishReadable
  <2>3. ASSUME NEW i \in Op, Dispatched(i) PROVE i \in Live(head')
    <3>1. i \in Live(head)
      BY <1>0, <2>3 DEF HistoryInv
    <3>2. cmd.drain[i] # "abandoned"
      BY <2>1, <2>3, BarrierDrains
    <3>3. QED BY <1>0, <2>1, <3>1, <3>2, HistoryAppend DEF TypeOK, Live
  <2>4. Abandoned(head') \subseteq Created(head')
    <3>1. \A i \in Op : cmd.drain[i] = "abandoned" => i \in Created(head)
      BY <2>1, BarrierDrains DEF Live
    <3>2. QED BY <1>0, <2>1, <3>1, HistoryAppend DEF TypeOK, HistoryInv
  <2>5. QED BY <1>0, <2>1, <2>2, <2>3, <2>4 DEF HistoryInv, Dispatched
<1>4. QED BY <1>1, <1>2, <1>3

LEMMA InitIInv == Init => IInv
<1> SUFFICES ASSUME Init PROVE IInv
  OBVIOUS
<1> USE DEF Init
<1>1. TypeOK
  BY BoundsAssumption, EmptySeq DEF TypeOK
<1>2. CustodyInv /\ CallInv /\ RoomInv /\ RowInv /\ WorkInv
  BY NoneAssumption DEF CustodyInv, CustodyOf, CallInv, CallOf, RoomInv, RoomOf, RowInv, RowOf, WorkInv, WorkOf,
     Room, Working, Committing, Serving
<1>3. CallsInv
  BY DEF CallsInv
<1>4. HistoryInv
  <2>1. \A n \in 1..Len(head) : FALSE
    BY EmptySeq
  <2>2. Readable(head)
    BY <2>1 DEF Readable
  <2>3. QED BY <2>1, <2>2 DEF HistoryInv, Dispatched, Abandoned
<1>5. QED BY <1>1, <1>2, <1>3, <1>4 DEF IInv, Base

(* Neither a step of nobody's nor another application's creation touches   *)
(* what the invariant is about.                                            *)
LEMMA StillIInv ==
    ASSUME IInv, TypeOK', overtaken' = 0 => overtaken = 0,
           UNCHANGED <<head, ops, outbox, lease, pc, job, room, rows, row, answer, calls>>
    PROVE  IInv'
<1>1. CustodyInv' /\ CallInv' /\ RoomInv'
  BY DEF IInv, Base, CustodyInv, CustodyOf, CallInv, CallOf, RoomInv, RoomOf
<1>2. \A i : Dispatched(i)' <=> Dispatched(i)
  BY DEF Dispatched
<1>3. RowInv' /\ CallsInv'
  BY <1>2 DEF IInv, Base, RowInv, RowOf, CallsInv
<1>4. ASSUME overtaken' = 0 PROVE WorkInv' /\ HistoryInv'
  <2>1. WorkInv /\ HistoryInv
    BY <1>4 DEF IInv
  <2>2. WorkInv'
    BY <2>1, WorkKept DEF WorkInv
  <2>3. Readable(head)'
    BY <1>2, <2>1, ReadableKept DEF HistoryInv, Live
  <2>4. QED BY <1>2, <2>1, <2>2, <2>3 DEF HistoryInv
<1>5. QED BY <1>1, <1>3, <1>4 DEF IInv, Base

LEMMA NextIInv == IInv /\ [Next]_vars => IInv'
<1> SUFFICES ASSUME IInv, [Next]_vars PROVE IInv'
  OBVIOUS
<1>0. Base /\ TypeOK
  BY DEF IInv, Base
<1>1. CASE UNCHANGED vars
  <2>1. UNCHANGED <<head, ops, outbox, own, others, lease, pc, job, room, read, rows, row, answer, faults, calls, overtaken>>
    BY <1>1 DEF vars, disk, namespace, locals
  <2>2. TypeOK'
    BY <1>0, <2>1 DEF TypeOK
  <2>3. QED BY <2>1, <2>2, StillIInv
<1>2. CASE Neighbour
  BY <1>0, <1>2, NeighbourStep, StillIInv
<1>3. CASE Next /\ ~ Neighbour
  <2>1. PICK c \in Client : Moves(c) /\ Elsewhere(c)
    BY <1>0, <1>3, OneMoves
  <2>2. Base'
    BY <1>0, <2>1, BaseStep
  <2>3. ASSUME overtaken' = 0 PROVE WorkInv' /\ HistoryInv'
    <3>1. overtaken = 0 /\ \A x \in Client : ~ Overlapping(x)
      BY <1>0, <2>1, <2>3, AllWatch, WatchStep
    <3>2. Sound
      BY <3>1 DEF IInv, Sound
    <3>3. QED BY <2>1, <3>1, <3>2, WorkStep, HistoryStep
  <2>4. QED BY <2>2, <2>3 DEF IInv
<1>4. QED BY <1>1, <1>2, <1>3

LEMMA IInvHolds == Spec => []IInv
BY InitIInv, NextIInv, PTL DEF Spec
-----------------------------------------------------------------------------
(* The state of an application and of its callers is well formed in every  *)
(* reachable state.                                                        *)
THEOREM TypeCorrect == Spec => []TypeOK
<1>1. IInv => TypeOK
  BY DEF IInv, Base
<1>2. QED BY IInvHolds, <1>1, PTL

(* Whatever callers committed, dispatched and abandoned, and whichever of  *)
(* them died where, the service can read the history it wrote: no          *)
(* operation is in it twice, and no drain is contradicted by an outbox     *)
(* that went on since (application-core.ts, 256-282 and 313-333).  A call  *)
(* may name any head, and choose its lease before another publishes that   *)
(* head: until such a call has met another in custody.                     *)
THEOREM HistoryStaysReadable == Spec => []HistoryReadable
<1>1. IInv => HistoryReadable
  BY DEF IInv, HistoryInv, HistoryReadable
<1>2. QED BY IInvHolds, <1>1, PTL

(* An intent is asked for outside at most once, with any number of calls   *)
(* under three leases, whichever heads they expect and whenever they chose *)
(* their lease, and any deaths between the record of a dispatch and its    *)
(* outcome.  Once abandoned it is never asked for, until two calls were in *)
(* custody at once, one of them with a lease chosen before the first head. *)
THEOREM AskedOnce == Spec => []DispatchedOnce
<1>1. IInv => DispatchedOnce
  <2> SUFFICES ASSUME IInv, NEW i \in Op
               PROVE  calls[i] <= 1 /\ (overtaken = 0 /\ i \in Abandoned(head) => calls[i] = 0)
    BY DEF DispatchedOnce
  <2>1. calls[i] <= 1 /\ (~ Dispatched(i) => calls[i] = 0)
    BY DEF IInv, Base, CallsInv
  <2>2. overtaken = 0 => (Dispatched(i) => i \in Live(head))
    BY DEF IInv, HistoryInv
  <2>3. QED BY <2>1, <2>2 DEF Live
<1>2. QED BY IInvHolds, <1>1, PTL
-----------------------------------------------------------------------------
(* What the fate of an intent says of history and outbox.                  *)
LEMMA FateFacts ==
    ASSUME NEW i \in Op, HistoryInv
    PROVE  /\ Fate(i) = "pending" <=> i \in Live(head) /\ ~ Dispatched(i)
           /\ Fate(i) = "dispatched" <=> Dispatched(i) /\ ~ Settled(i)
           /\ Fate(i) = "settled" <=> Settled(i)
           /\ Fate(i) = "abandoned" <=> i \in Abandoned(head)
           /\ Fate(i) = "absent" <=> i \notin Created(head)
BY DEF Fate, HistoryInv, Live, Settled

(* A fate depends on history and on the intent's own record.               *)
LEMMA FateKept ==
    ASSUME NEW i \in Op, UNCHANGED head, outbox'[i] = outbox[i]
    PROVE  Fate(i)' = Fate(i)
BY DEF Fate, Dispatched, Settled

LEMMA CreatedKnown ==
    ASSUME NEW h, NEW i \in Created(h)
    PROVE  i \in Known(h)
BY DEF Created, Known

(* Publishing is the abstract commit of the same command.                  *)
LEMMA PublishRefines ==
    ASSUME Sound, HistoryInv', NEW cmd \in Command, head' = Append(head, cmd), UNCHANGED <<outbox, calls>>,
           cmd.op \notin Known(head), Barrier(cmd, head)
    PROVE  Abstract!Commit(cmd)
<1> USE DEF Abstract!In
<1>0. TypeOK /\ HistoryInv /\ HistoryInv'
  BY DEF Sound, Base
<1>1. \A n \in 1..Len(head) : head[n].op # cmd.op
  BY DEF Known
<1>2. cmd.kind \in Abstract!Activating => \A i \in Op : [j \in Op |-> Fate(j)][i] # "dispatched"
  <2>1. \A i \in Op : Fate(i) = "dispatched" => i \in Pending(head) /\ Dispatched(i)
    BY <1>0, FateFacts DEF HistoryInv, Pending, Live
  <2>2. QED BY <2>1 DEF Barrier, Activating, Abstract!Activating
<1>3. cmd.kind = "migrate" => \A i \in Op : [j \in Op |-> Fate(j)][i] = "pending" <=> cmd.drain[i] # "none"
  <2>1. \A i \in Op : Fate(i) = "pending" <=> i \in Pending(head) /\ ~ Dispatched(i)
    BY <1>0, FateFacts DEF Pending, Live, Settled
  <2>2. QED BY <2>1 DEF Barrier, Named
<1>4. ASSUME NEW i \in Op
      PROVE  Fate(i)' = IF i = cmd.op /\ cmd.intent THEN "pending"
                        ELSE IF cmd.drain[i] = "abandoned" THEN "abandoned" ELSE Fate(i)
  <2>1. /\ i \in Created(head') <=> i \in Created(head) \/ (i = cmd.op /\ cmd.intent)
        /\ i \in Abandoned(head') <=> i \in Abandoned(head) \/ cmd.drain[i] = "abandoned"
        /\ (Dispatched(i)' <=> Dispatched(i)) /\ (Settled(i)' <=> Settled(i))
    BY <1>0, HistoryAppend DEF TypeOK, Dispatched, Settled
  <2>2. cmd.drain[i] = "abandoned" => i \in Live(head) /\ ~ Dispatched(i)
    BY BarrierDrains
  <2>3. i = cmd.op => i \notin Created(head)
    BY CreatedKnown
  <2>4. i = cmd.op => i \notin Abandoned(head) /\ ~ Dispatched(i) /\ cmd.drain[i] # "abandoned"
    BY <1>0, <2>2, <2>3 DEF HistoryInv, Live
  <2>5. QED BY <2>1, <2>2, <2>3, <2>4 DEF Fate, Live
<1>5. [i \in Op |-> Fate(i)]' = [i \in Op |->
          IF i = cmd.op /\ cmd.intent THEN "pending"
          ELSE IF cmd.drain[i] = "abandoned" THEN "abandoned" ELSE [j \in Op |-> Fate(j)][i]]
  BY <1>4
<1>6. QED BY <1>1, <1>2, <1>3, <1>5 DEF Abstract!Commit

(* A write of the outbox dispatches, settles, or changes no fate.          *)
LEMMA WriteRefines ==
    ASSUME HistoryInv, HistoryInv', UNCHANGED <<head, calls>>, NEW i \in Op, Wrote(i), i \in Live(head)
    PROVE  /\ ~ Dispatched(i) /\ outbox'[i].status = "started" => Abstract!Start(i)
           /\ Dispatched(i) /\ ~ Settled(i) /\ outbox'[i].status = "settled" => Abstract!Settle(i)
           /\ Dispatched(i) /\ ~ Settled(i) /\ outbox'[i].status # "settled" => UNCHANGED Abstract!vars
<1>1. \A j \in Op \ {i} : Fate(j)' = Fate(j)
  BY FateKept DEF Wrote
<1>2. i \in Live(head) /\ Dispatched(i)' /\ (Settled(i)' <=> outbox'[i].status = "settled")
  BY DEF Wrote, Dispatched, Settled
<1>3. /\ ~ Dispatched(i) => Fate(i) = "pending"
      /\ Dispatched(i) /\ ~ Settled(i) => Fate(i) = "dispatched"
  BY <1>2, FateFacts
<1>4. Fate(i)' = IF outbox'[i].status = "settled" THEN "settled" ELSE "dispatched"
  BY <1>2 DEF Fate, Live
<1>5. ASSUME NEW f, Fate(i)' = f
      PROVE  [j \in Op |-> Fate(j)]' = [[j \in Op |-> Fate(j)] EXCEPT ![i] = f]
  BY <1>1, <1>5
<1>6. Fate(i)' = Fate(i) => [j \in Op |-> Fate(j)]' = [j \in Op |-> Fate(j)]
  BY <1>1
<1>7. ~ Dispatched(i) /\ outbox'[i].status = "started" => Abstract!Start(i)
  BY <1>3, <1>4, <1>5 DEF Abstract!Start
<1>8. Dispatched(i) /\ ~ Settled(i) /\ outbox'[i].status = "settled" => Abstract!Settle(i)
  BY <1>3, <1>4, <1>5 DEF Abstract!Settle
<1>9. Dispatched(i) /\ ~ Settled(i) /\ outbox'[i].status # "settled" => UNCHANGED Abstract!vars
  BY <1>3, <1>4, <1>6 DEF Abstract!vars
<1>10. QED BY <1>7, <1>8, <1>9

LEMMA RefineStep ==
    ASSUME Sound, NEW c \in Client, Moves(c)
    PROVE  Abstract!Next \/ UNCHANGED Abstract!vars
<1>0. HistoryInv /\ HistoryInv' /\ TypeOK /\ Base
  BY HistoryStep DEF Sound, Base
<1>1. CASE UNCHANGED <<head, outbox, calls>>
  <2>1. \A i \in Op : Fate(i)' = Fate(i)
    BY <1>1, FateKept
  <2>2. QED BY <1>1, <2>1 DEF Abstract!vars
<1>2. CASE outbox' # outbox
  <2>1. UNCHANGED <<head, calls>>
    BY <1>0, <1>2, OutboxStep
  <2>0. \A i \in Op : Wrote(i) => i \in Live(head)
    <3>1. PICK k \in Op : Wrote(k) /\ k \in Live(head)
      BY <1>2, WritesLive
    <3>2. outbox' \in [Op -> Entry \union {None}] /\ outbox \in [Op -> Entry \union {None}]
      BY <1>0, TypeStep DEF TypeOK, Entry
    <3>3. ASSUME NEW i \in Op, Wrote(i), i # k PROVE outbox' = outbox
      BY <3>1, <3>2, <3>3 DEF Wrote
    <3>4. QED BY <1>2, <3>1, <3>3
  <2>2. CASE Start(c) /\ ~ Finish(c)
    <3>1. PICK i \in Op : ~ Dispatched(i) /\ Wrote(i) /\ outbox'[i].status = "started"
      BY <1>0, <2>2, StartWrites
    <3>2. Abstract!Start(i)
      BY <1>0, <2>0, <2>1, <3>1, WriteRefines
    <3>3. QED BY <3>2 DEF Abstract!Next
  <2>3. CASE Record(c) \/ Reconcile(c)
    <3>1. PICK i \in Op : Dispatched(i) /\ ~ Settled(i) /\ Wrote(i)
      <4>1. CASE Record(c)
        <5>1. row[c] \in Op /\ Dispatched(row[c]) /\ outbox[row[c]].status = "started" /\ Wrote(row[c])
          BY <1>0, <4>1, RecordWrites DEF Record, Sound, WorkInv, WorkOf
        <5>2. QED BY <5>1 DEF Settled
      <4>2. CASE Reconcile(c)
        BY <1>0, <1>2, <4>2, ReconcileWrites DEF Pending, Created
      <4>3. QED BY <2>3, <4>1, <4>2
    <3>2. Abstract!Settle(i) \/ UNCHANGED Abstract!vars
      BY <1>0, <2>0, <2>1, <3>1, WriteRefines
    <3>3. QED BY <3>2 DEF Abstract!Next
  <2>4. QED BY <1>0, <1>2, <2>2, <2>3, OutboxKinds
<1>3. CASE calls' # calls
  <2>1. Ask(c)
    BY <1>3, CallsKinds
  <2>2. /\ UNCHANGED <<head, outbox>> /\ row[c] \in Op /\ Dispatched(row[c]) /\ calls[row[c]] = 0
        /\ outbox[row[c]].status = "started" /\ calls' = [calls EXCEPT ![row[c]] = @ + 1]
    BY <2>1 DEF Ask, disk, Sound, Base, RowInv, RowOf, WorkInv, WorkOf
  <2>3. PICK i \in Op : i = row[c]
    BY <2>2
  <2>4. Fate(i) = "dispatched" /\ calls' = [calls EXCEPT ![i] = 1]
    BY <1>0, <2>2, <2>3, FateFacts DEF Settled, TypeOK
  <2>5. \A j \in Op : Fate(j)' = Fate(j)
    BY <2>2, FateKept
  <2>6. Abstract!Ask(i)
    BY <2>2, <2>3, <2>4, <2>5 DEF Abstract!Ask
  <2>7. QED BY <2>6 DEF Abstract!Next
<1>4. CASE head' # head
  <2>1. PICK cmd \in Command :
          /\ head' = Append(head, cmd) /\ UNCHANGED <<outbox, calls>>
          /\ cmd.op \notin Known(head) /\ Barrier(cmd, head)
    BY <1>0, <1>4, HeadStep, PublishAppends
  <2>2. QED BY <1>0, <2>1, PublishRefines DEF Abstract!Next
<1>5. QED BY <1>1, <1>2, <1>3, <1>4

(* The lifecycle service implements the abstract lifecycle: callers under  *)
(* three leases, prepared operations and outbox records make one linear    *)
(* history in which every intent has one fate, for any head a caller may   *)
(* expect, until two calls were in custody at once, one of them with a     *)
(* lease chosen before the first head.                                     *)
THEOREM Refinement == Spec => ImplementsLifecycle
<1>1. Init => Abstract!Init
  <2> SUFFICES ASSUME Init PROVE Abstract!Init
    OBVIOUS
  <2>1. \A i \in Op : Fate(i) = "absent"
    BY NothingCreated DEF Init, Fate
  <2>2. QED BY <2>1 DEF Init, Abstract!Init
<1>2. IInv /\ IInv' /\ [Next]_vars => [overtaken' = 1 \/ Abstract!Next]_(Abstract!vars)
  <2> SUFFICES ASSUME IInv, IInv', [Next]_vars, overtaken' # 1
               PROVE  Abstract!Next \/ UNCHANGED Abstract!vars
    OBVIOUS
  <2>1. ASSUME UNCHANGED <<head, outbox, calls>> PROVE UNCHANGED Abstract!vars
    <3>1. \A i \in Op : Fate(i)' = Fate(i)
      BY <2>1, FateKept
    <3>2. QED BY <2>1, <3>1 DEF Abstract!vars
  <2>2. CASE UNCHANGED vars \/ Neighbour
    BY <2>1, <2>2 DEF vars, disk, Neighbour
  <2>3. CASE Next /\ ~ Neighbour
    <3>1. PICK c \in Client : Moves(c)
      BY <2>3, OneMoves DEF IInv, Base
    <3>2. overtaken' = 0
      BY DEF IInv, Base, TypeOK
    <3>3. overtaken = 0
      BY <3>1, <3>2, AllWatch, WatchStep DEF IInv, Base
    <3>4. Sound
      BY <3>3 DEF IInv, Sound
    <3>5. QED BY <3>1, <3>4, RefineStep
  <2>4. QED BY <2>2, <2>3
<1>3. QED BY IInvHolds, <1>1, <1>2, PTL DEF Spec, ImplementsLifecycle
=============================================================================
