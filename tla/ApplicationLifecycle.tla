------------------------ MODULE ApplicationLifecycle ------------------------
(* One application under its lifecycle service (src/application-core.ts,   *)
(* src/application-filesystem.ts, src/application-drain.ts): commits that  *)
(* prepare an operation and then publish a head, the outbox of dispatches  *)
(* that the committed intents become, their reconciliation, and the        *)
(* custody that changes from one lease to another when the first head      *)
(* appears.  The choice of the lease is not made again once it is waited   *)
(* for, so that a commit that was called before the first head, on a state *)
(* that was still to come, may work beside those the application's own     *)
(* lease lets in: the ghost overtaken remembers where custody was not      *)
(* exclusive.  A state's digest is its chain of commands: it covers the    *)
(* state before it.  A command creates at most one intent, known by its    *)
(* operation.  Manifests, memories and evidence other than a drain are     *)
(* data of a command; HostLease shows what a lease is taken to be here.    *)
EXTENDS Integers, Sequences, FiniteSets

CONSTANTS
    Client,     \* hosts and callers
    Op,         \* operation identities
    Command,    \* what callers may submit
    Expected,   \* the heads a caller may name, published or not
    Config,     \* configurations of dispatchers
    MaxStates,  \* bound on states, and on prepared operations
    MaxPending, \* bound on pending intents
    MaxApplications, \* bound on applications in the namespace
    MaxFaults,  \* failures and deaths admitted
    Survivor,   \* a client that may in the end be left alone
    None

Disposition == {"none", "migrated", "abandoned"}
Kind == {"create", "memory", "activate", "migrate"}

ASSUME CommandAssumption ==
    /\ Command \subseteq [op : Op, kind : Kind, intent : BOOLEAN, drain : [Op -> Disposition]]
    /\ \A cmd \in Command : cmd.kind # "migrate" => cmd.drain = [i \in Op |-> "none"]
ASSUME ExpectedAssumption == Expected \subseteq Seq(Command)
ASSUME SurvivorAssumption == Survivor \in Client
ASSUME BoundsAssumption ==
    MaxStates \in Nat /\ MaxPending \in Nat /\ MaxApplications \in Nat /\ MaxFaults \in Nat

VARIABLES
    head,    \* the chain head.json names, <<>> when there is none
    ops,     \* operations/<op>.json: request and state, or None
    outbox,  \* outbox/<intent>.json, or None
    own,     \* 1 once the application has a directory, else 0
    others,  \* how many applications have one beside it
    lease,   \* who holds each lease
    pc, job, \* where a caller is, and its call
    room,    \* the lease its custody is under
    read,    \* the history a dispatching call goes by
    rows,    \* the intents its call is still to dispatch
    row,     \* the one it dispatches
    answer,  \* what the dispatcher told it
    faults,
    calls,   \* ghost: how often each intent was dispatched outside
    overtaken \* ghost: 1 once a call left custody that was not exclusive

disk == <<head, ops, outbox>>
namespace == <<own, others>>
locals == <<job, room, read, rows, row, answer>>
vars == <<disk, namespace, lease, pc, locals, faults, calls, overtaken>>

Room == {"creation", "pending", "application"}
(* What is blocked is treated as uncertain is.                             *)
Outcome == {"settled", "uncertain"}
Activating == {"activate", "migrate"}

ASSUME NoneAssumption ==
    /\ None \notin Client \union Room
    /\ None \notin [config : Config, status : Outcome \union {"started"}]

Init ==
    /\ head = <<>>
    /\ ops = [o \in Op |-> None]
    /\ outbox = [i \in Op |-> None]
    /\ own = 0
    /\ others = 0
    /\ lease = [r \in Room |-> None]
    /\ pc = [c \in Client |-> "idle"]
    /\ job = [c \in Client |-> None]
    /\ room = [c \in Client |-> None]
    /\ read = [c \in Client |-> <<>>]
    /\ rows = [c \in Client |-> {}]
    /\ row = [c \in Client |-> None]
    /\ answer = [c \in Client |-> None]
    /\ faults = 0
    /\ calls = [i \in Op |-> 0]
    /\ overtaken = 0
-----------------------------------------------------------------------------
(* What a history says.                                                    *)
Created(h) == {i \in Op : \E n \in 1..Len(h) : h[n].op = i /\ h[n].intent}
Abandoned(h) == {i \in Op : \E n \in 1..Len(h) : h[n].drain[i] = "abandoned"}
Dispatched(i) == outbox[i] # None
Settled(i) == Dispatched(i) /\ outbox[i].status = "settled"

(* Mistake: abandoning does not take an intent off the list.               *)
PendingAll(h) == {i \in Created(h) : ~ Settled(i)}
Pending(h) == {i \in Created(h) \ Abandoned(h) : ~ Settled(i)}

Named(cmd) == {i \in Op : cmd.drain[i] # "none"}

(* checkDrainRetained: what a drain said is held against the outbox of     *)
(* today, in which intents it named may have been dispatched since.        *)
DrainRetained(before, cmd) ==
    LET live == Created(before) \ Abandoned(before) IN
    Named(cmd) # {} =>
        /\ Named(cmd) \subseteq live
        /\ \A i \in live :
              /\ cmd.drain[i] = "abandoned" => ~ Dispatched(i)
              /\ cmd.drain[i] = "none" => Dispatched(i)

Readable(h) ==
    \A n \in 1..Len(h) :
        /\ h[n].kind = "create" <=> n = 1
        /\ \A m \in 1..(n - 1) : h[m].op # h[n].op
        /\ DrainRetained(SubSeq(h, 1, n - 1), h[n])
-----------------------------------------------------------------------------
(* A commit under the lease of an application to be created, on a state    *)
(* that the application has reached meanwhile, while another call works.   *)
Working == {"commit", "prepare", "publish", "dispatch", "row", "more", "call", "record", "reconcile"}
Late(c) == room[c] = "pending" /\ pc[c] \in {"prepare", "publish"} /\ job[c].expected # <<>>
Overlapping(c) == Late(c) /\ \E d \in Client \ {c} : pc[d] \in Working
Watch == overtaken' = IF \E c \in Client : Overlapping(c) THEN 1 ELSE overtaken

Goto(c, l) == pc' = [pc EXCEPT ![c] = l] /\ Watch

(* The call ends, with an answer or an error, and gives up its lease.      *)
Finish(c) ==
    /\ Goto(c, "idle")
    /\ lease' = [r \in Room |-> IF lease[r] = c THEN None ELSE lease[r]]
    /\ job' = [job EXCEPT ![c] = None]
    /\ room' = [room EXCEPT ![c] = None]
    /\ read' = [read EXCEPT ![c] = <<>>]
    /\ rows' = [rows EXCEPT ![c] = {}]
    /\ row' = [row EXCEPT ![c] = None]
    /\ answer' = [answer EXCEPT ![c] = None]

Call(c, j) ==
    /\ pc[c] = "idle"
    /\ job' = [job EXCEPT ![c] = j]
    /\ Goto(c, "scan")
    /\ UNCHANGED <<disk, namespace, lease, room, read, rows, row, answer, faults, calls>>

(* A digest is all that a caller names the expected head by: it need not   *)
(* have been published, now or ever.  (Left out is what any head refuses:  *)
(* a genesis that expects a state, another command that expects none.)     *)
Commit(c, cmd, h) ==
    /\ cmd.kind = "create" <=> h = <<>>
    /\ Call(c, [what |-> "commit", cmd |-> cmd, expected |-> h])
DispatchPending(c, k) == Call(c, [what |-> "dispatch", config |-> k])
ReconcileDispatch(c, i, k) ==
    Dispatched(i) /\ Call(c, [what |-> "reconcile", intent |-> i, config |-> k])

(* The namespace is scanned under the shared creation lease, which callers *)
(* wait for.  Until there is a head a commit goes on under a lease of its  *)
(* own, and any other call under the creation lease itself.  A namespace   *)
(* that is full refuses that commit, and what an interrupted one left of   *)
(* the application itself counts.                                          *)
Chosen(c) ==
    IF head # <<>> THEN "application"
    ELSE IF job[c].what = "commit" THEN "pending" ELSE "creation"
Exhausted == own + others >= MaxApplications

Scan(c) ==
    /\ pc[c] = "scan" /\ lease["creation"] = None
    /\ IF Chosen(c) = "pending" /\ Exhausted
       THEN Finish(c)
       ELSE /\ room' = [room EXCEPT ![c] = Chosen(c)]
            /\ IF Chosen(c) = "creation"
               THEN lease' = [lease EXCEPT !["creation"] = c] /\ Goto(c, job[c].what)
               ELSE Goto(c, "lease") /\ UNCHANGED lease
            /\ UNCHANGED <<job, read, rows, row, answer>>
    /\ UNCHANGED <<disk, namespace, faults, calls>>

(* A lease that is held refuses at once.                                   *)
TakeLease(c) ==
    /\ pc[c] = "lease"
    /\ IF lease[room[c]] = None
       THEN /\ lease' = [lease EXCEPT ![room[c]] = c]
            /\ Goto(c, job[c].what)
            /\ UNCHANGED locals
       ELSE Finish(c)
    /\ UNCHANGED <<disk, namespace, faults, calls>>
-----------------------------------------------------------------------------
(* commit.                                                                 *)
Request(c) == [cmd |-> job[c].cmd, expected |-> job[c].expected]
Known(h) == {h[n].op : n \in 1..Len(h)}
Prepared == {o \in Op : ops[o] # None}

(* Mistakes: work under way does not hold up an activation; a prepared     *)
(* operation is counted again.                                             *)
NoBarrier(cmd, h) ==
    cmd.kind = "migrate" => Named(cmd) = {i \in Pending(h) : ~ Dispatched(i)}

Barrier(cmd, h) ==
    /\ cmd.kind \in Activating => \A i \in Pending(h) : ~ Dispatched(i)
    /\ cmd.kind = "migrate" => Named(cmd) = {i \in Pending(h) : ~ Dispatched(i)}

RoomForAnother(o) == Cardinality(Prepared) < MaxStates
RoomFor(o) == o \in Prepared \/ Cardinality(Prepared) < MaxStates

Admissible(c) ==
    LET cmd == job[c].cmd IN
    /\ Readable(head)
    /\ cmd.op \in Prepared => ops[cmd.op] = Request(c)
    /\ cmd.op \notin Known(head)
    /\ head = job[c].expected
    /\ Len(head) < MaxStates
    /\ Cardinality(Pending(head)) + (IF cmd.intent THEN 1 ELSE 0) <= MaxPending
    /\ cmd.kind = "create" <=> head = <<>>
    /\ Barrier(cmd, head)
    /\ RoomFor(cmd.op)

(* An operation that is committed is answered again (or refused), one that *)
(* is admissible goes on; the trusted host's refusal is a Fail.            *)
CheckCommit(c) ==
    /\ pc[c] = "commit"
    /\ IF Admissible(c) THEN Goto(c, "prepare") /\ UNCHANGED <<lease, locals>> ELSE Finish(c)
    /\ UNCHANGED <<disk, namespace, faults, calls>>

(* Publications wait for each other, and a commit's ends with the head.    *)
Free(c) == \A d \in Client \ {c} : pc[d] # "publish"

(* A new name is charged for when the namespace has room for one more.     *)
(* (What is charged for is taken to have its directory.)                   *)
Charged == own = 1 \/ ~ Exhausted

(* An operation's record never changes.                                    *)
Prepare(c) ==
    /\ pc[c] = "prepare" /\ Free(c)
    /\ own' = IF Charged THEN 1 ELSE own
    /\ IF Charged /\ ops[job[c].cmd.op] \in {None, Request(c)}
       THEN /\ ops' = [ops EXCEPT ![job[c].cmd.op] = Request(c)]
            /\ Goto(c, "publish")
            /\ UNCHANGED <<lease, locals>>
       ELSE Finish(c) /\ UNCHANGED ops
    /\ UNCHANGED <<head, outbox, others, faults, calls>>

Publish(c) ==
    /\ pc[c] = "publish"
    /\ head' = Append(job[c].expected, job[c].cmd)
    /\ Finish(c)
    /\ UNCHANGED <<ops, outbox, namespace, faults, calls>>
-----------------------------------------------------------------------------
(* dispatchPending and reconcileDispatch.                                  *)
(* Mistake: what is not settled is dispatched again.                       *)
Unsettled == Pending(head)
Waiting == {i \in Pending(head) : ~ Dispatched(i)}

Select(c) ==
    /\ pc[c] = "dispatch"
    /\ IF Readable(head)
       THEN /\ read' = [read EXCEPT ![c] = head]
            /\ rows' = [rows EXCEPT ![c] = Waiting]
            /\ Goto(c, "row")
            /\ UNCHANGED <<lease, job, room, row, answer>>
       ELSE Finish(c)
    /\ UNCHANGED <<disk, namespace, faults, calls>>

(* Rows go in the order of the history that was read.                      *)
Place(h, i) == CHOOSE n \in 1..Len(h) : h[n].op = i
First(c, i) == i \in rows[c] /\ \A j \in rows[c] : Place(read[c], i) <= Place(read[c], j)

(* The trusted host denies an intent, which is passed over, or admits it.  *)
Deny(c) ==
    /\ pc[c] \in {"row", "more"}
    /\ \E i \in Op : First(c, i) /\ rows' = [rows EXCEPT ![c] = @ \ {i}]
    /\ Watch
    /\ UNCHANGED <<disk, namespace, lease, pc, job, room, read, row, answer, faults, calls>>

(* The first record of a dispatch is immutable.                            *)
Start(c) ==
    /\ pc[c] \in {"row", "more"} /\ Free(c)
    /\ \E i \in Op :
          /\ First(c, i)
          /\ LET record == [config |-> job[c].config, status |-> "started"] IN
             IF outbox[i] \in {None, record}
             THEN /\ outbox' = [outbox EXCEPT ![i] = record]
                  /\ rows' = [rows EXCEPT ![c] = @ \ {i}]
                  /\ row' = [row EXCEPT ![c] = i]
                  /\ Goto(c, "call")
                  /\ UNCHANGED <<lease, job, room, read, answer>>
             ELSE Finish(c) /\ UNCHANGED outbox
    /\ UNCHANGED <<head, ops, namespace, faults, calls>>

(* A dispatcher that throws establishes nothing.                           *)
Ask(c) ==
    /\ pc[c] = "call"
    /\ \E a \in Outcome : answer' = [answer EXCEPT ![c] = a]
    /\ calls' = [calls EXCEPT ![row[c]] = @ + 1]
    /\ Goto(c, "record")
    /\ UNCHANGED <<disk, namespace, lease, job, room, read, rows, row, faults>>

Record(c) ==
    /\ pc[c] = "record" /\ Free(c)
    /\ outbox' = [outbox EXCEPT ![row[c]].status = answer[c]]
    /\ answer' = [answer EXCEPT ![c] = None]
    /\ row' = [row EXCEPT ![c] = None]
    /\ Goto(c, "more")
    /\ UNCHANGED <<head, ops, namespace, lease, job, room, read, rows, faults, calls>>

(* All rows are done, or the batch is full.                                *)
EndBatch(c) ==
    /\ pc[c] = "more" \/ (pc[c] = "row" /\ rows[c] = {})
    /\ Finish(c)
    /\ UNCHANGED <<disk, namespace, faults, calls>>

(* Only under the configuration it was dispatched with, and if the host    *)
(* admits the same plan again (else Fail).  What is settled is answered.   *)
Reconcile(c) ==
    /\ pc[c] = "reconcile" /\ Free(c)
    /\ LET i == job[c].intent IN
       IF Readable(head) /\ i \in Pending(head) /\ Dispatched(i) /\ outbox[i].config = job[c].config
       THEN \E a \in Outcome : outbox' = [outbox EXCEPT ![i].status = a]
       ELSE UNCHANGED outbox
    /\ Finish(c)
    /\ UNCHANGED <<head, ops, namespace, faults, calls>>
-----------------------------------------------------------------------------
(* Something throws, is refused by the host or by a quota, or the process  *)
(* dies, between any two of these steps; the directories of a record may   *)
(* then be there without it.                                               *)
Fail(c) ==
    /\ pc[c] \notin {"idle", "scan", "lease"} /\ faults < MaxFaults
    /\ faults' = faults + 1
    /\ own' \in {own} \union (IF pc[c] = "prepare" /\ Charged THEN {1} ELSE {})
    /\ Finish(c)
    /\ UNCHANGED <<disk, others, calls>>

(* Another application is created.                                         *)
Neighbour ==
    /\ ~ Exhausted
    /\ others' = others + 1
    /\ Watch
    /\ UNCHANGED <<disk, own, lease, pc, locals, faults, calls>>

Step(c) ==
    \/ Scan(c) \/ TakeLease(c) \/ CheckCommit(c) \/ Prepare(c) \/ Publish(c)
    \/ Select(c) \/ Deny(c) \/ Start(c) \/ Ask(c) \/ Record(c) \/ EndBatch(c) \/ Reconcile(c)

Next ==
    \/ Neighbour
    \/ \E c \in Client :
        \/ \E cmd \in Command, h \in Expected : Commit(c, cmd, h)
        \/ \E k \in Config : DispatchPending(c, k) \/ \E i \in Op : ReconcileDispatch(c, i, k)
        \/ Step(c) \/ Fail(c)

Spec == Init /\ [][Next]_vars
-----------------------------------------------------------------------------
(* A call under way goes on, and who was interrupted repeats the exact     *)
(* command.                                                                *)
Retry(c, o) == ops[o] # None /\ Commit(c, ops[o].cmd, ops[o].expected)
FairSpec ==
    /\ Spec
    /\ WF_vars(Step(Survivor))
    /\ \A o \in Op : SF_vars(Retry(Survivor, o))
-----------------------------------------------------------------------------
Job == [what : {"commit"}, cmd : Command, expected : Seq(Command)]
       \union [what : {"dispatch"}, config : Config]
       \union [what : {"reconcile"}, intent : Op, config : Config]

TypeOK ==
    /\ head \in Seq(Command)
    /\ ops \in [Op -> [cmd : Command, expected : Seq(Command)] \union {None}]
    /\ outbox \in [Op -> [config : Config, status : Outcome \union {"started"}] \union {None}]
    /\ own \in {0, 1}
    /\ others \in Nat
    /\ own + others <= MaxApplications
    /\ lease \in [Room -> Client \union {None}]
    /\ pc \in [Client -> {"idle", "scan", "lease"} \union Working]
    /\ job \in [Client -> Job \union {None}]
    /\ room \in [Client -> Room \union {None}]
    /\ read \in [Client -> Seq(Command)]
    /\ rows \in [Client -> SUBSET Op]
    /\ row \in [Client -> Op \union {None}]
    /\ answer \in [Client -> Outcome \union {None}]
    /\ faults \in 0..MaxFaults
    /\ calls \in [Op -> Nat]
    /\ overtaken \in {0, 1}

(* Whatever was published, dispatched and abandoned, and whichever call    *)
(* died where, the service can read its own history: no operation twice,   *)
(* and every drain agrees with an outbox that went on since                *)
(* (application-core.ts, 256-282 and 313-333).  That is so as long as      *)
(* custody was "Exclusive across ALL owners" (application-storage.ts, 27): *)
(* a commit that chose its lease before the first head, on a state that    *)
(* came after (application-filesystem.ts, 50-51), may work beside another. *)
HistoryReadable == overtaken = 0 => Readable(head)

(* An intent is dispatched outside once, under whatever leases: what is    *)
(* not settled is never repeated but by explicit reconciliation.  And, as  *)
(* long as custody was exclusive, what was abandoned is not dispatched at  *)
(* all (542, 576).                                                         *)
DispatchedOnce ==
    \A i \in Op :
        /\ calls[i] <= 1
        /\ overtaken = 0 /\ i \in Abandoned(head) => calls[i] = 0

(* A prepared operation whose commit was interrupted is committed by       *)
(* repeating it, for a host that is in the end left alone: a lease in use  *)
(* refuses at once (426-437, 480).  Unless another state was committed     *)
(* meanwhile, or work dispatched meanwhile holds it up, or custody was not *)
(* exclusive and left a history that cannot be read, or it is the first    *)
(* commit of all and the namespace is full: the directory the interrupted  *)
(* commit left is counted against its repetition                           *)
(* (application-filesystem.ts, 46).                                        *)
Undisturbed == <>[](\A c \in Client \ {Survivor} : pc[c] = "idle")
Interrupted(o) ==
    /\ ops[o] # None /\ o \notin Known(head)
    /\ head = ops[o].expected /\ Barrier(ops[o].cmd, head) /\ Readable(head)
    /\ head = <<>> => ~ Exhausted
PreparedResolves == Undisturbed => \A o \in Op : Interrupted(o) ~> ~ Interrupted(o)

(* One linear history, one fate for each intent, up to a step that two     *)
(* calls were in custody for, one of them overtaken by the first head.     *)
Fate(i) ==
    IF i \notin Created(head) THEN "absent"
    ELSE IF i \in Abandoned(head) THEN "abandoned"
    ELSE IF ~ Dispatched(i) THEN "pending"
    ELSE IF Settled(i) THEN "settled" ELSE "dispatched"
Abstract == INSTANCE Lifecycle WITH log <- head, work <- [i \in Op |-> Fate(i)], asked <- calls
ImplementsLifecycle ==
    Abstract!Init /\ [][overtaken' = 1 \/ Abstract!Next]_(Abstract!vars)
=============================================================================
