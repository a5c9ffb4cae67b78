----------------------------- MODULE HostEvents -----------------------------
(***************************************************************************)
(* The host's event outbox (src/src/host-events.ts): enqueue, cancel and   *)
(* the passes of deliverDue, run by several host processes over one store, *)
(* with the mailbox they deliver into as the abstract Channel.             *)
(*                                                                         *)
(* An event is an immutable admission and up to two markers: cancelled, or *)
(* sending and then delivered.  Transitions hold the event's lease;        *)
(* snapshots are read file by file without it.  Leases are those of        *)
(* HostLease: exclusive, refused at once when held, and freed by death.    *)
(***************************************************************************)
EXTENDS Naturals, FiniteSets, FiniteSetsExt

CONSTANTS
    Worker,         \* host operations under way at a time
    Event,          \* event identities, in the order of their file names
    Body,           \* contents an event may be admitted with
    DueAt,          \* DueAt[b]: when content b is to be delivered
    Legacy,         \* events with a lock file of an older version
    MaxEvents,      \* admitted events (4096 in the code)
    Horizon,        \* how far ahead a timer may be (366 days in the code)
    MaxMessages,    \* capacity of the target mailbox
    MaxTime,        \* the clock reads 0..MaxTime
    MaxFaults,      \* failures and deaths, bounded for model checking
    None

ASSUME EventAssumption == Event \subseteq Nat \ {0} /\ Legacy \subseteq Event
ASSUME DueAssumption == DueAt \in [Body -> Nat] /\ MaxTime \in Nat
ASSUME BoundAssumption ==
    MaxEvents \in Nat /\ Horizon \in Nat /\ MaxMessages \in Nat /\ MaxFaults \in Nat
ASSUME NoneAssumption == None \notin Worker \union Event \union Body

Admission == 0    \* the lease of enqueue

VARIABLES
    \* on disk
    events,         \* events[e]: the content admitted, or None
    sending, delivered, cancelled,  \* events with that marker
    lease,          \* lease[l]: its holder
    \* the target mailbox
    post, taken, revoked,
    \* the host
    now,            \* what the clock reads; it may be set back
    pc, op, ev, body, seen,
    ids,            \* ids[w]: events its pass has still to list
    listed,         \* listed[w]: unsettled events it listed, with their status
    faults,
    \* history
    due,            \* events whose time has been reached
    told,           \* answers to cancel
    alarms          \* events a snapshot called corrupt

Box == INSTANCE Channel WITH Key <- Event
box == <<post, taken, revoked>>
markers == <<sending, delivered, cancelled>>
pass == <<ids, listed>>
locals == <<pc, op, ev, body, seen, pass>>
vars == <<events, markers, lease, box, now, locals, faults, due, told, alarms>>

Operation == {"enqueue", "cancel", "list", "deliver"}
Reads == {"delivered", "cancelled", "sending"}
Location == {"idle", "admitted", "judge", "lock", "recheck", "admit", "mark", "intend", "send",
             "ack", "release", "next"} \union Reads

TypeOK ==
    /\ events \in [Event -> Body \union {None}]
    /\ sending \subseteq Event /\ delivered \subseteq Event /\ cancelled \subseteq Event
    /\ lease \in [Event \union {Admission} -> Worker \union {None}]
    /\ now \in 0..MaxTime
    /\ pc \in [Worker -> Location]
    /\ op \in [Worker -> Operation \union {None}]
    /\ ev \in [Worker -> Event \union {None}]
    /\ body \in [Worker -> Body \union {None}]
    /\ seen \in [Worker -> SUBSET Reads]
    /\ ids \in [Worker -> SUBSET Event]
    /\ listed \in [Worker -> SUBSET (Event \X {"pending", "sending"})]
    /\ faults \in 0..MaxFaults
    /\ due \subseteq Event
    /\ told \subseteq Event \X {"cancelled", "too-late"}
    /\ alarms \subseteq Event

Admitted == {e \in Event : events[e] # None}
IsDue(e) == DueAt[events[e]] <= now
Reached(es, t) == due \union {e \in Event : es[e] # None /\ DueAt[es[e]] <= t}

Init ==
    /\ events = [e \in Event |-> None]
    /\ sending = {} /\ delivered = {} /\ cancelled = {}
    /\ lease = [l \in Event \union {Admission} |-> None]
    /\ Box!Init
    /\ now = 0
    /\ pc = [w \in Worker |-> "idle"] /\ op = [w \in Worker |-> None]
    /\ ev = [w \in Worker |-> None] /\ body = [w \in Worker |-> None]
    /\ seen = [w \in Worker |-> {}]
    /\ ids = [w \in Worker |-> {}] /\ listed = [w \in Worker |-> {}]
    /\ faults = 0 /\ due = {} /\ told = {} /\ alarms = {}

Goto(w, l) == pc' = [pc EXCEPT ![w] = l]
Finish(w) ==
    /\ Goto(w, "idle")
    /\ op' = [op EXCEPT ![w] = None] /\ ev' = [ev EXCEPT ![w] = None]
    /\ body' = [body EXCEPT ![w] = None] /\ seen' = [seen EXCEPT ![w] = {}]
    /\ ids' = [ids EXCEPT ![w] = {}] /\ listed' = [listed EXCEPT ![w] = {}]
Tell(e, answer) == told' = told \union {<<e, answer>>}
Lease(w) == IF op[w] = "enqueue" THEN Admission ELSE ev[w]
-----------------------------------------------------------------------------
(* An operation starts.  cancel names an admitted event; a pass first      *)
(* lists every event, in order, and then takes each that is unsettled.     *)
Start(w, o, e) ==
    /\ pc[w] = "idle"
    /\ op' = [op EXCEPT ![w] = o]
    /\ ev' = [ev EXCEPT ![w] = e]

BeginCancel(w, e) ==
    /\ e \in Admitted
    /\ Start(w, "cancel", e)
    /\ Goto(w, "delivered")
    /\ UNCHANGED <<events, markers, lease, box, now, body, seen, pass, faults, due, told, alarms>>

BeginPass(w) ==
    /\ Admitted # {}
    /\ Start(w, "list", Min(Admitted))
    /\ ids' = [ids EXCEPT ![w] = Admitted \ {Min(Admitted)}]
    /\ Goto(w, "delivered")
    /\ UNCHANGED <<events, markers, lease, box, now, body, seen, listed, faults, due, told, alarms>>

BeginEnqueue(w, e, b) ==
    /\ Start(w, "enqueue", e)
    /\ body' = [body EXCEPT ![w] = b]
    /\ Goto(w, "admitted")
    /\ UNCHANGED <<events, markers, lease, box, now, seen, pass, faults, due, told, alarms>>

(* enqueue reads the admission without a lease: the same content is        *)
(* answered with a snapshot, another one is refused.                       *)
ReadAdmission(w) ==
    /\ pc[w] = "admitted"
    /\ IF events[ev[w]] \in {None, body[w]}
       THEN /\ Goto(w, IF events[ev[w]] = None THEN "lock" ELSE "delivered")
            /\ UNCHANGED <<op, ev, body, seen, pass>>
       ELSE Finish(w)
    /\ UNCHANGED <<events, markers, lease, box, now, faults, due, told, alarms>>

(* A snapshot reads one marker after the other: the terminal ones, then    *)
(* the intent.                                                             *)
Marked(m) == CASE m = "delivered" -> delivered
               [] m = "cancelled" -> cancelled
               [] m = "sending" -> sending

(* Mistake: the intent is read before the terminal markers.                *)
IntentFirst(m) == CASE m = "delivered" -> "sending"
                    [] m = "cancelled" -> "delivered"
                    [] m = "sending" -> "cancelled"

FileRead(m) == m

Following(m) == CASE m = "delivered" -> "cancelled"
                  [] m = "cancelled" -> "sending"
                  [] m = "sending" -> "judge"

ReadMarker(w) ==
    /\ pc[w] \in Reads
    /\ seen' = IF ev[w] \in Marked(FileRead(pc[w]))
               THEN [seen EXCEPT ![w] = @ \union {FileRead(pc[w])}] ELSE seen
    /\ Goto(w, Following(pc[w]))
    /\ UNCHANGED <<events, markers, lease, box, now, op, ev, body, pass, faults, due, told, alarms>>

Status(s) == IF "delivered" \in s THEN "delivered"
             ELSE IF "cancelled" \in s THEN "cancelled"
             ELSE IF "sending" \in s THEN "sending" ELSE "pending"
Corrupt(s) ==
    \/ "cancelled" \in s /\ s \intersect {"sending", "delivered"} # {}
    \/ "delivered" \in s /\ "sending" \notin s

Unsettled(s) == Status(s) \in {"pending", "sending"}

(* Mistake: an intent is taken for a delivery.                             *)
PendingOnly(e, s) == Status(s) = "pending" /\ IsDue(e)
Deliverable(e, s) == Status(s) = "sending" \/ (Status(s) = "pending" /\ IsDue(e))

(* Only a transition needs the lease: cancelling what is pending, sending  *)
(* what is due or was intended.                                            *)
Goes(w, s) ==
    \/ op[w] = "cancel" /\ Status(s) = "pending"
    \/ op[w] = "deliver" /\ Deliverable(ev[w], s)

Answer(w, s) ==
    IF op[w] = "cancel"
    THEN Tell(ev[w], IF Status(s) = "cancelled" THEN "cancelled" ELSE "too-late")
    ELSE UNCHANGED told

(* The event is listed; the next one is read, or the pass begins to send.  *)
List(w) ==
    /\ listed' = [listed EXCEPT ![w] = @ \union
                     (IF Unsettled(seen[w]) THEN {<<ev[w], Status(seen[w])>>} ELSE {})]
    /\ seen' = [seen EXCEPT ![w] = {}]
    /\ IF ids[w] = {}
       THEN /\ op' = [op EXCEPT ![w] = "deliver"] /\ ev' = [ev EXCEPT ![w] = None]
            /\ Goto(w, "next") /\ UNCHANGED ids
       ELSE /\ ev' = [ev EXCEPT ![w] = Min(ids[w])]
            /\ ids' = [ids EXCEPT ![w] = @ \ {Min(ids[w])}]
            /\ Goto(w, "delivered") /\ UNCHANGED op
    /\ UNCHANGED <<body, told>>

(* What a snapshot says: corrupt, which ends a whole pass, an answer, or a *)
(* reason to take the lease.                                               *)
Judge(w) ==
    /\ pc[w] = "judge"
    /\ IF Corrupt(seen[w])
       THEN alarms' = alarms \union {ev[w]} /\ Finish(w) /\ UNCHANGED told
       ELSE /\ UNCHANGED alarms
            /\ IF op[w] = "list" THEN List(w)
               ELSE IF Goes(w, seen[w])
               THEN /\ Goto(w, "lock")
                    /\ seen' = [seen EXCEPT ![w] = {}]
                    /\ UNCHANGED <<op, ev, body, pass, told>>
               ELSE Answer(w, seen[w]) /\ Finish(w)
    /\ UNCHANGED <<events, markers, lease, box, now, faults, due>>

(* The next event of the pass, skipped while it is not due.                *)
NextEvent(w) ==
    /\ pc[w] = "next"
    /\ IF listed[w] = {} THEN Finish(w)
       ELSE LET e == Min({x[1] : x \in listed[w]})
                skipped == <<e, "pending">> \in listed[w] /\ ~ IsDue(e) IN
            /\ listed' = [listed EXCEPT ![w] = {x \in @ : x[1] # e}]
            /\ IF skipped THEN UNCHANGED <<pc, ev>>
               ELSE Goto(w, "lock") /\ ev' = [ev EXCEPT ![w] = e]
            /\ UNCHANGED <<op, body, seen, ids>>
    /\ UNCHANGED <<events, markers, lease, box, now, faults, due, told, alarms>>

(* A held lease, or a lock file of an older version, refuses at once and   *)
(* ends the operation, a whole pass too.                                   *)
TakeLease(w) ==
    /\ pc[w] = "lock"
    /\ IF lease[Lease(w)] = None /\ Lease(w) \notin Legacy
       THEN /\ lease' = [lease EXCEPT ![Lease(w)] = w]
            /\ Goto(w, IF op[w] = "enqueue" THEN "admit" ELSE "recheck")
            /\ UNCHANGED <<op, ev, body, seen, pass>>
       ELSE Finish(w) /\ UNCHANGED lease
    /\ UNCHANGED <<events, markers, box, now, faults, due, told, alarms>>

(* Mistake: what the snapshot said is not checked again under the lease.   *)
TrustSnapshot(w) ==
    /\ pc[w] = "recheck"
    /\ Goto(w, IF op[w] = "cancel" THEN "mark" ELSE "intend")
    /\ UNCHANGED <<events, markers, lease, box, now, op, ev, body, seen, pass, faults, due, told, alarms>>

(* enqueue under the admission lease: an event admitted meanwhile stays as *)
(* it is, a full outbox or a timer too far ahead is refused.               *)
Admit(w) ==
    /\ pc[w] = "admit"
    /\ events' = IF /\ events[ev[w]] = None
                     /\ Cardinality(Admitted) < MaxEvents
                     /\ DueAt[body[w]] <= now + Horizon
                  THEN [events EXCEPT ![ev[w]] = body[w]] ELSE events
    /\ due' = Reached(events', now)
    /\ Goto(w, "release")
    /\ UNCHANGED <<markers, lease, box, now, op, ev, body, seen, pass, faults, told, alarms>>

(* The snapshot is taken again.  Markers change only under the lease, so   *)
(* its reads are one here.                                                 *)
Recheck(w) ==
    /\ pc[w] = "recheck"
    /\ LET s == {m \in Reads : ev[w] \in Marked(m)} IN
          /\ Goto(w, IF ~ Goes(w, s) THEN "release"
                     ELSE IF op[w] = "cancel" THEN "mark"
                     ELSE IF Status(s) = "pending" THEN "intend" ELSE "send")
          /\ IF Goes(w, s) THEN UNCHANGED told ELSE Answer(w, s)
    /\ UNCHANGED <<events, markers, lease, box, now, op, ev, body, seen, pass, faults, due, alarms>>

MarkCancelled(w) ==
    /\ pc[w] = "mark"
    /\ cancelled' = cancelled \union {ev[w]}
    /\ Tell(ev[w], "cancelled")
    /\ Goto(w, "release")
    /\ UNCHANGED <<events, sending, delivered, lease, box, now, op, ev, body, seen, pass, faults, due, alarms>>

MarkSending(w) ==
    /\ pc[w] = "intend"
    /\ sending' = sending \union {ev[w]}
    /\ Goto(w, "send")
    /\ UNCHANGED <<events, delivered, cancelled, lease, box, now, op, ev, body, seen, pass, faults, due,
                   told, alarms>>

(* Mistake: acknowledged whatever the mailbox answered.                    *)
SendUnchecked(w) ==
    /\ pc[w] = "send"
    /\ \/ Box!Post(ev[w], events[ev[w]])
       \/ UNCHANGED box
    /\ Goto(w, "ack")
    /\ UNCHANGED <<events, markers, lease, now, op, ev, body, seen, pass, faults, due, told, alarms>>

(* The exact body and key again: what was posted before is only answered.  *)
Send(w) ==
    /\ pc[w] = "send"
    /\ \/ Box!Post(ev[w], events[ev[w]])
       \/ post[ev[w]] = events[ev[w]] /\ "send" \notin revoked /\ UNCHANGED box
    /\ Goto(w, "ack")
    /\ UNCHANGED <<events, markers, lease, now, op, ev, body, seen, pass, faults, due, told, alarms>>

(* The mailbox is full or the capability revoked: the intent stays and the *)
(* pass ends.                                                              *)
Refused(w) ==
    /\ pc[w] = "send"
    /\ \/ "send" \in revoked
       \/ post[ev[w]] = None /\ Cardinality(Box!Waiting) >= MaxMessages
    /\ lease' = [lease EXCEPT ![ev[w]] = None]
    /\ Finish(w)
    /\ UNCHANGED <<events, markers, box, now, faults, due, told, alarms>>

MarkDelivered(w) ==
    /\ pc[w] = "ack"
    /\ delivered' = delivered \union {ev[w]}
    /\ Goto(w, "release")
    /\ UNCHANGED <<events, sending, cancelled, lease, box, now, op, ev, body, seen, pass, faults, due,
                   told, alarms>>

(* The operation returns; a pass goes on to its next event.                *)
Release(w) ==
    /\ pc[w] = "release"
    /\ lease' = [lease EXCEPT ![Lease(w)] = None]
    /\ IF op[w] = "deliver"
       THEN /\ Goto(w, "next") /\ ev' = [ev EXCEPT ![w] = None]
            /\ UNCHANGED <<op, body, seen, pass>>
       ELSE Finish(w)
    /\ UNCHANGED <<events, markers, box, now, faults, due, told, alarms>>

Holding == {"recheck", "admit", "mark", "intend", "send", "ack", "release"}

(* The operation throws, is aborted, or its process dies, also between two *)
(* files; the lease is freed in every case.                                *)
Fail(w) ==
    /\ pc[w] # "idle" /\ faults < MaxFaults
    /\ faults' = faults + 1
    /\ lease' = IF pc[w] \in Holding THEN [lease EXCEPT ![Lease(w)] = None] ELSE lease
    /\ Finish(w)
    /\ UNCHANGED <<events, markers, box, now, due, told, alarms>>

Clock ==
    /\ now' \in 0..MaxTime
    /\ due' = Reached(events, now')
    /\ UNCHANGED <<events, markers, lease, box, locals, faults, told, alarms>>

(* The receiving process, and whoever may revoke.                          *)
Receiver ==
    /\ \E e \in Event : Box!Take(e)
    /\ UNCHANGED <<events, markers, lease, now, locals, faults, due, told, alarms>>

Revoke ==
    /\ "send" \notin revoked /\ Box!Revoke("send")
    /\ UNCHANGED <<events, markers, lease, now, locals, faults, due, told, alarms>>
-----------------------------------------------------------------------------
Step(w) ==
    \/ ReadAdmission(w) \/ ReadMarker(w) \/ Judge(w) \/ NextEvent(w) \/ TakeLease(w)
    \/ Admit(w) \/ Recheck(w) \/ MarkCancelled(w) \/ MarkSending(w)
    \/ Send(w) \/ Refused(w) \/ MarkDelivered(w) \/ Release(w)

Next ==
    \/ \E w \in Worker, e \in Event :
          BeginCancel(w, e) \/ \E b \in Body : BeginEnqueue(w, e, b)
    \/ \E w \in Worker : BeginPass(w) \/ Step(w) \/ Fail(w)
    \/ Clock \/ Receiver \/ Revoke

Spec == Init /\ [][Next]_vars

(* Operations under way go on, the host keeps making passes (poll) and the *)
(* receiver keeps receiving.                                               *)
FairSpec ==
    /\ Spec
    /\ \A w \in Worker : WF_vars(Step(w))
    /\ SF_vars(\E w \in Worker : BeginPass(w))
    /\ WF_vars(Receiver)
-----------------------------------------------------------------------------
(* Whatever runs meanwhile, no snapshot takes an event for corrupt: the    *)
(* order of snapshot's reads (host-events.ts, 183-187) is what keeps a     *)
(* reader without the lease from a false alarm.                            *)
NoFalseAlarm == alarms = {}

(* A caller of cancel told that an event is cancelled never sees it        *)
(* posted; one told that it is too late never sees it cancelled (250-251). *)
AnswersHold ==
    \A t \in told : IF t[2] = "cancelled" THEN post[t[1]] = None /\ t[1] \notin sending
                    ELSE t[1] \in sending /\ t[1] \notin cancelled

(* A message of deliverDue carries the content its event was admitted with *)
(* and was intended before it was posted, and not before its time; what is *)
(* acknowledged as delivered was posted (270-279).                         *)
PostedAsAdmitted ==
    /\ \A e \in Event : post[e] # None =>
          post[e] = events[e] /\ e \in sending /\ e \in due
    /\ \A e \in delivered : post[e] # None

(* A pass throws at the first event it is refused, so an earlier one with  *)
(* an old lock file stops it.                                              *)
Blocked(e) == \E l \in Legacy : l <= e

(* An intent is irrevocable and is retried: what was too late to cancel is *)
(* delivered, as long as the target admits its sender and no event before  *)
(* it is locked for good (250-251, 275-276).                               *)
IntentDelivered ==
    \A e \in Event : e \in sending ~> (e \in delivered \/ "send" \in revoked \/ Blocked(e))
=============================================================================
