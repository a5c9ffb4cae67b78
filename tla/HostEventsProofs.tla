-------------------------- MODULE HostEventsProofs --------------------------
(***************************************************************************)
(* Proofs about HostEvents, for any number of workers, events and contents *)
(* and any bounds.  The argument: an event's markers are written under its *)
(* lease only, so what was checked under it still holds when a marker is   *)
(* written; markers, admissions and messages only grow, so what a snapshot *)
(* has seen stays true while it reads on, and as a delivery follows its    *)
(* intent, the intent read last cannot be missing.                         *)
(***************************************************************************)
EXTENDS HostEvents, WellFoundedInduction, TLAPS

(* The message of an event is a content or none. *)
TInv == TypeOK /\ post \in [Event -> Body \union {None}]

(* Where an operation can be, and what it works on. *)
Place(w) ==
    /\ pc[w] \in {"admitted", "admit"} => op[w] = "enqueue"
    /\ pc[w] \in {"mark"} => op[w] = "cancel"
    /\ pc[w] \in {"intend", "send", "ack", "next"} => op[w] = "deliver"
    /\ pc[w] = "recheck" => op[w] \in {"cancel", "deliver"}
    /\ pc[w] \in {"lock", "release"} => op[w] \in {"enqueue", "cancel", "deliver"}
    /\ pc[w] \in Reads \union {"judge"} => op[w] \in {"enqueue", "cancel", "list"}
    /\ pc[w] # "idle" /\ op[w] = "enqueue" => body[w] \in Body
    /\ pc[w] \notin {"idle", "next"} => ev[w] \in Event
    /\ pc[w] \notin {"idle", "next"} /\ op[w] # "enqueue" => ev[w] \in Admitted
    /\ ids[w] \subseteq Admitted
    /\ \A x \in listed[w] : x[1] \in Admitted
PlaceInv == \A w \in Worker : Place(w)

(* The files of an event, its message and its time. *)
DiskInv ==
    /\ delivered \subseteq sending /\ cancelled \intersect sending = {}
    /\ sending \subseteq due
    /\ \A e \in Admitted : IsDue(e) => e \in due
    /\ \A e \in Event : post[e] # None => post[e] = events[e] /\ e \in sending
    /\ \A e \in delivered : post[e] # None

(* What the holder of a lease has checked or done under it. *)
Knows(w) ==
    /\ pc[w] \in Holding => lease[Lease(w)] = w
    /\ pc[w] \in {"mark", "intend"} => ev[w] \notin cancelled \union sending
    /\ pc[w] = "intend" => ev[w] \in due
    /\ pc[w] \in {"send", "ack"} => ev[w] \in sending
    /\ pc[w] = "ack" => post[ev[w]] # None
LeaseInv == \A w \in Worker : Knows(w)

(* A snapshot under way has seen only what is there, and the intent of     *)
(* each delivery it saw, once it has read everything.                      *)
Snapshot(w) ==
    /\ pc[w] \in {"idle", "admitted", "delivered"} => seen[w] = {}
    /\ pc[w] = "cancelled" => seen[w] \subseteq {"delivered"}
    /\ pc[w] = "sending" => seen[w] \subseteq {"delivered", "cancelled"}
    /\ pc[w] \in Reads \union {"judge"} => \A m \in seen[w] : ev[w] \in Marked(m)
    /\ pc[w] = "judge" /\ "delivered" \in seen[w] => "sending" \in seen[w]
SnapshotInv == \A w \in Worker : Snapshot(w)

(* What was answered is on disk. *)
ToldInv ==
    /\ NoFalseAlarm
    /\ \A t \in told : IF t[2] = "cancelled" THEN t[1] \in cancelled ELSE t[1] \in sending

IInv == TInv /\ PlaceInv /\ DiskInv /\ LeaseInv /\ SnapshotInv /\ ToldInv
-----------------------------------------------------------------------------
(* Who moves in a step: one worker, or something outside. *)
Acts(w) ==
    \/ \E e \in Event : BeginCancel(w, e) \/ \E b \in Body : BeginEnqueue(w, e, b)
    \/ BeginPass(w) \/ Step(w) \/ Fail(w)
Outside == Clock \/ Receiver \/ Revoke

LEMMA SomeoneActs == Next => (\E w \in Worker : Acts(w)) \/ Outside
BY DEF Next, Acts, Outside

(* A set of events has a first one. *)
LEMMA FirstOf ==
    ASSUME NEW S, S \subseteq Event, S # {}
    PROVE  Min(S) \in S
<1> DEFINE R == {ss \in Nat \X Nat : ss[1] < ss[2]}
<1>1. IsWellFoundedOn(R, Nat)
  BY NatLessThanWellFounded DEF OpToRel
<1>2. S \subseteq Nat
  BY EventAssumption
<1> HIDE DEF R
<1>3. PICK x \in S : \A y \in S : <<y, x>> \notin R
  BY <1>1, <1>2, WFMin
<1>4. ASSUME NEW y \in S PROVE x <= y
  <2>1. <<y, x>> \in Nat \X Nat /\ <<y, x>> \notin R BY <1>2, <1>3
  <2>2. ~ (y < x) BY <2>1 DEF R
  <2>3. QED BY <2>1, <2>2
<1>5. QED BY <1>4 DEF Min

LEMMA InitIInv == Init => IInv
<1> SUFFICES ASSUME Init PROVE IInv
  OBVIOUS
<1>1. TInv
  BY DueAssumption, BoundAssumption DEF Init, Box!Init, TInv, TypeOK, Location, Operation
<1>2. PlaceInv
  BY DEF Init, PlaceInv, Place, Reads
<1>3. DiskInv
  BY DEF Init, Box!Init, DiskInv, Admitted
<1>4. LeaseInv
  BY DEF Init, LeaseInv, Knows, Holding
<1>5. SnapshotInv
  BY DEF Init, SnapshotInv, Snapshot, Reads
<1>6. ToldInv
  BY DEF Init, ToldInv, NoFalseAlarm
<1>7. QED BY <1>1, <1>2, <1>3, <1>4, <1>5, <1>6 DEF IInv
-----------------------------------------------------------------------------
(* Every variable keeps its type. *)
LEMMA TypeStep == IInv /\ [Next]_vars => TInv'
<1> SUFFICES ASSUME IInv, [Next]_vars PROVE TInv'
  OBVIOUS
<1> USE DEF IInv, TInv, TypeOK, Location, Operation, Reads, Goto, Finish, Start, locals, pass,
            markers, box
<1>1. ASSUME NEW w \in Worker, Acts(w) PROVE TInv'
  <2>1. ASSUME NEW e \in Event, BeginCancel(w, e) PROVE TInv'
    BY <2>1 DEF BeginCancel
  <2>2. ASSUME NEW e \in Event, NEW b \in Body, BeginEnqueue(w, e, b) PROVE TInv'
    BY <2>2 DEF BeginEnqueue
  <2>3. CASE BeginPass(w)
    <3>1. Min(Admitted) \in Admitted
      BY <2>3, FirstOf DEF BeginPass, Admitted
    <3>2. QED BY <2>3, <3>1 DEF BeginPass, Admitted
  <2>4. CASE ReadAdmission(w) BY <2>4 DEF ReadAdmission
  <2>5. CASE ReadMarker(w) BY <2>5 DEF ReadMarker, FileRead, Following
  <2>6. CASE Judge(w)
    <3>1. CASE Corrupt(seen[w])
      <4>1. pc[w] = "judge" /\ ev[w] \in Event
        BY <2>6 DEF Judge, PlaceInv, Place
      <4>2. QED BY <2>6, <3>1, <4>1 DEF Judge
    <3>2. CASE ~ Corrupt(seen[w]) /\ op[w] = "list"
      <4>1. ev[w] \in Event
        BY <2>6 DEF Judge, PlaceInv, Place
      <4>2. listed' \in [Worker -> SUBSET (Event \X {"pending", "sending"})]
        BY <2>6, <3>2, <4>1 DEF Judge, List, Unsettled
      <4>3. CASE ids[w] = {}
        BY <2>6, <3>2, <4>2, <4>3 DEF Judge, List
      <4>4. CASE ids[w] # {}
        <5>1. Min(ids[w]) \in ids[w] BY <4>4, FirstOf
        <5>2. QED BY <2>6, <3>2, <4>2, <4>4, <5>1 DEF Judge, List
      <4>5. QED BY <4>3, <4>4
    <3>3. CASE ~ Corrupt(seen[w]) /\ op[w] # "list"
      <4>1. ev[w] \in Event
        BY <2>6 DEF Judge, PlaceInv, Place
      <4>2. told' \subseteq Event \X {"cancelled", "too-late"}
        BY <2>6, <3>3, <4>1 DEF Judge, Answer, Tell
      <4>3. QED BY <2>6, <3>3, <4>2 DEF Judge
    <3>4. QED BY <3>1, <3>2, <3>3
  <2>7. CASE NextEvent(w)
    <3>1. CASE listed[w] = {} BY <2>7, <3>1 DEF NextEvent
    <3>2. CASE listed[w] # {}
      <4> DEFINE E == {x[1] : x \in listed[w]}
      <4>1. E \subseteq Event /\ E # {} BY <3>2
      <4>2. Min(E) \in Event BY <4>1, FirstOf
      <4> HIDE DEF E
      <4>3. \E e \in Event : listed' = [listed EXCEPT ![w] = {x \in @ : x[1] # e}]
        BY <2>7, <3>2, <4>2 DEF NextEvent, E
      <4>4. ev' \in [Worker -> Event \union {None}]
        BY <2>7, <3>2, <4>2 DEF NextEvent, E
      <4>5. pc' \in [Worker -> Location]
        BY <2>7, <3>2 DEF NextEvent
      <4>6. listed' \in [Worker -> SUBSET (Event \X {"pending", "sending"})]
        BY <4>3
      <4>7. QED BY <2>7, <3>2, <4>4, <4>5, <4>6 DEF NextEvent
    <3>3. QED BY <3>1, <3>2
  <2>8. CASE TakeLease(w)
    <3>1. Lease(w) \in Event \union {Admission}
      BY <2>8 DEF TakeLease, PlaceInv, Place, Lease
    <3>2. QED BY <2>8, <3>1 DEF TakeLease
  <2>9. CASE Admit(w)
    <3>1. body[w] \in Body BY <2>9 DEF Admit, PlaceInv, Place
    <3>2. events' \in [Event -> Body \union {None}] BY <2>9, <3>1 DEF Admit
    <3>3. due' \subseteq Event BY <2>9 DEF Admit, Reached
    <3>4. QED BY <2>9, <3>2, <3>3 DEF Admit
  <2>10. CASE Recheck(w)
    <3>1. ev[w] \in Event BY <2>10 DEF Recheck, PlaceInv, Place
    <3>2. told' = told \/ \E a \in {"cancelled", "too-late"} : told' = told \union {<<ev[w], a>>}
      <4>1. PICK s : IF Goes(w, s) THEN UNCHANGED told ELSE Answer(w, s)
        BY <2>10 DEF Recheck
      <4>2. QED BY <4>1 DEF Answer, Tell
    <3>3. told' \subseteq Event \X {"cancelled", "too-late"} BY <3>1, <3>2
    <3>4. pc' \in [Worker -> Location] BY <2>10 DEF Recheck
    <3>5. QED BY <2>10, <3>3, <3>4 DEF Recheck
  <2>11. CASE MarkCancelled(w)
    <3>1. ev[w] \in Event BY <2>11 DEF MarkCancelled, PlaceInv, Place
    <3>2. QED BY <2>11, <3>1 DEF MarkCancelled, Tell
  <2>12. CASE MarkSending(w)
    <3>1. ev[w] \in Event BY <2>12 DEF MarkSending, PlaceInv, Place
    <3>2. QED BY <2>12, <3>1 DEF MarkSending
  <2>13. CASE Send(w)
    <3>1. ev[w] \in Event BY <2>13 DEF Send, PlaceInv, Place
    <3>2. post' \in [Event -> Body \union {None}] BY <2>13, <3>1 DEF Send, Box!Post
    <3>3. QED BY <2>13, <3>2 DEF Send
  <2>14. CASE Refused(w) BY <2>14 DEF Refused
  <2>15. CASE MarkDelivered(w)
    <3>1. ev[w] \in Event BY <2>15 DEF MarkDelivered, PlaceInv, Place
    <3>2. QED BY <2>15, <3>1 DEF MarkDelivered
  <2>16. CASE Release(w) BY <2>16 DEF Release
  <2>17. CASE Fail(w)
    <3>1. faults' \in 0..MaxFaults BY <2>17, BoundAssumption DEF Fail
    <3>2. QED BY <2>17, <3>1 DEF Fail
  <2>18. QED
    BY <1>1, <2>1, <2>2, <2>3, <2>4, <2>5, <2>6, <2>7, <2>8, <2>9, <2>10, <2>11, <2>12, <2>13,
       <2>14, <2>15, <2>16, <2>17 DEF Acts, Step
<1>2. CASE Outside
  <2>1. CASE Clock BY <2>1 DEF Clock, Reached
  <2>2. CASE Receiver BY <2>2 DEF Receiver, Box!Take
  <2>3. CASE Revoke BY <2>3 DEF Revoke, Box!Revoke
  <2>4. QED BY <1>2, <2>1, <2>2, <2>3 DEF Outside
<1>3. CASE UNCHANGED vars BY <1>3 DEF vars
<1>4. QED BY <1>1, <1>2, <1>3, SomeoneActs
-----------------------------------------------------------------------------
(* What a step of one worker leaves to the others. *)
Unmoved(v) ==
    /\ pc'[v] = pc[v] /\ op'[v] = op[v] /\ ev'[v] = ev[v] /\ body'[v] = body[v]
    /\ seen'[v] = seen[v] /\ ids'[v] = ids[v] /\ listed'[v] = listed[v]
MineOnly(w) ==
    /\ \A l \in Event \union {Admission} :
          lease'[l] # lease[l] => l = Lease(w) /\ lease[l] \in {None, w}
    /\ \A e \in Event : e \in sending' \union cancelled' /\ e \notin sending \union cancelled =>
          pc[w] \in Holding /\ op[w] # "enqueue" /\ e = ev[w]

(* Admissions, markers and messages only grow. *)
Grows ==
    /\ \A e \in Event : events[e] # None => events'[e] = events[e]
    /\ sending \subseteq sending' /\ delivered \subseteq delivered' /\ cancelled \subseteq cancelled'
    /\ due \subseteq due'
    /\ \A e \in Event : post[e] # None => post'[e] = post[e]

LEMMA OneMoves ==
    ASSUME IInv, NEW w \in Worker, Acts(w), NEW v \in Worker \ {w}
    PROVE  Unmoved(v)
<1> USE DEF IInv, TInv, TypeOK, Goto, Finish, Start, locals, pass, Unmoved
<1>1. ASSUME NEW e \in Event, BeginCancel(w, e) PROVE Unmoved(v)
  BY <1>1 DEF BeginCancel
<1>2. ASSUME NEW e \in Event, NEW b \in Body, BeginEnqueue(w, e, b) PROVE Unmoved(v)
  BY <1>2 DEF BeginEnqueue
<1>3. CASE BeginPass(w) BY <1>3 DEF BeginPass
<1>4. CASE ReadAdmission(w) BY <1>4 DEF ReadAdmission
<1>5. CASE ReadMarker(w) BY <1>5 DEF ReadMarker
<1>6. CASE Judge(w) BY <1>6 DEF Judge, List
<1>7. CASE NextEvent(w) BY <1>7 DEF NextEvent
<1>8. CASE TakeLease(w) BY <1>8 DEF TakeLease
<1>9. CASE Admit(w) BY <1>9 DEF Admit
<1>10. CASE Recheck(w) BY <1>10 DEF Recheck
<1>11. CASE MarkCancelled(w) BY <1>11 DEF MarkCancelled
<1>12. CASE MarkSending(w) BY <1>12 DEF MarkSending
<1>13. CASE Send(w) BY <1>13 DEF Send
<1>14. CASE Refused(w) BY <1>14 DEF Refused
<1>15. CASE MarkDelivered(w) BY <1>15 DEF MarkDelivered
<1>16. CASE Release(w) BY <1>16 DEF Release
<1>17. CASE Fail(w) BY <1>17 DEF Fail
<1>18. QED
  BY <1>1, <1>2, <1>3, <1>4, <1>5, <1>6, <1>7, <1>8, <1>9, <1>10, <1>11, <1>12, <1>13, <1>14,
     <1>15, <1>16, <1>17 DEF Acts, Step

(* A worker writes what it holds the lease of. *)
LEMMA WritesItsOwn ==
    ASSUME IInv, NEW w \in Worker, Acts(w)
    PROVE  MineOnly(w)
<1> USE DEF IInv, TInv, TypeOK, markers, MineOnly
<1>1. CASE TakeLease(w) BY <1>1 DEF TakeLease
<1>2. CASE Refused(w)
  BY <1>2 DEF Refused, LeaseInv, Knows, Holding, PlaceInv, Place, Lease
<1>3. CASE Release(w)
  BY <1>3 DEF Release, LeaseInv, Knows, Holding
<1>4. CASE Fail(w)
  BY <1>4 DEF Fail, LeaseInv, Knows
<1>5. CASE MarkCancelled(w)
  BY <1>5 DEF MarkCancelled, Holding, PlaceInv, Place
<1>6. CASE MarkSending(w)
  BY <1>6 DEF MarkSending, Holding, PlaceInv, Place
<1>7. CASE ~ (TakeLease(w) \/ Refused(w) \/ Release(w) \/ Fail(w) \/ MarkCancelled(w)
              \/ MarkSending(w))
  <2>1. UNCHANGED <<lease, sending, cancelled>>
    BY <1>7 DEF Acts, Step, BeginCancel, BeginEnqueue, BeginPass, ReadAdmission, ReadMarker, Judge,
                NextEvent, Admit, Recheck, Send, MarkDelivered
  <2>2. QED BY <2>1
<1>8. QED BY <1>1, <1>2, <1>3, <1>4, <1>5, <1>6, <1>7

LEMMA NothingLost ==
    ASSUME IInv, [Next]_vars
    PROVE  Grows
<1> USE DEF IInv, TInv, TypeOK, markers, box, Grows
<1>1. ASSUME NEW w \in Worker, Acts(w) PROVE Grows
  <2>1. CASE Admit(w) BY <2>1 DEF Admit, Reached
  <2>2. CASE MarkCancelled(w) BY <2>2 DEF MarkCancelled
  <2>3. CASE MarkSending(w) BY <2>3 DEF MarkSending
  <2>4. CASE MarkDelivered(w) BY <2>4 DEF MarkDelivered
  <2>5. CASE Send(w) BY <2>5 DEF Send, Box!Post
  <2>6. CASE ~ (Admit(w) \/ MarkCancelled(w) \/ MarkSending(w) \/ MarkDelivered(w) \/ Send(w))
    <3>1. UNCHANGED <<events, markers, due, post>>
      BY <1>1, <2>6
         DEF Acts, Step, BeginCancel, BeginEnqueue, BeginPass, ReadAdmission, ReadMarker, Judge,
             NextEvent, TakeLease, Recheck, Refused, Release, Fail
    <3>2. QED BY <3>1
  <2>7. QED BY <2>1, <2>2, <2>3, <2>4, <2>5, <2>6
<1>2. CASE Outside
  <2>1. CASE Clock BY <2>1 DEF Clock, Reached
  <2>2. CASE Receiver BY <2>2 DEF Receiver, Box!Take
  <2>3. CASE Revoke BY <2>3 DEF Revoke, Box!Revoke
  <2>4. QED BY <1>2, <2>1, <2>2, <2>3 DEF Outside
<1>3. CASE UNCHANGED vars BY <1>3 DEF vars
<1>4. QED BY <1>1, <1>2, <1>3, SomeoneActs

(* The clock, the receiver and a revocation touch no worker. *)
LEMMA NobodyMoves ==
    ASSUME Outside \/ UNCHANGED vars
    PROVE  UNCHANGED <<events, markers, lease, locals, told, alarms>>
BY DEF Outside, Clock, Receiver, Revoke, vars
-----------------------------------------------------------------------------
LEMMA PlaceKept ==
    ASSUME IInv, NEW v \in Worker, Unmoved(v), Grows
    PROVE  Place(v)'
<1>1. \A e \in Admitted : e \in Admitted'
  BY DEF Grows, Admitted
<1>2. Place(v)
  BY DEF IInv, PlaceInv
<1>3. QED BY <1>1, <1>2 DEF Unmoved, Place

LEMMA PlaceStep == IInv /\ [Next]_vars => PlaceInv'
<1> SUFFICES ASSUME IInv, [Next]_vars PROVE PlaceInv'
  OBVIOUS
<1>1. Grows BY NothingLost
<1>2. \A e \in Admitted : e \in Admitted'
  BY <1>1 DEF Grows, Admitted
<1>3. ASSUME NEW w \in Worker, Acts(w) PROVE Place(w)'
  <2> USE DEF IInv, TInv, TypeOK, Goto, Finish, Start, pass, Reads
  <2>0. Place(w) BY DEF PlaceInv
  <2>1. ASSUME NEW e \in Event, BeginCancel(w, e) PROVE Place(w)'
    BY <1>2, <2>0, <2>1 DEF BeginCancel, Place
  <2>2. ASSUME NEW e \in Event, NEW b \in Body, BeginEnqueue(w, e, b) PROVE Place(w)'
    BY <1>2, <2>0, <2>2 DEF BeginEnqueue, Place
  <2>3. CASE BeginPass(w)
    <3>1. Min(Admitted) \in Admitted /\ Admitted \subseteq Event
      BY <2>3, FirstOf DEF BeginPass, Admitted
    <3>2. QED BY <1>2, <2>0, <2>3, <3>1 DEF BeginPass, Place
  <2>4. CASE ReadAdmission(w)
    <3>1. op[w] = "enqueue" /\ ev[w] \in Event /\ body[w] \in Body
      BY <2>0, <2>4 DEF ReadAdmission, Place
    <3>2. QED BY <1>2, <2>0, <2>4, <3>1 DEF ReadAdmission, Place
  <2>5. CASE ReadMarker(w)
    BY <1>2, <2>0, <2>5 DEF ReadMarker, FileRead, Following, Place
  <2>6. CASE Judge(w)
    <3>1. op[w] \in {"enqueue", "cancel", "list"} /\ ev[w] \in Event
      BY <2>0, <2>6 DEF Judge, Place
    <3>2. CASE Corrupt(seen[w])
      BY <1>2, <2>0, <2>6, <3>2 DEF Judge, Place
    <3>3. CASE ~ Corrupt(seen[w]) /\ op[w] = "list"
      <4>1. ev[w] \in Admitted BY <2>0, <2>6, <3>3 DEF Judge, Place
      <4>2. listed'[w] \subseteq listed[w] \union {<<ev[w], Status(seen[w])>>}
        BY <2>6, <3>3 DEF Judge, List
      <4>3. \A x \in listed'[w] : x[1] \in Admitted
        BY <2>0, <4>1, <4>2 DEF Place
      <4>4. CASE ids[w] = {}
        BY <1>2, <2>0, <2>6, <3>3, <4>3, <4>4 DEF Judge, List, Place
      <4>5. CASE ids[w] # {}
        <5>1. Min(ids[w]) \in ids[w] BY <4>5, FirstOf
        <5>2. Min(ids[w]) \in Admitted /\ Min(ids[w]) \in Event
          BY <2>0, <5>1 DEF Place, Admitted
        <5>3. QED BY <1>2, <2>0, <2>6, <3>3, <4>3, <4>5, <5>2 DEF Judge, List, Place
      <4>6. QED BY <4>4, <4>5
    <3>4. CASE ~ Corrupt(seen[w]) /\ op[w] # "list"
      BY <1>2, <2>0, <2>6, <3>1, <3>4 DEF Judge, Goes, Place
    <3>5. QED BY <3>2, <3>3, <3>4
  <2>7. CASE NextEvent(w)
    <3>1. CASE listed[w] = {} BY <1>2, <2>0, <2>7, <3>1 DEF NextEvent, Place
    <3>2. CASE listed[w] # {}
      <4> DEFINE E == {x[1] : x \in listed[w]}
      <4>1. E \subseteq Event /\ E # {} /\ E \subseteq Admitted BY <2>0, <3>2 DEF Place
      <4>2. Min(E) \in Admitted /\ Min(E) \in Event BY <4>1, FirstOf
      <4> HIDE DEF E
      <4>3. PICK e \in Admitted \intersect Event :
              /\ listed' = [listed EXCEPT ![w] = {x \in @ : x[1] # e}]
              /\ UNCHANGED <<pc, ev>> \/ (Goto(w, "lock") /\ ev' = [ev EXCEPT ![w] = e])
              /\ UNCHANGED <<op, body, seen, ids>>
        BY <2>7, <3>2, <4>2 DEF NextEvent, E
      <4>4. pc[w] = "next" /\ op[w] = "deliver"
        BY <2>0, <2>7 DEF NextEvent, Place
      <4>5. QED BY <1>2, <2>0, <4>3, <4>4 DEF Place
    <3>3. QED BY <3>1, <3>2
  <2>8. CASE TakeLease(w) BY <1>2, <2>0, <2>8 DEF TakeLease, Place
  <2>9. CASE Admit(w) BY <1>2, <2>0, <2>9 DEF Admit, Place
  <2>10. CASE Recheck(w)
    <3>1. op'[w] = op[w] /\ ev'[w] = ev[w] /\ body'[w] = body[w] /\ ids'[w] = ids[w]
          /\ listed'[w] = listed[w]
      BY <2>10 DEF Recheck
    <3>2. PICK s : pc' = [pc EXCEPT ![w] = IF ~ Goes(w, s) THEN "release"
                                            ELSE IF op[w] = "cancel" THEN "mark"
                                            ELSE IF Status(s) = "pending" THEN "intend" ELSE "send"]
      BY <2>10 DEF Recheck
    <3>3. pc[w] = "recheck" /\ op[w] \in {"cancel", "deliver"} /\ ev[w] \in Event
      BY <2>0, <2>10 DEF Recheck, Place
    <3>4. QED BY <1>2, <2>0, <3>1, <3>2, <3>3 DEF Place
  <2>11. CASE MarkCancelled(w) BY <1>2, <2>0, <2>11 DEF MarkCancelled, Place
  <2>12. CASE MarkSending(w) BY <1>2, <2>0, <2>12 DEF MarkSending, Place
  <2>13. CASE Send(w) BY <1>2, <2>0, <2>13 DEF Send, Place
  <2>14. CASE Refused(w) BY <1>2, <2>0, <2>14 DEF Refused, Place
  <2>15. CASE MarkDelivered(w) BY <1>2, <2>0, <2>15 DEF MarkDelivered, Place
  <2>16. CASE Release(w) BY <1>2, <2>0, <2>16 DEF Release, Place
  <2>17. CASE Fail(w) BY <1>2, <2>0, <2>17 DEF Fail, Place
  <2>18. QED
    BY <1>3, <2>1, <2>2, <2>3, <2>4, <2>5, <2>6, <2>7, <2>8, <2>9, <2>10, <2>11, <2>12, <2>13,
       <2>14, <2>15, <2>16, <2>17 DEF Acts, Step
<1>4. ASSUME NEW w \in Worker, Acts(w) PROVE PlaceInv'
  BY <1>1, <1>3, <1>4, OneMoves, PlaceKept DEF PlaceInv
<1>5. CASE Outside \/ UNCHANGED vars
  <2>1. \A v \in Worker : Unmoved(v)
    BY <1>5, NobodyMoves DEF locals, pass, Unmoved
  <2>2. QED BY <1>1, <2>1, PlaceKept DEF PlaceInv
<1>6. QED BY <1>4, <1>5, SomeoneActs
-----------------------------------------------------------------------------
LEMMA DiskStep == IInv /\ [Next]_vars => DiskInv'
<1> SUFFICES ASSUME IInv, [Next]_vars PROVE DiskInv'
  OBVIOUS
<1> USE DEF IInv, TInv, TypeOK, DiskInv, markers, box, Admitted, IsDue
<1>1. ASSUME NEW w \in Worker, Acts(w) PROVE DiskInv'
  <2>0. Knows(w) /\ Place(w) BY DEF LeaseInv, PlaceInv
  <2>1. CASE Admit(w)
    <3>1. body[w] \in Body /\ ev[w] \in Event BY <2>0, <2>1 DEF Admit, Place
    <3>2. due' = Reached(events', now) /\ now' = now BY <2>1 DEF Admit
    <3>3. \A e \in Event : events[e] # None => events'[e] = events[e]
      BY <2>1, <3>1 DEF Admit
    <3>4. UNCHANGED <<markers, post>> BY <2>1 DEF Admit
    <3>5. QED BY <3>2, <3>3, <3>4 DEF Reached
  <2>2. CASE MarkCancelled(w)
    <3>1. ev[w] \in Event /\ ev[w] \notin sending BY <2>0, <2>2 DEF MarkCancelled, Knows, Place
    <3>2. QED BY <2>2, <3>1 DEF MarkCancelled
  <2>3. CASE MarkSending(w)
    <3>1. ev[w] \in due /\ ev[w] \notin cancelled BY <2>0, <2>3 DEF MarkSending, Knows
    <3>2. QED BY <2>3, <3>1 DEF MarkSending
  <2>4. CASE MarkDelivered(w)
    <3>1. ev[w] \in sending /\ post[ev[w]] # None BY <2>0, <2>4 DEF MarkDelivered, Knows
    <3>2. QED BY <2>4, <3>1 DEF MarkDelivered
  <2>5. CASE Send(w)
    <3>1. ev[w] \in sending /\ ev[w] \in Event BY <2>0, <2>5 DEF Send, Knows, Place
    <3>2. UNCHANGED <<events, markers, now, due>> BY <2>5 DEF Send
    <3>3. CASE Box!Post(ev[w], events[ev[w]])
      BY <3>1, <3>2, <3>3 DEF Box!Post
    <3>4. CASE UNCHANGED box
      BY <3>2, <3>4
    <3>5. QED BY <2>5, <3>3, <3>4 DEF Send
  <2>6. CASE ~ (Admit(w) \/ MarkCancelled(w) \/ MarkSending(w) \/ MarkDelivered(w) \/ Send(w))
    <3>1. UNCHANGED <<events, markers, now, due, post>>
      BY <1>1, <2>6
         DEF Acts, Step, BeginCancel, BeginEnqueue, BeginPass, ReadAdmission, ReadMarker, Judge,
             NextEvent, TakeLease, Recheck, Refused, Release, Fail
    <3>2. QED BY <3>1
  <2>7. QED BY <2>1, <2>2, <2>3, <2>4, <2>5, <2>6
<1>2. CASE Outside
  <2>1. CASE Clock BY <2>1 DEF Clock, Reached
  <2>2. CASE Receiver BY <2>2 DEF Receiver, Box!Take
  <2>3. CASE Revoke BY <2>3 DEF Revoke, Box!Revoke
  <2>4. QED BY <1>2, <2>1, <2>2, <2>3 DEF Outside
<1>3. CASE UNCHANGED vars BY <1>3 DEF vars
<1>4. QED BY <1>1, <1>2, <1>3, SomeoneActs

(* What one worker knows under its lease, another one's step leaves true. *)
LEMMA KnowsKept ==
    ASSUME IInv, NEW w \in Worker, NEW v \in Worker \ {w}, Unmoved(v), MineOnly(w), Grows
    PROVE  Knows(v)'
<1> USE DEF IInv, TInv, TypeOK
<1>1. Knows(v) /\ Place(v) /\ Knows(w) /\ Place(w) BY DEF LeaseInv, PlaceInv
<1>2. Lease(v)' = Lease(v) BY DEF Unmoved, Lease
<1>3. ASSUME pc[v] \in Holding PROVE lease'[Lease(v)] = v
  <2>1. lease[Lease(v)] = v BY <1>1, <1>3 DEF Knows
  <2>2. Lease(v) \in Event \union {Admission}
    BY <1>1, <1>3 DEF Place, Lease, Holding
  <2>3. QED BY <2>1, <2>2, NoneAssumption DEF MineOnly
<1>4. ASSUME pc[v] \in {"mark", "intend"} PROVE ev[v] \notin cancelled' \union sending'
  <2>1. pc[v] \in Holding /\ op[v] # "enqueue" /\ ev[v] \in Event
    BY <1>1, <1>4 DEF Place, Holding
  <2>2. lease[ev[v]] = v BY <1>1, <2>1 DEF Knows, Lease
  <2>3. ev[v] \notin cancelled \union sending BY <1>1, <1>4 DEF Knows
  <2>4. SUFFICES ASSUME ev[v] \in cancelled' \union sending' PROVE FALSE
    OBVIOUS
  <2>5. pc[w] \in Holding /\ op[w] # "enqueue" /\ ev[w] = ev[v]
    BY <2>1, <2>3, <2>4 DEF MineOnly
  <2>6. lease[ev[w]] = w BY <1>1, <2>5 DEF Knows, Lease
  <2>7. QED BY <2>2, <2>5, <2>6
<1>5. pc[v] \in {"send", "ack", "intend"} => ev[v] \in Event
  BY <1>1 DEF Place
<1>6. QED BY <1>1, <1>2, <1>3, <1>4, <1>5 DEF Knows, Unmoved, Grows

LEMMA LeaseStep == IInv /\ [Next]_vars => LeaseInv'
<1> SUFFICES ASSUME IInv, [Next]_vars PROVE LeaseInv'
  OBVIOUS
<1>1. Grows BY NothingLost
<1>2. ASSUME NEW w \in Worker, Acts(w) PROVE Knows(w)'
  <2> USE DEF IInv, TInv, TypeOK, Goto, Finish, Start, pass, Reads, Holding, markers
  <2>0. Knows(w) /\ Place(w) BY DEF LeaseInv, PlaceInv
  <2>1. ASSUME NEW e \in Event, BeginCancel(w, e) PROVE Knows(w)'
    BY <2>1 DEF BeginCancel, Knows
  <2>2. ASSUME NEW e \in Event, NEW b \in Body, BeginEnqueue(w, e, b) PROVE Knows(w)'
    BY <2>2 DEF BeginEnqueue, Knows
  <2>3. CASE BeginPass(w) BY <2>3 DEF BeginPass, Knows
  <2>4. CASE ReadAdmission(w) BY <2>4 DEF ReadAdmission, Knows
  <2>5. CASE ReadMarker(w) BY <2>5 DEF ReadMarker, Following, Knows
  <2>6. CASE Judge(w)
    <3>1. pc'[w] \notin Holding BY <2>6 DEF Judge, List
    <3>2. QED BY <3>1 DEF Knows
  <2>7. CASE NextEvent(w)
    <3>1. pc'[w] \notin Holding BY <2>7 DEF NextEvent
    <3>2. QED BY <3>1 DEF Knows
  <2>8. CASE TakeLease(w)
    <3>1. CASE lease[Lease(w)] = None /\ Lease(w) \notin Legacy
      <4>1. Lease(w) \in Event \union {Admission} BY <2>0, <2>8 DEF TakeLease, Place, Lease
      <4>2. Lease(w)' = Lease(w) BY <2>8, <3>1 DEF TakeLease, Lease
      <4>3. lease'[Lease(w)] = w /\ pc'[w] \in {"admit", "recheck"}
        BY <2>8, <3>1, <4>1 DEF TakeLease
      <4>4. QED BY <4>2, <4>3 DEF Knows
    <3>2. CASE ~ (lease[Lease(w)] = None /\ Lease(w) \notin Legacy)
      <4>1. pc'[w] \notin Holding BY <2>8, <3>2 DEF TakeLease
      <4>2. QED BY <4>1 DEF Knows
    <3>3. QED BY <3>1, <3>2
  <2>9. CASE Admit(w) BY <2>0, <2>9 DEF Admit, Knows, Lease
  <2>10. CASE Recheck(w)
    <3> DEFINE s == {m \in Reads : ev[w] \in Marked(m)}
    <3>1. pc[w] = "recheck" /\ op[w] \in {"cancel", "deliver"} /\ ev[w] \in Admitted
          /\ ev[w] \in Event
      BY <2>0, <2>10 DEF Recheck, Place
    <3>2. UNCHANGED <<lease, op, ev, sending, cancelled, delivered, post, due>>
      BY <2>10 DEF Recheck, box
    <3>3. Lease(w)' = Lease(w) /\ lease'[Lease(w)] = w BY <2>0, <3>1, <3>2 DEF Knows, Lease
    <3>4. ("sending" \in s <=> ev[w] \in sending) /\ ("cancelled" \in s <=> ev[w] \in cancelled)
          /\ ("delivered" \in s <=> ev[w] \in delivered)
      BY DEF Marked
    <3>5. pc'[w] = IF ~ Goes(w, s) THEN "release"
                   ELSE IF op[w] = "cancel" THEN "mark"
                   ELSE IF Status(s) = "pending" THEN "intend" ELSE "send"
      BY <2>10 DEF Recheck
    <3> HIDE DEF s
    <3>6. Status(s) = "pending" => ev[w] \notin cancelled \union sending
      BY <3>4 DEF Status
    <3>7. CASE ~ Goes(w, s)
      BY <3>2, <3>3, <3>5, <3>7 DEF Knows
    <3>8. CASE Goes(w, s) /\ op[w] = "cancel"
      <4>1. pc'[w] = "mark" /\ Status(s) = "pending" BY <3>5, <3>8 DEF Goes
      <4>2. QED BY <3>2, <3>3, <3>6, <4>1 DEF Knows
    <3>9. CASE Goes(w, s) /\ op[w] = "deliver" /\ Status(s) = "pending"
      <4>1. pc'[w] = "intend" /\ IsDue(ev[w]) BY <3>5, <3>9 DEF Goes, Deliverable
      <4>2. ev[w] \in due BY <3>1, <4>1 DEF DiskInv
      <4>3. QED BY <3>2, <3>3, <3>6, <3>9, <4>1, <4>2 DEF Knows
    <3>10. CASE Goes(w, s) /\ op[w] = "deliver" /\ Status(s) # "pending"
      <4>1. pc'[w] = "send" /\ Status(s) = "sending" BY <3>5, <3>10 DEF Goes, Deliverable
      <4>2. ev[w] \in sending BY <3>4, <4>1 DEF Status
      <4>3. QED BY <3>2, <3>3, <4>1, <4>2 DEF Knows
    <3>11. QED BY <3>1, <3>7, <3>8, <3>9, <3>10
  <2>11. CASE MarkCancelled(w) BY <2>0, <2>11 DEF MarkCancelled, Knows, Lease
  <2>12. CASE MarkSending(w) BY <2>0, <2>12 DEF MarkSending, Knows, Lease
  <2>13. CASE Send(w)
    <3>1. ev[w] \in Event /\ events[ev[w]] \in Body
      BY <2>0, <2>13 DEF Send, Place, Admitted
    <3>2. events[ev[w]] # None BY <3>1, NoneAssumption
    <3>3. post'[ev[w]] = events[ev[w]] BY <2>13, <3>1 DEF Send, Box!Post, box
    <3>4. UNCHANGED <<lease, op, ev, sending>> /\ pc'[w] = "ack" /\ pc[w] = "send"
      BY <2>13 DEF Send
    <3>5. QED BY <2>0, <3>2, <3>3, <3>4 DEF Knows, Lease
  <2>14. CASE Refused(w) BY <2>14 DEF Refused, Knows
  <2>15. CASE MarkDelivered(w) BY <2>0, <2>15 DEF MarkDelivered, Knows, Lease
  <2>16. CASE Release(w)
    <3>1. pc'[w] \notin Holding BY <2>16 DEF Release
    <3>2. QED BY <3>1 DEF Knows
  <2>17. CASE Fail(w) BY <2>17 DEF Fail, Knows
  <2>18. QED
    BY <1>2, <2>1, <2>2, <2>3, <2>4, <2>5, <2>6, <2>7, <2>8, <2>9, <2>10, <2>11, <2>12, <2>13,
       <2>14, <2>15, <2>16, <2>17 DEF Acts, Step
<1>3. ASSUME NEW w \in Worker, Acts(w) PROVE LeaseInv'
  BY <1>1, <1>2, <1>3, OneMoves, WritesItsOwn, KnowsKept DEF LeaseInv
<1>4. CASE Outside \/ UNCHANGED vars
  <2>1. UNCHANGED <<lease, pc, op, ev, sending, cancelled>>
    BY <1>4, NobodyMoves DEF locals, markers
  <2>2. ASSUME NEW v \in Worker PROVE Knows(v)'
    <3>1. Knows(v) /\ Place(v) BY DEF IInv, LeaseInv, PlaceInv
    <3>2. Lease(v)' = Lease(v) BY <2>1 DEF Lease
    <3>3. pc[v] = "ack" => ev[v] \in Event BY <3>1 DEF Place
    <3>4. QED BY <1>1, <2>1, <3>1, <3>2, <3>3 DEF Knows, Grows
  <2>3. QED BY <2>2 DEF LeaseInv
<1>5. QED BY <1>3, <1>4, SomeoneActs
-----------------------------------------------------------------------------
(* What a snapshot has seen stays true while others write. *)
LEMMA SnapshotKept ==
    ASSUME IInv, NEW v \in Worker, Unmoved(v), Grows
    PROVE  Snapshot(v)'
<1>1. Snapshot(v) /\ seen[v] \subseteq Reads
  BY DEF IInv, SnapshotInv, TInv, TypeOK
<1>2. \A m \in Reads : Marked(m) \subseteq Marked(m)'
  BY DEF Reads, Marked, Grows
<1>3. pc'[v] = pc[v] /\ ev'[v] = ev[v] /\ seen'[v] = seen[v]
  BY DEF Unmoved
<1>4. pc[v] \in Reads \union {"judge"} => \A m \in seen[v] : ev[v] \in Marked(m)'
  BY <1>1, <1>2 DEF Snapshot
<1>5. QED BY <1>1, <1>3, <1>4 DEF Snapshot

LEMMA SnapshotStep == IInv /\ [Next]_vars => SnapshotInv'
<1> SUFFICES ASSUME IInv, [Next]_vars PROVE SnapshotInv'
  OBVIOUS
<1>1. Grows BY NothingLost
<1>2. ASSUME NEW w \in Worker, Acts(w) PROVE Snapshot(w)'
  <2> USE DEF IInv, TInv, TypeOK, Goto, Finish, Start, pass, Reads
  <2>0. Snapshot(w) /\ Place(w) BY DEF SnapshotInv, PlaceInv
  <2>1. ASSUME NEW e \in Event, BeginCancel(w, e) PROVE Snapshot(w)'
    BY <2>0, <2>1 DEF BeginCancel, Snapshot
  <2>2. ASSUME NEW e \in Event, NEW b \in Body, BeginEnqueue(w, e, b) PROVE Snapshot(w)'
    BY <2>0, <2>2 DEF BeginEnqueue, Snapshot
  <2>3. CASE BeginPass(w) BY <2>0, <2>3 DEF BeginPass, Snapshot
  <2>4. CASE ReadAdmission(w) BY <2>0, <2>4 DEF ReadAdmission, Snapshot
  <2>5. CASE ReadMarker(w)
    <3>1. UNCHANGED <<sending, delivered, cancelled, ev>> /\ pc[w] \in Reads
          /\ pc'[w] = Following(pc[w])
      BY <2>5 DEF ReadMarker, markers
    <3>2. seen'[w] = IF ev[w] \in Marked(pc[w]) THEN seen[w] \union {pc[w]} ELSE seen[w]
      BY <2>5 DEF ReadMarker, FileRead
    <3>3. \A m : Marked(m)' = Marked(m) BY <3>1 DEF Marked
    <3>4. \A m \in seen'[w] : ev'[w] \in Marked(m)'
      BY <2>0, <3>1, <3>2, <3>3 DEF Snapshot
    <3>5. CASE pc[w] = "delivered"
      BY <2>0, <3>1, <3>2, <3>4, <3>5 DEF Snapshot, Following
    <3>6. CASE pc[w] = "cancelled"
      BY <2>0, <3>1, <3>2, <3>4, <3>6 DEF Snapshot, Following
    <3>7. CASE pc[w] = "sending"
      <4>1. "delivered" \in seen[w] => ev[w] \in delivered
        BY <2>0, <3>7 DEF Snapshot, Marked
      <4>2. "delivered" \in seen[w] => ev[w] \in Marked("sending")
        BY <4>1 DEF DiskInv, Marked
      <4>3. "delivered" \in seen'[w] => "sending" \in seen'[w]
        BY <3>2, <3>7, <4>2
      <4>4. pc'[w] = "judge" BY <3>1, <3>7 DEF Following
      <4>5. QED BY <3>4, <4>3, <4>4 DEF Snapshot
    <3>8. QED BY <3>1, <3>5, <3>6, <3>7
  <2>6. CASE Judge(w)
    <3>1. seen'[w] = {} \/ (pc'[w] \notin Reads \union {"judge", "admitted"} /\ pc'[w] # "idle")
      BY <2>6 DEF Judge, List
    <3>2. pc'[w] # "judge" BY <2>6 DEF Judge, List
    <3>3. QED BY <3>1, <3>2 DEF Snapshot
  <2>7. CASE NextEvent(w) BY <2>0, <2>7 DEF NextEvent, Snapshot
  <2>8. CASE TakeLease(w) BY <2>8 DEF TakeLease, Snapshot
  <2>9. CASE Admit(w) BY <2>9 DEF Admit, Snapshot
  <2>10. CASE Recheck(w)
    <3>1. pc'[w] \in {"release", "mark", "intend", "send"} BY <2>10 DEF Recheck
    <3>2. QED BY <3>1 DEF Snapshot
  <2>11. CASE MarkCancelled(w) BY <2>11 DEF MarkCancelled, Snapshot
  <2>12. CASE MarkSending(w) BY <2>12 DEF MarkSending, Snapshot
  <2>13. CASE Send(w) BY <2>13 DEF Send, Snapshot
  <2>14. CASE Refused(w) BY <2>14 DEF Refused, Snapshot
  <2>15. CASE MarkDelivered(w) BY <2>15 DEF MarkDelivered, Snapshot
  <2>16. CASE Release(w) BY <2>16 DEF Release, Snapshot
  <2>17. CASE Fail(w) BY <2>17 DEF Fail, Snapshot
  <2>18. QED
    BY <1>2, <2>1, <2>2, <2>3, <2>4, <2>5, <2>6, <2>7, <2>8, <2>9, <2>10, <2>11, <2>12, <2>13,
       <2>14, <2>15, <2>16, <2>17 DEF Acts, Step
<1>3. ASSUME NEW w \in Worker, Acts(w) PROVE SnapshotInv'
  BY <1>1, <1>2, <1>3, OneMoves, SnapshotKept DEF SnapshotInv
<1>4. CASE Outside \/ UNCHANGED vars
  <2>1. \A v \in Worker : Unmoved(v)
    BY <1>4, NobodyMoves DEF locals, pass, Unmoved
  <2>2. QED BY <1>1, <2>1, SnapshotKept DEF SnapshotInv
<1>5. QED BY <1>3, <1>4, SomeoneActs
-----------------------------------------------------------------------------
(* A snapshot that has read everything is not taken for corrupt, and what  *)
(* cancel answers from it is on disk.                                      *)
LEMMA SnapshotHonest ==
    ASSUME IInv, NEW w \in Worker, pc[w] = "judge"
    PROVE  /\ ~ Corrupt(seen[w])
           /\ Status(seen[w]) = "cancelled" => ev[w] \in cancelled
           /\ Status(seen[w]) \in {"sending", "delivered"} => ev[w] \in sending
<1>1. Snapshot(w) /\ DiskInv BY DEF IInv, SnapshotInv
<1>2. /\ "delivered" \in seen[w] => ev[w] \in delivered
      /\ "cancelled" \in seen[w] => ev[w] \in cancelled
      /\ "sending" \in seen[w] => ev[w] \in sending
  BY <1>1 DEF Snapshot, Marked
<1>3. "delivered" \in seen[w] => "sending" \in seen[w] BY <1>1 DEF Snapshot
<1>4. QED BY <1>1, <1>2, <1>3 DEF Corrupt, Status, DiskInv

(* An answer that says what is on disk. *)
LEMMA AnswerHonest ==
    ASSUME IInv, NEW w, NEW s, Answer(w, s), ~ Goes(w, s), UNCHANGED markers,
           Status(s) = "cancelled" => ev[w] \in cancelled,
           Status(s) \in {"sending", "delivered"} => ev[w] \in sending
    PROVE  \A t \in told' : IF t[2] = "cancelled" THEN t[1] \in cancelled' ELSE t[1] \in sending'
<1>1. op[w] = "cancel" => Status(s) \in {"cancelled", "sending", "delivered"}
  BY DEF Goes, Status
<1>2. QED BY <1>1 DEF Answer, Tell, IInv, ToldInv, markers

LEMMA ToldStep == IInv /\ [Next]_vars => ToldInv'
<1> SUFFICES ASSUME IInv, [Next]_vars PROVE ToldInv'
  OBVIOUS
<1>1. Grows BY NothingLost
<1>2. ASSUME UNCHANGED <<told, alarms>> PROVE ToldInv'
  BY <1>1, <1>2 DEF IInv, ToldInv, NoFalseAlarm, Grows
<1>3. ASSUME NEW w \in Worker, Acts(w) PROVE ToldInv'
  <2>1. CASE Judge(w)
    <3>1. /\ ~ Corrupt(seen[w])
          /\ Status(seen[w]) = "cancelled" => ev[w] \in cancelled
          /\ Status(seen[w]) \in {"sending", "delivered"} => ev[w] \in sending
      BY <2>1, SnapshotHonest DEF Judge
    <3>2. alarms' = {} /\ UNCHANGED markers
      BY <2>1, <3>1 DEF Judge, IInv, ToldInv, NoFalseAlarm
    <3>3. UNCHANGED told \/ (Answer(w, seen[w]) /\ ~ Goes(w, seen[w]))
      BY <2>1, <3>1 DEF Judge, List
    <3>4. QED BY <1>2, <3>1, <3>2, <3>3, AnswerHonest DEF ToldInv, IInv, NoFalseAlarm
  <2>2. CASE Recheck(w)
    <3> DEFINE s == {m \in Reads : ev[w] \in Marked(m)}
    <3>1. /\ "delivered" \in s => ev[w] \in delivered
          /\ "cancelled" \in s => ev[w] \in cancelled
          /\ "sending" \in s => ev[w] \in sending
      BY DEF Marked
    <3>2. UNCHANGED markers /\ UNCHANGED alarms BY <2>2 DEF Recheck
    <3>3. UNCHANGED told \/ (Answer(w, s) /\ ~ Goes(w, s)) BY <2>2 DEF Recheck
    <3> HIDE DEF s
    <3>4. /\ Status(s) = "cancelled" => ev[w] \in cancelled
          /\ Status(s) \in {"sending", "delivered"} => ev[w] \in sending
      BY <3>1 DEF Status, IInv, DiskInv
    <3>5. QED BY <1>2, <3>2, <3>3, <3>4, AnswerHonest DEF ToldInv, IInv, NoFalseAlarm
  <2>3. CASE MarkCancelled(w)
    BY <2>3 DEF MarkCancelled, Tell, IInv, ToldInv, NoFalseAlarm
  <2>4. CASE ~ (Judge(w) \/ Recheck(w) \/ MarkCancelled(w))
    <3>1. UNCHANGED <<told, alarms>>
      BY <1>3, <2>4
         DEF Acts, Step, BeginCancel, BeginEnqueue, BeginPass, ReadAdmission, ReadMarker, NextEvent,
             TakeLease, Admit, MarkSending, Send, Refused, MarkDelivered, Release, Fail
    <3>2. QED BY <1>2, <3>1
  <2>5. QED BY <2>1, <2>2, <2>3, <2>4
<1>4. CASE Outside \/ UNCHANGED vars
  BY <1>2, <1>4, NobodyMoves
<1>5. QED BY <1>3, <1>4, SomeoneActs

LEMMA NextIInv == IInv /\ [Next]_vars => IInv'
BY TypeStep, PlaceStep, DiskStep, LeaseStep, SnapshotStep, ToldStep DEF IInv

LEMMA IInvHolds == Spec => []IInv
BY InitIInv, NextIInv, PTL DEF Spec
-----------------------------------------------------------------------------
(* The outbox and the operations on it are well formed in every reachable  *)
(* state.                                                                  *)
THEOREM TypeCorrect == Spec => []TypeOK
<1>1. IInv => TypeOK
  BY DEF IInv, TInv
<1>2. QED BY IInvHolds, <1>1, PTL

(* No snapshot, read without the lease while any number of operations      *)
(* write the files it reads, takes an event for corrupt: the order of its  *)
(* reads suffices (host-events.ts, 183-193).                               *)
THEOREM SnapshotsTrusted == Spec => []NoFalseAlarm
<1>1. IInv => NoFalseAlarm
  BY DEF IInv, ToldInv
<1>2. QED BY IInvHolds, <1>1, PTL

(* What cancel answered stays so: an event called cancelled is never       *)
(* intended or posted, one called too late is never cancelled, whatever    *)
(* passes, repetitions and deaths follow (host-events.ts, 242-260).        *)
THEOREM CancelAnswersHold == Spec => []AnswersHold
<1>1. IInv => AnswersHold
  <2> SUFFICES ASSUME IInv, NEW t \in told
               PROVE  IF t[2] = "cancelled" THEN post[t[1]] = None /\ t[1] \notin sending
                      ELSE t[1] \in sending /\ t[1] \notin cancelled
    BY DEF AnswersHold
  <2>1. t[1] \in Event BY DEF IInv, TInv, TypeOK
  <2>2. QED BY <2>1 DEF IInv, ToldInv, DiskInv
<1>2. QED BY IInvHolds, <1>1, PTL

(* Whoever sends, fails and sends again, a message carries the content its *)
(* event was admitted with, after its intent and its time, and a delivery  *)
(* is on record only behind its message (host-events.ts, 266-281).         *)
THEOREM DeliveredAsAdmitted == Spec => []PostedAsAdmitted
<1>1. IInv => PostedAsAdmitted
  BY DEF IInv, DiskInv, PostedAsAdmitted
<1>2. QED BY IInvHolds, <1>1, PTL
=============================================================================
