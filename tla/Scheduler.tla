----------------------------- MODULE Scheduler -----------------------------
(***************************************************************************)
(* ProcessSupervisor.schedule and tick over the processes of one store     *)
(* (src/src/process.ts, 866-970), run by several hosts while processes are *)
(* created, woken by mail, interrupted and recovered.                      *)
(*                                                                         *)
(* A pass reads the names once, then looks at each process in order and    *)
(* takes its lease to tick it.  Whatever throws ends the whole pass: also  *)
(* names(), before it has looked at any, where a creation's scratch file   *)
(* is beside the processes.  One dispatch is ProcessDispatch, one creation *)
(* ProcessCreation and the probe of a mailbox Mailbox; here each is as     *)
(* many steps as the pass sees.                                            *)
(***************************************************************************)
EXTENDS Naturals, FiniteSets, FiniteSetsExt

CONSTANTS
    Host,           \* schedule or tick calls under way at a time
    Name,           \* process names, in their sorted order
    MaxTicks,       \* dispatches of one pass (1..1024 in the code)
    MaxGenerations, \* dispatches of one process (1..64 in the code)
    MaxFaults,      \* failures and deaths, bounded for model checking
    Absent

ASSUME NameAssumption == Name \subseteq Nat
ASSUME SchedulerBounds == MaxTicks \in Nat \ {0} /\ MaxGenerations \in Nat /\ MaxFaults \in Nat

VARIABLES
    dirs,       \* names with a directory
    strays,     \* scratch files among them
    head,       \* head[n]: generation and status published, or Absent
    lease,      \* lease[n]: the host holding it
    mail,       \* mail[n]: what is in the mailbox a waiting process names
    pc, auto, todo, ticks, cur, seen,
    faults,
    rung        \* history: names that had mail since their last outcome

locals == <<auto, todo, ticks, cur, seen>>
passesVars == <<dirs, strays, head, lease, mail, pc, locals, faults, rung>>

(* waiting: suspended with a mailbox to wake it; suspended: without.       *)
Resting == {"ready", "suspended", "waiting"}
ProcessStatus == Resting \union {"uncertain", "over"}
Contents == {"empty", "pending", "closed"}
Scratch == ".tmp"
Record == [gen : 0..MaxGenerations, status : ProcessStatus]
ASSUME AbsentAssumption == Absent \notin Name \union Host \union Record

PassesTypeOK ==
    /\ dirs \subseteq Name
    /\ strays \subseteq {Scratch}
    /\ head \in [Name -> Record \union {Absent}]
    /\ lease \in [Name -> Host \union {Absent}]
    /\ mail \in [Name -> Contents]
    /\ pc \in [Host -> {"idle", "visit", "lock", "check", "probe", "save", "run"}]
    /\ auto \in [Host -> BOOLEAN]
    /\ todo \in [Host -> SUBSET Name]
    /\ ticks \in [Host -> 0..MaxTicks]
    /\ cur \in [Host -> Name \union {Absent}]
    /\ seen \in [Host -> Record \union {Absent}]
    /\ faults \in 0..MaxFaults
    /\ rung \subseteq Name

PassesInit ==
    /\ dirs = {} /\ strays = {} /\ head = [n \in Name |-> Absent]
    /\ lease = [n \in Name |-> Absent] /\ mail = [n \in Name |-> "empty"]
    /\ pc = [s \in Host |-> "idle"] /\ auto = [s \in Host |-> FALSE]
    /\ todo = [s \in Host |-> {}] /\ ticks = [s \in Host |-> 0]
    /\ cur = [s \in Host |-> Absent] /\ seen = [s \in Host |-> Absent]
    /\ faults = 0 /\ rung = {}

Goto(s, l) == pc' = [pc EXCEPT ![s] = l]
Process(s) == head[cur[s]]
Forget(s) == cur' = [cur EXCEPT ![s] = Absent] /\ seen' = [seen EXCEPT ![s] = Absent]

(* The call returns or throws.                                             *)
End(s) ==
    /\ Goto(s, "idle") /\ Forget(s)
    /\ auto' = [auto EXCEPT ![s] = FALSE]
    /\ todo' = [todo EXCEPT ![s] = {}] /\ ticks' = [ticks EXCEPT ![s] = 0]
Unlock(s) == lease' = [lease EXCEPT ![cur[s]] = Absent]

(* A process is done with: a pass goes on to the next name.                *)
Leave(s) ==
    IF auto[s] THEN Goto(s, "visit") /\ Forget(s) /\ UNCHANGED <<auto, todo, ticks>> ELSE End(s)
-----------------------------------------------------------------------------
(* names() gives every directory or throws: then the call has changed      *)
(* nothing.                                                                *)
Begin(s) ==
    /\ pc[s] = "idle" /\ dirs # {} /\ strays = {}
    /\ todo' = [todo EXCEPT ![s] = dirs]
    /\ auto' = [auto EXCEPT ![s] = TRUE]
    /\ Goto(s, "visit")
    /\ UNCHANGED <<dirs, strays, head, lease, mail, ticks, cur, seen, faults, rung>>

(* tick by hand, without a look at the process before its lease.           *)
TickByHand(s, n) ==
    /\ pc[s] = "idle" /\ head[n] # Absent
    /\ cur' = [cur EXCEPT ![s] = n]
    /\ Goto(s, "lock")
    /\ UNCHANGED <<dirs, strays, head, lease, mail, auto, todo, ticks, seen, faults, rung>>

(* Mistake: a process that is not for dispatch ends the pass.              *)
VisitOnlyResting(s) ==
    /\ pc[s] = "visit"
    /\ IF todo[s] = {} \/ ticks[s] >= MaxTicks THEN End(s)
       ELSE LET n == Min(todo[s]) IN
            IF head[n] = Absent \/ head[n].status \notin Resting THEN End(s)
            ELSE /\ todo' = [todo EXCEPT ![s] = @ \ {n}]
                 /\ cur' = [cur EXCEPT ![s] = n] /\ seen' = [seen EXCEPT ![s] = head[n]]
                 /\ Goto(s, "lock") /\ UNCHANGED <<auto, ticks>>
    /\ UNCHANGED <<dirs, strays, head, lease, mail, faults, rung>>

(* The next name: a directory without a head is a missing process, which   *)
(* ends the pass; what is not for dispatch is passed over.                 *)
Visit(s) ==
    /\ pc[s] = "visit"
    /\ IF todo[s] = {} \/ ticks[s] >= MaxTicks THEN End(s)
       ELSE LET n == Min(todo[s]) IN
            IF head[n] = Absent THEN End(s)
            ELSE /\ todo' = [todo EXCEPT ![s] = @ \ {n}]
                 /\ IF head[n].status \in Resting
                    THEN /\ cur' = [cur EXCEPT ![s] = n] /\ seen' = [seen EXCEPT ![s] = head[n]]
                         /\ Goto(s, "lock")
                    ELSE UNCHANGED <<cur, seen, pc>>
                 /\ UNCHANGED <<auto, ticks>>
    /\ UNCHANGED <<dirs, strays, head, lease, mail, faults, rung>>

(* A held lease refuses at once, which ends the pass.                      *)
TakeLease(s) ==
    /\ pc[s] = "lock"
    /\ IF lease[cur[s]] = Absent
       THEN /\ lease' = [lease EXCEPT ![cur[s]] = s]
            /\ Goto(s, "check") /\ UNCHANGED locals
       ELSE End(s) /\ UNCHANGED lease
    /\ UNCHANGED <<dirs, strays, head, mail, faults, rung>>

(* What the leased tick does with the record r it goes by: uncertain work  *)
(* is refused, settled or exhausted work is left, waiting work is probed   *)
(* by a pass, and the rest is dispatched.                                  *)
CheckRecord(s, r) ==
    /\ pc[s] = "check"
    /\ IF r.status \notin Resting \/ r.gen >= MaxGenerations
       THEN Unlock(s) /\ (IF r.status = "uncertain" THEN End(s) ELSE Leave(s))
       ELSE IF auto[s] /\ r.status = "suspended"
       THEN Unlock(s) /\ Leave(s)
       ELSE /\ Goto(s, IF auto[s] /\ r.status = "waiting" THEN "probe" ELSE "save")
            /\ seen' = [seen EXCEPT ![s] = r]
            /\ UNCHANGED <<lease, auto, todo, ticks, cur>>
    /\ UNCHANGED <<dirs, strays, head, mail, faults, rung>>

(* Mistake: the record inspected before the lease is gone by.              *)
CheckSnapshot(s) == CheckRecord(s, IF seen[s] = Absent THEN Process(s) ELSE seen[s])
Check(s) == CheckRecord(s, Process(s))

(* Mistake: any mailbox that can be probed wakes.                          *)
ProbeAny(s) ==
    /\ pc[s] = "probe"
    /\ IF mail[cur[s]] = "closed" THEN Unlock(s) /\ End(s)
       ELSE Goto(s, "save") /\ UNCHANGED <<lease, locals>>
    /\ UNCHANGED <<dirs, strays, head, mail, faults, rung>>

(* hasPending throws on a revoked capability or a mailbox left locked,     *)
(* which ends the pass.                                                    *)
Probe(s) ==
    /\ pc[s] = "probe"
    /\ CASE mail[cur[s]] = "pending" -> Goto(s, "save") /\ UNCHANGED <<lease, locals>>
         [] mail[cur[s]] = "empty" -> Unlock(s) /\ Leave(s)
         [] mail[cur[s]] = "closed" -> Unlock(s) /\ End(s)
    /\ UNCHANGED <<dirs, strays, head, mail, faults, rung>>

Save(s) ==
    /\ pc[s] = "save"
    /\ head' = [head EXCEPT ![cur[s]] = [gen |-> seen[s].gen + 1, status |-> "uncertain"]]
    /\ seen' = [seen EXCEPT ![s] = head'[cur[s]]]
    /\ Goto(s, "run")
    /\ mail' = [mail EXCEPT ![cur[s]] = "empty"] /\ rung' = rung \ {cur[s]}
    /\ UNCHANGED <<dirs, strays, lease, auto, todo, ticks, cur, faults>>

(* What an outcome leaves: a process that waits may have mail already, or  *)
(* name a mailbox that was closed.                                         *)
Settle(n, gen) ==
    \E st \in {"suspended", "waiting", "over"}, m \in Contents :
        /\ st # "waiting" => m = "empty"
        /\ head' = [head EXCEPT ![n] = [gen |-> gen, status |-> st]]
        /\ mail' = [mail EXCEPT ![n] = m]
        /\ rung' = IF m = "pending" THEN rung \union {n} ELSE rung

(* The run ends.                                                           *)
Finish(s) ==
    /\ pc[s] = "run"
    /\ Settle(cur[s], seen[s].gen)
    /\ Unlock(s)
    /\ IF auto[s]
       THEN Goto(s, "visit") /\ Forget(s) /\ ticks' = [ticks EXCEPT ![s] = @ + 1] /\ UNCHANGED <<auto, todo>>
       ELSE End(s)
    /\ UNCHANGED <<dirs, strays, faults>>

(* Something throws or the host dies; the lease is freed.                  *)
Fail(s) ==
    /\ pc[s] # "idle" /\ faults < MaxFaults
    /\ faults' = faults + 1
    /\ End(s)
    /\ IF pc[s] \in {"check", "probe", "save", "run"} THEN Unlock(s) ELSE UNCHANGED lease
    /\ UNCHANGED <<dirs, strays, head, mail, rung>>

(* An operator recovers a journaled dispatch, holding its lease.           *)
Recover(n) ==
    /\ head[n] # Absent /\ head[n].status = "uncertain" /\ lease[n] = Absent
    /\ Settle(n, head[n].gen)
    /\ UNCHANGED <<dirs, strays, lease, pc, locals, faults>>

(* A creation occupies its interlock with a scratch file beside it         *)
(* (ProcessCreation); it removes the file, or dies and an operator may.    *)
WriteScratch ==
    /\ strays = {}
    /\ strays' = {Scratch}
    /\ UNCHANGED <<dirs, head, lease, mail, pc, locals, faults, rung>>

RemoveScratch ==
    /\ strays # {}
    /\ strays' = {}
    /\ UNCHANGED <<dirs, head, lease, mail, pc, locals, faults, rung>>

(* It then reads the names, claims its own and publishes its head later,   *)
(* or never.                                                               *)
Mkdir(n) ==
    /\ strays = {}
    /\ n \notin dirs
    /\ dirs' = dirs \union {n}
    /\ UNCHANGED <<strays, head, lease, mail, pc, locals, faults, rung>>

Publish(n) ==
    /\ n \in dirs /\ head[n] = Absent
    /\ head' = [head EXCEPT ![n] = [gen |-> 0, status |-> "ready"]]
    /\ UNCHANGED <<dirs, strays, lease, mail, pc, locals, faults, rung>>

(* Others send to the mailbox of a process that waits, receive from it, or *)
(* close it for good.                                                      *)
Mail(n, m) ==
    /\ head[n] # Absent /\ head[n].status = "waiting"
    /\ mail[n] # "closed" /\ mail[n] # m
    /\ mail' = [mail EXCEPT ![n] = m]
    /\ rung' = IF m = "pending" THEN rung \union {n} ELSE rung
    /\ UNCHANGED <<dirs, strays, head, lease, pc, locals, faults>>
-----------------------------------------------------------------------------
Step(s) == Visit(s) \/ TakeLease(s) \/ Check(s) \/ Probe(s) \/ Save(s) \/ Finish(s)

PassesNext ==
    \/ \E s \in Host : Begin(s) \/ Step(s) \/ Fail(s) \/ \E n \in Name : TickByHand(s, n)
    \/ \E n \in Name : Recover(n) \/ Mkdir(n) \/ Publish(n)
    \/ \E n \in Name, m \in Contents : Mail(n, m)
    \/ WriteScratch \/ RemoveScratch

PassesSpec == PassesInit /\ [][PassesNext]_passesVars

(* Hosts under way go on and passes are made again and again; nothing      *)
(* obliges a creation to finish, a sender to send or an operator to act.   *)
FairPasses ==
    /\ PassesSpec
    /\ \A s \in Host : WF_passesVars(Step(s)) /\ SF_passesVars(Begin(s))
-----------------------------------------------------------------------------
(* A generation is dispatched once, uncertain work leaves only by its own  *)
(* outcome and terminal work never (process.ts, 879-894).                  *)
NeverTakenBack ==
    [][\A n \in Name : head[n] # Absent /\ head'[n] # head[n] =>
          /\ head[n].status # "over"
          /\ head'[n].gen = head[n].gen + (IF head[n].status = "uncertain" THEN 0 ELSE 1)
          /\ head'[n].status = "uncertain" <=> head[n].status # "uncertain"]_passesVars

(* A pass wakes a waiting process only if its mailbox had a message since  *)
(* it began to wait; polling alone consumes no generation (902-915).       *)
WokenByMessage ==
    [][\A s \in Host : Save(s) /\ auto[s] /\ Process(s).status = "waiting" =>
          cur[s] \in rung]_passesVars

Eligible(n) ==
    /\ head[n] # Absent /\ head[n].gen < MaxGenerations
    /\ head[n].status = "ready" \/ (head[n].status = "waiting" /\ mail[n] = "pending")

(* Names a pass cannot get past.                                           *)
Impassable(n) ==
    /\ n \in dirs
    /\ head[n] = Absent \/ (head[n].status = "waiting" /\ mail[n] = "closed"
                          /\ head[n].gen < MaxGenerations)
Clear(n) == \A m \in dirs : m < n => ~ Impassable(m)

OnlyPasses == \A s \in Host : pc[s] # "idle" => auto[s]

(* Repeated passes dispatch every process that is ready or has mail, for   *)
(* any bound of one pass and though they get into each other's way, once   *)
(* nobody ticks by hand without end and nothing is in the way: no name     *)
(* before it that ends a pass (747-748, 909), and no scratch file of a     *)
(* creation, at which no pass starts (612-617).                            *)
EligibleDispatched ==
    \A n \in Name :
        <>[](Clear(n) /\ strays = {} /\ OnlyPasses) => (Eligible(n) ~> ~ Eligible(n))

(* What the process contract says of schedule (spec/v1/process.md,         *)
(* 124-126): it dispatches ready processes.                                *)
ReadyDispatched ==
    \A n \in Name : (head[n] # Absent /\ head[n].status = "ready")
                        ~> (head[n] # Absent /\ head[n].status # "ready")
=============================================================================
