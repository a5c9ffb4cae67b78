-------------------------- MODULE HabitatSchedule --------------------------
(* A habitat schedule and its journal (src/habitat-schedule.ts, with the   *)
(* account of src/habitat-budget.ts): activities take turns on one account *)
(* of work, every charged run is journaled, and a later invocation serves  *)
(* the journaled runs from their receipts and goes on from there.  Nothing *)
(* locks a journal: invocations may overlap.  Between two of its runs an   *)
(* activity touches nothing others see, so what it asks next is a function *)
(* of the receipts it was given.                                           *)
EXTENDS Integers, Sequences

CONSTANTS
    Host,        \* invocations
    N,           \* activities
    Plan(_, _),  \* what an activity asks for next: a manifest, Done or Broken
    Manifest,
    Ceiling,     \* the work and the attempts a manifest declares
    Cost,        \* the work and the attempts a receipt may record
    Limits,      \* the budgets invocations are given
    MaxFaults,   \* failures and deaths admitted
    Done, Broken, None

Amount == [work : Nat, attempts : Nat]
ASSUME HabitatCounts == N \in Nat \ {0} /\ MaxFaults \in Nat
ASSUME HabitatAmounts ==
    /\ Ceiling \in [Manifest -> Amount] /\ Cost \subseteq Amount
    /\ Limits \subseteq [work : Nat, attempts : Nat, runs : Nat]
ASSUME HabitatDistinct == Done \notin Manifest /\ Broken \notin Manifest \union {Done}

Activity == 0..(N - 1)
Refusal == [activity : Activity, manifest : Manifest, reasons : SUBSET {"attempts", "work", "runs"}]
ASSUME HabitatNone == None \notin Limits \union Refusal

RunRecord == [activity : Activity, manifest : Manifest,
              receipt : [manifest : Manifest, before : Seq(Cost), cost : Cost]]

VARIABLES
    header,     \* journal.json: the limits, or None
    journal,    \* runs/<ordinal>.json
    store,      \* receipts stored
    stage,      \* where an invocation is
    limits,     \* its budget
    journaled,  \* the entries it read
    turns,      \* the runs it charged
    charged,    \* what its account adds up to
    last,       \* whose turn it was
    refused,    \* the first refusal
    ended,      \* the activities that were refused
    faults,
    records     \* ghost: the records written

onDisk == <<header, journal, store>>
account == <<turns, charged, last, refused, ended>>
habitatVars == <<onDisk, stage, limits, journaled, account, faults, records>>

Nothing == [work |-> 0, attempts |-> 0, runs |-> 0]

HabitatTypeOK ==
    /\ header \in Limits \union {None} /\ journal \in Seq(RunRecord)
    /\ stage \in [Host -> {"idle", "header", "read", "pump", "append"}]
    /\ limits \in [Host -> Limits \union {None}]
    /\ journaled \in [Host -> Seq(RunRecord)] /\ turns \in [Host -> Seq(RunRecord)]
    /\ charged \in [Host -> [work : Nat, attempts : Nat, runs : Nat]]
    /\ last \in [Host -> Activity \union {-1}]
    /\ refused \in [Host -> Refusal \union {None}]
    /\ ended \in [Host -> SUBSET Activity]
    /\ faults \in 0..MaxFaults

HabitatInit ==
    /\ header = None /\ journal = <<>> /\ store = {}
    /\ stage = [h \in Host |-> "idle"]
    /\ limits = [h \in Host |-> None]
    /\ journaled = [h \in Host |-> <<>>]
    /\ turns = [h \in Host |-> <<>>]
    /\ charged = [h \in Host |-> Nothing]
    /\ last = [h \in Host |-> -1]
    /\ refused = [h \in Host |-> None]
    /\ ended = [h \in Host |-> {}]
    /\ faults = 0 /\ records = {}
-----------------------------------------------------------------------------
(* The account.                                                            *)
Exceeded(l, c, ceiling) ==
    {d \in {"attempts", "work"} : c[d] + ceiling[d] > l[d]}
    \union (IF c.runs + 1 > l.runs THEN {"runs"} ELSE {})

Charge(c, run) ==
    [work |-> c.work + run.receipt.cost.work,
     attempts |-> c.attempts + run.receipt.cost.attempts, runs |-> c.runs + 1]

(* A run can cost more work than it declared, never more attempts.         *)
Costs(m) == {c \in Cost : c.attempts <= Ceiling[m].attempts}

(* What the receipts record that activity a was given, and what it asks    *)
(* for next.                                                               *)
Given(t, a) ==
    LET given[n \in 0..Len(t)] ==
          IF n = 0 THEN <<>>
          ELSE IF t[n].activity = a THEN Append(given[n - 1], t[n].receipt.cost)
          ELSE given[n - 1]
    IN given[Len(t)]
Ask(t, a) == Plan(a, Given(t, a))
Waiting(h) == {a \in Activity \ ended[h] : Ask(turns[h], a) \in Manifest}

(* The first that waits after the last, wrapping around.                   *)
NextTurn(before, waiting) ==
    LET step(a) == (a - before - 1 + N) % N IN
    CHOOSE a \in waiting : \A b \in waiting : step(a) <= step(b)
-----------------------------------------------------------------------------
(* parseHabitatSchedule, which recomputes account and order of a record.   *)
Totals(runs) ==
    LET total[n \in 0..Len(runs)] == IF n = 0 THEN Nothing ELSE Charge(total[n - 1], runs[n])
    IN total[Len(runs)]
Accepts(r) ==
    LET exhausted == {a \in Activity : r.outcome[a] = "exhausted"}
        Remaining(i) == {r.runs[j].activity : j \in i..Len(r.runs)}
        before(i) == IF i = 1 THEN -1 ELSE r.runs[i - 1].activity
    IN
    /\ Len(r.runs) <= r.limits.runs
    /\ \A i \in 1..Len(r.runs) :
          LET run == r.runs[i] IN
          /\ Exceeded(r.limits, Totals(SubSeq(r.runs, 1, i - 1)), Ceiling[run.manifest]) = {}
          /\ run.receipt.cost.attempts <= Ceiling[run.manifest].attempts
          /\ run.activity = NextTurn(before(i), Remaining(i) \union exhausted)
    /\ r.charged = Totals(r.runs)
    /\ exhausted = {} <=> r.refused = None
    /\ exhausted # {} =>
          /\ r.refused.reasons # {}
          /\ r.refused.reasons = Exceeded(r.limits, r.charged, Ceiling[r.refused.manifest])
          /\ r.refused.activity = NextTurn(before(Len(r.runs) + 1), exhausted)
-----------------------------------------------------------------------------
Goto(h, l) == stage' = [stage EXCEPT ![h] = l]

(* The invocation ends, and what it knew is gone.                          *)
End(h) ==
    /\ Goto(h, "idle")
    /\ limits' = [limits EXCEPT ![h] = None]
    /\ journaled' = [journaled EXCEPT ![h] = <<>>]
    /\ turns' = [turns EXCEPT ![h] = <<>>]
    /\ charged' = [charged EXCEPT ![h] = Nothing]
    /\ last' = [last EXCEPT ![h] = -1]
    /\ refused' = [refused EXCEPT ![h] = None]
    /\ ended' = [ended EXCEPT ![h] = {}]

(* openHabitatJournal.                                                     *)
Open(h, l) ==
    /\ stage[h] = "idle"
    /\ header \in {None, l}
    /\ limits' = [limits EXCEPT ![h] = l]
    /\ Goto(h, IF header = None THEN "header" ELSE "read")
    /\ UNCHANGED <<onDisk, journaled, account, faults, records>>

(* The header is immutable: who finds another there is refused.            *)
WriteHeader(h) ==
    /\ stage[h] = "header"
    /\ IF header \in {None, limits[h]}
       THEN header' = limits[h] /\ Goto(h, "read") /\ UNCHANGED <<limits, journaled, account>>
       ELSE End(h) /\ UNCHANGED header
    /\ UNCHANGED <<journal, store, faults, records>>

ReadEntries(h) ==
    /\ stage[h] = "read"
    /\ journaled' = [journaled EXCEPT ![h] = journal]
    /\ Goto(h, "pump")
    /\ UNCHANGED <<onDisk, limits, account, faults, records>>
-----------------------------------------------------------------------------
(* runHabitatSchedule.  Mistake: the turn always goes to the first.        *)
FirstWaiting(h) == NextTurn(-1, Waiting(h))
Turn(h) == NextTurn(last[h], Waiting(h))

Wanted(h) == Ask(turns[h], Turn(h))
Reasons(h) == Exceeded(limits[h], charged[h], Ceiling[Wanted(h)])
Pumping(h) == stage[h] = "pump" /\ \A a \in Activity : Ask(turns[h], a) # Broken
Granting(h) == Pumping(h) /\ Waiting(h) # {}
Fits(h) == refused[h] = None /\ Reasons(h) = {}

(* The first refusal is terminal: it ends who asks now, and who asks after.*)
Refuse(h) ==
    /\ Granting(h) /\ ~ Fits(h)
    /\ refused' = [refused EXCEPT ![h] =
          IF @ = None THEN [activity |-> Turn(h), manifest |-> Wanted(h), reasons |-> Reasons(h)] ELSE @]
    /\ ended' = [ended EXCEPT ![h] = @ \union {Turn(h)}]
    /\ last' = [last EXCEPT ![h] = Turn(h)]
    /\ UNCHANGED <<onDisk, stage, limits, journaled, turns, charged, faults, records>>

Book(h, run) ==
    /\ turns' = [turns EXCEPT ![h] = Append(@, run)]
    /\ charged' = [charged EXCEPT ![h] = Charge(@, run)]
    /\ last' = [last EXCEPT ![h] = run.activity]
    /\ UNCHANGED <<limits, journaled, refused, ended>>

Receipt(h, c) == [manifest |-> Wanted(h), before |-> Given(turns[h], Turn(h)), cost |-> c]
Run(h, c) == [activity |-> Turn(h), manifest |-> Wanted(h), receipt |-> Receipt(h, c)]

(* A journaled run is served if it is the run that is asked for and its    *)
(* receipt is of this manifest, these arguments and this charge.           *)
Position(h) == Len(turns[h]) + 1
Serve(h) ==
    /\ Granting(h) /\ Fits(h) /\ Position(h) <= Len(journaled[h])
    /\ LET entry == journaled[h][Position(h)] IN
       IF /\ entry.activity = Turn(h) /\ entry.manifest = Wanted(h)
          /\ entry.receipt \in store
          /\ entry.receipt = Receipt(h, entry.receipt.cost)
       THEN Book(h, entry) /\ UNCHANGED stage
       ELSE End(h)
    /\ UNCHANGED <<onDisk, faults, records>>

(* Mistake: the run is charged before its receipt is stored.               *)
ExecuteUnstored(h) ==
    /\ Granting(h) /\ Fits(h) /\ Position(h) > Len(journaled[h])
    /\ \E c \in Costs(Wanted(h)) :
          Book(h, Run(h, c))
    /\ Goto(h, "append")
    /\ UNCHANGED <<onDisk, faults, records>>

Execute(h) ==
    /\ Granting(h) /\ Fits(h) /\ Position(h) > Len(journaled[h])
    /\ \E c \in Costs(Wanted(h)) :
          /\ store' = store \union {Receipt(h, c)}
          /\ Book(h, Run(h, c))
    /\ Goto(h, "append")
    /\ UNCHANGED <<header, journal, faults, records>>

(* An entry is immutable.  Mistake: one that is there will do.             *)
AppendAnyway(h) ==
    LET n == Len(turns[h]) IN
    /\ stage[h] = "append"
    /\ journal' = IF n <= Len(journal) THEN journal ELSE Append(journal, turns[h][n])
    /\ Goto(h, "pump") /\ UNCHANGED <<limits, journaled, account>>
    /\ UNCHANGED <<header, store, faults, records>>

AppendEntry(h) ==
    LET n == Len(turns[h]) IN
    /\ stage[h] = "append"
    /\ IF n <= Len(journal) /\ journal[n] # turns[h][n]
       THEN End(h) /\ UNCHANGED journal
       ELSE /\ journal' = IF n <= Len(journal) THEN journal ELSE Append(journal, turns[h][n])
            /\ Goto(h, "pump")
            /\ UNCHANGED <<limits, journaled, account>>
    /\ UNCHANGED <<header, store, faults, records>>

Record(h) ==
    [limits |-> limits[h], runs |-> turns[h], charged |-> charged[h], refused |-> refused[h],
     outcome |-> [a \in Activity |-> IF a \in ended[h] THEN "exhausted" ELSE "complete"]]

(* Every activity is done: the record is written, unless entries are left  *)
(* that nobody asked for, or its own parser refuses it.                    *)
Finished(h) == Pumping(h) /\ Waiting(h) = {}
Close(h) ==
    /\ Finished(h)
    /\ records' = records \union
          (IF Len(turns[h]) >= Len(journaled[h]) /\ Accepts(Record(h)) THEN {Record(h)} ELSE {})
    /\ End(h)
    /\ UNCHANGED <<onDisk, faults>>

(* An activity fails of itself: the others are stopped and nothing is      *)
(* recorded.                                                               *)
Stop(h) ==
    /\ stage[h] = "pump" /\ ~ Pumping(h)
    /\ End(h)
    /\ UNCHANGED <<onDisk, faults, records>>
-----------------------------------------------------------------------------
(* A run or a write throws, or the process dies.                           *)
Interrupt(h) ==
    /\ stage[h] # "idle" /\ faults < MaxFaults
    /\ faults' = faults + 1
    /\ End(h)
    /\ UNCHANGED <<onDisk, records>>

Step(h) ==
    WriteHeader(h) \/ ReadEntries(h) \/ Refuse(h) \/ Serve(h) \/ Execute(h)
    \/ AppendEntry(h) \/ Close(h) \/ Stop(h)

HabitatNext == \E h \in Host : (\E l \in Limits : Open(h, l)) \/ Step(h) \/ Interrupt(h)

HabitatSpec == HabitatInit /\ [][HabitatNext]_habitatVars

(* An invocation under way goes on, and somebody invokes the schedule      *)
(* again.                                                                  *)
FairHabitat == HabitatSpec /\ \A h \in Host : WF_habitatVars(Step(h)) /\ SF_habitatVars(\E l \in Limits : Open(h, l))
-----------------------------------------------------------------------------
(* A schedule that has done its work has a record that its own parser      *)
(* accepts: the parser knows the order from the charged runs and outcomes  *)
(* only (159-215, 486-503).                                                *)
RecordAccepted == \A h \in Host : Finished(h) => Accepts(Record(h))

(* However invocations stop, overlap and resume, a journal leads to one    *)
(* record (27-30, 270-273).                                                *)
RecordsAgree == \A r, q \in records : r = q

(* A schedule that is invoked again comes to its record, unless one of its *)
(* activities fails of itself, which it then does each time (384-390).     *)
Doomed == \E a \in Activity : Ask(journal, a) = Broken
ScheduleFinishes == <>(records # {} \/ Doomed)
=============================================================================
