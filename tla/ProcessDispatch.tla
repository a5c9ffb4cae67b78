-------------------------- MODULE ProcessDispatch --------------------------
(***************************************************************************)
(* One durable process: ticks, the effects of its runs, crashes and        *)
(* explicit recovery.  Models ProcessSupervisor.tickLeased, executeIntent  *)
(* and recover (src/src/process.ts), ProcessJournal                        *)
(* (src/src/process-journal.ts) and the journal seam of a run's effects    *)
(* (src/src/run.ts), as far as they decide what is called, what is         *)
(* recorded and what is repeated.                                          *)
(*                                                                         *)
(* A process is a chain of immutable records behind one replaceable head.  *)
(* A dispatch publishes an intent ("uncertain"), runs the program, whose   *)
(* effects reach the outside world, and publishes the outcome.  A run is a *)
(* deterministic function Plan of the answers it has had so far, so a      *)
(* receipt is the sequence of those answers.                               *)
(*                                                                         *)
(* HostLease shows that one dispatch or recovery at a time holds the       *)
(* process; here it is the one worker of the local variables.              *)
(***************************************************************************)
EXTENDS Naturals, Sequences, FiniteSets

CONSTANTS
    Plan(_),        \* answers so far |-> the next effect, or the run's outcome
    Config,         \* configurations a host may run with
    Mode(_),        \* the journal modes a configuration ticks with: Plain or maxRecoveries
    Peers(_),       \* the configurations that share a store with one
    Plain,          \* no journal
    MaxGenerations, \* dispatches of the process (1..64 in the code)
    MaxEntries,     \* effects of one journal (4096 in the code)
    None

(* A "read" may be repeated by a recovery; every other effect may not:     *)
(* providers and write tools are journaled with recovery "never".          *)
Effect == {"read", "write"}
Outcome == {"complete", "failed", "stuck"}
(* What an effect answers: a suspension with or without wake handles ends  *)
(* the run.                                                                *)
Suspension == {"suspended", "waiting"}
Answer == {"ok", "error"} \union Suspension
Cause == {"start", "manual", "wake"}

ASSUME ModeAssumption ==
    Plain \notin Nat /\ \A c \in Config : Mode(c) \subseteq (Nat \ {0}) \union {Plain}
ASSUME PeersAssumption == \A c \in Config : Peers(c) \subseteq Config
ASSUME BoundAssumption == MaxGenerations \in Nat /\ MaxEntries \in Nat
ASSUME NoneAssumption == None \notin Nat /\ None \notin Answer /\ None # Plain /\ None \notin Seq(Answer)

VARIABLES
    \* on disk
    chain,      \* the records from the initial one to the head
    header,     \* header[i]: recovery limit of the journal of intent i, or None
    entries,    \* entries[i]: its effect heads
    recoveries, \* recoveries[i]: its admitted recovery attempts
    runs,       \* receipts published for an intent
    \* the host
    config,     \* the configuration the next dispatch or recovery runs with
    known,      \* the chain the scheduler inspected before taking the lease
    \* the one worker holding the lease
    pc, snap, intent, mode, recovering, cursor, hist, answer,
    \* the outside world
    calls       \* effect invocations in order

disk == <<chain, header, entries, recoveries, runs>>
worker == <<pc, snap, intent, mode, recovering, cursor, hist, answer>>
vars == <<disk, config, known, worker, calls>>
-----------------------------------------------------------------------------
Final(s) == s[Len(s)]
head == Final(chain)

(* A run is over when its last answer suspended it or its plan says so.    *)
Suspended(h) == h # <<>> /\ Final(h) \in Suspension
Running(h) == ~ Suspended(h) /\ Plan(h) \in Effect
OutcomeOf(h) == IF Suspended(h) THEN "suspended"
                ELSE IF Plan(h) \in Outcome THEN Plan(h) ELSE "stuck"

(* The answers a continuation replays: all but a suspension.               *)
Settled(r) == IF r = None THEN <<>>
              ELSE IF Suspended(r) THEN SubSeq(r, 1, Len(r) - 1) ELSE r

(* The causes that can start a dispatch from a record.                     *)
CausesFrom(r) ==
    IF r.status = "ready" THEN {"start"}
    ELSE {"manual"} \union (IF Final(r.receipt) = "waiting" THEN {"wake"} ELSE {})

Prefix(s, t) == Len(s) <= Len(t) /\ s = SubSeq(t, 1, Len(s))

Key(r) == <<r.gen, r.cause>>
Intent == (1..MaxGenerations) \X Cause

Record == [gen : 0..MaxGenerations,
           status : {"ready", "uncertain", "suspended"} \union Outcome,
           receipt : Seq(Answer) \union {None},
           cause : Cause \union {None}]

Initial == [gen |-> 0, status |-> "ready", receipt |-> None, cause |-> None]

(* The intent that follows a record, and the outcome that follows it.      *)
Dispatched(r, c) == [gen |-> r.gen + 1, status |-> "uncertain", receipt |-> r.receipt, cause |-> c]
Concluded(r, h) == [gen |-> r.gen, status |-> OutcomeOf(h), receipt |-> h, cause |-> r.cause]

(* The transitions readProcessHistory accepts (process.ts, 361-418).       *)
ValidIntent(prior, next) ==
    /\ prior.status \in {"ready", "suspended"}
    /\ next.gen = prior.gen + 1
    /\ next.receipt = prior.receipt
    /\ next.cause \in CausesFrom(prior)

ValidOutcome(prior, next) ==
    /\ prior.status = "uncertain" /\ next.status # "ready"
    /\ next.gen = prior.gen
    /\ next.cause = prior.cause
    /\ next.receipt # None
    /\ next.status = OutcomeOf(next.receipt)
    /\ Prefix(Settled(prior.receipt), next.receipt)

Accepts(c) ==
    /\ c[1] = Initial
    /\ \A n \in 2..Len(c) :
          IF c[n].status = "uncertain"
          THEN ValidIntent(c[n - 1], c[n])
          ELSE ValidOutcome(c[n - 1], c[n])
-----------------------------------------------------------------------------
(* The journal of intent i.                                                *)
Binding(h) == [request |-> h, config |-> config, effect |-> Plan(h)]

Entry == [binding : [request : Seq(Answer), config : Config, effect : Effect],
          attempt : Nat, result : Answer \union {None}]

Fresh(h) == [binding |-> Binding(h), attempt |-> 0, result |-> None]
Again(e) == [e EXCEPT !.attempt = @ + 1]
Answered(e, a) == [e EXCEPT !.result = a]

Started(e) == e.result = None
AllSettled(i) == \A n \in 1..Len(entries[i]) : ~ Started(entries[i][n])

(* What open insists on (process-journal.ts, 92-105 and 134-143).          *)
Openable(i) ==
    /\ header[i] # None
    /\ Len(entries[i]) <= MaxEntries
    /\ \A n \in 1..Len(entries[i]) - 1 : ~ Started(entries[i][n])
    /\ recoveries[i] <= header[i]
    /\ \A n \in 1..Len(entries[i]) :
          /\ entries[i][n].attempt <= recoveries[i]
          /\ entries[i][n].attempt > 0 => entries[i][n].binding.effect = "read"

DiskOK ==
    /\ chain \in Seq(Record) /\ chain # <<>>
    /\ header \in [Intent -> Nat \union {None}]
    /\ entries \in [Intent -> Seq(Entry)]
    /\ recoveries \in [Intent -> Nat]
    /\ runs \subseteq Intent \X Seq(Answer)

WorkerOK ==
    /\ pc \in {"idle", "journal", "intent", "run", "call", "called", "answer", "outcome"}
    /\ snap \in Seq(Record)
    /\ intent \in Record \union {None}
    /\ mode \in Nat \union {Plain}
    /\ recovering \in BOOLEAN
    /\ cursor \in Nat
    /\ hist \in Seq(Answer)
    /\ answer \in Answer \union {None}

TypeOK ==
    /\ DiskOK /\ WorkerOK
    /\ config \in Config /\ known \in Seq(Record)
    /\ calls \in Seq([gen : 1..MaxGenerations, at : Seq(Answer)])

Init ==
    /\ chain = <<Initial>>
    /\ header = [i \in Intent |-> None]
    /\ entries = [i \in Intent |-> <<>>]
    /\ recoveries = [i \in Intent |-> 0]
    /\ runs = {}
    /\ config \in Config
    /\ known = <<>>
    /\ pc = "idle" /\ snap = <<>> /\ intent = None /\ mode = Plain
    /\ recovering = FALSE /\ cursor = 0 /\ hist = <<>> /\ answer = None
    /\ calls = <<>>

(* The lease ends: the outcome is saved, or the dispatch threw or died.    *)
Stop ==
    /\ pc' = "idle" /\ snap' = <<>> /\ intent' = None /\ mode' = Plain
    /\ recovering' = FALSE /\ cursor' = 0 /\ hist' = <<>> /\ answer' = None
-----------------------------------------------------------------------------
(* schedule looks at a process before it takes its lease, and passes over  *)
(* one that cannot be dispatched (process.ts, 964-966).                    *)
Inspect ==
    /\ Accepts(chain)
    /\ head.status \in {"ready", "suspended"}
    /\ known' = chain
    /\ UNCHANGED <<disk, config, worker, calls>>

(* Mistakes: the scheduler's snapshot is not checked against the leased    *)
(* head; the checkpoint's answers are not replayed.                        *)
TickFromSnapshot(s) ==
    /\ pc = "idle"
    /\ Final(s).status \in {"ready", "suspended"} /\ Final(s).gen < MaxGenerations
    /\ snap' = s
    /\ \E c \in CausesFrom(Final(s)) :
          intent' = Dispatched(Final(s), c)
    /\ mode' \in Mode(config)
    /\ pc' = IF mode' = Plain THEN "intent" ELSE "journal"

TickStale ==
    /\ TickFromSnapshot(IF known # <<>> THEN known ELSE chain)
    /\ hist' = Settled(Final(snap').receipt)
    /\ UNCHANGED <<disk, config, known, recovering, cursor, answer, calls>>

TickFromScratch ==
    /\ TickFromSnapshot(chain)
    /\ hist' = <<>>
    /\ UNCHANGED <<disk, config, known, recovering, cursor, answer, calls>>

(* tickLeased up to its first write (process.ts, 872-949).  The scheduler's *)
(* snapshot stands in for the chain only while it is still the head; a     *)
(* tick on its own reads the chain itself.                                 *)
Tick ==
    /\ pc = "idle"
    /\ \/ known # <<>> /\ known' = <<>> /\ snap' = IF known = chain THEN known ELSE chain
       \/ known' = known /\ snap' = chain
    /\ Accepts(snap')
    /\ LET last == Final(snap') IN
          /\ last.status \in {"ready", "suspended"}
          /\ last.gen < MaxGenerations
          /\ \E c \in CausesFrom(last) :
                intent' = Dispatched(last, c)
          /\ hist' = Settled(last.receipt)
    /\ mode' \in Mode(config)
    /\ pc' = IF mode' = Plain THEN "intent" ELSE "journal"
    /\ UNCHANGED <<disk, config, recovering, cursor, answer, calls>>

(* ProcessJournal.create: the header is immutable, and a new intent must   *)
(* have no effect history.                                                 *)
CreateJournal ==
    /\ pc = "journal"
    /\ LET i == Key(intent) IN
          IF /\ header[i] \in {None, mode}
             /\ entries[i] = <<>>
             /\ recoveries[i] = 0
          THEN /\ header' = [header EXCEPT ![i] = mode]
               /\ pc' = "intent"
               /\ UNCHANGED <<snap, intent, mode, recovering, cursor, hist, answer>>
          ELSE Stop /\ UNCHANGED header
    /\ UNCHANGED <<chain, entries, recoveries, runs, config, known, calls>>

(* The intent becomes the head before anything runs (process.ts, 953).     *)
SaveIntent ==
    /\ pc = "intent"
    /\ chain' = Append(snap, intent)
    /\ snap' = chain'
    /\ pc' = "run"
    /\ UNCHANGED <<header, entries, recoveries, runs, config, known, intent, mode,
                   recovering, cursor, hist, answer, calls>>

(* before, for an entry already there: its binding must be the one asked   *)
(* for, and a completed entry answers without a call.                      *)
Recorded == entries[Key(intent)][cursor + 1]
Calling == entries[Key(intent)][cursor]
Put(e, n) == [entries EXCEPT ![Key(intent)] = [@ EXCEPT ![n] = e]]
AtRecorded ==
    /\ pc = "run" /\ Running(hist)
    /\ mode # Plain
    /\ cursor < MaxEntries /\ cursor < Len(entries[Key(intent)])

ReplayEffect ==
    /\ AtRecorded
    /\ Recorded.binding = Binding(hist)
    /\ ~ Started(Recorded)
    /\ hist' = Append(hist, Recorded.result)
    /\ cursor' = cursor + 1
    /\ UNCHANGED <<disk, config, known, pc, snap, intent, mode, recovering, answer, calls>>

(* Mistake: the repeated read gets an ordinal of its own.                  *)
RestartAsNew ==
    /\ AtRecorded
    /\ Recorded.binding = Binding(hist)
    /\ Started(Recorded)
    /\ recovering /\ Plan(hist) = "read"
    /\ entries' = [entries EXCEPT ![Key(intent)] =
          Append(@, Again(Recorded))]
    /\ cursor' = cursor + 2
    /\ pc' = "call"
    /\ UNCHANGED <<chain, header, recoveries, runs, config, known, snap, intent, mode,
                   recovering, hist, answer, calls>>

(* An unsettled read is started again, by a recovery only.                 *)
RestartEffect ==
    /\ AtRecorded
    /\ Recorded.binding = Binding(hist)
    /\ Started(Recorded)
    /\ recovering /\ Plan(hist) = "read"
    /\ entries' = Put(Again(Recorded), cursor + 1)
    /\ cursor' = cursor + 1
    /\ pc' = "call"
    /\ UNCHANGED <<chain, header, recoveries, runs, config, known, snap, intent, mode,
                   recovering, hist, answer, calls>>

(* A new effect: the started record is on disk before the call is made.    *)
StartEffect ==
    /\ pc = "run" /\ Running(hist)
    /\ \/ /\ mode = Plain
          /\ UNCHANGED <<entries, cursor>>
       \/ /\ mode # Plain
          /\ cursor < MaxEntries /\ cursor >= Len(entries[Key(intent)])
          /\ entries' = [entries EXCEPT ![Key(intent)] =
                Append(@, Fresh(hist))]
          /\ cursor' = cursor + 1
    /\ pc' = "call"
    /\ UNCHANGED <<chain, header, recoveries, runs, config, known, snap, intent, mode,
                   recovering, hist, answer, calls>>

(* Mistake: the refusal is swallowed and the worker waits for a ticket.    *)
RefuseSilently ==
    /\ pc = "run" /\ Running(hist) /\ mode # Plain
    /\ cursor >= MaxEntries \/ AtRecorded
    /\ UNCHANGED vars

(* before throws: the journal is poisoned and the dispatch ends there.     *)
RefuseEffect ==
    /\ pc = "run" /\ Running(hist) /\ mode # Plain
    /\ \/ cursor >= MaxEntries
       \/ /\ AtRecorded
          /\ \/ Recorded.binding # Binding(hist)
             \/ Started(Recorded) /\ ~ (recovering /\ Plan(hist) = "read")
    /\ Stop
    /\ UNCHANGED <<disk, config, known, calls>>

(* The provider or tool is called (run.ts, 690-699 and 742-744).           *)
Invoke ==
    /\ pc = "call"
    /\ calls' = Append(calls, [gen |-> intent.gen, at |-> hist])
    /\ pc' = "called"
    /\ UNCHANGED <<disk, config, known, snap, intent, mode, recovering, cursor, hist, answer>>

(* The deadline passed before the call was made: a settled error.          *)
ExpireUncalled ==
    /\ pc = "call"
    /\ answer' = "error"
    /\ pc' = "answer"
    /\ UNCHANGED <<disk, config, known, snap, intent, mode, recovering, cursor, hist, calls>>

(* It answers.  Without a journal a deadline is one more settled error.    *)
Settle ==
    /\ pc = "called"
    /\ answer' \in Answer
    /\ pc' = "answer"
    /\ UNCHANGED <<disk, config, known, snap, intent, mode, recovering, cursor, hist, calls>>

(* A journaled call whose deadline passes stays unsettled: the journal is  *)
(* poisoned, a late answer is never recorded (run.ts, 703-704).            *)
UnsettledDeadline ==
    /\ pc = "called"
    /\ mode # Plain
    /\ Stop
    /\ UNCHANGED <<disk, config, known, calls>>

(* Mistake: only the output of a completed effect is recorded.             *)
RecordOutputOnly ==
    /\ pc = "answer"
    /\ entries' = Put(Answered(Calling, IF answer = "error" THEN "ok" ELSE answer), cursor)
    /\ hist' = Append(hist, answer)
    /\ answer' = None
    /\ pc' = "run"
    /\ UNCHANGED <<chain, header, recoveries, runs, config, known, snap, intent, mode,
                   recovering, cursor, calls>>

(* after: the completed record takes the started one's place.              *)
RecordAnswer ==
    /\ pc = "answer"
    /\ entries' = IF mode = Plain THEN entries
                  ELSE Put(Answered(Calling, answer), cursor)
    /\ hist' = Append(hist, answer)
    /\ answer' = None
    /\ pc' = "run"
    /\ UNCHANGED <<chain, header, recoveries, runs, config, known, snap, intent, mode,
                   recovering, cursor, calls>>

(* The run is over: assertComplete, then the receipt is published.         *)
PublishReceipt ==
    /\ pc = "run" /\ ~ Running(hist)
    /\ IF mode = Plain \/ (cursor = Len(entries[Key(intent)]) /\ AllSettled(Key(intent)))
       THEN /\ runs' = runs \union {<<Key(intent), hist>>}
            /\ pc' = "outcome"
            /\ UNCHANGED <<snap, intent, mode, recovering, cursor, hist, answer>>
       ELSE Stop /\ UNCHANGED runs
    /\ UNCHANGED <<chain, header, entries, recoveries, config, known, calls>>

(* Mistake: the receipt holds only this dispatch's own answers.            *)
SaveTail ==
    /\ pc = "outcome"
    /\ chain' = Append(snap, [Concluded(intent, hist) EXCEPT
          !.receipt = SubSeq(hist, 1 + Len(Settled(intent.receipt)), Len(hist))])
    /\ Stop
    /\ UNCHANGED <<header, entries, recoveries, runs, config, known, calls>>

SaveOutcome ==
    /\ pc = "outcome"
    /\ chain' = Append(snap, Concluded(intent, hist))
    /\ Stop
    /\ UNCHANGED <<header, entries, recoveries, runs, config, known, calls>>

(* recover, with the exact uncertain head, up to the admitted attempt      *)
(* (process.ts, 796-811; beginRecovery).                                   *)
Recoverable(i) ==
    /\ Openable(i)
    /\ \A n \in 1..Len(entries[i]) :
          Started(entries[i][n]) => entries[i][n].binding.effect = "read"
    /\ recoveries[i] < header[i]

(* Mistake: an unsettled last entry is cut off as a torn write.            *)
RecoverTorn ==
    /\ pc = "idle"
    /\ head.status = "uncertain"
    /\ header[Key(head)] # None
    /\ recoveries[Key(head)] < header[Key(head)]
    /\ recoveries' = [recoveries EXCEPT ![Key(head)] = @ + 1]
    /\ entries' = [entries EXCEPT ![Key(head)] = SelectSeq(@, LAMBDA e : ~ Started(e))]
    /\ snap' = chain /\ intent' = head /\ mode' = header[Key(head)] /\ recovering' = TRUE
    /\ hist' = Settled(head.receipt)
    /\ pc' = "run"
    /\ UNCHANGED <<chain, header, runs, config, known, cursor, answer, calls>>

Recover ==
    /\ pc = "idle"
    /\ Accepts(chain)
    /\ head.status = "uncertain"
    /\ Recoverable(Key(head))
    /\ recoveries' = [recoveries EXCEPT ![Key(head)] = @ + 1]
    /\ snap' = chain
    /\ intent' = head
    /\ mode' = header[Key(head)]
    /\ recovering' = TRUE
    /\ hist' = Settled(head.receipt)
    /\ pc' = "run"
    /\ UNCHANGED <<chain, header, entries, runs, config, known, cursor, answer, calls>>

(* The process dies or a file operation throws, at any step.               *)
Crash ==
    /\ pc # "idle"
    /\ Stop
    /\ UNCHANGED <<disk, config, known, calls>>

(* The next host may run with another tool or provider configuration.      *)
Reconfigure ==
    /\ pc = "idle"
    /\ config' \in Peers(config)
    /\ UNCHANGED <<disk, known, worker, calls>>
-----------------------------------------------------------------------------
Step ==
    \/ CreateJournal \/ SaveIntent
    \/ ReplayEffect \/ RestartEffect \/ StartEffect \/ RefuseEffect
    \/ Invoke \/ ExpireUncalled \/ Settle \/ UnsettledDeadline \/ RecordAnswer
    \/ PublishReceipt \/ SaveOutcome

Next == Inspect \/ Tick \/ Step \/ Recover \/ Crash \/ Reconfigure

Spec == Init /\ [][Next]_vars

(* A worker that holds the lease goes on until it stops, and an operator   *)
(* keeps recovering an uncertain process while that is admitted.           *)
FairSpec == Spec /\ WF_vars(Step) /\ WF_vars(Recover)
-----------------------------------------------------------------------------
(* An effect that is not a read is called at most once for one place in    *)
(* one dispatch, whatever crashes, deadlines and recoveries follow         *)
(* (process.ts, 1-2; process-journal.ts, 148-150 and 190).                 *)
NeverReissued ==
    \A m, n \in 1..Len(calls) :
        m # n /\ calls[m] = calls[n] => Plan(calls[m].at) = "read"

(* Published history is only extended, also by a scheduler that inspected  *)
(* the process before it took the lease (process.ts, 879-884).             *)
HistoryGrows == [][Prefix(chain, chain')]_vars

(* Every chain the supervisor writes is one its own reader accepts.        *)
HistoryAccepted == Accepts(chain)

(* Every journal it writes can be opened again, whatever step died.        *)
Reopenable == \A i \in Intent : header[i] # None => Openable(i)

(* A dispatch has one receipt, also when it was published before a crash   *)
(* and a recovery publishes it again, and it says what the journal says    *)
(* was asked and answered.                                                 *)
ReceiptMatchesJournal ==
    \A r \in runs :
        /\ \A s \in runs : r[1] = s[1] => r = s
        /\ header[r[1]] # None =>
              \A n \in 1..Len(entries[r[1]]) :
                  LET e == entries[r[1]][n] IN
                  /\ Len(e.binding.request) < Len(r[2])
                  /\ e.result = r[2][Len(e.binding.request) + 1]
                  /\ Prefix(e.binding.request, r[2])

(* A recovered dispatch comes to its outcome or to a state only an         *)
(* operator can settle: an unknown write, or no attempt left.              *)
Blocked == ~ Recoverable(Key(head))
RecoveryConverges ==
    head.status = "uncertain" ~> head.status # "uncertain" \/ (pc = "idle" /\ Blocked)

(* A dispatch calls the outside only once it is the published head, never  *)
(* for an answer the process already has, and ends by extending those      *)
(* answers (process.ts, 953-954; verify.ts, 142-163).                      *)
Abstract == INSTANCE DurableProcess WITH
    phase <- IF head.status \in {"ready", "suspended"} THEN "resting"
             ELSE IF head.status = "uncertain" THEN "dispatched" ELSE "over",
    gen <- head.gen,
    log <- Settled(head.receipt)
ImplementsDurable == Abstract!Spec
=============================================================================
