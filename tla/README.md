# Algal: the durable runtime in TLA+

Algal runs small effectful programs (graphs of cells, written as a manifest)
and keeps what they do on disk: every effect is recorded in a receipt, a
program that waits for a message is suspended into its receipt and continued
from it, and named *processes*, *mailboxes* and a *host event outbox* make that
survive crashes, competing runtimes and operators. This directory models that
durable runtime, the TypeScript sources under `src/`, checks it with TLC and
proves the parts everything else rests on with TLAPS.

All line numbers below are those of the TypeScript files under `src/`.

## 1. The system

### Components, their state and their operations

| Component | State it keeps | Operations | Hard because |
|---|---|---|---|
| Custody lease, `host-state.ts` | `.owner.sqlite` (one write transaction), `.lock` (owner marker with a nonce), `owners/` (markers of dead owners) | `hostLease`: acquire, run, release, retry until a deadline | two mutexes of different lifetimes, older runtimes that know only one, death between any two file operations |
| Process supervisor, `process.ts` | `processes/<name>/`: `head.json`, history records, claim and manifest | `create`, `tick`, `recover`, `schedule`, `inspect` | intent and outcome are two writes around calls to the outside; several hosts; a schedule pass decides on snapshots |
| Process journal, `process-journal.ts` | one directory per intent digest: header, entries (a value, then a head), recovery attempts | `create`, `open`, `beginRecovery`, `before`, `after`, `assertComplete` | a crash around an external call; a deadline that passes during it; bounds on entries and recoveries |
| Run scheduler, `run.ts` 235-575, 1545-1678 | the run in memory, its receipt | `runInto` and the embedding cells: passes over the cells, edges, skipping, fail edges, budgets, outcome | failures absorbed at another level than they were recorded at; budgets tested between steps of several levels; cells listed in any order |
| Effect attempts, `run.ts` | the effects of a receipt | attempts with journal, deadline, retries, suspension | an answer that comes after its deadline |
| Receipts, `verify.ts`, `replay.ts` | none | verify a receipt, resume from it | a continuation must be tied to the receipt before it |
| Mailbox (files), `mailbox.ts` | capability records, message claims, pending and consumed markers, a plain lock file | create, send, receive, `hasPending`, revoke | claim and marker are two writes; repeated sends; a capability checked outside the lock |
| Host event outbox, `host-events.ts` | per event: event, intent, delivered and cancelled markers; admission and delivery leases | `enqueue`, `cancel`, `deliverDue`, `poll`, `list` | readers without a lease; a race between cancel and delivery; an acknowledgement that is lost |
| Content store, `store.ts` | immutable values under their digests | get, put | written by link and rename; used as atomic and idempotent |
| Application lifecycle, `application-core.ts`, `application-filesystem.ts`, `application-drain.ts` | `head.json`, `operations/<op>.json`, `outbox/<intent>.json`; a creation, a pending and an application lease | `commit`, `dispatchPending`, `reconcileDispatch`, `history` | operation record, head and external dispatch are separate writes; the custody changes when the first head appears; history is checked against an outbox that went on since |
| Habitat schedules, `habitat-schedule.ts`, `habitat-budget.ts` | `journal.json`, `runs/<n>.json`, stored receipts; the account of one invocation | open a journal, serve, run, refuse, charge, close the record | nothing locks a journal; a stopped schedule resumes from it; the parser must derive the turns again |
| Habitat links, `habitat-link*.ts` | invocations and acceptances of two habitats | invoke, accept, reconcile, reply | lost acknowledgements and restarts on either side |
| Coding jobs, `coding-jobs.ts`, `coding-operations.ts` | admission, intent, workspace claim, started, observations, settlement, result, resolution | `prepare`, `run`, `reconcile`, `inspect` | an external agent whose answer is lost, late or old, and a workspace it may still be writing |
| Compiler, language, schemas, expressions, envelopes, bundles, search, reports, CLI | none that lasts | pure functions, batch drivers, I/O | not concurrent |
| Native port, `crates/algal` | the same files | the same operations in Rust | meets the TypeScript runtime on disk only |

`PROJECT.json` lists every component with its sources, what is modelled of it
and, where nothing is, why.

### How they interact

* Every mutation of a process, and of an event, runs inside a **custody lease**
  of its directory; creation and event admission take the lease of the parent
  directory. Nothing else orders two hosts.
* `tick` and `recover` take the lease, publish the **intent** (a `running`
  head), run the program with the **journal** as the run's effect seam, put the
  receipt into the **store** and publish the **outcome** head.
* A suspended process waits for a message; `schedule` asks the **mailbox**
  (`hasPending`) before it dispatches such a process, and the run then
  `receive`s. The two are separate operations with the mailbox's own lock.
* `deliverDue` of the **outbox** publishes an irrevocable intent and then
  `send`s to a mailbox with the intent's key; the mailbox's idempotent send is
  what makes the repetition safe.
* An **application** turns committed intents into dispatches to processes or
  mailboxes, which are outside its own files; a **coding job** turns a claim of
  a workspace into a request to an agent, a **habitat schedule** a turn into a
  run. All use the content store, the first two leases as above and the third
  none; each meets an outside that may have done what was asked when the answer
  is lost.

### What makes each component correct

* Lease: one operation inside a directory at a time, and the marker of every
  owner that died is on record before the next owner operates.
* Dispatch: an effect that is not a read is never repeated on a guess; what is
  published is only extended, in a form its own reader accepts; a recovery
  leads to the receipt the dispatch already has.
* Run: cells are settled as their edges say, whatever the order they are listed
  in; the receipt's outcome and failure are what the cells justify; no more is
  spent than the budgets and what was under way allow.
* Creation: names, claims and heads agree; an interrupted creation is resumed
  by repeating it or refused; limits hold under concurrency. (What it leaves
  among the names must not keep others from reading them: it may, section 5.)
* Schedule: dispatches neither overlap nor repeat; waiting processes are
  dispatched for a message only; a process that can run eventually does.
* Mailbox: a send that returned is delivered exactly once; a revoked capability
  has no effect after its revocation.
* Outbox: who wins between cancel and delivery is decided once; every intent
  ends in one delivery.
* Application: one linear history that its own reader accepts; an intent is
  dispatched at most once and never after it was abandoned; nothing is
  activated over work under way; an interrupted commit can be completed.
* Habitat schedule: whatever stops or overlaps, one journal leads to one record,
  which the record's own parser accepts.
* Coding job: one task at a time in a workspace, asked for once, settled once
  and only when it has ended; what is on disk is what `inspect` accepts.

`PROJECT.json` lists the hazards, each at its line, with the properties that
would catch them; those without a property say why.

## 2. Modules

| Module | Models | Role |
|---|---|---|
| `Custody` | what a lease promises | abstract |
| `HostLease` | `host-state.ts` 55-201 | implements `Custody` |
| `DurableProcess` | what `tick` and `recover` promise of one process | abstract |
| `ProcessDispatch` | `process.ts` tick, intent, outcome, recovery, history; `process-journal.ts`; effect attempts of `run.ts` | implements `DurableProcess`, composes supervisor, run and journal |
| `ProcessDispatchProofs` | | proofs about `ProcessDispatch` |
| `RunSweep` | `run.ts` runOrganism, runInto, embedding cells | the run that `ProcessDispatch` takes as a function of its answers |
| `Channel` | what a mailbox promises | abstract; instantiated by `Mailbox` and by `HostEvents` as its target |
| `Mailbox` | `mailbox.ts` create, send, receive, hasPending, revoke | implements `Channel` |
| `MailboxProofs` | | proofs about `Mailbox` |
| `HostEvents` | `host-events.ts`, with `Channel` as the mailbox it delivers to | composes outbox and mailbox |
| `HostEventsProofs` | | proofs about `HostEvents` |
| `ProcessCreation` | `process.ts` create and its interlock | |
| `ProcessCreationProofs` | | proofs about `ProcessCreation` |
| `Scheduler` | `process.ts` schedule, tick, with mailboxes, creation and recovery as they meet it | composes schedule, lease, head and mailbox |
| `SchedulingProofs` | | proofs about the two schedulers, `RunSweep` and `Scheduler` |
| `Lifecycle` | what the application service promises of one application | abstract |
| `ApplicationLifecycle` | `application-core.ts` commit, dispatchPending, reconcileDispatch, history; `application-filesystem.ts` custody; `application-drain.ts` | implements `Lifecycle` |
| `ApplicationLifecycleProofs` | | proofs about `ApplicationLifecycle` |
| `HabitatSchedule` | `habitat-schedule.ts` and, of `habitat-budget.ts`, the account | composes schedule, account, journal and parser |
| `LeaseAndHabitatProofs` | | proofs about `HostLease` and `HabitatSchedule` |
| `ExternalWork` | what a coding job promises about work outside | abstract |
| `CodingJobs` | `coding-jobs.ts` prepare, run, reconcile; `coding-operations.ts` | implements `ExternalWork` |
| `CodingJobsProofs` | | proofs about `CodingJobs` |
| `MC*` | | constants and symmetry for TLC |

Layering: `HostLease` shows what a lease is; the modules above it take "one
holder, freed when the holder's process ends" as the meaning of a lease, which
is what `Custody` says. In the same way `Mailbox` shows `Channel`, and
`HostEvents` uses `Channel`.

Every definition that stands for code has a row in `PROJECT.json`'s `map`. The
operators commented `Mistake:` are not part of the model: each is a plausible
bug of one mapped definition, and is there to show that a property can fail.

### HostLease

`table` is the schema of `.owner.sqlite`, `txn` the runtime inside
`BEGIN IMMEDIATE`, `lock` the content of `.lock`, `owners` the archived
markers. `pc[a]` is the next file or database operation of runtime `a` inside
`acquire`/`hostLease`, `seen[a]` the marker it read (`previous`), `mine[a]` the
marker it published, `polls[a]` what is left of its retry. `Crash` frees the
transaction, as the operating system does, and leaves `.lock`. `IoError` is a
failed file operation at any step. Older runtimes are external: they create
`.lock` exclusively and unlink it, and an operator removes what they leave.
`unreleased` is a ghost: the markers published and not removed by their owner.

### ProcessDispatch

One process and the one worker that holds its lease. A run is a deterministic
function `Plan` of the answers it has had so far: the next effect, or the run's
outcome; a provider's retry is one more place of the plan. So a receipt is the
sequence of those answers. On disk are the `chain` of records behind the head,
and per intent the journal's `header`, its `entries`, the `recoveries` admitted
so far, and the receipts that were published (`runs`). Actions follow the order
of the code: `Inspect` (a scheduler's look before the lease), `Tick`,
`CreateJournal`, `SaveIntent`; the effect seam (`StartEffect`, `ReplayEffect`,
`RestartEffect`, `RefuseEffect`, `Invoke`, the deadlines, `Settle`,
`RecordAnswer`); `PublishReceipt`, `SaveOutcome`; `Recover`, whose attempt is
counted before it runs; `Crash` at any step; `Reconfigure`. A journal entry is a
value and then a head that names it; a value without its head is invisible to
every reader, so the head is the step. A mode is the number of recoveries a
journaled dispatch admits, or `Plain` for a host without a journal. `Mode(c)` are
the modes a host of configuration `c` ticks in, `Peers(c)` the configurations
that meet over one store, between which `Reconfigure` moves.

### RunSweep

One run of one manifest. `stack` holds the frames of the nested `runInto` calls
under way, the root's first: the status of each cell and edge, the cell the pass
has come to (`at`), whether the pass settled anything (`moved`, the code's
`progress`) and, of an embedding cell, the runs of its child still to come.
`failure`, `suspended`, `steps` and `units` are the `ctx` all levels share.
Actions: `PassOver`, `ResolveEdge` and `GuardFails` (one edge each, as budgets
are tested between them), `Skip`, `OutOfSteps`, `Activate`, `Abort` (a poisoned
journal), `PassAgain`, `Return`. `Conclude` is the end of an activation, wherever
it comes from. What a cell computes is reduced to how its activation ends and
what it costs, a value to whether its edge delivers; an embedding cell runs its
child a number of times (`organism` and `spawn` once, `repeat` and `each` per
round and element) and may itself refuse what it is given or what it would hand
out. The constant `Manifest` holds the manifests there are, children among them;
`Compiled` is what the compiler admits of one (`graph.ts`): its edges join its
cells and make no cycle. Not kept: values, interfaces, the records of the receipt, the agent-call
and byte bounds (they are failures of one activation).

### Mailbox and Channel

`Channel` has `Post`, `Take` and `Revoke`. `Mailbox` has the lock file, the
capability records, the config, claims, pending and consumed markers, and one
step per file operation: resolve without the lock, lock, resolve again, claim,
marker, rename, unlock; a failed operation runs the `finally` block, a death
leaves the lock file until an operator removes it. `Create`, `WriteRecord` and
`WriteConfig` are a creation under the admission lease; `Nonce` is what makes
the capabilities of one creation differ from those of another.

### HostEvents

Per event the four files of `publish`; per worker the operation under way, the
snapshot read so far (one file per step, in the code's order) and the lease.
`Fail` ends an operation between any two files. `Legacy` are the events with a
lock file of an older version, which no lease gets past. The clock is read, not
advanced: each reading may be anything in `0..MaxTime`, also earlier than the
one before (`Date.now`).

### ProcessCreation

The interlock (`processes/.lock` and its database mutex), the archive of
abandoned markers with its bound, directories, claims and heads of a few names,
and an older runtime that creates under the same pathname. The interlock is
written by `hostWrite` in three steps: `Occupy` puts a scratch file beside
`.lock`, `Link` links it there and `Unscratch` removes it. That directory is the
one whose entries `names()` takes for processes, so a scratch file that a death
or a failed removal leaves (`strays`) stays, and `Admit`, which begins with
`names()`, refuses everything from then on. Readers that hold no interlock
(`list`, `schedule`) meet the file while it is written, too; a creator holds the
interlock, so it does not. `Dispatch` stands for a created process that goes its
way.

### Scheduler

A few names, each with a head (generation and status), a lease and a mailbox's
answer to `hasPending`, and, among the names, perhaps a creation's scratch file
(`strays`, which `WriteScratch` and `RemoveScratch` come and go with): `Begin` is
`names()`, which throws at it. A host makes a pass (`Begin`, `Visit`, `TakeLease`,
`Check`, `Probe`, `Save`, `Finish`) or a `TickByHand`; a pass ends at the first
exception, which is what `schedule` does. A dispatch is two steps here because
`ProcessDispatch` models it in full.

### ApplicationLifecycle and Lifecycle

One application. The digest of a state covers the state before it, so a state is
its chain of commands, and `head` is the chain `head.json` names. `ops` and
`outbox` are the two directories of records. A call goes `Scan` (under the shared
creation lease, which callers wait for; it counts the applications of the
namespace, `own` and `others`, and chooses the `room`, the lease the call will run
under), `TakeLease` (which refuses at once) and then through the code:
`CheckCommit`, `Prepare`, `Publish`; `Select`, `Deny` or `Start`, `Ask`,
`Record`; or `Reconcile`. `Readable` is what `history` checks, the drains
against the outbox of the moment included. `calls` is a ghost: how often an
intent's dispatcher was called. A caller names the head it expects by a digest
(`Expected`), which need not have been published yet; so a commit that looked at
the namespace before the first head and waited may work under the pending lease
when others already work under the application's. The ghost `overtaken` says that
this has happened: that such a `Late` commit was let in on a state of the
application while another call worked. Command kinds that the modelled checks treat
alike are one kind (`memory` stands for `investigate` and `propose` too, `migrate`
and `activate` for themselves, `restore` is an `activate`). Of the quota ledger there is the number of
applications (`Charged`) and the lease under which publications wait for each
other (`Free`); its bytes, plans and the trusted host's admission refuse, which is
`Fail`. `Lifecycle` has a log of
commands and, per intent, one fate.

### HabitatSchedule

Invocations of one schedule over one journal. An activity is a function `Plan` of
the receipts it was given: between two of its runs it touches nothing that others
see. `turns`, `charged`, `last`, `refused` and `ended` are the memory of an
invocation; `header`, `journal` and `store` are on disk. `Serve` answers a run
from the journal, `Execute` runs it with any cost its manifest's ceilings admit
(work may overrun, attempts may not), `AppendEntry` journals it, `Refuse` is a
refused reservation, `Close` writes the record if its own parser (`Accepts`,
which derives turns and sums again) takes it, `Interrupt` is a failed write or a
death. Nothing locks the journal. What an activity was given (`Given`) and what
the runs add up to (`Totals`) are recursive functions on a sequence of runs.

### CodingJobs and ExternalWork

Jobs of one host, their workspaces and the operation a job may name (v2). Each
record file of a job is a variable, and every write is a step. Outside, a request
may land late or never; the authority's records of an operation are numbered, and
a lookup may answer any of them (`Outcome`), also an older one. `asked` counts
requests, `log` holds the authority's records; a v1 job has no authority, only
an end. `Interrupted` stands for all that loses an answer: cancellation, the
deadline, output that cannot be read, a settlement that could not be kept.
`inspect` is read at once (`Status`). `ExternalWork` says that work is launched,
asked for and settled once each, one at a time in a workspace.

### Abstractions shared by all modules

* A file is read and written at once. `hostWrite` writes a scratch file, syncs
  it and links or renames it into place; `hostRead` reads one inode. What is
  between two files is always a step. The scratch file itself is modelled where a
  reader can trip over it, in `processes/` (`ProcessCreation`, `Scheduler`);
  readers of other directories pass it over (`host-state.ts` 93, `host-events.ts`
  169, `coding-jobs.ts` 1130, `process.ts` 704-718) or never list them.
* Digests are injective; parsing accepts what the program wrote.
* A lease is its holder in every module but `HostLease`.
* Contents (bodies, definitions, configurations, answers) are members of small
  sets; only what the code compares is kept.

## 3. Model checking

Times are for two workers. Every passing run covers its whole state space.

| Run | Configuration | Shows | Bounds, and why they are enough |
|---|---|---|---|
| `lease_custody` | `HostLease_custody.cfg` | `MutualExclusion`, `EvidenceRetained`, `MarkerIsMine`, `ImplementsCustody`, `Answered` | two current runtimes and an older one, three nonces, an archive of two, one poll. Every conflict is between two parties (the transaction admits one, the pathname one); three nonces fill the archive and meet its bound. 550 000 states, 1 min. For any number of parties: the proofs. |
| `dispatch_journal` | `ProcessDispatch_journal.cfg` | `NeverReissued`, `Reopenable`, `ReceiptMatchesJournal`, `HistoryAccepted`, `HistoryGrows`, `ImplementsDurable`, `RecoveryConverges` | a read, then a write; two generations (a suspension between them); one recovery; stale snapshots; three configurations, of which two journal and may be exchanged between a dispatch and its recovery, and one does not. The order read-write gives each kind both a completed and an unsettled neighbour. 440 000 states, 1 min |
| `dispatch_mixed` | `ProcessDispatch_mixed.cfg` | finding, section 5 | the same, but hosts with and without a journal share the store |
| `mailbox_safety` | `Mailbox_safety.cfg` | `CapabilitiesAdmitted`, `ClaimBinds`, `AcceptedKept`, `ImplementsChannel` | two clients, three keys, two bodies, room for two, two creations: two senders of one key, a full mailbox, a repeated send after consumption, a creation that dies and is repeated. 2 400 000 states, 2.5 min |
| `events_outbox` | `HostEvents_outbox.cfg` | `NoFalseAlarm`, `AnswersHold`, `PostedAsAdmitted`, `IntentDelivered` | two workers, two events, the second behind a legacy lock, due now or later, a mailbox of one, a failure at any step, revocation; two contents, of which the clock lets one be admitted and the other is what a wrong message would carry. 460 000 states, 1.5 min |
| `creation` | `ProcessCreation_creation.cfg` | `CreationExclusive`, `ClaimsKept`, `NeverRewound`, `InterruptedResumes` | two creators and an older runtime, two names for a store of one, two definitions, two nonces, an archive of one, two failures, at any step of `hostWrite` too: one of them can leave the scratch file, the other an abandoned interlock or a half made process. 220 000 states, 2.5 min |
| `scheduler_passes` | `Scheduler_passes.cfg` | `WokenByMessage`, `NeverTakenBack`, `EligibleDispatched` | two hosts, two names, two generations (so that a process waits and is woken), a failure, passes of one dispatch, a scratch file that comes and goes. 680 000 states, 2.5 min |
| `scheduler_blocked` | `Scheduler_blocked.cfg` | finding, section 5 | one host, two names |
| `application_commits` | `ApplicationLifecycle_commits.cfg` | `HistoryReadable`, `DispatchedOnce`, `ImplementsLifecycle`, `PreparedResolves` | two callers, a genesis with work, a migration that abandons it, and a third operation that callers understand in two ways (more work, an activation); no head or the genesis as the expected one, whether or not it is published; room for two states and prepared operations, two pending intents and two applications; a failure between any two steps. A history of two is what a drain needs to be read again after the outbox moved on; two callers are what two leases take; the second application fills the namespace behind a genesis that died. 330 000 states, 2 min. Histories of three, and migrated work that is later dispatched, are in the proofs only |
| `habitat_journal` | `HabitatSchedule_journal.cfg` | `RecordAccepted`, `RecordsAgree`, `ScheduleFinishes` | two invocations, three activities (one asks by what its first run cost, one always twice, one fails of itself after a dear run), a budget that refuses and one that does not, a failure. Three activities make a turn wrap around |
| `coding_workspace` | `CodingJobs_workspace.cfg` | `EvidenceReadable`, `ImplementsWork`, `OperationsResolve` | two processes, three jobs of one workspace (two name one operation, one none), two observations, two records of the authority (an earlier and a later), a death at any write. 390 000 states, 1.5 min |
| `sweep_manifests` | `RunSweep_manifests.cfg` | `FollowsEdges`, `OutcomeJustified`, `SpendBounded` | five shapes in every order of their cells: two guarded branches that join, a cell with two required inputs of which one may stay empty, three failures one cell recovers from, a child run up to twice whose failure is recovered from, a child of a child recovered from at one level, at both or at none; ample budgets and ones that run out of steps, work or depth; an activation costs one unit or three, a guard one. Two levels of nesting are what an absorbed failure needs to be recorded deeper than it is handled; three failures are what spending past an unchecked budget needs; what a manifest embeds is also run by itself. 160 000 states, 10 s |

For every property there is a mutant in `PROJECT.json`: one mapped definition
replaced by its `Mistake`, with which TLC finds the property violated. Type
invariants (`TypeOK`, or `PassesTypeOK` and `HabitatTypeOK`) and `OwnersBounded`
are stated for the proofs and for readers; they are in no run of their own, and
proved. Every safety property of the passing runs is proved too (section 4).

**Bounds in guards.** `MaxOwners`, `MaxMessages`, `MaxEvents`, `MaxProcesses`,
`MaxArchived`, `MaxApplications`, `MaxTicks`, `MaxEntries` and the recoveries of a mode are limits
of the code, made small so that they are met. `MaxPolls` is a deadline.
`MaxGenerations` is also the code's limit (64 there). `MaxFaults`, `MaxTime`,
`Horizon` and the number of nonces only bound the search: they limit how much
goes wrong, how the clock reads and how often a marker is made.

**Deadlock** is checked everywhere except in `mailbox_safety`, where once both
capabilities are revoked nothing is left to do with a mailbox, and in
`sweep_manifests`, where a run ends; that it does not end `stuck` is part of
`OutcomeJustified` (manifests are acyclic, `graph.ts` 695).

**Symmetry** permutes clients, bodies and nonces in `mailbox_safety`, which the
specification treats alike; the other runs have a liveness property, or nothing
to permute.

### Fairness

* `HostLease`: weak fairness of each live runtime's next step. A runtime that
  began to acquire goes on; nothing obliges anybody to call, an old runtime to
  finish or an operator to reconcile.
* `ProcessDispatch`: weak fairness of the worker's step, and of `Recover`: an
  operator (or `recover --all`) keeps recovering what is admitted. A crash is
  never obliged and bounded only by the recoveries the mode admits.
* `HostEvents`: weak fairness of a worker's step; strong fairness of beginning a
  pass, which is what `poll` does at every interval; the receiving process
  keeps receiving, an assumption on the environment without which a full
  mailbox stays full.
* `ProcessCreation`: weak fairness of the creator's steps, and that whoever was
  interrupted repeats the exact creation. `InterruptedResumes` has two ends
  besides completion, both of the code: a full archive, and a scratch file left
  among the names (section 5).
* `Scheduler`: weak fairness of a host's step and strong fairness of beginning a
  pass. `EligibleDispatched` has the premise that from some time on no name
  before the process is in the way (`Clear`), no scratch file is among the names
  and only passes run (`OnlyPasses`); section 5 shows what happens without the
  first two.
* `ApplicationLifecycle`, `CodingJobs`: their leases refuse at once, so two
  callers can refuse each other for ever and no fairness of the code excludes it.
  The liveness properties are about a `Survivor` that is in the end left alone
  (`Undisturbed`): weak fairness of its steps, and strong fairness of repeating
  the interrupted commit, or of reconciling the operation and of an authority
  that sometimes answers with what it knows last.
* `HabitatSchedule`: weak fairness of an invocation's steps and strong fairness
  of invoking the schedule again.

## 4. Proofs

The eight modules whose names end in `Proofs` are checked by TLAPS for every
value of the constants: any number of runtimes, clients, names, keys, events,
jobs, activities or manifests, any bound, any number of failures. Two of them hold
the proofs of two components each; `Scheduler` and `HabitatSchedule` name their
specifications apart from the other's for that (`PassesSpec`, `HabitatSpec`). What
the proofs assume is stated in the modules and evaluated by TLC on every run:

* bounds are natural numbers, names and keys are ordered as natural numbers are,
  current and older runtimes differ;
* the value that stands for "none" is none of the values it is told apart from
  (`NoneAssumption` of `ApplicationLifecycle`, `HostEvents` and `RunSweep`,
  `CodingRecords`, `AbsentAssumption`, `HabitatNone`), which in the code is a missing file or `undefined`;
* of `RunSweep`: the manifests are compiled ones and so are those they embed
  (`ManifestAssumption`), which is what `compileWithBudget` rejects otherwise;
  and some activation is the dearest (`CostAssumption`), as bytes, tools and
  fuel are bounded.

Two theorems have a hypothesis, which their statement shows (`Agreed`, below);
three properties of applications except what follows an overlap of custody
(`overtaken`, below), in the runs as in the theorems.

**HostLease.** `TypeCorrect`, `Exclusion`, `Evidence`, `OwnMarker`,
`EvidenceBound`, `Refinement`. None of the safety invariants is inductive. The
inductive invariant is

    IInv == TypeOK /\ TxnInv /\ StaleInv /\ MineInv /\ LockInv /\ EvidenceRetained

* `TxnInv`: whoever is past `BEGIN IMMEDIATE` is the one `txn` names, so at most
  one runtime is between `read` and `rollback`.
* `StaleInv`: what that runtime read (`seen`) is still what `.lock` holds while
  it archives and unlinks it. An older runtime cannot create the file while it
  exists; this is why the unchecked unlink of `UnlinkStale` is safe.
* `MineInv`: a published marker stays in place, and off the record, until its
  owner removes it.
* `LockInv`: a nonce in `.lock` is an unreleased one; while an older runtime is
  inside, `.lock` holds its marker, and it is alone.
* `EvidenceRetained`: needed for itself, with `StaleInv`, when the stale marker
  is unlinked.

Exclusion follows from `TxnInv`, `MineInv` and `LockInv`; the refinement maps
the steps `Publish`, `CompareMarker`-to-idle, `Crash` and the older runtime's
to `Custody`'s, and everything else to a stutter.

**ProcessDispatch.** `TypeCorrect`, `AtMostOnce` (`NeverReissued`),
`HistoryOnlyGrows` (`HistoryGrows`), `AcceptedByItsReader` (`HistoryAccepted`),
`JournalsReopen` (`Reopenable`), `OneReceipt` (`ReceiptMatchesJournal`) and
`Refinement` (`ImplementsDurable`): all of its safety. `TWInv`, type correctness
with what each step knows of its own variables, is in every invariant.

`AtMostOnce` and `OneReceipt` have the hypothesis `Agreed`: the hosts that
may meet over one store all journal, or none does. The finding of section 5 shows
that without it `NeverReissued` is false; the configurations of
`dispatch_journal` satisfy it, of either kind. The other theorems have no such
hypothesis, so they also hold where hosts differ.

    SafeInv == TWInv /\ Journaled /\ CallsInv /\ PassedInv /\ FreshInv /\ NeverReissued

is why a write is not repeated where hosts journal. Every call of the published
dispatch has an entry in its journal at its place (`CallsInv`); the entries the
worker has passed lie before where it is (`PassedInv`); and whoever is about to
call an effect that is not a read finds no earlier call at that place
(`FreshInv`). A new entry is made only behind the last one, so its place has no
entry and, by `CallsInv`, no call; an existing one is restarted only for a read.
Where no host journals, a dispatch that died is never run again, so every call
of the present dispatch is for fewer answers than the worker has now
(`PlainIInv`).

    SpanIInv    == TWInv /\ HistoryAccepted /\ SpanInv
    OpenIInv    == TWInv /\ Reopenable /\ LadderInv
    ReceiptIInv == SpanIInv /\ ReceiptMatchesJournal /\ ModeInv /\ PlaceInv /\ ReceiptInv

`SpanInv`: what the worker was answered begins with the answers the published
head settled, and no suspension is inside it; so what it publishes continues what
is published, which is both what the reader tests and the step of the abstract
process. `LadderInv`: entries behind the worker are settled, those before it were
not started again in the present recovery; so at most the last entry is unsettled
and its attempt is one that was admitted. `PlaceInv` and `ReceiptInv`: the worker's answers
are, entry by entry, what its journal holds, and a receipt goes exactly as far as
a settled journal; the run being a function of its answers, a second receipt of
one dispatch is the first one.

**ProcessCreation.** `CreationTypes`, `OneCreation` (`CreationExclusive`),
`ClaimsStayKept` (`ClaimsKept`) and `CreationKeepsHeads` (`NeverRewound`).
The inductive invariant is

    IInv == TWInv /\ CustodyInv /\ InterlockInv /\ AdmittedInv /\ StoreInv

Whoever is past the acquisition is the custody's holder (`CustodyInv`), so the
marker in the interlock is its own, a dead creator's that it is about to archive,
or an older runtime's, which is then alone (`InterlockInv`). Hence nobody else
changes the store while a creator is inside, and what `Admit` found, room for the
name, no head, or the marker of the exact record, still holds when the creator
writes (`AdmittedInv`). Without it the store's invariant is not inductive: a
directory could be made past the bound, or a head published twice.

**Mailbox.** `MailboxTypes`, `CreationUsable` (`CapabilitiesAdmitted`),
`ClaimsBind` (`ClaimBinds`), `AcceptedStays` (`AcceptedKept`) and
`MailboxIsChannel` (`ImplementsChannel`). The inductive invariant is

    IInv == TWInv /\ LockInv /\ RecordsInv /\ OperationInv /\ ClaimBinds /\ AcceptedKept

Whoever works on the messages is the one whose lock file is there (`LockInv`); a
creation writes the config behind its records (`RecordsInv`). `OperationInv` is
what the holder of the lock knows at each of its steps: that its capability is
not revoked, that the claim is its own before it writes the marker, that the key
has no marker and there is room before it delivers, that the answer it is about
to give is on disk. None of it can be disturbed, because only the holder changes
messages or revocations (`OthersKnow`). In the refinement `WritePending` is the
channel's `Post`, `Consume` its `Take`, `WriteRevoked` its `Revoke`, and every
other step a stutter.

**HostEvents.** `TypeCorrect`, `SnapshotsTrusted` (`NoFalseAlarm`),
`CancelAnswersHold` (`AnswersHold`) and `DeliveredAsAdmitted`
(`PostedAsAdmitted`). The inductive invariant is

    IInv == TInv /\ PlaceInv /\ DiskInv /\ LeaseInv /\ SnapshotInv /\ ToldInv

Files only appear, so what a snapshot saw is there (`SnapshotInv`); it reads
`delivered` before `sending`, and a delivery has its intent on disk before it
(`DiskInv`), so a snapshot that saw the one sees the other. Whoever decides
holds the lease, so that neither of cancel and intent appeared since it looked
(`LeaseInv`): that is why an answer (`ToldInv`) stays true.

**ApplicationLifecycle.** `TypeCorrect`, `HistoryStaysReadable`
(`HistoryReadable`), `AskedOnce` (`DispatchedOnce`) and `Refinement`
(`ImplementsLifecycle`), for whatever heads callers expect. The inductive
invariant is

    Base == TypeOK /\ CustodyInv /\ CallInv /\ RoomInv /\ RowInv /\ CallsInv
    IInv == Base /\ (overtaken = 0 => WorkInv /\ HistoryInv)

Custody is under three leases, so two calls may work at once. `RoomInv` says
which: whoever serves under the creation lease keeps everyone out of the
application's own, and under the pending lease there is one commit, a genesis or a
late one. Beside a genesis there is no history, so nothing to serve; and a late
commit does no harm while nobody else works. So far, what a call established stays
true until it acts on it (`WorkInv`), and the outbox holds only live work of the
history (`HistoryInv`). Both are lost when a late
commit works beside another call, and with them readability, the dispatch of
abandoned work and the steps of `Lifecycle`; the theorems say so much and no
more. What is proved without that exception is that an intent is asked for at most
once (`RowInv`, `CallsInv`): the first record of a dispatch is immutable, and its
`started` is published before the call, whatever the leases are. Readability is not inductive
without the latter: an abandoned intent could be dispatched and contradict the drain
that abandoned it.

**CodingJobs.** `TypeCorrect`, `EvidenceStaysReadable` (`EvidenceReadable`) and
`Refinement` (`ImplementsWork`). The inductive invariant is

    IInv == TypeOK /\ CustodyInv /\ OutsideInv /\ LaunchInv /\ EvidenceReadable
            /\ EndedInv /\ ClaimInv /\ WorkInv

Work outside may go on after the process that asked for it is dead, so exclusion
in a workspace rests on the claim, not on a lease: whatever runs or may still
run has it (`ClaimInv`), and a claim is taken over only from a job with a record
that its work has ended, which is true outside (`EndedInv`, `OutsideInv`).
`WorkInv` is what a process found or wrote at each of its steps.

**RunSweep.** `TypeCorrect`, `SettledByEdges` (`FollowsEdges`),
`OutcomeAccounted` (`OutcomeJustified`) and `SpendingBounded` (`SpendBounded`),
for manifests of any shape nested to any depth. The inductive invariant is

    RunInv == SweepInv /\ BlameInv /\ WaitInv /\ SpendInv /\ OutcomeJustified

All levels share one `failure`. It remains one account because whatever fails for
good or suspends ends the last run only, while the cells above it are still being
activated (`SweepInv`, which also has that each resolved edge says what its
producer's end makes it say). So a recorded failure lies along the runs under
way, and no level below the last of them handled it (`BlameInv`); when it is
returned, the embedding cell either absorbs it or is one more level that does
not. Work goes past the budget only by what these cells cost, one activation a
level, until the next test (`SpendInv`). A pass that settles nothing leaves only
cells that wait for a producer (`WaitInv`); were there any at the end, each would
wait for another of them, which `Compiled` excludes: no run ends stuck.
`OutcomeJustified` is about the receipt only, and follows at the step that ends
the root's run.

**Scheduler.** `PassTypes`, `OnlyMailWakes` (`WokenByMessage`) and `NoTakingBack`
(`NeverTakenBack`). The inductive invariant is

    PassInv == PassesTypeOK /\ HostInv /\ RungInv

A pass looks at a head twice, before the lease and under it, and goes by the
second look. `HostInv`: from `TakeLease` on the lease is the host's, and what it
read under it is what is published until it publishes itself; so a generation is
saved behind the one it was dispatched from, and terminal work never. `RungInv`:
mail that is there for a waiting process was there when it began to wait or came
since (`rung`), and a pass past its probe has found some. Another host's dispatch
and a recovery are excluded by the lease. Senders, receivers and revocations are
not, and the mail a probe saw may be gone when the process is dispatched; what
stays is that it came, for only the dispatch itself makes that past.

**HabitatSchedule.** `HabitatTypes`, `ParserAccepts` (`RecordAccepted`) and
`OneRecord` (`RecordsAgree`), for any number of activities, whatever they ask for,
and any budgets. The inductive invariant is

    HabitatInv == HabitatTypeOK /\ JournalInv /\ RecordInv /\ MemoryInv

What a schedule does next is a function of the runs so far and of the budget; only
the cost of a run is open. A `Path` is a sequence of runs each of which was granted
after those before it. The journal is one (`JournalInv`), and so are the runs of
every invocation, which begin the journal or go one run beyond it (`MemoryInv`):
two invocations that execute the same run at different costs meet at the entry,
and one is stopped. Where a path is blocked, because nobody asks or the budget
refuses who is next, nothing is appended, so the journal stays what it is and the
one record there can be is its `Conclusion` (`RecordInv`). That the parser accepts
it needs `Ordered`: who waits after some of the runs is exactly who has a run later
or is refused in the end, for a run gives nothing to the other activities, whose
request therefore stays. This is how the parser, which sees no requests, comes to
the same turns.

`Given` and `Totals` are recursive functions. That they have values, and satisfy
their equations for every sequence, is proved from the least-number principle
(`UpFrom`, `Carried`): a table of the values so far can be extended by one entry.
What is general in this argument is first-order, so no induction theorem with an
operator parameter is needed.

**Only model-checked** are the liveness properties (`Answered`,
`RecoveryConverges`, `IntentDelivered`, `InterruptedResumes`, `EligibleDispatched`,
`PreparedResolves`, `ScheduleFinishes`, `OperationsResolve`), which are outside of
what TLAPS's backends do with fairness and `ENABLED`. That a run never ends stuck,
which is safety, is proved (`OutcomeJustified`); that it ends is not stated.

## 5. What the model found

* **A journaled and an unjournaled host over one intent** (`dispatch_mixed`).
  `docs` and code promise that uncertain work is never repeated
  (`spec/v1/process-journal.md` 127, `process.ts` 2). The journal header is
  written (`process.ts` 951) before the intent head (953) and is keyed by a
  digest that does not say whether the dispatch is journaled. A journaled tick
  that dies between the two leaves an empty journal; a host without a journal
  then publishes the same intent, calls a write and dies; `recover` opens the
  empty journal and calls the write again.
* **One name stops every pass** (`scheduler_blocked`). `schedule` is said to
  visit names in order and dispatch what is ready (`spec/v1/process.md`
  124-126). A pass ends with an exception at the first thing it cannot read, and
  every later pass ends there too. The run finds the shortest case: a creation
  that dies inside `hostWrite(processes/.lock)` (`process.ts` 525, `host-state.ts`
  65-81) leaves `processes/.tmp-<48 hex>`, and `names()` throws at any entry but
  `.lock` that is no directory (612-617), before it has looked at a single
  process. Nothing removes the file, so from then on no pass dispatches anything,
  and `create`, its repetition and `list` fail as well (`ProcessCreation`'s
  `strays`); everywhere else such a file is passed over (`host-state.ts` 93). The
  model has two more ends of a pass that violate the property by themselves, for
  the processes that sort after it: a name whose creation died before its head
  (747-748), and a waiting process whose receive capability was revoked (909).

Met while modelling, and stated in the properties as exceptions rather than as
runs of their own; each was confirmed by checking the property without its
exception, which TLC then finds violated:

* *Scratch file of a creation* (`process.ts` 525, 612-617, 672), as above. An
  interrupted creation is said to be recoverable by repeating it (`process.ts`
  684-686). `InterruptedResumes` and `EligibleDispatched` hold but for a scratch
  file among the names.
* *A lease chosen too early* (`application-filesystem.ts` 44-51). `custody` looks
  for a head once and then waits for the lease it chose. `commit` always asks for
  custody as creating (`application-core.ts` 417) and may expect any head (107-112),
  also one that its caller knows is about to be published. Such a commit keeps the
  pending lease when the head has appeared, and works beside a call under the
  application's lease, though `application-storage.ts` 27-30 has custody exclusive.
  Two commits can then both find the expected head and publish, one over the
  other's state, and a drain can abandon an intent that `dispatchPending` is
  starting, after which the history does not read. `HistoryReadable`, the part of
  `DispatchedOnce` about abandoned intents and `ImplementsLifecycle` hold until
  this has happened (`overtaken`); that no intent is asked for twice holds always.
* *A genesis interrupted at the limit* (`application-filesystem.ts` 46). The count
  of applications includes the directory the interrupted genesis left, so at the
  limit every repetition is refused, though `spec/v1/application.md` 32-34 says
  that an interrupted caller can retry the same operation, and
  `MemoryApplicationStorage` excepts the name itself (`application-storage.ts` 83).
  `PreparedResolves` holds but for a namespace that is full before the first head.
* *Skipping* (`run.ts` 428-461). `spec/v1/organism.md` 823 has a cell skipped
  where every required input, or all of them, resolved empty; the code skips it
  where any required one did. `FollowsEdges` has the code's rule, and `Join` in
  `MCRunSweep` is a cell where the two differ: with the specification's wording
  the run fails.

Met while reading, not modelled:

* *Contention evidence* (`application-contention.ts` 167) is verified against
  later history. A rejected attempt was never prepared, so its operation can be
  committed on the new head; the retained record then stops verifying, though
  `docs/programmable-applications.md` 219 calls the losers' reasons reproducible.
* *`inspect` of a coding job* (`coding-jobs.ts` 1216) reads its files one by one
  without a lease. A reader that is overtaken by the owner can find a result
  without the launch it read before, or a settlement without its observation,
  and report corruption; `spec/v1/coding-job.md` 65-67 describes inspecting while
  the owner is live.

## 6. Not modelled

* Everything pure (compiler, schemas, expressions, formatting, envelopes,
  bundles): no concurrency, no persistence, and a model would restate the code.
* The IndexedDB drivers of mailbox and outbox: the same operations inside one
  database transaction each, so none of the crash points remains.
* The native port: the same file contracts in Rust; on disk it is another actor
  of `HostLease`.
* Provider transports, GitHub, credentials, CLI: I/O.
* The habitat links: in the plan.
* Inside the modelled components: values, byte and agent-call bounds, the effect
  cache and receipt details of `run.ts`, `poll`'s interval and abort signal, contention evidence, the
  bytes of the applications' quota ledger, accounts without a schedule, the capture and
  verification of a coding workspace, and `inspect` as a reader of several files.

## 7. Plan

In order of importance; a module is checked before anything is proved of it.

1. `HabitatLink`: invoke, accept, reconcile and reply across two habitats, with
   lost acknowledgements.
2. Contention evidence and the bytes of the quota ledger in `ApplicationLifecycle`, `inspect`
   as a reader of several files in `CodingJobs`.
3. Accounts without a schedule, resumed and verified from reports; the lemmas about
   `Totals` and `Path` serve there too.

## 8. Running it

    tlc -config HostLease_custody.cfg MCHostLease
    tlapm LeaseAndHabitatProofs.tla

and likewise for the other configurations, whose modules `PROJECT.json` names.
