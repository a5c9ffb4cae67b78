----------------------------- MODULE CodingJobs -----------------------------
(* Coding jobs (src/coding-jobs.ts, src/coding-operations.ts): jobs admit  *)
(* a workspace, claim it, and have an agent work in it outside.  An answer *)
(* that is lost leaves the job uncertain and the workspace claimed; jobs   *)
(* that name an operation (v2) are reconciled with the authority that      *)
(* keeps it, others (v1) never.  A workspace found dirty or changed, and a *)
(* count at its bound, are refusals, as Fail is; objects of the content    *)
(* store are written before the record that names them is taken as final.  *)
EXTENDS Integers, Sequences

CONSTANTS
    Client,          \* processes of the host
    Job, Place,      \* jobs, and the workspace of each
    Operation,       \* the operation a job names, or None: a v1 job
    Patch,           \* what a capture of a workspace can be
    MaxObservations, \* observations retained of a job
    MaxRevisions,    \* bound on the records of an authority
    MaxFaults,       \* deaths, refusals and failures admitted
    Survivor,        \* a process that may in the end be left alone
    None

ASSUME CodingBounds == MaxObservations \in Nat /\ MaxRevisions \in Nat /\ MaxFaults \in Nat
ASSUME CodingDistinct == None \notin Job /\ DOMAIN Place = Job /\ DOMAIN Operation = Job
ASSUME CodingSurvivor == Survivor \in Client

Ends == {"completed", "failed"}
State == {"unknown", "accepted"} \union Ends
Observation == [rev : Nat, state : State]
Verdict == [status : {"uncertain"} \union Ends, rev : Nat \union {None}, patch : Patch \union {None}]
ASSUME CodingRecords == None \notin Observation /\ None \notin Verdict

Workspace == {Place[j] : j \in Job}
Named == {Operation[j] : j \in Job} \ {None}

VARIABLES
    admission,  \* coding-operations/<key>.json: the job, or None
    intent,     \* jobs with an intent.json
    claim,      \* claim.json of each workspace: the job, or None
    started,    \* jobs with a started.json
    observed,   \* observations/<n>.json
    settlement, \* settlement.json, or None
    result,     \* result.json, or None
    resolution, \* resolution.json, or None
    asked, log, \* outside: requests for a job, and the authority's records
    pc, job,    \* where a process is, and in which job
    terminal,   \* the terminal record it will write
    faults

admitted == <<admission, intent>>
evidence == <<observed, settlement, result, resolution>>
disk == <<admitted, claim, started, evidence>>
outside == <<asked, log>>
vars == <<disk, outside, pc, job, terminal, faults>>

Location == {"idle", "admit", "reserve", "publish", "begin", "claim", "start", "submit", "await",
             "settle", "result", "reconsider", "observe", "resettle", "resolve"}

TypeOK ==
    /\ admission \in [Named -> Job \union {None}]
    /\ intent \subseteq Job /\ started \subseteq Job
    /\ claim \in [Workspace -> Job \union {None}]
    /\ observed \in [Job -> Seq(Observation)]
    /\ settlement \in [Job -> Verdict \union {None}]
    /\ result \in [Job -> Verdict \union {None}]
    /\ resolution \in [Job -> Verdict \union {None}]
    /\ asked \in [Job -> Nat] /\ log \in [Job -> Seq(State)]
    /\ pc \in [Client -> Location]
    /\ job \in [Client -> Job \union {None}]
    /\ terminal \in [Client -> Verdict \union {None}]
    /\ faults \in 0..MaxFaults

Init ==
    /\ admission = [o \in Named |-> None] /\ intent = {}
    /\ claim = [w \in Workspace |-> None] /\ started = {}
    /\ observed = [j \in Job |-> <<>>]
    /\ settlement = [j \in Job |-> None]
    /\ result = [j \in Job |-> None] /\ resolution = [j \in Job |-> None]
    /\ asked = [j \in Job |-> 0] /\ log = [j \in Job |-> <<>>]
    /\ pc = [c \in Client |-> "idle"]
    /\ job = [c \in Client |-> None]
    /\ terminal = [c \in Client |-> None]
    /\ faults = 0
-----------------------------------------------------------------------------
(* Outside.  A request may land late, or never.  The authority's records   *)
(* are numbered; it says of an operation that it does not know, that it    *)
(* accepted it, or, when all of it is settled, how it ended.  Of a v1 job  *)
(* nothing is kept but how it ended.                                       *)
V2(j) == Operation[j] # None
Ended(j) == log[j] # <<>> /\ log[j][Len(log[j])] \in Ends
Active == {j \in Job : asked[j] > 0 /\ ~ Ended(j)}

Outside(j) ==
    /\ j \in Active
    /\ \E state \in (IF ~ V2(j) THEN Ends
                     ELSE IF log[j] = <<>> THEN {"accepted"}
                     ELSE Ends \union (IF Len(log[j]) < MaxRevisions THEN {"unknown"} ELSE {})) :
          log' = [log EXCEPT ![j] = Append(@, state)]
    /\ UNCHANGED <<disk, asked, pc, job, terminal, faults>>

(* What a lookup may answer: the record of some revision, 0 for no record. *)
Outcome(j, r) == [rev |-> r, state |-> IF r = 0 THEN "unknown" ELSE log[j][r]]
-----------------------------------------------------------------------------
(* inspect.                                                                *)
Terminal(s, r, p) == [status |-> s, rev |-> r, patch |-> p]
Uncertain(r) == Terminal("uncertain", r, None)

Retained(j) == IF observed[j] = <<>> THEN None ELSE observed[j][Len(observed[j])]
Settling(j) == observed[j] # <<>> /\ Retained(j).state \in Ends

Final(j) == IF resolution[j] # None THEN resolution[j] ELSE result[j]
Status(j) ==
    IF j \notin intent THEN "none"
    ELSE IF j \notin started THEN "prepared"
    ELSE IF Final(j) = None THEN "uncertain" ELSE Final(j).status

(* assertWorkspaceClaim: a claim is let go when its job is settled, and by *)
(* the job itself.  Mistake: when an answer of its job is on record.       *)
Answered(j) == \A k \in {claim[Place[j]]} \ {None, j} : result[k] # None
MayClaim(j) == \A k \in {claim[Place[j]]} \ {None, j} : Status(k) \in Ends
-----------------------------------------------------------------------------
(* Leases.  All of them refuse at once, and end with their process.        *)
InJob == {"begin", "claim", "start", "submit", "await", "settle", "result",
          "reconsider", "observe", "resettle", "resolve"}
InWorkspace == {"admit", "reserve", "publish", "claim", "start", "submit", "await", "settle",
                "result", "observe", "resettle", "resolve"}
InJobs == {"reserve", "publish"}

JobFree(j) == \A d \in Client : pc[d] \in InJob => job[d] # j
WorkspaceFree(j) == \A d \in Client : pc[d] \in InWorkspace => Place[job[d]] # Place[j]
JobsFree == \A d \in Client : pc[d] \notin InJobs

Goto(c, l) == pc' = [pc EXCEPT ![c] = l]
Stay(c, l) == Goto(c, l) /\ UNCHANGED <<job, terminal>>
Return(c) ==
    /\ Goto(c, "idle")
    /\ job' = [job EXCEPT ![c] = None]
    /\ terminal' = [terminal EXCEPT ![c] = None]
Hold(c, t, l) == Goto(c, l) /\ terminal' = [terminal EXCEPT ![c] = t] /\ UNCHANGED job

Enter(c, j, l) ==
    /\ pc[c] = "idle"
    /\ job' = [job EXCEPT ![c] = j]
    /\ Goto(c, l)
    /\ UNCHANGED <<disk, outside, terminal, faults>>
Prepare(c, j) == WorkspaceFree(j) /\ Enter(c, j, "admit")
Run(c, j) == j \in intent /\ JobFree(j) /\ Enter(c, j, "begin")
Reconcile(c, j) == j \in intent /\ V2(j) /\ JobFree(j) /\ Enter(c, j, "reconsider")
-----------------------------------------------------------------------------
(* admit.                                                                  *)
Admit(c) ==
    /\ pc[c] = "admit"
    /\ IF MayClaim(job[c]) /\ JobsFree
       THEN Stay(c, IF V2(job[c]) THEN "reserve" ELSE "publish")
       ELSE Return(c)
    /\ UNCHANGED <<disk, outside, faults>>

(* An operation identity is bound to one job for good.                     *)
Reserve(c) ==
    /\ pc[c] = "reserve"
    /\ LET o == Operation[job[c]] IN
       IF admission[o] \in {None, job[c]}
       THEN admission' = [admission EXCEPT ![o] = job[c]] /\ Stay(c, "publish")
       ELSE Return(c) /\ UNCHANGED admission
    /\ UNCHANGED <<intent, claim, started, evidence, outside, faults>>

Publish(c) ==
    /\ pc[c] = "publish"
    /\ intent' = intent \union {job[c]}
    /\ Return(c)
    /\ UNCHANGED <<admission, claim, started, evidence, outside, faults>>
-----------------------------------------------------------------------------
(* run.                                                                    *)
Begin(c) ==
    /\ pc[c] = "begin"
    /\ IF Status(job[c]) = "prepared" /\ WorkspaceFree(job[c]) THEN Stay(c, "claim") ELSE Return(c)
    /\ UNCHANGED <<disk, outside, faults>>

Claim(c) ==
    /\ pc[c] = "claim"
    /\ IF MayClaim(job[c])
       THEN claim' = [claim EXCEPT ![Place[job[c]]] = job[c]] /\ Stay(c, "start")
       ELSE Return(c) /\ UNCHANGED claim
    /\ UNCHANGED <<admitted, started, evidence, outside, faults>>

Start(c) ==
    /\ pc[c] = "start"
    /\ started' = started \union {job[c]}
    /\ Stay(c, "submit")
    /\ UNCHANGED <<admitted, claim, evidence, outside, faults>>

Submit(c) ==
    /\ pc[c] = "submit"
    /\ asked' = [asked EXCEPT ![job[c]] = @ + 1]
    /\ Stay(c, "await")
    /\ UNCHANGED <<disk, log, faults>>

(* Cancelled before or after the request, late, not to be read, or not to  *)
(* be kept: a settlement may be reserved by then.                          *)
Interrupted(c) ==
    /\ \/ pc[c] \in {"submit", "await", "settle"}
       \/ pc[c] = "result" /\ V2(job[c]) /\ terminal[c].patch # None
    /\ Hold(c, Uncertain(None), "result")
    /\ UNCHANGED <<disk, outside, faults>>

(* v1: an envelope, of a task that has settled or not; it completed only   *)
(* if it did in time.  Files that cannot be captured are an interruption.  *)
Envelope(c) ==
    /\ pc[c] = "await" /\ ~ V2(job[c])
    /\ \/ Hold(c, Uncertain(None), "result")
       \/ /\ Ended(job[c])
          /\ \E s \in {"failed", log[job[c]][Len(log[job[c]])]}, p \in Patch :
                Hold(c, Terminal(s, None, p), "result")
    /\ UNCHANGED <<disk, outside, faults>>

(* v2, retainOperationOutcome: an outcome that does not contradict what is *)
(* retained is retained, once, while there is room.                        *)
Agrees(j, o) ==
    \A n \in 1..Len(observed[j]) :
        LET p == observed[j][n] IN
        /\ o.rev >= p.rev
        /\ o.rev = p.rev \/ p.state \in Ends => o = p
Retainable(j, o) == Agrees(j, o) /\ (o = Retained(j) \/ Len(observed[j]) < MaxObservations)
Retain(j, o) == observed' = [observed EXCEPT ![j] = IF o = Retained(j) THEN @ ELSE Append(@, o)]

Answer(c) ==
    LET j == job[c] IN
    /\ pc[c] = "await" /\ V2(j)
    /\ \E r \in 0..Len(log[j]) :
          /\ Retainable(j, Outcome(j, r))
          /\ Retain(j, Outcome(j, r))
    /\ Stay(c, "settle")
    /\ UNCHANGED <<admitted, claim, started, settlement, result, resolution, outside, faults>>

(* settleOperation: files that are not admitted make the job fail, and     *)
(* what was reserved once is used again.                                   *)
Captured(o) ==
    {Terminal("failed", o.rev, None)} \union {Terminal(o.state, o.rev, p) : p \in Patch}
Settlements(j) == IF settlement[j] # None THEN {settlement[j]} ELSE Captured(Retained(j))

(* Mistake: nothing is reserved before the result is written.              *)
SettleUnreserved(c, l) ==
    /\ \E t \in Settlements(job[c]) : Hold(c, t, l)
    /\ UNCHANGED <<admitted, claim, started, evidence, outside, faults>>
SettleAs(c, l) ==
    /\ \E t \in Settlements(job[c]) :
          /\ settlement' = [settlement EXCEPT ![job[c]] = t]
          /\ Hold(c, t, l)
    /\ UNCHANGED <<admitted, claim, started, observed, result, resolution, outside, faults>>

Settle(c) == pc[c] = "settle" /\ Settling(job[c]) /\ SettleAs(c, "result")
Unsettled(c) ==
    /\ pc[c] = "settle" /\ ~ Settling(job[c])
    /\ Hold(c, Uncertain(Retained(job[c]).rev), "result")
    /\ UNCHANGED <<disk, outside, faults>>

(* Immutable, as all of these records are.                                 *)
WriteResult(c) ==
    /\ pc[c] = "result"
    /\ result' = [result EXCEPT ![job[c]] = IF @ = None THEN terminal[c] ELSE @]
    /\ Return(c)
    /\ UNCHANGED <<admitted, claim, started, observed, settlement, resolution, outside, faults>>
-----------------------------------------------------------------------------
(* reconcile: of an uncertain job that still has its claim.                *)
Reconsider(c) ==
    LET j == job[c] IN
    /\ pc[c] = "reconsider"
    /\ IF Status(j) = "uncertain" /\ WorkspaceFree(j) /\ claim[Place[j]] = j
       THEN Stay(c, IF Settling(j) THEN "resettle" ELSE "observe")
       ELSE Return(c)
    /\ UNCHANGED <<disk, outside, faults>>

Observe(c, r) ==
    LET j == job[c] o == Outcome(j, r) IN
    /\ pc[c] = "observe"
    /\ IF Retainable(j, o)
       THEN Retain(j, o) /\ IF o.state \in Ends THEN Stay(c, "resettle") ELSE Return(c)
       ELSE Return(c) /\ UNCHANGED observed
    /\ UNCHANGED <<admitted, claim, started, settlement, result, resolution, outside, faults>>

Unanswered(c) == pc[c] = "observe" /\ Return(c) /\ UNCHANGED <<disk, outside, faults>>

Resettle(c) == pc[c] = "resettle" /\ SettleAs(c, "resolve")

(* Mistake: only a recorded uncertainty is resolved.                       *)
OpenOnRecord(j) == result[j] # None /\ result[j].status = "uncertain"
Open(j) == result[j] # None => result[j].status = "uncertain"
Resolve(c) ==
    LET j == job[c] IN
    /\ pc[c] = "resolve"
    /\ resolution' = [resolution EXCEPT ![j] = IF Open(j) /\ @ = None THEN terminal[c] ELSE @]
    /\ Return(c)
    /\ UNCHANGED <<admitted, claim, started, observed, settlement, result, outside, faults>>
-----------------------------------------------------------------------------
(* Something is refused or throws, or the process dies; the task outside   *)
(* goes on.                                                                *)
Fail(c) ==
    /\ pc[c] # "idle" /\ faults < MaxFaults
    /\ faults' = faults + 1
    /\ Return(c)
    /\ UNCHANGED <<disk, outside>>

Step(c) ==
    \/ Admit(c) \/ Reserve(c) \/ Publish(c)
    \/ Begin(c) \/ Claim(c) \/ Start(c) \/ Submit(c) \/ Interrupted(c) \/ Envelope(c) \/ Answer(c)
    \/ Settle(c) \/ Unsettled(c) \/ WriteResult(c)
    \/ Reconsider(c) \/ Unanswered(c) \/ Resettle(c) \/ Resolve(c)

Latest(c) == pc[c] = "observe" /\ Observe(c, Len(log[job[c]]))

Next ==
    \/ \E c \in Client :
          \/ \E j \in Job : Prepare(c, j) \/ Run(c, j) \/ Reconcile(c, j)
          \/ Step(c) \/ Fail(c)
          \/ pc[c] = "observe" /\ \E r \in 0..Len(log[job[c]]) : Observe(c, r)
    \/ \E j \in Job : Outside(j)

Spec == Init /\ [][Next]_vars

(* A call goes on, an operation is reconciled again and again, and the     *)
(* authority is not for ever silent or late.                               *)
FairSpec ==
    /\ Spec
    /\ WF_vars(Step(Survivor)) /\ SF_vars(Latest(Survivor))
    /\ \A j \in {k \in Job : V2(k)} : SF_vars(Reconcile(Survivor, j))
-----------------------------------------------------------------------------
(* Wherever a call died, what is on disk is what inspect accepts: no       *)
(* evidence without a launch, observations that agree, one settlement, of  *)
(* the last of them, and results that are that settlement or leave it open *)
(* (1214-1298, 1464-1527, 1573-1717).                                      *)
Consistent(j, t) ==
    /\ t.status \in Ends => t = settlement[j]
    /\ t.rev # None => \E n \in 1..Len(observed[j]) : observed[j][n].rev = t.rev
EvidenceReadable ==
    \A j \in Job :
        /\ j \notin started =>
              observed[j] = <<>> /\ settlement[j] = None /\ Final(j) = None
        /\ V2(j) =>
              /\ \A n \in 1..Len(observed[j]) : Agrees(j, Retained(j))
              /\ settlement[j] # None => Settling(j) /\ settlement[j] \in Captured(Retained(j))
              /\ result[j] # None => Consistent(j, result[j])
              /\ resolution[j] # None =>
                    Consistent(j, resolution[j]) /\ resolution[j].status \in Ends /\ Open(j)

(* An operation that was launched and has ended outside is settled by      *)
(* reconciling, however its first answer was lost, unless its observations *)
(* are used up, for a process that is in the end left alone (2014-2107).   *)
Undisturbed == <>[](\A c \in Client \ {Survivor} : pc[c] = "idle")
UsedUp(j) == Len(observed[j]) = MaxObservations /\ ~ Settling(j)
OperationsResolve ==
    Undisturbed => \A j \in {k \in Job : V2(k)} :
        (j \in started /\ Ended(j)) ~> (Status(j) \in Ends \/ UsedUp(j))

(* One task at a time in a workspace, each asked for once, and settled     *)
(* when it has ended.                                                      *)
Phase(j) == IF Status(j) = "uncertain" THEN "launched" ELSE Status(j)
Abstract == INSTANCE ExternalWork WITH phase <- [j \in Job |-> Phase(j)], active <- Active
ImplementsWork == Abstract!Spec
=============================================================================
