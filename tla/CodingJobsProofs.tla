-------------------------- MODULE CodingJobsProofs --------------------------
(***************************************************************************)
(* Proofs about CodingJobs, for any number of processes, jobs, workspaces  *)
(* and operations and any bounds.  The argument: a job's files are written *)
(* under its lease only and a claim under its workspace's, so each step    *)
(* finds what the one before it left; whatever is launched or still works  *)
(* outside holds its workspace's claim, and only a settled job, of which   *)
(* nothing works any more, is replaced in it.                              *)
(***************************************************************************)
EXTENDS CodingJobs, TLAPS

(* The leases exclude each other. *)
CustodyInv ==
    /\ \A c \in Client : pc[c] # "idle" => job[c] \in Job
    /\ \A c, d \in Client : c # d =>
          /\ pc[c] \in InJob /\ pc[d] \in InJob => job[c] # job[d]
          /\ pc[c] \in InWorkspace /\ pc[d] \in InWorkspace => Place[job[c]] # Place[job[d]]

(* Outside: asked for once, and over once the last record is an end. *)
OutsideInv ==
    \A j \in Job :
        /\ asked[j] \in {0, 1}
        /\ asked[j] = 0 => log[j] = <<>>
        /\ \A r \in 1..Len(log[j]) : log[j][r] \in Ends => r = Len(log[j])

(* Operations belong to jobs, and jobs are launched from their intent. *)
LaunchInv ==
    /\ \A j \in intent : V2(j) => admission[Operation[j]] = j
    /\ started \subseteq intent
    /\ \A j \in Job \ started : asked[j] = 0

(* What is on record has ended outside. *)
EndedInv ==
    \A j \in Job :
        /\ Settling(j) => Ended(j)
        /\ \A t \in {result[j], resolution[j]} \ {None} : t.status \in Ends => Ended(j)
        /\ resolution[j] # None => V2(j)

(* Whatever works or may still work in a workspace has its claim. *)
ClaimInv == \A j \in Job : Status(j) = "uncertain" \/ j \in Active => claim[Place[j]] = j

(* What a process that is at l, in job j, with the terminal record t, has  *)
(* found or done.                                                          *)
Running == {"submit", "await", "settle", "result"}
Resolving == {"observe", "resettle", "resolve"}
Work(l, j, t) ==
    /\ l \notin {"admit", "reserve", "publish"} => j \in intent
    /\ l = "reserve" => V2(j)
    /\ l = "publish" /\ V2(j) => admission[Operation[j]] = j
    /\ l \in {"claim", "start"} => j \notin started
    /\ l = "start" => claim[Place[j]] = j
    /\ l \in Running => j \in started /\ result[j] = None /\ resolution[j] = None
    /\ l = "submit" => asked[j] = 0
    /\ l = "settle" => V2(j) /\ observed[j] # <<>>
    /\ l \in {"reconsider"} \union Resolving => V2(j)
    /\ l \in Resolving => Status(j) = "uncertain"
    /\ l = "resettle" => Settling(j)
    /\ l \in {"result", "resolve"} =>
          /\ t \in Verdict
          /\ t.status \in Ends => Ended(j)
          /\ V2(j) => Consistent(j, t)
    /\ l = "resolve" => t.status \in Ends
WorkInv == \A c \in Client : pc[c] # "idle" => Work(pc[c], job[c], terminal[c])

IInv ==
    /\ TypeOK /\ CustodyInv /\ OutsideInv /\ LaunchInv /\ EvidenceReadable /\ EndedInv /\ ClaimInv
    /\ WorkInv
-----------------------------------------------------------------------------
(* Who moves in a step: one process, or the world outside. *)
Acts(c) ==
    \/ \E j \in Job : Prepare(c, j) \/ Run(c, j) \/ Reconcile(c, j)
    \/ Step(c) \/ Fail(c)
    \/ pc[c] = "observe" /\ \E r \in 0..Len(log[job[c]]) : Observe(c, r)

LEMMA SomeoneActs == Next => (\E c \in Client : Acts(c)) \/ \E j \in Job : Outside(j)
BY DEF Next, Acts

(* Records are what they are made of. *)
LEMMA VerdictType ==
    ASSUME NEW s \in {"uncertain"} \union Ends, NEW r \in Nat \union {None},
           NEW p \in Patch \union {None}
    PROVE  /\ Terminal(s, r, p) \in Verdict
           /\ Terminal(s, r, p).status = s /\ Terminal(s, r, p).rev = r
BY DEF Terminal, Verdict

LEMMA UncertainType ==
    ASSUME NEW r \in Nat \union {None}
    PROVE  /\ Uncertain(r) \in Verdict
           /\ Uncertain(r).status = "uncertain" /\ Uncertain(r).rev = r
BY DEF Uncertain, Terminal, Verdict

LEMMA NotAnEnd == "uncertain" \notin Ends /\ "unknown" \notin Ends /\ "accepted" \notin Ends
BY DEF Ends

(* What a lookup answers is an observation, and an end only of what ended. *)
LEMMA OutcomeFacts ==
    ASSUME IInv, NEW j \in Job, NEW r \in 0..Len(log[j])
    PROVE  /\ Outcome(j, r) \in Observation
           /\ Outcome(j, r).state \in Ends => Ended(j)
<1>1. log[j] \in Seq(State) BY DEF IInv, TypeOK
<1>2. r = 0 \/ (r \in 1..Len(log[j]) /\ log[j][r] \in State)
  BY <1>1
<1>3. Outcome(j, r) \in Observation
  BY <1>1, <1>2 DEF Outcome, Observation, State
<1>4. ASSUME Outcome(j, r).state \in Ends PROVE Ended(j)
  <2>1. r # 0 BY <1>4, NotAnEnd DEF Outcome
  <2>2. log[j][r] \in Ends BY <1>4, <2>1 DEF Outcome
  <2>3. r = Len(log[j]) BY <1>2, <2>1, <2>2 DEF IInv, OutsideInv
  <2>4. log[j] # <<>> BY <1>1, <2>1, <2>3
  <2>5. QED BY <2>2, <2>3, <2>4 DEF Ended
<1>5. QED BY <1>3, <1>4

(* A job that was started is not prepared. *)
LEMMA VerdictNotPrepared ==
    ASSUME TypeOK, NEW j \in Job, Status(j) = "prepared"
    PROVE  j \notin started
<1>1. SUFFICES ASSUME j \in started PROVE FALSE
  OBVIOUS
<1>2. Final(j) \in Verdict /\ Final(j).status = "prepared"
  BY <1>1 DEF Status, Final, TypeOK
<1>3. QED BY <1>2 DEF Verdict, Ends

(* The last observation. *)
LEMMA LastObservation ==
    ASSUME IInv, NEW j \in Job, observed[j] # <<>>
    PROVE  /\ Len(observed[j]) \in 1..Len(observed[j])
           /\ Retained(j) = observed[j][Len(observed[j])]
           /\ Retained(j) \in Observation
BY DEF IInv, TypeOK, Retained

(* What a settlement can be. *)
LEMMA SettlementFacts ==
    ASSUME IInv, NEW j \in Job, V2(j), Settling(j), NEW t \in Settlements(j)
    PROVE  /\ t \in Verdict /\ t.status \in Ends
           /\ t \in Captured(Retained(j)) /\ t.rev = Retained(j).rev
           /\ settlement[j] # None => t = settlement[j]
<1>1. Retained(j) \in Observation /\ Retained(j).state \in Ends
  BY LastObservation DEF Settling
<1>2. t \in Captured(Retained(j))
  BY DEF Settlements, IInv, EvidenceReadable
<1>3. Retained(j).rev \in Nat BY <1>1 DEF Observation
<1>4. "failed" \in Ends BY DEF Ends
<1>5. ASSUME t = Terminal("failed", Retained(j).rev, None)
      PROVE  t \in Verdict /\ t.status \in Ends /\ t.rev = Retained(j).rev
  <2>1. "failed" \in {"uncertain"} \union Ends /\ Retained(j).rev \in Nat \union {None}
        /\ None \in Patch \union {None}
    BY <1>3, <1>4
  <2>2. QED BY <1>4, <1>5, <2>1, VerdictType
<1>6. ASSUME NEW q \in Patch, t = Terminal(Retained(j).state, Retained(j).rev, q)
      PROVE  t \in Verdict /\ t.status \in Ends /\ t.rev = Retained(j).rev
  <2>1. Retained(j).state \in {"uncertain"} \union Ends /\ Retained(j).rev \in Nat \union {None}
        /\ q \in Patch \union {None}
    BY <1>1, <1>3
  <2>3. Terminal(Retained(j).state, Retained(j).rev, q) \in Verdict
    BY <2>1, VerdictType
  <2>2. QED BY <1>1, <1>6, <2>3 DEF Terminal
<1>7. t = Terminal("failed", Retained(j).rev, None)
      \/ \E q \in Patch : t = Terminal(Retained(j).state, Retained(j).rev, q)
  BY <1>2 DEF Captured
<1>8. settlement[j] # None => t = settlement[j]
  BY DEF Settlements
<1>9. t \in Verdict /\ t.status \in Ends /\ t.rev = Retained(j).rev
  BY <1>5, <1>6, <1>7
<1>10. QED BY <1>2, <1>8, <1>9

(* What retaining an outcome does to the observations of a job. *)
LEMMA Retaining ==
    ASSUME IInv, NEW j \in Job, NEW o \in Observation, V2(j), Retainable(j, o), Retain(j, o)
    PROVE  /\ observed' \in [Job -> Seq(Observation)]
           /\ observed'[j] # <<>> /\ Retained(j)' = o /\ Agrees(j, o)'
           /\ \A n \in 1..Len(observed[j]) :
                 n \in 1..Len(observed'[j]) /\ observed'[j][n] = observed[j][n]
           /\ Settling(j) => o = Retained(j)
           /\ \A k \in Job \ {j} : observed'[k] = observed[k]
<1>1. observed \in [Job -> Seq(Observation)] BY DEF IInv, TypeOK
<1>2. o # None BY CodingRecords
<1>3. Agrees(j, o) BY DEF Retainable
<1>4. CASE o = Retained(j)
  <2>1. observed' = observed BY <1>1, <1>4 DEF Retain
  <2>2. observed[j] # <<>> BY <1>2, <1>4 DEF Retained
  <2>3. QED BY <1>1, <1>3, <1>4, <2>1, <2>2 DEF Retained, Agrees
<1>5. CASE o # Retained(j)
  <2>1. observed' = [observed EXCEPT ![j] = Append(@, o)] BY <1>5 DEF Retain
  <2>2. observed'[j] = Append(observed[j], o) /\ observed' \in [Job -> Seq(Observation)]
    BY <1>1, <2>1
  <2>3. Len(observed'[j]) = Len(observed[j]) + 1 /\ observed'[j][Len(observed'[j])] = o
        /\ observed'[j] # <<>>
    <3>1. PICK s \in Seq(Observation) : s = observed[j] BY <1>1
    <3>2. /\ Len(Append(s, o)) = Len(s) + 1 /\ Append(s, o)[Len(s) + 1] = o
          /\ Append(s, o) # <<>>
      OBVIOUS
    <3>3. QED BY <2>2, <3>1, <3>2
  <2>4. \A n \in 1..Len(observed[j]) :
           n \in 1..Len(observed'[j]) /\ observed'[j][n] = observed[j][n]
    BY <1>1, <2>2, <2>3
  <2>5. Retained(j)' = o BY <2>3 DEF Retained
  <2>6. o.rev \in Nat BY DEF Observation
  <2>7. ASSUME NEW n \in 1..Len(observed'[j])
        PROVE  /\ o.rev >= observed'[j][n].rev
               /\ o.rev = observed'[j][n].rev \/ observed'[j][n].state \in Ends => o = observed'[j][n]
    <3>1. n \in 1..Len(observed[j]) \/ n = Len(observed'[j]) BY <1>1, <2>3
    <3>2. QED BY <1>3, <2>3, <2>4, <2>6, <3>1 DEF Agrees
  <2>8. Agrees(j, o)' BY <2>7 DEF Agrees
  <2>9. ~ Settling(j)
    <3>1. SUFFICES ASSUME Settling(j) PROVE FALSE OBVIOUS
    <3>2. Len(observed[j]) \in 1..Len(observed[j]) /\ Retained(j) = observed[j][Len(observed[j])]
      BY <3>1, LastObservation DEF Settling
    <3>3. observed[j][Len(observed[j])].state \in Ends BY <3>1, <3>2 DEF Settling
    <3>4. o = Retained(j) BY <1>3, <3>2, <3>3 DEF Agrees
    <3>5. QED BY <1>5, <3>4
  <2>10. QED BY <1>1, <2>1, <2>2, <2>3, <2>4, <2>5, <2>8, <2>9
<1>6. QED BY <1>4, <1>5

LEMMA InitIInv == Init => IInv
<1> SUFFICES ASSUME Init PROVE IInv
  OBVIOUS
<1>1. TypeOK BY CodingBounds DEF Init, TypeOK, Location
<1>2. CustodyInv BY DEF Init, CustodyInv, InJob, InWorkspace
<1>3. OutsideInv BY DEF Init, OutsideInv
<1>4. LaunchInv BY DEF Init, LaunchInv
<1>5. EvidenceReadable BY DEF Init, EvidenceReadable, Final
<1>6. EndedInv BY DEF Init, EndedInv, Settling
<1>7. ClaimInv BY DEF Init, ClaimInv, Status, Active
<1>8. WorkInv BY DEF Init, WorkInv
<1>9. QED BY <1>1, <1>2, <1>3, <1>4, <1>5, <1>6, <1>7, <1>8 DEF IInv
-----------------------------------------------------------------------------
(* A job's place and operation. *)
LEMMA Places ==
    ASSUME NEW j \in Job
    PROVE  Place[j] \in Workspace /\ (V2(j) => Operation[j] \in Named)
BY DEF Workspace, Named, V2

(* What an operation under way is in. *)
LEMMA AtWork ==
    ASSUME IInv, NEW c \in Client, pc[c] # "idle"
    PROVE  job[c] \in Job /\ Work(pc[c], job[c], terminal[c])
BY DEF IInv, CustodyInv, WorkInv

LEMMA TypeStep == IInv /\ [Next]_vars => TypeOK'
<1> SUFFICES ASSUME IInv, [Next]_vars PROVE TypeOK'
  OBVIOUS
<1> USE DEF IInv, TypeOK, Location, Goto, Stay, Return, Hold, Enter, admitted, evidence, disk, outside
<1>1. ASSUME NEW c \in Client, Acts(c) PROVE TypeOK'
  <2>1. ASSUME NEW j \in Job, Prepare(c, j) \/ Run(c, j) \/ Reconcile(c, j) PROVE TypeOK'
    BY <2>1 DEF Prepare, Run, Reconcile
  <2>2. CASE Admit(c) BY <2>2 DEF Admit
  <2>3. CASE Reserve(c)
    <3>1. job[c] \in Job /\ V2(job[c]) BY <2>3, AtWork DEF Reserve, Work
    <3>2. Operation[job[c]] \in Named BY <3>1, Places
    <3>3. admission' \in [Named -> Job \union {None}] BY <2>3, <3>1, <3>2 DEF Reserve
    <3>4. QED BY <2>3, <3>3 DEF Reserve
  <2>4. CASE Publish(c)
    <3>1. job[c] \in Job BY <2>4, AtWork DEF Publish
    <3>2. QED BY <2>4, <3>1 DEF Publish
  <2>5. CASE Begin(c) BY <2>5 DEF Begin
  <2>6. CASE Claim(c)
    <3>1. job[c] \in Job BY <2>6, AtWork DEF Claim
    <3>2. claim' \in [Workspace -> Job \union {None}] BY <2>6, <3>1 DEF Claim
    <3>3. QED BY <2>6, <3>2 DEF Claim
  <2>7. CASE Start(c)
    <3>1. job[c] \in Job BY <2>7, AtWork DEF Start
    <3>2. QED BY <2>7, <3>1 DEF Start
  <2>8. CASE Submit(c)
    <3>1. PICK n \in Nat : asked' = [asked EXCEPT ![job[c]] = n]
      <4>1. job[c] \in Job BY <2>8, AtWork DEF Submit
      <4>2. asked[job[c]] + 1 \in Nat BY <4>1
      <4>3. QED BY <2>8, <4>2 DEF Submit
    <3>2. QED BY <2>8, <3>1 DEF Submit
  <2>9. CASE Interrupted(c)
    <3>1. Uncertain(None) \in Verdict BY UncertainType
    <3>2. QED BY <2>9, <3>1 DEF Interrupted
  <2>10. CASE Envelope(c)
    <3>1. job[c] \in Job BY <2>10, AtWork DEF Envelope
    <3>2. Uncertain(None) \in Verdict BY UncertainType
    <3>3. ASSUME Ended(job[c])
          PROVE  \A s \in {"failed", log[job[c]][Len(log[job[c]])]}, p \in Patch :
                    Terminal(s, None, p) \in Verdict
      <4>1. \A s \in {"failed", log[job[c]][Len(log[job[c]])]} : s \in {"uncertain"} \union Ends
        BY <3>3 DEF Ended, Ends
      <4>2. \A p \in Patch : p \in Patch \union {None} OBVIOUS
      <4>3. None \in Nat \union {None} OBVIOUS
      <4>4. QED BY <4>1, <4>2, <4>3, VerdictType
    <3>4. PICK t \in Verdict : Hold(c, t, "result")
      BY <2>10, <3>2, <3>3 DEF Envelope
    <3>5. QED BY <2>10, <3>4 DEF Envelope
  <2>11. CASE Answer(c)
    <3>1. job[c] \in Job /\ V2(job[c]) BY <2>11, AtWork DEF Answer
    <3>2. PICK r \in 0..Len(log[job[c]]) :
             Retainable(job[c], Outcome(job[c], r)) /\ Retain(job[c], Outcome(job[c], r))
      BY <2>11 DEF Answer
    <3>3. Outcome(job[c], r) \in Observation BY <3>1, OutcomeFacts
    <3>4. observed' \in [Job -> Seq(Observation)] BY <3>1, <3>2, <3>3, Retaining
    <3>5. QED BY <2>11, <3>4 DEF Answer
  <2>12. ASSUME NEW l \in {"result", "resolve"}, SettleAs(c, l), job[c] \in Job, V2(job[c]),
                Settling(job[c])
         PROVE  TypeOK'
    <3>1. PICK t \in Settlements(job[c]) :
             settlement' = [settlement EXCEPT ![job[c]] = t] /\ Hold(c, t, l)
      BY <2>12 DEF SettleAs
    <3>2. t \in Verdict BY <2>12, SettlementFacts
    <3>3. QED BY <2>12, <3>1, <3>2 DEF SettleAs
  <2>13. CASE Settle(c)
    <3>1. job[c] \in Job /\ V2(job[c]) BY <2>13, AtWork DEF Settle, Work
    <3>2. QED BY <2>12, <2>13, <3>1 DEF Settle
  <2>14. CASE Unsettled(c)
    <3>1. job[c] \in Job /\ observed[job[c]] # <<>> BY <2>14, AtWork DEF Unsettled, Work
    <3>2. Retained(job[c]).rev \in Nat BY <3>1, LastObservation DEF Observation
    <3>3. Uncertain(Retained(job[c]).rev) \in Verdict BY <3>2, UncertainType
    <3>4. QED BY <2>14, <3>3 DEF Unsettled
  <2>15. CASE WriteResult(c)
    <3>1. terminal[c] \in Verdict BY <2>15, AtWork DEF WriteResult, Work
    <3>2. QED BY <2>15, <3>1 DEF WriteResult
  <2>16. CASE Reconsider(c) BY <2>16 DEF Reconsider
  <2>17. CASE Unanswered(c) BY <2>17 DEF Unanswered
  <2>18. CASE Resettle(c)
    <3>1. job[c] \in Job /\ V2(job[c]) /\ Settling(job[c]) BY <2>18, AtWork DEF Resettle, Work, Resolving
    <3>2. QED BY <2>12, <2>18, <3>1 DEF Resettle
  <2>19. CASE Resolve(c)
    <3>1. terminal[c] \in Verdict BY <2>19, AtWork DEF Resolve, Work
    <3>2. QED BY <2>19, <3>1 DEF Resolve
  <2>20. CASE Fail(c)
    <3>1. faults' \in 0..MaxFaults BY <2>20, CodingBounds DEF Fail
    <3>2. QED BY <2>20, <3>1 DEF Fail
  <2>21. ASSUME pc[c] = "observe", NEW r \in 0..Len(log[job[c]]), Observe(c, r) PROVE TypeOK'
    <3>1. job[c] \in Job /\ V2(job[c]) BY <2>21, AtWork DEF Work, Resolving
    <3>2. Outcome(job[c], r) \in Observation BY <3>1, OutcomeFacts
    <3>3. observed' \in [Job -> Seq(Observation)]
      BY <2>21, <3>1, <3>2, Retaining DEF Observe
    <3>4. QED BY <2>21, <3>3 DEF Observe
  <2>22. QED
    BY <1>1, <2>1, <2>2, <2>3, <2>4, <2>5, <2>6, <2>7, <2>8, <2>9, <2>10, <2>11, <2>13, <2>14,
       <2>15, <2>16, <2>17, <2>18, <2>19, <2>20, <2>21 DEF Acts, Step
<1>2. ASSUME NEW j \in Job, Outside(j) PROVE TypeOK'
  <2>1. PICK s \in State : log' = [log EXCEPT ![j] = Append(@, s)]
    BY <1>2 DEF Outside, State, Ends
  <2>2. log' \in [Job -> Seq(State)] BY <2>1
  <2>3. QED BY <1>2, <2>2 DEF Outside
<1>3. CASE UNCHANGED vars BY <1>3 DEF vars
<1>4. QED BY <1>1, <1>2, <1>3, SomeoneActs
-----------------------------------------------------------------------------
(* What a step of one process leaves to the others: files of a job change  *)
(* under its lease only, a claim under its workspace's.                    *)
SameJob(k) ==
    /\ k \in started' <=> k \in started
    /\ observed'[k] = observed[k] /\ settlement'[k] = settlement[k]
    /\ result'[k] = result[k] /\ resolution'[k] = resolution[k] /\ asked'[k] = asked[k]
Writing == {"start"} \union Running \union Resolving
Foreign(c) ==
    /\ UNCHANGED log
    /\ \A o \in Named : admission[o] # None => admission'[o] = admission[o]
    /\ intent \subseteq intent' /\ started \subseteq started'
    /\ \A k \in Job : ~ (pc[c] \in Writing /\ k = job[c]) => SameJob(k)
    /\ \A w \in Workspace :
          claim'[w] # claim[w] => /\ pc[c] = "claim" /\ MayClaim(job[c])
                                 /\ w = Place[job[c]] /\ claim'[w] = job[c]
    /\ \A d \in Client \ {c} : pc'[d] = pc[d] /\ job'[d] = job[d] /\ terminal'[d] = terminal[d]

LEMMA Elsewhere ==
    ASSUME IInv, NEW c \in Client, Acts(c)
    PROVE  Foreign(c)
<1> USE DEF IInv, TypeOK, Location, Goto, Stay, Return, Hold, Enter, admitted, evidence, disk,
            outside, Foreign, SameJob, Writing, Running, Resolving
<1>1. ASSUME NEW j \in Job, Prepare(c, j) \/ Run(c, j) \/ Reconcile(c, j) PROVE Foreign(c)
  BY <1>1 DEF Prepare, Run, Reconcile
<1>2. CASE Admit(c) BY <1>2 DEF Admit
<1>3. CASE Reserve(c)
  <2>1. job[c] \in Job /\ V2(job[c]) BY <1>3, AtWork DEF Reserve, Work
  <2>2. QED BY <1>3, <2>1, Places DEF Reserve
<1>4. CASE Publish(c) BY <1>4 DEF Publish
<1>5. CASE Begin(c) BY <1>5 DEF Begin
<1>6. CASE Claim(c) BY <1>6 DEF Claim
<1>7. CASE Start(c) BY <1>7 DEF Start
<1>8. CASE Submit(c) BY <1>8 DEF Submit
<1>9. CASE Interrupted(c) BY <1>9 DEF Interrupted
<1>10. CASE Envelope(c) BY <1>10 DEF Envelope
<1>11. CASE Answer(c)
  <2>1. job[c] \in Job /\ V2(job[c]) BY <1>11, AtWork DEF Answer
  <2>2. PICK r \in 0..Len(log[job[c]]) :
           Retainable(job[c], Outcome(job[c], r)) /\ Retain(job[c], Outcome(job[c], r))
    BY <1>11 DEF Answer
  <2>3. \A k \in Job \ {job[c]} : observed'[k] = observed[k]
    BY <2>1, <2>2, OutcomeFacts, Retaining
  <2>4. QED BY <1>11, <2>3 DEF Answer
<1>12. ASSUME NEW l, SettleAs(c, l), pc[c] \in Writing PROVE Foreign(c)
  BY <1>12 DEF SettleAs
<1>13. CASE Settle(c) BY <1>12, <1>13 DEF Settle
<1>14. CASE Unsettled(c) BY <1>14 DEF Unsettled
<1>15. CASE WriteResult(c) BY <1>15 DEF WriteResult
<1>16. CASE Reconsider(c) BY <1>16 DEF Reconsider
<1>17. CASE Unanswered(c) BY <1>17 DEF Unanswered
<1>18. CASE Resettle(c) BY <1>12, <1>18 DEF Resettle
<1>19. CASE Resolve(c) BY <1>19 DEF Resolve
<1>20. CASE Fail(c) BY <1>20 DEF Fail
<1>21. ASSUME pc[c] = "observe", NEW r \in 0..Len(log[job[c]]), Observe(c, r) PROVE Foreign(c)
  <2>1. job[c] \in Job /\ V2(job[c]) BY <1>21, AtWork DEF Work, Resolving
  <2>2. \A k \in Job \ {job[c]} : observed'[k] = observed[k]
    BY <1>21, <2>1, OutcomeFacts, Retaining DEF Observe
  <2>3. QED BY <1>21, <2>2 DEF Observe
<1>22. QED
  BY <1>1, <1>2, <1>3, <1>4, <1>5, <1>6, <1>7, <1>8, <1>9, <1>10, <1>11, <1>13, <1>14, <1>15,
     <1>16, <1>17, <1>18, <1>19, <1>20, <1>21 DEF Acts, Step

(* Who enters finds the leases free, and who is in keeps its job. *)
Enters(c) ==
    \/ /\ pc[c] # "idle" /\ job'[c] = job[c]
       /\ pc'[c] \in InJob => pc[c] \in InJob
       /\ pc'[c] \in InWorkspace => pc[c] \in InWorkspace \/ WorkspaceFree(job[c])
    \/ pc'[c] = "idle"
    \/ \E j \in Job : /\ job'[c] = j
                      /\ pc'[c] \in InJob => JobFree(j)
                      /\ pc'[c] \in InWorkspace => WorkspaceFree(j)

LEMMA CustodyStep == IInv /\ [Next]_vars => CustodyInv'
<1> SUFFICES ASSUME IInv, [Next]_vars PROVE CustodyInv'
  OBVIOUS
<1>1. ASSUME NEW c \in Client, Acts(c) PROVE CustodyInv'
  <2> DEFINE Alone(l, j) ==
          /\ l # "idle" => j \in Job
          /\ \A d \in Client \ {c} :
                /\ l \in InJob /\ pc[d] \in InJob => j # job[d]
                /\ l \in InWorkspace /\ pc[d] \in InWorkspace => Place[j] # Place[job[d]]
  <2>1. Alone(pc[c], job[c]) BY DEF IInv, CustodyInv
  <2>2. pc[c] \in Location BY DEF IInv, TypeOK
  <2>3. Enters(c)
    <3> USE DEF IInv, TypeOK, Goto, Stay, Return, Hold, Enter, InJob, InWorkspace, Enters
    <3>1. ASSUME NEW j \in Job, Prepare(c, j) \/ Run(c, j) \/ Reconcile(c, j) PROVE Enters(c)
      BY <3>1 DEF Prepare, Run, Reconcile
    <3>2. CASE Admit(c) BY <3>2 DEF Admit
    <3>3. CASE Reserve(c) \/ Publish(c) BY <3>3 DEF Reserve, Publish
    <3>4. CASE Begin(c) BY <3>4 DEF Begin
    <3>5. CASE Claim(c) \/ Start(c) \/ Submit(c) BY <3>5 DEF Claim, Start, Submit
    <3>6. CASE Interrupted(c) \/ Envelope(c) BY <3>6 DEF Interrupted, Envelope
    <3>7. CASE Answer(c) BY <3>7 DEF Answer
    <3>8. CASE Settle(c) BY <3>8 DEF Settle, SettleAs
    <3>9. CASE Unsettled(c) \/ WriteResult(c) BY <3>9 DEF Unsettled, WriteResult
    <3>10. CASE Reconsider(c) BY <3>10 DEF Reconsider
    <3>11. CASE Unanswered(c) BY <3>11 DEF Unanswered
    <3>12. CASE Resettle(c) BY <3>12 DEF Resettle, SettleAs
    <3>13. CASE Resolve(c) \/ Fail(c) BY <3>13 DEF Resolve, Fail
    <3>14. ASSUME NEW r, Observe(c, r) PROVE Enters(c)
      BY <3>14 DEF Observe
    <3>15. QED
      BY <1>1, <3>1, <3>2, <3>3, <3>4, <3>5, <3>6, <3>7, <3>8, <3>9, <3>10, <3>11, <3>12, <3>13,
         <3>14 DEF Acts, Step
  <2>4. Alone(pc'[c], job'[c])
    BY <2>1, <2>3 DEF Enters, JobFree, WorkspaceFree, InJob, InWorkspace
  <2>5. \A d \in Client \ {c} : pc'[d] = pc[d] /\ job'[d] = job[d]
    BY <1>1, Elsewhere DEF Foreign
  <2>6. QED BY <2>4, <2>5 DEF IInv, CustodyInv
<1>2. ASSUME UNCHANGED <<pc, job>> PROVE CustodyInv'
  BY <1>2 DEF IInv, CustodyInv
<1>3. ASSUME NEW j \in Job, Outside(j) PROVE CustodyInv'
  BY <1>2, <1>3 DEF Outside
<1>4. CASE UNCHANGED vars BY <1>2, <1>4 DEF vars
<1>5. QED BY <1>1, <1>3, <1>4, SomeoneActs
-----------------------------------------------------------------------------
(* Requests and the authority's records. *)
LEMMA OnlySubmitAsks ==
    ASSUME NEW c \in Client, Acts(c), ~ Submit(c)
    PROVE  UNCHANGED outside
BY DEF Acts, Step, Prepare, Run, Reconcile, Enter, Admit, Reserve, Publish, Begin, Claim, Start,
       Interrupted, Envelope, Answer, Settle, Unsettled, WriteResult, Reconsider, Unanswered,
       Resettle, SettleAs, Resolve, Fail, Observe, outside

LEMMA OutsideStep == IInv /\ [Next]_vars => OutsideInv'
<1> SUFFICES ASSUME IInv, [Next]_vars PROVE OutsideInv'
  OBVIOUS
<1>1. ASSUME UNCHANGED outside PROVE OutsideInv'
  BY <1>1 DEF IInv, OutsideInv, outside
<1>2. ASSUME NEW c \in Client, Submit(c) PROVE OutsideInv'
  <2>1. job[c] \in Job /\ asked[job[c]] = 0 BY <1>2, AtWork DEF Submit, Work
  <2>2. UNCHANGED log /\ asked' = [asked EXCEPT ![job[c]] = 1]
    BY <1>2, <2>1 DEF Submit
  <2>3. QED BY <2>1, <2>2 DEF IInv, TypeOK, OutsideInv
<1>3. ASSUME NEW j \in Job, Outside(j) PROVE OutsideInv'
  <2>1. PICK s \in State : log' = [log EXCEPT ![j] = Append(@, s)]
    BY <1>3 DEF Outside, State, Ends
  <2>2. UNCHANGED asked /\ asked[j] # 0 /\ ~ Ended(j)
    BY <1>3 DEF Outside, Active
  <2>3. log \in [Job -> Seq(State)] BY DEF IInv, TypeOK
  <2>4. PICK l \in Seq(State) : l = log[j] BY <2>3
  <2>5. log'[j] = Append(l, s) BY <2>1, <2>3, <2>4
  <2>6. \A r \in 1..Len(l) : l[r] \notin Ends
    <3>1. SUFFICES ASSUME NEW r \in 1..Len(l), l[r] \in Ends PROVE FALSE OBVIOUS
    <3>2. r = Len(l) BY <2>4, <3>1 DEF IInv, OutsideInv
    <3>3. l # <<>> OBVIOUS
    <3>4. QED BY <2>2, <2>4, <3>1, <3>2, <3>3 DEF Ended
  <2>7. ASSUME NEW r \in 1..Len(log'[j]), log'[j][r] \in Ends PROVE r = Len(log'[j])
    BY <2>5, <2>6, <2>7
  <2>8. \A k \in Job \ {j} : log'[k] = log[k] BY <2>1, <2>3
  <2>9. QED BY <2>2, <2>7, <2>8 DEF IInv, OutsideInv
<1>4. CASE UNCHANGED vars BY <1>1, <1>4 DEF vars, outside
<1>5. QED BY <1>1, <1>2, <1>3, <1>4, SomeoneActs, OnlySubmitAsks

LEMMA LaunchStep == IInv /\ [Next]_vars => LaunchInv'
<1> SUFFICES ASSUME IInv, [Next]_vars PROVE LaunchInv'
  OBVIOUS
<1>1. ASSUME UNCHANGED <<admission, intent, started, asked>> PROVE LaunchInv'
  BY <1>1 DEF IInv, LaunchInv
<1>2. ASSUME NEW c \in Client, Acts(c) PROVE LaunchInv'
  <2>0. Foreign(c) BY <1>2, Elsewhere
  <2>1. \A j \in Job : V2(j) /\ admission[Operation[j]] = j => admission'[Operation[j]] = j
    BY <2>0, Places, CodingDistinct DEF Foreign
  <2>2. CASE Publish(c)
    <3>1. job[c] \in Job /\ (V2(job[c]) => admission[Operation[job[c]]] = job[c])
      BY <2>2, AtWork DEF Publish, Work
    <3>2. QED BY <2>1, <2>2, <3>1 DEF Publish, evidence, outside, IInv, TypeOK, LaunchInv
  <2>3. CASE Start(c)
    <3>1. job[c] \in intent BY <2>3, AtWork DEF Start, Work
    <3>2. QED BY <2>1, <2>3, <3>1 DEF Start, admitted, outside, IInv, TypeOK, LaunchInv
  <2>4. CASE Submit(c)
    <3>1. job[c] \in started /\ job[c] \in Job BY <2>4, AtWork DEF Submit, Work, Running
    <3>2. QED BY <2>4, <3>1 DEF Submit, disk, admitted, IInv, TypeOK, LaunchInv
  <2>5. CASE ~ (Publish(c) \/ Start(c) \/ Submit(c))
    <3>1. UNCHANGED <<intent, started>>
      BY <1>2, <2>5
         DEF Acts, Step, Prepare, Run, Reconcile, Enter, Admit, Reserve, Begin, Claim, Interrupted,
             Envelope, Answer, Settle, Unsettled, WriteResult, Reconsider, Unanswered, Resettle,
             SettleAs, Resolve, Fail, Observe, disk, admitted
    <3>2. UNCHANGED asked BY <1>2, <2>5, OnlySubmitAsks DEF outside
    <3>3. intent \subseteq Job BY DEF IInv, TypeOK
    <3>4. QED BY <2>1, <3>1, <3>2, <3>3 DEF IInv, LaunchInv
  <2>6. QED BY <2>2, <2>3, <2>4, <2>5
<1>3. ASSUME NEW j \in Job, Outside(j) PROVE LaunchInv'
  BY <1>1, <1>3 DEF Outside, disk, admitted
<1>4. CASE UNCHANGED vars BY <1>1, <1>4 DEF vars, disk, admitted, outside
<1>5. QED BY <1>2, <1>3, <1>4, SomeoneActs
-----------------------------------------------------------------------------
(* What EvidenceReadable says of one job. *)
Readable(j) ==
    /\ j \notin started => observed[j] = <<>> /\ settlement[j] = None /\ Final(j) = None
    /\ V2(j) =>
          /\ observed[j] # <<>> => Agrees(j, Retained(j))
          /\ settlement[j] # None => Settling(j) /\ settlement[j] \in Captured(Retained(j))
          /\ result[j] # None => Consistent(j, result[j])
          /\ resolution[j] # None =>
                Consistent(j, resolution[j]) /\ resolution[j].status \in Ends /\ Open(j)

LEMMA ReadableEach == TypeOK => (EvidenceReadable <=> \A j \in Job : Readable(j))
<1> SUFFICES ASSUME TypeOK, NEW j \in Job
             PROVE  (\A n \in 1..Len(observed[j]) : Agrees(j, Retained(j)))
                       <=> (observed[j] # <<>> => Agrees(j, Retained(j)))
  BY DEF EvidenceReadable, Readable
<1>1. PICK s \in Seq(Observation) : s = observed[j] BY DEF TypeOK
<1>2. s # <<>> <=> \E n \in 1..Len(s) : TRUE
  <2>1. ASSUME s # <<>> PROVE \E n \in 1..Len(s) : TRUE
    <3>1. Len(s) \in 1..Len(s) BY <2>1
    <3>2. QED BY <3>1
  <2>2. QED BY <2>1
<1>3. QED BY <1>1, <1>2

LEMMA ReadableKept ==
    ASSUME NEW j \in Job, Readable(j), SameJob(j)
    PROVE  Readable(j)'
BY DEF Readable, SameJob, Final, Agrees, Retained, Settling, Captured, Terminal, Consistent, Open

(* An outcome retained. *)
LEMMA RetainReadable ==
    ASSUME IInv, NEW j \in Job, NEW o \in Observation, V2(j), j \in started,
           Retainable(j, o), Retain(j, o), UNCHANGED <<started, settlement, result, resolution>>
    PROVE  Readable(j)'
<1>1. Readable(j) BY ReadableEach DEF IInv
<1>2. /\ observed'[j] # <<>> /\ Retained(j)' = o /\ Agrees(j, o)'
      /\ \A n \in 1..Len(observed[j]) :
            n \in 1..Len(observed'[j]) /\ observed'[j][n] = observed[j][n]
      /\ Settling(j) => o = Retained(j)
  BY Retaining
<1>3. Agrees(j, Retained(j))' BY <1>2 DEF Agrees
<1>4. Settling(j) => Settling(j)' BY <1>2 DEF Settling
<1>5. settlement[j] # None => Settling(j)' /\ settlement'[j] \in (Captured(Retained(j)))'
  BY <1>1, <1>2, <1>4 DEF Readable, Captured
<1>6. \A t : Consistent(j, t) => Consistent(j, t)'
  BY <1>2 DEF Consistent
<1>7. QED BY <1>1, <1>3, <1>5, <1>6 DEF Readable, Open, Consistent

LEMMA EvidenceStep == IInv /\ [Next]_vars => EvidenceReadable'
<1> SUFFICES ASSUME IInv, [Next]_vars PROVE EvidenceReadable'
  OBVIOUS
<1>0. TypeOK' /\ TypeOK /\ \A j \in Job : Readable(j)
  BY TypeStep, ReadableEach DEF IInv
<1>1. ASSUME NEW c \in Client, Acts(c), NEW j \in Job PROVE Readable(j)'
  <2>0. Foreign(c) BY <1>1, Elsewhere
  <2>1. CASE ~ (pc[c] \in Writing /\ j = job[c])
    BY <1>0, <2>0, <2>1, ReadableKept DEF Foreign
  <2>2. CASE SameJob(j) BY <1>0, <2>2, ReadableKept
  <2>3. ASSUME pc[c] \in Writing, j = job[c] PROVE Readable(j)'
    <3>0. pc[c] # "idle" /\ Work(pc[c], j, terminal[c])
      BY <2>3, AtWork DEF Writing, Running, Resolving
    <3>1. CASE Start(c)
      BY <1>0, <3>1 DEF Start, evidence, Readable, Final, Agrees, Retained, Settling, Captured,
                        Terminal, Consistent, Open
    <3>2. CASE Answer(c)
      <4>1. V2(j) /\ j \in started BY <2>3, <3>0, <3>2 DEF Answer, Work, Running
      <4>2. PICK r \in 0..Len(log[j]) : Retainable(j, Outcome(j, r)) /\ Retain(j, Outcome(j, r))
        BY <2>3, <3>2 DEF Answer
      <4>3. UNCHANGED <<started, settlement, result, resolution>> BY <3>2 DEF Answer
      <4>4. QED BY <4>1, <4>2, <4>3, OutcomeFacts, RetainReadable
    <3>3. ASSUME pc[c] = "observe", NEW r \in 0..Len(log[job[c]]), Observe(c, r)
          PROVE  Readable(j)'
      <4>1. V2(j) /\ Status(j) = "uncertain" BY <3>0, <3>3 DEF Work, Resolving
      <4>2. j \in started BY <4>1 DEF Status
      <4>3. UNCHANGED <<started, settlement, result, resolution>> BY <3>3 DEF Observe
      <4>4. CASE Retainable(j, Outcome(j, r))
        <5>1. Retain(j, Outcome(j, r)) BY <2>3, <3>3, <4>4 DEF Observe
        <5>2. QED BY <2>3, <4>1, <4>2, <4>3, <4>4, <5>1, <3>3, OutcomeFacts, RetainReadable
      <4>5. CASE ~ Retainable(j, Outcome(j, r))
        <5>1. SameJob(j) BY <2>3, <3>3, <4>5 DEF Observe, SameJob, outside
        <5>2. QED BY <2>2, <5>1
      <4>6. QED BY <4>4, <4>5
    <3>4. ASSUME NEW l, SettleAs(c, l), V2(j), Settling(j), j \in started PROVE Readable(j)'
      <4>1. PICK t \in Settlements(j) : settlement' = [settlement EXCEPT ![j] = t]
        BY <2>3, <3>4 DEF SettleAs
      <4>2. t \in Verdict /\ t \in Captured(Retained(j)) /\ (settlement[j] # None => t = settlement[j])
        BY <3>4, SettlementFacts
      <4>3. UNCHANGED <<started, observed, result, resolution>> /\ settlement'[j] = t
        BY <3>4, <4>1, <1>0 DEF SettleAs, TypeOK
      <4>4. Settling(j)' /\ Retained(j)' = Retained(j) BY <3>4, <4>3 DEF Settling, Retained
      <4>5. settlement'[j] \in (Captured(Retained(j)))' BY <4>2, <4>3, <4>4 DEF Captured
      <4>7. \A q \in Verdict : Consistent(j, q) => Consistent(j, q)'
        BY <4>2, <4>3, CodingRecords DEF Consistent
      <4>8. result[j] \in Verdict \union {None} /\ resolution[j] \in Verdict \union {None}
        BY <1>0 DEF TypeOK
      <4>9. result[j] # None => Consistent(j, result[j])'
        BY <1>0, <3>4, <4>3, <4>7, <4>8 DEF Readable, Consistent
      <4>10. resolution[j] # None => Consistent(j, resolution[j])'
        BY <1>0, <3>4, <4>3, <4>7, <4>8 DEF Readable, Consistent
      <4>11. Agrees(j, Retained(j))' <=> Agrees(j, Retained(j))
        BY <4>3, <4>4 DEF Agrees
      <4>12. QED BY <1>0, <3>4, <4>3, <4>4, <4>5, <4>9, <4>10, <4>11 DEF Readable, Open
    <3>5. CASE Settle(c)
      BY <2>3, <3>0, <3>4, <3>5 DEF Settle, Work, Running
    <3>6. CASE Resettle(c)
      <4>1. V2(j) /\ Settling(j) /\ Status(j) = "uncertain" BY <3>0, <3>6 DEF Resettle, Work, Resolving
      <4>2. j \in started BY <4>1 DEF Status
      <4>3. QED BY <3>4, <3>6, <4>1, <4>2 DEF Resettle
    <3>7. CASE WriteResult(c)
      <4>1. /\ j \in started /\ resolution[j] = None /\ terminal[c] \in Verdict
            /\ V2(j) => Consistent(j, terminal[c])
            /\ result[j] = None
        BY <3>0, <3>7 DEF WriteResult, Work, Running
      <4>2. UNCHANGED <<started, observed, settlement, resolution>> /\ result'[j] = terminal[c]
        BY <2>3, <3>7, <4>1, <1>0 DEF WriteResult, TypeOK
      <4>3. V2(j) => Consistent(j, result[j])' BY <4>1, <4>2 DEF Consistent
      <4>4. QED BY <1>0, <4>1, <4>2, <4>3 DEF Readable, Agrees, Retained, Settling, Captured, Terminal
    <3>8. CASE Resolve(c)
      <4>1. /\ V2(j) /\ Status(j) = "uncertain" /\ terminal[c].status \in Ends
            /\ Consistent(j, terminal[c])
        BY <3>0, <3>8 DEF Resolve, Work, Resolving
      <4>2. j \in started BY <4>1 DEF Status
      <4>3. UNCHANGED <<started, observed, settlement, result>>
            /\ resolution'[j] = IF Open(j) /\ resolution[j] = None THEN terminal[c] ELSE resolution[j]
        BY <2>3, <3>8, <1>0 DEF Resolve, TypeOK
      <4>4. CASE Open(j) /\ resolution[j] = None
        <5>1. Consistent(j, resolution[j])' BY <4>1, <4>3, <4>4 DEF Consistent
        <5>2. QED BY <1>0, <4>1, <4>2, <4>3, <4>4, <5>1
                  DEF Readable, Agrees, Retained, Settling, Captured, Terminal, Open, Consistent
      <4>5. CASE ~ (Open(j) /\ resolution[j] = None)
        <5>1. SameJob(j) BY <3>8, <4>3, <4>5 DEF Resolve, SameJob, outside
        <5>2. QED BY <2>2, <5>1
      <4>6. QED BY <4>4, <4>5
    <3>9. CASE ~ (Start(c) \/ Answer(c) \/ Settle(c) \/ Resettle(c) \/ WriteResult(c) \/ Resolve(c)
                  \/ (pc[c] = "observe" /\ \E r \in 0..Len(log[job[c]]) : Observe(c, r)))
      <4>1. UNCHANGED <<started, evidence>>
        BY <1>1, <3>9
           DEF Acts, Step, Prepare, Run, Reconcile, Enter, Admit, Reserve, Publish, Begin, Claim,
               Submit, Interrupted, Envelope, Unsettled, Reconsider, Unanswered, Fail, disk
      <4>2. QED BY <1>0, <4>1 DEF evidence, Readable, Final, Agrees, Retained, Settling, Captured,
                        Terminal, Consistent, Open
    <3>10. QED BY <3>1, <3>2, <3>3, <3>5, <3>6, <3>7, <3>8, <3>9
  <2>4. QED BY <2>1, <2>3
<1>2. ASSUME UNCHANGED disk PROVE EvidenceReadable'
  <2>1. ASSUME NEW j \in Job PROVE Readable(j)'
    BY <1>0, <1>2 DEF disk, evidence, Readable, Final, Agrees, Retained, Settling, Captured,
                      Terminal, Consistent, Open
  <2>2. (EvidenceReadable <=> \A j \in Job : Readable(j))'
    BY <1>0, ReadableEach, PTL
  <2>3. QED BY <2>1, <2>2
<1>3. ASSUME NEW j \in Job, Outside(j) PROVE EvidenceReadable'
  BY <1>2, <1>3 DEF Outside
<1>4. CASE UNCHANGED vars BY <1>2, <1>4 DEF vars
<1>5. (EvidenceReadable <=> \A j \in Job : Readable(j))'
  BY <1>0, ReadableEach, PTL
<1>6. QED BY <1>1, <1>3, <1>4, <1>5, SomeoneActs
-----------------------------------------------------------------------------
LEMMA EndedStep == IInv /\ [Next]_vars => EndedInv'
<1> SUFFICES ASSUME IInv, [Next]_vars PROVE EndedInv'
  OBVIOUS
<1> DEFINE Past(j) ==
        /\ Settling(j) => Ended(j)
        /\ \A t \in {result[j], resolution[j]} \ {None} : t.status \in Ends => Ended(j)
        /\ resolution[j] # None => V2(j)
<1>0. TypeOK /\ \A j \in Job : Past(j) BY DEF IInv, EndedInv
<1>1. ASSUME NEW c \in Client, Acts(c), NEW j \in Job PROVE Past(j)'
  <2>0. Foreign(c) BY <1>1, Elsewhere
  <2>1. Ended(j)' <=> Ended(j) BY <2>0 DEF Foreign, Ended
  <2>2. CASE SameJob(j) BY <1>0, <2>1, <2>2 DEF SameJob, Settling, Retained
  <2>3. ASSUME pc[c] \in Writing, j = job[c] PROVE Past(j)'
    <3>0. pc[c] # "idle" /\ Work(pc[c], j, terminal[c])
      BY <2>3, AtWork DEF Writing, Running, Resolving
    <3>1. ASSUME NEW r \in 0..Len(log[j]), V2(j), Retainable(j, Outcome(j, r)),
                 Retain(j, Outcome(j, r)), UNCHANGED <<result, resolution>>
          PROVE  Past(j)'
      <4>1. Retained(j)' = Outcome(j, r) BY <3>1, OutcomeFacts, Retaining
      <4>2. Settling(j)' => Ended(j) BY <3>1, <4>1, OutcomeFacts DEF Settling
      <4>3. QED BY <1>0, <2>1, <3>1, <4>2
    <3>2. CASE Answer(c)
      <4>1. V2(j) BY <2>3, <3>2 DEF Answer
      <4>2. PICK r \in 0..Len(log[j]) : Retainable(j, Outcome(j, r)) /\ Retain(j, Outcome(j, r))
        BY <2>3, <3>2 DEF Answer
      <4>3. UNCHANGED <<result, resolution>> BY <3>2 DEF Answer
      <4>4. QED BY <3>1, <4>1, <4>2, <4>3
    <3>3. ASSUME pc[c] = "observe", NEW r \in 0..Len(log[job[c]]), Observe(c, r) PROVE Past(j)'
      <4>1. V2(j) BY <3>0, <3>3 DEF Work, Resolving
      <4>2. UNCHANGED <<result, resolution>> BY <3>3 DEF Observe
      <4>3. CASE Retainable(j, Outcome(j, r))
        <5>1. Retain(j, Outcome(j, r)) BY <2>3, <3>3, <4>3 DEF Observe
        <5>2. QED BY <2>3, <3>1, <3>3, <4>1, <4>2, <4>3, <5>1
      <4>4. CASE ~ Retainable(j, Outcome(j, r))
        <5>1. SameJob(j) BY <2>3, <3>3, <4>4 DEF Observe, SameJob, outside
        <5>2. QED BY <2>2, <5>1
      <4>5. QED BY <4>3, <4>4
    <3>4. CASE WriteResult(c)
      <4>1. /\ terminal[c].status \in Ends => Ended(j)
            /\ result[j] = None
        BY <3>0, <3>4 DEF WriteResult, Work, Running
      <4>2. UNCHANGED <<observed, resolution>> /\ result'[j] = terminal[c]
        BY <2>3, <3>4, <4>1, <1>0 DEF WriteResult, TypeOK
      <4>3. QED BY <1>0, <2>1, <4>1, <4>2 DEF Settling, Retained
    <3>5. CASE Resolve(c)
      <4>1. V2(j) /\ (terminal[c].status \in Ends => Ended(j))
        BY <3>0, <3>5 DEF Resolve, Work, Resolving
      <4>2. UNCHANGED <<observed, result>> /\ resolution'[j] \in {resolution[j], terminal[c]}
        BY <2>3, <3>5, <1>0 DEF Resolve, TypeOK
      <4>3. QED BY <1>0, <2>1, <4>1, <4>2 DEF Settling, Retained
    <3>6. CASE ~ (Answer(c) \/ WriteResult(c) \/ Resolve(c)
                  \/ (pc[c] = "observe" /\ \E r \in 0..Len(log[job[c]]) : Observe(c, r)))
      <4>1. UNCHANGED <<observed, result, resolution>>
        BY <1>1, <3>6
           DEF Acts, Step, Prepare, Run, Reconcile, Enter, Admit, Reserve, Publish, Begin, Claim, Start,
               Submit, Interrupted, Envelope, Settle, Resettle, SettleAs, Unsettled, Reconsider,
               Unanswered, Fail, disk, evidence
      <4>2. QED BY <1>0, <2>1, <4>1 DEF Settling, Retained
    <3>7. QED BY <3>2, <3>3, <3>4, <3>5, <3>6
  <2>4. QED BY <2>0, <2>2, <2>3 DEF Foreign
<1>2. ASSUME NEW j \in Job, Outside(j), NEW k \in Job PROVE Past(k)'
  <2>1. UNCHANGED <<observed, result, resolution>> BY <1>2 DEF Outside, disk, evidence
  <2>2. ~ Ended(j) /\ (k # j => log'[k] = log[k])
    BY <1>2 DEF Outside, Active, IInv, TypeOK
  <2>3. Ended(k) => Ended(k)'
    BY <2>2 DEF Ended
  <2>4. QED BY <1>0, <2>1, <2>3 DEF Settling, Retained
<1>3. ASSUME UNCHANGED vars, NEW k \in Job PROVE Past(k)'
  BY <1>0, <1>3 DEF vars, disk, outside, evidence, Settling, Retained, Ended
<1>4. QED BY <1>1, <1>2, <1>3, SomeoneActs DEF EndedInv

(* Whoever writes a job's evidence has its claim. *)
LEMMA WriterClaims ==
    ASSUME IInv, NEW c \in Client, pc[c] \in Writing
    PROVE  job[c] \in Job /\ claim[Place[job[c]]] = job[c]
<1>1. job[c] \in Job /\ Work(pc[c], job[c], terminal[c])
  BY AtWork DEF Writing, Running, Resolving
<1>2. CASE pc[c] = "start" BY <1>1, <1>2 DEF Work
<1>3. CASE pc[c] \in Running
  <2>1. Status(job[c]) = "uncertain"
    BY <1>1, <1>3 DEF Work, Status, Final, IInv, LaunchInv, Running
  <2>2. QED BY <1>1, <2>1 DEF IInv, ClaimInv
<1>4. CASE pc[c] \in Resolving
  BY <1>1, <1>4 DEF Work, IInv, ClaimInv
<1>5. QED BY <1>2, <1>3, <1>4 DEF Writing

(* A settled job does nothing any more. *)
LEMMA SettledIsOver ==
    ASSUME IInv, NEW k \in Job, Status(k) \in Ends
    PROVE  Status(k) # "uncertain" /\ k \notin Active
<1>1. Status(k) = Final(k).status /\ Final(k) # None
  BY DEF Status, Ends
<1>2. Final(k) \in {result[k], resolution[k]} \ {None}
  BY <1>1 DEF Final
<1>3. Ended(k) BY <1>1, <1>2 DEF IInv, EndedInv
<1>4. QED BY <1>3, NotAnEnd DEF Active

LEMMA ClaimStep == IInv /\ [Next]_vars => ClaimInv'
<1> SUFFICES ASSUME IInv, [Next]_vars PROVE ClaimInv'
  OBVIOUS
<1>1. ASSUME NEW c \in Client, Acts(c), NEW k \in Job,
             (Status(k) = "uncertain" \/ k \in Active)'
      PROVE  claim'[Place[k]] = k
  <2>0. Foreign(c) /\ Place[k] \in Workspace BY <1>1, Elsewhere, Places
  <2>1. ASSUME pc[c] \in Writing, k = job[c] PROVE claim'[Place[k]] = k
    <3>1. claim[Place[k]] = k BY <2>1, WriterClaims
    <3>2. pc[c] # "claim" BY <2>1 DEF Writing, Running, Resolving
    <3>3. QED BY <2>0, <3>1, <3>2 DEF Foreign
  <2>2. ASSUME SameJob(k) PROVE claim'[Place[k]] = k
    <3>1. Status(k) = "uncertain" \/ k \in Active
      <4>1. k \in Active' <=> k \in Active
        BY <2>0, <2>2 DEF Foreign, SameJob, Active, Ended
      <4>2. ASSUME Status(k)' = "uncertain" PROVE Status(k) = "uncertain"
        <5>1. k \in started' BY <4>2 DEF Status
        <5>2. k \in started /\ k \in intent BY <2>2, <5>1 DEF SameJob, IInv, LaunchInv
        <5>3. Final(k)' = Final(k) BY <2>2 DEF SameJob, Final
        <5>4. k \in intent' BY <2>0, <5>2 DEF Foreign
        <5>5. QED BY <4>2, <5>1, <5>2, <5>3, <5>4 DEF Status
      <4>3. QED BY <1>1, <4>1, <4>2
    <3>2. claim[Place[k]] = k BY <3>1 DEF IInv, ClaimInv
    <3>3. ASSUME claim'[Place[k]] # claim[Place[k]] PROVE claim'[Place[k]] = k
      <4>1. MayClaim(job[c]) /\ Place[k] = Place[job[c]] /\ claim'[Place[k]] = job[c]
        BY <2>0, <3>3 DEF Foreign
      <4>2. k # None BY CodingDistinct
      <4>3. k = job[c] \/ Status(k) \in Ends
        BY <3>2, <4>1, <4>2 DEF MayClaim
      <4>4. Status(k) \notin Ends BY <3>1, SettledIsOver
      <4>5. QED BY <4>1, <4>3, <4>4
    <3>4. QED BY <3>2, <3>3
  <2>3. QED BY <2>0, <2>1, <2>2 DEF Foreign
<1>2. ASSUME NEW j \in Job, Outside(j), NEW k \in Job,
             (Status(k) = "uncertain" \/ k \in Active)'
      PROVE  claim'[Place[k]] = k
  <2>1. UNCHANGED <<claim, intent, started, result, resolution, asked>> /\ ~ Ended(j) /\ j \in Active
    BY <1>2 DEF Outside, disk, admitted, evidence, Active
  <2>2. k # j => log'[k] = log[k] BY <1>2 DEF Outside, IInv, TypeOK
  <2>3. Status(k)' = Status(k) BY <2>1 DEF Status, Final
  <2>4. k \in Active' => k \in Active BY <2>1, <2>2 DEF Active, Ended
  <2>5. QED BY <1>2, <2>1, <2>3, <2>4 DEF IInv, ClaimInv
<1>3. CASE UNCHANGED vars
  <2>1. UNCHANGED <<claim, intent, started, result, resolution, asked, log>>
    BY <1>3 DEF vars, disk, admitted, outside, evidence
  <2>2. QED BY <2>1 DEF IInv, ClaimInv, Status, Final, Active, Ended
<1>4. QED BY <1>1, <1>2, <1>3, SomeoneActs DEF ClaimInv
-----------------------------------------------------------------------------
(* What others leave true of a process in job j. *)
LEMMA WorkKept ==
    ASSUME IInv, NEW l \in Location \ {"idle"}, NEW j \in Job, NEW t, Work(l, j, t),
           UNCHANGED log,
           \A o \in Named : admission[o] # None => admission'[o] = admission[o],
           intent \subseteq intent',
           l \in InJob => SameJob(j),
           l = "start" => claim'[Place[j]] = claim[Place[j]]
    PROVE  Work(l, j, t)'
<1>1. l = "publish" /\ V2(j) => admission'[Operation[j]] = j
  BY Places, CodingDistinct DEF Work
<1>2. CASE l \in {"admit", "reserve", "publish"}
  BY <1>1, <1>2 DEF Work, Running, Resolving
<1>3. CASE l \notin {"admit", "reserve", "publish"}
  <2>1. SameJob(j) /\ j \in intent /\ j \in intent'
    BY <1>3 DEF Location, InJob, Work
  <2>2. (Ended(j)' <=> Ended(j)) /\ (Settling(j)' <=> Settling(j)) /\ Status(j)' = Status(j)
    BY <2>1 DEF SameJob, Ended, Settling, Retained, Status, Final
  <2>3. Consistent(j, t)' <=> Consistent(j, t)
    BY <2>1 DEF SameJob, Consistent
  <2>4. QED BY <1>3, <2>1, <2>2, <2>3 DEF Work, SameJob
<1>4. QED BY <1>2, <1>3

(* What a process has found or done when it goes on. *)
LEMMA OwnWork ==
    ASSUME IInv, TypeOK', EvidenceReadable', EndedInv', NEW c \in Client, Acts(c),
           NEW l \in Location \ {"idle"}, NEW j \in Job, NEW t,
           l = pc'[c], j = job'[c], t = terminal'[c]
    PROVE  Work(l, j, t)'
<1> USE DEF IInv, TypeOK, Goto, Stay, Return, Hold, Enter
<1>1. ASSUME NEW k \in Job, Prepare(c, k) \/ Run(c, k) \/ Reconcile(c, k)
      PROVE  Work(l, j, t)'
  <2>1. j = k /\ pc'[c] \in {"admit", "begin", "reconsider"} /\ UNCHANGED intent
        /\ (pc'[c] # "admit" => j \in intent) /\ (pc'[c] = "reconsider" => V2(j))
    BY <1>1 DEF Prepare, Run, Reconcile, disk, admitted
  <2>2. QED BY <2>1 DEF Work, Running, Resolving
<1>2. ASSUME pc[c] # "idle", job'[c] = job[c], ~ \E k \in Job : Prepare(c, k) \/ Run(c, k) \/ Reconcile(c, k)
      PROVE  Work(l, j, t)'
  <2>0. j = job[c] /\ Work(pc[c], j, terminal[c]) BY <1>2, AtWork
  <2>1. CASE Admit(c)
    <3>1. pc'[c] = (IF V2(j) THEN "reserve" ELSE "publish") BY <1>2, <2>1 DEF Admit
    <3>2. QED BY <3>1 DEF Work, Running, Resolving
  <2>2. CASE Reserve(c)
    <3>1. pc'[c] = "publish" /\ admission' = [admission EXCEPT ![Operation[j]] = j]
      BY <2>2 DEF Reserve
    <3>2. V2(j) BY <2>0, <2>2 DEF Reserve, Work
    <3>3. admission'[Operation[j]] = j BY <2>0, <3>1, <3>2, Places
    <3>4. QED BY <3>1, <3>3 DEF Work, Running, Resolving
  <2>3. CASE Begin(c)
    <3>1. pc'[c] = "claim" /\ Status(j) = "prepared" /\ UNCHANGED <<intent, started>>
      BY <2>3 DEF Begin, disk, admitted
    <3>2. j \in intent
      BY <2>0, <2>3 DEF Begin, Work
    <3>3. j \notin started
      BY <2>0, <3>1, <3>2, VerdictNotPrepared
    <3>4. QED BY <3>1, <3>2, <3>3 DEF Work, Running, Resolving
  <2>4. CASE Claim(c)
    <3>1. pc'[c] = "start" /\ claim' = [claim EXCEPT ![Place[j]] = j] /\ UNCHANGED <<intent, started>>
      BY <2>4 DEF Claim, admitted
    <3>2. j \in intent /\ j \notin started BY <2>0, <2>4 DEF Claim, Work
    <3>3. claim'[Place[j]] = j BY <2>0, <3>1, Places
    <3>4. QED BY <3>1, <3>2, <3>3 DEF Work, Running, Resolving
  <2>5. CASE Start(c)
    <3>1. pc'[c] = "submit" /\ j \in started' /\ UNCHANGED <<intent, result, resolution, asked>>
      BY <2>5 DEF Start, admitted, evidence, outside
    <3>2. j \in intent /\ j \notin started BY <2>0, <2>5 DEF Start, Work
    <3>3. result[j] = None /\ resolution[j] = None
      <4>1. Readable(j) BY <2>0, ReadableEach
      <4>2. QED BY <3>2, <4>1 DEF Readable, Final
    <3>4. asked[j] = 0 BY <2>0, <3>2 DEF LaunchInv
    <3>5. QED BY <3>1, <3>2, <3>3, <3>4 DEF Work, Resolving
  <2>6. CASE Submit(c)
    <3>1. pc'[c] = "await" /\ UNCHANGED <<intent, started, result, resolution>>
      BY <2>6 DEF Submit, disk, admitted, evidence
    <3>2. QED BY <2>0, <2>6, <3>1 DEF Submit, Work, Running, Resolving
  <2>7. CASE Interrupted(c)
    <3>1. pc'[c] = "result" /\ terminal'[c] = Uncertain(None) /\ UNCHANGED disk
      BY <2>7 DEF Interrupted
    <3>2. Uncertain(None) \in Verdict /\ Uncertain(None).status \notin Ends
          /\ Uncertain(None).rev = None
      BY UncertainType, NotAnEnd
    <3>3. j \in started /\ result[j] = None /\ resolution[j] = None /\ j \in intent
      BY <2>0, <2>7 DEF Interrupted, Work, Running
    <3>4. Consistent(j, Uncertain(None))' BY <3>2 DEF Consistent
    <3>5. QED BY <3>1, <3>2, <3>3, <3>4
              DEF Work, Running, Resolving, Consistent, disk, admitted, evidence
  <2>8. CASE Envelope(c)
    <3>1. pc'[c] = "result" /\ UNCHANGED disk /\ ~ V2(j) /\ UNCHANGED log
      BY <2>8 DEF Envelope, outside
    <3>2. terminal'[c] \in Verdict /\ (terminal'[c].status \in Ends => Ended(j))
      <4>1. CASE Hold(c, Uncertain(None), "result")
        <5>1. terminal'[c] = Uncertain(None) BY <4>1
        <5>2. QED BY <5>1, UncertainType, NotAnEnd
      <4>2. CASE Ended(j) /\ \E s \in {"failed", log[j][Len(log[j])]}, p \in Patch :
                    Hold(c, Terminal(s, None, p), "result")
        <5>1. PICK s \in {"failed", log[j][Len(log[j])]}, p \in Patch :
                 terminal'[c] = Terminal(s, None, p)
          BY <4>2
        <5>2. s \in {"uncertain"} \union Ends BY <4>2 DEF Ended, Ends
        <5>3. p \in Patch \union {None} /\ None \in Nat \union {None} OBVIOUS
        <5>4. Terminal(s, None, p) \in Verdict BY <5>2, <5>3, VerdictType
        <5>5. QED BY <4>2, <5>1, <5>4
      <4>3. QED BY <2>8, <4>1, <4>2 DEF Envelope
    <3>3. j \in started /\ result[j] = None /\ resolution[j] = None /\ j \in intent
      BY <2>0, <2>8 DEF Envelope, Work, Running
    <3>4. QED BY <3>1, <3>2, <3>3 DEF Work, Running, Resolving, disk, admitted, evidence, Ended
  <2>9. CASE Answer(c)
    <3>1. pc'[c] = "settle" /\ V2(j) /\ UNCHANGED <<intent, started, result, resolution>>
      BY <2>9 DEF Answer, admitted
    <3>2. PICK r \in 0..Len(log[j]) : Retainable(j, Outcome(j, r)) /\ Retain(j, Outcome(j, r))
      BY <2>9 DEF Answer
    <3>3. observed'[j] # <<>> BY <2>0, <3>1, <3>2, OutcomeFacts, Retaining
    <3>4. QED BY <2>0, <2>9, <3>1, <3>3 DEF Answer, Work, Running, Resolving
  <2>10. ASSUME NEW m \in {"result", "resolve"}, SettleAs(c, m), V2(j), Settling(j)
         PROVE  /\ pc'[c] = m /\ terminal'[c] \in Verdict /\ terminal'[c].status \in Ends
                /\ Ended(j)' /\ Consistent(j, t)'
                /\ UNCHANGED <<intent, started, observed, result, resolution>>
    <3>1. PICK u \in Settlements(j) : /\ settlement' = [settlement EXCEPT ![j] = u]
                                     /\ Hold(c, u, m)
      BY <2>10 DEF SettleAs
    <3>2. u \in Verdict /\ u.status \in Ends /\ u.rev = Retained(j).rev
      BY <2>0, <2>10, <3>1, SettlementFacts
    <3>3. UNCHANGED <<intent, started, observed, result, resolution, log>> /\ settlement'[j] = u
          /\ t = u /\ pc'[c] = m
      BY <2>0, <2>10, <3>1 DEF SettleAs, admitted, outside
    <3>4. Ended(j)' BY <2>0, <2>10, <3>3 DEF EndedInv, Ended
    <3>5. Len(observed[j]) \in 1..Len(observed[j]) /\ Retained(j) = observed[j][Len(observed[j])]
      BY <2>0, <2>10, LastObservation DEF Settling
    <3>6. Consistent(j, u)' BY <3>2, <3>3, <3>5 DEF Consistent
    <3>7. Consistent(j, t)' BY <3>3, <3>6 DEF Consistent
    <3>8. QED BY <3>2, <3>3, <3>4, <3>7
  <2>11. CASE Settle(c)
    <3>1. V2(j) /\ Settling(j) /\ j \in started /\ result[j] = None /\ resolution[j] = None
          /\ j \in intent
      BY <2>0, <2>11 DEF Settle, Work, Running
    <3>2. /\ pc'[c] = "result" /\ terminal'[c] \in Verdict /\ terminal'[c].status \in Ends
          /\ Ended(j)' /\ Consistent(j, t)'
          /\ UNCHANGED <<intent, started, observed, result, resolution>>
      BY <2>10, <2>11, <3>1 DEF Settle
    <3>3. QED BY <3>1, <3>2 DEF Work, Running, Resolving
  <2>12. CASE Unsettled(c)
    <3>1. V2(j) /\ observed[j] # <<>> /\ j \in started /\ result[j] = None /\ resolution[j] = None
          /\ j \in intent
      BY <2>0, <2>12 DEF Unsettled, Work, Running
    <3>2. pc'[c] = "result" /\ terminal'[c] = Uncertain(Retained(j).rev) /\ UNCHANGED disk
      BY <2>12 DEF Unsettled
    <3>3. Len(observed[j]) \in 1..Len(observed[j]) /\ Retained(j) = observed[j][Len(observed[j])]
          /\ Retained(j).rev \in Nat
      BY <2>0, <3>1, LastObservation DEF Observation
    <3>4. PICK v : v = Uncertain(Retained(j).rev) OBVIOUS
    <3>5. v \in Verdict /\ v.status \notin Ends /\ v.rev = Retained(j).rev
      BY <3>3, <3>4, UncertainType, NotAnEnd
    <3>6. Consistent(j, v)' BY <3>2, <3>3, <3>5 DEF Consistent, disk, evidence
    <3>7. Consistent(j, t)' BY <3>2, <3>4, <3>6 DEF Consistent
    <3>8. QED BY <3>1, <3>2, <3>4, <3>5, <3>7 DEF Work, Running, Resolving, disk, admitted, evidence
  <2>13. CASE Reconsider(c)
    <3>1. /\ Status(j) = "uncertain" /\ pc'[c] = (IF Settling(j) THEN "resettle" ELSE "observe")
          /\ UNCHANGED disk
      BY <2>13 DEF Reconsider
    <3>2. V2(j) /\ j \in intent BY <2>0, <2>13 DEF Reconsider, Work
    <3>3. Status(j)' = "uncertain" /\ (Settling(j)' <=> Settling(j)) /\ j \in intent'
      BY <3>1, <3>2 DEF disk, admitted, evidence, Status, Final, Settling, Retained
    <3>4. QED BY <3>1, <3>2, <3>3 DEF Work, Running, Resolving
  <2>14. CASE Resettle(c)
    <3>1. V2(j) /\ Settling(j) /\ Status(j) = "uncertain" /\ j \in intent
      BY <2>0, <2>14 DEF Resettle, Work, Resolving
    <3>2. /\ pc'[c] = "resolve" /\ terminal'[c] \in Verdict /\ terminal'[c].status \in Ends
          /\ Ended(j)' /\ Consistent(j, t)'
          /\ UNCHANGED <<intent, started, observed, result, resolution>>
      BY <2>10, <2>14, <3>1 DEF Resettle
    <3>3. Status(j)' = "uncertain" BY <3>1, <3>2 DEF Status, Final
    <3>4. QED BY <3>1, <3>2, <3>3 DEF Work, Running, Resolving
  <2>15. ASSUME pc[c] = "observe", NEW r \in 0..Len(log[job[c]]), Observe(c, r)
         PROVE  Work(l, j, t)'
    <3>1. V2(j) /\ Status(j) = "uncertain" /\ j \in intent
      BY <2>0, <2>15 DEF Work, Resolving
    <3>2. /\ Retainable(j, Outcome(j, r)) /\ Retain(j, Outcome(j, r)) /\ Outcome(j, r).state \in Ends
          /\ pc'[c] = "resettle" /\ UNCHANGED <<intent, started, result, resolution>>
      BY <2>15 DEF Observe, admitted
    <3>3. Retained(j)' = Outcome(j, r) /\ observed'[j] # <<>>
      BY <2>0, <2>15, <3>1, <3>2, OutcomeFacts, Retaining
    <3>4. Settling(j)' BY <3>2, <3>3 DEF Settling
    <3>5. Status(j)' = "uncertain" BY <3>1, <3>2 DEF Status, Final
    <3>6. QED BY <3>1, <3>2, <3>4, <3>5 DEF Work, Running, Resolving
  <2>16. CASE Publish(c) \/ WriteResult(c) \/ Unanswered(c) \/ Resolve(c) \/ Fail(c)
    <3>1. pc'[c] = "idle"
      BY <2>16 DEF Publish, WriteResult, Unanswered, Resolve, Fail
    <3>2. QED BY <3>1
  <2>17. QED
    BY <1>2, <2>1, <2>2, <2>3, <2>4, <2>5, <2>6, <2>7, <2>8, <2>9, <2>11, <2>12, <2>13, <2>14,
       <2>15, <2>16 DEF Acts, Step
<1>3. (\E k \in Job : Prepare(c, k) \/ Run(c, k) \/ Reconcile(c, k))
      \/ (pc[c] # "idle" /\ job'[c] = job[c])
  BY DEF Acts, Step, Admit, Reserve, Publish, Begin, Claim, Start, Submit, Interrupted, Envelope,
         Answer, Settle, Unsettled, WriteResult, Reconsider, Unanswered, Resettle, SettleAs, Resolve,
         Fail, Observe
<1>4. QED BY <1>1, <1>2, <1>3

LEMMA WorkStep == IInv /\ [Next]_vars => WorkInv'
<1> SUFFICES ASSUME IInv, [Next]_vars PROVE WorkInv'
  OBVIOUS
<1>0. TypeOK' /\ CustodyInv' /\ EvidenceReadable' /\ EndedInv'
  BY TypeStep, CustodyStep, EvidenceStep, EndedStep
<1>1. ASSUME NEW c \in Client, Acts(c), NEW d \in Client, pc'[d] # "idle"
      PROVE  Work(pc[d], job[d], terminal[d])'
  <2>1. CASE d = c
    <3>1. PICK l \in Location \ {"idle"}, j \in Job, t \in {terminal'[d]} :
             l = pc'[d] /\ j = job'[d] /\ t = terminal'[d]
      BY <1>0, <1>1 DEF TypeOK, CustodyInv
    <3>2. Work(l, j, t)' BY <1>0, <1>1, <2>1, <3>1, OwnWork
    <3>3. QED BY <3>1, <3>2 DEF Work, Status, Final, Ended, Settling, Retained, Consistent
  <2>2. CASE d # c
    <3>0. Foreign(c) BY <1>1, Elsewhere
    <3>1. pc'[d] = pc[d] /\ job'[d] = job[d] /\ terminal'[d] = terminal[d]
      BY <2>2, <3>0 DEF Foreign
    <3>2. PICK l \in Location \ {"idle"}, j \in Job, t \in {terminal[d]} :
             l = pc[d] /\ j = job[d] /\ t = terminal[d]
      BY <1>1, <3>1, AtWork DEF IInv, TypeOK
    <3>3. Work(l, j, t) BY <3>2, AtWork
    <3>4. l \in InJob => SameJob(j)
      BY <2>2, <3>0, <3>2 DEF Foreign, IInv, CustodyInv, Writing, Running, Resolving, InJob
    <3>5. l = "start" => claim'[Place[j]] = claim[Place[j]]
      <4>1. SUFFICES ASSUME l = "start", claim'[Place[j]] # claim[Place[j]] PROVE FALSE OBVIOUS
      <4>2. pc[c] = "claim" /\ Place[j] = Place[job[c]]
        BY <3>0, <4>1, Places DEF Foreign
      <4>3. QED BY <2>2, <3>2, <4>1, <4>2 DEF IInv, CustodyInv, InWorkspace
    <3>6. Work(l, j, t)' BY <3>0, <3>3, <3>4, <3>5, WorkKept DEF Foreign
    <3>7. QED BY <3>1, <3>2, <3>6 DEF Work, Status, Final, Ended, Settling, Retained, Consistent
  <2>3. QED BY <2>1, <2>2
<1>2. ASSUME NEW k \in Job, Outside(k), NEW d \in Client, pc'[d] # "idle"
      PROVE  Work(pc[d], job[d], terminal[d])'
  <2>1. UNCHANGED <<disk, asked, pc, job, terminal>> BY <1>2 DEF Outside
  <2>2. Work(pc[d], job[d], terminal[d]) /\ job[d] \in Job BY <1>2, <2>1, AtWork
  <2>3. Ended(job[d]) => Ended(job[d])'
    <3>1. ~ Ended(k) /\ (job[d] # k => log'[job[d]] = log[job[d]])
      BY <1>2, <2>2 DEF Outside, Active, IInv, TypeOK
    <3>2. QED BY <2>1, <3>1 DEF Ended
  <2>4. QED BY <2>1, <2>2, <2>3
            DEF Work, disk, admitted, evidence, Status, Final, Settling, Retained, Consistent
<1>3. ASSUME UNCHANGED vars, NEW d \in Client, pc'[d] # "idle"
      PROVE  Work(pc[d], job[d], terminal[d])'
  <2>1. Work(pc[d], job[d], terminal[d]) BY <1>3, AtWork DEF vars
  <2>2. QED BY <1>3, <2>1
            DEF vars, outside, Work, disk, admitted, evidence, Status, Final, Settling, Retained,
                Consistent, Ended
<1>4. QED BY <1>1, <1>2, <1>3, SomeoneActs DEF WorkInv

LEMMA NextIInv == IInv /\ [Next]_vars => IInv'
BY TypeStep, CustodyStep, OutsideStep, LaunchStep, EvidenceStep, EndedStep, ClaimStep, WorkStep
   DEF IInv

LEMMA IInvHolds == Spec => []IInv
BY InitIInv, NextIInv, PTL DEF Spec
-----------------------------------------------------------------------------
(* The files of the jobs, what is outside and what is under way are well   *)
(* formed in every reachable state.                                        *)
THEOREM TypeCorrect == Spec => []TypeOK
<1>1. IInv => TypeOK
  BY DEF IInv
<1>2. QED BY IInvHolds, <1>1, PTL

(* Whatever launches, answers, reconciliations and deaths there were, what *)
(* is on disk is what inspect accepts, with one settlement at most, of the *)
(* last observation, and results that agree with it (coding-jobs.ts,       *)
(* 1214-1298, 1464-1527 and 1573-1717).                                    *)
THEOREM EvidenceStaysReadable == Spec => []EvidenceReadable
<1>1. IInv => EvidenceReadable
  BY DEF IInv
<1>2. QED BY IInvHolds, <1>1, PTL
-----------------------------------------------------------------------------
(* The refinement: each step is a step of ExternalWork or none.            *)
AbstractStep == [Abstract!Next]_(Abstract!vars)

(* A step that leaves every job's phase and what is outside. *)
LEMMA Stutters ==
    ASSUME \A k \in Job : Phase(k)' = Phase(k), UNCHANGED asked, Active' = Active
    PROVE  AbstractStep
<1>1. [k \in Job |-> Phase(k)]' = [k \in Job |-> Phase(k)] OBVIOUS
<1>2. QED BY <1>1 DEF AbstractStep, Abstract!vars

(* A step that moves one job to another phase. *)
LEMMA OnePhase ==
    ASSUME NEW j \in Job, NEW p, Phase(j)' = p, \A k \in Job \ {j} : Phase(k)' = Phase(k)
    PROVE  [k \in Job |-> Phase(k)]' = [[k \in Job |-> Phase(k)] EXCEPT ![j] = p]
OBVIOUS

(* The phase of a job with the same files. *)
LEMMA SamePhase ==
    ASSUME NEW k \in Job, SameJob(k), k \in intent' <=> k \in intent
    PROVE  Phase(k)' = Phase(k)
BY DEF SameJob, Phase, Status, Final

LEMMA StatusType ==
    ASSUME TypeOK, NEW k \in Job
    PROVE  Status(k) \in {"none", "prepared", "uncertain"} \union Ends
<1>1. Final(k) \in Verdict \union {None} BY DEF TypeOK, Final
<1>2. \A v \in Verdict : v.status \in {"uncertain"} \union Ends BY DEF Verdict
<1>3. QED BY <1>1, <1>2 DEF Status

LEMMA LaunchedIs ==
    ASSUME TypeOK, NEW k \in Job
    PROVE  Phase(k) = "launched" <=> Status(k) = "uncertain"
<1>1. Status(k) # "launched" BY StatusType DEF Ends
<1>2. QED BY <1>1 DEF Phase

(* A job whose end is written: asked for, and over outside. *)
LEMMA SettleRefines ==
    ASSUME IInv, NEW j \in Job, NEW s \in Ends, Status(j) = "uncertain", Status(j)' = s, Ended(j),
           \A k \in Job \ {j} : Phase(k)' = Phase(k), UNCHANGED outside
    PROVE  AbstractStep
<1>1. Phase(j) = "launched" BY LaunchedIs DEF IInv
<1>2. Phase(j)' = s BY NotAnEnd DEF Phase
<1>3. asked[j] = 1
  <2>1. log[j] # <<>> BY DEF Ended
  <2>2. QED BY <2>1 DEF IInv, OutsideInv
<1>4. j \notin Active BY DEF Active
<1>5. UNCHANGED asked /\ Active' = Active BY DEF outside, Active, Ended
<1>6. [k \in Job |-> Phase(k)]' = [[k \in Job |-> Phase(k)] EXCEPT ![j] = s]
  BY <1>2, OnePhase
<1>7. Abstract!Settle(j)
  BY <1>1, <1>3, <1>4, <1>5, <1>6 DEF Abstract!Settle, Ends
<1>8. QED BY <1>7 DEF AbstractStep, Abstract!Next

LEMMA PublishRefines ==
    ASSUME IInv, NEW c \in Client, Publish(c)
    PROVE  AbstractStep
<1>1. PICK j \in Job : j = job[c] /\ (V2(j) => admission[Operation[j]] = j)
  BY AtWork DEF Publish, Work
<1>2. /\ intent' = intent \union {j}
      /\ UNCHANGED <<started, result, resolution, observed, settlement, asked, log>>
  BY <1>1 DEF Publish, evidence, outside
<1>3. Active' = Active BY <1>2 DEF Active, Ended
<1>4. \A k \in Job \ {j} : Phase(k)' = Phase(k)
  BY <1>2, SamePhase DEF SameJob
<1>5. CASE j \in intent
  <2>1. Phase(j)' = Phase(j) BY <1>2, <1>5, SamePhase DEF SameJob
  <2>2. QED BY <1>2, <1>3, <1>4, <2>1, Stutters
<1>6. CASE j \notin intent
  <2>1. Phase(j) = "none" BY <1>6 DEF Phase, Status
  <2>2. j \notin started BY <1>6 DEF IInv, LaunchInv
  <2>3. Phase(j)' = "prepared" BY <1>2, <2>2 DEF Phase, Status
  <2>4. ASSUME NEW k \in Job \ {j}, Operation[k] # None, Operation[k] = Operation[j]
        PROVE  Phase(k) = "none"
    <3>1. k \notin intent
      BY <1>1, <2>4 DEF IInv, LaunchInv, V2
    <3>2. QED BY <3>1 DEF Phase, Status
  <2>5. [k \in Job |-> Phase(k)]' = [[k \in Job |-> Phase(k)] EXCEPT ![j] = "prepared"]
    BY <1>4, <2>3, OnePhase
  <2>6. Abstract!Prepare(j)
    BY <1>2, <1>3, <2>1, <2>4, <2>5 DEF Abstract!Prepare
  <2>7. QED BY <2>6 DEF AbstractStep, Abstract!Next
<1>7. QED BY <1>5, <1>6

LEMMA StartRefines ==
    ASSUME IInv, NEW c \in Client, Start(c)
    PROVE  AbstractStep
<1>1. PICK j \in Job : j = job[c] /\ j \in intent /\ j \notin started /\ claim[Place[j]] = j
  BY AtWork DEF Start, Work
<1>2. /\ started' = started \union {j}
      /\ UNCHANGED <<intent, result, resolution, observed, settlement, asked, log>>
  BY <1>1 DEF Start, admitted, evidence, outside
<1>3. Active' = Active BY <1>2 DEF Active, Ended
<1>4. \A k \in Job \ {j} : Phase(k)' = Phase(k)
  BY <1>2, SamePhase DEF SameJob
<1>5. Phase(j) = "prepared" BY <1>1 DEF Phase, Status
<1>6. Final(j) = None
  <2>1. Readable(j) BY ReadableEach DEF IInv
  <2>2. QED BY <1>1, <2>1 DEF Readable
<1>7. Phase(j)' = "launched" BY <1>1, <1>2, <1>6 DEF Phase, Status, Final
<1>8. ASSUME NEW k \in Abstract!Beside(j) PROVE Phase(k) # "launched" /\ k \notin Active
  <2>1. k \in Job /\ k # j /\ claim[Place[k]] # k
    BY <1>1 DEF Abstract!Beside
  <2>2. Status(k) # "uncertain" /\ k \notin Active
    BY <2>1 DEF IInv, ClaimInv
  <2>3. QED BY <2>1, <2>2, LaunchedIs DEF IInv
<1>9. [k \in Job |-> Phase(k)]' = [[k \in Job |-> Phase(k)] EXCEPT ![j] = "launched"]
  BY <1>4, <1>7, OnePhase
<1>10. \A k \in Abstract!Beside(j) : k \in Job BY DEF Abstract!Beside
<1>11. Abstract!Launch(j)
  BY <1>2, <1>3, <1>5, <1>8, <1>9, <1>10 DEF Abstract!Launch
<1>12. QED BY <1>11 DEF AbstractStep, Abstract!Next

LEMMA SubmitRefines ==
    ASSUME IInv, NEW c \in Client, Submit(c)
    PROVE  AbstractStep
<1>1. PICK j \in Job : /\ j = job[c] /\ asked[j] = 0 /\ j \in intent /\ j \in started
                       /\ result[j] = None /\ resolution[j] = None
  BY AtWork DEF Submit, Work, Running
<1>2. asked' = [asked EXCEPT ![j] = 1] /\ UNCHANGED log /\ UNCHANGED disk
  BY <1>1 DEF Submit
<1>3. Phase(j) = "launched" BY <1>1 DEF Phase, Status, Final
<1>4. log[j] = <<>> BY <1>1 DEF IInv, OutsideInv
<1>5. Active' = Active \union {j}
  BY <1>2, <1>4 DEF Active, Ended, IInv, TypeOK
<1>6. [k \in Job |-> Phase(k)]' = [k \in Job |-> Phase(k)]
  BY <1>2 DEF disk, admitted, evidence, Phase, Status, Final
<1>7. Abstract!Submit(j)
  BY <1>1, <1>2, <1>3, <1>5, <1>6 DEF Abstract!Submit
<1>8. QED BY <1>7 DEF AbstractStep, Abstract!Next

LEMMA OutsideRefines ==
    ASSUME IInv, NEW j \in Job, Outside(j)
    PROVE  AbstractStep
<1>1. PICK s \in State : log' = [log EXCEPT ![j] = Append(@, s)]
  BY DEF Outside, State, Ends
<1>2. UNCHANGED <<disk, asked>> /\ j \in Active BY DEF Outside
<1>3. [k \in Job |-> Phase(k)]' = [k \in Job |-> Phase(k)]
  BY <1>2 DEF disk, admitted, evidence, Phase, Status, Final
<1>4. PICK l \in Seq(State) : l = log[j] BY DEF IInv, TypeOK
<1>5. log'[j] = Append(l, s) /\ \A k \in Job \ {j} : log'[k] = log[k]
  BY <1>1, <1>4 DEF IInv, TypeOK
<1>6. Append(l, s) # <<>> /\ Append(l, s)[Len(Append(l, s))] = s
  OBVIOUS
<1>7. Ended(j)' <=> s \in Ends BY <1>5, <1>6 DEF Ended
<1>8. \A k \in Job \ {j} : k \in Active' <=> k \in Active
  BY <1>2, <1>5 DEF Active, Ended
<1>9. j \in Active' <=> s \notin Ends BY <1>2, <1>7 DEF Active
<1>10. Active \subseteq Job /\ Active' \subseteq Job BY DEF Active
<1>11. CASE s \in Ends
  <2>1. Active' = Active \ {j} BY <1>8, <1>9, <1>10, <1>11
  <2>2. Abstract!Finish(j) BY <1>2, <1>3, <2>1 DEF Abstract!Finish
  <2>3. QED BY <2>2 DEF AbstractStep, Abstract!Next
<1>12. CASE s \notin Ends
  <2>1. \A k \in Job : k \in Active' <=> k \in Active BY <1>2, <1>8, <1>9, <1>12
  <2>2. Active' = Active BY <1>10, <2>1
  <2>3. QED BY <1>2, <1>3, <2>2 DEF AbstractStep, Abstract!vars
<1>13. QED BY <1>11, <1>12

LEMMA ResultRefines ==
    ASSUME IInv, NEW c \in Client, WriteResult(c)
    PROVE  AbstractStep
<1>1. PICK j \in Job : /\ j = job[c] /\ j \in intent /\ j \in started
                       /\ result[j] = None /\ resolution[j] = None
                       /\ terminal[c] \in Verdict /\ (terminal[c].status \in Ends => Ended(j))
  BY AtWork DEF WriteResult, Work, Running
<1>2. /\ result' = [result EXCEPT ![j] = terminal[c]]
      /\ UNCHANGED <<intent, started, observed, settlement, resolution, outside>>
  BY <1>1 DEF WriteResult, admitted
<1>3. result'[j] = terminal[c] /\ \A k \in Job \ {j} : result'[k] = result[k]
  BY <1>2 DEF IInv, TypeOK
<1>4. \A k \in Job \ {j} : Phase(k)' = Phase(k)
  BY <1>2, <1>3 DEF Phase, Status, Final
<1>5. Status(j) = "uncertain" BY <1>1 DEF Status, Final
<1>6. terminal[c] # None BY <1>1, CodingRecords
<1>7. Status(j)' = terminal[c].status
  BY <1>1, <1>2, <1>3, <1>6 DEF Status, Final
<1>8. CASE terminal[c].status \in Ends
  BY <1>1, <1>2, <1>4, <1>5, <1>7, <1>8, SettleRefines
<1>9. CASE terminal[c].status \notin Ends
  <2>1. terminal[c].status = "uncertain" BY <1>1, <1>9 DEF Verdict
  <2>2. Phase(j)' = Phase(j) BY <1>5, <1>7, <2>1 DEF Phase
  <2>3. UNCHANGED asked /\ Active' = Active BY <1>2 DEF outside, Active, Ended
  <2>4. QED BY <1>4, <2>2, <2>3, Stutters
<1>10. QED BY <1>8, <1>9

LEMMA ResolveRefines ==
    ASSUME IInv, NEW c \in Client, Resolve(c)
    PROVE  AbstractStep
<1>1. PICK j \in Job : /\ j = job[c] /\ V2(j) /\ Status(j) = "uncertain"
                       /\ terminal[c] \in Verdict /\ terminal[c].status \in Ends /\ Ended(j)
  BY AtWork DEF Resolve, Work, Resolving
<1>2. j \in intent /\ j \in started BY <1>1 DEF Status
<1>3. resolution[j] = None
  <2>1. SUFFICES ASSUME resolution[j] # None PROVE FALSE OBVIOUS
  <2>2. Readable(j) BY ReadableEach DEF IInv
  <2>3. resolution[j].status \in Ends BY <1>1, <2>1, <2>2 DEF Readable
  <2>4. Status(j) \in Ends BY <1>2, <2>1, <2>3 DEF Status, Final
  <2>5. QED BY <1>1, <2>4, NotAnEnd
<1>4. Open(j) BY <1>1, <1>2, <1>3 DEF Status, Final, Open
<1>5. /\ resolution' = [resolution EXCEPT ![j] = terminal[c]]
      /\ UNCHANGED <<intent, started, observed, settlement, result, outside>>
  BY <1>1, <1>3, <1>4 DEF Resolve, admitted
<1>6. resolution'[j] = terminal[c] /\ \A k \in Job \ {j} : resolution'[k] = resolution[k]
  BY <1>5 DEF IInv, TypeOK
<1>7. \A k \in Job \ {j} : Phase(k)' = Phase(k)
  BY <1>5, <1>6 DEF Phase, Status, Final
<1>8. terminal[c] # None BY <1>1, CodingRecords
<1>9. Status(j)' = terminal[c].status
  BY <1>2, <1>5, <1>6, <1>8 DEF Status, Final
<1>10. QED BY <1>1, <1>5, <1>7, <1>9, SettleRefines

LEMMA NextRefines == IInv /\ [Next]_vars => AbstractStep
<1> SUFFICES ASSUME IInv, [Next]_vars PROVE AbstractStep
  OBVIOUS
<1>1. ASSUME UNCHANGED <<intent, started, result, resolution, asked, log>> PROVE AbstractStep
  <2>1. \A k \in Job : Phase(k)' = Phase(k) BY <1>1 DEF Phase, Status, Final
  <2>2. Active' = Active BY <1>1 DEF Active, Ended
  <2>3. QED BY <1>1, <2>1, <2>2, Stutters
<1>2. ASSUME NEW c \in Client, Acts(c) PROVE AbstractStep
  <2>1. CASE Publish(c) \/ Start(c) \/ Submit(c) \/ WriteResult(c) \/ Resolve(c)
    BY <2>1, PublishRefines, StartRefines, SubmitRefines, ResultRefines, ResolveRefines
  <2>2. CASE ~ (Publish(c) \/ Start(c) \/ Submit(c) \/ WriteResult(c) \/ Resolve(c))
    <3>1. UNCHANGED <<intent, started, result, resolution, asked, log>>
      BY <1>2, <2>2
         DEF Acts, Step, Prepare, Run, Reconcile, Enter, Admit, Reserve, Begin, Claim, Interrupted,
             Envelope, Answer, Settle, Unsettled, Reconsider, Unanswered, Resettle, SettleAs, Fail,
             Observe, disk, admitted, evidence, outside
    <3>2. QED BY <1>1, <3>1
  <2>3. QED BY <2>1, <2>2
<1>3. CASE UNCHANGED vars
  BY <1>1, <1>3 DEF vars, disk, admitted, evidence, outside
<1>4. QED BY <1>2, <1>3, OutsideRefines, SomeoneActs

(* Coding jobs implement the work they promise: however requests land,     *)
(* answers are lost and processes die, a job is launched and asked for     *)
(* once, alone in its workspace, and settled once, when it is over.        *)
THEOREM Refinement == Spec => ImplementsWork
<1>1. Init => Abstract!Init
  <2> SUFFICES ASSUME Init PROVE Abstract!Init
    OBVIOUS
  <2>1. \A k \in Job : Phase(k) = "none" BY DEF Init, Phase, Status
  <2>2. Active = {} BY DEF Init, Active
  <2>3. QED BY <2>1, <2>2 DEF Init, Abstract!Init
<1>2. IInv /\ [Next]_vars => [Abstract!Next]_(Abstract!vars)
  BY NextRefines DEF AbstractStep
<1>3. QED BY IInvHolds, <1>1, <1>2, PTL DEF Spec, ImplementsWork, Abstract!Spec
=============================================================================
