----------------------------- MODULE RunSweep -----------------------------
(***************************************************************************)
(* One run of a manifest: runInto of src/src/run.ts, the sweep that        *)
(* decides which cells activate, which are skipped and how a failure, a    *)
(* suspension or an exhausted budget ends the run, through every level of  *)
(* embedded manifests.                                                     *)
(*                                                                         *)
(* A manifest lists cells, joined by edges, in any order.  What a cell     *)
(* computes is abstracted to how its activation ends and what it costs; a  *)
(* value on an edge to whether it is delivered.  An embedding cell         *)
(* (organism, spawn, repeat, each) runs its child a number of times, one   *)
(* frame of the stack for the run under way.  The root's budgets bound     *)
(* every level.                                                            *)
(***************************************************************************)
EXTENDS Naturals, Sequences, FiniteSets, SequencesExt

CONSTANTS
    Manifest,   \* the manifests there are, those they embed among them
    Activation, \* what an activation costs (100 units in the code)
    Fuel,       \* what evaluating a guard costs
    Cost,       \* what an activation may spend besides
    None

(* Bytes, tools and fuel are bounded, so some activation is the dearest.   *)
ASSUME CostAssumption ==
    /\ Activation \in Nat /\ Fuel \in Nat
    /\ Cost \subseteq Nat /\ \E c \in Cost : \A d \in Cost : d <= c

(* An edge carries a "value", a value behind a guard or from a port that   *)
(* may stay empty ("guarded"), the elements of a "list", or the record of  *)
(* a failure ("fail").                                                     *)
Into(m, c) == {i \in DOMAIN m.edges : m.edges[i].to = c}
Handled(m, c) == \E i \in DOMAIN m.edges : m.edges[i].from = c /\ m.edges[i].on = "fail"

(* What the compiler admits: edges join cells of the manifest and make no  *)
(* cycle, a child is a manifest (graph.ts, 669-698).                       *)
Compiled(m) ==
    LET cells == ToSet(m.cells) IN
    /\ m.cells \in Seq(cells) /\ m.edges \in Seq(ToSet(m.edges))
    /\ \A i \in DOMAIN m.edges :
          /\ {m.edges[i].from, m.edges[i].to} \subseteq cells
          /\ m.edges[i].on \in {"value", "guarded", "list", "fail"}
    /\ \A c \in cells : \A p \in m.ports[c] : p.optional \in BOOLEAN
    /\ m.child \in [cells -> Manifest \union {None}]
    /\ m.rounds \in [cells -> SUBSET Nat]
    /\ m.budgets \in [steps : Nat, work : Nat, depth : Nat]
    /\ \A S \in SUBSET cells \ {{}} : \E c \in S : \A i \in Into(m, c) : m.edges[i].from \notin S

Cell == UNION {ToSet(m.cells) : m \in Manifest}
Failure == [path : Seq(Cell), code : {"steps", "work", "guard", "depth", "thrown"}]

ASSUME ManifestAssumption == \A m \in Manifest : Compiled(m)
ASSUME NoneAssumption == None \notin Manifest \union Failure
                         /\ None \notin {"complete", "failed", "stuck", "suspended", "aborted"}

VARIABLES
    stack,      \* the runs under way, the root's first
    failure,    \* the failure the receipt would name, or None
    suspended,  \* an effect asked the host to pause
    steps, units, \* activations and work spent
    outcome     \* how the root's run ended, or None

vars == <<stack, failure, suspended, steps, units, outcome>>
-----------------------------------------------------------------------------
Enter(m) ==
    [man   |-> m,
     state |-> [c \in ToSet(m.cells) |-> "pending"],
     edge  |-> [i \in DOMAIN m.edges |-> "pending"],
     at    |-> 1,      \* the cell the pass has come to
     moved |-> FALSE,  \* this pass settled a cell
     left  |-> 0]      \* runs of the child still to come

budgets == stack[1].man.budgets
top == Last(stack)
CellOf(f) == f.man.cells[f.at]
here == CellOf(top)
AtCell == outcome = None /\ top.at <= Len(top.man.cells)

(* Where a failure is placed: the cells that embed it, then its own.       *)
Path(s) == [k \in 1..Len(s) |-> CellOf(s[k])]
Fault(s, code) == [path |-> Path(s), code |-> code]

Stopped(f) == [f EXCEPT !.at = Len(f.man.cells) + 1]
Onward(f) == [f EXCEPT !.at = @ + 1]
WithTop(s, f) == [s EXCEPT ![Len(s)] = f]

Status == {"pending", "done", "skipped", "failed", "suspended"}
Run(m) == [man : {m}, state : [ToSet(m.cells) -> Status],
           edge : [DOMAIN m.edges -> {"pending", "delivered", "empty", "dead"}],
           at : 1..Len(m.cells) + 1, moved : BOOLEAN, left : Nat]
TypeOK ==
    /\ stack \in Seq(ToSet(stack)) /\ stack # <<>>
    /\ \A f \in ToSet(stack) : f.man \in Manifest /\ f \in Run(f.man)
    /\ failure \in Failure \union {None}
    /\ suspended \in BOOLEAN /\ steps \in Nat /\ units \in Nat
    /\ outcome \in {None, "complete", "failed", "stuck", "suspended", "aborted"}

Init ==
    /\ \E m \in Manifest : stack = <<Enter(m)>>
    /\ failure = None /\ suspended = FALSE
    /\ steps = 0 /\ units = 0
    /\ outcome = None
-----------------------------------------------------------------------------
(* Mistake: a cell waits until one of them is.                             *)
NoneDecided(f, c) ==
    /\ Into(f.man, c) # {}
    /\ \A i \in Into(f.man, c) : f.state[f.man.edges[i].from] = "pending"

(* A cell waits until every producer is settled (397-407).                 *)
Undecided(f, c) == \E i \in Into(f.man, c) : f.state[f.man.edges[i].from] = "pending"

Due == AtCell /\ top.state[here] = "pending" /\ ~ Undecided(top, here)

PassOver ==
    /\ AtCell /\ ~ Due
    /\ stack' = WithTop(stack, Onward(top))
    /\ UNCHANGED <<failure, suspended, steps, units, outcome>>

(* resolveEdge: what may come of an edge whose producer is settled, and    *)
(* what it costs to find out (322-390).                                    *)
Readings(e, s) ==
    CASE e.on = "fail" -> {<<IF s = "failed" THEN "delivered" ELSE "dead", 0>>}
      [] e.on # "fail" /\ s # "done" -> {<<"dead", 0>>}
      [] e.on = "value" /\ s = "done" -> {<<"delivered", 0>>}
      [] e.on = "list" /\ s = "done" -> {<<"delivered", 0>>, <<"empty", 0>>}
      [] OTHER -> {<<"dead", 0>>, <<"dead", Fuel>>, <<"delivered", Fuel>>}

Unresolved(f, c) == {i \in Into(f.man, c) : f.edge[i] = "pending"}
NextEdge == CHOOSE i \in Unresolved(top, here) : \A j \in Unresolved(top, here) : i <= j

(* The incoming edges are resolved in the manifest's order, each once; an  *)
(* exhausted budget ends the run before the next one (408-419).            *)
ResolveEdge ==
    /\ Due /\ Unresolved(top, here) # {}
    /\ \E r \in Readings(top.man.edges[NextEdge], top.state[top.man.edges[NextEdge].from]) :
          LET f == [top EXCEPT !.edge[NextEdge] = r[1]] IN
          /\ units' = units + r[2]
          /\ IF units' > budgets.work
             THEN failure' = Fault(stack, "work") /\ stack' = WithTop(stack, Stopped(f))
             ELSE stack' = WithTop(stack, f) /\ UNCHANGED failure
    /\ UNCHANGED <<suspended, steps, outcome>>

(* A guard that does not evaluate ends the run (354-372, 415-418).         *)
GuardFails ==
    /\ Due /\ Unresolved(top, here) # {}
    /\ top.man.edges[NextEdge].on = "guarded"
    /\ top.state[top.man.edges[NextEdge].from] = "done"
    /\ units' = units + Fuel
    /\ failure' = Fault(stack, "guard")
    /\ stack' = WithTop(stack, Stopped(top))
    /\ UNCHANGED <<suspended, steps, outcome>>

(* A cell with inputs needs one of them, and every required one (428-461). *)
Fed(f, c, p) == \E i \in Into(f.man, c) : f.man.edges[i].port = p /\ f.edge[i] = "delivered"
Wanted(f, c) ==
    LET ports == f.man.ports[c] IN
    \/ ports = {}
    \/ /\ \E p \in ports : Fed(f, c, p.name)
       /\ \A p \in ports : p.optional \/ Fed(f, c, p.name)

Resolved == Due /\ Unresolved(top, here) = {}

(* markDownstreamDead: what a skipped cell would have said is never said.  *)
Skip ==
    /\ Resolved /\ ~ Wanted(top, here)
    /\ stack' = WithTop(stack, Onward([top EXCEPT
          !.state[here] = "skipped",
          !.edge = [i \in DOMAIN @ |->
              IF top.man.edges[i].from = here /\ @[i] = "pending" THEN "dead" ELSE @[i]],
          !.moved = TRUE]))
    /\ UNCHANGED <<failure, suspended, steps, units, outcome>>
-----------------------------------------------------------------------------
(* Mistakes: the inner failure stays recorded; only a commit is checked.   *)
KeptAnyway(f, how, blamed) == blamed
SpentOnCommit(f, how) == how = "done" /\ units' > budgets.work

(* The run goes on past a commit and past a failure some fail edge leads   *)
(* away from, which absorbs whatever failed deeper in (542-549).           *)
GoesOn(f, how) == how = "done" \/ (how = "failed" /\ Handled(f.man, CellOf(f)))
Kept(f, how, blamed) == IF how = "failed" /\ GoesOn(f, how) THEN None ELSE blamed

(* Either has spent work, and the budget is looked at before anything else *)
(* activates (556-561).                                                    *)
Spent(f, how) == GoesOn(f, how) /\ units' > budgets.work

(* The end of an activation in the last run of s: a commit, a failure or a *)
(* suspension (487-561).                                                   *)
Conclude(s, how, blamed) ==
    LET f == Last(s)
        kept == Kept(f, how, blamed)
        settled == [f EXCEPT !.state[CellOf(f)] = how, !.moved = TRUE]
    IN
    /\ suspended' = (suspended \/ how = "suspended")
    /\ failure' = IF kept # None THEN kept
                  ELSE IF Spent(f, how) THEN Fault(s, "work")
                  ELSE IF how = "failed" /\ ~ GoesOn(f, how) THEN Fault(s, "thrown")
                  ELSE None
    /\ stack' = WithTop(s, IF GoesOn(f, how) /\ ~ Spent(f, how) THEN Onward(settled) ELSE Stopped(settled))

(* The child is run n times, one after the other, or refused for its depth *)
(* before any of its cells is looked at (297-299).                         *)
RunChild(s, n) ==
    LET f == Last(s) IN
    IF n = 0 THEN Conclude(s, "done", failure)
    ELSE IF Len(s) > budgets.depth THEN Conclude(s, "failed", Fault(s, "depth"))
    ELSE /\ stack' = Append(WithTop(s, [f EXCEPT !.left = n - 1]), Enter(f.man.child[CellOf(f)]))
         /\ UNCHANGED <<failure, suspended>>

Activating == Resolved /\ Wanted(top, here)
Embeds == top.man.child[here] # None

(* The step budget is tested before an activation (471-474).               *)
OutOfSteps ==
    /\ Activating /\ steps + 1 > budgets.steps
    /\ failure' = Fault(stack, "steps")
    /\ stack' = WithTop(stack, Stopped(top))
    /\ UNCHANGED <<suspended, steps, units, outcome>>

(* A cell that computes, calls a tool or asks a provider; any cell may     *)
(* refuse what it is delivered.                                            *)
Activate ==
    /\ Activating /\ steps + 1 <= budgets.steps
    /\ steps' = steps + 1
    /\ \/ /\ ~ Embeds
          /\ \E cost \in Cost, how \in {"done", "failed", "suspended"} :
                units' = units + Activation + cost /\ Conclude(stack, how, failure)
       \/ /\ Embeds
          /\ units' = units + Activation
          /\ \/ Conclude(stack, "failed", failure)
             \/ \E n \in top.man.rounds[here] : RunChild(stack, n)
    /\ UNCHANGED outcome

(* A poisoned journal is not a failure of the cell: no fail edge sees it   *)
(* and the run has no receipt (509-510, 610-612).                          *)
Abort ==
    /\ Activating /\ steps + 1 <= budgets.steps /\ ~ Embeds
    /\ steps' = steps + 1 /\ units' = units + Activation
    /\ outcome' = "aborted"
    /\ UNCHANGED <<stack, failure, suspended>>
-----------------------------------------------------------------------------
AtEnd == outcome = None /\ top.at > Len(top.man.cells)
Another == top.moved /\ failure = None /\ ~ suspended

(* Passes are made as long as one settles a cell (394-397).                *)
PassAgain ==
    /\ AtEnd /\ Another
    /\ stack' = WithTop(stack, [top EXCEPT !.at = 1, !.moved = FALSE])
    /\ UNCHANGED <<failure, suspended, steps, units, outcome>>

Result == IF suspended THEN "suspended"
          ELSE IF failure # None THEN "failed"
          ELSE IF \E c \in DOMAIN top.state : top.state[c] = "pending" THEN "stuck"
          ELSE "complete"

(* The run ends, or the run of a child ends its round (565-573, 1545-1678).*)
(* An embedding cell may refuse what a complete child hands out, too.      *)
Return ==
    /\ AtEnd /\ ~ Another
    /\ IF Len(stack) = 1
       THEN outcome' = Result /\ UNCHANGED <<stack, failure, suspended, units>>
       ELSE /\ units' = units
            /\ \/ Result = "complete" /\ RunChild(Front(stack), stack[Len(stack) - 1].left)
               \/ Result = "suspended" /\ Conclude(Front(stack), "suspended", failure)
               \/ Result # "suspended" /\ Conclude(Front(stack), "failed", failure)
            /\ UNCHANGED outcome
    /\ UNCHANGED steps

Next ==
    \/ PassOver \/ ResolveEdge \/ GuardFails \/ Skip \/ OutOfSteps \/ Activate \/ Abort
    \/ PassAgain \/ Return

Spec == Init /\ [][Next]_vars
-----------------------------------------------------------------------------
(* Whatever the order in which a manifest lists its cells, each is settled *)
(* as its edges say, at every level: after all of its producers, skipped   *)
(* exactly if any one required input or all of them together came to       *)
(* nothing, and fed a failure exactly by a cell that failed (run.ts,       *)
(* 428-461).  spec/v1/organism.md, 823, skips a cell when every required   *)
(* input is empty; a cell with one of two required inputs is skipped too.  *)
FollowsEdges ==
    \A k \in 1..Len(stack) : \A c \in DOMAIN stack[k].state :
        LET f == stack[k]
            From(i) == f.state[f.man.edges[i].from]
            Says(p) == \E i \in Into(f.man, c) :
                          /\ f.man.edges[i].port = p
                          /\ IF f.man.edges[i].on \in {"fail", "value"}
                             THEN From(i) = IF f.man.edges[i].on = "fail" THEN "failed" ELSE "done"
                             ELSE From(i) = "done" /\ f.edge[i] = "delivered"
        IN f.state[c] # "pending" =>
              /\ \A i \in Into(f.man, c) : From(i) \in {"done", "skipped", "failed"}
              /\ f.state[c] = "skipped" <=>
                    /\ f.man.ports[c] # {}
                    /\ \/ \A p \in f.man.ports[c] : ~ Says(p.name)
                       \/ \E p \in f.man.ports[c] : ~ p.optional /\ ~ Says(p.name)

(* The manifests a failure's path leads through.                           *)
Through(p) ==
    LET m[k \in 1..Len(p)] == IF k = 1 THEN stack[1].man ELSE m[k - 1].child[p[k - 1]] IN m

(* The receipt's outcome is what its cells say: a run that completes left  *)
(* no failure that its structure did not declare handled; a failure it     *)
(* names was handled at none of the levels it passed through; a suspended  *)
(* run has no failure; none is stuck (organism.md, 790-798 and 846-855).   *)
OutcomeJustified ==
    /\ outcome = "complete" =>
          /\ failure = None
          /\ \A c \in DOMAIN top.state :
                \/ top.state[c] \in {"done", "skipped"}
                \/ top.state[c] = "failed" /\ Handled(top.man, c)
    /\ outcome = "failed" =>
          \A k \in 1..Len(failure.path) :
              \/ ~ Handled(Through(failure.path)[k], failure.path[k])
              \/ k = Len(failure.path) /\ failure.code \in {"steps", "work", "guard"}
    /\ outcome = "suspended" => failure = None /\ \E c \in DOMAIN top.state : top.state[c] = "suspended"
    /\ outcome # "stuck"

(* Absorbed failures, guards and nested runs included, a run spends no     *)
(* more than its budgets and the one chain of activations that crossed     *)
(* them (spec/v1/foundry.md, 47; organism.md, 862-876).                    *)
Dearest == CHOOSE c \in Cost : \A d \in Cost : d <= c
SpendBounded ==
    /\ steps <= budgets.steps
    /\ units <= budgets.work + Fuel + Activation * (budgets.depth + 1) + Dearest
=============================================================================
