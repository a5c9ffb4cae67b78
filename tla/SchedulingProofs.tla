-------------------------- MODULE SchedulingProofs --------------------------
(***************************************************************************)
(* Proofs about the two schedulers: RunSweep, of the cells of a run, and   *)
(* Scheduler, of the processes of a store (the last section).              *)
(*                                                                         *)
(* RunSweep, for every set of manifests the compiler admits, however deep  *)
(* they nest, and every cost.                                              *)
(*                                                                         *)
(* All levels share one failure, and one level may absorb what another     *)
(* recorded.  It stays one account because whatever fails for good ends    *)
(* the last run only, and the cells above it are still being activated     *)
(* (Levels, TopOK).  So a failure is placed along the runs under way, and  *)
(* nobody below the last of them has handled it (BlameInv); the work spent *)
(* past the budget is what these cells cost (SpendInv); and a pass that    *)
(* settles nothing leaves only cells that wait for others (WaitInv), which *)
(* no acyclic manifest has.                                                *)
(***************************************************************************)
EXTENDS RunSweep, Scheduler, WellFoundedInduction, TLAPS

Frame == UNION {Run(m) : m \in Manifest}
Cells(f) == ToSet(f.man.cells)
Final == {"done", "skipped", "failed"}

(* Nothing in this run has failed for good or asked for a pause.           *)
Calm(f) == \A c \in Cells(f) :
    \/ f.state[c] \in {"pending", "done", "skipped"}
    \/ f.state[c] = "failed" /\ Handled(f.man, c)

(* What an edge e says, x, given how its producer ended, s.                *)
Sign(e) == IF e.on = "fail" THEN "failed" ELSE "done"
Told(e, s, x) ==
    /\ s \in Final
    /\ x = "delivered" => s = Sign(e)
    /\ e.on \in {"fail", "value"} /\ x # "delivered" => s # Sign(e)

(* An edge says what its producer's end makes it say, and a settled cell   *)
(* was settled by edges that are all resolved.                             *)
Sound(f) ==
    /\ \A i \in DOMAIN f.man.edges :
          f.edge[i] # "pending" => Told(f.man.edges[i], f.state[f.man.edges[i].from], f.edge[i])
    /\ \A c \in Cells(f) : f.state[c] # "pending" =>
          Unresolved(f, c) = {} /\ (f.state[c] = "skipped" <=> ~ Wanted(f, c))

(* The cell a run has come to is being activated.                          *)
Active(f) ==
    /\ f.at <= Len(f.man.cells)
    /\ f.state[CellOf(f)] = "pending"
    /\ Unresolved(f, CellOf(f)) = {} /\ Wanted(f, CellOf(f))
    /\ Calm(f)

Levels(s) == \A k \in 1..Len(s) - 1 : Active(s[k]) /\ s[k].man.child[CellOf(s[k])] = s[k + 1].man
Sounds(s) == \A k \in 1..Len(s) : Sound(s[k])

(* Whatever fails for good or asks for a pause ends the last run.          *)
TopOK(s, fail, susp) ==
    /\ fail # None => ~ susp
    /\ IF fail = None /\ ~ susp THEN Calm(Last(s)) ELSE Last(s).at > Len(Last(s).man.cells)
    /\ susp => \E c \in Cells(Last(s)) : Last(s).state[c] = "suspended"

StackOK(s, fail, susp) ==
    /\ s \in Seq(Frame) /\ s # <<>>
    /\ fail \in Failure \union {None} /\ susp \in BOOLEAN
    /\ Levels(s) /\ Sounds(s) /\ TopOK(s, fail, susp)
SweepInv == TypeOK /\ StackOK(stack, failure, suspended)
-----------------------------------------------------------------------------
Below == {p \in Nat \X Nat : p[1] < p[2]}

LEMMA BelowWellFounded == IsWellFoundedOn(Below, Nat)
  BY NatLessThanWellFounded DEF OpToRel, Below

LEMMA LeastNumber ==
    ASSUME NEW S \in SUBSET Nat, S # {}
    PROVE  \E i \in S : \A j \in S : i <= j
<1>1. \E i \in S : \A j \in S : <<j, i>> \notin Below
  BY BelowWellFounded, WFMin
<1>2. \A i, j \in S : <<j, i>> \notin Below => i <= j
  BY DEF Below
<1> QED BY <1>1, <1>2

LEMMA FrameFields ==
    ASSUME NEW f \in Frame
    PROVE  /\ f.man \in Manifest /\ f \in Run(f.man)
           /\ f.state \in [Cells(f) -> Status]
           /\ f.edge \in [DOMAIN f.man.edges -> {"pending", "delivered", "empty", "dead"}]
           /\ f.at \in 1..Len(f.man.cells) + 1 /\ f.moved \in BOOLEAN /\ f.left \in Nat
  BY DEF Frame, Run, Cells

LEMMA FrameManifest ==
    ASSUME NEW f \in Frame
    PROVE  /\ f.man.cells \in Seq(Cells(f)) /\ Len(f.man.cells) \in Nat
           /\ f.man.edges \in Seq(ToSet(f.man.edges)) /\ DOMAIN f.man.edges = 1..Len(f.man.edges)
           /\ \A i \in DOMAIN f.man.edges :
                 /\ f.man.edges[i].from \in Cells(f) /\ f.man.edges[i].to \in Cells(f)
                 /\ f.man.edges[i].on \in {"value", "guarded", "list", "fail"}
           /\ f.man.child \in [Cells(f) -> Manifest \union {None}]
           /\ \A c \in Cells(f) : f.man.rounds[c] \subseteq Nat
           /\ f.man.budgets.steps \in Nat /\ f.man.budgets.work \in Nat /\ f.man.budgets.depth \in Nat
           /\ f.at <= Len(f.man.cells) => CellOf(f) \in Cells(f)
<1>1. f.man \in Manifest /\ f.at \in 1..Len(f.man.cells) + 1
  BY FrameFields
<1>2. Compiled(f.man)
  BY <1>1, ManifestAssumption
<1>3. f.man.cells \in Seq(Cells(f)) /\ Len(f.man.cells) \in Nat
  BY <1>2 DEF Compiled, Cells
<1>4. f.man.edges \in Seq(ToSet(f.man.edges)) /\ DOMAIN f.man.edges = 1..Len(f.man.edges)
  BY <1>2 DEF Compiled
<1>5. \A i \in DOMAIN f.man.edges :
          /\ f.man.edges[i].from \in Cells(f) /\ f.man.edges[i].to \in Cells(f)
          /\ f.man.edges[i].on \in {"value", "guarded", "list", "fail"}
  BY <1>2 DEF Compiled, Cells
<1>6. /\ f.man.child \in [Cells(f) -> Manifest \union {None}]
      /\ \A c \in Cells(f) : f.man.rounds[c] \subseteq Nat
  BY <1>2 DEF Compiled, Cells
<1>7. f.man.budgets.steps \in Nat /\ f.man.budgets.work \in Nat /\ f.man.budgets.depth \in Nat
  BY <1>2 DEF Compiled
<1>8. f.at <= Len(f.man.cells) => CellOf(f) \in Cells(f)
  BY <1>1, <1>3 DEF CellOf
<1> QED BY <1>3, <1>4, <1>5, <1>6, <1>7, <1>8

LEMMA FrameMade ==
    ASSUME NEW f \in Frame
    PROVE  /\ \A a \in 1..Len(f.man.cells) + 1 : [f EXCEPT !.at = a] \in Frame
           /\ \A n \in Nat : [f EXCEPT !.left = n] \in Frame
           /\ \A b \in BOOLEAN : [f EXCEPT !.moved = b] \in Frame
           /\ \A c \in Cells(f), s \in Status : [f EXCEPT !.state[c] = s] \in Frame
           /\ \A i \in DOMAIN f.man.edges, x \in {"pending", "delivered", "empty", "dead"} :
                 [f EXCEPT !.edge[i] = x] \in Frame
           /\ \A e \in [DOMAIN f.man.edges -> {"pending", "delivered", "empty", "dead"}] :
                 [f EXCEPT !.edge = e] \in Frame
<1> DEFINE Edges == {"pending", "delivered", "empty", "dead"}
<1>1. PICK m \in Manifest : f \in Run(m)
  BY DEF Frame
<1>2. f.man = m /\ Run(m) \subseteq Frame
  BY <1>1 DEF Run, Frame
<1>3. \A a \in 1..Len(m.cells) + 1 : [f EXCEPT !.at = a] \in Run(m)
  BY <1>1 DEF Run
<1>4. \A n \in Nat : [f EXCEPT !.left = n] \in Run(m)
  BY <1>1 DEF Run
<1>5. \A b \in BOOLEAN : [f EXCEPT !.moved = b] \in Run(m)
  BY <1>1 DEF Run
<1>6. \A c \in ToSet(m.cells), s \in Status : [f EXCEPT !.state[c] = s] \in Run(m)
  BY <1>1 DEF Run
<1>7. \A i \in DOMAIN m.edges, x \in Edges : [f EXCEPT !.edge[i] = x] \in Run(m)
  BY <1>1 DEF Run
<1>8. \A e \in [DOMAIN m.edges -> Edges] : [f EXCEPT !.edge = e] \in Run(m)
  BY <1>1 DEF Run
<1> QED BY <1>2, <1>3, <1>4, <1>5, <1>6, <1>7, <1>8 DEF Cells

LEMMA EnterFrame ==
    ASSUME NEW m \in Manifest
    PROVE  Enter(m) \in Frame /\ Enter(m).man = m /\ Calm(Enter(m)) /\ Sound(Enter(m))
<1>1. Compiled(m)
  BY ManifestAssumption
<1>2. m.cells \in Seq(ToSet(m.cells)) /\ Len(m.cells) \in Nat
  BY <1>1 DEF Compiled
<1>3. Enter(m) \in Frame
  BY <1>2 DEF Enter, Frame, Run, Status
<1>4. \A i \in DOMAIN m.edges : m.edges[i].from \in ToSet(m.cells)
  BY <1>1 DEF Compiled
<1> QED BY <1>3, <1>4 DEF Enter, Calm, Sound, Cells
-----------------------------------------------------------------------------
(* What a run's cells and edges say does not depend on where it has come.  *)
LEMMA SameCells ==
    ASSUME NEW f, NEW g, g.man = f.man, g.state = f.state, g.edge = f.edge
    PROVE  (Sound(f) => Sound(g)) /\ (Calm(f) => Calm(g))
  BY DEF Sound, Calm, Cells, Unresolved, Wanted, Fed

LEMMA PlaceMoved ==
    ASSUME NEW f \in Frame, NEW a \in 1..Len(f.man.cells) + 1, NEW g, g = [f EXCEPT !.at = a]
    PROVE  /\ g \in Frame /\ g.at = a
           /\ g.man = f.man /\ g.state = f.state /\ g.edge = f.edge
           /\ g.moved = f.moved /\ g.left = f.left
<1>1. g \in Frame
  BY FrameMade
<1>2. f \in Run(f.man)
  BY FrameFields
<1> QED BY <1>1, <1>2 DEF Run

LEMMA GoneOn ==
    ASSUME NEW f \in Frame, f.at <= Len(f.man.cells)
    PROVE  /\ Onward(f) \in Frame /\ Onward(f).at = f.at + 1
           /\ Onward(f).man = f.man /\ Onward(f).state = f.state /\ Onward(f).edge = f.edge
           /\ Onward(f).moved = f.moved /\ Onward(f).left = f.left
<1>1. f.at + 1 \in 1..Len(f.man.cells) + 1
  BY FrameFields, FrameManifest
<1> QED BY <1>1, PlaceMoved DEF Onward

LEMMA Halted ==
    ASSUME NEW f \in Frame
    PROVE  /\ Stopped(f) \in Frame /\ Stopped(f).at = Len(f.man.cells) + 1
           /\ Stopped(f).at > Len(f.man.cells)
           /\ Stopped(f).man = f.man /\ Stopped(f).state = f.state /\ Stopped(f).edge = f.edge
<1>1. Len(f.man.cells) + 1 \in 1..Len(f.man.cells) + 1 /\ Len(f.man.cells) \in Nat
  BY FrameManifest
<1> QED BY <1>1, PlaceMoved DEF Stopped

(* A cell that is settled had said nothing before.                         *)
LEMMA Silent ==
    ASSUME NEW f \in Frame, Sound(f), NEW c \in Cells(f), f.state[c] = "pending",
           NEW i \in DOMAIN f.man.edges, f.man.edges[i].from = c
    PROVE  f.edge[i] = "pending"
  BY DEF Sound, Told, Final

LEMMA Settling ==
    ASSUME NEW f \in Frame, NEW g \in Frame, Sound(f),
           NEW c \in Cells(f), f.state[c] = "pending", Unresolved(f, c) = {}, Wanted(f, c),
           NEW how \in {"done", "failed", "suspended"},
           g.man = f.man, g.edge = f.edge, g.state = [f.state EXCEPT ![c] = how]
    PROVE  /\ Sound(g)
           /\ Calm(f) /\ (how = "done" \/ (how = "failed" /\ Handled(f.man, c))) => Calm(g)
<1>1. f.state \in [Cells(f) -> Status]
  BY FrameFields
<1>2. \A d \in Cells(f) : g.state[d] = IF d = c THEN how ELSE f.state[d]
  BY <1>1
<1>3. ASSUME NEW i \in DOMAIN f.man.edges, g.edge[i] # "pending"
      PROVE  Told(g.man.edges[i], g.state[g.man.edges[i].from], g.edge[i])
  <2>1. f.man.edges[i].from # c
    BY <1>3, Silent
  <2>2. f.man.edges[i].from \in Cells(f)
    BY FrameManifest
  <2>3. Told(f.man.edges[i], f.state[f.man.edges[i].from], f.edge[i])
    BY <1>3 DEF Sound
  <2> QED BY <1>2, <2>1, <2>2, <2>3
<1>4. \A d \in Cells(f) : Unresolved(g, d) = Unresolved(f, d) /\ (Wanted(g, d) <=> Wanted(f, d))
  BY DEF Unresolved, Wanted, Fed
<1>5. ASSUME NEW d \in Cells(f), g.state[d] # "pending"
      PROVE  Unresolved(g, d) = {} /\ (g.state[d] = "skipped" <=> ~ Wanted(g, d))
  <2>1. CASE d = c
    BY <1>2, <1>4, <2>1
  <2>2. CASE d # c
    BY <1>2, <1>4, <1>5, <2>2 DEF Sound
  <2> QED BY <2>1, <2>2
<1>6. Sound(g)
  BY <1>3, <1>5 DEF Sound, Cells
<1>7. Calm(f) /\ (how = "done" \/ (how = "failed" /\ Handled(f.man, c))) => Calm(g)
  BY <1>2 DEF Calm, Cells
<1> QED BY <1>6, <1>7

LEMMA Skipping ==
    ASSUME NEW f \in Frame, NEW g \in Frame, Sound(f),
           NEW c \in Cells(f), f.state[c] = "pending", Unresolved(f, c) = {}, ~ Wanted(f, c),
           g.man = f.man, g.state = [f.state EXCEPT ![c] = "skipped"],
           \A i \in DOMAIN f.man.edges : g.edge[i] =
               IF f.man.edges[i].from = c /\ f.edge[i] = "pending" THEN "dead" ELSE f.edge[i]
    PROVE  Sound(g) /\ (Calm(f) => Calm(g))
<1>1. f.state \in [Cells(f) -> Status]
  BY FrameFields
<1>2. \A d \in Cells(f) : g.state[d] = IF d = c THEN "skipped" ELSE f.state[d]
  BY <1>1
<1>3. ASSUME NEW i \in DOMAIN f.man.edges, g.edge[i] # "pending"
      PROVE  Told(g.man.edges[i], g.state[g.man.edges[i].from], g.edge[i])
  <2>1. CASE f.man.edges[i].from = c
    BY <1>2, <2>1, Silent DEF Told, Final, Sign
  <2>2. CASE f.man.edges[i].from # c
    <3>1. f.man.edges[i].from \in Cells(f)
      BY FrameManifest
    <3>2. Told(f.man.edges[i], f.state[f.man.edges[i].from], f.edge[i]) /\ g.edge[i] = f.edge[i]
      BY <1>3, <2>2 DEF Sound
    <3> QED BY <1>2, <2>2, <3>1, <3>2
  <2> QED BY <2>1, <2>2
<1>4. ASSUME NEW d \in Cells(f)
      PROVE  (Wanted(g, d) <=> Wanted(f, d)) /\ Unresolved(g, d) \subseteq Unresolved(f, d)
  <2>1. \A i \in Into(f.man, d) : i \in DOMAIN f.man.edges
    BY DEF Into
  <2>2. \A i \in Into(f.man, d) : g.edge[i] = "delivered" <=> f.edge[i] = "delivered"
    BY <2>1
  <2>3. \A p : Fed(g, d, p) <=> Fed(f, d, p)
    BY <2>2 DEF Fed
  <2>4. Wanted(g, d) <=> Wanted(f, d)
    BY <2>3 DEF Wanted
  <2>5. Unresolved(g, d) \subseteq Unresolved(f, d)
    BY <2>1 DEF Unresolved
  <2> QED BY <2>4, <2>5
<1>5. ASSUME NEW d \in Cells(f), g.state[d] # "pending"
      PROVE  Unresolved(g, d) = {} /\ (g.state[d] = "skipped" <=> ~ Wanted(g, d))
  <2>1. CASE d = c
    BY <1>2, <1>4, <2>1
  <2>2. CASE d # c
    <3>1. Unresolved(f, d) = {} /\ (f.state[d] = "skipped" <=> ~ Wanted(f, d))
      BY <1>2, <1>5, <2>2 DEF Sound
    <3> QED BY <1>2, <1>4, <2>2, <3>1
  <2> QED BY <2>1, <2>2
<1>6. Sound(g)
  BY <1>3, <1>5 DEF Sound, Cells
<1>7. Calm(f) => Calm(g)
  BY <1>2 DEF Calm, Cells
<1> QED BY <1>6, <1>7

LEMMA Resolving ==
    ASSUME NEW f \in Frame, NEW g \in Frame, Sound(f),
           NEW c \in Cells(f), f.state[c] = "pending",
           NEW i \in Unresolved(f, c), f.state[f.man.edges[i].from] \in Final,
           NEW r \in Readings(f.man.edges[i], f.state[f.man.edges[i].from]),
           g.man = f.man, g.state = f.state, g.edge = [f.edge EXCEPT ![i] = r[1]]
    PROVE  Sound(g) /\ (Calm(f) => Calm(g))
<1>1. i \in DOMAIN f.man.edges /\ f.man.edges[i].to = c
  BY DEF Unresolved, Into
<1>2. \A j \in DOMAIN f.man.edges : g.edge[j] = IF j = i THEN r[1] ELSE f.edge[j]
  BY FrameFields
<1>3. Told(f.man.edges[i], f.state[f.man.edges[i].from], r[1])
  <2> DEFINE e == f.man.edges[i]
  <2> DEFINE s == f.state[e.from]
  <2>1. e.on \in {"value", "guarded", "list", "fail"} /\ s \in Final
    BY <1>1, FrameManifest
  <2>2. r \in Readings(e, s)
    OBVIOUS
  <2> HIDE DEF e, s
  <2> QED BY <2>1, <2>2 DEF Readings, Told, Sign, Final
<1>4. \A j \in DOMAIN f.man.edges : g.edge[j] # "pending" =>
          Told(g.man.edges[j], g.state[g.man.edges[j].from], g.edge[j])
  BY <1>2, <1>3 DEF Sound
<1>5. ASSUME NEW d \in Cells(f), g.state[d] # "pending"
      PROVE  Unresolved(g, d) = {} /\ (g.state[d] = "skipped" <=> ~ Wanted(g, d))
  <2>1. d # c
    BY <1>5
  <2>2. \A j \in Into(f.man, d) : g.edge[j] = f.edge[j]
    BY <1>1, <1>2, <2>1 DEF Into
  <2>3. Unresolved(g, d) = Unresolved(f, d)
    BY <2>2 DEF Unresolved
  <2>4. Wanted(g, d) <=> Wanted(f, d)
    BY <2>2 DEF Wanted, Fed
  <2> QED BY <1>5, <2>3, <2>4 DEF Sound
<1>6. Sound(g)
  BY <1>4, <1>5 DEF Sound, Cells
<1>7. Calm(f) => Calm(g)
  BY DEF Calm, Cells
<1> QED BY <1>6, <1>7
-----------------------------------------------------------------------------
LEMMA Stack ==
    ASSUME NEW s \in Seq(Frame), s # <<>>
    PROVE  /\ Len(s) \in Nat \ {0} /\ Last(s) = s[Len(s)] /\ Last(s) \in Frame
           /\ \A k \in 1..Len(s) : s[k] \in Frame
  BY DEF Last

LEMMA StackTyped ==
    ASSUME NEW s \in Seq(Frame)
    PROVE  s \in Seq(ToSet(s)) /\ \A f \in ToSet(s) : f.man \in Manifest /\ f \in Run(f.man)
<1>1. \A i \in DOMAIN s : s[i] \in Frame /\ s[i] \in ToSet(s)
  BY DEF ToSet
<1>2. \A f \in ToSet(s) : f \in Frame
  BY <1>1 DEF ToSet
<1>3. s = [i \in 1..Len(s) |-> s[i]] /\ Len(s) \in Nat /\ DOMAIN s = 1..Len(s)
  OBVIOUS
<1>4. s \in Seq(ToSet(s))
  BY <1>1, <1>3
<1> QED BY <1>2, <1>4, FrameFields

LEMMA TopReplaced ==
    ASSUME NEW s \in Seq(Frame), s # <<>>, NEW f \in Frame
    PROVE  /\ WithTop(s, f) \in Seq(Frame) /\ WithTop(s, f) # <<>>
           /\ Len(WithTop(s, f)) = Len(s) /\ Last(WithTop(s, f)) = f
           /\ WithTop(s, f)[Len(s)] = f
           /\ \A k \in 1..Len(s) : k # Len(s) => WithTop(s, f)[k] = s[k]
  BY Stack DEF WithTop, Last

LEMMA Pushed ==
    ASSUME NEW s \in Seq(Frame), s # <<>>, NEW f \in Frame
    PROVE  /\ Append(s, f) \in Seq(Frame) /\ Append(s, f) # <<>>
           /\ Len(Append(s, f)) = Len(s) + 1 /\ Last(Append(s, f)) = f
           /\ \A k \in 1..Len(s) : Append(s, f)[k] = s[k]
  BY Stack DEF Last

LEMMA Popped ==
    ASSUME NEW s \in Seq(Frame), s # <<>>, Len(s) # 1
    PROVE  /\ Front(s) \in Seq(Frame) /\ Front(s) # <<>> /\ Len(Front(s)) = Len(s) - 1
           /\ Last(Front(s)) = s[Len(s) - 1]
           /\ \A k \in 1..Len(s) - 1 : Front(s)[k] = s[k]
<1>1. PICK n \in Nat : Len(s) = n + 1 /\ n # 0
  BY Stack
<1>2. Front(s) = SubSeq(s, 1, n) /\ Len(s) - 1 = n
  BY <1>1 DEF Front
<1>3. Front(s) = [k \in 1..n |-> s[k]] /\ n \in 1..n
  BY <1>1, <1>2
<1>4. Front(s) \in Seq(Frame) /\ Len(Front(s)) = n
  BY <1>1, <1>3, Stack
<1>5. \A k \in 1..n : Front(s)[k] = s[k]
  BY <1>3
<1> QED BY <1>1, <1>2, <1>3, <1>4, <1>5, Stack

LEMMA FaultTyped ==
    ASSUME NEW s \in Seq(Frame), \A k \in 1..Len(s) : s[k].at <= Len(s[k].man.cells),
           NEW code \in {"steps", "work", "guard", "depth", "thrown"}
    PROVE  /\ Fault(s, code) \in Failure /\ Fault(s, code) # None
           /\ Fault(s, code).path = Path(s) /\ Fault(s, code).code = code
           /\ Path(s) \in Seq(Cell) /\ Len(Path(s)) = Len(s)
           /\ \A k \in 1..Len(s) : Path(s)[k] = CellOf(s[k])
<1>1. \A k \in 1..Len(s) : s[k] \in Frame
  OBVIOUS
<1>2. \A k \in 1..Len(s) : CellOf(s[k]) \in Cells(s[k]) /\ s[k].man \in Manifest
  BY <1>1, FrameFields, FrameManifest
<1>3. \A k \in 1..Len(s) : CellOf(s[k]) \in Cell
  BY <1>2 DEF Cell, Cells
<1>4. Len(s) \in Nat
  OBVIOUS
<1>5. Path(s) \in Seq(Cell) /\ Len(Path(s)) = Len(s) /\ \A k \in 1..Len(s) : Path(s)[k] = CellOf(s[k])
  BY <1>3, <1>4 DEF Path
<1> QED BY <1>5, NoneAssumption DEF Fault, Failure
-----------------------------------------------------------------------------
(* The last run of s goes from f to g, in the same manifest.               *)
LEMMA TopChanged ==
    ASSUME NEW s \in Seq(Frame), s # <<>>, Levels(s), Sounds(s),
           NEW g \in Frame, g.man = Last(s).man, Sound(g), NEW t, t = WithTop(s, g)
    PROVE  Levels(t) /\ Sounds(t)
<1>0. /\ Len(t) = Len(s) /\ t[Len(s)] = g
      /\ \A k \in 1..Len(s) : k # Len(s) => t[k] = s[k]
  BY TopReplaced
<1>2. Last(s) = s[Len(s)] /\ Len(s) \in Nat \ {0}
  BY Stack
<1>1. /\ Len(t) = Len(s) /\ Len(s) \in Nat \ {0}
      /\ \A k \in 1..Len(s) : t[k] = IF k = Len(s) THEN g ELSE s[k]
  BY <1>0, <1>2
<1>3. ASSUME NEW k \in 1..Len(t) - 1
      PROVE  Active(t[k]) /\ t[k].man.child[CellOf(t[k])] = t[k + 1].man
  <2>1. k \in 1..Len(s) - 1 /\ k \in 1..Len(s) /\ k + 1 \in 1..Len(s) /\ k # Len(s)
    BY <1>1
  <2>2. t[k] = s[k] /\ t[k + 1].man = s[k + 1].man
    BY <1>1, <1>2, <2>1
  <2>3. Active(s[k]) /\ s[k].man.child[CellOf(s[k])] = s[k + 1].man
    BY <2>1 DEF Levels
  <2> QED BY <2>2, <2>3
<1>4. \A k \in 1..Len(t) : Sound(t[k])
  BY <1>1 DEF Sounds
<1> QED BY <1>3, <1>4 DEF Levels, Sounds

(* Under way, every level is at a cell of its own.                         *)
LEMMA AtCells ==
    ASSUME NEW s \in Seq(Frame), s # <<>>, Levels(s), Last(s).at <= Len(Last(s).man.cells)
    PROVE  \A k \in 1..Len(s) : s[k].at <= Len(s[k].man.cells)
<1>1. Len(s) \in Nat \ {0} /\ Last(s) = s[Len(s)]
  BY Stack
<1>2. ASSUME NEW k \in 1..Len(s), k # Len(s)
      PROVE  s[k].at <= Len(s[k].man.cells)
  <2>1. k \in 1..Len(s) - 1
    BY <1>1, <1>2
  <2> QED BY <2>1 DEF Levels, Active
<1> QED BY <1>1, <1>2

LEMMA ConcludeSweep ==
    ASSUME NEW s \in Seq(Frame), s # <<>>, Levels(s), Sounds(s), Active(Last(s)),
           suspended \in BOOLEAN, NEW how \in {"done", "failed", "suspended"},
           NEW blamed \in Failure \union {None},
           blamed # None => how = "failed", suspended => how = "suspended",
           Conclude(s, how, blamed)
    PROVE  StackOK(stack, failure, suspended)'
<1> DEFINE f == Last(s)
<1> DEFINE c == CellOf(f)
<1> DEFINE g == [f EXCEPT !.state[c] = how, !.moved = TRUE]
<1> DEFINE on == GoesOn(f, how) /\ ~ Spent(f, how)
<1> DEFINE h == IF on THEN Onward(g) ELSE Stopped(g)
<1>1. f \in Frame /\ c \in Cells(f) /\ f.state \in [Cells(f) -> Status] /\ f.at <= Len(f.man.cells)
  BY Stack, FrameFields, FrameManifest DEF Active
<1>2. Sound(f) /\ f.state[c] = "pending" /\ Unresolved(f, c) = {} /\ Wanted(f, c) /\ Calm(f)
  BY Stack DEF Active, Sounds
<1>3. /\ g \in Frame /\ g.man = f.man /\ g.edge = f.edge /\ g.at = f.at
      /\ g.state = [f.state EXCEPT ![c] = how]
  <2>1. [f EXCEPT !.state[c] = how] \in Frame
    BY <1>1, FrameMade DEF Status
  <2>2. [[f EXCEPT !.state[c] = how] EXCEPT !.moved = TRUE] \in Frame
    BY <2>1, FrameMade
  <2>3. f \in Run(f.man)
    BY <1>1, FrameFields
  <2>4. g = [[f EXCEPT !.state[c] = how] EXCEPT !.moved = TRUE]
    BY <2>3 DEF Run
  <2> QED BY <2>2, <2>3, <2>4 DEF Run
<1> HIDE DEF g
<1>4. /\ Sound(g)
      /\ (how = "done" \/ (how = "failed" /\ Handled(f.man, c))) => Calm(g)
  BY <1>1, <1>2, <1>3, Settling
<1>5. /\ h \in Frame /\ h.man = f.man /\ h.edge = g.edge /\ h.state = g.state
      /\ ~ on => h.at > Len(h.man.cells)
  BY <1>1, <1>3, GoneOn, Halted
<1>6. stack' = WithTop(s, h)
  BY DEF Conclude, g
<1>7. Sound(h) /\ (Calm(g) => Calm(h))
  BY <1>3, <1>4, <1>5, SameCells
<1>8. /\ stack' \in Seq(Frame) /\ stack' # <<>> /\ Last(stack') = h
      /\ Levels(stack') /\ Sounds(stack')
  BY <1>3, <1>5, <1>6, <1>7, TopReplaced, TopChanged
<1>9. \A code \in {"steps", "work", "guard", "depth", "thrown"} : Fault(s, code) \in Failure /\ Fault(s, code) # None
  BY <1>1, AtCells, FaultTyped
<1>10. failure' \in Failure \union {None} /\ suspended' \in BOOLEAN
  BY <1>9 DEF Conclude, Kept
<1>11. suspended' <=> how = "suspended"
  BY DEF Conclude
<1>12. on <=> failure' = None /\ ~ suspended'
  <2>1. failure' = IF Kept(f, how, blamed) # None THEN Kept(f, how, blamed)
                   ELSE IF Spent(f, how) THEN Fault(s, "work")
                   ELSE IF how = "failed" /\ ~ GoesOn(f, how) THEN Fault(s, "thrown") ELSE None
    BY DEF Conclude
  <2>2. CASE how = "suspended"
    BY <1>11, <2>2 DEF GoesOn
  <2>3. CASE how # "suspended"
    BY <1>9, <1>11, <2>1, <2>3 DEF GoesOn, Kept, Spent
  <2> QED BY <2>2, <2>3
<1>13. failure' # None => ~ suspended'
  BY <1>11 DEF Conclude, Kept, Spent, GoesOn
<1>14. on => Calm(h)
  BY <1>4, <1>7 DEF GoesOn
<1>15. suspended' => \E d \in Cells(h) : h.state[d] = "suspended"
  BY <1>1, <1>3, <1>5, <1>11 DEF Cells
<1>16. TopOK(stack', failure', suspended')
  BY <1>5, <1>8, <1>12, <1>13, <1>14, <1>15 DEF TopOK
<1> QED BY <1>8, <1>10, <1>16 DEF StackOK
-----------------------------------------------------------------------------
LEMMA RunChildSweep ==
    ASSUME NEW s \in Seq(Frame), s # <<>>, Levels(s), Sounds(s), Active(Last(s)),
           failure = None, suspended = FALSE, NEW n \in Nat,
           Last(s).man.child[CellOf(Last(s))] \in Manifest, RunChild(s, n)
    PROVE  StackOK(stack, failure, suspended)'
<1> DEFINE f == Last(s)
<1> DEFINE c == CellOf(f)
<1>0. f \in Frame /\ f = s[Len(s)] /\ Len(s) \in 1..Len(s)
  BY Stack
<1>1. f \in Frame /\ c \in Cells(f) /\ f.at <= Len(f.man.cells) /\ Sound(f)
  BY <1>0, FrameManifest DEF Active, Sounds
<1>2. CASE n = 0
  <2>1. Conclude(s, "done", failure)
    BY <1>2 DEF RunChild
  <2> QED BY <2>1, ConcludeSweep
<1>4. CASE n # 0 /\ Len(s) > budgets.depth
  <2>1. Conclude(s, "failed", Fault(s, "depth"))
    BY <1>4 DEF RunChild
  <2>2. Fault(s, "depth") \in Failure
    BY <1>1, AtCells, FaultTyped
  <2> QED BY <2>1, <2>2, ConcludeSweep
<1>5. CASE n # 0 /\ ~ Len(s) > budgets.depth
  <2> DEFINE g == [f EXCEPT !.left = n - 1]
  <2> DEFINE e == Enter(f.man.child[c])
  <2> DEFINE w == WithTop(s, g)
  <2>1. stack' = Append(w, e) /\ failure' = None /\ suspended' = FALSE
    BY <1>5 DEF RunChild
  <2>2. g \in Frame /\ g.man = f.man /\ g.state = f.state /\ g.edge = f.edge /\ g.at = f.at
    <3>1. f \in Run(f.man) /\ n - 1 \in Nat
      BY <1>1, <1>5, FrameFields
    <3> QED BY <1>1, <3>1, FrameMade DEF Run
  <2>3. e \in Frame /\ e.man = f.man.child[c] /\ Calm(e) /\ Sound(e)
    BY EnterFrame
  <2> HIDE DEF g, e
  <2>4. Sound(g) /\ Active(g) /\ g.man.child[CellOf(g)] = e.man
    <3>1. Sound(g) /\ Calm(g)
      BY <1>1, <2>2, SameCells DEF Active
    <3>2. CellOf(g) = c
      BY <2>2 DEF CellOf
    <3>3. Unresolved(g, c) = Unresolved(f, c) /\ (Wanted(g, c) <=> Wanted(f, c))
      BY <2>2 DEF Unresolved, Wanted, Fed
    <3>4. Active(f)
      OBVIOUS
    <3> QED BY <2>2, <2>3, <3>1, <3>2, <3>3, <3>4 DEF Active
  <2>5. w \in Seq(Frame) /\ w # <<>> /\ Last(w) = g /\ Len(w) = Len(s)
    BY <2>2, TopReplaced
  <2>15. w[Len(w)] = g
    BY <2>5, Stack
  <2>6. Levels(w) /\ Sounds(w)
    BY <2>2, <2>4, TopChanged
  <2> HIDE DEF w
  <2>7. /\ stack' \in Seq(Frame) /\ stack' # <<>> /\ Last(stack') = e
        /\ Len(stack') = Len(w) + 1 /\ \A k \in 1..Len(w) : stack'[k] = w[k]
    BY <2>1, <2>3, <2>5, Pushed
  <2>8. Len(w) \in Nat \ {0} /\ stack'[Len(stack')] = e
    BY <2>5, <2>7, Stack
  <2>9. ASSUME NEW k \in 1..Len(w)
        PROVE  Active(stack'[k]) /\ stack'[k].man.child[CellOf(stack'[k])] = stack'[k + 1].man
    <3>1. CASE k = Len(w)
      BY <2>4, <2>5, <2>15, <2>7, <2>8, <3>1
    <3>2. CASE k # Len(w)
      <4>1. k \in 1..Len(w) - 1 /\ k + 1 \in 1..Len(w)
        BY <2>8, <3>2
      <4>2. stack'[k] = w[k] /\ stack'[k + 1] = w[k + 1]
        BY <2>7, <4>1
      <4>3. Active(w[k]) /\ w[k].man.child[CellOf(w[k])] = w[k + 1].man
        BY <2>6, <4>1 DEF Levels
      <4> QED BY <4>2, <4>3
    <3> QED BY <3>1, <3>2
  <2>10. Len(stack') - 1 = Len(w)
    BY <2>7, <2>8
  <2>11. Levels(stack')
    BY <2>9, <2>10 DEF Levels
  <2>12. Sounds(stack')
    <3>1. ASSUME NEW k \in 1..Len(stack')
          PROVE  Sound(stack'[k])
      <4>1. CASE k = Len(w) + 1
        BY <2>3, <2>7, <2>8, <4>1
      <4>2. CASE k # Len(w) + 1
        <5>1. k \in 1..Len(w)
          BY <2>7, <2>8, <4>2
        <5> QED BY <2>6, <2>7, <5>1 DEF Sounds
      <4> QED BY <4>1, <4>2
    <3> QED BY <3>1 DEF Sounds
  <2>13. TopOK(stack', failure', suspended')
    BY <2>1, <2>3, <2>7 DEF TopOK
  <2> QED BY <2>1, <2>7, <2>11, <2>12, <2>13 DEF StackOK
<1> QED BY <1>2, <1>4, <1>5
-----------------------------------------------------------------------------
(* While cells are looked at, nothing has failed for good.                 *)
LEMMA UnderWay ==
    ASSUME SweepInv, AtCell
    PROVE  /\ failure = None /\ suspended = FALSE
           /\ top \in Frame /\ top.at <= Len(top.man.cells) /\ top.at \in Nat
           /\ here \in Cells(top) /\ Calm(top) /\ Sound(top)
           /\ Len(top.man.cells) \in Nat
<1>1. stack \in Seq(Frame) /\ stack # <<>> /\ Sounds(stack) /\ TopOK(stack, failure, suspended)
  BY DEF SweepInv, StackOK
<1>2. top \in Frame /\ Sound(top)
  BY <1>1, Stack DEF top, Sounds
<1>3. Len(top.man.cells) \in Nat /\ top.at \in 1..Len(top.man.cells) + 1
  BY <1>2, FrameManifest, FrameFields
<1>4. top.at <= Len(top.man.cells) /\ ~ top.at > Len(top.man.cells)
  BY <1>3 DEF AtCell
<1>5. failure = None /\ ~ suspended /\ Calm(top)
  BY <1>1, <1>4 DEF TopOK, top
<1>6. here \in Cells(top)
  BY <1>2, <1>4, FrameManifest DEF here
<1> QED BY <1>2, <1>3, <1>4, <1>5, <1>6 DEF SweepInv, TypeOK

(* The last run comes to g and goes on.                                    *)
LEMMA GoesOnWith ==
    ASSUME SweepInv, failure = None, suspended = FALSE,
           NEW g \in Frame, g.man = top.man, Sound(g), Calm(g)
    PROVE  StackOK(WithTop(stack, g), failure, suspended)
<1>1. stack \in Seq(Frame) /\ stack # <<>> /\ Levels(stack) /\ Sounds(stack)
  BY DEF SweepInv, StackOK
<1>2. Levels(WithTop(stack, g)) /\ Sounds(WithTop(stack, g))
  BY <1>1, TopChanged DEF top
<1>3. /\ WithTop(stack, g) \in Seq(Frame) /\ WithTop(stack, g) # <<>>
      /\ Last(WithTop(stack, g)) = g
  BY <1>1, TopReplaced
<1> QED BY <1>2, <1>3 DEF StackOK, TopOK

(* It comes to g and ends there for the failure e.                         *)
LEMMA EndsWith ==
    ASSUME SweepInv, suspended = FALSE,
           NEW g \in Frame, g.man = top.man, Sound(g), NEW e \in Failure
    PROVE  StackOK(WithTop(stack, Stopped(g)), e, suspended)
<1>1. stack \in Seq(Frame) /\ stack # <<>> /\ Levels(stack) /\ Sounds(stack)
  BY DEF SweepInv, StackOK
<1>2. /\ Stopped(g) \in Frame /\ Stopped(g).man = top.man /\ Sound(Stopped(g))
      /\ Stopped(g).at > Len(Stopped(g).man.cells)
  BY Halted, SameCells
<1>3. Levels(WithTop(stack, Stopped(g))) /\ Sounds(WithTop(stack, Stopped(g)))
  BY <1>1, <1>2, TopChanged DEF top
<1>4. /\ WithTop(stack, Stopped(g)) \in Seq(Frame) /\ WithTop(stack, Stopped(g)) # <<>>
      /\ Last(WithTop(stack, Stopped(g))) = Stopped(g)
  BY <1>1, <1>2, TopReplaced
<1> QED BY <1>2, <1>3, <1>4, NoneAssumption DEF StackOK, TopOK
-----------------------------------------------------------------------------
LEMMA PassOverSweep ==
    ASSUME SweepInv, PassOver
    PROVE  StackOK(stack, failure, suspended)'
<1>1. AtCell /\ stack' = WithTop(stack, Onward(top)) /\ failure' = failure /\ suspended' = suspended
  BY DEF PassOver
<1>2. Onward(top) \in Frame /\ Onward(top).man = top.man /\ Sound(Onward(top)) /\ Calm(Onward(top))
  BY <1>1, UnderWay, GoneOn, SameCells
<1> QED BY <1>1, <1>2, UnderWay, GoesOnWith

(* The next edge leads to the cell from a producer that is settled.        *)
LEMMA NextResolved ==
    ASSUME SweepInv, Due, Unresolved(top, here) # {}
    PROVE  /\ NextEdge \in Unresolved(top, here) /\ NextEdge \in DOMAIN top.man.edges
           /\ top.state[top.man.edges[NextEdge].from] \in Final
<1>1. top \in Frame /\ here \in Cells(top) /\ Calm(top)
  BY UnderWay DEF Due
<1>2. Unresolved(top, here) \in SUBSET Nat
  BY <1>1, FrameManifest DEF Unresolved, Into
<1>3. \E i \in Unresolved(top, here) : \A j \in Unresolved(top, here) : i <= j
  BY <1>2, LeastNumber
<1>4. NextEdge \in Unresolved(top, here)
  BY <1>3 DEF NextEdge
<1> HIDE DEF NextEdge
<1>5. NextEdge \in DOMAIN top.man.edges /\ NextEdge \in Into(top.man, here)
  BY <1>4 DEF Unresolved, Into
<1>6. top.state[top.man.edges[NextEdge].from] # "pending"
  BY <1>5 DEF Due, Undecided
<1>7. top.man.edges[NextEdge].from \in Cells(top)
  BY <1>1, <1>5, FrameManifest
<1>8. top.state[top.man.edges[NextEdge].from] \in Final
  BY <1>1, <1>6, <1>7 DEF Calm, Final
<1> QED BY <1>4, <1>5, <1>8

LEMMA ResolveEdgeSweep ==
    ASSUME SweepInv, ResolveEdge
    PROVE  StackOK(stack, failure, suspended)'
<1> DEFINE e == top.man.edges[NextEdge]
<1>1. /\ AtCell /\ top.state[here] = "pending" /\ Due /\ Unresolved(top, here) # {}
      /\ suspended' = suspended
  BY DEF ResolveEdge, Due
<1>2. PICK r \in Readings(e, top.state[e.from]) :
          /\ units' = units + r[2]
          /\ IF units' > budgets.work
             THEN /\ failure' = Fault(stack, "work")
                  /\ stack' = WithTop(stack, Stopped([top EXCEPT !.edge[NextEdge] = r[1]]))
             ELSE /\ stack' = WithTop(stack, [top EXCEPT !.edge[NextEdge] = r[1]])
                  /\ failure' = failure
  BY DEF ResolveEdge
<1>3. /\ NextEdge \in Unresolved(top, here) /\ NextEdge \in DOMAIN top.man.edges
      /\ top.state[e.from] \in Final
  BY <1>1, NextResolved
<1>4. /\ top \in Frame /\ here \in Cells(top) /\ Sound(top) /\ Calm(top)
      /\ failure = None /\ suspended = FALSE /\ top.at <= Len(top.man.cells)
  BY <1>1, UnderWay
<1> DEFINE g == [top EXCEPT !.edge[NextEdge] = r[1]]
<1>5. g \in Frame /\ g.man = top.man /\ g.state = top.state /\ g.edge = [top.edge EXCEPT ![NextEdge] = r[1]]
  <2>1. r[1] \in {"pending", "delivered", "empty", "dead"}
    BY <1>2 DEF Readings
  <2>2. top \in Run(top.man)
    BY <1>4, FrameFields
  <2> QED BY <1>3, <1>4, <2>1, <2>2, FrameMade DEF Run
<1> HIDE DEF NextEdge
<1>6. Sound(g) /\ Calm(g)
  BY <1>1, <1>2, <1>3, <1>4, <1>5, Resolving
<1> HIDE DEF g
<1>7. CASE units' > budgets.work
  <2>1. Fault(stack, "work") \in Failure
    BY <1>4, AtCells, FaultTyped DEF SweepInv, StackOK, top
  <2> QED BY <1>1, <1>2, <1>4, <1>5, <1>6, <1>7, <2>1, EndsWith DEF g
<1>8. CASE ~ (units' > budgets.work)
  BY <1>1, <1>2, <1>4, <1>5, <1>6, <1>8, GoesOnWith DEF g
<1> QED BY <1>7, <1>8

LEMMA StopsSweep ==
    ASSUME SweepInv, AtCell, NEW code \in {"steps", "work", "guard", "depth", "thrown"},
           failure' = Fault(stack, code), stack' = WithTop(stack, Stopped(top)), suspended' = suspended
    PROVE  StackOK(stack, failure, suspended)'
<1>1. top \in Frame /\ Sound(top) /\ suspended = FALSE /\ top.at <= Len(top.man.cells)
  BY UnderWay
<1>2. Fault(stack, code) \in Failure
  BY <1>1, AtCells, FaultTyped DEF SweepInv, StackOK, top
<1> QED BY <1>1, <1>2, EndsWith

LEMMA SkipSweep ==
    ASSUME SweepInv, Skip
    PROVE  StackOK(stack, failure, suspended)'
<1> DEFINE d == [i \in DOMAIN top.edge |->
                   IF top.man.edges[i].from = here /\ top.edge[i] = "pending" THEN "dead" ELSE top.edge[i]]
<1> DEFINE g == [top EXCEPT !.state[here] = "skipped", !.edge = d, !.moved = TRUE]
<1>1. /\ AtCell /\ top.state[here] = "pending" /\ Unresolved(top, here) = {} /\ ~ Wanted(top, here)
      /\ stack' = WithTop(stack, Onward(g)) /\ failure' = failure /\ suspended' = suspended
  BY DEF Skip, Resolved, Due
<1>2. /\ top \in Frame /\ here \in Cells(top) /\ Sound(top) /\ Calm(top)
      /\ failure = None /\ suspended = FALSE /\ top.at <= Len(top.man.cells)
  BY <1>1, UnderWay
<1>3. top \in Run(top.man) /\ top.edge \in [DOMAIN top.man.edges -> {"pending", "delivered", "empty", "dead"}]
  BY <1>2, FrameFields
<1>4. d \in [DOMAIN top.man.edges -> {"pending", "delivered", "empty", "dead"}]
  BY <1>3
<1>5. \A i \in DOMAIN top.man.edges : d[i] =
          IF top.man.edges[i].from = here /\ top.edge[i] = "pending" THEN "dead" ELSE top.edge[i]
  BY <1>3
<1> HIDE DEF d
<1>6. /\ g \in Frame /\ g.man = top.man /\ g.edge = d /\ g.at = top.at
      /\ g.state = [top.state EXCEPT ![here] = "skipped"]
  <2>1. [top EXCEPT !.state[here] = "skipped"] \in Frame
    BY <1>2, FrameMade DEF Status
  <2>2. [top EXCEPT !.state[here] = "skipped"].man = top.man
    BY <1>3 DEF Run
  <2>3. [[top EXCEPT !.state[here] = "skipped"] EXCEPT !.edge = d] \in Frame
    BY <1>4, <2>1, <2>2, FrameMade
  <2>4. [[[top EXCEPT !.state[here] = "skipped"] EXCEPT !.edge = d] EXCEPT !.moved = TRUE] \in Frame
    BY <2>3, FrameMade
  <2>5. g = [[[top EXCEPT !.state[here] = "skipped"] EXCEPT !.edge = d] EXCEPT !.moved = TRUE]
    BY <1>3 DEF Run
  <2>6. g \in Frame
    BY <2>4, <2>5
  <2>7. /\ g.man = top.man /\ g.edge = d /\ g.at = top.at
        /\ g.state = [top.state EXCEPT ![here] = "skipped"]
    BY <1>3 DEF Run
  <2> QED BY <2>6, <2>7
<1> HIDE DEF g
<1>7. Sound(g) /\ Calm(g)
  BY <1>1, <1>2, <1>5, <1>6, Skipping
<1>8. Onward(g) \in Frame /\ Onward(g).man = top.man /\ Sound(Onward(g)) /\ Calm(Onward(g))
  BY <1>2, <1>6, <1>7, GoneOn, SameCells
<1> QED BY <1>1, <1>2, <1>8, GoesOnWith

LEMMA PassAgainSweep ==
    ASSUME SweepInv, PassAgain
    PROVE  StackOK(stack, failure, suspended)'
<1> DEFINE g == [top EXCEPT !.at = 1, !.moved = FALSE]
<1>1. stack \in Seq(Frame) /\ stack # <<>> /\ Sounds(stack) /\ TopOK(stack, failure, suspended)
  BY DEF SweepInv, StackOK
<1>2. top \in Frame /\ Sound(top)
  BY <1>1, Stack DEF top, Sounds
<1>3. failure = None /\ suspended = FALSE /\ Calm(top)
  BY <1>1 DEF PassAgain, Another, TopOK, SweepInv, TypeOK, top
<1>4. g \in Frame /\ g.man = top.man /\ g.state = top.state /\ g.edge = top.edge
  <2>1. 1 \in 1..Len(top.man.cells) + 1
    BY <1>2, FrameManifest
  <2>2. top \in Run(top.man) /\ [top EXCEPT !.at = 1] \in Frame
    BY <1>2, <2>1, FrameFields, FrameMade
  <2>3. [[top EXCEPT !.at = 1] EXCEPT !.moved = FALSE] \in Frame
    BY <2>2, FrameMade
  <2>4. g = [[top EXCEPT !.at = 1] EXCEPT !.moved = FALSE]
    BY <2>2 DEF Run
  <2> QED BY <2>2, <2>3, <2>4 DEF Run
<1>5. stack' = WithTop(stack, g) /\ failure' = failure /\ suspended' = suspended
  BY DEF PassAgain
<1> HIDE DEF g
<1>6. Sound(g) /\ Calm(g)
  BY <1>2, <1>3, <1>4, SameCells
<1> QED BY <1>3, <1>4, <1>5, <1>6, GoesOnWith
-----------------------------------------------------------------------------
LEMMA Activated ==
    ASSUME SweepInv, Activating
    PROVE  /\ Active(top) /\ failure = None /\ suspended = FALSE /\ AtCell
           /\ stack \in Seq(Frame) /\ stack # <<>> /\ Levels(stack) /\ Sounds(stack)
<1>1. /\ AtCell /\ top.state[here] = "pending" /\ Unresolved(top, here) = {} /\ Wanted(top, here)
  BY DEF Activating, Resolved, Due
<1>2. /\ top \in Frame /\ Calm(top) /\ failure = None /\ suspended = FALSE
      /\ top.at <= Len(top.man.cells)
  BY <1>1, UnderWay
<1>3. stack \in Seq(Frame) /\ stack # <<>> /\ Levels(stack) /\ Sounds(stack)
  BY DEF SweepInv, StackOK
<1> QED BY <1>1, <1>2, <1>3 DEF Active, here

LEMMA ActivateSweep ==
    ASSUME SweepInv, Activate
    PROVE  StackOK(stack, failure, suspended)'
<1>1. Activating /\ here = CellOf(top) /\ top = Last(stack)
  BY DEF Activate, here, top
<1>2. /\ Active(Last(stack)) /\ failure = None /\ suspended = FALSE
      /\ stack \in Seq(Frame) /\ stack # <<>> /\ Levels(stack) /\ Sounds(stack)
  BY <1>1, Activated
<1>3. CASE \E how \in {"done", "failed", "suspended"} : Conclude(stack, how, failure)
  BY <1>2, <1>3, ConcludeSweep
<1>4. CASE Embeds /\ \E n \in top.man.rounds[here] : RunChild(stack, n)
  <2>1. PICK n \in top.man.rounds[here] : RunChild(stack, n)
    BY <1>4
  <2>2. top \in Frame /\ here \in Cells(top)
    BY <1>1, UnderWay, Activated
  <2>3. n \in Nat /\ top.man.child[here] \in Manifest
    BY <1>4, <2>1, <2>2, FrameManifest DEF Embeds
  <2> QED BY <1>1, <1>2, <2>1, <2>3, RunChildSweep
<1> QED BY <1>3, <1>4 DEF Activate

(* The run of a child returns to the cell that embeds it.                  *)
LEMMA Returned ==
    ASSUME SweepInv, Len(stack) # 1
    PROVE  /\ Front(stack) \in Seq(Frame) /\ Front(stack) # <<>>
           /\ Len(stack) \in Nat \ {0, 1} /\ Len(Front(stack)) = Len(stack) - 1
           /\ Last(Front(stack)) = stack[Len(stack) - 1]
           /\ Levels(Front(stack)) /\ Sounds(Front(stack)) /\ Active(Last(Front(stack)))
           /\ Last(Front(stack)).man.child[CellOf(Last(Front(stack)))] = top.man
           /\ top \in Frame
           /\ \A k \in 1..Len(stack) - 1 : Front(stack)[k] = stack[k]
<1> DEFINE s == Front(stack)
<1>1. stack \in Seq(Frame) /\ stack # <<>> /\ Levels(stack) /\ Sounds(stack)
  BY DEF SweepInv, StackOK
<1>2. top = stack[Len(stack)] /\ top \in Frame /\ Len(stack) \in Nat \ {0, 1}
  BY <1>1, Stack DEF top
<1>3. /\ s \in Seq(Frame) /\ s # <<>> /\ Len(s) = Len(stack) - 1 /\ Last(s) = stack[Len(stack) - 1]
      /\ \A k \in 1..Len(stack) - 1 : s[k] = stack[k]
  BY <1>1, Popped
<1> HIDE DEF s
<1>4. /\ Len(stack) - 1 \in 1..Len(stack) - 1 /\ Len(stack) - 1 + 1 = Len(stack)
      /\ \A k \in 1..Len(s) - 1 : k \in 1..Len(stack) - 1 /\ k + 1 \in 1..Len(stack) - 1
      /\ \A k \in 1..Len(s) : k \in 1..Len(stack) - 1 /\ k \in 1..Len(stack)
  BY <1>2, <1>3
<1>5. Levels(s)
  BY <1>1, <1>3, <1>4 DEF Levels
<1>6. Sounds(s)
  BY <1>1, <1>3, <1>4 DEF Sounds
<1>7. Active(Last(s)) /\ Last(s).man.child[CellOf(Last(s))] = top.man
  BY <1>1, <1>2, <1>3, <1>4 DEF Levels
<1> QED BY <1>2, <1>3, <1>5, <1>6, <1>7 DEF s

LEMMA ReturnSweep ==
    ASSUME SweepInv, Return
    PROVE  StackOK(stack, failure, suspended)'
<1>1. failure \in Failure \union {None} /\ suspended \in BOOLEAN /\ (failure # None => ~ suspended)
  BY DEF SweepInv, StackOK, TopOK
<1>2. CASE Len(stack) = 1
  <2>1. stack' = stack /\ failure' = failure /\ suspended' = suspended
    BY <1>2 DEF Return
  <2> QED BY <2>1 DEF SweepInv
<1>3. CASE Len(stack) # 1
  <2> DEFINE s == Front(stack)
  <2>1. /\ s \in Seq(Frame) /\ s # <<>> /\ Levels(s) /\ Sounds(s) /\ Active(Last(s))
        /\ Last(s).man.child[CellOf(Last(s))] = top.man /\ top \in Frame
        /\ Last(s) = stack[Len(stack) - 1] /\ Last(s) \in Frame
    BY <1>3, Returned, Stack
  <2>2. CASE Result = "complete" /\ RunChild(s, stack[Len(stack) - 1].left)
    <3>1. failure = None /\ suspended = FALSE
      BY <1>1, <2>2 DEF Result
    <3>2. stack[Len(stack) - 1].left \in Nat /\ top.man \in Manifest
      BY <2>1, FrameFields
    <3> QED BY <2>1, <2>2, <3>1, <3>2, RunChildSweep
  <2>3. CASE Result = "suspended" /\ Conclude(s, "suspended", failure)
    <3>1. failure = None
      BY <1>1, <2>3 DEF Result
    <3> QED BY <1>1, <2>1, <2>3, <3>1, ConcludeSweep
  <2>4. CASE Result # "suspended" /\ Conclude(s, "failed", failure)
    <3>1. suspended = FALSE
      BY <1>1, <2>4 DEF Result
    <3> QED BY <1>1, <2>1, <2>4, <3>1, ConcludeSweep
  <2> QED BY <1>3, <2>2, <2>3, <2>4 DEF Return
<1> QED BY <1>2, <1>3

LEMMA SweepStack ==
    ASSUME SweepInv, Next
    PROVE  StackOK(stack, failure, suspended)'
<1>1. CASE PassOver
  BY <1>1, PassOverSweep
<1>2. CASE ResolveEdge
  BY <1>2, ResolveEdgeSweep
<1>3. CASE GuardFails
  BY <1>3, StopsSweep DEF GuardFails, Due
<1>4. CASE Skip
  BY <1>4, SkipSweep
<1>5. CASE OutOfSteps
  BY <1>5, StopsSweep DEF OutOfSteps, Activating, Resolved, Due
<1>6. CASE Activate
  BY <1>6, ActivateSweep
<1>7. CASE Abort
  <2>1. stack' = stack /\ failure' = failure /\ suspended' = suspended
    BY <1>7 DEF Abort
  <2> QED BY <2>1 DEF SweepInv
<1>8. CASE PassAgain
  BY <1>8, PassAgainSweep
<1>9. CASE Return
  BY <1>9, ReturnSweep
<1> QED BY <1>1, <1>2, <1>3, <1>4, <1>5, <1>6, <1>7, <1>8, <1>9 DEF Next

LEMMA SweepTypes ==
    ASSUME SweepInv, Next
    PROVE  TypeOK'
<1>1. /\ stack' \in Seq(Frame) /\ stack' # <<>> /\ failure' \in Failure \union {None}
      /\ suspended' \in BOOLEAN
  BY SweepStack DEF StackOK
<1>2. Fuel \in Nat /\ Activation \in Nat /\ Cost \subseteq Nat /\ steps \in Nat /\ units \in Nat
  BY CostAssumption DEF SweepInv, TypeOK
<1>3. outcome \in {None, "complete", "failed", "stuck", "suspended", "aborted"}
  BY DEF SweepInv, TypeOK
<1>4. steps' \in Nat /\ units' \in Nat
  <2>1. CASE ResolveEdge
    <3> DEFINE e == top.man.edges[NextEdge]
    <3>1. PICK r \in Readings(e, top.state[e.from]) : units' = units + r[2]
      BY <2>1 DEF ResolveEdge
    <3>2. r[2] \in Nat
      BY <1>2, <3>1 DEF Readings
    <3> QED BY <1>2, <2>1, <3>1, <3>2 DEF ResolveEdge
  <2>2. CASE PassOver \/ GuardFails \/ Skip \/ OutOfSteps \/ Abort \/ PassAgain
    BY <1>2, <2>2 DEF PassOver, GuardFails, Skip, OutOfSteps, Abort, PassAgain
  <2>3. CASE Activate
    BY <1>2, <2>3 DEF Activate
  <2>4. CASE Return
    BY <1>2, <2>4 DEF Return
  <2> QED BY <2>1, <2>2, <2>3, <2>4 DEF Next
<1>5. outcome' \in {None, "complete", "failed", "stuck", "suspended", "aborted"}
  BY <1>3 DEF Next, PassOver, ResolveEdge, GuardFails, Skip, OutOfSteps, Activate, Abort, PassAgain,
              Return, Result
<1>6. /\ stack' \in Seq(ToSet(stack'))
      /\ \A f \in ToSet(stack') : f.man \in Manifest /\ f \in Run(f.man)
  BY <1>1, StackTyped
<1> QED BY <1>1, <1>4, <1>5, <1>6 DEF TypeOK

LEMMA SweepKept ==
    ASSUME SweepInv, [Next]_vars
    PROVE  SweepInv'
<1>1. CASE Next
  BY <1>1, SweepTypes, SweepStack DEF SweepInv
<1>2. CASE UNCHANGED vars
  BY <1>2 DEF SweepInv, TypeOK, StackOK, TopOK, vars
<1> QED BY <1>1, <1>2

LEMMA SweepInit ==
    ASSUME Init
    PROVE  SweepInv
<1>1. PICK m \in Manifest : stack = <<Enter(m)>>
  BY DEF Init
<1>2. Enter(m) \in Frame /\ Calm(Enter(m)) /\ Sound(Enter(m))
  BY EnterFrame
<1>3. /\ stack \in Seq(Frame) /\ stack # <<>> /\ Len(stack) = 1 /\ stack[1] = Enter(m)
      /\ Last(stack) = Enter(m)
  BY <1>1, <1>2 DEF Last
<1>4. Levels(stack) /\ Sounds(stack)
  BY <1>2, <1>3 DEF Levels, Sounds
<1>5. failure = None /\ suspended = FALSE /\ steps = 0 /\ units = 0 /\ outcome = None
  BY DEF Init
<1>6. /\ stack \in Seq(ToSet(stack))
      /\ \A f \in ToSet(stack) : f.man \in Manifest /\ f \in Run(f.man)
  BY <1>3, StackTyped
<1> QED BY <1>2, <1>3, <1>4, <1>5, <1>6 DEF SweepInv, TypeOK, StackOK, TopOK
-----------------------------------------------------------------------------
(* Every variable of a run keeps its type, for every set of manifests the  *)
(* compiler admits.                                                        *)
THEOREM TypeCorrect == Spec => []TypeOK
<1>1. SweepInv => TypeOK
  BY Zenon DEF SweepInv
<1> QED BY <1>1, SweepInit, SweepKept, PTL DEF Spec

(* Edges that are sound are followed.                                      *)
LEMMA SoundFollows ==
    ASSUME SweepInv
    PROVE  FollowsEdges
<1> SUFFICES ASSUME NEW k \in 1..Len(stack), NEW c \in DOMAIN stack[k].state, stack[k].state[c] # "pending"
             PROVE  LET f == stack[k]
                        From(i) == f.state[f.man.edges[i].from]
                        Says(p) == \E i \in Into(f.man, c) :
                            /\ f.man.edges[i].port = p
                            /\ IF f.man.edges[i].on \in {"fail", "value"}
                               THEN From(i) = IF f.man.edges[i].on = "fail" THEN "failed" ELSE "done"
                               ELSE From(i) = "done" /\ f.edge[i] = "delivered"
                    IN  /\ \A i \in Into(f.man, c) : From(i) \in {"done", "skipped", "failed"}
                        /\ f.state[c] = "skipped" <=>
                              /\ f.man.ports[c] # {}
                              /\ \/ \A p \in f.man.ports[c] : ~ Says(p.name)
                                 \/ \E p \in f.man.ports[c] : ~ p.optional /\ ~ Says(p.name)
  BY DEF FollowsEdges
<1> DEFINE f == stack[k]
<1> DEFINE From(i) == f.state[f.man.edges[i].from]
<1> DEFINE Says(p) == \E i \in Into(f.man, c) :
                         /\ f.man.edges[i].port = p
                         /\ IF f.man.edges[i].on \in {"fail", "value"}
                            THEN From(i) = IF f.man.edges[i].on = "fail" THEN "failed" ELSE "done"
                            ELSE From(i) = "done" /\ f.edge[i] = "delivered"
<1>1. f \in Frame /\ Sound(f)
  BY Stack DEF SweepInv, StackOK, Sounds
<1>2. c \in Cells(f)
  BY <1>1, FrameFields
<1>3. Unresolved(f, c) = {} /\ (f.state[c] = "skipped" <=> ~ Wanted(f, c))
  BY <1>1, <1>2 DEF Sound
<1>4. ASSUME NEW i \in Into(f.man, c)
      PROVE  /\ Told(f.man.edges[i], From(i), f.edge[i])
             /\ f.man.edges[i].on \in {"value", "guarded", "list", "fail"}
             /\ f.edge[i] = "delivered" <=>
                   IF f.man.edges[i].on \in {"fail", "value"}
                   THEN From(i) = IF f.man.edges[i].on = "fail" THEN "failed" ELSE "done"
                   ELSE From(i) = "done" /\ f.edge[i] = "delivered"
  <2>1. i \in DOMAIN f.man.edges /\ f.edge[i] # "pending"
    BY <1>3 DEF Into, Unresolved
  <2>2. Told(f.man.edges[i], From(i), f.edge[i])
    BY <1>1, <2>1 DEF Sound
  <2>3. f.man.edges[i].on \in {"value", "guarded", "list", "fail"}
    BY <1>1, <2>1, FrameManifest
  <2> HIDE DEF f
  <2> QED BY <2>2, <2>3 DEF Told, Sign
<1>5. \A i \in Into(f.man, c) : From(i) \in {"done", "skipped", "failed"}
  BY <1>4 DEF Told, Final
<1>6. \A p : Fed(f, c, p) <=> Says(p)
  BY <1>4 DEF Fed
<1>7. \A p \in f.man.ports[c] : p.optional \in BOOLEAN
  <2>1. f.man \in Manifest
    BY <1>1, FrameFields
  <2>2. Compiled(f.man)
    BY <2>1, ManifestAssumption
  <2> QED BY <1>2, <2>2 DEF Compiled, Cells
<1>8. f.state[c] = "skipped" <=>
          /\ f.man.ports[c] # {}
          /\ \/ \A p \in f.man.ports[c] : ~ Says(p.name)
             \/ \E p \in f.man.ports[c] : ~ p.optional /\ ~ Says(p.name)
  <2> HIDE DEF Says, f
  <2>1. Wanted(f, c) <=> \/ f.man.ports[c] = {}
                         \/ /\ \E p \in f.man.ports[c] : Says(p.name)
                            /\ \A p \in f.man.ports[c] : p.optional \/ Says(p.name)
    BY <1>6 DEF Wanted
  <2>2. ~ Wanted(f, c) <=>
            /\ f.man.ports[c] # {}
            /\ \/ \A p \in f.man.ports[c] : ~ Says(p.name)
               \/ \E p \in f.man.ports[c] : ~ p.optional /\ ~ Says(p.name)
    BY <1>7, <2>1
  <2> QED BY <1>3, <2>2
<1> QED BY <1>5, <1>8, Zenon

(* Whatever the order in which a manifest lists its cells, each is settled *)
(* as its edges say, at every level (runInto, run.ts, 392-561).            *)
THEOREM SettledByEdges == Spec => []FollowsEdges
  BY SweepInit, SweepKept, SoundFollows, PTL DEF Spec
-----------------------------------------------------------------------------
(* The manifests that lead along p from the manifest root.                 *)
Led(root, p) ==
    CHOOSE m : m = [k \in 1..Len(p) |-> IF k = 1 THEN root ELSE m[k - 1].child[p[k - 1]]]

(* The failure e is placed along the runs of s, and from level n on nobody *)
(* has handled it.                                                         *)
Blame(s, e, n) ==
    LET m == Led(s[1].man, e.path) IN
    /\ Len(s) <= Len(e.path)
    /\ \A k \in 1..n - 1 : e.path[k] = CellOf(s[k])
    /\ m[1] = s[1].man /\ \A k \in 2..Len(e.path) : m[k] = m[k - 1].child[e.path[k - 1]]
    /\ \A k \in n..Len(e.path) :
          \/ ~ Handled(m[k], e.path[k])
          \/ k = Len(e.path) /\ e.code \in {"steps", "work", "guard"}

BlameInv == failure # None => Blame(stack, failure, Len(stack))

(* A pass that settled nothing so far left behind only cells that wait.    *)
Waits(f) == ~ f.moved =>
    \A j \in 1..f.at - 1 : f.state[f.man.cells[j]] = "pending" => Undecided(f, f.man.cells[j])
WaitInv == failure = None /\ ~ suspended => Waits(top)

(* While the run is under way, its work is over the budget at most by the  *)
(* activations of the cells that embed the runs under way.                 *)
Chain(n) == Activation * n
SpendInv ==
    /\ Len(stack) <= budgets.depth + 1
    /\ failure = None /\ ~ suspended /\ outcome = None => units <= budgets.work + Chain(Len(stack) - 1)
    /\ SpendBounded

RunInv == SweepInv /\ BlameInv /\ WaitInv /\ SpendInv /\ OutcomeJustified
-----------------------------------------------------------------------------
LEMMA LedFollows ==
    ASSUME NEW root, NEW p, Len(p) \in Nat \ {0}, NEW g,
           g = [k \in 1..Len(p) |-> IF k = 1 THEN root ELSE g[k - 1].child[p[k - 1]]]
    PROVE  /\ Led(root, p)[1] = root
           /\ \A k \in 2..Len(p) : Led(root, p)[k] = Led(root, p)[k - 1].child[p[k - 1]]
<1> DEFINE m == Led(root, p)
<1>1. m = [k \in 1..Len(p) |-> IF k = 1 THEN root ELSE m[k - 1].child[p[k - 1]]]
  BY Zenon DEF Led
<1> HIDE DEF m
<1>2. 1 \in 1..Len(p) /\ \A k \in 2..Len(p) : k \in 1..Len(p) /\ k # 1
  OBVIOUS
<1>3. m[1] = root /\ \A k \in 2..Len(p) : m[k] = m[k - 1].child[p[k - 1]]
  <2>1. m[1] = root
    BY <1>1, <1>2
  <2>2. ASSUME NEW k \in 2..Len(p)
        PROVE  m[k] = m[k - 1].child[p[k - 1]]
    <3>1. k \in 1..Len(p) /\ k # 1
      BY <1>2
    <3> QED BY <1>1, <3>1
  <2> QED BY <2>1, <2>2, Zenon
<1> QED BY <1>3, Zenon DEF m

(* Whatever follows the cells the runs of s are at goes through their      *)
(* manifests.                                                              *)
LEMMA LedThrough ==
    ASSUME NEW s \in Seq(Frame), s # <<>>, Levels(s), NEW n \in 1..Len(s), NEW m,
           m[1] = s[1].man, \A k \in 2..n : m[k] = m[k - 1].child[CellOf(s[k - 1])]
    PROVE  \A k \in 1..n : m[k] = s[k].man
<1> DEFINE D == {k \in 1..n : m[k] # s[k].man}
<1> SUFFICES ASSUME D # {} PROVE FALSE
  OBVIOUS
<1>1. n \in Nat /\ Len(s) \in Nat /\ n <= Len(s)
  BY Stack
<1>2. D \in SUBSET Nat
  BY <1>1
<1>3. PICK i \in D : \A j \in D : i <= j
  BY <1>2, LeastNumber
<1>4. i \in 2..n /\ i - 1 \in 1..n /\ i - 1 \notin D /\ i - 1 \in 1..Len(s) - 1 /\ i - 1 + 1 = i
  BY <1>1, <1>3
<1>5. m[i] = s[i - 1].man.child[CellOf(s[i - 1])]
  BY <1>4
<1>6. s[i - 1].man.child[CellOf(s[i - 1])] = s[i].man
  BY <1>4 DEF Levels
<1> QED BY <1>3, <1>5, <1>6

LEMMA FaultBlamed ==
    ASSUME NEW s \in Seq(Frame), s # <<>>, Levels(s), Last(s).at <= Len(Last(s).man.cells),
           NEW code \in {"steps", "work", "guard", "depth", "thrown"}
    PROVE  /\ Blame(s, Fault(s, code), Len(s) + 1)
           /\ Led(s[1].man, Fault(s, code).path)[Len(s)] = Last(s).man
           /\ Len(Fault(s, code).path) = Len(s) /\ Fault(s, code).path[Len(s)] = CellOf(Last(s))
           /\ Fault(s, code).code = code
<1> DEFINE p == Path(s)
<1> DEFINE m == Led(s[1].man, p)
<1> DEFINE g == [k \in 1..Len(p) |-> s[k].man]
<1>1. /\ Fault(s, code).path = p /\ Fault(s, code).code = code /\ Len(p) = Len(s)
      /\ \A k \in 1..Len(s) : p[k] = CellOf(s[k])
  BY AtCells, FaultTyped
<1>2. Len(s) \in Nat \ {0} /\ Last(s) = s[Len(s)]
  BY Stack
<1> HIDE DEF p
<1>3. g = [k \in 1..Len(p) |-> IF k = 1 THEN s[1].man ELSE g[k - 1].child[p[k - 1]]]
  <2>1. ASSUME NEW k \in 1..Len(p), k # 1
        PROVE  s[k].man = g[k - 1].child[p[k - 1]]
    <3>1. k - 1 \in 1..Len(s) - 1 /\ k - 1 \in 1..Len(p) /\ k - 1 \in 1..Len(s) /\ k - 1 + 1 = k
      BY <1>1, <1>2, <2>1
    <3>2. g[k - 1] = s[k - 1].man /\ p[k - 1] = CellOf(s[k - 1])
      BY <1>1, <3>1
    <3> QED BY <3>1, <3>2 DEF Levels
  <2> QED BY <2>1
<1> HIDE DEF g
<1>4. m[1] = s[1].man /\ \A k \in 2..Len(p) : m[k] = m[k - 1].child[p[k - 1]]
  BY <1>1, <1>2, <1>3, LedFollows
<1> HIDE DEF m
<1>5. \A k \in 2..Len(s) : m[k] = m[k - 1].child[CellOf(s[k - 1])]
  BY <1>1, <1>2, <1>4
<1>6. \A k \in 1..Len(s) : m[k] = s[k].man
  BY <1>2, <1>4, <1>5, LedThrough
<1>7. /\ Len(s) + 1 - 1 = Len(s) /\ Len(s) \in 1..Len(s) /\ Len(s) <= Len(p)
      /\ (Len(s) + 1)..Len(p) = {}
  BY <1>1, <1>2
<1>8. Blame(s, Fault(s, code), Len(s) + 1)
  BY <1>1, <1>4, <1>7 DEF Blame, m
<1> QED BY <1>1, <1>2, <1>6, <1>7, <1>8 DEF m

(* A failure that is not handled at the last level is not handled from     *)
(* there on.                                                               *)
LEMMA BlameDown ==
    ASSUME NEW s \in Seq(Frame), s # <<>>, Levels(s), NEW e \in Failure, Blame(s, e, Len(s) + 1),
           \/ ~ Handled(Last(s).man, CellOf(Last(s)))
           \/ Len(e.path) = Len(s) /\ e.code \in {"steps", "work", "guard"},
           NEW t, Len(t) = Len(s), t[1].man = s[1].man, \A k \in 1..Len(s) - 1 : t[k] = s[k]
    PROVE  Blame(t, e, Len(t))
<1> DEFINE p == e.path
<1> DEFINE m == Led(s[1].man, p)
<1>1. Len(s) \in Nat \ {0} /\ Last(s) = s[Len(s)] /\ Len(s) + 1 - 1 = Len(s) /\ Len(p) \in Nat
  BY Stack DEF Failure
<1>2. /\ Len(s) <= Len(p) /\ \A k \in 1..Len(s) : p[k] = CellOf(s[k])
      /\ m[1] = s[1].man /\ \A k \in 2..Len(p) : m[k] = m[k - 1].child[p[k - 1]]
      /\ \A k \in (Len(s) + 1)..Len(p) :
            ~ Handled(m[k], p[k]) \/ (k = Len(p) /\ e.code \in {"steps", "work", "guard"})
  BY <1>1 DEF Blame
<1> HIDE DEF m, p
<1>3. Len(s) \in 1..Len(s) /\ \A k \in 2..Len(s) : k \in 2..Len(p) /\ k - 1 \in 1..Len(s)
  BY <1>1, <1>2
<1>7. \A k \in 2..Len(s) : m[k] = m[k - 1].child[CellOf(s[k - 1])]
  BY <1>2, <1>3
<1>8. \A k \in 1..Len(s) : m[k] = s[k].man
  <2>1. Len(s) \in 1..Len(s) /\ m[1] = s[1].man
    BY <1>2, <1>3
  <2> QED BY <1>7, <2>1, LedThrough
<1>4. m[Len(s)] = Last(s).man
  BY <1>1, <1>3, <1>8
<1>5. ASSUME NEW k \in Len(s)..Len(p)
      PROVE  ~ Handled(m[k], p[k]) \/ (k = Len(p) /\ e.code \in {"steps", "work", "guard"})
  <2>1. CASE k = Len(s)
    BY <1>1, <1>2, <1>3, <1>4, <2>1 DEF p
  <2>2. CASE k # Len(s)
    BY <1>1, <1>2, <2>2
  <2> QED BY <2>1, <2>2
<1>6. \A k \in 1..Len(s) - 1 : k \in 1..Len(s)
  BY <1>1
<1> QED BY <1>2, <1>5, <1>6 DEF Blame, m, p

LEMMA BlameUp ==
    ASSUME SweepInv, BlameInv, Len(stack) # 1, failure # None
    PROVE  Blame(Front(stack), failure, Len(Front(stack)) + 1)
<1> DEFINE s == Front(stack)
<1>1. /\ Len(stack) \in Nat \ {0, 1} /\ Len(s) = Len(stack) - 1
      /\ \A k \in 1..Len(stack) - 1 : s[k] = stack[k]
  BY Returned
<1> HIDE DEF s
<1>2. Blame(stack, failure, Len(stack)) /\ failure \in Failure
  BY DEF BlameInv, SweepInv, StackOK
<1>3. /\ 1 \in 1..Len(stack) - 1 /\ Len(s) + 1 = Len(stack) /\ Len(failure.path) \in Nat
      /\ (Len(stack) <= Len(failure.path) => Len(s) <= Len(failure.path))
  BY <1>1, <1>2 DEF Failure
<1>4. s[1] = stack[1]
  BY <1>1, <1>3
<1> DEFINE e == failure
<1> DEFINE m == Led(stack[1].man, e.path)
<1>5. /\ Len(stack) <= Len(e.path) /\ \A k \in 1..Len(stack) - 1 : e.path[k] = CellOf(stack[k])
      /\ m[1] = stack[1].man /\ \A k \in 2..Len(e.path) : m[k] = m[k - 1].child[e.path[k - 1]]
      /\ \A k \in Len(stack)..Len(e.path) :
            ~ Handled(m[k], e.path[k]) \/ (k = Len(e.path) /\ e.code \in {"steps", "work", "guard"})
  BY <1>2 DEF Blame
<1>6. \A k \in 1..Len(s) + 1 - 1 : e.path[k] = CellOf(s[k])
  <2>1. \A k \in 1..Len(stack) - 1 : s[k] = stack[k] /\ e.path[k] = CellOf(stack[k])
    BY <1>1, <1>5
  <2>2. \A k \in 1..Len(stack) - 1 : e.path[k] = CellOf(s[k])
    BY <2>1
  <2>3. 1..Len(s) + 1 - 1 = 1..Len(stack) - 1
    BY <1>3
  <2> QED BY <2>2, <2>3
<1>8. Led(s[1].man, e.path) = m
  BY <1>4
<1>9. Len(s) <= Len(e.path) /\ Len(s) + 1 = Len(stack)
  BY <1>3, <1>5
<1>10. m[1] = s[1].man
  BY <1>4, <1>5
<1> HIDE DEF m, e
<1>11. \A k \in Len(s) + 1..Len(e.path) :
          ~ Handled(m[k], e.path[k]) \/ (k = Len(e.path) /\ e.code \in {"steps", "work", "guard"})
  BY <1>5, <1>9
<1>7. Blame(s, e, Len(s) + 1)
  BY <1>5, <1>6, <1>8, <1>9, <1>10, <1>11 DEF Blame
<1> QED BY <1>7 DEF s, e
-----------------------------------------------------------------------------
(* The activation of the cell the last run of s is at ends, or a run of    *)
(* its child begins.                                                       *)
Ends(s) ==
    /\ Len(stack') = Len(s) /\ stack'[1].man = s[1].man
    /\ Last(stack').moved = TRUE
    /\ failure' = None /\ suspended' = FALSE => ~ (units' > budgets.work)
    /\ failure' # None => Blame(stack', failure', Len(stack'))

Begins(s) ==
    /\ Len(stack') = Len(s) + 1 /\ stack'[1].man = s[1].man /\ ~ (Len(s) > budgets.depth)
    /\ Last(stack').at = 1
    /\ failure' = None /\ suspended' = FALSE

LEMMA ConcludeEnds ==
    ASSUME NEW s \in Seq(Frame), s # <<>>, Levels(s), Sounds(s), Active(Last(s)),
           suspended \in BOOLEAN, NEW how \in {"done", "failed", "suspended"},
           NEW blamed \in Failure \union {None},
           blamed # None => how = "failed" /\ Blame(s, blamed, Len(s) + 1),
           suspended => how = "suspended",
           Conclude(s, how, blamed)
    PROVE  Ends(s)
<1> DEFINE f == Last(s)
<1> DEFINE c == CellOf(f)
<1> DEFINE g == [f EXCEPT !.state[c] = how, !.moved = TRUE]
<1> DEFINE on == GoesOn(f, how) /\ ~ Spent(f, how)
<1> DEFINE h == IF on THEN Onward(g) ELSE Stopped(g)
<1>1. /\ f \in Frame /\ f \in Run(f.man) /\ c \in Cells(f) /\ f.at <= Len(f.man.cells)
      /\ Len(s) \in Nat \ {0} /\ f = s[Len(s)]
  BY Stack, FrameFields, FrameManifest DEF Active
<1>2. g \in Frame /\ g.man = f.man /\ g.moved = TRUE /\ g.at = f.at
  <2>1. [f EXCEPT !.state[c] = how] \in Frame
    BY <1>1, FrameMade DEF Status
  <2>2. [[f EXCEPT !.state[c] = how] EXCEPT !.moved = TRUE] \in Frame
    BY <2>1, FrameMade
  <2>3. g = [[f EXCEPT !.state[c] = how] EXCEPT !.moved = TRUE]
    BY <1>1 DEF Run
  <2> QED BY <1>1, <2>2, <2>3 DEF Run
<1>3. stack' = WithTop(s, h)
  BY DEF Conclude
<1> HIDE DEF g
<1>4. h \in Frame /\ h.man = f.man /\ h.moved = TRUE
  <2>1. Onward(g) \in Frame /\ Onward(g).man = f.man /\ Onward(g).moved = TRUE
    BY <1>1, <1>2, GoneOn
  <2>2. Stopped(g) \in Frame /\ Stopped(g).man = f.man
    BY <1>2, Halted
  <2>3. Stopped(g).moved = TRUE
    <3>1. g \in Run(g.man)
      BY <1>2, FrameFields
    <3> QED BY <1>2, <3>1 DEF Stopped, Run
  <2> QED BY <2>1, <2>2, <2>3
<1> HIDE DEF h
<1>5. /\ Len(stack') = Len(s) /\ Last(stack') = h /\ stack'[Len(s)] = h
      /\ \A k \in 1..Len(s) : k # Len(s) => stack'[k] = s[k]
  BY <1>3, <1>4, TopReplaced
<1>6. stack'[1].man = s[1].man /\ \A k \in 1..Len(s) - 1 : stack'[k] = s[k]
  <2>1. 1 \in 1..Len(s) /\ \A k \in 1..Len(s) - 1 : k \in 1..Len(s) /\ k # Len(s)
    BY <1>1
  <2> QED BY <1>1, <1>4, <1>5, <2>1
<1>7. failure' = IF Kept(f, how, blamed) # None THEN Kept(f, how, blamed)
                 ELSE IF Spent(f, how) THEN Fault(s, "work")
                 ELSE IF how = "failed" /\ ~ GoesOn(f, how) THEN Fault(s, "thrown") ELSE None
  BY DEF Conclude
<1>8. suspended' <=> how = "suspended"
  BY DEF Conclude
<1>9. \A code \in {"steps", "work", "guard", "depth", "thrown"} :
          /\ Fault(s, code) \in Failure /\ Fault(s, code) # None
          /\ Blame(s, Fault(s, code), Len(s) + 1)
          /\ Len(Fault(s, code).path) = Len(s) /\ Fault(s, code).code = code
  BY <1>1, AtCells, FaultTyped, FaultBlamed
<1>10. failure' = None /\ suspended' = FALSE => ~ (units' > budgets.work)
  BY <1>7, <1>8, <1>9 DEF Spent, GoesOn, Kept
<1>11. ASSUME failure' # None
       PROVE  Blame(stack', failure', Len(stack'))
  <2>1. CASE failure' = Fault(s, "work")
    BY <1>5, <1>6, <1>9, <2>1, BlameDown
  <2>2. CASE failure' = Fault(s, "thrown") /\ how = "failed" /\ ~ GoesOn(f, how)
    <3>1. ~ Handled(f.man, c)
      BY <2>2 DEF GoesOn
    <3> QED BY <1>5, <1>6, <1>9, <2>2, <3>1, BlameDown
  <2>3. CASE failure' = blamed /\ blamed # None /\ ~ GoesOn(f, how)
    <3>1. ~ Handled(f.man, c) /\ blamed \in Failure
      BY <2>3 DEF GoesOn
    <3> QED BY <1>5, <1>6, <2>3, <3>1, BlameDown
  <2> QED BY <1>7, <1>11, <2>1, <2>2, <2>3 DEF Kept, GoesOn
<1> QED BY <1>4, <1>5, <1>6, <1>10, <1>11 DEF Ends

LEMMA RunChildEnds ==
    ASSUME NEW s \in Seq(Frame), s # <<>>, Levels(s), Sounds(s), Active(Last(s)),
           failure = None, suspended = FALSE, NEW n \in Nat,
           Last(s).man.child[CellOf(Last(s))] \in Manifest, RunChild(s, n)
    PROVE  Ends(s) \/ Begins(s)
<1> DEFINE f == Last(s)
<1> DEFINE c == CellOf(f)
<1>1. /\ f \in Frame /\ f.at <= Len(f.man.cells)
      /\ Len(s) \in Nat \ {0} /\ f = s[Len(s)]
  BY Stack DEF Active
<1>2. CASE n = 0
  <2>1. Conclude(s, "done", failure)
    BY <1>2 DEF RunChild
  <2> QED BY <2>1, ConcludeEnds
<1>3. CASE n # 0 /\ Len(s) > budgets.depth
  <2>1. Conclude(s, "failed", Fault(s, "depth"))
    BY <1>3 DEF RunChild
  <2>2. Fault(s, "depth") \in Failure /\ Blame(s, Fault(s, "depth"), Len(s) + 1)
    BY <1>1, AtCells, FaultTyped, FaultBlamed
  <2> QED BY <2>1, <2>2, ConcludeEnds
<1>4. CASE n # 0 /\ ~ (Len(s) > budgets.depth)
  <2> DEFINE g == [f EXCEPT !.left = n - 1]
  <2> DEFINE e == Enter(f.man.child[c])
  <2> DEFINE w == WithTop(s, g)
  <2>1. stack' = Append(w, e) /\ failure' = None /\ suspended' = FALSE
    BY <1>4 DEF RunChild
  <2>2. g \in Frame /\ g.man = f.man
    <3>1. f \in Run(f.man) /\ n - 1 \in Nat
      BY <1>1, <1>4, FrameFields
    <3> QED BY <1>1, <3>1, FrameMade DEF Run
  <2>3. e \in Frame /\ e.at = 1
    BY EnterFrame DEF Enter
  <2> HIDE DEF g, e
  <2>4. /\ w \in Seq(Frame) /\ w # <<>> /\ Len(w) = Len(s) /\ w[Len(s)] = g
        /\ \A k \in 1..Len(s) : k # Len(s) => w[k] = s[k]
    BY <2>2, TopReplaced
  <2> HIDE DEF w
  <2>5. /\ Len(stack') = Len(w) + 1 /\ Last(stack') = e
        /\ \A k \in 1..Len(w) : stack'[k] = w[k]
    BY <2>1, <2>3, <2>4, Pushed
  <2>6. stack'[1].man = s[1].man
    <3>1. 1 \in 1..Len(s)
      BY <1>1
    <3> QED BY <1>1, <2>2, <2>4, <2>5, <3>1
  <2> QED BY <1>4, <2>1, <2>3, <2>4, <2>5, <2>6 DEF Begins
<1> QED BY <1>2, <1>3, <1>4

LEMMA ActivateEnds ==
    ASSUME SweepInv, Activate
    PROVE  Ends(stack) \/ Begins(stack)
<1>1. Activating /\ here = CellOf(top) /\ top = Last(stack)
  BY DEF Activate, here, top
<1>2. /\ Active(Last(stack)) /\ failure = None /\ suspended = FALSE
      /\ stack \in Seq(Frame) /\ stack # <<>> /\ Levels(stack) /\ Sounds(stack)
  BY <1>1, Activated
<1>3. CASE \E how \in {"done", "failed", "suspended"} : Conclude(stack, how, failure)
  BY <1>2, <1>3, ConcludeEnds
<1>4. CASE Embeds /\ \E n \in top.man.rounds[here] : RunChild(stack, n)
  <2>1. PICK n \in top.man.rounds[here] : RunChild(stack, n)
    BY <1>4
  <2>2. top \in Frame /\ here \in Cells(top)
    BY <1>1, UnderWay, Activated
  <2>3. n \in Nat /\ top.man.child[here] \in Manifest
    BY <1>4, <2>1, <2>2, FrameManifest DEF Embeds
  <2> QED BY <1>1, <1>2, <2>1, <2>3, RunChildEnds
<1> QED BY <1>3, <1>4 DEF Activate

LEMMA ReturnEnds ==
    ASSUME SweepInv, BlameInv, Return, Len(stack) # 1
    PROVE  /\ Ends(Front(stack)) \/ Begins(Front(stack))
           /\ Begins(Front(stack)) => failure = None /\ suspended = FALSE
<1> DEFINE s == Front(stack)
<1>1. /\ failure \in Failure \union {None} /\ suspended \in BOOLEAN /\ (failure # None => ~ suspended)
      /\ (failure # None => Blame(s, failure, Len(s) + 1))
  BY BlameUp DEF SweepInv, StackOK, TopOK
<1>2. /\ s \in Seq(Frame) /\ s # <<>> /\ Levels(s) /\ Sounds(s) /\ Active(Last(s))
      /\ Last(s).man.child[CellOf(Last(s))] = top.man /\ top \in Frame
      /\ Last(s) = stack[Len(stack) - 1] /\ Last(s) \in Frame
      /\ Len(s) \in Nat
  BY Returned, Stack
<1>3. CASE Result = "complete" /\ RunChild(s, stack[Len(stack) - 1].left)
  <2>1. failure = None /\ suspended = FALSE
    BY <1>1, <1>3 DEF Result
  <2>2. stack[Len(stack) - 1].left \in Nat /\ top.man \in Manifest
    BY <1>2, FrameFields
  <2> QED BY <1>2, <1>3, <2>1, <2>2, RunChildEnds
<1>4. CASE Result = "suspended" /\ Conclude(s, "suspended", failure)
  <2>1. failure = None
    BY <1>1, <1>4 DEF Result
  <2>2. Ends(s)
    BY <1>1, <1>2, <1>4, <2>1, ConcludeEnds
  <2> QED BY <1>2, <2>2 DEF Ends, Begins
<1>5. CASE Result # "suspended" /\ Conclude(s, "failed", failure)
  <2>1. suspended = FALSE
    BY <1>1, <1>5 DEF Result
  <2>2. Ends(s)
    BY <1>1, <1>2, <1>5, <2>1, ConcludeEnds
  <2> QED BY <1>2, <2>2 DEF Ends, Begins
<1> QED BY <1>3, <1>4, <1>5 DEF Return
-----------------------------------------------------------------------------
LEMMA ChainGrows ==
    /\ \A n \in Nat : Chain(n) \in Nat /\ Chain(n + 1) = Chain(n) + Activation
    /\ \A n, m \in Nat : n <= m => Chain(n) <= Chain(m)
<1>1. ASSUME NEW n \in Nat PROVE Chain(n) \in Nat /\ Chain(n + 1) = Chain(n) + Activation
  BY CostAssumption DEF Chain
<1>2. ASSUME NEW n \in Nat, NEW m \in Nat, n <= m PROVE Chain(n) <= Chain(m)
  <2>1. PICK d \in Nat : m = n + d
    BY <1>2
  <2>2. Activation * m = Activation * n + Activation * d
    BY <2>1, CostAssumption
  <2>3. Activation * n \in Nat /\ Activation * d \in Nat
    BY CostAssumption
  <2> QED BY <2>2, <2>3 DEF Chain
<1> QED BY <1>1, <1>2

LEMMA OneMore ==
    ASSUME NEW u \in Nat, NEW w \in Nat, NEW f \in Nat, NEW d \in Nat, NEW a \in Nat,
           NEW c \in Nat, NEW e \in Nat, NEW x \in 0..d, u <= w + c, c + a <= e
    PROVE  u + a + x <= w + f + e + d
  OBVIOUS

LEMMA DearestIs == Dearest \in Nat /\ \A d \in Cost : d <= Dearest
  BY CostAssumption DEF Dearest

LEMMA BudgetsTyped ==
    ASSUME SweepInv
    PROVE  /\ budgets.steps \in Nat /\ budgets.work \in Nat /\ budgets.depth \in Nat
           /\ Len(stack) \in Nat \ {0} /\ stack[1] \in Frame
<1>1. stack \in Seq(Frame) /\ stack # <<>>
  BY DEF SweepInv, StackOK
<1>2. Len(stack) \in Nat \ {0} /\ stack[1] \in Frame
  BY <1>1, Stack
<1> QED BY <1>2, FrameManifest DEF budgets

LEMMA SameRoot ==
    ASSUME NEW s \in Seq(Frame), s # <<>>, NEW g \in Frame, g.man = Last(s).man
    PROVE  WithTop(s, g)[1].man = s[1].man
<1>1. Len(s) \in Nat \ {0} /\ Last(s) = s[Len(s)] /\ 1 \in 1..Len(s)
  BY Stack
<1>2. CASE Len(s) = 1
  <2>1. WithTop(s, g)[Len(s)] = g
    BY TopReplaced
  <2> QED BY <1>1, <1>2, <2>1
<1>3. CASE Len(s) # 1
  <2>1. \A k \in 1..Len(s) : k # Len(s) => WithTop(s, g)[k] = s[k]
    BY TopReplaced
  <2> QED BY <1>1, <1>3, <2>1
<1> QED BY <1>2, <1>3

(* What the steps have in common that neither end an activation nor leave  *)
(* a child: the last run comes to g, and fails there or goes on.           *)
Stays(g) ==
    /\ stack' = WithTop(stack, g) /\ g \in Frame /\ g.man = top.man
    /\ suspended' = FALSE
    /\ failure' = None \/ \E code \in {"steps", "work", "guard"} : failure' = Fault(stack, code)

LEMMA StaysSame ==
    ASSUME SweepInv, NEW g, Stays(g)
    PROVE  stack'[1].man = stack[1].man /\ Len(stack') = Len(stack) /\ Last(stack') = g
<1>1. stack \in Seq(Frame) /\ stack # <<>> /\ g \in Frame /\ g.man = Last(stack).man
  BY DEF SweepInv, StackOK, Stays, top
<1> QED BY <1>1, SameRoot, TopReplaced DEF Stays

LEMMA StaysBlame ==
    ASSUME SweepInv, NEW g, Stays(g), failure' = None \/ AtCell
    PROVE  BlameInv'
<1> SUFFICES ASSUME failure' # None PROVE Blame(stack', failure', Len(stack'))
  BY DEF BlameInv
<1>1. PICK code \in {"steps", "work", "guard"} : failure' = Fault(stack, code)
  BY DEF Stays
<1>2. stack \in Seq(Frame) /\ stack # <<>> /\ Levels(stack) /\ top.at <= Len(top.man.cells)
  BY UnderWay DEF SweepInv, StackOK
<1>3. /\ Fault(stack, code) \in Failure /\ Blame(stack, Fault(stack, code), Len(stack) + 1)
      /\ Len(Fault(stack, code).path) = Len(stack) /\ Fault(stack, code).code = code
  BY <1>2, AtCells, FaultTyped, FaultBlamed DEF top
<1>4. /\ Len(stack') = Len(stack) /\ stack'[1].man = stack[1].man
      /\ \A k \in 1..Len(stack) - 1 : stack'[k] = stack[k]
  <2>1. Len(stack) \in Nat /\ \A k \in 1..Len(stack) - 1 : k \in 1..Len(stack) /\ k # Len(stack)
    BY <1>2, Stack
  <2>2. \A k \in 1..Len(stack) : k # Len(stack) => WithTop(stack, g)[k] = stack[k]
    BY <1>2, TopReplaced DEF Stays
  <2> QED BY <2>1, <2>2, StaysSame DEF Stays
<1> QED BY <1>1, <1>2, <1>3, <1>4, BlameDown

LEMMA StaysSpend ==
    ASSUME SweepInv, SpendInv, NEW g, Stays(g), failure = None, suspended = FALSE, outcome = None,
           units' \in units..(units + Fuel), steps' = steps, outcome' = outcome,
           failure' = None => units' <= budgets.work + Chain(Len(stack) - 1)
    PROVE  SpendInv'
<1>1. /\ budgets' = budgets /\ Len(stack') = Len(stack)
  BY StaysSame DEF budgets
<1>2. units <= budgets.work + Chain(Len(stack) - 1)
  BY DEF SpendInv
<1>3. /\ budgets.work \in Nat /\ budgets.depth \in Nat /\ Len(stack) \in Nat \ {0}
      /\ units \in Nat /\ Fuel \in Nat /\ Dearest \in Nat
  BY BudgetsTyped, DearestIs, CostAssumption DEF SweepInv, TypeOK
<1>4. Chain(Len(stack) - 1) <= Chain(budgets.depth + 1) /\ Chain(Len(stack) - 1) \in Nat
      /\ Chain(budgets.depth + 1) \in Nat
  <2>1. Len(stack) <= budgets.depth + 1
    BY DEF SpendInv
  <2>2. Len(stack) - 1 \in Nat /\ budgets.depth + 1 \in Nat /\ Len(stack) - 1 <= budgets.depth + 1
    BY <1>3, <2>1
  <2> QED BY <2>2, ChainGrows
<1>5. units' <= budgets.work + Fuel + Chain(budgets.depth + 1) + Dearest
  BY <1>2, <1>3, <1>4
<1>6. Len(stack') <= budgets'.depth + 1 /\ steps' <= budgets'.steps
  BY <1>1 DEF SpendInv, SpendBounded
<1>7. failure' = None => units' <= budgets'.work + Chain(Len(stack') - 1)
  BY <1>1
<1>8. units' <= budgets'.work + Fuel + Activation * (budgets'.depth + 1) + Dearest
  BY <1>1, <1>5 DEF Chain
<1>9. SpendBounded'
  BY <1>6, <1>8 DEF SpendBounded
<1> QED BY <1>6, <1>7, <1>9 DEF SpendInv
-----------------------------------------------------------------------------
Quiet(g) ==
    /\ Stays(g)
    /\ failure' = None => Waits(g)
    /\ failure = None /\ suspended = FALSE /\ outcome = None
    /\ failure' = None \/ AtCell
    /\ steps' = steps /\ outcome' = outcome /\ units' \in units..(units + Fuel)
    /\ failure' = None => units' = units \/ units' <= budgets.work

LEMMA PassOverQuiet ==
    ASSUME SweepInv, WaitInv, PassOver
    PROVE  Quiet(Onward(top))
<1> DEFINE g == Onward(top)
<1>1. /\ AtCell /\ ~ Due /\ stack' = WithTop(stack, g)
      /\ failure' = failure /\ suspended' = suspended /\ steps' = steps /\ units' = units
      /\ outcome' = outcome /\ outcome = None
  BY DEF PassOver, AtCell
<1>2. /\ failure = None /\ suspended = FALSE /\ top \in Frame /\ top.at <= Len(top.man.cells)
      /\ top.at \in Nat /\ here = top.man.cells[top.at]
  BY <1>1, UnderWay DEF here, CellOf
<1>3. /\ g \in Frame /\ g.at = top.at + 1 /\ g.man = top.man /\ g.state = top.state
      /\ g.moved = top.moved
  BY <1>2, GoneOn
<1> HIDE DEF g
<1>4. Waits(g)
  <2> SUFFICES ASSUME ~ g.moved, NEW j \in 1..g.at - 1, g.state[g.man.cells[j]] = "pending"
               PROVE  Undecided(g, g.man.cells[j])
    BY DEF Waits
  <2>1. CASE j = top.at
    BY <1>1, <1>2, <1>3, <2>1 DEF Due, Undecided
  <2>2. CASE j # top.at
    <3>1. j \in 1..top.at - 1
      BY <1>2, <1>3, <2>2
    <3>2. Undecided(top, top.man.cells[j])
      BY <1>2, <1>3, <3>1 DEF WaitInv, Waits
    <3> QED BY <1>3, <3>2 DEF Undecided
  <2> QED BY <2>1, <2>2
<1>5. units \in units..(units + Fuel)
  BY CostAssumption DEF SweepInv, TypeOK
<1> QED BY <1>1, <1>2, <1>3, <1>4, <1>5 DEF Quiet, Stays, g

LEMMA ResolveEdgeQuiet ==
    ASSUME SweepInv, WaitInv, ResolveEdge
    PROVE  \E g : Quiet(g)
<1> DEFINE e == top.man.edges[NextEdge]
<1>1. /\ AtCell /\ Due /\ Unresolved(top, here) # {} /\ outcome = None
      /\ suspended' = suspended /\ steps' = steps /\ outcome' = outcome
  BY DEF ResolveEdge, Due, AtCell
<1>2. PICK r \in Readings(e, top.state[e.from]) :
          /\ units' = units + r[2]
          /\ IF units' > budgets.work
             THEN /\ failure' = Fault(stack, "work")
                  /\ stack' = WithTop(stack, Stopped([top EXCEPT !.edge[NextEdge] = r[1]]))
             ELSE /\ stack' = WithTop(stack, [top EXCEPT !.edge[NextEdge] = r[1]])
                  /\ failure' = failure
  BY DEF ResolveEdge
<1>3. NextEdge \in DOMAIN top.man.edges
  BY <1>1, NextResolved
<1>4. /\ failure = None /\ suspended = FALSE /\ top \in Frame /\ top \in Run(top.man)
      /\ stack \in Seq(Frame) /\ stack # <<>> /\ top.at <= Len(top.man.cells)
  BY <1>1, UnderWay, FrameFields DEF SweepInv, StackOK
<1> DEFINE g == [top EXCEPT !.edge[NextEdge] = r[1]]
<1>5. /\ g \in Frame /\ g.man = top.man /\ g.state = top.state /\ g.at = top.at
      /\ g.moved = top.moved
  <2>1. r[1] \in {"pending", "delivered", "empty", "dead"}
    BY <1>2 DEF Readings
  <2> QED BY <1>3, <1>4, <2>1, FrameMade DEF Run
<1>6. units' \in units..(units + Fuel) /\ units' \in Nat /\ budgets.work \in Nat
  <2>1. r[2] \in 0..Fuel
    BY <1>2, CostAssumption DEF Readings
  <2> QED BY <1>2, <2>1, CostAssumption, BudgetsTyped DEF SweepInv, TypeOK
<1> HIDE DEF g
<1>7. CASE units' > budgets.work
  <2>1. Stopped(g) \in Frame /\ Stopped(g).man = top.man
    BY <1>5, Halted
  <2>2. failure' = Fault(stack, "work") /\ stack' = WithTop(stack, Stopped(g)) /\ failure' # None
    BY <1>2, <1>4, <1>7, AtCells, FaultTyped DEF g, SweepInv, StackOK, top
  <2> QED BY <1>1, <1>4, <1>6, <2>1, <2>2 DEF Quiet, Stays
<1>8. CASE ~ (units' > budgets.work)
  <2>1. failure' = None /\ stack' = WithTop(stack, g)
    BY <1>2, <1>4, <1>8 DEF g
  <2>2. Waits(top)
    BY <1>4 DEF WaitInv
  <2>3. Waits(g)
    BY <1>5, <2>2 DEF Waits, Undecided
  <2> QED BY <1>1, <1>4, <1>5, <1>6, <1>8, <2>1, <2>3 DEF Quiet, Stays
<1> QED BY <1>7, <1>8

LEMMA StoppedQuiet ==
    ASSUME SweepInv, AtCell, NEW code \in {"steps", "work", "guard"},
           failure' = Fault(stack, code), stack' = WithTop(stack, Stopped(top)),
           suspended' = suspended, steps' = steps, outcome' = outcome, units' \in {units, units + Fuel}
    PROVE  Quiet(Stopped(top))
<1>1. /\ failure = None /\ suspended = FALSE /\ top \in Frame /\ top.at <= Len(top.man.cells)
      /\ stack \in Seq(Frame) /\ stack # <<>> /\ Levels(stack) /\ outcome = None
  BY UnderWay DEF SweepInv, StackOK, AtCell
<1>2. Fault(stack, code) # None
  BY <1>1, AtCells, FaultTyped DEF top
<1>3. Stopped(top) \in Frame /\ Stopped(top).man = top.man
  BY <1>1, Halted
<1>4. units' \in units..(units + Fuel)
  BY CostAssumption DEF SweepInv, TypeOK
<1> QED BY <1>1, <1>2, <1>3, <1>4 DEF Quiet, Stays

LEMMA SkipQuiet ==
    ASSUME SweepInv, Skip
    PROVE  \E g : Quiet(g)
<1> DEFINE d == [i \in DOMAIN top.edge |->
                   IF top.man.edges[i].from = here /\ top.edge[i] = "pending" THEN "dead" ELSE top.edge[i]]
<1> DEFINE g == [top EXCEPT !.state[here] = "skipped", !.edge = d, !.moved = TRUE]
<1>1. /\ AtCell /\ outcome = None
      /\ stack' = WithTop(stack, Onward(g)) /\ failure' = failure /\ suspended' = suspended
      /\ steps' = steps /\ units' = units /\ outcome' = outcome
  BY DEF Skip, Resolved, Due, AtCell
<1>2. /\ top \in Frame /\ here \in Cells(top) /\ top.at <= Len(top.man.cells)
      /\ failure = None /\ suspended = FALSE
  BY <1>1, UnderWay
<1>3. top \in Run(top.man) /\ top.edge \in [DOMAIN top.man.edges -> {"pending", "delivered", "empty", "dead"}]
  BY <1>2, FrameFields
<1>4. d \in [DOMAIN top.man.edges -> {"pending", "delivered", "empty", "dead"}]
  BY <1>3
<1> HIDE DEF d
<1>5. g \in Frame /\ g.man = top.man /\ g.at = top.at /\ g.moved = TRUE
  <2>1. [top EXCEPT !.state[here] = "skipped"] \in Frame
    BY <1>2, FrameMade DEF Status
  <2>2. [top EXCEPT !.state[here] = "skipped"].man = top.man
    BY <1>3 DEF Run
  <2>3. [[top EXCEPT !.state[here] = "skipped"] EXCEPT !.edge = d] \in Frame
    BY <1>4, <2>1, <2>2, FrameMade
  <2>4. [[[top EXCEPT !.state[here] = "skipped"] EXCEPT !.edge = d] EXCEPT !.moved = TRUE] \in Frame
    BY <2>3, FrameMade
  <2>5. g = [[[top EXCEPT !.state[here] = "skipped"] EXCEPT !.edge = d] EXCEPT !.moved = TRUE]
    BY <1>3 DEF Run
  <2>6. g \in Frame
    BY <2>4, <2>5
  <2>7. g.man = top.man /\ g.at = top.at /\ g.moved = TRUE
    BY <1>3 DEF Run
  <2> QED BY <2>6, <2>7
<1> HIDE DEF g
<1>6. Onward(g) \in Frame /\ Onward(g).man = top.man /\ Onward(g).moved = TRUE
  BY <1>2, <1>5, GoneOn
<1>7. units \in units..(units + Fuel)
  BY CostAssumption DEF SweepInv, TypeOK
<1>8. Waits(Onward(g))
  BY <1>6 DEF Waits
<1> QED BY <1>1, <1>2, <1>6, <1>7, <1>8 DEF Quiet, Stays

LEMMA PassAgainQuiet ==
    ASSUME SweepInv, PassAgain
    PROVE  \E g : Quiet(g)
<1> DEFINE g == [top EXCEPT !.at = 1, !.moved = FALSE]
<1>1. /\ stack' = WithTop(stack, g) /\ failure' = failure /\ suspended' = suspended
      /\ steps' = steps /\ units' = units /\ outcome' = outcome /\ outcome = None
      /\ failure = None /\ suspended = FALSE
  BY DEF PassAgain, AtEnd, Another, SweepInv, TypeOK
<1>2. top \in Frame
  BY Stack DEF top, SweepInv, StackOK
<1>3. g \in Frame /\ g.man = top.man /\ g.at = 1
  <2>1. 1 \in 1..Len(top.man.cells) + 1
    BY <1>2, FrameManifest
  <2>2. top \in Run(top.man) /\ [top EXCEPT !.at = 1] \in Frame
    BY <1>2, <2>1, FrameFields, FrameMade
  <2>3. [[top EXCEPT !.at = 1] EXCEPT !.moved = FALSE] \in Frame
    BY <2>2, FrameMade
  <2>4. g = [[top EXCEPT !.at = 1] EXCEPT !.moved = FALSE]
    BY <2>2 DEF Run
  <2> QED BY <2>2, <2>3, <2>4 DEF Run
<1> HIDE DEF g
<1>4. units \in units..(units + Fuel)
  BY CostAssumption DEF SweepInv, TypeOK
<1>5. Waits(g)
  BY <1>3 DEF Waits
<1> QED BY <1>1, <1>3, <1>4, <1>5 DEF Quiet, Stays

LEMMA QuietStep ==
    ASSUME SweepInv, WaitInv,
           PassOver \/ ResolveEdge \/ GuardFails \/ Skip \/ OutOfSteps \/ PassAgain
    PROVE  \E g : Quiet(g)
<1>1. CASE PassOver
  BY <1>1, PassOverQuiet
<1>2. CASE ResolveEdge
  BY <1>2, ResolveEdgeQuiet
<1>3. CASE GuardFails
  BY <1>3, StoppedQuiet DEF GuardFails, Due
<1>4. CASE Skip
  BY <1>4, SkipQuiet
<1>5. CASE OutOfSteps
  BY <1>5, StoppedQuiet DEF OutOfSteps, Activating, Resolved, Due
<1>6. CASE PassAgain
  BY <1>6, PassAgainQuiet
<1> QED BY <1>1, <1>2, <1>3, <1>4, <1>5, <1>6

LEMMA QuietKeeps ==
    ASSUME SweepInv, SpendInv, NEW g, Quiet(g)
    PROVE  BlameInv' /\ WaitInv' /\ SpendInv'
<1>1. BlameInv'
  BY StaysBlame DEF Quiet
<1>2. WaitInv'
  BY StaysSame DEF Quiet, WaitInv, top
<1>3. failure' = None => units' <= budgets.work + Chain(Len(stack) - 1)
  <2>1. units <= budgets.work + Chain(Len(stack) - 1)
    BY DEF Quiet, SpendInv
  <2>2. budgets.work \in Nat /\ Len(stack) - 1 \in Nat /\ units \in Nat /\ Fuel \in Nat
    BY BudgetsTyped, CostAssumption DEF SweepInv, TypeOK
  <2>3. Chain(Len(stack) - 1) \in Nat
    BY <2>2, ChainGrows
  <2>4. units' \in Nat
    BY <2>2 DEF Quiet
  <2> QED BY <2>1, <2>2, <2>3, <2>4 DEF Quiet
<1>4. SpendInv'
  BY <1>3, StaysSpend DEF Quiet
<1> QED BY <1>1, <1>2, <1>4
-----------------------------------------------------------------------------
LEMMA EndsKeeps ==
    ASSUME SweepInv, SweepInv', NEW s, s[1].man = stack[1].man, Len(s) \in Nat, Len(s) <= budgets.depth + 1,
           \/ Ends(s)
           \/ Begins(s) /\ units' <= budgets.work + Chain(Len(s)),
           steps' <= budgets.steps, units' <= budgets.work + Fuel + Chain(budgets.depth + 1) + Dearest
    PROVE  BlameInv' /\ WaitInv' /\ SpendInv'
<1>1. budgets' = budgets
  BY DEF Ends, Begins, budgets
<1>2. BlameInv'
  BY DEF Ends, Begins, BlameInv
<1>3. WaitInv'
  <2>1. CASE Ends(s)
    BY <2>1 DEF Ends, WaitInv, Waits, top
  <2>2. CASE Begins(s)
    BY <2>2 DEF Begins, WaitInv, Waits, top
  <2> QED BY <2>1, <2>2
<1>4. /\ budgets.work \in Nat /\ budgets.depth \in Nat /\ units' \in Nat
      /\ failure' \in Failure \union {None} /\ suspended' \in BOOLEAN
  BY BudgetsTyped DEF SweepInv, TypeOK
<1>5. Len(stack') <= budgets'.depth + 1
  BY <1>1, <1>4 DEF Ends, Begins
<1>6. failure' = None /\ ~ suspended' => units' <= budgets'.work + Chain(Len(stack') - 1)
  <2>1. CASE Ends(s)
    <3>1. Len(stack') - 1 \in Nat
      BY Stack DEF SweepInv, StackOK
    <3>2. Chain(Len(stack') - 1) \in Nat
      BY <3>1, ChainGrows
    <3> QED BY <1>1, <1>4, <2>1, <3>2 DEF Ends
  <2>2. CASE Begins(s) /\ units' <= budgets.work + Chain(Len(s))
    <3>1. Len(stack') - 1 = Len(s)
      BY <2>2 DEF Begins
    <3> QED BY <1>1, <2>2, <3>1
  <2> QED BY <2>1, <2>2
<1>7. units' <= budgets'.work + Fuel + Activation * (budgets'.depth + 1) + Dearest
  BY <1>1 DEF Chain
<1>8. SpendBounded'
  BY <1>1, <1>7 DEF SpendBounded
<1> QED BY <1>2, <1>3, <1>5, <1>6, <1>8 DEF SpendInv

LEMMA ActivateKeeps ==
    ASSUME SweepInv, SweepInv', SpendInv, Activate
    PROVE  BlameInv' /\ WaitInv' /\ SpendInv'
<1>1. Ends(stack) \/ Begins(stack)
  BY ActivateEnds
<1>2. Activating /\ steps' = steps + 1 /\ steps + 1 <= budgets.steps
  BY DEF Activate
<1>3. failure = None /\ suspended = FALSE /\ outcome = None
  BY <1>2, Activated DEF AtCell
<1>4. /\ budgets.work \in Nat /\ budgets.depth \in Nat /\ Len(stack) \in Nat \ {0}
      /\ units \in Nat /\ Fuel \in Nat /\ Activation \in Nat /\ Dearest \in Nat
      /\ \A d \in Cost : d \in Nat /\ d <= Dearest
  BY BudgetsTyped, DearestIs, CostAssumption DEF SweepInv, TypeOK
<1>5. units <= budgets.work + Chain(Len(stack) - 1) /\ Len(stack) <= budgets.depth + 1
  BY <1>3 DEF SpendInv
<1>6. PICK n \in Nat : Len(stack) = n + 1
  BY <1>4
<1>7. /\ Chain(n) \in Nat /\ Chain(n + 1) = Chain(n) + Activation /\ Chain(n + 1) \in Nat
      /\ Chain(n + 1) <= Chain(budgets.depth + 1) /\ Chain(budgets.depth + 1) \in Nat
  <2>1. n + 1 \in Nat /\ budgets.depth + 1 \in Nat /\ n + 1 <= budgets.depth + 1
    BY <1>4, <1>5, <1>6
  <2> QED BY <2>1, ChainGrows
<1>8. units <= budgets.work + Chain(n) /\ Len(stack) = n + 1
  BY <1>4, <1>5, <1>6
<1>9. \/ \E cost \in Cost : units' = units + Activation + cost /\ ~ Embeds
      \/ units' = units + Activation
  BY DEF Activate
<1>10. units' <= budgets.work + Fuel + Chain(budgets.depth + 1) + Dearest
  <2>1. Chain(n) + Activation <= Chain(budgets.depth + 1)
    BY <1>7
  <2>2. CASE \E cost \in Cost : units' = units + Activation + cost
    <3>1. PICK cost \in Cost : units' = units + Activation + cost
      BY <2>2
    <3>2. cost \in 0..Dearest
      BY <1>4
    <3> QED BY <1>4, <1>7, <1>8, <2>1, <3>1, <3>2, OneMore
  <2>3. CASE units' = units + Activation
    <3>1. 0 \in 0..Dearest /\ units' = units + Activation + 0
      BY <1>4, <2>3
    <3> QED BY <1>4, <1>7, <1>8, <2>1, <3>1, OneMore
  <2> QED BY <1>9, <2>2, <2>3
<1>11. Begins(stack) => units' = units + Activation
  <2> SUFFICES ASSUME Begins(stack), NEW how \in {"done", "failed", "suspended"}, Conclude(stack, how, failure)
               PROVE  FALSE
    BY DEF Activate
  <2>1. /\ Active(Last(stack)) /\ stack \in Seq(Frame) /\ stack # <<>>
        /\ Levels(stack) /\ Sounds(stack)
    BY <1>2, Activated DEF top
  <2>2. Ends(stack)
    BY <1>3, <2>1, ConcludeEnds
  <2> QED BY <1>4, <2>2 DEF Ends, Begins
<1>12. Begins(stack) => units' <= budgets.work + Chain(Len(stack))
  BY <1>4, <1>7, <1>8, <1>11
<1> QED BY <1>1, <1>2, <1>4, <1>5, <1>10, <1>12, EndsKeeps

LEMMA ReturnKeeps ==
    ASSUME SweepInv, SweepInv', BlameInv, SpendInv, Return, Len(stack) # 1
    PROVE  BlameInv' /\ WaitInv' /\ SpendInv'
<1> DEFINE s == Front(stack)
<1>1. /\ Ends(s) \/ Begins(s)
      /\ Begins(s) => failure = None /\ suspended = FALSE
  BY ReturnEnds
<1>2. steps' = steps /\ units' = units /\ outcome = None
  BY DEF Return, AtEnd
<1>3. /\ Len(stack) \in Nat \ {0, 1} /\ Len(s) = Len(stack) - 1
      /\ \A k \in 1..Len(stack) - 1 : s[k] = stack[k]
  BY Returned
<1>4. 1 \in 1..Len(stack) - 1 /\ budgets.depth \in Nat
  BY <1>3, BudgetsTyped
<1>5. s[1].man = stack[1].man /\ Len(s) \in Nat
  BY <1>3, <1>4
<1>6. Len(s) <= budgets.depth + 1
  BY <1>3, <1>4 DEF SpendInv
<1>7. steps' <= budgets.steps /\ units' <= budgets.work + Fuel + Chain(budgets.depth + 1) + Dearest
  BY <1>2 DEF SpendInv, SpendBounded, Chain
<1>8. Begins(s) => units' <= budgets.work + Chain(Len(s))
  BY <1>1, <1>2, <1>3 DEF SpendInv
<1> HIDE DEF s
<1> QED BY <1>1, <1>5, <1>6, <1>7, <1>8, EndsKeeps

LEMMA FrozenKeeps ==
    ASSUME SweepInv, SweepInv', BlameInv, WaitInv, SpendInv,
           UNCHANGED <<stack, failure, suspended>>, outcome' # None \/ outcome' = outcome,
           steps' <= budgets.steps,
           units' = units \/ (outcome' # None /\ outcome = None /\ units' = units + Activation
                               /\ failure = None /\ suspended = FALSE)
    PROVE  BlameInv' /\ WaitInv' /\ SpendInv'
<1>1. BlameInv' /\ WaitInv' /\ budgets' = budgets
  BY DEF BlameInv, WaitInv, top, budgets
<1>2. /\ budgets.work \in Nat /\ budgets.depth \in Nat /\ Len(stack) \in Nat \ {0}
      /\ units \in Nat /\ Fuel \in Nat /\ Activation \in Nat /\ Dearest \in Nat
  BY BudgetsTyped, DearestIs, CostAssumption DEF SweepInv, TypeOK
<1>3. units' <= budgets.work + Fuel + Chain(budgets.depth + 1) + Dearest
  <2>1. CASE units' = units
    BY <2>1 DEF SpendInv, SpendBounded, Chain
  <2>2. CASE outcome = None /\ units' = units + Activation /\ failure = None /\ suspended = FALSE
    <3>1. units <= budgets.work + Chain(Len(stack) - 1) /\ Len(stack) <= budgets.depth + 1
      BY <2>2 DEF SpendInv
    <3>2. PICK n \in Nat : Len(stack) = n + 1
      <4>1. Len(stack) - 1 \in Nat /\ Len(stack) = Len(stack) - 1 + 1
        BY <1>2
      <4> QED BY <4>1
    <3>3. n + 1 \in Nat /\ budgets.depth + 1 \in Nat /\ n + 1 <= budgets.depth + 1
      BY <1>2, <3>1, <3>2
    <3>4. /\ Chain(n) \in Nat /\ Chain(n + 1) = Chain(n) + Activation
          /\ Chain(n + 1) <= Chain(budgets.depth + 1) /\ Chain(budgets.depth + 1) \in Nat
      BY <3>3, ChainGrows
    <3>5. units <= budgets.work + Chain(n)
      BY <3>1, <3>2
    <3>6. Chain(n) + Activation <= Chain(budgets.depth + 1)
      BY <3>4
    <3>7. 0 \in 0..Dearest /\ units' = units + Activation + 0
      BY <1>2, <2>2
    <3> QED BY <1>2, <3>4, <3>5, <3>6, <3>7, OneMore
  <2> QED BY <2>1, <2>2
<1>4. SpendBounded'
  <2>1. units' <= budgets'.work + Fuel + Activation * (budgets'.depth + 1) + Dearest
    BY <1>1, <1>3 DEF Chain
  <2> QED BY <1>1, <2>1 DEF SpendBounded
<1>5. Len(stack') <= budgets'.depth + 1
  BY <1>1 DEF SpendInv
<1>6. failure' = None /\ ~ suspended' /\ outcome' = None => units' <= budgets'.work + Chain(Len(stack') - 1)
  BY <1>1 DEF SpendInv
<1> QED BY <1>1, <1>4, <1>5, <1>6 DEF SpendInv
-----------------------------------------------------------------------------
LEMMA Ended ==
    ASSUME Return, Len(stack) = 1
    PROVE  /\ UNCHANGED <<stack, failure, suspended, steps, units>>
           /\ outcome' = Result /\ outcome' # None /\ AtEnd /\ ~ Another
<1>1. UNCHANGED <<stack, failure, suspended, steps, units>> /\ outcome' = Result /\ AtEnd /\ ~ Another
  BY DEF Return
<1> QED BY <1>1, NoneAssumption DEF Result

LEMMA RunPartsKept ==
    ASSUME SweepInv, SweepInv', BlameInv, WaitInv, SpendInv, Next
    PROVE  BlameInv' /\ WaitInv' /\ SpendInv'
<1>1. CASE PassOver \/ ResolveEdge \/ GuardFails \/ Skip \/ OutOfSteps \/ PassAgain
  BY <1>1, QuietStep, QuietKeeps
<1>2. CASE Activate
  BY <1>2, ActivateKeeps
<1>3. CASE Abort
  <2>1. /\ UNCHANGED <<stack, failure, suspended>> /\ Activating
        /\ outcome' = "aborted" /\ steps' = steps + 1 /\ steps + 1 <= budgets.steps
        /\ units' = units + Activation
    BY <1>3 DEF Abort
  <2>2. failure = None /\ suspended = FALSE /\ outcome = None /\ outcome' # None
    BY <2>1, Activated, NoneAssumption DEF AtCell
  <2>3. steps' <= budgets.steps
    BY <2>1
  <2> QED BY <2>1, <2>2, <2>3, FrozenKeeps
<1>4. CASE Return /\ Len(stack) = 1
  <2>1. steps' <= budgets.steps
    BY <1>4, Ended DEF SpendInv, SpendBounded
  <2> QED BY <1>4, <2>1, Ended, FrozenKeeps
<1>5. CASE Return /\ Len(stack) # 1
  BY <1>5, ReturnKeeps
<1> QED BY <1>1, <1>2, <1>3, <1>4, <1>5 DEF Next

LEMMA ThroughLed == \A p : Through(p) = Led(stack[1].man, p)
  BY DEF Through, Led

(* A root whose last pass settled nothing and that neither failed nor      *)
(* paused has settled every cell: the pending ones would all wait for one  *)
(* another, and edges make no cycle.                                       *)
LEMMA NoneStuck ==
    ASSUME SweepInv, WaitInv, AtEnd, ~ Another, failure = None, ~ suspended
    PROVE  \A c \in DOMAIN top.state : top.state[c] # "pending"
<1> DEFINE S == {c \in Cells(top) : top.state[c] = "pending"}
<1>1. top \in Frame
  BY Stack DEF SweepInv, StackOK, top
<1>2. /\ top.state \in [Cells(top) -> Status] /\ top.man \in Manifest
      /\ top.at \in 1..Len(top.man.cells) + 1 /\ top.moved \in BOOLEAN
      /\ top.man.cells \in Seq(Cells(top)) /\ Len(top.man.cells) \in Nat
  BY <1>1, FrameFields, FrameManifest
<1>3. top.at = Len(top.man.cells) + 1 /\ ~ top.moved
  BY <1>2 DEF AtEnd, Another
<1>4. Waits(top)
  BY DEF WaitInv
<1>5. ASSUME NEW c \in S
      PROVE  \E i \in Into(top.man, c) : top.man.edges[i].from \in S
  <2>1. PICK j \in 1..Len(top.man.cells) : top.man.cells[j] = c
    BY <1>2 DEF Cells, ToSet
  <2>2. j \in 1..top.at - 1
    BY <1>2, <1>3, <2>1
  <2>3. Undecided(top, c)
    BY <1>3, <1>4, <2>1, <2>2 DEF Waits
  <2> QED BY <1>1, <2>3, FrameManifest DEF Undecided, Into
<1>6. S \in SUBSET Cells(top) /\ Compiled(top.man)
  BY <1>2, ManifestAssumption
<1> HIDE DEF S
<1>7. S = {}
  BY <1>5, <1>6 DEF Compiled, Cells
<1> QED BY <1>2, <1>7 DEF S

LEMMA EndJustified ==
    ASSUME SweepInv, BlameInv, WaitInv, Return, Len(stack) = 1
    PROVE  OutcomeJustified'
<1>1. /\ stack' = stack /\ failure' = failure /\ outcome' = Result /\ AtEnd /\ ~ Another /\ top' = top
  BY Ended DEF top
<1>2. /\ top \in Frame /\ TopOK(stack, failure, suspended) /\ suspended \in BOOLEAN
      /\ failure \in Failure \union {None}
  BY Stack DEF SweepInv, StackOK, top
<1>3. DOMAIN top.state = Cells(top) /\ top.state \in [Cells(top) -> Status]
  BY <1>2, FrameFields
<1>4. outcome' = "complete" =>
          /\ failure = None
          /\ \A c \in DOMAIN top.state :
                \/ top.state[c] \in {"done", "skipped"}
                \/ top.state[c] = "failed" /\ Handled(top.man, c)
  BY <1>1, <1>2, <1>3 DEF Result, TopOK, Calm, top
<1>5. ASSUME outcome' = "failed", NEW k \in 1..Len(failure.path)
      PROVE  \/ ~ Handled(Led(stack[1].man, failure.path)[k], failure.path[k])
             \/ k = Len(failure.path) /\ failure.code \in {"steps", "work", "guard"}
  <2>1. failure # None
    BY <1>1, <1>5 DEF Result
  <2>2. Blame(stack, failure, 1)
    BY <2>1 DEF BlameInv
  <2> QED BY <2>2 DEF Blame
<1>6. outcome' = "suspended" => failure = None /\ \E c \in DOMAIN top.state : top.state[c] = "suspended"
  BY <1>1, <1>2, <1>3 DEF Result, TopOK, top
<1>7. outcome' # "stuck"
  BY <1>1, <1>2, NoneStuck DEF Result
<1>8. \A p : Through(p)' = Led(stack[1].man, p)
  BY <1>1 DEF Through, Led
<1> QED BY <1>1, <1>4, <1>5, <1>6, <1>7, <1>8 DEF OutcomeJustified

LEMMA RunJustified ==
    ASSUME SweepInv, BlameInv, WaitInv, OutcomeJustified, Next
    PROVE  OutcomeJustified'
<1>1. CASE Return /\ Len(stack) = 1
  BY <1>1, EndJustified
<1>2. CASE Abort
  BY <1>2 DEF Abort, OutcomeJustified
<1>3. CASE ~ Abort /\ ~ (Return /\ Len(stack) = 1)
  <2>1. outcome' = None
    BY <1>3 DEF Next, PassOver, ResolveEdge, GuardFails, Skip, OutOfSteps, Activate, PassAgain, Return,
                Resolved, Activating, Due, AtCell, AtEnd
  <2> QED BY <2>1, NoneAssumption DEF OutcomeJustified
<1> QED BY <1>1, <1>2, <1>3

LEMMA RunKept ==
    ASSUME RunInv, [Next]_vars
    PROVE  RunInv'
<1>1. SweepInv'
  BY SweepKept DEF RunInv
<1>2. CASE Next
  BY <1>1, <1>2, RunPartsKept, RunJustified DEF RunInv
<1>3. CASE UNCHANGED vars
  <2>1. BlameInv' /\ WaitInv' /\ SpendInv'
    BY <1>3 DEF RunInv, vars, BlameInv, WaitInv, SpendInv, SpendBounded, budgets, top
  <2>2. \A p : Through(p)' = Through(p)
    BY <1>3 DEF vars, Through
  <2>3. OutcomeJustified'
    BY <1>3, <2>2 DEF RunInv, vars, OutcomeJustified, top
  <2> QED BY <1>1, <2>1, <2>3 DEF RunInv
<1> QED BY <1>2, <1>3

LEMMA RunInit ==
    ASSUME Init
    PROVE  RunInv
<1>1. SweepInv
  BY SweepInit
<1>2. /\ failure = None /\ suspended = FALSE /\ steps = 0 /\ units = 0 /\ outcome = None
  BY DEF Init
<1>3. PICK m \in Manifest : stack = <<Enter(m)>>
  BY DEF Init
<1>4. Len(stack) = 1 /\ top = Enter(m) /\ top.at = 1
  BY <1>3 DEF top, Last, Enter
<1>5. BlameInv /\ WaitInv
  BY <1>2, <1>4 DEF BlameInv, WaitInv, Waits
<1>6. /\ budgets.steps \in Nat /\ budgets.work \in Nat /\ budgets.depth \in Nat
      /\ Fuel \in Nat /\ Dearest \in Nat
  BY <1>1, BudgetsTyped, DearestIs, CostAssumption
<1>7. Chain(0) \in Nat /\ Chain(budgets.depth + 1) \in Nat
  BY <1>6, ChainGrows
<1>8. 0 <= budgets.work + Fuel + Activation * (budgets.depth + 1) + Dearest
  BY <1>6, <1>7 DEF Chain
<1>9. SpendInv
  <2>1. 0 <= budgets.work + Chain(Len(stack) - 1) /\ Len(stack) <= budgets.depth + 1
    BY <1>4, <1>6, <1>7
  <2> QED BY <1>2, <1>6, <1>8, <2>1 DEF SpendInv, SpendBounded
<1>10. OutcomeJustified
  BY <1>2, NoneAssumption DEF OutcomeJustified
<1> QED BY <1>1, <1>5, <1>9, <1>10 DEF RunInv

(* What a receipt says of a run's end is what its cells say, at every      *)
(* level: a complete run left no failure unhandled, a failed one names a   *)
(* failure nobody on its path handles, a suspended one has not failed, and *)
(* none is stuck (runInto, run.ts, 542-573).                               *)
THEOREM OutcomeAccounted == Spec => []OutcomeJustified
<1>1. RunInv => OutcomeJustified
  BY DEF RunInv
<1> QED BY <1>1, RunInit, RunKept, PTL DEF Spec

(* However deep the manifests nest and whatever their cells cost, a run    *)
(* spends no more than its budgets and the one chain of activations that   *)
(* crossed them (run.ts, 471-486 and 556-561).                             *)
THEOREM SpendingBounded == Spec => []SpendBounded
<1>1. RunInv => SpendBounded
  BY DEF RunInv, SpendInv
<1> QED BY <1>1, RunInit, RunKept, PTL DEF Spec
-----------------------------------------------------------------------------
(***************************************************************************)
(* Proofs about Scheduler, for any number of hosts and processes, any      *)
(* bounds and any number of failures.  The argument: a host goes by what   *)
(* it read under the lease it holds, nobody else dispatches or recovers    *)
(* the process meanwhile (HostInv), and mail that is there came since the  *)
(* process began to wait (RungInv).                                        *)
(***************************************************************************)
Holding == {"check", "probe", "save", "run"}

(* What a host under way goes by: a process that exists, its own lease     *)
(* from the check on, and the published record while it acts on it.        *)
HostInv == \A s \in Host :
    /\ pc[s] = "idle" => ~ auto[s]
    /\ pc[s] \notin {"idle", "visit"} =>
          /\ cur[s] \in Name /\ head[cur[s]] # Absent
          /\ auto[s] => ticks[s] < MaxTicks
    /\ pc[s] \in Holding => lease[cur[s]] = s
    /\ pc[s] \in {"probe", "save"} =>
          /\ seen[s] = head[cur[s]]
          /\ seen[s].status \in Resting /\ seen[s].gen < MaxGenerations
    /\ pc[s] = "probe" => seen[s].status = "waiting"
    /\ pc[s] = "run" => seen[s] = head[cur[s]] /\ seen[s].status = "uncertain"

(* Mail that waits for a process came after it began to wait, and whoever  *)
(* is about to wake one has seen it.                                       *)
RungInv ==
    /\ \A n \in Name :
          head[n] # Absent /\ head[n].status = "waiting" /\ mail[n] = "pending" => n \in rung
    /\ \A s \in Host :
          pc[s] = "save" /\ auto[s] /\ seen[s].status = "waiting" => cur[s] \in rung

PassInv == PassesTypeOK /\ HostInv /\ RungInv

LocalTypes ==
    /\ pc \in [Host -> {"idle", "visit", "lock", "check", "probe", "save", "run"}]
    /\ auto \in [Host -> BOOLEAN]
    /\ todo \in [Host -> SUBSET Name]
    /\ ticks \in [Host -> 0..MaxTicks]
    /\ cur \in [Host -> Name \union {Absent}]
    /\ seen \in [Host -> Record \union {Absent}]

(* Only host s moves. *)
OnlyMoves(s) == \A t \in Host \ {s} :
    /\ pc'[t] = pc[t] /\ auto'[t] = auto[t] /\ ticks'[t] = ticks[t]
    /\ cur'[t] = cur[t] /\ seen'[t] = seen[t]

(* It is at no process.                                                    *)
Free(s) == pc[s] = "visit" \/ (pc[s] = "idle" /\ ~ auto[s])
-----------------------------------------------------------------------------
LEMMA FirstName ==
    ASSUME NEW S \in SUBSET Name, S # {}
    PROVE  Min(S) \in S
<1>1. S \in SUBSET Nat
  BY NameAssumption
<1>2. \E x \in S : \A y \in S : x <= y
  BY <1>1, LeastNumber
<1> QED BY <1>2 DEF Min

LEMMA EndEffect ==
    ASSUME PassesTypeOK, NEW s \in Host, End(s)
    PROVE  LocalTypes' /\ OnlyMoves(s) /\ pc'[s] = "idle" /\ ~ auto'[s]
<1>1. pc' = [pc EXCEPT ![s] = "idle"] /\ cur' = [cur EXCEPT ![s] = Absent]
      /\ seen' = [seen EXCEPT ![s] = Absent] /\ auto' = [auto EXCEPT ![s] = FALSE]
      /\ todo' = [todo EXCEPT ![s] = {}] /\ ticks' = [ticks EXCEPT ![s] = 0]
  BY DEF End, Goto, Forget
<1>2. 0 \in 0..MaxTicks
  BY SchedulerBounds
<1>3. LocalTypes'
  BY <1>1, <1>2 DEF PassesTypeOK, LocalTypes
<1>4. OnlyMoves(s) /\ pc'[s] = "idle" /\ ~ auto'[s]
  BY <1>1 DEF PassesTypeOK, OnlyMoves
<1> QED BY <1>3, <1>4

LEMMA LeaveEffect ==
    ASSUME PassesTypeOK, NEW s \in Host, Leave(s)
    PROVE  LocalTypes' /\ OnlyMoves(s) /\ Free(s)'
<1>1. CASE auto[s]
  BY <1>1 DEF Leave, Goto, Forget, PassesTypeOK, LocalTypes, OnlyMoves, Free
<1>2. CASE ~ auto[s]
  BY <1>2, EndEffect DEF Leave, Free
<1> QED BY <1>1, <1>2

(* A host that is done with a process leaves the rest as it is, and gives  *)
(* back no lease but its own.                                              *)
LEMMA RetirePass ==
    ASSUME PassInv, NEW s \in Host, LocalTypes', OnlyMoves(s), Free(s)',
           UNCHANGED <<dirs, strays, head, mail, rung>>, faults' \in 0..MaxFaults,
           (Unlock(s) /\ pc[s] \in Holding) \/ UNCHANGED lease
    PROVE  PassInv'
<1>1. PassesTypeOK'
  BY DEF PassInv, PassesTypeOK, LocalTypes, Unlock
<1>2. \A t \in Host : pc'[t] \in Holding => t # s /\ lease'[cur'[t]] = t
  BY DEF PassInv, PassesTypeOK, HostInv, Holding, OnlyMoves, Free, Unlock
<1>3. HostInv'
  BY <1>2 DEF PassInv, HostInv, OnlyMoves, Free
<1>4. RungInv'
  BY DEF PassInv, RungInv, OnlyMoves, Free
<1> QED BY <1>1, <1>3, <1>4 DEF PassInv

LEMMA PassInit == PassesInit => PassInv
  BY SchedulerBounds, AbsentAssumption
     DEF PassesInit, PassInv, PassesTypeOK, HostInv, RungInv, Holding, Contents

LEMMA VisitPass ==
    ASSUME PassInv, NEW s \in Host, Visit(s)
    PROVE  PassInv'
<1> DEFINE n == Min(todo[s])
<1> USE DEF PassInv
<1>1. CASE End(s)
  BY <1>1, EndEffect, RetirePass DEF Free, Visit, PassesTypeOK
<1>2. CASE ~ End(s)
  <2>1. todo[s] # {} /\ ticks[s] < MaxTicks
    BY <1>2, SchedulerBounds DEF Visit, PassesTypeOK
  <2>2. n \in todo[s] /\ n \in Name
    BY <2>1, FirstName DEF PassesTypeOK
  <2>3. /\ head[n] # Absent /\ todo' = [todo EXCEPT ![s] = @ \ {n}]
        /\ \/ /\ cur' = [cur EXCEPT ![s] = n] /\ seen' = [seen EXCEPT ![s] = head[n]]
              /\ pc' = [pc EXCEPT ![s] = "lock"]
           \/ UNCHANGED <<cur, seen, pc>>
        /\ UNCHANGED <<auto, ticks, dirs, strays, head, lease, mail, faults, rung>>
    BY <1>2, <2>1 DEF Visit, Goto
  <2>4. head[n] \in Record \union {Absent}
    BY <2>2 DEF PassesTypeOK
  <2> HIDE DEF n
  <2>5. PassesTypeOK'
    BY <2>2, <2>3, <2>4 DEF PassesTypeOK
  <2>6. HostInv'
    BY <2>1, <2>2, <2>3 DEF PassesTypeOK, HostInv, Holding
  <2>7. RungInv'
    BY <2>3 DEF PassesTypeOK, RungInv
  <2> QED BY <2>5, <2>6, <2>7
<1> QED BY <1>1, <1>2

LEMMA BeginPass ==
    ASSUME PassInv, NEW s \in Host, Begin(s)
    PROVE  PassInv'
<1> USE DEF PassInv, PassesTypeOK, Begin, Goto
<1>1. PassesTypeOK'
  OBVIOUS
<1>2. HostInv'
  BY DEF HostInv, Holding
<1>3. RungInv'
  BY DEF RungInv
<1> QED BY <1>1, <1>2, <1>3

LEMMA TickByHandPass ==
    ASSUME PassInv, NEW s \in Host, NEW n \in Name, TickByHand(s, n)
    PROVE  PassInv'
<1> USE DEF PassInv, PassesTypeOK, TickByHand, Goto
<1>1. PassesTypeOK'
  OBVIOUS
<1>2. ~ auto[s]
  BY DEF HostInv
<1>3. HostInv'
  BY <1>2 DEF HostInv, Holding
<1>4. RungInv'
  BY DEF RungInv
<1> QED BY <1>1, <1>3, <1>4

LEMMA TakeLeasePass ==
    ASSUME PassInv, NEW s \in Host, TakeLease(s)
    PROVE  PassInv'
<1> USE DEF PassInv
<1>1. CASE lease[cur[s]] # Absent
  BY <1>1, EndEffect, RetirePass DEF Free, TakeLease, PassesTypeOK
<1>2. CASE lease[cur[s]] = Absent
  <2>1. /\ pc[s] = "lock" /\ pc' = [pc EXCEPT ![s] = "check"]
        /\ lease' = [lease EXCEPT ![cur[s]] = s]
        /\ UNCHANGED <<locals, dirs, strays, head, mail, faults, rung>>
    BY <1>2 DEF TakeLease, Goto
  <2>2. cur[s] \in Name
    BY <2>1 DEF HostInv
  <2>3. PassesTypeOK'
    <3>1. lease' \in [Name -> Host \union {Absent}]
      BY <2>1, <2>2 DEF PassesTypeOK
    <3>2. pc' \in [Host -> {"idle", "visit", "lock", "check", "probe", "save", "run"}]
      BY <2>1 DEF PassesTypeOK
    <3> QED BY <1>1, <2>1, <3>1, <3>2 DEF PassesTypeOK, locals
  <2>4. \A t \in Host : pc'[t] \in Holding => lease'[cur'[t]] = t
    BY <1>2, <2>1, <2>2, AbsentAssumption DEF PassesTypeOK, HostInv, Holding, locals
  <2>5. HostInv'
    BY <2>1, <2>4 DEF PassesTypeOK, HostInv, locals
  <2>6. RungInv'
    BY <2>1 DEF PassesTypeOK, RungInv, locals
  <2> QED BY <2>3, <2>5, <2>6
<1> QED BY <1>1, <1>2

LEMMA CheckPass ==
    ASSUME PassInv, NEW s \in Host, Check(s)
    PROVE  PassInv'
<1> DEFINE r == head[cur[s]]
<1> USE DEF PassInv
<1>1. pc[s] = "check" /\ UNCHANGED <<dirs, strays, head, mail, faults, rung>>
  BY DEF Check, CheckRecord
<1>2. cur[s] \in Name /\ r \in Record /\ pc[s] \in Holding
  BY <1>1 DEF HostInv, Holding, PassesTypeOK
<1>3. CASE Unlock(s) /\ (End(s) \/ Leave(s))
  <2>1. LocalTypes' /\ OnlyMoves(s) /\ Free(s)'
    BY <1>3, EndEffect, LeaveEffect DEF Free
  <2> QED BY <1>1, <1>2, <1>3, <2>1, RetirePass DEF PassesTypeOK
<1>4. CASE ~ (Unlock(s) /\ (End(s) \/ Leave(s)))
  <2>1. /\ r.status \in Resting /\ ~ (r.gen >= MaxGenerations)
        /\ pc' = [pc EXCEPT ![s] = IF auto[s] /\ r.status = "waiting" THEN "probe" ELSE "save"]
        /\ seen' = [seen EXCEPT ![s] = r]
        /\ UNCHANGED <<lease, auto, todo, ticks, cur>>
    BY <1>4 DEF Check, CheckRecord, Process, Goto
  <2>2. r.gen < MaxGenerations
    BY <2>1, <1>2, SchedulerBounds DEF Record
  <2> HIDE DEF r
  <2>3. PassesTypeOK'
    BY <1>1, <1>2, <2>1 DEF PassesTypeOK
  <2>4. HostInv'
    BY <1>1, <1>2, <2>1, <2>2 DEF PassesTypeOK, HostInv, Holding, r
  <2>5. RungInv'
    BY <1>1, <1>2, <2>1 DEF PassesTypeOK, RungInv
  <2> QED BY <2>3, <2>4, <2>5
<1> QED BY <1>3, <1>4

LEMMA ProbePass ==
    ASSUME PassInv, NEW s \in Host, Probe(s)
    PROVE  PassInv'
<1> USE DEF PassInv
<1>1. pc[s] = "probe" /\ UNCHANGED <<dirs, strays, head, mail, faults, rung>>
  BY DEF Probe
<1>2. cur[s] \in Name /\ mail[cur[s]] \in Contents /\ pc[s] \in Holding
  BY <1>1 DEF HostInv, Holding, PassesTypeOK
<1>3. CASE mail[cur[s]] \in {"empty", "closed"}
  <2>1. Unlock(s) /\ (End(s) \/ Leave(s))
    BY <1>3 DEF Probe
  <2>2. LocalTypes' /\ OnlyMoves(s) /\ Free(s)'
    BY <2>1, EndEffect, LeaveEffect DEF Free
  <2> QED BY <1>1, <1>2, <2>1, <2>2, RetirePass DEF PassesTypeOK
<1>4. CASE mail[cur[s]] = "pending"
  <2>1. pc' = [pc EXCEPT ![s] = "save"] /\ UNCHANGED <<lease, locals>>
    BY <1>4 DEF Probe, Goto
  <2>2. PassesTypeOK'
    BY <1>1, <2>1 DEF PassesTypeOK, locals
  <2>3. HostInv'
    BY <1>1, <2>1 DEF PassesTypeOK, HostInv, Holding, locals
  <2>4. head[cur[s]] # Absent /\ head[cur[s]].status = "waiting"
    BY <1>1 DEF HostInv
  <2>5. cur[s] \in rung
    BY <1>2, <1>4, <2>4 DEF RungInv
  <2>6. RungInv'
    BY <1>1, <2>1, <2>5 DEF PassesTypeOK, RungInv, locals
  <2> QED BY <2>2, <2>3, <2>6
<1> QED BY <1>2, <1>3, <1>4 DEF Contents

(* Two hosts never hold one process.                                       *)
LEMMA Apart ==
    ASSUME PassInv, NEW s \in Host, NEW t \in Host, t # s,
           pc[s] \in Holding, pc[t] \in Holding
    PROVE  cur[t] # cur[s]
  BY DEF PassInv, HostInv

LEMMA SavePass ==
    ASSUME PassInv, NEW s \in Host, Save(s)
    PROVE  PassInv'
<1> DEFINE r == [gen |-> seen[s].gen + 1, status |-> "uncertain"]
<1> USE DEF PassInv
<1>1. /\ pc[s] = "save" /\ head' = [head EXCEPT ![cur[s]] = r]
      /\ pc' = [pc EXCEPT ![s] = "run"]
      /\ mail' = [mail EXCEPT ![cur[s]] = "empty"] /\ rung' = rung \ {cur[s]}
      /\ UNCHANGED <<dirs, strays, lease, auto, todo, ticks, cur, faults>>
  BY DEF Save, Goto
<1>2. /\ cur[s] \in Name /\ head[cur[s]] # Absent
      /\ seen[s] = head[cur[s]] /\ seen[s].gen < MaxGenerations
  BY <1>1 DEF HostInv
<1>3. r \in Record /\ r # Absent /\ r.status = "uncertain" /\ r.status \notin Resting
  <2>1. seen[s] \in Record
    BY <1>2 DEF PassesTypeOK
  <2>2. r.gen \in 0..MaxGenerations
    BY <1>2, <2>1, SchedulerBounds DEF Record
  <2>3. r \in Record
    BY <2>2 DEF Record, ProcessStatus
  <2> QED BY <2>3, AbsentAssumption DEF Resting
<1> HIDE DEF r
<1>4. head'[cur[s]] = r /\ seen' = [seen EXCEPT ![s] = r]
  BY <1>1, <1>2 DEF Save, PassesTypeOK
<1>5. PassesTypeOK'
  BY <1>1, <1>2, <1>3, <1>4 DEF PassesTypeOK, Contents
<1>6. \A t \in Host \ {s} : /\ pc'[t] = pc[t] /\ seen'[t] = seen[t]
                            /\ pc[t] \in Holding => cur[t] # cur[s]
  BY <1>1, <1>4, Apart DEF PassesTypeOK, Holding
<1>7. \A n \in Name : head'[n] # head[n] => n = cur[s]
  BY <1>1 DEF PassesTypeOK
<1>8. ASSUME NEW t \in Host \ {s} PROVE HostInv!(t)'
  BY <1>1, <1>3, <1>4, <1>6, <1>7 DEF HostInv, Holding
<1>9. HostInv!(s)'
  BY <1>1, <1>2, <1>3, <1>4 DEF HostInv, Holding, PassesTypeOK
<1>10. HostInv'
  BY <1>8, <1>9 DEF HostInv
<1>11. RungInv'
  BY <1>1, <1>2, <1>3, <1>4, <1>6, <1>7 DEF RungInv, PassesTypeOK, Holding, Resting
<1> QED BY <1>5, <1>10, <1>11

(* What an outcome leaves at a name nobody else is at.                     *)
LEMMA SettleEffect ==
    ASSUME PassInv, NEW n \in Name, head[n] # Absent, Settle(n, head[n].gen)
    PROVE  /\ head' \in [Name -> Record \union {Absent}] /\ mail' \in [Name -> Contents]
           /\ rung' \subseteq Name
           /\ head'[n] # Absent
           /\ \A k \in Name \ {n} : head'[k] = head[k] /\ mail'[k] = mail[k]
           /\ rung \subseteq rung'
           /\ mail'[n] = "pending" => n \in rung'
<1>1. head[n].gen \in 0..MaxGenerations
  BY DEF PassInv, PassesTypeOK, Record
<1>2. PICK st \in {"suspended", "waiting", "over"}, m \in Contents :
          /\ head' = [head EXCEPT ![n] = [gen |-> head[n].gen, status |-> st]]
          /\ mail' = [mail EXCEPT ![n] = m]
          /\ rung' = IF m = "pending" THEN rung \union {n} ELSE rung
  BY DEF Settle
<1>3. [gen |-> head[n].gen, status |-> st] \in Record
  BY <1>1 DEF Record, ProcessStatus, Resting
<1> QED BY <1>2, <1>3, AbsentAssumption DEF PassInv, PassesTypeOK

LEMMA FinishPass ==
    ASSUME PassInv, NEW s \in Host, Finish(s)
    PROVE  PassInv'
<1> DEFINE n == cur[s]
<1> USE DEF PassInv
<1>1. pc[s] = "run" /\ Settle(n, seen[s].gen) /\ Unlock(s) /\ UNCHANGED <<dirs, strays, faults>>
  BY DEF Finish
<1>2. n \in Name /\ head[n] # Absent /\ seen[s] = head[n] /\ pc[s] \in Holding
  BY <1>1 DEF HostInv, Holding
<1>3. Settle(n, head[n].gen)
  BY <1>1, <1>2
<1>4. LocalTypes' /\ OnlyMoves(s) /\ Free(s)'
  <2>1. CASE auto[s]
    <3>1. ticks[s] + 1 \in 0..MaxTicks
      BY <1>1, <2>1, SchedulerBounds DEF HostInv, PassesTypeOK
    <3> QED BY <2>1, <3>1 DEF Finish, Goto, Forget, PassesTypeOK, LocalTypes, OnlyMoves, Free
  <2>2. CASE ~ auto[s]
    BY <2>2, EndEffect DEF Finish, Free
  <2> QED BY <2>1, <2>2
<1> HIDE DEF n
<1>5. /\ head' \in [Name -> Record \union {Absent}] /\ mail' \in [Name -> Contents]
      /\ rung' \subseteq Name
      /\ head'[n] # Absent
      /\ \A k \in Name \ {n} : head'[k] = head[k] /\ mail'[k] = mail[k]
      /\ rung \subseteq rung'
      /\ mail'[n] = "pending" => n \in rung'
  BY <1>2, <1>3, SettleEffect
<1>6. PassesTypeOK'
  BY <1>1, <1>4, <1>5 DEF PassesTypeOK, LocalTypes, Unlock
<1>7. \A t \in Host : pc'[t] \in Holding => t # s /\ cur[t] # n /\ lease'[cur[t]] = t
  BY <1>1, <1>2, <1>4, Apart DEF Unlock, OnlyMoves, Free, Holding, PassesTypeOK, HostInv, n
<1>8. HostInv'
  BY <1>2, <1>4, <1>5, <1>7 DEF HostInv, OnlyMoves, Holding, Free
<1>9. RungInv'
  BY <1>4, <1>5 DEF RungInv, OnlyMoves, Free
<1> QED BY <1>6, <1>8, <1>9

LEMMA FailPass ==
    ASSUME PassInv, NEW s \in Host, Fail(s)
    PROVE  PassInv'
<1> USE DEF PassInv
<1>1. faults' \in 0..MaxFaults
  BY SchedulerBounds DEF Fail, PassesTypeOK
<1>2. (Unlock(s) /\ pc[s] \in Holding) \/ UNCHANGED lease
  BY DEF Fail, Holding
<1> QED BY <1>1, <1>2, EndEffect, RetirePass DEF Free, Fail

LEMMA RecoverPass ==
    ASSUME PassInv, NEW n \in Name, Recover(n)
    PROVE  PassInv'
<1> USE DEF PassInv
<1>1. /\ head[n] # Absent /\ lease[n] = Absent /\ Settle(n, head[n].gen)
      /\ UNCHANGED <<dirs, strays, lease, pc, locals, faults>>
  BY DEF Recover
<1>2. /\ head' \in [Name -> Record \union {Absent}] /\ mail' \in [Name -> Contents]
      /\ rung' \subseteq Name
      /\ head'[n] # Absent
      /\ \A k \in Name \ {n} : head'[k] = head[k] /\ mail'[k] = mail[k]
      /\ rung \subseteq rung'
      /\ mail'[n] = "pending" => n \in rung'
  BY <1>1, SettleEffect
<1>3. \A t \in Host : pc[t] \in Holding => cur[t] # n
  BY <1>1, AbsentAssumption DEF HostInv
<1>4. PassesTypeOK'
  BY <1>1, <1>2 DEF PassesTypeOK, locals
<1>5. HostInv'
  BY <1>1, <1>2, <1>3 DEF HostInv, Holding, locals
<1>6. RungInv'
  BY <1>1, <1>2 DEF RungInv, locals
<1> QED BY <1>4, <1>5, <1>6

LEMMA MkdirPass ==
    ASSUME PassInv, NEW n \in Name, Mkdir(n)
    PROVE  PassInv'
  BY DEF PassInv, PassesTypeOK, HostInv, RungInv, Holding, Mkdir, locals

LEMMA ScratchPass ==
    ASSUME PassInv, WriteScratch \/ RemoveScratch
    PROVE  PassInv'
<1>1. strays' \subseteq {Scratch} /\ UNCHANGED <<dirs, head, lease, mail, pc, locals, faults, rung>>
  BY DEF WriteScratch, RemoveScratch
<1> QED BY <1>1 DEF PassInv, PassesTypeOK, HostInv, RungInv, Holding, locals

LEMMA PublishPass ==
    ASSUME PassInv, NEW n \in Name, Publish(n)
    PROVE  PassInv'
<1> DEFINE r == [gen |-> 0, status |-> "ready"]
<1> USE DEF PassInv
<1>1. /\ head[n] = Absent /\ head' = [head EXCEPT ![n] = r]
      /\ UNCHANGED <<dirs, strays, lease, mail, pc, locals, faults, rung>>
  BY DEF Publish
<1>2. r \in Record /\ r.status # "waiting" /\ r # Absent
  BY SchedulerBounds, AbsentAssumption DEF Record, ProcessStatus, Resting
<1> HIDE DEF r
<1>3. PassesTypeOK'
  BY <1>1, <1>2 DEF PassesTypeOK, locals
<1>4. HostInv'
  BY <1>1, <1>2 DEF PassesTypeOK, HostInv, Holding, locals
<1>5. RungInv'
  BY <1>1, <1>2 DEF PassesTypeOK, RungInv, locals
<1> QED BY <1>3, <1>4, <1>5

LEMMA MailPass ==
    ASSUME PassInv, NEW n \in Name, NEW m \in Contents, Mail(n, m)
    PROVE  PassInv'
  BY DEF PassInv, PassesTypeOK, HostInv, RungInv, Mail, locals

LEMMA PassNext == PassInv /\ [PassesNext]_passesVars => PassInv'
<1> SUFFICES ASSUME PassInv, [PassesNext]_passesVars PROVE PassInv'
  OBVIOUS
<1>1. CASE UNCHANGED passesVars
  BY <1>1 DEF PassInv, PassesTypeOK, HostInv, RungInv, passesVars, locals
<1>2. ASSUME NEW s \in Host, Step(s) PROVE PassInv'
  BY <1>2, VisitPass, TakeLeasePass, CheckPass, ProbePass, SavePass, FinishPass DEF Step
<1>3. ASSUME NEW s \in Host, Begin(s) \/ Fail(s) \/ \E n \in Name : TickByHand(s, n)
      PROVE  PassInv'
  BY <1>3, BeginPass, FailPass, TickByHandPass
<1>4. ASSUME NEW n \in Name, Recover(n) \/ Mkdir(n) \/ Publish(n) PROVE PassInv'
  BY <1>4, RecoverPass, MkdirPass, PublishPass
<1>5. ASSUME NEW n \in Name, NEW m \in Contents, Mail(n, m) PROVE PassInv'
  BY <1>5, MailPass
<1>6. CASE WriteScratch \/ RemoveScratch
  BY <1>6, ScratchPass
<1> QED BY <1>1, <1>2, <1>3, <1>4, <1>5, <1>6 DEF PassesNext

(* Every variable of the hosts and of the processes they pass keeps its    *)
(* type, and no pass exceeds its ticks (process.ts, 957-970).              *)
THEOREM PassTypes == PassesSpec => []PassesTypeOK
<1>1. PassInv => PassesTypeOK
  BY DEF PassInv
<1> QED BY PassInit, PassNext, <1>1, PTL DEF PassesSpec

(* A pass that saves a dispatch of a waiting process saw a message come    *)
(* after it began to wait: its probe under the lease found one, which      *)
(* nothing since can have made untrue (process.ts, 902-915).               *)
THEOREM OnlyMailWakes == PassesSpec => WokenByMessage
<1>1. PassInv => \A s \in Host :
          Save(s) /\ auto[s] /\ Process(s).status = "waiting" => cur[s] \in rung
  BY DEF PassInv, HostInv, RungInv, Save, Process
<1> QED BY PassInit, PassNext, <1>1, PTL DEF PassesSpec, WokenByMessage

OnePlace(n) ==
    /\ head[n].status # "over"
    /\ head'[n].gen = head[n].gen + (IF head[n].status = "uncertain" THEN 0 ELSE 1)
    /\ head'[n].status = "uncertain" <=> head[n].status # "uncertain"

(* A generation is dispatched once, uncertain work ends by its own outcome *)
(* and terminal work never changes, though hosts make passes and tick by   *)
(* hand over the same processes and inspect before they hold the lease     *)
(* (process.ts, 879-894).                                                  *)
THEOREM NoTakingBack == PassesSpec => NeverTakenBack
<1>1. ASSUME PassInv, [PassesNext]_passesVars, NEW n \in Name, head[n] # Absent, head'[n] # head[n]
      PROVE  OnePlace(n)
  <2> USE DEF PassInv
  <2>1. PICK g \in Nat : head[n].gen = g /\ head[n].status \in ProcessStatus
    BY <1>1, SchedulerBounds DEF PassesTypeOK, Record
  <2>2. ASSUME NEW s \in Host, Save(s) PROVE OnePlace(n)
    <3>1. n = cur[s] /\ seen[s] = head[n] /\ seen[s].status \in Resting
      BY <1>1, <2>2 DEF Save, HostInv, PassesTypeOK
    <3>2. head'[n] = [gen |-> g + 1, status |-> "uncertain"]
      BY <1>1, <2>1, <2>2, <3>1 DEF Save, PassesTypeOK
    <3> QED BY <2>1, <3>1, <3>2 DEF OnePlace, Resting
  <2>3. ASSUME NEW k \in Name, head[k] # Absent, head[k].status = "uncertain",
               Settle(k, head[k].gen)
        PROVE  OnePlace(n)
    <3>1. PICK st \in {"suspended", "waiting", "over"} :
              head' = [head EXCEPT ![k] = [gen |-> head[k].gen, status |-> st]]
      BY <2>3 DEF Settle
    <3>2. n = k
      BY <1>1, <3>1 DEF PassesTypeOK
    <3>3. head'[n] = [gen |-> g, status |-> st]
      BY <1>1, <2>1, <3>1, <3>2 DEF PassesTypeOK
    <3> QED BY <2>1, <2>3, <3>2, <3>3 DEF OnePlace
  <2>4. ASSUME NEW s \in Host, Finish(s) PROVE OnePlace(n)
    <3>1. /\ cur[s] \in Name /\ head[cur[s]] # Absent /\ seen[s] = head[cur[s]]
          /\ head[cur[s]].status = "uncertain" /\ Settle(cur[s], seen[s].gen)
      BY <1>1, <2>4 DEF Finish, HostInv
    <3>2. Settle(cur[s], head[cur[s]].gen)
      BY <3>1
    <3> QED BY <2>3, <3>1, <3>2
  <2>5. ASSUME NEW k \in Name, Recover(k) PROVE OnePlace(n)
    BY <2>3, <2>5 DEF Recover
  <2>6. ASSUME NEW k \in Name, Publish(k) PROVE FALSE
    BY <1>1, <2>6 DEF Publish, PassesTypeOK
  <2>7. \/ \E s \in Host : Save(s) \/ Finish(s)
        \/ \E k \in Name : Recover(k) \/ Publish(k)
    BY <1>1 DEF PassesNext, passesVars, Step, Visit, TakeLease, Check, CheckRecord, Probe,
                Begin, Fail, TickByHand, Mkdir, Mail, WriteScratch, RemoveScratch
  <2> QED BY <2>2, <2>4, <2>5, <2>6, <2>7
<1>2. PassInv /\ [PassesNext]_passesVars => \A n \in Name : head[n] # Absent /\ head'[n] # head[n] =>
          /\ head[n].status # "over"
          /\ head'[n].gen = head[n].gen + (IF head[n].status = "uncertain" THEN 0 ELSE 1)
          /\ head'[n].status = "uncertain" <=> head[n].status # "uncertain"
  BY <1>1 DEF OnePlace
<1> QED BY PassInit, PassNext, <1>2, PTL DEF PassesSpec, NeverTakenBack
=============================================================================
