----------------------------- MODULE MCRunSweep -----------------------------
(* Small manifests for RunSweep, every one in every order of its cells.    *)
EXTENDS RunSweep

Edge(from, to, port, on) == [from |-> from, to |-> to, port |-> port, on |-> on]
Required(p) == [name |-> p, optional |-> FALSE]
Optional(p) == [name |-> p, optional |-> TRUE]

Budgets(s, w, d) == [steps |-> s, work |-> w, depth |-> d]
Ample == Budgets(20, 60, 2)

(* ports and child are given where a cell has any.                         *)
Shape(cells, ports, edges, child, rounds) ==
    {[cells |-> order,
      ports |-> [c \in cells |-> IF c \in DOMAIN ports THEN ports[c] ELSE {}],
      edges |-> edges,
      child |-> [c \in cells |-> IF c \in DOMAIN child THEN child[c] ELSE None],
      rounds |-> [c \in cells |-> rounds],
      budgets |-> Ample] : order \in SetToSeqs(cells)}

Under(shapes, bs) == {[m EXCEPT !.budgets = b] : m \in shapes, b \in bs}

(* Two required inputs, one of which may stay empty.                      *)
Join == Shape({"a", "b", "d", "e"},
    [d |-> {Required("x"), Required("y")}, e |-> {Required("in")}],
    <<Edge("a", "d", "x", "guarded"), Edge("b", "d", "y", "value"), Edge("d", "e", "in", "value")>>,
    <<>>, {})

(* Two guarded branches that join, one with a way out of its failure.      *)
Diamond == Shape({"a", "b", "c", "d"},
    [b |-> {Required("in")}, c |-> {Required("in")}, d |-> {Required("x"), Optional("y")}],
    <<Edge("a", "b", "in", "guarded"), Edge("a", "c", "in", "guarded"),
      Edge("b", "d", "x", "value"), Edge("c", "d", "x", "list"), Edge("b", "d", "y", "fail")>>,
    <<>>, {})

(* Failures of three cells that one cell recovers from.                    *)
Recovery == {m \in Shape({"a", "b", "c", "d"}, [d |-> {Required("f")}],
    <<Edge("a", "d", "f", "fail"), Edge("b", "d", "f", "fail"), Edge("c", "d", "f", "fail")>>,
    <<>>, {}) : SelectSeq(m.cells, LAMBDA c : c # "d") = <<"a", "b", "c">>}

(* A child that runs several times, whose failure is recovered from.       *)
Pair == Shape({"p", "q"}, [q |-> {Required("in")}], <<Edge("p", "q", "in", "value")>>, <<>>, {})
Nest == UNION {Shape({"a", "e", "r", "t"},
    [e |-> {Required("in")}, r |-> {Required("f")}, t |-> {Required("in")}],
    <<Edge("a", "e", "in", "guarded"), Edge("e", "r", "f", "fail"), Edge("e", "t", "in", "value")>>,
    [e |-> child], 0..2) : child \in Pair}

(* A child of a child, recovered from at one level or at none.             *)
Single == Shape({"p"}, <<>>, <<>>, <<>>, {})
Middle(edges) == UNION {Shape({"f", "g"}, [g |-> {Required("in")}], edges, [f |-> leaf], {1}) : leaf \in Single}
Deep(inner, outer) == UNION {Shape({"e", "h"}, [h |-> {Required("in")}], outer, [e |-> middle], {1})
                                : middle \in Middle(inner)}
DeepShapes ==
    UNION {Deep(<<Edge("f", "g", "in", i)>>, <<Edge("e", "h", "in", o)>>)
             : i \in {"fail", "value"}, o \in {"fail", "value"}}

Middles == UNION {Middle(<<Edge("f", "g", "in", i)>>) : i \in {"fail", "value"}}

Manifests ==
    Pair \union Single \union Middles
    \union Join \union Under(Diamond, {Ample, Budgets(3, 60, 2), Budgets(20, 4, 2)})
    \union Under(Recovery, {Ample, Budgets(20, 1, 0)})
    \union Under(Nest, {Ample, Budgets(4, 60, 2), Budgets(20, 6, 2)})
    \union Under(DeepShapes, {Ample, Budgets(20, 60, 1), Budgets(20, 1, 2), Budgets(2, 60, 2)})
=============================================================================
