------------------------- MODULE MCProcessDispatch -------------------------
(* Small instances of ProcessDispatch for TLC. *)
EXTENDS ProcessDispatch

CONSTANTS c1, c2, c3

(* A read, then a write that is tried again after an error.                *)
ReadThenWrite(h) ==
    CASE h = <<>> -> "read"
      [] Len(h) = 1 -> "write"
      [] Len(h) = 2 /\ h[2] = "error" -> "write"
      [] OTHER -> IF h[1] = "error" THEN "failed" ELSE "complete"

(* A write and a read after it.                                            *)
WriteThenRead(h) ==
    CASE h = <<>> -> "write"
      [] Len(h) = 1 -> "read"
      [] OTHER -> "complete"

(* Two configurations journal, with one recovery; the third does not.      *)
Journaling(c) == IF c = c3 THEN {Plain} ELSE {1}

(* Hosts of one store that agree on journaling, and hosts that do not.     *)
Agreeing(c) == {d \in Config : Journaling(d) = Journaling(c)}
Mixed(c) == Config
=============================================================================
