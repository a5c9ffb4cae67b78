--------------------------- MODULE DurableProcess ---------------------------
(***************************************************************************)
(* What a durable process promises (src/spec/v1/process.md), without       *)
(* records, journals or recovery: the outside is called only under a       *)
(* published dispatch; only for an answer the process does not have yet;   *)
(* a dispatch ends by extending the answers it started from; and an ended  *)
(* process stays ended.                                                    *)
(*                                                                         *)
(* ProcessDispatch implements this module.                                 *)
(***************************************************************************)
EXTENDS Naturals, Sequences

CONSTANTS
    Answer,         \* what an effect may answer
    Suspension,     \* the answers that suspend the process
    MaxGenerations

VARIABLES
    phase,   \* "resting", "dispatched" or "over"
    gen,     \* dispatches so far
    log,     \* the answers the process has
    calls    \* calls to the outside in order

processVars == <<phase, gen, log, calls>>

Extends(s, t) == Len(s) <= Len(t) /\ s = SubSeq(t, 1, Len(s))

Init == phase = "resting" /\ gen = 0 /\ log = <<>> /\ calls = <<>>

Dispatch ==
    /\ phase = "resting" /\ gen < MaxGenerations
    /\ phase' = "dispatched" /\ gen' = gen + 1
    /\ UNCHANGED <<log, calls>>

(* Runs replay answers, never suspensions.                                 *)
Replayable(h) == h \in Seq(Answer \ Suspension) /\ Extends(log, h)

(* A call is for an answer the process does not have.                      *)
Call ==
    /\ phase = "dispatched"
    /\ Len(calls') = Len(calls) + 1 /\ Extends(calls, calls')
    /\ calls'[Len(calls')].gen = gen
    /\ Replayable(calls'[Len(calls')].at)
    /\ UNCHANGED <<phase, gen, log>>

Conclude ==
    /\ phase = "dispatched"
    /\ phase' \in {"resting", "over"}
    /\ Replayable(log')
    /\ UNCHANGED <<gen, calls>>

Next == Dispatch \/ Call \/ Conclude

Spec == Init /\ [][Next]_processVars
=============================================================================
