----------------------------- MODULE Lifecycle -----------------------------
(* What the application lifecycle promises: one linear history of          *)
(* commands, each operation in it once, and for the work a command asks    *)
(* for one fate: it waits, is abandoned by a migration that says so, or is *)
(* dispatched, asked for outside at most once, and settled.                *)
EXTENDS Integers, Sequences

CONSTANTS Op, Command

VARIABLES log, work, asked

vars == <<log, work, asked>>

Activating == {"activate", "migrate"}

In(fate) == {i \in Op : work[i] = fate}

Init ==
    /\ log = <<>>
    /\ work = [i \in Op |-> "absent"]
    /\ asked = [i \in Op |-> 0]

(* Nothing is activated over work under way, and a migration says of every *)
(* piece of waiting work, and of nothing else, what becomes of it.         *)
Commit(cmd) ==
    /\ \A n \in 1..Len(log) : log[n].op # cmd.op
    /\ cmd.kind \in Activating => In("dispatched") = {}
    /\ cmd.kind = "migrate" => In("pending") = {i \in Op : cmd.drain[i] # "none"}
    /\ log' = Append(log, cmd)
    /\ work' = [i \in Op |->
          IF i = cmd.op /\ cmd.intent THEN "pending"
          ELSE IF cmd.drain[i] = "abandoned" THEN "abandoned" ELSE work[i]]
    /\ UNCHANGED asked

Start(i) ==
    /\ work[i] = "pending"
    /\ work' = [work EXCEPT ![i] = "dispatched"]
    /\ UNCHANGED <<log, asked>>

Ask(i) ==
    /\ work[i] = "dispatched" /\ asked[i] = 0
    /\ asked' = [asked EXCEPT ![i] = 1]
    /\ UNCHANGED <<log, work>>

Settle(i) ==
    /\ work[i] = "dispatched"
    /\ work' = [work EXCEPT ![i] = "settled"]
    /\ UNCHANGED <<log, asked>>

Next == (\E cmd \in Command : Commit(cmd)) \/ \E i \in Op : Start(i) \/ Ask(i) \/ Settle(i)

Spec == Init /\ [][Next]_vars
=============================================================================
