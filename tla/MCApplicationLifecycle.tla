----------------------- MODULE MCApplicationLifecycle -----------------------
(* Small instances of ApplicationLifecycle for TLC: a genesis with work, a *)
(* migration that abandons it, and a third operation that callers          *)
(* understand in two ways: more work, or an activation.                    *)
(* A caller names the state after the genesis as the head it expects       *)
(* whether or not it is there yet.  The run checks liveness, so nothing is *)
(* symmetric.                                                              *)
EXTENDS ApplicationLifecycle

Cmd(o, k, i, d) == [op |-> o, kind |-> k, intent |-> i, drain |-> [x \in Op |-> IF x = 1 THEN d ELSE "none"]]
MCGenesis == Cmd(1, "create", TRUE, "none")
MCCommand ==
    {MCGenesis, Cmd(2, "migrate", FALSE, "abandoned"),
     Cmd(3, "memory", TRUE, "none"), Cmd(3, "activate", FALSE, "none")}
MCExpected == {<<>>, <<MCGenesis>>}
=============================================================================
