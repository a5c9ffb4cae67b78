---------------------------- MODULE MCHostEvents ----------------------------
(* Small instances of HostEvents for TLC. *)
EXTENDS HostEvents

(* A content is told by when it is due. *)
MCDueAt == [b \in Body |-> b]

=============================================================================
