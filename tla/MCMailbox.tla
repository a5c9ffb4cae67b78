----------------------------- MODULE MCMailbox -----------------------------
(* Small instances of Mailbox for TLC. *)
EXTENDS Mailbox, TLC

Symmetry == Permutations(Client) \union Permutations(Body) \union Permutations(Nonce)
=============================================================================
