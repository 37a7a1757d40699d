----------------------------- MODULE MCKeyExchange -----------------------------
(* Small instances of KeyExchange for TLC. *)
EXTENDS KeyExchange, TLC

Symmetry == Permutations(User)

===============================================================================
