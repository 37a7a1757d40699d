---------------------------- MODULE MCRegistration ----------------------------
(* Registration with model values; programs and names are symmetric. *)
EXTENDS Registration, TLC

Symmetry == Permutations(Program) \cup Permutations(Name)
===============================================================================
