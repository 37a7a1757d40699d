--------------------------- MODULE MCMessageUServer ---------------------------
(* Small instances of MessageUServer for TLC. *)
EXTENDS MessageUServer, TLC

\* Identifiers, names and keys are only compared with each other.
Symmetry == Permutations(Thread) \cup Permutations(ClientId)
              \cup Permutations(Username) \cup Permutations(PublicKey)

===============================================================================
