----------------------------- MODULE SessionsMC ------------------------------
(* Small instances of Sessions for TLC. *)
EXTENDS Sessions, TLC

(* Tokens are interchangeable, and so are handlers. *)
Symmetry == Permutations(Tokens) \union Permutations(Handlers)
=============================================================================
