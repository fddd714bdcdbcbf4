----------------------------- MODULE ProfilesMC ------------------------------
(* Small instances of Profiles for TLC. *)
EXTENDS Profiles, TLC

(* Handlers are interchangeable, and so are draws. *)
Symmetry == Permutations(Handlers) \union Permutations(Draws)
=============================================================================
