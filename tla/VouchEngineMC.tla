----------------------------- MODULE VouchEngineMC -----------------------------
(* Small instances of VouchEngine for TLC. *)
EXTENDS VouchEngine, TLC

(* Handlers are interchangeable, and so are the users who may vouch. *)
Symmetry == Permutations(Handlers) \union Permutations(Users \ {Organizer})
=============================================================================
