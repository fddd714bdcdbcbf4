---------------------------- MODULE SocialGraphMC ----------------------------
(* Small instances of SocialGraph for TLC. *)
EXTENDS SocialGraph, TLC

(* Handlers are interchangeable, and so are the two members. *)
Symmetry == Permutations(Handlers) \union Permutations({Ann, Ben})
=============================================================================
