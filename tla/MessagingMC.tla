---------------------------- MODULE MessagingMC ------------------------------
(* Small instances of Messaging for TLC. *)
EXTENDS Messaging, TLC

(* Messages, sockets and handlers are interchangeable. *)
Symmetry == Permutations(Messages) \union Permutations(Sockets) \union Permutations(Handlers)
=============================================================================
