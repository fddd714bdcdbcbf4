--------------------------- MODULE OtpChallengeMC ----------------------------
(* Small instances of OtpChallenge for TLC. *)
EXTENDS OtpChallenge, TLC

(* Handlers are interchangeable. *)
Symmetry == Permutations(Handlers)
=============================================================================
