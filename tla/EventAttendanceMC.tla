-------------------------- MODULE EventAttendanceMC --------------------------
(* Small instances of EventAttendance for TLC. *)
EXTENDS EventAttendance, TLC

(* Handlers are interchangeable, and so are the users who did not create    *)
(* the gathering.                                                           *)
Symmetry == Permutations(Handlers) \union Permutations(Users \ {Organizer})
=============================================================================
