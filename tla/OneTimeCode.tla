---------------------------- MODULE OneTimeCode ------------------------------
(***************************************************************************)
(* What a one-time code promises: it is accepted only while it is open,    *)
(* and once it is closed it never opens again.                             *)
(***************************************************************************)
CONSTANT Codes

VARIABLES state,     \* state[c]: "unused", "open" or "closed"
          accepted   \* the codes that have been accepted

vars == <<state, accepted>>

Open == {c \in Codes : state[c] = "open"}

Init ==
  /\ state = [c \in Codes |-> "unused"]
  /\ accepted = {}

Closing(dropped) == [c \in Codes |-> IF c \in dropped THEN "closed" ELSE state[c]]

(* A new code may take the place of others. *)
Issue(c) ==
  /\ state[c] = "unused"
  /\ \E dropped \in SUBSET Open : state' = [Closing(dropped) EXCEPT ![c] = "open"]
  /\ UNCHANGED accepted

(* An acceptance need not close the code: requests that overlap may share it. *)
Accept(c) ==
  /\ c \in Open
  /\ accepted' = accepted \union {c}
  /\ \E dropped \in SUBSET Open : state' = Closing(dropped)

Close ==
  /\ \E dropped \in SUBSET Open : state' = Closing(dropped)
  /\ UNCHANGED accepted

Next ==
  \/ \E c \in Codes : Issue(c) \/ Accept(c)
  \/ Close

Spec == Init /\ [][Next]_vars
=============================================================================
