----------------------------- MODULE SeatLedger -----------------------------
(***************************************************************************)
(* What the seat counter of one gathering promises, whatever the number of *)
(* requests that work on it at once: a seat is taken only while one is     *)
(* free, seats go one at a time, and the limit is never lowered below the  *)
(* seats already taken.  EventAttendance implements it.                    *)
(*                                                                         *)
(* The ledger does not promise that a seat is given back only once: the    *)
(* code lets the counter run below the roster, and below zero.             *)
(***************************************************************************)
EXTENDS Integers

CONSTANTS NoLimit,   \* maxAttendees = NULL
          Limits     \* the limits an organizer may set

VARIABLES taken, capacity

seats == <<taken, capacity>>

Fits(n, limit) == limit = NoLimit \/ n <= limit

Init == taken = 0 /\ capacity \in Limits

Take == /\ Fits(taken + 1, capacity)
        /\ taken' = taken + 1
        /\ UNCHANGED capacity

GiveBack == taken' = taken - 1 /\ UNCHANGED capacity

Resize(limit) == /\ Fits(taken, limit)
                 /\ capacity' = limit
                 /\ UNCHANGED taken

Next == Take \/ GiveBack \/ \E limit \in Limits \union {NoLimit} : Resize(limit)

Spec == Init /\ [][Next]_seats
=============================================================================
