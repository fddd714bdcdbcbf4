------------------------ MODULE EventAttendanceProofs ------------------------
(***************************************************************************)
(* What EventAttendance guarantees for any number of users, handlers and   *)
(* requests, and for any limits.                                           *)
(*                                                                         *)
(* The argument: while a join is past its checks it holds the event row,   *)
(* so no other step writes the row, and what it checked still holds when   *)
(* it commits (JoinChecksStillHold).  SeatLimit alone is not inductive: a  *)
(* commit adds one to the counter without looking at it.                   *)
(***************************************************************************)
EXTENDS EventAttendance, FiniteSetTheorems, TLAPS

USE UsersAssumption, LimitsAssumption, EditsAssumption, BoundAssumption

LEMMA IdleIsRequest == Idle \in Request
BY DEF Idle, Request, Genders, Counted

(* The steps a handler takes while it serves a request, and what they do to *)
(* the handlers: Finish, Goto or Accept, for one handler only.              *)
LEMMA TypeStep == TypeOK /\ [Next]_vars => TypeOK'
<1> SUFFICES ASSUME TypeOK, [Next]_vars PROVE TypeOK'
  OBVIOUS
<1> USE DEF TypeOK, settings, counters, rows
<1>1. ASSUME NEW h \in Handlers, NEW u \in Users, JoinRead(h, u) PROVE TypeOK'
  BY <1>1 DEF JoinRead, Accept, Request
<1>2. ASSUME NEW h \in Handlers, NEW u \in Users, LeaveRead(h, u) PROVE TypeOK'
  BY <1>2 DEF LeaveRead, Accept, Request, Genders, Counted
<1>3. ASSUME NEW h \in Handlers, NEW u \in Users, CheckInRead(h, u) PROVE TypeOK'
  BY <1>3 DEF CheckInRead, Accept, Request, Genders, Counted
<1>4. ASSUME NEW h \in Handlers, JoinLock(h) PROVE TypeOK'
  BY <1>4 DEF JoinLock, Goto, Request
<1>5. ASSUME NEW h \in Handlers, JoinReject(h) PROVE TypeOK'
  BY <1>5, IdleIsRequest DEF JoinReject, Finish
<1>6. ASSUME NEW h \in Handlers, JoinCommit(h) PROVE TypeOK'
  <2>1. req[h].user \in Users
    BY DEF Request
  <2>2. req' \in [Handlers -> Request] /\ requests' \in 0..MaxRequests
    BY <1>6, IdleIsRequest DEF JoinCommit, Finish
  <2>3. genderCount' \in [Counted -> Int]
    BY <1>6 DEF JoinCommit
  <2> QED
    BY <1>6, <2>1, <2>2, <2>3 DEF JoinCommit, RowStatuses
<1>7. ASSUME NEW h \in Handlers, PassCollision(h) PROVE TypeOK'
  BY <1>7, IdleIsRequest DEF PassCollision, Finish
<1>8. ASSUME NEW h \in Handlers, LeaveProfile(h) PROVE TypeOK'
  BY <1>8 DEF LeaveProfile, Request
<1>9. ASSUME NEW h \in Handlers, LeaveLock(h) PROVE TypeOK'
  BY <1>9 DEF LeaveLock, Goto, Request
<1>10. ASSUME NEW h \in Handlers, LeaveCommit(h) PROVE TypeOK'
  <2>1. req[h].user \in Users
    BY DEF Request
  <2>2. req' \in [Handlers -> Request] /\ requests' \in 0..MaxRequests
    BY <1>10, IdleIsRequest DEF LeaveCommit, Finish
  <2>3. genderCount' \in [Counted -> Int]
    BY <1>10 DEF LeaveCommit
  <2> QED
    BY <1>10, <2>1, <2>2, <2>3 DEF LeaveCommit, RowStatuses
<1>11. ASSUME NEW h \in Handlers, DeadlockAbort(h) PROVE TypeOK'
  BY <1>11, IdleIsRequest DEF DeadlockAbort, Finish
<1>12. ASSUME NEW h \in Handlers, CheckInWrite(h) PROVE TypeOK'
  <2>1. req[h].user \in Users
    BY DEF Request
  <2> QED
    BY <1>12, <2>1, IdleIsRequest DEF CheckInWrite, Finish, RowStatuses
<1>13. ASSUME NEW limit \in EditLimits, NEW enforced \in BOOLEAN,
              UpdateEvent(limit, enforced)
       PROVE TypeOK'
  BY <1>13 DEF UpdateEvent
<1>14. ASSUME NEW s \in EventStatuses, SetStatus(s) PROVE TypeOK'
  BY <1>14 DEF SetStatus
<1>15. CASE CancelEvent
  BY <1>15, <1>14 DEF CancelEvent, EventStatuses
<1>16. CASE ModerateEvent
  BY <1>16, <1>14 DEF ModerateEvent
<1>17. ASSUME NEW u \in Users, NEW g \in NewGenders, ChangeGender(u, g) PROVE TypeOK'
  BY <1>17 DEF ChangeGender
<1>18. CASE UNCHANGED vars
  BY <1>18 DEF vars
<1> QED
  BY <1>1, <1>2, <1>3, <1>4, <1>5, <1>6, <1>7, <1>8, <1>9, <1>10, <1>11, <1>12, <1>13,
     <1>15, <1>16, <1>17, <1>18 DEF Next, Serve

(* Every variable keeps its type: no interleaving of the handlers produces  *)
(* a row or a request the code does not know.                               *)
THEOREM TypeCorrect == Spec => []TypeOK
<1>1. Init => TypeOK
  BY IdleIsRequest DEF Init, TypeOK, EventStatuses, RowStatuses, Counted
<1> QED
  BY <1>1, TypeStep, PTL DEF Spec

-----------------------------------------------------------------------------
(* A leave or a check-in in progress is about somebody who has a row. *)
RequestHasRow ==
  \A h \in Handlers :
    req[h].pc \in {"leave", "leaveTx", "leaving", "checkIn"} => attendee[req[h].user] # "NONE"

(* The strengthening SeatLimit needs. *)
IInv == TypeOK /\ JoinChecksStillHold /\ SeatLimit

(* A step other than a commit of a join or a leave, an edit or a status     *)
(* change leaves the event row as it is.                                    *)
EventRowUnchanged == UNCHANGED <<settings, counters>>

(* A request that is not past the checks of a join takes one step that does *)
(* not pass them, and leaves the row alone.                                 *)
QuietStep(h) ==
  /\ EventRowUnchanged
  /\ \A j \in Handlers : req'[j].pc = "joining" => req[j] = req'[j]
  /\ \A u \in Users : attendee'[u] = "CONFIRMED" => attendee[u] = "CONFIRMED"

LEMMA QuietKeepsIInv ==
  ASSUME NEW h \in Handlers, IInv, TypeOK', QuietStep(h)
  PROVE  IInv'
BY DEF IInv, QuietStep, EventRowUnchanged, JoinChecksStillHold, Admissible, SeatLimit, SeatFree,
       GenderSeatFree, Balanced, settings, counters, TypeOK, Request

(* Writers of the event row other than the lock's holder find no join past  *)
(* its checks, and leave none.                                              *)
LEMMA UnlockedHasNoJoin ==
  ASSUME ~EventLocked, NEW j \in Handlers PROVE req[j].pc # "joining"
BY DEF EventLocked

LEMMA InductiveStep == IInv /\ [Next]_vars => IInv'
<1> SUFFICES ASSUME IInv, [Next]_vars PROVE IInv'
  OBVIOUS
<1> TypeOK'
  BY TypeStep DEF IInv
<1> USE DEF settings, counters, rows
<1>1. ASSUME NEW h \in Handlers, NEW u \in Users,
             JoinRead(h, u) \/ LeaveRead(h, u) \/ CheckInRead(h, u)
      PROVE  IInv'
  <2>1. QuietStep(h)
    BY <1>1 DEF IInv, TypeOK, JoinRead, LeaveRead, CheckInRead, Accept, QuietStep, EventRowUnchanged
  <2> QED
    BY <2>1, QuietKeepsIInv
<1>2. ASSUME NEW h \in Handlers, JoinLock(h) PROVE IInv'
  <2>1. \A j \in Handlers : req[j].pc # "joining"
    BY <1>2, UnlockedHasNoJoin DEF JoinLock
  <2>2. /\ UNCHANGED <<settings, counters, attendee>>
        /\ \A j \in Handlers : req'[j].pc = "joining" => j = h
        /\ req'[h].user = req[h].user /\ req'[h].gender = req[h].gender
    BY <1>2, <2>1 DEF JoinLock, Goto, IInv, TypeOK, Request
  <2>3. Admissible(req[h].user, req[h].gender)'
    BY <1>2, <2>2 DEF JoinLock, Admissible, SeatFree, GenderSeatFree, Balanced
  <2>4. JoinChecksStillHold'
    BY <2>2, <2>3 DEF JoinChecksStillHold
  <2> QED
    BY <2>2, <2>4 DEF IInv, SeatLimit
<1>3. ASSUME NEW h \in Handlers,
             JoinReject(h) \/ PassCollision(h) \/ LeaveProfile(h) \/ LeaveLock(h)
               \/ DeadlockAbort(h) \/ CheckInWrite(h)
      PROVE  IInv'
  <2>1. QuietStep(h)
    BY <1>3 DEF IInv, TypeOK, Request, Idle, JoinReject, PassCollision, LeaveProfile, LeaveLock,
                DeadlockAbort, CheckInWrite, Finish, Goto, QuietStep, EventRowUnchanged
  <2> QED
    BY <2>1, QuietKeepsIInv
<1>4. ASSUME NEW h \in Handlers, JoinCommit(h) PROVE IInv'
  <2>1. \A j \in Handlers : req'[j].pc # "joining"
    BY <1>4 DEF JoinCommit, Finish, Idle, IInv, TypeOK, JoinChecksStillHold
  <2>2. SeatFree
    BY <1>4 DEF JoinCommit, IInv, JoinChecksStillHold, Admissible
  <2>3. attendeeCount' = attendeeCount + 1 /\ maxAttendees' = maxAttendees
    BY <1>4 DEF JoinCommit
  <2>4. attendeeCount \in Int /\ (maxAttendees # NoLimit => maxAttendees \in Int)
    BY DEF IInv, TypeOK
  <2>5. SeatLimit'
    BY <2>2, <2>3, <2>4 DEF SeatFree, SeatLimit
  <2> QED
    BY <2>1, <2>5 DEF IInv, JoinChecksStillHold
<1>5. ASSUME NEW h \in Handlers, LeaveCommit(h) PROVE IInv'
  <2>1. \A j \in Handlers : req'[j].pc # "joining"
    BY <1>5, UnlockedHasNoJoin DEF LeaveCommit, Finish, Idle, IInv, TypeOK
  <2>2. SeatLimit'
    BY <1>5 DEF LeaveCommit, SeatLimit, IInv, TypeOK
  <2> QED
    BY <2>1, <2>2 DEF IInv, JoinChecksStillHold
<1>6. ASSUME NEW limit \in EditLimits, NEW enforced \in BOOLEAN, UpdateEvent(limit, enforced)
      PROVE  IInv'
  <2>1. \A j \in Handlers : req'[j].pc # "joining"
    BY <1>6, UnlockedHasNoJoin DEF UpdateEvent
  <2>2. SeatLimit'
    BY <1>6 DEF UpdateEvent, SeatLimit
  <2> QED
    BY <2>1, <2>2 DEF IInv, JoinChecksStillHold
<1>7. ASSUME NEW s \in EventStatuses, SetStatus(s) PROVE IInv'
  <2>1. \A j \in Handlers : req'[j].pc # "joining"
    BY <1>7, UnlockedHasNoJoin DEF SetStatus
  <2> QED
    BY <1>7, <2>1 DEF SetStatus, SeatLimit, IInv, JoinChecksStillHold
<1>8. CASE CancelEvent \/ ModerateEvent
  BY <1>7, <1>8 DEF CancelEvent, ModerateEvent, EventStatuses
<1>9. ASSUME NEW u \in Users, NEW g \in NewGenders, ChangeGender(u, g) PROVE IInv'
  BY <1>9 DEF ChangeGender, IInv, JoinChecksStillHold, SeatLimit, Admissible, SeatFree,
     GenderSeatFree, Balanced
<1>10. CASE UNCHANGED vars
  BY <1>10 DEF vars, IInv, JoinChecksStillHold, SeatLimit, Admissible, SeatFree,
     GenderSeatFree, Balanced
<1> QED
  BY <1>1, <1>2, <1>3, <1>4, <1>5, <1>6, <1>8, <1>9, <1>10 DEF Next, Serve

LEMMA Inductive == Spec => []IInv
<1>1. Init => IInv
  <2> SUFFICES ASSUME Init PROVE IInv
    OBVIOUS
  <2>1. TypeOK
    BY IdleIsRequest DEF Init, TypeOK, EventStatuses, RowStatuses, Counted
  <2> QED
    BY <2>1 DEF Init, IInv, JoinChecksStillHold, SeatLimit, Idle
<1> QED
  BY <1>1, InductiveStep, PTL DEF Spec

(* The seat counter never passes the limit. *)
THEOREM SeatLimitHolds == Spec => []SeatLimit
BY Inductive, PTL DEF IInv

(* One join at a time is past its checks, and what it checked still holds.  *)
THEOREM JoinsSerialized == Spec => []JoinChecksStillHold
BY Inductive, PTL DEF IInv

-----------------------------------------------------------------------------
(* Everything but a commit, a check-in and an edit leaves seats, roster and *)
(* chat alone.                                                              *)
Frame == UNCHANGED <<maxAttendees, genderBalanceEnforced, counters, rows>>

LEMMA StepCases ==
  ASSUME [Next]_vars
  PROVE  \/ \E h \in Handlers : JoinCommit(h) \/ LeaveCommit(h) \/ CheckInWrite(h)
         \/ \E limit \in EditLimits, enforced \in BOOLEAN : UpdateEvent(limit, enforced)
         \/ Frame
<1> USE DEF settings, counters, rows, Frame
<1>1. ASSUME NEW h \in Handlers, NEW u \in Users,
             JoinRead(h, u) \/ LeaveRead(h, u) \/ CheckInRead(h, u)
      PROVE  Frame
  BY <1>1 DEF JoinRead, LeaveRead, CheckInRead
<1>2. ASSUME NEW h \in Handlers,
             JoinLock(h) \/ JoinReject(h) \/ PassCollision(h) \/ LeaveProfile(h)
               \/ LeaveLock(h) \/ DeadlockAbort(h)
      PROVE  Frame
  BY <1>2 DEF JoinLock, JoinReject, PassCollision, LeaveProfile, LeaveLock, DeadlockAbort
<1>3. CASE CancelEvent \/ ModerateEvent
  BY <1>3 DEF CancelEvent, ModerateEvent, SetStatus
<1>4. ASSUME NEW u \in Users, NEW g \in NewGenders, ChangeGender(u, g) PROVE Frame
  BY <1>4 DEF ChangeGender
<1>5. CASE UNCHANGED vars
  BY <1>5 DEF vars
<1> QED
  BY <1>1, <1>2, <1>3, <1>4, <1>5 DEF Next, Serve

(* What a commit of a join, of a leave and a check-in write into the row of *)
(* the person they are about.                                               *)
LEMMA CommitEffects ==
  ASSUME TypeOK, NEW h \in Handlers
  PROVE  /\ req[h].user \in Users
         /\ JoinCommit(h) => attendee' = [attendee EXCEPT ![req[h].user] = "CONFIRMED"]
         /\ LeaveCommit(h) => attendee' = [attendee EXCEPT ![req[h].user] = "CANCELLED"]
         /\ CheckInWrite(h) => attendee' = [attendee EXCEPT ![req[h].user] = "CHECKED_IN"]
<1>1. req[h].user \in Users
  BY DEF TypeOK, Request
<1> QED
  BY <1>1 DEF JoinCommit, LeaveCommit, CheckInWrite

-----------------------------------------------------------------------------
(* Chat and roster: each transaction that moves one moves the other. *)
LEMMA ChatStep == TypeOK /\ ChatMatchesRoster /\ [Next]_vars => ChatMatchesRoster'
<1> SUFFICES ASSUME TypeOK, ChatMatchesRoster, [Next]_vars PROVE ChatMatchesRoster'
  OBVIOUS
<1> USE DEF TypeOK, ChatMatchesRoster
<1>1. ASSUME NEW h \in Handlers, JoinCommit(h) PROVE ChatMatchesRoster'
  <2>1. chat' = [chat EXCEPT ![req[h].user] = "active"]
    BY <1>1 DEF JoinCommit
  <2> QED
    BY <1>1, <2>1, CommitEffects
<1>2. ASSUME NEW h \in Handlers, LeaveCommit(h) PROVE ChatMatchesRoster'
  <2>1. chat' = [chat EXCEPT ![req[h].user] = "left"]
    BY <1>2 DEF LeaveCommit
  <2> QED
    BY <1>2, <2>1, CommitEffects
<1>3. ASSUME NEW h \in Handlers, CheckInWrite(h) PROVE ChatMatchesRoster'
  <2>1. chat' = chat
    BY <1>3 DEF CheckInWrite
  <2> QED
    BY <1>3, <2>1, CommitEffects
<1>4. ASSUME NEW limit \in EditLimits, NEW enforced \in BOOLEAN, UpdateEvent(limit, enforced)
      PROVE  UNCHANGED rows
  BY <1>4 DEF UpdateEvent
<1>5. CASE UNCHANGED rows
  BY <1>5 DEF rows
<1> QED
  BY <1>1, <1>2, <1>3, <1>4, <1>5, StepCases DEF Frame

(* Who is confirmed is in the group conversation, and who is in it is       *)
(* confirmed or checked in.                                                 *)
THEOREM ChatFollowsRoster == Spec => []ChatMatchesRoster
<1>1. Init => ChatMatchesRoster
  BY DEF Init, ChatMatchesRoster
<1> QED
  BY <1>1, ChatStep, TypeCorrect, PTL DEF Spec

-----------------------------------------------------------------------------
(* Only a commit of a join confirms anybody, and it finds the gathering not *)
(* cancelled: JoinChecksStillHold.                                          *)
THEOREM NoSeatAfterCancelHolds == Spec => NoSeatAfterCancel
<1> DEFINE NoNewSeat ==
      status = "CANCELLED" =>
        \A u \in Users : attendee'[u] = "CONFIRMED" => attendee[u] = "CONFIRMED"
<1>1. ASSUME IInv, [Next]_vars PROVE NoNewSeat
  <2> SUFFICES ASSUME IInv, [Next]_vars, status = "CANCELLED", NEW u \in Users,
                      attendee'[u] = "CONFIRMED", attendee[u] # "CONFIRMED"
               PROVE  FALSE
    BY <1>1
  <2> TypeOK
    BY DEF IInv
  <2>1. ASSUME NEW h \in Handlers, JoinCommit(h) PROVE FALSE
    <3>1. req[h].pc = "joining"
      BY <2>1 DEF JoinCommit
    <3> QED
      BY <3>1 DEF IInv, JoinChecksStillHold, Admissible
  <2>2. ASSUME NEW h \in Handlers, LeaveCommit(h) \/ CheckInWrite(h) PROVE FALSE
    BY <2>2, CommitEffects DEF TypeOK
  <2>3. ASSUME NEW limit \in EditLimits, NEW enforced \in BOOLEAN, UpdateEvent(limit, enforced)
        PROVE  FALSE
    BY <2>3 DEF UpdateEvent, rows
  <2> QED
    BY <2>1, <2>2, <2>3, StepCases DEF Frame, rows
<1>2. IInv /\ [Next]_vars => [NoNewSeat]_vars
  BY <1>1
<1>3. Spec => [][NoNewSeat]_vars
  BY <1>2, Inductive, PTL DEF Spec
<1> QED
  BY <1>3 DEF NoSeatAfterCancel

-----------------------------------------------------------------------------
(* A counted gender gains a seat only in a commit of a join, which found    *)
(* the gender below half of the limit and still does.                       *)
THEOREM GenderCapHolds == Spec => GenderCapHonoured
<1> DEFINE Capped ==
      \A g \in Counted :
        genderCount'[g] > genderCount[g] =>
          /\ genderBalanceEnforced /\ maxAttendees # NoLimit
          /\ genderCount'[g] <= Half(maxAttendees)
<1>1. ASSUME IInv, [Next]_vars PROVE Capped
  <2> SUFFICES ASSUME IInv, [Next]_vars, NEW g \in Counted, genderCount'[g] > genderCount[g]
               PROVE  /\ genderBalanceEnforced /\ maxAttendees # NoLimit
                      /\ genderCount'[g] <= Half(maxAttendees)
    BY <1>1
  <2>1. genderCount \in [Counted -> Int] /\ genderCount[g] \in Int
    BY DEF IInv, TypeOK
  <2>2. ASSUME NEW h \in Handlers, JoinCommit(h)
        PROVE  /\ Balanced /\ genderCount'[g] = genderCount[g] + 1
               /\ req[h].gender = g /\ req[h].pc = "joining"
    BY <2>1, <2>2 DEF JoinCommit
  <2>3. ASSUME NEW h \in Handlers, JoinCommit(h)
        PROVE  Balanced /\ genderCount'[g] <= Half(maxAttendees)
    <3>1. genderCount[g] < Half(maxAttendees)
      BY <2>2, <2>3 DEF IInv, JoinChecksStillHold, Admissible, GenderSeatFree
    <3>2. maxAttendees \in Int
      BY <2>2, <2>3 DEF IInv, TypeOK, Balanced
    <3>3. Half(maxAttendees) \in Int
      BY <3>2 DEF Half
    <3> QED
      BY <2>1, <2>2, <2>3, <3>1, <3>3
  <2>4. ASSUME NEW h \in Handlers, LeaveCommit(h) PROVE FALSE
    BY <2>1, <2>4 DEF LeaveCommit
  <2>5. ASSUME NEW h \in Handlers, CheckInWrite(h) PROVE FALSE
    BY <2>1, <2>5 DEF CheckInWrite, counters
  <2>6. ASSUME NEW limit \in EditLimits, NEW enforced \in BOOLEAN, UpdateEvent(limit, enforced)
        PROVE  FALSE
    BY <2>1, <2>6 DEF UpdateEvent, counters
  <2>7. CASE Frame
    BY <2>1, <2>7 DEF Frame, counters
  <2> QED
    BY <2>3, <2>4, <2>5, <2>6, <2>7, StepCases DEF Balanced
<1>2. IInv /\ [Next]_vars => [Capped]_vars
  BY <1>1
<1>3. Spec => [][Capped]_vars
  BY <1>2, Inductive, PTL DEF Spec
<1> QED
  BY <1>3 DEF GenderCapHonoured

-----------------------------------------------------------------------------
(* The gathering's counter implements the seat ledger: every commit takes   *)
(* or gives back one seat, every accepted edit resizes, the rest stutters.  *)
THEOREM ImplementsLedger == Spec => LedgerSpec
<1>1. Init => Ledger!Init
  BY DEF Init, Ledger!Init
<1>2. ASSUME IInv, [Next]_vars PROVE [Ledger!Next]_(Ledger!seats)
  <2> SUFFICES ASSUME IInv, [Next]_vars PROVE [Ledger!Next]_(Ledger!seats)
    BY <1>2
  <2>1. ASSUME NEW h \in Handlers, JoinCommit(h) PROVE Ledger!Take
    <3>1. SeatFree
      BY <2>1 DEF JoinCommit, IInv, JoinChecksStillHold, Admissible
    <3>2. attendeeCount' = attendeeCount + 1 /\ maxAttendees' = maxAttendees
      BY <2>1 DEF JoinCommit, settings
    <3>3. attendeeCount \in Int /\ (maxAttendees # NoLimit => maxAttendees \in Int)
      BY DEF IInv, TypeOK
    <3> QED
      BY <3>1, <3>2, <3>3 DEF SeatFree, Ledger!Take, Ledger!Fits
  <2>2. ASSUME NEW h \in Handlers, LeaveCommit(h) PROVE Ledger!GiveBack
    BY <2>2 DEF LeaveCommit, settings, Ledger!GiveBack
  <2>3. ASSUME NEW h \in Handlers, CheckInWrite(h) PROVE UNCHANGED Ledger!seats
    BY <2>3 DEF CheckInWrite, settings, counters, Ledger!seats
  <2>4. ASSUME NEW limit \in EditLimits, NEW enforced \in BOOLEAN, UpdateEvent(limit, enforced)
        PROVE  Ledger!Next
    BY <2>4 DEF UpdateEvent, counters, Ledger!Next, Ledger!Resize, Ledger!Fits
  <2>5. CASE Frame
    BY <2>5 DEF Frame, counters, Ledger!seats
  <2> QED
    BY <2>1, <2>2, <2>3, <2>4, <2>5, StepCases DEF Ledger!Next
<1>3. IInv /\ [Next]_vars => [Ledger!Next]_(Ledger!seats)
  BY <1>2
<1> QED
  BY <1>1, <1>3, Inductive, PTL DEF Spec, LedgerSpec, Ledger!Spec

-----------------------------------------------------------------------------
(* The counter and the roster.  A transaction about somebody adds, removes  *)
(* or keeps that one person; the cases it does not foresee are DriftStep.   *)
LEMMA RowStep == TypeOK /\ RequestHasRow /\ [Next]_vars => RequestHasRow'
<1> SUFFICES ASSUME TypeOK, RequestHasRow, [Next]_vars PROVE RequestHasRow'
  OBVIOUS
<1>1. \A u \in Users : attendee[u] # "NONE" => attendee'[u] # "NONE"
  <2>1. ASSUME NEW limit \in EditLimits, NEW enforced \in BOOLEAN, UpdateEvent(limit, enforced)
        PROVE  attendee' = attendee
    BY <2>1 DEF UpdateEvent, rows
  <2> QED
    BY <2>1, StepCases, CommitEffects DEF Frame, rows, TypeOK
<1> DEFINE AboutARow ==
      \A j \in Handlers :
        req'[j].pc \in {"leave", "leaveTx", "leaving", "checkIn"} =>
          /\ req'[j].user \in Users
          /\ \/ attendee[req'[j].user] # "NONE"
             \/ /\ req[j].pc \in {"leave", "leaveTx", "leaving", "checkIn"}
                /\ req[j].user = req'[j].user
<1>2. AboutARow
  <2> USE DEF TypeOK, Request, Idle
  <2>1. ASSUME NEW h \in Handlers, NEW u \in Users, JoinRead(h, u) PROVE AboutARow
    BY <2>1 DEF JoinRead, Accept
  <2>2. ASSUME NEW h \in Handlers, NEW u \in Users, LeaveRead(h, u) PROVE AboutARow
    BY <2>2 DEF LeaveRead, Accept
  <2>3. ASSUME NEW h \in Handlers, NEW u \in Users, CheckInRead(h, u) PROVE AboutARow
    BY <2>3 DEF CheckInRead, Accept
  <2>4. ASSUME NEW h \in Handlers,
               JoinLock(h) \/ LeaveLock(h) \/ LeaveProfile(h)
        PROVE  AboutARow
    BY <2>4 DEF JoinLock, LeaveLock, LeaveProfile, Goto
  <2>5. ASSUME NEW h \in Handlers, Finish(h) PROVE AboutARow
    BY <2>5 DEF Finish
  <2>6. ASSUME NEW h \in Handlers,
               JoinReject(h) \/ JoinCommit(h) \/ PassCollision(h) \/ LeaveCommit(h)
                 \/ DeadlockAbort(h) \/ CheckInWrite(h)
        PROVE  AboutARow
    BY <2>5, <2>6 DEF JoinReject, JoinCommit, PassCollision, LeaveCommit, DeadlockAbort, CheckInWrite
  <2>7. CASE UNCHANGED req
    BY <2>7
  <2>8. ASSUME NEW limit \in EditLimits, NEW enforced \in BOOLEAN, UpdateEvent(limit, enforced)
        PROVE  AboutARow
    BY <2>7, <2>8 DEF UpdateEvent
  <2>9. CASE CancelEvent \/ ModerateEvent
    BY <2>7, <2>9 DEF CancelEvent, ModerateEvent, SetStatus
  <2>10. ASSUME NEW u \in Users, NEW g \in NewGenders, ChangeGender(u, g) PROVE AboutARow
    BY <2>7, <2>10 DEF ChangeGender
  <2>11. CASE UNCHANGED vars
    BY <2>7, <2>11 DEF vars
  <2> QED
    BY <2>1, <2>2, <2>3, <2>4, <2>6, <2>8, <2>9, <2>10, <2>11 DEF Next, Serve
<1> QED
  BY <1>1, <1>2 DEF RequestHasRow

(* Joining or leaving a finite set changes its size by one. *)
LEMMA GoingMoves ==
  ASSUME TypeOK, NEW u \in Users, NEW s \in RowStatuses,
         attendee' = [attendee EXCEPT ![u] = s]
  PROVE  LET before == attendee[u] \in {"CONFIRMED", "CHECKED_IN"}
             after == s \in {"CONFIRMED", "CHECKED_IN"}
         IN /\ Cardinality(Going) \in Nat
            /\ (before <=> after) => Cardinality(Going') = Cardinality(Going)
            /\ ~before /\ after => Cardinality(Going') = Cardinality(Going) + 1
            /\ before /\ ~after => Cardinality(Going') = Cardinality(Going) - 1
<1> DEFINE In == {"CONFIRMED", "CHECKED_IN"}
<1>1. IsFiniteSet(Going) /\ Cardinality(Going) \in Nat
  BY FS_Subset, FS_CardinalityType DEF Going
<1>2. \A v \in Users : attendee'[v] = IF v = u THEN s ELSE attendee[v]
  BY DEF TypeOK
<1>3. CASE attendee[u] \in In <=> s \in In
  <2>1. Going' = Going
    BY <1>2, <1>3 DEF Going
  <2> QED
    BY <1>1, <1>3, <2>1
<1>4. CASE attendee[u] \notin In /\ s \in In
  <2>1. Going' = Going \union {u} /\ u \notin Going
    BY <1>2, <1>4 DEF Going
  <2> QED
    BY <1>1, <1>4, <2>1, FS_AddElement
<1>5. CASE attendee[u] \in In /\ s \notin In
  <2>1. Going' = Going \ {u} /\ u \in Going
    BY <1>2, <1>5 DEF Going
  <2> QED
    BY <1>1, <1>5, <2>1, FS_RemoveElement
<1> QED
  BY <1>3, <1>4, <1>5

(* Outside the three drift steps the counter moves as the roster does.      *)
THEOREM CounterTracksRosterHolds == Spec => CounterTracksRoster
<1> DEFINE Tracks ==
      attendeeCount' - Cardinality(Going') = attendeeCount - Cardinality(Going) \/ DriftStep
<1>1. ASSUME IInv, RequestHasRow, [Next]_vars PROVE Tracks
  <2> SUFFICES ASSUME IInv, RequestHasRow, [Next]_vars, ~DriftStep
               PROVE  attendeeCount' - Cardinality(Going') = attendeeCount - Cardinality(Going)
    BY <1>1
  <2> TypeOK /\ attendeeCount \in Int
    BY DEF IInv, TypeOK
  <2>1. ASSUME NEW h \in Handlers PROVE attendee[req[h].user] \in RowStatuses
    BY CommitEffects DEF TypeOK
  <2>2. ASSUME NEW h \in Handlers, JoinCommit(h)
        PROVE  attendeeCount' - Cardinality(Going') = attendeeCount - Cardinality(Going)
    <3>1. attendee[req[h].user] \in {"NONE", "CANCELLED"} /\ attendeeCount' = attendeeCount + 1
      BY <2>1, <2>2 DEF JoinCommit, IInv, JoinChecksStillHold, Admissible, DriftStep, RowStatuses
    <3>2. Cardinality(Going) \in Nat /\ Cardinality(Going') = Cardinality(Going) + 1
      BY <2>2, <3>1, CommitEffects, GoingMoves DEF RowStatuses
    <3> QED
      BY <3>1, <3>2
  <2>3. ASSUME NEW h \in Handlers, LeaveCommit(h)
        PROVE  attendeeCount' - Cardinality(Going') = attendeeCount - Cardinality(Going)
    <3>1. attendee[req[h].user] \in {"CONFIRMED", "CHECKED_IN"} /\ attendeeCount' = attendeeCount - 1
      BY <2>1, <2>3 DEF LeaveCommit, RequestHasRow, DriftStep, RowStatuses
    <3>2. Cardinality(Going) \in Nat /\ Cardinality(Going') = Cardinality(Going) - 1
      BY <2>3, <3>1, CommitEffects, GoingMoves DEF RowStatuses
    <3> QED
      BY <3>1, <3>2
  <2>4. ASSUME NEW h \in Handlers, CheckInWrite(h)
        PROVE  attendeeCount' - Cardinality(Going') = attendeeCount - Cardinality(Going)
    <3>1. attendee[req[h].user] \in {"CONFIRMED", "CHECKED_IN"} /\ attendeeCount' = attendeeCount
      BY <2>1, <2>4 DEF CheckInWrite, counters, RequestHasRow, DriftStep, RowStatuses
    <3>2. Cardinality(Going) \in Nat /\ Cardinality(Going') = Cardinality(Going)
      BY <2>4, <3>1, CommitEffects, GoingMoves DEF RowStatuses
    <3> QED
      BY <3>1, <3>2
  <2>5. ASSUME NEW limit \in EditLimits, NEW enforced \in BOOLEAN, UpdateEvent(limit, enforced)
        PROVE  attendeeCount' = attendeeCount /\ Going' = Going
    BY <2>5 DEF UpdateEvent, counters, rows, Going
  <2>6. CASE Frame
    BY <2>6 DEF Frame, counters, rows, Going
  <2> QED
    BY <2>2, <2>3, <2>4, <2>5, <2>6, StepCases
<1>2. IInv /\ RequestHasRow /\ [Next]_vars => [Tracks]_vars
  BY <1>1
<1>3. Init => RequestHasRow
  BY DEF Init, RequestHasRow, Idle
<1>4. Spec => []RequestHasRow
  BY <1>3, RowStep, TypeCorrect, PTL DEF Spec
<1>5. Spec => [][Tracks]_vars
  BY <1>2, <1>4, Inductive, PTL DEF Spec
<1> QED
  BY <1>5 DEF CounterTracksRoster
=============================================================================
