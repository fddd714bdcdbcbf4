--------------------------- MODULE EventAttendance ---------------------------
(***************************************************************************)
(* Attendance of one gathering: joinEvent, leaveEvent and checkInAttendee  *)
(* of event-attendees.service.ts, the organizer's updateEvent and          *)
(* cancelEvent, an administrator's moderateEvent, and the profile gender   *)
(* the seat rules read.                                                    *)
(*                                                                         *)
(* Several requests run at once, each on a handler.  A handler's steps are *)
(* the points where the code awaits: a read outside the transaction, a row *)
(* lock, a commit.  A join holds the lock of the event row from SELECT ..  *)
(* FOR UPDATE to its commit; a leave first locks the attendee row, then    *)
(* needs the event row.  A lock is not a variable: it is held by the       *)
(* handler whose pc says so.  Uncommitted writes are invisible to others   *)
(* (READ COMMITTED), so a transaction's writes appear at its commit.       *)
(***************************************************************************)
EXTENDS Integers, FiniteSets

CONSTANTS Users,        \* everybody who has a complete profile
          Organizer,    \* the creator of the gathering
          Handlers,     \* requests in progress at one time
          NoLimit,      \* maxAttendees = NULL
          Limits,       \* the limits the creation DTO admits (2..1000)
          EditLimits,   \* the limits updateEvent is called with
          ModerateTo,   \* the statuses an administrator sets
          NewGenders,   \* the genders a profile may be changed to
          MaxRequests   \* bound on the requests of a behaviour

Counted == {"MALE", "FEMALE"}           \* genders the event row counts
Genders == Counted \union {"OTHER"}     \* the other values of enum Gender
EventStatuses == {"DRAFT", "PENDING_REVIEW", "PENDING_VOUCH", "PUBLISHED", "REJECTED",
                  "CANCELLED", "COMPLETED"}
RowStatuses == {"NONE", "CONFIRMED", "CHECKED_IN", "CANCELLED"}  \* NONE: no row

ASSUME UsersAssumption == Organizer \in Users /\ IsFiniteSet(Users)
ASSUME LimitsAssumption == /\ Limits \subseteq Nat /\ Limits # {}
                           /\ NoLimit \notin Int
                           /\ EditLimits \subseteq Limits \union {NoLimit}
ASSUME EditsAssumption == ModerateTo \subseteq EventStatuses /\ NewGenders \subseteq Genders
ASSUME BoundAssumption == MaxRequests \in Nat

VARIABLES status, maxAttendees, genderBalanceEnforced,   \* the event row:
          attendeeCount, genderCount,                    \*   its settings, its counters
          attendee,    \* attendee[u]: the status of u's event_attendees row
          chat,        \* chat[u]: membership in the gathering's group conversation
          gender,      \* gender[u]: u's profile
          req,         \* req[h]: the request handler h works on
          requests     \* requests accepted so far

settings == <<status, maxAttendees, genderBalanceEnforced>>
counters == <<attendeeCount, genderCount>>
rows == <<attendee, chat>>
vars == <<settings, counters, rows, gender, req, requests>>

Request == [pc : {"idle", "join", "joining", "leave", "leaveTx", "leaving", "checkIn"},
            user : Users, gender : Genders]
Idle == [pc |-> "idle", user |-> Organizer, gender |-> "OTHER"]

TypeOK ==
  /\ status \in EventStatuses
  /\ maxAttendees \in Limits \union {NoLimit}
  /\ genderBalanceEnforced \in BOOLEAN
  /\ attendeeCount \in Int
  /\ genderCount \in [Counted -> Int]
  /\ attendee \in [Users -> RowStatuses]
  /\ chat \in [Users -> {"none", "active", "left"}]
  /\ gender \in [Users -> Genders]
  /\ req \in [Handlers -> Request]
  /\ requests \in 0..MaxRequests

-----------------------------------------------------------------------------
(* Locks *)

(* Mutant: SELECT without FOR UPDATE. *)
EventLocked_NoRowLock == FALSE

EventLocked == \E h \in Handlers : req[h].pc = "joining"
RowLocked(u) == \E h \in Handlers : req[h].pc = "leaving" /\ req[h].user = u

(* Those who find the gathering among the ones they attend (getMyAttending) *)
Going == {u \in Users : attendee[u] \in {"CONFIRMED", "CHECKED_IN"}}

(* createEvent: the organizer's own attendee row and chat membership are    *)
(* created with the event, the counters keep their default 0.               *)
Init ==
  /\ status = "PENDING_VOUCH"
  /\ maxAttendees \in Limits
  /\ genderBalanceEnforced \in BOOLEAN
  /\ attendeeCount = 0
  /\ genderCount = [g \in Counted |-> 0]
  /\ attendee = [u \in Users |-> IF u = Organizer THEN "CONFIRMED" ELSE "NONE"]
  /\ chat = [u \in Users |-> IF u = Organizer THEN "active" ELSE "none"]
  /\ gender \in [Users -> Genders]
  /\ req = [h \in Handlers |-> Idle]
  /\ requests = 0

Accept(h, u, pc, g) ==
  /\ req[h].pc = "idle"
  /\ requests < MaxRequests
  /\ requests' = requests + 1
  /\ req' = [req EXCEPT ![h] = [pc |-> pc, user |-> u, gender |-> g]]

Goto(h, pc) == req' = [req EXCEPT ![h].pc = pc] /\ UNCHANGED requests
Finish(h) == req' = [req EXCEPT ![h] = Idle] /\ UNCHANGED requests

-----------------------------------------------------------------------------
(* joinEvent *)

Half(n) == (n + 1) \div 2   \* Math.ceil(n / 2)

Balanced == genderBalanceEnforced /\ maxAttendees # NoLimit

(* Mutant: > for >= in the capacity check. *)
SeatFree_OffByOne == maxAttendees # NoLimit => attendeeCount <= maxAttendees

SeatFree == maxAttendees # NoLimit => attendeeCount < maxAttendees

(* Mutant: > for >= in the gender checks. *)
GenderSeatFree_OffByOne(g) ==
  Balanced /\ g \in Counted => genderCount[g] <= Half(maxAttendees)

GenderSeatFree(g) ==
  Balanced /\ g \in Counted => genderCount[g] < Half(maxAttendees)

Admissible(u, g) ==
  /\ status # "CANCELLED"
  /\ attendee[u] # "CONFIRMED"
  /\ SeatFree
  /\ GenderSeatFree(g)

(* The profile is read before the transaction begins. *)
JoinRead(h, u) ==
  /\ Accept(h, u, "join", gender[u])
  /\ UNCHANGED <<settings, counters, rows, gender>>

(* SELECT .. FOR UPDATE, the attendee read and the checks under the lock. *)
JoinLock(h) ==
  /\ req[h].pc = "join"
  /\ ~EventLocked
  /\ Admissible(req[h].user, req[h].gender)
  /\ Goto(h, "joining")
  /\ UNCHANGED <<settings, counters, rows, gender>>

(* Mutant: a rejected join is retried until it is admitted. *)
JoinReject_Retries(h) ==
  /\ req[h].pc = "join"
  /\ ~EventLocked
  /\ ~Admissible(req[h].user, req[h].gender)
  /\ UNCHANGED vars

JoinReject(h) ==
  /\ req[h].pc = "join"
  /\ ~EventLocked
  /\ ~Admissible(req[h].user, req[h].gender)
  /\ Finish(h)
  /\ UNCHANGED <<settings, counters, rows, gender>>

(* Mutant: a re-join is taken for an update that moves no counter. *)
JoinCommit_CountsNewRowsOnly(h) ==
  LET u == req[h].user
      g == req[h].gender
  IN /\ req[h].pc = "joining"
     /\ ~RowLocked(u)
     /\ attendee' = [attendee EXCEPT ![u] = "CONFIRMED"]
     /\ attendeeCount' = attendeeCount + (IF attendee[u] = "NONE" THEN 1 ELSE 0)
     /\ genderCount' = IF Balanced /\ g \in Counted
                         THEN [genderCount EXCEPT ![g] = @ + 1]
                         ELSE genderCount
     /\ chat' = [chat EXCEPT ![u] = "active"]
     /\ Finish(h)
     /\ UNCHANGED <<settings, gender>>

(* The upsert of the attendee row, the counters, the chat membership, and   *)
(* the commit.  The upsert waits for a leave that has locked the row.       *)
JoinCommit(h) ==
  LET u == req[h].user
      g == req[h].gender
  IN /\ req[h].pc = "joining"
     /\ ~RowLocked(u)
     /\ attendee' = [attendee EXCEPT ![u] = "CONFIRMED"]
     /\ attendeeCount' = attendeeCount + 1
     /\ genderCount' = IF Balanced /\ g \in Counted
                         THEN [genderCount EXCEPT ![g] = @ + 1]
                         ELSE genderCount
     /\ chat' = [chat EXCEPT ![u] = "active"]
     /\ Finish(h)
     /\ UNCHANGED <<settings, gender>>

(* The random pass code is already in use: the unique index rejects the     *)
(* upsert and the transaction is rolled back.                               *)
PassCollision(h) ==
  /\ req[h].pc = "joining"
  /\ ~RowLocked(req[h].user)
  /\ Finish(h)
  /\ UNCHANGED <<settings, counters, rows, gender>>

-----------------------------------------------------------------------------
(* leaveEvent *)

LeaveRead(h, u) ==
  /\ attendee[u] = "CONFIRMED"
  /\ Accept(h, u, "leave", "OTHER")
  /\ UNCHANGED <<settings, counters, rows, gender>>

LeaveProfile(h) ==
  /\ req[h].pc = "leave"
  /\ req' = [req EXCEPT ![h].pc = "leaveTx", ![h].gender = gender[req[h].user]]
  /\ UNCHANGED <<settings, counters, rows, gender, requests>>

(* The attendee row is written first, by id, whatever it holds by now. *)
LeaveLock(h) ==
  /\ req[h].pc = "leaveTx"
  /\ ~RowLocked(req[h].user)
  /\ Goto(h, "leaving")
  /\ UNCHANGED <<settings, counters, rows, gender>>

(* Mutant: the leaver stays in the group conversation. *)
LeaveCommit_KeepsChat(h) ==
  LET u == req[h].user
      g == req[h].gender
  IN /\ req[h].pc = "leaving"
     /\ ~EventLocked
     /\ attendee' = [attendee EXCEPT ![u] = "CANCELLED"]
     /\ attendeeCount' = attendeeCount - 1
     /\ genderCount' = IF g \in Counted
                         THEN [genderCount EXCEPT ![g] = @ - 1]
                         ELSE genderCount
     /\ UNCHANGED chat
     /\ Finish(h)
     /\ UNCHANGED <<settings, gender>>

(* The event row is written once no join holds it. *)
LeaveCommit(h) ==
  LET u == req[h].user
      g == req[h].gender
  IN /\ req[h].pc = "leaving"
     /\ ~EventLocked
     /\ attendee' = [attendee EXCEPT ![u] = "CANCELLED"]
     /\ attendeeCount' = attendeeCount - 1
     /\ genderCount' = IF g \in Counted
                         THEN [genderCount EXCEPT ![g] = @ - 1]
                         ELSE genderCount
     /\ chat' = [chat EXCEPT ![u] = "left"]
     /\ Finish(h)
     /\ UNCHANGED <<settings, gender>>

(* A join that holds the event row and waits for the attendee row, and a    *)
(* leave that holds the attendee row and waits for the event row: the       *)
(* database aborts one of the two, and its request fails with no effect.    *)
DeadlockAbort(h) ==
  /\ \E j, l \in Handlers : /\ req[j].pc = "joining" /\ req[l].pc = "leaving"
                            /\ req[j].user = req[l].user
                            /\ h \in {j, l}
  /\ Finish(h)
  /\ UNCHANGED <<settings, counters, rows, gender>>

-----------------------------------------------------------------------------
(* checkInAttendee: the organizer scans u's pass.  The row is found by its  *)
(* code and updated by its id, outside a transaction.                       *)

CheckInRead(h, u) ==
  /\ attendee[u] \in {"CONFIRMED", "CANCELLED"}
  /\ Accept(h, u, "checkIn", "OTHER")
  /\ UNCHANGED <<settings, counters, rows, gender>>

CheckInWrite(h) ==
  /\ req[h].pc = "checkIn"
  /\ ~RowLocked(req[h].user)
  /\ attendee' = [attendee EXCEPT ![req[h].user] = "CHECKED_IN"]
  /\ Finish(h)
  /\ UNCHANGED <<settings, counters, chat, gender>>

-----------------------------------------------------------------------------
(* The organizer, an administrator, a user's own profile.  Each is a single *)
(* UPDATE, which waits for the lock of the event row.                       *)

(* Mutant: the limit is written without the capacity constraint. *)
UpdateEvent_Unchecked(limit, enforced) ==
  /\ ~EventLocked
  /\ maxAttendees' = limit
  /\ genderBalanceEnforced' = enforced
  /\ UNCHANGED <<status, counters, rows, gender, req, requests>>

(* chk_events_capacity rejects a limit below the counter. *)
UpdateEvent(limit, enforced) ==
  /\ ~EventLocked
  /\ limit # NoLimit => attendeeCount <= limit
  /\ maxAttendees' = limit
  /\ genderBalanceEnforced' = enforced
  /\ UNCHANGED <<status, counters, rows, gender, req, requests>>

SetStatus(s) ==
  /\ ~EventLocked
  /\ status' = s
  /\ UNCHANGED <<maxAttendees, genderBalanceEnforced, counters, rows, gender, req, requests>>

CancelEvent == SetStatus("CANCELLED")

ModerateEvent == \E s \in ModerateTo : SetStatus(s)

ChangeGender(u, g) ==
  /\ gender' = [gender EXCEPT ![u] = g]
  /\ UNCHANGED <<settings, counters, rows, req, requests>>

-----------------------------------------------------------------------------
Serve(h) ==
  \/ JoinLock(h) \/ JoinReject(h) \/ JoinCommit(h) \/ PassCollision(h)
  \/ LeaveProfile(h) \/ LeaveLock(h) \/ LeaveCommit(h) \/ DeadlockAbort(h)
  \/ CheckInWrite(h)

Next ==
  \/ \E h \in Handlers, u \in Users : JoinRead(h, u) \/ LeaveRead(h, u) \/ CheckInRead(h, u)
  \/ \E h \in Handlers : Serve(h)
  \/ \E limit \in EditLimits, enforced \in BOOLEAN : UpdateEvent(limit, enforced)
  \/ CancelEvent
  \/ ModerateEvent
  \/ \E u \in Users, g \in NewGenders : ChangeGender(u, g)

Spec == Init /\ [][Next]_vars

(* A handler that can step does so: row locks are granted in queue order, a *)
(* waiter is not passed over for ever, and the database detects deadlocks.  *)
FairSpec == Spec /\ \A h \in Handlers : SF_vars(Serve(h))

-----------------------------------------------------------------------------
(* Properties *)

(* The seat counter never passes the limit, whatever joins, leaves and      *)
(* edits of the limit run at once (joinEvent's check is made under the row  *)
(* lock and used after it; updateEvent's under chk_events_capacity, which   *)
(* therefore never fires in a join).                                        *)
SeatLimit == maxAttendees # NoLimit => attendeeCount <= maxAttendees

(* The group conversation follows the roster: who is confirmed can talk in  *)
(* it, and who can talk is confirmed or at the venue, although leaves,      *)
(* re-joins and check-ins of one person overlap.                            *)
ChatMatchesRoster ==
  \A u \in Users :
    /\ attendee[u] = "CONFIRMED" => chat[u] = "active"
    /\ chat[u] = "active" => attendee[u] \in {"CONFIRMED", "CHECKED_IN"}

(* The row lock excludes two joins from the section between the checks and  *)
(* the counters, and what a join checked still holds when it commits.       *)
JoinChecksStillHold ==
  \A h \in Handlers :
    req[h].pc = "joining" =>
      /\ Admissible(req[h].user, req[h].gender)
      /\ \A j \in Handlers : req[j].pc = "joining" => j = h

(* Steps after which the counter and the roster have moved apart: a leave   *)
(* that finds its row already cancelled by another leave, a join by         *)
(* somebody already checked in, a check-in of a pass that was given back.   *)
DriftStep ==
  \E h \in Handlers :
    \/ LeaveCommit(h) /\ attendee[req[h].user] = "CANCELLED"
    \/ JoinCommit(h) /\ attendee[req[h].user] = "CHECKED_IN"
    \/ CheckInWrite(h) /\ attendee[req[h].user] = "CANCELLED"

(* In every other step the counter moves exactly as the number of people    *)
(* going does.                                                              *)
CounterTracksRoster ==
  [][attendeeCount' - Cardinality(Going') = attendeeCount - Cardinality(Going) \/ DriftStep]_vars

(* Nobody's seat is confirmed in a cancelled gathering: a cancellation that *)
(* meets a join in progress comes before or after it, never inside it.      *)
NoSeatAfterCancel ==
  [][status = "CANCELLED" =>
       \A u \in Users : attendee'[u] = "CONFIRMED" => attendee[u] = "CONFIRMED"]_vars

(* While the balance is enforced and stays so, a counted gender gains a     *)
(* seat only below half of the limit of that moment.                        *)
GenderCapHonoured ==
  [][\A g \in Counted :
       genderCount'[g] > genderCount[g] =>
         /\ genderBalanceEnforced /\ maxAttendees # NoLimit
         /\ genderCount'[g] <= Half(maxAttendees)]_vars

(* The gathering's counter implements the seat ledger. *)
Ledger == INSTANCE SeatLedger WITH taken <- attendeeCount, capacity <- maxAttendees
LedgerSpec == Ledger!Spec

(* Every request is answered, and so every lock is given up, although joins *)
(* and leaves of one person can wait for each other's rows.                 *)
RequestsAnswered == \A h \in Handlers : req[h].pc # "idle" ~> req[h].pc = "idle"

(* What a comment of the code claims, for the run that refutes it.          *)
(* event-attendees.service.ts:32 "Row lock on event to guarantee strict     *)
(* atomic capacity": the organizer's own place is left out of the count.    *)
GuestsWithinCapacity ==
  maxAttendees # NoLimit => Cardinality(Going \ {Organizer}) <= maxAttendees
=============================================================================
