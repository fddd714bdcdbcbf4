------------------------- MODULE EventListingProofs --------------------------
(***************************************************************************)
(* What a gathering shows of itself, for any users, campaigns, payments,   *)
(* places, times and handlers.  What the properties need besides the types:*)
(* a user's row is held by one transaction at a time, so that what it saw  *)
(* of the row is still so when it commits; and whatever is paid for has    *)
(* been created.                                                           *)
(***************************************************************************)
EXTENDS EventListing, FiniteSetTheorems, TLAPS

USE FiniteAssumption, TimesAssumption, MaxCountAssumption, MayRefuseAssumption

LEMMA RequestKinds ==
  ASSUME TypeOK, NEW h \in Handlers
  PROVE  /\ req[h].pc \in {"point", "radar"} => req[h].place \in Places
         /\ req[h].pc \in {"save", "unsave"} => req[h].user \in Users /\ req[h].found \in BOOLEAN
         /\ req[h].pc = "order" => req[h].campaign \in Campaigns
         /\ req[h].pc = "verify" => req[h].payment \in Payments
<1>1. req[h] \in Request \union {Idle}
  BY DEF TypeOK
<1> QED
  BY <1>1 DEF Request, Idle

LEMMA FinishMoves ==
  ASSUME TypeOK, NEW h \in Handlers, Finish(h)
  PROVE  /\ req' \in [Handlers -> Request \union {Idle}]
         /\ req'[h].pc = "idle"
         /\ \A g \in Handlers : g # h => req'[g] = req[g]
BY DEF TypeOK, Finish, Idle

LEMMA StartMoves ==
  ASSUME TypeOK, NEW h \in Handlers, NEW request, Start(h, request)
  PROVE  /\ req[h].pc = "idle" /\ req'[h] = request
         /\ request \in Request => req' \in [Handlers -> Request \union {Idle}]
         /\ \A g \in Handlers : g # h => req'[g] = req[g]
BY DEF TypeOK, Start

-----------------------------------------------------------------------------
LEMMA TypeInit == Init => TypeOK
BY DEF Init, TypeOK

LEMMA TypeStep == TypeOK /\ [Next]_vars => TypeOK'
<1> SUFFICES ASSUME TypeOK, [Next]_vars PROVE TypeOK'
  OBVIOUS
<1> USE DEF row, saves, orders
<1>1. ASSUME NEW h \in Handlers, NEW times \in [start : Times, end : Times], NEW to \in Places,
             UpdateRow(h, times, to)
      PROVE  TypeOK'
  <2>1. [pc |-> "point", place |-> to] \in Request /\ times \in Schedules
    BY <1>1 DEF UpdateRow, Request, Schedules
  <2>2. req' \in [Handlers -> Request \union {Idle}]
    BY <1>1, <2>1, StartMoves DEF UpdateRow
  <2> QED
    BY <1>1, <2>1, <2>2 DEF UpdateRow, TypeOK
<1>2. ASSUME NEW h \in Handlers, UpdatePoint(h) \/ RadarShow(h) \/ Fail(h) PROVE TypeOK'
  <2>1. req' \in [Handlers -> Request \union {Idle}] /\ point' \in Places
    BY <1>2, FinishMoves, RequestKinds DEF UpdatePoint, RadarShow, Fail, TypeOK
  <2> QED
    BY <1>2, <2>1 DEF UpdatePoint, RadarShow, Fail, TypeOK
<1>3. ASSUME NEW h \in Handlers, NEW request \in Request, Start(h, request), UNCHANGED <<row, saves, orders>>
      PROVE  TypeOK'
  BY <1>3, StartMoves DEF TypeOK
<1>4. ASSUME NEW h \in Handlers, RadarFind(h) PROVE TypeOK'
  <2>1. [pc |-> "radar", place |-> point] \in Request
    BY DEF Request, TypeOK
  <2> QED
    BY <1>3, <1>4, <2>1 DEF RadarFind
<1>5. ASSUME NEW h \in Handlers, NEW user \in Users, SaveUpsert(h, user) \/ UnsaveDelete(h, user) PROVE TypeOK'
  <2>1. /\ [pc |-> "save", user |-> user, found |-> user \in saved] \in Request
        /\ [pc |-> "unsave", user |-> user, found |-> user \in saved] \in Request
    <3>1. (user \in saved) \in BOOLEAN
      OBVIOUS
    <3>2. \A b \in BOOLEAN : /\ [pc |-> "save", user |-> user, found |-> b] \in Request
                             /\ [pc |-> "unsave", user |-> user, found |-> b] \in Request
      BY DEF Request
    <3> QED
      BY <3>1, <3>2, Zenon
  <2> QED
    BY <1>3, <1>5, <2>1 DEF SaveUpsert, UnsaveDelete
<1>6. ASSUME NEW h \in Handlers, SaveCommit(h) \/ UnsaveCommit(h) PROVE TypeOK'
  <2>1. req' \in [Handlers -> Request \union {Idle}] /\ saved' \in SUBSET Users /\ saveCount' \in Int
    BY <1>6, FinishMoves, RequestKinds DEF SaveCommit, UnsaveCommit, TypeOK
  <2> QED
    BY <1>6, <2>1 DEF SaveCommit, UnsaveCommit, TypeOK
<1>7. ASSUME NEW h \in Handlers, NEW c \in Campaigns, NEW end \in Ends, CreateCampaign(h, c, end) PROVE TypeOK'
  <2>1. [pc |-> "order", campaign |-> c] \in Request
    BY DEF Request
  <2>2. req' \in [Handlers -> Request \union {Idle}]
    BY <1>7, <2>1, StartMoves DEF CreateCampaign
  <2> QED
    BY <1>7, <2>2 DEF CreateCampaign, TypeOK
<1>8. ASSUME NEW h \in Handlers, NEW p \in Payments, CreatePayment(h, p) PROVE TypeOK'
  <2>1. req' \in [Handlers -> Request \union {Idle}] /\ req[h].campaign \in Campaigns
    BY <1>8, FinishMoves, RequestKinds DEF CreatePayment
  <2> QED
    BY <1>8, <2>1 DEF CreatePayment, Ordered, TypeOK
<1>9. ASSUME NEW h \in Handlers, NEW p \in Payments, NEW c \in Campaigns, CreateOrder(h, p, c) PROVE TypeOK'
  BY <1>9 DEF CreateOrder, Ordered, TypeOK
<1>10. ASSUME NEW h \in Handlers, NEW p \in Payments, VerifyRead(h, p) PROVE TypeOK'
  <2>1. [pc |-> "verify", payment |-> p] \in Request
    BY DEF Request
  <2> QED
    BY <1>3, <1>10, <2>1 DEF VerifyRead
<1>11. ASSUME NEW h \in Handlers, VerifyRefused(h) PROVE TypeOK'
  BY <1>11, FinishMoves DEF VerifyRefused, TypeOK
<1>12. ASSUME NEW h \in Handlers, VerifyCommit(h) PROVE TypeOK'
  <2>1. req' \in [Handlers -> Request \union {Idle}] /\ req[h].payment \in Payments
    BY <1>12, FinishMoves, RequestKinds DEF VerifyCommit
  <2>2. PICK c \in bought[req[h].payment] : campaign' = [campaign EXCEPT ![c] = "ACTIVE"] /\ featured' = endAt[c]
    BY <1>12 DEF VerifyCommit
  <2>3. c \in Campaigns
    BY <2>1, <2>2 DEF TypeOK
  <2> QED
    BY <1>12, <2>1, <2>2, <2>3 DEF VerifyCommit, TypeOK
<1>13. CASE UNCHANGED vars
  BY <1>13 DEF vars, TypeOK
<1> QED
  BY <1>1, <1>2, <1>4, <1>5, <1>6, <1>7, <1>8, <1>9, <1>10, <1>11, <1>12, <1>13 DEF Next

(* Every variable keeps its type.                                           *)
THEOREM TypeCorrect == Spec => []TypeOK
BY TypeInit, TypeStep, PTL DEF Spec

-----------------------------------------------------------------------------
(* The point and the distance: only the two statements of updateEvent move  *)
(* anything, and only getRadarEvents takes a place along.                   *)
LEMMA PointStep ==
  ASSUME TypeOK, [Next]_vars, Together
  PROVE  /\ Together' \/ \E h \in Handlers : UpdatePoint(h) /\ req[h].place # place
         /\ Told => Told' \/ (Answering # {} /\ place' # place)
<1> DEFINE Goal == /\ Together' \/ \E h \in Handlers : UpdatePoint(h) /\ req[h].place # place
                   /\ Told => Told' \/ (Answering # {} /\ place' # place)
<1> USE DEF row, saves, orders
<1>1. ASSUME NEW h \in Handlers, NEW times \in [start : Times, end : Times], NEW to \in Places,
             UpdateRow(h, times, to)
      PROVE  Goal
  <2>1. /\ place' = to /\ point' = to /\ req'[h].pc = "point"
        /\ \A g \in Handlers : g # h => req'[g] = req[g]
    BY <1>1, StartMoves DEF UpdateRow
  <2>2. \A g \in Answering' : g \in Answering /\ req'[g] = req[g]
    BY <2>1 DEF Answering
  <2> QED
    BY <2>1, <2>2 DEF Together, Told
<1>2. ASSUME NEW h \in Handlers, UpdatePoint(h) PROVE Goal
  <2>1. \A g \in Answering' : g \in Answering /\ req'[g] = req[g]
    BY <1>2, FinishMoves DEF UpdatePoint, Answering
  <2> QED
    BY <1>2, <2>1 DEF UpdatePoint, Together, Told
<1>3. ASSUME NEW h \in Handlers, RadarFind(h) PROVE Goal
  <2>1. /\ UNCHANGED <<place, point>> /\ req'[h].place = point
        /\ \A g \in Handlers : g # h => req'[g] = req[g]
    BY <1>3, StartMoves DEF RadarFind
  <2> QED
    BY <2>1 DEF Together, Told, Answering
<1>4. ASSUME UNCHANGED <<place, point>>,
             \A g \in Handlers : req'[g] = req[g] \/ req'[g].pc # "radar"
      PROVE  Goal
  BY <1>4 DEF Together, Told, Answering
<1>5. ASSUME NEW h \in Handlers, UNCHANGED <<place, point>>, Finish(h) PROVE Goal
  BY <1>4, <1>5, FinishMoves
<1>6. ASSUME NEW h \in Handlers,
             \/ RadarShow(h) \/ SaveCommit(h) \/ UnsaveCommit(h) \/ (\E p \in Payments : CreatePayment(h, p))
             \/ VerifyRefused(h) \/ VerifyCommit(h) \/ Fail(h)
      PROVE  Goal
  BY <1>5, <1>6 DEF RadarShow, SaveCommit, UnsaveCommit, CreatePayment, VerifyRefused, VerifyCommit, Fail
<1>7. ASSUME NEW h \in Handlers, NEW request, UNCHANGED <<place, point>>, Start(h, request), request.pc # "radar"
      PROVE  Goal
  BY <1>4, <1>7, StartMoves
<1>8. ASSUME NEW h \in Handlers, NEW user \in Users, SaveUpsert(h, user) \/ UnsaveDelete(h, user) PROVE Goal
  <2>1. PICK pc \in {"save", "unsave"} : Start(h, [pc |-> pc, user |-> user, found |-> user \in saved])
    BY <1>8 DEF SaveUpsert, UnsaveDelete
  <2>2. req'[h].pc = pc /\ \A g \in Handlers : g # h => req'[g] = req[g]
    BY <2>1, StartMoves
  <2>3. UNCHANGED <<place, point>>
    BY <1>8 DEF SaveUpsert, UnsaveDelete
  <2> QED
    BY <1>4, <2>2, <2>3
<1>9. ASSUME NEW h \in Handlers, NEW c \in Campaigns, NEW end \in Ends, CreateCampaign(h, c, end) PROVE Goal
  BY <1>7, <1>9 DEF CreateCampaign
<1>10. ASSUME NEW h \in Handlers, NEW p \in Payments, VerifyRead(h, p) PROVE Goal
  BY <1>7, <1>10 DEF VerifyRead
<1>11. CASE UNCHANGED vars \/ \E h \in Handlers, p \in Payments, c \in Campaigns : CreateOrder(h, p, c)
  <2>1. UNCHANGED <<place, point, req>>
    BY <1>11 DEF vars, CreateOrder
  <2> QED
    BY <1>4, <2>1
<1>12. ASSUME NEW h \in Handlers,
              \/ \E times \in [start : Times, end : Times], to \in Places : UpdateRow(h, times, to)
              \/ \E user \in Users : SaveUpsert(h, user) \/ UnsaveDelete(h, user)
              \/ \E c \in Campaigns, end \in Ends : CreateCampaign(h, c, end)
              \/ \E p \in Payments : VerifyRead(h, p)
       PROVE  Goal
  BY <1>1, <1>8, <1>9, <1>10, <1>12
<1> QED
  BY <1>2, <1>3, <1>6, <1>11, <1>12 DEF Next

(* The radar looks for a gathering where it takes place and tells the       *)
(* distance to there, but for the two overlaps PointFollowsPlace names.     *)
THEOREM PointIsThePlace == Spec => PointFollowsPlace
<1>1. TypeOK /\ [Next]_vars =>
        [/\ Together => \/ Together'
                        \/ \E h \in Handlers : UpdatePoint(h) /\ req[h].place # place
         /\ Together /\ Told => \/ Told'
                                \/ Answering # {} /\ place' # place]_vars
  BY PointStep
<1> QED
  BY <1>1, TypeCorrect, PTL DEF Spec, PointFollowsPlace

-----------------------------------------------------------------------------
(* A transaction that has written a user's row, or is about to delete it.   *)
Holds(h) ==
  /\ req[h].pc \in {"save", "unsave"}
  /\ req[h].pc = "unsave" => req[h].found

(* No two transactions hold one row, and what a holder saw is still so.     *)
Locked ==
  /\ \A g, h \in Handlers : Holds(g) /\ Holds(h) /\ req[g].user = req[h].user => g = h
  /\ \A h \in Handlers : /\ req[h].pc = "save" /\ ~req[h].found => req[h].user \notin saved
                         /\ req[h].pc = "unsave" /\ req[h].found => req[h].user \in saved

LEMMA LockedInit == Init => Locked
<1> SUFFICES ASSUME Init PROVE Locked
  OBVIOUS
<1>1. \A h \in Handlers : req[h].pc = "idle"
  BY DEF Init, Idle
<1> QED
  BY <1>1 DEF Locked, Holds

(* Where the rows are left alone and no transaction takes one.              *)
LEMMA LockedKept ==
  ASSUME Locked, saved' = saved,
         \A h \in Handlers : req'[h] = req[h] \/ req'[h].pc \notin {"save", "unsave"}
  PROVE  Locked'
<1>1. \A h \in Handlers : req'[h].pc \in {"save", "unsave"} => req'[h] = req[h]
  OBVIOUS
<1>2. \A h \in Handlers : Holds(h)' => Holds(h) /\ req'[h] = req[h]
  BY <1>1 DEF Holds
<1>3. ASSUME NEW g \in Handlers, NEW h \in Handlers, Holds(g)', Holds(h)', req'[g].user = req'[h].user PROVE g = h
  BY <1>2, <1>3 DEF Locked
<1>4. ASSUME NEW h \in Handlers
      PROVE  /\ req'[h].pc = "save" /\ ~req'[h].found => req'[h].user \notin saved'
             /\ req'[h].pc = "unsave" /\ req'[h].found => req'[h].user \in saved'
  BY <1>1 DEF Locked
<1> QED
  BY <1>3, <1>4 DEF Locked

LEMMA LockedStep == TypeOK /\ Locked /\ [Next]_vars => Locked'
<1> SUFFICES ASSUME TypeOK, Locked, [Next]_vars PROVE Locked'
  OBVIOUS
<1> USE DEF row, saves, orders
<1>1. ASSUME NEW h \in Handlers, NEW user \in Users, NEW pc \in {"save", "unsave"},
             Start(h, [pc |-> pc, user |-> user, found |-> user \in saved]), saved' = saved,
             pc = "save" \/ user \in saved => ~RowHeld(user)
      PROVE  Locked'
  <2>1. /\ req'[h].pc = pc /\ req'[h].user = user /\ req'[h].found = (user \in saved)
        /\ \A g \in Handlers : g # h => req'[g] = req[g]
    BY <1>1, StartMoves
  <2>2. ASSUME NEW g \in Handlers, g # h, Holds(g)', Holds(h)' PROVE req'[g].user # req'[h].user
    <3>1. Holds(g) /\ req'[g] = req[g]
      BY <2>1, <2>2 DEF Holds
    <3>2. ~RowHeld(user)
      BY <1>1, <2>1, <2>2 DEF Holds
    <3> QED
      BY <2>1, <3>1, <3>2 DEF RowHeld, Holds
  <2>3. ASSUME NEW g \in Handlers
        PROVE  /\ req'[g].pc = "save" /\ ~req'[g].found => req'[g].user \notin saved'
               /\ req'[g].pc = "unsave" /\ req'[g].found => req'[g].user \in saved'
    BY <1>1, <2>1 DEF Locked
  <2>4. ASSUME NEW f \in Handlers, NEW g \in Handlers, Holds(f)', Holds(g)', req'[f].user = req'[g].user PROVE f = g
    <3>1. CASE f = h \/ g = h
      BY <2>2, <2>4, <3>1
    <3>2. CASE f # h /\ g # h
      BY <2>1, <2>4, <3>2 DEF Locked, Holds
    <3> QED
      BY <3>1, <3>2
  <2> QED
    BY <2>3, <2>4 DEF Locked
<1>2. ASSUME NEW h \in Handlers, NEW user \in Users, SaveUpsert(h, user) \/ UnsaveDelete(h, user) PROVE Locked'
  BY <1>1, <1>2 DEF SaveUpsert, UnsaveDelete
<1>3. ASSUME NEW h \in Handlers, SaveCommit(h) \/ UnsaveCommit(h) PROVE Locked'
  <2>1. /\ req'[h].pc = "idle"
        /\ \A g \in Handlers : g # h => req'[g] = req[g]
    BY <1>3, FinishMoves DEF SaveCommit, UnsaveCommit
  <2>2. \A g \in Handlers : g # h /\ Holds(g) /\ Holds(h) => req[g].user # req[h].user
    BY DEF Locked
  <2>3. ASSUME NEW g \in Handlers
        PROVE  /\ req'[g].pc = "save" /\ ~req'[g].found => req'[g].user \notin saved'
               /\ req'[g].pc = "unsave" /\ req'[g].found => req'[g].user \in saved'
    <3>1. CASE g = h
      BY <2>1, <3>1
    <3>2. CASE g # h /\ req[g].pc = "save" /\ ~req[g].found
      <4>1. Holds(g) /\ req[g].user \notin saved
        BY <3>2 DEF Holds, Locked
      <4>2. SaveCommit(h) => req[g].user # req[h].user
        BY <2>2, <3>2, <4>1 DEF SaveCommit, Holds
      <4> QED
        BY <1>3, <2>1, <3>2, <4>1, <4>2 DEF SaveCommit, UnsaveCommit
    <3>3. CASE g # h /\ req[g].pc = "unsave" /\ req[g].found
      <4>1. Holds(g) /\ req[g].user \in saved
        BY <3>3 DEF Holds, Locked
      <4>2. UnsaveCommit(h) /\ req[h].found => req[g].user # req[h].user
        BY <2>2, <3>3, <4>1 DEF UnsaveCommit, Holds
      <4> QED
        BY <1>3, <2>1, <3>3, <4>1, <4>2 DEF SaveCommit, UnsaveCommit
    <3> QED
      BY <2>1, <3>1, <3>2, <3>3
  <2>4. ASSUME NEW f \in Handlers, NEW g \in Handlers, Holds(f)', Holds(g)', req'[f].user = req'[g].user PROVE f = g
    BY <2>1, <2>4 DEF Locked, Holds
  <2> QED
    BY <2>3, <2>4 DEF Locked
<1>4. ASSUME NEW h \in Handlers, saved' = saved, Finish(h) PROVE Locked'
  BY <1>4, LockedKept, FinishMoves
<1>5. ASSUME NEW h \in Handlers,
             \/ UpdatePoint(h) \/ RadarShow(h) \/ (\E p \in Payments : CreatePayment(h, p))
             \/ VerifyRefused(h) \/ VerifyCommit(h) \/ Fail(h)
      PROVE  Locked'
  BY <1>4, <1>5 DEF UpdatePoint, RadarShow, CreatePayment, VerifyRefused, VerifyCommit, Fail
<1>6. ASSUME NEW h \in Handlers, NEW request, saved' = saved, Start(h, request), request.pc \notin {"save", "unsave"}
      PROVE  Locked'
  BY <1>6, LockedKept, StartMoves
<1>7. ASSUME NEW h \in Handlers,
             \/ \E times \in [start : Times, end : Times], to \in Places : UpdateRow(h, times, to)
             \/ RadarFind(h)
             \/ \E c \in Campaigns, end \in Ends : CreateCampaign(h, c, end)
             \/ \E p \in Payments : VerifyRead(h, p)
      PROVE  Locked'
  BY <1>6, <1>7 DEF UpdateRow, RadarFind, CreateCampaign, VerifyRead
<1>8. CASE UNCHANGED vars \/ \E h \in Handlers, p \in Payments, c \in Campaigns : CreateOrder(h, p, c)
  <2>1. saved' = saved /\ req' = req
    BY <1>8 DEF vars, CreateOrder
  <2> QED
    BY <2>1, LockedKept
<1> QED
  BY <1>2, <1>3, <1>5, <1>7, <1>8 DEF Next

LEMMA LockedHolds == Spec => [](TypeOK /\ Locked)
BY TypeInit, TypeStep, LockedInit, LockedStep, PTL DEF Spec

LEMMA DriftStep ==
  ASSUME TypeOK, Locked, [Next]_vars
  PROVE  Drift' = Drift \/ \E h \in Handlers : SavedAgain(h) \/ UnsavedInVain(h)
<1> USE DEF row, saves, orders
<1>0. IsFiniteSet(saved) /\ Cardinality(saved) \in Nat /\ saveCount \in Int
  <2>1. IsFiniteSet(saved)
    BY FS_Subset DEF TypeOK
  <2> QED
    BY <2>1, FS_CardinalityType DEF TypeOK
<1>1. ASSUME NEW h \in Handlers, SaveCommit(h), ~SavedAgain(h) PROVE Drift' = Drift
  <2>1. req[h].user \notin saved
    BY <1>1 DEF SavedAgain, SaveCommit, Locked
  <2>2. saved' = saved \union {req[h].user} /\ saveCount' = saveCount + 1
    BY <1>1 DEF SaveCommit
  <2>3. Cardinality(saved') = Cardinality(saved) + 1
    BY <1>0, <2>1, <2>2, FS_AddElement
  <2> QED
    BY <1>0, <2>2, <2>3 DEF Drift
<1>2. ASSUME NEW h \in Handlers, UnsaveCommit(h), ~UnsavedInVain(h) PROVE Drift' = Drift
  <2>1. req[h].found /\ req[h].user \in saved
    BY <1>2 DEF UnsavedInVain, UnsaveCommit, Locked
  <2>2. saved' = saved \ {req[h].user} /\ saveCount' = saveCount - 1
    BY <1>2, <2>1 DEF UnsaveCommit
  <2>3. Cardinality(saved') = Cardinality(saved) - 1
    <3>1. \A user \in saved : Cardinality(saved \ {user}) = Cardinality(saved) - 1
      BY <1>0, FS_RemoveElement
    <3> QED
      BY <2>1, <2>2, <3>1
  <2> QED
    BY <1>0, <2>2, <2>3 DEF Drift
<1>3. ASSUME UNCHANGED saves PROVE Drift' = Drift
  BY <1>3 DEF Drift
<1>4. ASSUME NEW h \in Handlers,
             \/ \E times \in [start : Times, end : Times], to \in Places : UpdateRow(h, times, to)
             \/ UpdatePoint(h) \/ RadarFind(h) \/ RadarShow(h)
             \/ \E user \in Users : SaveUpsert(h, user) \/ UnsaveDelete(h, user)
             \/ \E c \in Campaigns, end \in Ends : CreateCampaign(h, c, end)
             \/ \E p \in Payments : CreatePayment(h, p) \/ VerifyRead(h, p)
             \/ \E p \in Payments, c \in Campaigns : CreateOrder(h, p, c)
             \/ VerifyRefused(h) \/ VerifyCommit(h) \/ Fail(h)
      PROVE  UNCHANGED saves
  BY <1>4 DEF UpdateRow, UpdatePoint, RadarFind, RadarShow, SaveUpsert, UnsaveDelete, CreateCampaign,
              CreatePayment, VerifyRead, CreateOrder, VerifyRefused, VerifyCommit, Fail
<1>5. CASE UNCHANGED vars
  BY <1>3, <1>5 DEF vars
<1> QED
  BY <1>1, <1>2, <1>3, <1>4, <1>5 DEF Next

(* The counter of saves goes wrong only by a second save or a vain unsave.  *)
THEOREM SaveCountIsTracked == Spec => SaveCountTracks
<1>1. TypeOK /\ Locked /\ [Next]_vars =>
        [Drift' = Drift \/ \E h \in Handlers : SavedAgain(h) \/ UnsavedInVain(h)]_vars
  BY DriftStep
<1> QED
  BY <1>1, LockedHolds, PTL DEF Spec, SaveCountTracks

-----------------------------------------------------------------------------
(* Whatever is ordered has been created, and a payment is for one campaign. *)
Booked ==
  /\ \A c \in Campaigns : campaign[c] # "NONE" => endAt[c] # {}
  /\ \A p \in Payments : \A c \in bought[p] : bought[p] = {c} /\ campaign[c] # "NONE"
  /\ \A h \in Handlers : req[h].pc = "order" => campaign[req[h].campaign] # "NONE"

LEMMA BookedInit == Init => Booked
<1> SUFFICES ASSUME Init PROVE Booked
  OBVIOUS
<1>1. \A h \in Handlers : req[h].pc = "idle"
  BY DEF Init, Idle
<1> QED
  BY <1>1 DEF Init, Booked

(* Where nothing is created and nothing new ordered.                        *)
LEMMA BookedKept ==
  ASSUME TypeOK, Booked, UNCHANGED <<endAt, bought>>,
         \A c \in Campaigns : campaign[c] # "NONE" => campaign'[c] # "NONE",
         \A c \in Campaigns : campaign'[c] # "NONE" => campaign[c] # "NONE",
         \A h \in Handlers : req'[h] = req[h] \/ req'[h].pc # "order"
  PROVE  Booked'
<1>1. \A p \in Payments : \A c \in bought[p] : c \in Campaigns
  BY DEF TypeOK
<1>2. \A h \in Handlers : req'[h].pc = "order" => campaign'[req'[h].campaign] # "NONE"
  BY RequestKinds DEF Booked
<1> QED
  BY <1>1, <1>2 DEF Booked

(* The order of a campaign that there is.                                   *)
LEMMA BookedOrder ==
  ASSUME TypeOK, Booked, NEW p \in Payments, NEW c \in Campaigns, campaign[c] # "NONE", Ordered(p, c),
         UNCHANGED <<campaign, endAt>>,
         \A h \in Handlers : req'[h] = req[h] \/ req'[h].pc # "order"
  PROVE  Booked'
<1>1. \A q \in Payments : bought'[q] = IF q = p THEN {c} ELSE bought[q]
  BY DEF Ordered, TypeOK
<1>2. \A q \in Payments : \A d \in bought'[q] : bought'[q] = {d} /\ campaign[d] # "NONE"
  BY <1>1 DEF Booked
<1>3. \A h \in Handlers : req'[h].pc = "order" => campaign'[req'[h].campaign] # "NONE"
  BY DEF Booked
<1> QED
  BY <1>2, <1>3 DEF Booked

LEMMA VerifyEffect ==
  ASSUME TypeOK, Booked, NEW h \in Handlers, VerifyCommit(h)
  PROVE  \E p \in Payments, c \in Campaigns :
           /\ bought[p] = {c} /\ campaign[c] # "NONE" /\ endAt[c] # {}
           /\ campaign' = [campaign EXCEPT ![c] = "ACTIVE"] /\ featured' = endAt[c]
           /\ payment' = [payment EXCEPT ![p] = "SUCCESS"]
<1>1. req[h].payment \in Payments
  BY RequestKinds DEF VerifyCommit
<1>2. PICK c \in bought[req[h].payment] : campaign' = [campaign EXCEPT ![c] = "ACTIVE"] /\ featured' = endAt[c]
  BY DEF VerifyCommit
<1>3. /\ c \in Campaigns /\ bought[req[h].payment] = {c} /\ campaign[c] # "NONE" /\ endAt[c] # {}
  BY <1>1, <1>2 DEF TypeOK, Booked
<1> QED
  BY <1>1, <1>2, <1>3 DEF VerifyCommit

LEMMA BookedStep == TypeOK /\ Booked /\ [Next]_vars => Booked'
<1> SUFFICES ASSUME TypeOK, Booked, [Next]_vars PROVE Booked'
  OBVIOUS
<1> USE DEF row, saves, orders
<1>1. ASSUME NEW h \in Handlers, NEW c \in Campaigns, NEW end \in Ends, CreateCampaign(h, c, end) PROVE Booked'
  <2>1. /\ req'[h].campaign = c
        /\ \A g \in Handlers : g # h => req'[g] = req[g]
    BY <1>1, StartMoves DEF CreateCampaign
  <2>2. \A d \in Campaigns : /\ campaign'[d] = IF d = c THEN "PENDING_PAYMENT" ELSE campaign[d]
                            /\ endAt'[d] = IF d = c THEN {end} ELSE endAt[d]
    BY <1>1 DEF CreateCampaign, TypeOK
  <2>3. \A p \in Payments : \A d \in bought'[p] : bought'[p] = {d} /\ campaign'[d] # "NONE"
    BY <1>1, <2>2 DEF CreateCampaign, Booked, TypeOK
  <2>4. \A g \in Handlers : req'[g].pc = "order" => campaign'[req'[g].campaign] # "NONE"
    BY <2>1, <2>2, RequestKinds DEF Booked
  <2> QED
    BY <2>2, <2>3, <2>4 DEF Booked
<1>2. ASSUME NEW h \in Handlers, NEW p \in Payments, CreatePayment(h, p) PROVE Booked'
  <2>1. req[h].campaign \in Campaigns /\ campaign[req[h].campaign] # "NONE"
    BY <1>2, RequestKinds DEF CreatePayment, Booked
  <2>2. \A g \in Handlers : req'[g] = req[g] \/ req'[g].pc # "order"
    BY <1>2, FinishMoves DEF CreatePayment
  <2> QED
    BY <1>2, <2>1, <2>2, BookedOrder DEF CreatePayment
<1>3. ASSUME NEW h \in Handlers, NEW p \in Payments, NEW c \in Campaigns, CreateOrder(h, p, c) PROVE Booked'
  BY <1>3, BookedOrder DEF CreateOrder
<1>4. ASSUME NEW h \in Handlers, VerifyCommit(h) PROVE Booked'
  <2>1. \A g \in Handlers : req'[g] = req[g] \/ req'[g].pc # "order"
    BY <1>4, FinishMoves DEF VerifyCommit
  <2>2. UNCHANGED <<endAt, bought>>
    BY <1>4 DEF VerifyCommit
  <2>3. PICK c \in Campaigns : campaign[c] # "NONE" /\ campaign' = [campaign EXCEPT ![c] = "ACTIVE"]
    BY <1>4, VerifyEffect
  <2>4. \A d \in Campaigns : campaign'[d] = IF d = c THEN "ACTIVE" ELSE campaign[d]
    BY <2>3 DEF TypeOK
  <2> QED
    BY <2>1, <2>2, <2>3, <2>4, BookedKept
<1>5. ASSUME NEW h \in Handlers, Finish(h), UNCHANGED <<campaign, endAt, bought>> PROVE Booked'
  BY <1>5, BookedKept, FinishMoves
<1>6. ASSUME NEW h \in Handlers,
             UpdatePoint(h) \/ RadarShow(h) \/ SaveCommit(h) \/ UnsaveCommit(h) \/ VerifyRefused(h) \/ Fail(h)
      PROVE  Booked'
  BY <1>5, <1>6 DEF UpdatePoint, RadarShow, SaveCommit, UnsaveCommit, VerifyRefused, Fail
<1>7. ASSUME NEW h \in Handlers, NEW request, Start(h, request), request.pc # "order",
             UNCHANGED <<campaign, endAt, bought>>
      PROVE  Booked'
  BY <1>7, BookedKept, StartMoves
<1>8. ASSUME NEW h \in Handlers,
             \/ \E times \in [start : Times, end : Times], to \in Places : UpdateRow(h, times, to)
             \/ RadarFind(h)
             \/ \E p \in Payments : VerifyRead(h, p)
      PROVE  Booked'
  BY <1>7, <1>8 DEF UpdateRow, RadarFind, VerifyRead
<1>9. ASSUME NEW h \in Handlers, NEW user \in Users, SaveUpsert(h, user) \/ UnsaveDelete(h, user) PROVE Booked'
  <2>1. PICK pc \in {"save", "unsave"} : Start(h, [pc |-> pc, user |-> user, found |-> user \in saved])
    BY <1>9 DEF SaveUpsert, UnsaveDelete
  <2>2. req'[h].pc = pc /\ \A g \in Handlers : g # h => req'[g] = req[g]
    BY <2>1, StartMoves
  <2>3. UNCHANGED <<campaign, endAt, bought>>
    BY <1>9 DEF SaveUpsert, UnsaveDelete
  <2> QED
    BY <2>2, <2>3, BookedKept
<1>10. CASE UNCHANGED vars
  BY <1>10, BookedKept DEF vars
<1> QED
  BY <1>1, <1>2, <1>3, <1>4, <1>6, <1>8, <1>9, <1>10 DEF Next

LEMMA BookedHolds == Spec => [](TypeOK /\ Booked)
BY TypeInit, TypeStep, BookedInit, BookedStep, PTL DEF Spec

(* A campaign or a payment changes in four ways.                            *)
LEMMA OrdersChange ==
  ASSUME TypeOK, Booked, [Next]_vars
  PROVE  \/ UNCHANGED orders
         \/ \E c \in Campaigns, end \in Ends :
              /\ campaign[c] = "NONE" /\ campaign' = [campaign EXCEPT ![c] = "PENDING_PAYMENT"]
              /\ endAt' = [endAt EXCEPT ![c] = {end}] /\ UNCHANGED <<featured, payment, bought>>
         \/ \E p \in Payments, c \in Campaigns : Ordered(p, c) /\ UNCHANGED <<featured, campaign, endAt>>
         \/ \E h \in Handlers : VerifyRefused(h)
         \/ \E h \in Handlers : VerifyCommit(h)
<1> USE DEF row, saves, orders
<1>1. ASSUME NEW h \in Handlers, NEW p \in Payments, CreatePayment(h, p)
      PROVE  \E c \in Campaigns : Ordered(p, c)
  BY <1>1, RequestKinds DEF CreatePayment
<1>2. ASSUME NEW h \in Handlers,
             \/ \E times \in [start : Times, end : Times], to \in Places : UpdateRow(h, times, to)
             \/ UpdatePoint(h) \/ RadarFind(h) \/ RadarShow(h)
             \/ \E user \in Users : SaveUpsert(h, user) \/ UnsaveDelete(h, user)
             \/ SaveCommit(h) \/ UnsaveCommit(h)
             \/ \E p \in Payments : VerifyRead(h, p)
             \/ Fail(h)
      PROVE  UNCHANGED orders
  BY <1>2 DEF UpdateRow, UpdatePoint, RadarFind, RadarShow, SaveUpsert, UnsaveDelete,
              SaveCommit, UnsaveCommit, VerifyRead, Fail
<1>3. ASSUME NEW h \in Handlers, NEW c \in Campaigns, NEW end \in Ends, CreateCampaign(h, c, end)
      PROVE  /\ campaign[c] = "NONE" /\ campaign' = [campaign EXCEPT ![c] = "PENDING_PAYMENT"]
             /\ endAt' = [endAt EXCEPT ![c] = {end}] /\ UNCHANGED <<featured, payment, bought>>
  BY <1>3 DEF CreateCampaign
<1>4. ASSUME NEW h \in Handlers, NEW p \in Payments, CreatePayment(h, p) \/ \E c \in Campaigns : CreateOrder(h, p, c)
      PROVE  \E c \in Campaigns : Ordered(p, c) /\ UNCHANGED <<featured, campaign, endAt>>
  BY <1>1, <1>4 DEF CreatePayment, CreateOrder
<1>5. CASE UNCHANGED vars
  BY <1>5 DEF vars
<1> QED
  BY <1>2, <1>3, <1>4, <1>5 DEF Next

LEMMA FeaturedStep ==
  ASSUME TypeOK, Booked, [Next]_vars
  PROVE  /\ Backed => Backed'
         /\ Paid => Paid' \/ \E h \in Handlers : RefusedLater(h)
<1>1. CASE UNCHANGED orders
  BY <1>1 DEF orders, Backed, Paid, Active
<1>2. ASSUME NEW c \in Campaigns, NEW end \in Ends,
             campaign[c] = "NONE", campaign' = [campaign EXCEPT ![c] = "PENDING_PAYMENT"],
             endAt' = [endAt EXCEPT ![c] = {end}], UNCHANGED <<featured, payment, bought>>
      PROVE  (Backed => Backed') /\ (Paid => Paid')
  <2>1. Active' = Active /\ c \notin Active
    BY <1>2 DEF Active, TypeOK
  <2>2. \A d \in Active : endAt'[d] = endAt[d]
    BY <1>2, <2>1 DEF TypeOK, Active
  <2>3. Backed => Backed'
    BY <1>2, <2>1, <2>2 DEF Backed
  <2> QED
    BY <1>2, <2>1, <2>3 DEF Paid
<1>3. ASSUME NEW p \in Payments, NEW c \in Campaigns, Ordered(p, c), UNCHANGED <<featured, campaign, endAt>>
      PROVE  (Backed => Backed') /\ (Paid => Paid')
  <2>1. \A q \in Payments : payment[q] = "SUCCESS" => payment'[q] = "SUCCESS" /\ bought'[q] = bought[q]
    BY <1>3 DEF Ordered, TypeOK
  <2>2. Active' = Active
    BY <1>3 DEF Active
  <2>3. Paid => Paid'
    BY <2>1, <2>2 DEF Paid
  <2> QED
    BY <1>3, <2>2, <2>3 DEF Backed
<1>4. ASSUME NEW h \in Handlers, VerifyRefused(h), ~RefusedLater(h) PROVE (Backed => Backed') /\ (Paid => Paid')
  <2>1. \A q \in Payments : payment[q] = "SUCCESS" => payment'[q] = "SUCCESS"
    BY <1>4 DEF VerifyRefused, RefusedLater, TypeOK
  <2>2. UNCHANGED <<featured, campaign, endAt, bought>> /\ Active' = Active
    BY <1>4 DEF VerifyRefused, Active
  <2>3. Paid => Paid'
    BY <2>1, <2>2 DEF Paid
  <2> QED
    BY <2>2, <2>3 DEF Backed
<1>5. ASSUME NEW h \in Handlers, VerifyRefused(h) PROVE Backed => Backed'
  BY <1>5 DEF VerifyRefused, Backed, Active
<1>6. ASSUME NEW h \in Handlers, VerifyCommit(h) PROVE (Backed => Backed') /\ (Paid => Paid')
  <2>1. PICK p \in Payments, c \in Campaigns :
          /\ bought[p] = {c} /\ campaign[c] # "NONE" /\ endAt[c] # {}
          /\ campaign' = [campaign EXCEPT ![c] = "ACTIVE"] /\ featured' = endAt[c]
          /\ payment' = [payment EXCEPT ![p] = "SUCCESS"]
    BY <1>6, VerifyEffect
  <2>2. UNCHANGED <<endAt, bought>>
    BY <1>6 DEF VerifyCommit
  <2>3. Active' = Active \union {c}
    BY <2>1 DEF Active, TypeOK
  <2>4. \A q \in Payments : payment'[q] = IF q = p THEN "SUCCESS" ELSE payment[q]
    BY <2>1 DEF TypeOK
  <2>5. Paid => Paid'
    BY <2>1, <2>2, <2>3, <2>4 DEF Paid
  <2>6. Backed'
    BY <2>1, <2>2, <2>3 DEF Backed
  <2> QED
    BY <2>5, <2>6
<1> QED
  BY <1>1, <1>2, <1>3, <1>4, <1>5, <1>6, OrdersChange

(* A gathering is featured by an active campaign only, and a campaign is    *)
(* active for a payment that succeeded, unless that is refused later.       *)
THEOREM FeaturedIsPaidFor == Spec => FeaturedIsPaid
<1>1. TypeOK /\ Booked /\ [Next]_vars =>
        [/\ Backed => Backed'
         /\ Paid => Paid' \/ \E h \in Handlers : RefusedLater(h)]_vars
  BY FeaturedStep
<1> QED
  BY <1>1, BookedHolds, PTL DEF Spec, FeaturedIsPaid
=============================================================================
