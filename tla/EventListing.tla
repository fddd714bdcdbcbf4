---------------------------- MODULE EventListing -----------------------------
(***************************************************************************)
(* What one gathering shows of itself: its schedule, its place and the     *)
(* point the radar searches by, the counter of those who saved it, and the *)
(* paid campaigns that feature it.                                         *)
(*                                                                         *)
(* A payment is verified by the provider between two statements of         *)
(* verifyPayment.  The one provider there is, MockPaymentProvider, accepts *)
(* every request the controller lets through; a provider that may refuse   *)
(* is what its interface allows.  Payments without a campaign change       *)
(* nothing else and are left out.                                          *)
(***************************************************************************)
EXTENDS Integers, FiniteSets

CONSTANTS Users,      \* those who save the gathering
          Campaigns, Payments,  \* those that may ever be created: bounds
          Ends,       \* the dates campaigns may end at
          Places,
          Times,      \* minutes since midnight, as an editor may give them
          Handlers,   \* requests in progress at one time
          MaxCount,   \* the counter stays within -MaxCount..MaxCount: a bound
          MayRefuse   \* whether the provider may refuse a payment

ASSUME FiniteAssumption == IsFiniteSet(Users) /\ IsFiniteSet(Handlers)
ASSUME TimesAssumption == Times \subseteq Nat
ASSUME MaxCountAssumption == MaxCount \in Nat
ASSUME MayRefuseAssumption == MayRefuse \in BOOLEAN

VARIABLES schedule,   \* of the row of the event: startTime and endTime
          place,      \* latitude and longitude
          point,      \* the PostGIS point of the same row
          saved,      \* the users with a savedEvent row
          saveCount,
          featured,   \* the dates of featuredUntil, none unless isFeatured
          campaign,   \* campaign[c]: its status
          endAt,      \* endAt[c]: the date it ends at, none before it is created
          payment,    \* payment[p]: its status
          bought,     \* bought[p]: the campaign it pays for
          req         \* req[h]: the request handler h works on

row == <<schedule, place, point>>
saves == <<saved, saveCount>>
orders == <<featured, campaign, endAt, payment, bought>>
vars == <<row, saves, orders, req>>

Request == [pc : {"point", "radar"}, place : Places]
             \union [pc : {"save", "unsave"}, user : Users, found : BOOLEAN]
             \union [pc : {"order"}, campaign : Campaigns]
             \union [pc : {"verify"}, payment : Payments]
Idle == [pc |-> "idle"]

(* validateSingleDaySchedule: hours are parsed and not bounded, and the     *)
(* duration decides.                                                        *)
Valid(start, end) == start < end /\ end - start <= 480

(* The check constraint of the table. *)
SingleDayCheck(times) == times.start < times.end /\ times.end - times.start <= 480

Schedules == {times \in [start : Times, end : Times] : Valid(times.start, times.end)}

TypeOK ==
  /\ schedule \in Schedules /\ place \in Places /\ point \in Places
  /\ saved \in SUBSET Users /\ saveCount \in Int
  /\ featured \in SUBSET Ends
  /\ campaign \in [Campaigns -> {"NONE", "PENDING_PAYMENT", "ACTIVE"}]
  /\ endAt \in [Campaigns -> SUBSET Ends]
  /\ payment \in [Payments -> {"NONE", "PENDING", "SUCCESS", "FAILED"}]
  /\ bought \in [Payments -> SUBSET Campaigns]
  /\ req \in [Handlers -> Request \union {Idle}]

(* createEvent, with the point set in its transaction *)
Init ==
  /\ schedule \in Schedules /\ place \in Places /\ point = place
  /\ saved = {} /\ saveCount = 0
  /\ featured = {}
  /\ campaign = [c \in Campaigns |-> "NONE"] /\ endAt = [c \in Campaigns |-> {}]
  /\ payment = [p \in Payments |-> "NONE"] /\ bought = [p \in Payments |-> {}]
  /\ req = [h \in Handlers |-> Idle]

Start(h, request) == req[h].pc = "idle" /\ req' = [req EXCEPT ![h] = request]
Finish(h) == req' = [req EXCEPT ![h] = Idle]

-----------------------------------------------------------------------------
(* updateEvent: the trigger of the table moves the point along with the     *)
(* place, and a second statement sets it again.                             *)

(* Mutant: the trigger does not fire on an update. *)
UpdateRow_NoTrigger(h, times, to) ==
  /\ Valid(times.start, times.end) /\ SingleDayCheck(times)
  /\ schedule' = times /\ place' = to
  /\ Start(h, [pc |-> "point", place |-> to])
  /\ UNCHANGED <<point, saves, orders>>

UpdateRow(h, times, to) ==
  /\ Valid(times.start, times.end) /\ SingleDayCheck(times)
  /\ schedule' = times /\ place' = to /\ point' = to
  /\ Start(h, [pc |-> "point", place |-> to])
  /\ UNCHANGED <<saves, orders>>

UpdatePoint(h) ==
  /\ req[h].pc = "point"
  /\ point' = req[h].place
  /\ Finish(h)
  /\ UNCHANGED <<schedule, place, saves, orders>>

-----------------------------------------------------------------------------
(* getRadarEvents: gatherings are found, and their distances measured, by   *)
(* the point in one query, and their rows are read in another.              *)

RadarFind(h) ==
  /\ Start(h, [pc |-> "radar", place |-> point])
  /\ UNCHANGED <<row, saves, orders>>

RadarShow(h) ==
  /\ req[h].pc = "radar"
  /\ Finish(h)
  /\ UNCHANGED <<row, saves, orders>>

-----------------------------------------------------------------------------
(* saveEvent and unsaveEvent, each a transaction of two statements: the     *)
(* first takes the savedEvent row, the second the counter.                  *)

(* A transaction has written, or is about to delete, the user's row. *)
RowHeld(user) ==
  \E h \in Handlers : /\ req[h].pc \in {"save", "unsave"} /\ req[h].user = user
                      /\ req[h].pc = "unsave" => req[h].found

(* An upsert waits for whoever holds the row. *)
SaveUpsert(h, user) ==
  /\ ~RowHeld(user)
  /\ Start(h, [pc |-> "save", user |-> user, found |-> user \in saved])
  /\ UNCHANGED <<row, saves, orders>>

(* Mutant: the rows found are not locked. *)
UnsaveDelete_NoLock(h, user) ==
  /\ Start(h, [pc |-> "unsave", user |-> user, found |-> user \in saved])
  /\ UNCHANGED <<row, saves, orders>>

(* A deletion waits for the holder of a row it can see, and passes by one   *)
(* that is not committed.                                                   *)
UnsaveDelete(h, user) ==
  /\ user \in saved => ~RowHeld(user)
  /\ Start(h, [pc |-> "unsave", user |-> user, found |-> user \in saved])
  /\ UNCHANGED <<row, saves, orders>>

SaveCommit(h) ==
  /\ req[h].pc = "save" /\ saveCount < MaxCount
  /\ saved' = saved \union {req[h].user} /\ saveCount' = saveCount + 1
  /\ Finish(h)
  /\ UNCHANGED <<row, orders>>

UnsaveCommit(h) ==
  /\ req[h].pc = "unsave" /\ saveCount > -MaxCount
  /\ saved' = IF req[h].found THEN saved \ {req[h].user} ELSE saved
  /\ saveCount' = saveCount - 1
  /\ Finish(h)
  /\ UNCHANGED <<row, orders>>

-----------------------------------------------------------------------------
(* createCampaign, createPayment and verifyPayment                          *)

CreateCampaign(h, c, end) ==
  /\ campaign[c] = "NONE"
  /\ campaign' = [campaign EXCEPT ![c] = "PENDING_PAYMENT"]
  /\ endAt' = [endAt EXCEPT ![c] = {end}]
  /\ Start(h, [pc |-> "order", campaign |-> c])
  /\ UNCHANGED <<row, saves, featured, payment, bought>>

Ordered(p, c) ==
  /\ payment[p] = "NONE"
  /\ payment' = [payment EXCEPT ![p] = "PENDING"]
  /\ bought' = [bought EXCEPT ![p] = {c}]

CreatePayment(h, p) ==
  /\ req[h].pc = "order"
  /\ Ordered(p, req[h].campaign)
  /\ Finish(h)
  /\ UNCHANGED <<row, saves, featured, campaign, endAt>>

(* The order endpoint takes any campaign there is. *)
CreateOrder(h, p, c) ==
  /\ req[h].pc = "idle" /\ campaign[c] # "NONE"
  /\ Ordered(p, c)
  /\ UNCHANGED <<row, saves, featured, campaign, endAt, req>>

VerifyRead(h, p) ==
  /\ payment[p] # "NONE"
  /\ Start(h, [pc |-> "verify", payment |-> p])
  /\ UNCHANGED <<row, saves, orders>>

(* Whatever the status has become. *)
VerifyRefused(h) ==
  /\ MayRefuse
  /\ req[h].pc = "verify"
  /\ payment' = [payment EXCEPT ![req[h].payment] = "FAILED"]
  /\ Finish(h)
  /\ UNCHANGED <<row, saves, featured, campaign, endAt, bought>>

(* Mutant: the payment is not marked. *)
VerifyCommit_Unmarked(h) ==
  /\ req[h].pc = "verify"
  /\ \E c \in bought[req[h].payment] :
       /\ campaign' = [campaign EXCEPT ![c] = "ACTIVE"]
       /\ featured' = endAt[c]
  /\ Finish(h)
  /\ UNCHANGED <<row, saves, endAt, payment, bought>>

VerifyCommit(h) ==
  /\ req[h].pc = "verify"
  /\ payment' = [payment EXCEPT ![req[h].payment] = "SUCCESS"]
  /\ \E c \in bought[req[h].payment] :
       /\ campaign' = [campaign EXCEPT ![c] = "ACTIVE"]
       /\ featured' = endAt[c]
  /\ Finish(h)
  /\ UNCHANGED <<row, saves, endAt, bought>>

-----------------------------------------------------------------------------
(* A process ends, or a store refuses: what is not committed is undone.     *)
Fail(h) ==
  /\ req[h].pc # "idle"
  /\ Finish(h)
  /\ UNCHANGED <<row, saves, orders>>

Next ==
  \E h \in Handlers :
    \/ \E times \in [start : Times, end : Times], to \in Places : UpdateRow(h, times, to)
    \/ UpdatePoint(h) \/ RadarFind(h) \/ RadarShow(h)
    \/ \E user \in Users : SaveUpsert(h, user) \/ UnsaveDelete(h, user)
    \/ SaveCommit(h) \/ UnsaveCommit(h)
    \/ \E c \in Campaigns, end \in Ends : CreateCampaign(h, c, end)
    \/ \E p \in Payments : CreatePayment(h, p) \/ VerifyRead(h, p)
    \/ \E p \in Payments, c \in Campaigns : CreateOrder(h, p, c)
    \/ VerifyRefused(h) \/ VerifyCommit(h)
    \/ Fail(h)

Spec == Init /\ [][Next]_vars

-----------------------------------------------------------------------------
(* Properties *)

(* The counter leaves the number of those who saved the gathering only when *)
(* it is saved by somebody who had saved it, or unsaved by somebody who was *)
(* seen not to have (event-attendees.service.ts, saveEvent, unsaveEvent).   *)
Drift == saveCount - Cardinality(saved)
SavedAgain(h) == SaveCommit(h) /\ req[h].found
UnsavedInVain(h) == UnsaveCommit(h) /\ ~req[h].found
SaveCountTracks ==
  [][Drift' = Drift \/ \E h \in Handlers : SavedAgain(h) \/ UnsavedInVain(h)]_vars

(* The radar looks for a gathering where it takes place, until an editor's  *)
(* second statement comes after the first one of another; and the distance  *)
(* it tells is that of the place it shows, unless the gathering is moved    *)
(* between the two queries (updateEvent, getRadarEvents).                   *)
Together == place = point
Answering == {h \in Handlers : req[h].pc = "radar"}
Told == \A h \in Answering : req[h].place = place
PointFollowsPlace ==
  [][/\ Together => \/ Together'
                    \/ \E h \in Handlers : UpdatePoint(h) /\ req[h].place # place
     /\ Together /\ Told => \/ Told'
                            \/ Answering # {} /\ place' # place]_vars

(* A gathering is featured up to the end of an active campaign, and only    *)
(* while there is one; an active campaign has a payment that succeeded,     *)
(* unless that payment is verified again and refused (verifyPayment).       *)
Active == {c \in Campaigns : campaign[c] = "ACTIVE"}
Backed ==
  /\ featured = {} <=> Active = {}
  /\ featured # {} => \E c \in Active : featured = endAt[c]
Paid == \A c \in Active : \E p \in Payments : payment[p] = "SUCCESS" /\ bought[p] = {c}
RefusedLater(h) == VerifyRefused(h) /\ payment[req[h].payment] = "SUCCESS"
FeaturedIsPaid ==
  [][/\ Backed => Backed'
     /\ Paid => Paid' \/ \E h \in Handlers : RefusedLater(h)]_vars

(* schema.prisma:589 "startTime and endTime share one calendar date".       *)
OneDate == schedule.start \div 1440 = schedule.end \div 1440
=============================================================================
