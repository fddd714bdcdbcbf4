----------------------------- MODULE VouchEngine -----------------------------
(***************************************************************************)
(* The 3-Peer Trust Engine of one gathering: executeVouch of               *)
(* vouches.service.ts (behind submitVouch and submitVouchByToken), with    *)
(* the other writers of the event's status and of its entry in the Redis   *)
(* geo index: moderateEvent of admin.service.ts and cancelEvent of         *)
(* events.service.ts.                                                      *)
(*                                                                         *)
(* Each runs on a handler and stops at its awaits.  The database is READ   *)
(* COMMITTED: executeVouch reads the event row without a lock and writes   *)
(* values computed from that copy.  From its UPDATE to its end a           *)
(* transaction holds the event row; its writes are seen at the commit.     *)
(* Redis is not part of the transaction: the index changes at once and     *)
(* stays changed when the transaction is rolled back.                      *)
(***************************************************************************)
EXTENDS Integers, FiniteSets

CONSTANTS Users, Organizer,
          Handlers,     \* requests in progress at one time
          Required,     \* requiredVouches, 3 in the code
          ModerateTo,   \* the statuses an administrator sets
          MayFail       \* whether transactions roll back and functions are killed

EventStatuses == {"DRAFT", "PENDING_REVIEW", "PENDING_VOUCH", "PUBLISHED", "REJECTED",
                  "CANCELLED", "COMPLETED"}

ASSUME UsersAssumption == Organizer \in Users /\ IsFiniteSet(Users)
ASSUME RequiredAssumption == Required \in Nat \ {0}
ASSUME SwitchAssumption == ModerateTo \subseteq EventStatuses /\ MayFail \in BOOLEAN

VARIABLES status, vouchesCount, published,   \* the event row; published: publishedAt is set
          vouchers,   \* the users with an event_vouches row
          score,      \* peerVouchScore the host owes to this gathering
          audit,      \* the statuses with an audit_logs row EVENT_MODERATE_<status>
          geo,        \* whether koodam:events:geo holds the event
          req         \* req[h]: the request handler h works on

row == <<status, vouchesCount, published>>
vars == <<row, vouchers, score, audit, geo, req>>

Pcs == {"idle", "read", "inserted", "updated", "indexed",   \* executeVouch
        "moderating", "moderated",                          \* moderateEvent
        "cancelling"}                                       \* cancelEvent

Request == [pc : Pcs, voucher : Users,                           \* a vouch, and its copy
            status : EventStatuses, count : Nat, published : BOOLEAN]  \* of the event row
Idle == [pc |-> "idle", voucher |-> Organizer,
         status |-> "PENDING_VOUCH", count |-> 0, published |-> FALSE]

TypeOK ==
  /\ status \in EventStatuses
  /\ vouchesCount \in Nat
  /\ published \in BOOLEAN
  /\ vouchers \in SUBSET Users
  /\ score \in Nat
  /\ audit \in SUBSET EventStatuses
  /\ geo \in BOOLEAN
  /\ req \in [Handlers -> Request]

EventLocked == \E h \in Handlers : req[h].pc \in {"updated", "indexed", "moderating", "moderated"}

(* createEvent *)
Init ==
  /\ status = "PENDING_VOUCH" /\ vouchesCount = 0 /\ published = FALSE
  /\ vouchers = {} /\ score = 0 /\ audit = {} /\ geo = FALSE
  /\ req = [h \in Handlers |-> Idle]

Goto(h, pc) == req' = [req EXCEPT ![h].pc = pc]
Finish(h) == req' = [req EXCEPT ![h] = Idle]

-----------------------------------------------------------------------------
(* executeVouch *)

(* Mutant: no unique index on (event, voucher). *)
Inserting_NoUniqueIndex(v) == FALSE

(* A row of the same voucher that another transaction has inserted but not  *)
(* committed: the unique index makes a second insert wait for its outcome.  *)
Inserting(v) ==
  \E h \in Handlers : req[h].pc \in {"inserted", "updated", "indexed"} /\ req[h].voucher = v

NewCount(h) == req[h].count + 1
Publishing(h) == NewCount(h) >= Required

VouchRead(h, v) ==
  /\ req[h].pc = "idle"
  /\ v # Organizer
  /\ req' = [req EXCEPT ![h] = [pc |-> "read", voucher |-> v, status |-> status,
                                count |-> vouchesCount, published |-> published]]
  /\ UNCHANGED <<row, vouchers, score, audit, geo>>

(* Mutant: a second vouch of one person is not refused. *)
VouchInsert_Again(h) ==
  /\ req[h].pc = "read"
  /\ ~Inserting(req[h].voucher)
  /\ Goto(h, "inserted")
  /\ UNCHANGED <<row, vouchers, score, audit, geo>>

VouchInsert(h) ==
  /\ req[h].pc = "read"
  /\ req[h].voucher \notin vouchers
  /\ ~Inserting(req[h].voucher)
  /\ Goto(h, "inserted")
  /\ UNCHANGED <<row, vouchers, score, audit, geo>>

VouchReject(h) ==
  /\ req[h].pc = "read"
  /\ req[h].voucher \in vouchers
  /\ Finish(h)
  /\ UNCHANGED <<row, vouchers, score, audit, geo>>

VouchUpdate(h) ==
  /\ req[h].pc = "inserted"
  /\ ~EventLocked
  /\ Goto(h, "updated")
  /\ UNCHANGED <<row, vouchers, score, audit, geo>>

VouchIndex(h) ==
  /\ req[h].pc = "updated"
  /\ Publishing(h)
  /\ geo' = TRUE
  /\ Goto(h, "indexed")
  /\ UNCHANGED <<row, vouchers, score, audit>>

(* Mutant: a gathering short of vouches goes back to waiting for them. *)
VouchCommit_Reopens(h) ==
  /\ req[h].pc = (IF Publishing(h) THEN "indexed" ELSE "updated")
  /\ vouchers' = vouchers \union {req[h].voucher}
  /\ vouchesCount' = NewCount(h)
  /\ status' = IF Publishing(h) THEN "PUBLISHED" ELSE "PENDING_VOUCH"
  /\ published' = (Publishing(h) \/ req[h].published)
  /\ score' = IF Publishing(h) THEN score + 1 ELSE score
  /\ Finish(h)
  /\ UNCHANGED <<audit, geo>>

VouchCommit(h) ==
  /\ req[h].pc = (IF Publishing(h) THEN "indexed" ELSE "updated")
  /\ vouchers' = vouchers \union {req[h].voucher}
  /\ vouchesCount' = NewCount(h)
  /\ status' = IF Publishing(h) THEN "PUBLISHED" ELSE req[h].status
  /\ published' = (Publishing(h) \/ req[h].published)
  /\ score' = IF Publishing(h) THEN score + 1 ELSE score
  /\ Finish(h)
  /\ UNCHANGED <<audit, geo>>

-----------------------------------------------------------------------------
(* moderateEvent: the row, the audit entry and the index in one transaction *)

ModerateUpdate(h, s) ==
  /\ req[h].pc = "idle"
  /\ ~EventLocked
  /\ req' = [req EXCEPT ![h].pc = "moderating", ![h].status = s]
  /\ UNCHANGED <<row, vouchers, score, audit, geo>>

(* Mutant: the index is written when a gathering is published only. *)
ModerateIndex_OnlyAdds(h) ==
  /\ req[h].pc = "moderating"
  /\ geo' = (geo \/ req[h].status = "PUBLISHED")
  /\ Goto(h, "moderated")
  /\ UNCHANGED <<row, vouchers, score, audit>>

ModerateIndex(h) ==
  /\ req[h].pc = "moderating"
  /\ geo' = (req[h].status = "PUBLISHED")
  /\ Goto(h, "moderated")
  /\ UNCHANGED <<row, vouchers, score, audit>>

ModerateCommit(h) ==
  /\ req[h].pc = "moderated"
  /\ status' = req[h].status
  /\ audit' = audit \union {req[h].status}
  /\ Finish(h)
  /\ UNCHANGED <<vouchesCount, published, vouchers, score, geo>>

-----------------------------------------------------------------------------
(* cancelEvent: the update commits by itself, the index follows *)

CancelCommit(h) ==
  /\ req[h].pc = "idle"
  /\ ~EventLocked
  /\ status' = "CANCELLED"
  /\ Goto(h, "cancelling")
  /\ UNCHANGED <<vouchesCount, published, vouchers, score, audit, geo>>

CancelIndex(h) ==
  /\ req[h].pc = "cancelling"
  /\ geo' = FALSE
  /\ Finish(h)
  /\ UNCHANGED <<row, vouchers, score, audit>>

(* Redis refuses, the transaction exceeds its time, or the serverless       *)
(* function is killed: the request ends where it is.                        *)
Fail(h) ==
  /\ MayFail
  /\ req[h].pc # "idle"
  /\ Finish(h)
  /\ UNCHANGED <<row, vouchers, score, audit, geo>>

-----------------------------------------------------------------------------
Next ==
  \E h \in Handlers :
    \/ \E v \in Users : VouchRead(h, v)
    \/ VouchInsert(h) \/ VouchReject(h) \/ VouchUpdate(h) \/ VouchIndex(h) \/ VouchCommit(h)
    \/ \E s \in ModerateTo : ModerateUpdate(h, s)
    \/ ModerateIndex(h) \/ ModerateCommit(h)
    \/ CancelCommit(h) \/ CancelIndex(h)
    \/ Fail(h)

Spec == Init /\ [][Next]_vars

-----------------------------------------------------------------------------
(* Properties *)

(* The counter never claims more vouches than people who vouched, although  *)
(* it is computed from a copy of the row and two requests of one person may *)
(* race: it can only fall behind.                                           *)
CountIsBacked == vouchesCount <= Cardinality(vouchers)

(* A gathering is on the radar only if enough people vouched for it or an   *)
(* administrator published it, although transactions write back a status    *)
(* they read earlier.                                                       *)
PublishedIsEarned ==
  status = "PUBLISHED" => "PUBLISHED" \in audit \/ Cardinality(vouchers) >= Required

(* While every vouch under way has read the status as it is, the status     *)
(* changes only because an administrator or the organizer decides so or     *)
(* because enough people have vouched: nothing but a vouch that had read    *)
(* the row before a decision can undo it (executeVouch writes back what it  *)
(* read).                                                                   *)
UpToDate == \A h \in Handlers :
  req[h].pc \in {"read", "inserted", "updated", "indexed"} => req[h].status = status
StatusIsEarned ==
  [][UpToDate => \/ UpToDate' /\ status' = status
                 \/ \E h \in Handlers : ModerateCommit(h) \/ CancelCommit(h)
                 \/ status' = "PUBLISHED" /\ Cardinality(vouchers') >= Required]_vars

(* The host's score rises by at most one for each vouch from the required   *)
(* one on.                                                                  *)
ScoreIsEarned == score > 0 => score + Required <= Cardinality(vouchers) + 1

(* The status the index stands for: that of the transaction which has       *)
(* written the index and not yet committed, or else that of the row.        *)
OnRadar ==
  LET writers == {h \in Handlers : req[h].pc \in {"indexed", "moderated"}}
  IN  IF writers # {}
        THEN \E h \in writers : req[h].pc = "indexed" \/ req[h].status = "PUBLISHED"
        ELSE status = "PUBLISHED"

(* A cancellation that has still to clear the index owes it the agreement. *)
IndexAgrees == (\E h \in Handlers : req[h].pc = "cancelling") \/ (geo <=> OnRadar)

CancelsTooLate(h) == CancelIndex(h) /\ OnRadar
LosesItsIndex(h) == Fail(h) /\ req[h].pc \in {"indexed", "moderated", "cancelling"}
WritesBack(h) ==
  VouchCommit(h) /\ ~Publishing(h) /\ (req[h].status = "PUBLISHED") # (status = "PUBLISHED")

(* The index write of one request and the commit of another may come in     *)
(* either order (events.service.ts:518, vouches.service.ts, admin.service.  *)
(* ts), yet index and status part only by one of three races: a             *)
(* cancellation clears the index of a gathering published after it, a       *)
(* request dies between its index write and its commit (a cancellation,     *)
(* before its index write), or a vouch writes back an outdated status.      *)
IndexTracks ==
  [][IndexAgrees => IndexAgrees' \/ (\E h \in Handlers :
        CancelsTooLate(h) \/ LosesItsIndex(h) \/ WritesBack(h))]_vars

(* What the documents claim, for the runs that refute it.                   *)
AtRest == \A h \in Handlers : req[h].pc = "idle"

(* README.md:57 "Once 3 verified members vouch for the meetup: 1. The       *)
(* backend increments vouches_count and marks the event PUBLISHED" (where   *)
(* nobody has moderated or cancelled it).                                   *)
VouchedIsPublished ==
  AtRest /\ Cardinality(vouchers) >= Required /\ audit = {} /\ status # "CANCELLED"
    => status = "PUBLISHED"

(* README.md:59 "The gathering is ingested into Redis Geospatial Index for  *)
(* instant Map Radar queries", and cancelEvent's comment events.service.ts: *)
(* 517 "Remove from Redis GEO index": at rest the index holds exactly the   *)
(* published gatherings.                                                    *)
IndexMatchesStatus == AtRest => (geo <=> status = "PUBLISHED")
=============================================================================
