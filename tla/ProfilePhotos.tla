---------------------------- MODULE ProfilePhotos ----------------------------
(***************************************************************************)
(* The photos of one member: addPhoto, deletePhoto and setPrimaryPhoto of  *)
(* users.service.ts over the profile_photos rows and their partial unique  *)
(* index idx_profile_photos_one_primary.                                   *)
(*                                                                         *)
(* Each operation reads before its transaction and decides by what it      *)
(* read.  A transaction holds the rows it has written until it commits;    *)
(* its writes are seen at the commit, where the index may reject them.  An *)
(* updateMany finds its rows when it starts and may then have to wait for  *)
(* some of them.  Which active photo a deletion promotes depends on the    *)
(* positions, which addPhoto and reorderPhotos set at will: here it is any *)
(* of them.                                                                *)
(***************************************************************************)
EXTENDS Integers, FiniteSets

CONSTANTS Photos,      \* ids of the rows that may ever be created: a bound
          Editors,     \* requests in progress at one time
          Limit        \* 6 in the code

ASSUME PhotosAssumption == IsFiniteSet(Photos)
ASSUME EditorsAssumption == IsFiniteSet(Editors) /\ Editors # {}
ASSUME LimitAssumption == Limit \in Nat \ {0}

VARIABLES status,     \* status[p]: "NONE" where there is no row
          isPrimary,  \* the photos whose row says is_primary, deleted ones too
          edit        \* edit[h]: the operation handler h works on

photosVars == <<status, isPrimary, edit>>

Pcs == {"add", "addPrimary", "addDemote", "create",   \* addPhoto
        "delete", "find", "promote",                  \* deletePhoto
        "setPrimary", "setDemote", "set"}             \* setPrimaryPhoto

Edit == [pc : Pcs,
         photo : SUBSET Photos,    \* the photo to delete or to set, none to add
         was : BOOLEAN,            \* that it was primary when it was read
         next : SUBSET Photos,     \* the rows found, to be written next
         rows : SUBSET Photos]     \* the rows this transaction has written
NoEdit == [pc |-> "idle"]

PhotosTypeOK ==
  /\ status \in [Photos -> {"NONE", "ACTIVE", "DELETED"}]
  /\ isPrimary \in SUBSET Photos
  /\ edit \in [Editors -> Edit \union {NoEdit}]

Rows == {p \in Photos : status[p] # "NONE"}
Active == {p \in Photos : status[p] = "ACTIVE"}
Held(p) == \E h \in Editors : edit[h].pc # "idle" /\ p \in edit[h].rows

(* The registration creates the first photo (auth.service.ts). *)
PhotosInit ==
  /\ \E first \in Photos :
       /\ status = [p \in Photos |-> IF p = first THEN "ACTIVE" ELSE "NONE"]
       /\ isPrimary = {first}
  /\ edit = [h \in Editors |-> NoEdit]

Begin(h, pc, photo, was) ==
  /\ edit[h].pc = "idle"
  /\ edit' = [edit EXCEPT ![h] = [pc |-> pc, photo |-> photo, was |-> was, next |-> {}, rows |-> {}]]
  /\ UNCHANGED <<status, isPrimary>>
FinishEdit(h) == edit' = [edit EXCEPT ![h] = NoEdit]

(* idx_profile_photos_one_primary *)
Admits(active, primary) == \A p, q \in active \intersect primary : p = q

(* A transaction makes its writes visible, or the index rejects them. *)
Commit(h, newStatus, newPrimary) ==
  /\ IF Admits({p \in Photos : newStatus[p] = "ACTIVE"}, newPrimary)
       THEN status' = newStatus /\ isPrimary' = newPrimary
       ELSE UNCHANGED <<status, isPrimary>>
  /\ FinishEdit(h)

(* updateMany of all the rows of the member, in the two steps it takes. *)
FindRows(h, from, to) ==
  /\ edit[h].pc = from
  /\ edit' = [edit EXCEPT ![h].pc = to, ![h].next = Rows]
  /\ UNCHANGED <<status, isPrimary>>
DemoteRows(h, from, to) ==
  /\ edit[h].pc = from
  /\ \A p \in edit[h].next : ~Held(p)
  /\ edit' = [edit EXCEPT ![h].pc = to, ![h].next = {}, ![h].rows = edit[h].next]
  /\ UNCHANGED <<status, isPrimary>>

-----------------------------------------------------------------------------
(* addPhoto; wanted holds the isPrimary of the DTO, if there is one *)

(* Mutant: > for >= in the check of the limit. *)
AddRead_OffByOne(h, wanted) ==
  /\ Cardinality(Active) <= Limit
  /\ Begin(h, IF TRUE \in wanted \/ (wanted = {} /\ Active = {}) THEN "addPrimary" ELSE "add", {}, FALSE)

AddRead(h, wanted) ==
  /\ Cardinality(Active) < Limit
  /\ Begin(h, IF TRUE \in wanted \/ (wanted = {} /\ Active = {}) THEN "addPrimary" ELSE "add", {}, FALSE)

AddDemote(h) ==
  \/ FindRows(h, "addPrimary", "addDemote")
  \/ DemoteRows(h, "addDemote", "create")

AddCommit(h, p) ==
  /\ edit[h].pc \in {"add", "create"}
  /\ status[p] = "NONE"
  /\ Commit(h, [status EXCEPT ![p] = "ACTIVE"],
            IF edit[h].pc = "create" THEN (isPrimary \ edit[h].rows) \union {p} ELSE isPrimary)

-----------------------------------------------------------------------------
(* deletePhoto *)

DeleteRead(h, p) == status[p] = "ACTIVE" /\ Begin(h, "delete", {p}, p \in isPrimary)

Deleted(h) == [p \in Photos |-> IF p \in edit[h].photo THEN "DELETED" ELSE status[p]]

(* The row of the photo; the commit follows unless it was the primary one. *)
DeleteWrite(h) ==
  /\ edit[h].pc = "delete"
  /\ \A p \in edit[h].photo : ~Held(p)
  /\ IF edit[h].was
       THEN /\ edit' = [edit EXCEPT ![h].pc = "find", ![h].rows = edit[h].photo]
            /\ UNCHANGED <<status, isPrimary>>
       ELSE Commit(h, Deleted(h), isPrimary)

(* Mutant: no photo takes the place of the deleted one. *)
DeleteFind_NoPromotion(h) ==
  /\ edit[h].pc = "find"
  /\ Commit(h, Deleted(h), isPrimary)

(* The next active photo; without one the transaction commits. *)
DeleteFind(h) ==
  /\ edit[h].pc = "find"
  /\ IF Active \subseteq edit[h].photo
       THEN Commit(h, Deleted(h), isPrimary)
       ELSE /\ \E p \in Active \ edit[h].photo :
                 edit' = [edit EXCEPT ![h].pc = "promote", ![h].next = {p}]
            /\ UNCHANGED <<status, isPrimary>>

DeletePromote(h) ==
  /\ edit[h].pc = "promote"
  /\ \A p \in edit[h].next : ~Held(p)
  /\ Commit(h, Deleted(h), isPrimary \union edit[h].next)

-----------------------------------------------------------------------------
(* setPrimaryPhoto *)

SetRead(h, p) == status[p] = "ACTIVE" /\ Begin(h, "setPrimary", {p}, FALSE)

SetDemote(h) ==
  \/ FindRows(h, "setPrimary", "setDemote")
  \/ DemoteRows(h, "setDemote", "set")

SetCommit(h) ==
  /\ edit[h].pc = "set"
  /\ Commit(h, status, (isPrimary \ edit[h].rows) \union edit[h].photo)

(* The database breaks a deadlock, the transaction exceeds its time, or the *)
(* function is killed.                                                      *)
Abort(h) ==
  /\ edit[h].pc # "idle"
  /\ FinishEdit(h)
  /\ UNCHANGED <<status, isPrimary>>

-----------------------------------------------------------------------------
PhotosNext ==
  \E h \in Editors :
    \/ \E wanted \in {{}, {TRUE}, {FALSE}} : AddRead(h, wanted)
    \/ AddDemote(h) \/ (\E p \in Photos : AddCommit(h, p))
    \/ \E p \in Photos : DeleteRead(h, p) \/ SetRead(h, p)
    \/ DeleteWrite(h) \/ DeleteFind(h) \/ DeletePromote(h)
    \/ SetDemote(h) \/ SetCommit(h)
    \/ Abort(h)

PhotosSpec == PhotosInit /\ [][PhotosNext]_photosVars

-----------------------------------------------------------------------------
(* Properties *)

HasPrimary == Active \intersect isPrimary # {}

(* The three races in which a member with photos loses the primary one: a   *)
(* photo that was deleted is made primary, by setPrimaryPhoto or by the     *)
(* deletion of the primary photo, or a photo is deleted that has become the *)
(* primary one since it was read.                                           *)
LossStep ==
  \E h \in Editors :
    \/ SetCommit(h) /\ edit[h].photo \intersect Active = {}
    \/ DeletePromote(h) /\ edit[h].next \intersect (Active \ edit[h].photo) = {}
    \/ DeleteWrite(h) /\ ~edit[h].was /\ edit[h].photo \intersect isPrimary # {}

(* Otherwise a member who has a primary photo keeps one, the same or        *)
(* another, as long as there is an active photo.                            *)
PrimaryKept == [][HasPrimary /\ Active' # {} => HasPrimary' \/ LossStep]_photosVars

(* The limit is checked before the transaction: requests that add photos at *)
(* once pass it, but each by one at most.                                   *)
OvershootBounded == Cardinality(Active) <= Limit + Cardinality(Editors) - 1

(* users.controller.ts:42 "(max 6)": there are never more than six.         *)
WithinLimit == Cardinality(Active) <= Limit
=============================================================================
