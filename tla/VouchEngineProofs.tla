-------------------------- MODULE VouchEngineProofs --------------------------
(***************************************************************************)
(* What the trust engine guarantees for any number of users, handlers and  *)
(* required vouches, with failures.                                        *)
(*                                                                         *)
(* The argument: vouches are never withdrawn, so a copy of the row taken   *)
(* earlier claims no more than the vouches that exist now (SnapshotsOld);  *)
(* and a vouch past its insert is about somebody whose row is not yet      *)
(* committed and about whom no other vouch is past its insert              *)
(* (InsertsExclusive), so its commit adds one voucher for the one it       *)
(* counts.                                                                 *)
(***************************************************************************)
EXTENDS VouchEngine, FiniteSetTheorems, TLAPS

USE UsersAssumption, RequiredAssumption, SwitchAssumption

VouchPcs == {"read", "inserted", "updated", "indexed"}
InsertedPcs == {"inserted", "updated", "indexed"}

LEMMA IdleIsRequest == Idle \in Request
BY DEF Idle, Request, Pcs, EventStatuses

LEMMA VouchersFinite ==
  ASSUME TypeOK PROVE IsFiniteSet(vouchers) /\ Cardinality(vouchers) \in Nat
BY FS_Subset, FS_CardinalityType DEF TypeOK

LEMMA TypeStep == TypeOK /\ [Next]_vars => TypeOK'
<1> SUFFICES ASSUME TypeOK, [Next]_vars PROVE TypeOK'
  OBVIOUS
<1> USE DEF TypeOK, row
<1>1. ASSUME NEW h \in Handlers, NEW v \in Users, VouchRead(h, v) PROVE TypeOK'
  BY <1>1 DEF VouchRead, Request, Pcs
<1>2. ASSUME NEW h \in Handlers,
             VouchInsert(h) \/ VouchUpdate(h) \/ VouchIndex(h) \/ ModerateIndex(h)
      PROVE  TypeOK'
  <2>1. ASSUME NEW pc \in Pcs, Goto(h, pc) PROVE req' \in [Handlers -> Request]
    BY <2>1 DEF Goto, Request
  <2>2. \E pc \in Pcs : Goto(h, pc)
    BY <1>2 DEF VouchInsert, VouchUpdate, VouchIndex, ModerateIndex, Pcs
  <2>3. UNCHANGED <<row, vouchers, score, audit>>
    BY <1>2 DEF VouchInsert, VouchUpdate, VouchIndex, ModerateIndex
  <2>4. geo' \in BOOLEAN
    BY <1>2 DEF VouchInsert, VouchUpdate, VouchIndex, ModerateIndex
  <2> QED
    BY <2>1, <2>2, <2>3, <2>4
<1>3. ASSUME NEW h \in Handlers, VouchReject(h) \/ CancelIndex(h) \/ Fail(h) PROVE TypeOK'
  BY <1>3, IdleIsRequest DEF VouchReject, CancelIndex, Fail, Finish
<1>4. ASSUME NEW h \in Handlers, VouchCommit(h) PROVE TypeOK'
  BY <1>4, IdleIsRequest DEF VouchCommit, Finish, Request, NewCount, Publishing, EventStatuses
<1>5. ASSUME NEW h \in Handlers, NEW s \in ModerateTo, ModerateUpdate(h, s) PROVE TypeOK'
  BY <1>5 DEF ModerateUpdate, Request, Pcs
<1>6. ASSUME NEW h \in Handlers, ModerateCommit(h) PROVE TypeOK'
  BY <1>6, IdleIsRequest DEF ModerateCommit, Finish, Request
<1>7. ASSUME NEW h \in Handlers, CancelCommit(h) PROVE TypeOK'
  BY <1>7 DEF CancelCommit, Goto, Request, Pcs, EventStatuses
<1>8. CASE UNCHANGED vars
  BY <1>8 DEF vars
<1> QED
  BY <1>1, <1>2, <1>3, <1>4, <1>5, <1>6, <1>7, <1>8 DEF Next

(* Every variable keeps its type. *)
THEOREM TypeCorrect == Spec => []TypeOK
<1>1. Init => TypeOK
  <2> SUFFICES ASSUME Init PROVE TypeOK
    OBVIOUS
  <2> req \in [Handlers -> Request]
    BY IdleIsRequest DEF Init
  <2> QED
    BY DEF Init, TypeOK, EventStatuses
<1> QED
  BY <1>1, TypeStep, PTL DEF Spec

-----------------------------------------------------------------------------
Earned == "PUBLISHED" \in audit \/ Cardinality(vouchers) >= Required

(* A copy of the row claims no more than what holds now. *)
SnapshotsOld ==
  \A h \in Handlers :
    req[h].pc \in VouchPcs =>
      /\ req[h].count <= Cardinality(vouchers)
      /\ req[h].status = "PUBLISHED" => Earned

InsertsExclusive ==
  \A h \in Handlers :
    req[h].pc \in InsertedPcs =>
      /\ req[h].voucher \notin vouchers
      /\ \A j \in Handlers :
           req[j].pc \in InsertedPcs /\ req[j].voucher = req[h].voucher => j = h

Claims == CountIsBacked /\ PublishedIsEarned /\ ScoreIsEarned

IInv == TypeOK /\ Claims /\ SnapshotsOld /\ InsertsExclusive

(* A step that leaves the database alone, and takes no handler further into *)
(* a vouch than it was, or gives it a copy of the row as it is.             *)
Quiet(h) ==
  /\ UNCHANGED <<row, vouchers, score, audit>>
  /\ \A j \in Handlers \ {h} : req'[j] = req[j]
  /\ req'[h].pc \in VouchPcs =>
       \/ /\ req'[h].count = req[h].count /\ req'[h].status = req[h].status
          /\ req'[h].voucher = req[h].voucher
          /\ req[h].pc \in VouchPcs
       \/ req'[h].count = vouchesCount /\ req'[h].status = status
  /\ req'[h].pc \in InsertedPcs =>
       /\ req'[h].voucher = req[h].voucher
       /\ \/ req[h].pc \in InsertedPcs
          \/ req[h].voucher \notin vouchers /\ ~Inserting(req[h].voucher)

LEMMA QuietKeepsIInv ==
  ASSUME NEW h \in Handlers, IInv, TypeOK', Quiet(h)
  PROVE  IInv'
<1> USE DEF row
<1>1. Claims'
  BY DEF IInv, Claims, CountIsBacked, PublishedIsEarned, ScoreIsEarned, Quiet
<1>2. SnapshotsOld'
  <2> SUFFICES ASSUME NEW j \in Handlers, req'[j].pc \in VouchPcs
               PROVE  /\ req'[j].count <= Cardinality(vouchers)
                      /\ req'[j].status = "PUBLISHED" => Earned
    BY DEF SnapshotsOld, Earned, Quiet
  <2>1. CASE j # h
    BY <2>1 DEF Quiet, IInv, SnapshotsOld
  <2>2. CASE j = h
    BY <2>2 DEF Quiet, IInv, SnapshotsOld, Claims, CountIsBacked, PublishedIsEarned, Earned
  <2> QED
    BY <2>1, <2>2
<1>3. InsertsExclusive'
  BY DEF Quiet, IInv, InsertsExclusive, Inserting, InsertedPcs
<1> QED
  BY <1>1, <1>2, <1>3 DEF IInv

LEMMA InductiveStep == IInv /\ [Next]_vars => IInv'
<1> SUFFICES ASSUME IInv, [Next]_vars PROVE IInv'
  OBVIOUS
<1> TypeOK /\ TypeOK'
  BY TypeStep DEF IInv
<1> USE DEF row
<1>1. ASSUME NEW h \in Handlers, NEW v \in Users, VouchRead(h, v) PROVE IInv'
  <2>1. Quiet(h)
    BY <1>1 DEF VouchRead, Quiet, TypeOK, VouchPcs, InsertedPcs
  <2> QED
    BY <2>1, QuietKeepsIInv
<1>2. ASSUME NEW h \in Handlers,
             \/ VouchInsert(h) \/ VouchReject(h) \/ VouchUpdate(h) \/ VouchIndex(h)
             \/ ModerateIndex(h) \/ CancelIndex(h) \/ Fail(h)
             \/ \E s \in ModerateTo : ModerateUpdate(h, s)
      PROVE  IInv'
  <2>1. Quiet(h)
    BY <1>2 DEF VouchInsert, VouchReject, VouchUpdate, VouchIndex, ModerateIndex, CancelIndex,
                Fail, ModerateUpdate, Goto, Finish, Idle, Quiet, TypeOK, Request,
                VouchPcs, InsertedPcs
  <2> QED
    BY <2>1, QuietKeepsIInv
<1>3. ASSUME NEW h \in Handlers, VouchCommit(h) PROVE IInv'
  <2> DEFINE n == Cardinality(vouchers)
  <2>1. req[h].pc \in InsertedPcs /\ req[h].pc \in VouchPcs
    BY <1>3 DEF VouchCommit, InsertedPcs, VouchPcs
  <2>2. /\ req[h].voucher \notin vouchers /\ req[h].voucher \in Users
        /\ req[h].count \in Nat /\ req[h].count <= n
        /\ req[h].status = "PUBLISHED" => Earned
    BY <2>1 DEF IInv, InsertsExclusive, SnapshotsOld, TypeOK, Request
  <2>3. vouchers' = vouchers \union {req[h].voucher} /\ audit' = audit
    BY <1>3 DEF VouchCommit
  <2>4. n \in Nat /\ Cardinality(vouchers') = n + 1
    BY <2>2, <2>3, VouchersFinite, FS_AddElement
  <2>5. Earned => Earned'
    BY <2>3, <2>4 DEF Earned
  <2>6. CountIsBacked'
    BY <1>3, <2>2, <2>4 DEF VouchCommit, CountIsBacked, NewCount
  <2>7. Publishing(h) => Cardinality(vouchers') >= Required
    BY <2>2, <2>4 DEF Publishing, NewCount
  <2>8. PublishedIsEarned'
    BY <1>3, <2>2, <2>5, <2>7 DEF VouchCommit, PublishedIsEarned, Earned
  <2>9. ScoreIsEarned'
    <3>1. score \in Nat /\ (score > 0 => score + Required <= n + 1)
      BY DEF TypeOK, IInv, Claims, ScoreIsEarned
    <3>2. CASE Publishing(h)
      <4>1. score' = score + 1
        BY <1>3, <3>2 DEF VouchCommit
      <4> QED
        BY <2>4, <2>7, <3>1, <3>2, <4>1 DEF ScoreIsEarned
    <3>3. CASE ~Publishing(h)
      <4>1. score' = score
        BY <1>3, <3>3 DEF VouchCommit
      <4> QED
        BY <2>4, <3>1, <4>1 DEF ScoreIsEarned
    <3> QED
      BY <3>2, <3>3
  <2>10. \A j \in Handlers : req'[j].pc # "idle" => j # h /\ req'[j] = req[j]
    BY <1>3 DEF VouchCommit, Finish, Idle, TypeOK
  <2>11. SnapshotsOld'
    <3> SUFFICES ASSUME NEW j \in Handlers, req'[j].pc \in VouchPcs
                 PROVE  /\ req'[j].count <= Cardinality(vouchers')
                        /\ req'[j].status = "PUBLISHED" => Earned'
      BY DEF SnapshotsOld
    <3>1. req'[j] = req[j]
      BY <2>10 DEF VouchPcs
    <3>2. req[j].count \in Nat
      BY DEF TypeOK, Request
    <3> QED
      BY <2>4, <2>5, <3>1, <3>2 DEF IInv, SnapshotsOld
  <2>12. InsertsExclusive'
    BY <2>1, <2>3, <2>10 DEF IInv, InsertsExclusive, InsertedPcs
  <2> QED
    BY <2>6, <2>8, <2>9, <2>11, <2>12 DEF IInv, Claims
<1>4. ASSUME NEW h \in Handlers, ModerateCommit(h) PROVE IInv'
  <2>1. /\ UNCHANGED <<vouchesCount, vouchers, score>>
        /\ \A j \in Handlers : req'[j].pc # "idle" => req'[j] = req[j]
    BY <1>4 DEF ModerateCommit, Finish, Idle, TypeOK
  <2>2. Earned => Earned'
    BY <1>4 DEF ModerateCommit, Earned
  <2>3. PublishedIsEarned'
    BY <1>4 DEF ModerateCommit, PublishedIsEarned
  <2> QED
    BY <2>1, <2>2, <2>3 DEF IInv, Claims, CountIsBacked, ScoreIsEarned, SnapshotsOld,
                            InsertsExclusive, VouchPcs, InsertedPcs
<1>5. ASSUME NEW h \in Handlers, CancelCommit(h) PROVE IInv'
  <2>1. /\ UNCHANGED <<vouchesCount, vouchers, score, audit>>
        /\ status' = "CANCELLED"
        /\ \A j \in Handlers : req'[j].pc \in VouchPcs => req'[j] = req[j]
    BY <1>5 DEF CancelCommit, Goto, VouchPcs, TypeOK, Request
  <2> QED
    BY <2>1 DEF IInv, Claims, CountIsBacked, PublishedIsEarned, ScoreIsEarned, SnapshotsOld,
                Earned, InsertsExclusive, VouchPcs, InsertedPcs
<1>6. CASE UNCHANGED vars
  BY <1>6 DEF vars, IInv, Claims, CountIsBacked, PublishedIsEarned, ScoreIsEarned, SnapshotsOld,
              Earned, InsertsExclusive
<1> QED
  BY <1>1, <1>2, <1>3, <1>4, <1>5, <1>6 DEF Next

LEMMA Inductive == Spec => []IInv
<1>1. Init => IInv
  <2> SUFFICES ASSUME Init PROVE IInv
    OBVIOUS
  <2>1. TypeOK
    BY IdleIsRequest DEF Init, TypeOK, EventStatuses
  <2>2. Cardinality(vouchers) \in Nat
    BY <2>1, VouchersFinite
  <2> QED
    BY <2>1, <2>2 DEF Init, IInv, Claims, CountIsBacked, PublishedIsEarned, ScoreIsEarned,
                      SnapshotsOld, InsertsExclusive, Idle, VouchPcs, InsertedPcs
<1> QED
  BY <1>1, InductiveStep, PTL DEF Spec

(* The counter never runs ahead of the vouches. *)
THEOREM CountIsBackedHolds == Spec => []CountIsBacked
BY Inductive, PTL DEF IInv, Claims

(* Nothing is on the radar without enough vouches or an administrator, who  *)
(* may have published it at any time before.                                *)
THEOREM PublishedIsEarnedHolds == Spec => []PublishedIsEarned
BY Inductive, PTL DEF IInv, Claims

(* A vouch that publishes has enough vouchers at its commit: the count it   *)
(* has read is backed (SnapshotsOld), and its own voucher is not among them *)
(* (InsertsExclusive).                                                      *)
LEMMA PublishingIsEarned ==
  ASSUME IInv, NEW h \in Handlers, VouchCommit(h), Publishing(h)
  PROVE  status' = "PUBLISHED" /\ Cardinality(vouchers') >= Required
<1>1. TypeOK /\ req[h].pc \in InsertedPcs /\ req[h].pc \in VouchPcs
  BY DEF IInv, VouchCommit, InsertedPcs, VouchPcs
<1>2. /\ req[h].voucher \notin vouchers /\ req[h].voucher \in Users
      /\ req[h].count \in Nat /\ req[h].count <= Cardinality(vouchers)
  BY <1>1 DEF IInv, InsertsExclusive, SnapshotsOld, TypeOK, Request
<1>3. vouchers' = vouchers \union {req[h].voucher} /\ status' = "PUBLISHED"
  BY DEF VouchCommit
<1>4. Cardinality(vouchers) \in Nat /\ Cardinality(vouchers') = Cardinality(vouchers) + 1
  BY <1>1, <1>2, <1>3, VouchersFinite, FS_AddElement
<1> QED
  BY <1>2, <1>3, <1>4 DEF Publishing, NewCount

LEMMA StatusStep ==
  ASSUME IInv, [Next]_vars, UpToDate
  PROVE  \/ UpToDate' /\ status' = status
         \/ \E h \in Handlers : ModerateCommit(h) \/ CancelCommit(h)
         \/ status' = "PUBLISHED" /\ Cardinality(vouchers') >= Required
<1> TypeOK
  BY DEF IInv
<1> USE DEF row
<1>1. ASSUME NEW h \in Handlers, status' = status, \A j \in Handlers \ {h} : req'[j] = req[j],
             \/ req'[h].pc \notin VouchPcs
             \/ req'[h].status = status
      PROVE  UpToDate' /\ status' = status
  BY <1>1 DEF UpToDate, VouchPcs
<1>2. ASSUME NEW h \in Handlers, NEW v \in Users, VouchRead(h, v) PROVE UpToDate' /\ status' = status
  <2>1. req'[h].status = status /\ status' = status /\ \A j \in Handlers \ {h} : req'[j] = req[j]
    BY <1>2 DEF VouchRead, TypeOK
  <2> QED
    BY <1>1, <2>1
<1>3. ASSUME NEW h \in Handlers, VouchInsert(h) \/ VouchUpdate(h) \/ VouchIndex(h)
      PROVE  UpToDate' /\ status' = status
  <2>1. req[h].pc \in VouchPcs /\ req'[h].status = req[h].status /\ status' = status
    BY <1>3 DEF VouchInsert, VouchUpdate, VouchIndex, Goto, VouchPcs, TypeOK, Request
  <2>2. \A j \in Handlers \ {h} : req'[j] = req[j]
    BY <1>3 DEF VouchInsert, VouchUpdate, VouchIndex, Goto, TypeOK
  <2> QED
    BY <1>1, <2>1, <2>2 DEF UpToDate, VouchPcs
<1>4. ASSUME NEW h \in Handlers,
             \/ VouchReject(h) \/ ModerateIndex(h) \/ CancelIndex(h) \/ Fail(h)
             \/ \E s \in ModerateTo : ModerateUpdate(h, s)
      PROVE  UpToDate' /\ status' = status
  <2>1. /\ status' = status /\ req'[h].pc \in {"idle", "moderating", "moderated"}
        /\ \A j \in Handlers \ {h} : req'[j] = req[j]
    BY <1>4 DEF VouchReject, ModerateIndex, CancelIndex, Fail, ModerateUpdate, Goto, Finish, Idle,
                TypeOK, Request
  <2> QED
    BY <1>1, <2>1 DEF VouchPcs
<1>5. ASSUME NEW h \in Handlers, VouchCommit(h), ~Publishing(h) PROVE UpToDate' /\ status' = status
  <2>1. req[h].pc \in VouchPcs /\ status' = req[h].status
    BY <1>5 DEF VouchCommit, VouchPcs
  <2>2. req'[h].pc = "idle" /\ \A j \in Handlers \ {h} : req'[j] = req[j]
    BY <1>5 DEF VouchCommit, Finish, Idle, TypeOK
  <2> QED
    BY <1>1, <2>1, <2>2 DEF UpToDate, VouchPcs
<1>6. CASE UNCHANGED vars
  BY <1>6 DEF vars, UpToDate
<1> QED
  BY <1>2, <1>3, <1>4, <1>5, <1>6, PublishingIsEarned DEF Next

(* While every vouch has read the status as it is, the status changes by a  *)
(* decision or by enough vouches.  So a decision is undone only by a vouch  *)
(* that had read the row before it.                                         *)
THEOREM StatusIsEarnedHolds == Spec => StatusIsEarned
<1>1. IInv /\ [Next]_vars =>
        [UpToDate => \/ UpToDate' /\ status' = status
                     \/ \E h \in Handlers : ModerateCommit(h) \/ CancelCommit(h)
                     \/ status' = "PUBLISHED" /\ Cardinality(vouchers') >= Required]_vars
  BY StatusStep
<1> QED
  BY <1>1, Inductive, PTL DEF Spec, StatusIsEarned

(* The host's score is earned vouch by vouch. *)
THEOREM ScoreIsEarnedHolds == Spec => []ScoreIsEarned
BY Inductive, PTL DEF IInv, Claims

-----------------------------------------------------------------------------
(* The index.  A transaction that has written the index holds the event     *)
(* row, so there is one at most and the index stands for what it will       *)
(* commit; every other step either leaves both alone or is a named race.    *)
HoldingPcs == {"updated", "indexed", "moderating", "moderated"}
SoleHolder ==
  \A h, j \in Handlers : req[h].pc \in HoldingPcs /\ req[j].pc \in HoldingPcs => j = h

(* The requests that have written the index, or have still to clear it. *)
IndexPcs == {"indexed", "moderated", "cancelling"}

LEMMA SoleHolderStep == TypeOK /\ SoleHolder /\ [Next]_vars => SoleHolder'
<1> SUFFICES ASSUME TypeOK, SoleHolder, [Next]_vars PROVE SoleHolder'
  OBVIOUS
<1>1. ASSUME NEW h \in Handlers,
             \A j \in Handlers \ {h} : req'[j] = req[j],
             \/ req'[h].pc \notin HoldingPcs
             \/ req[h].pc \in HoldingPcs
             \/ ~EventLocked
      PROVE  SoleHolder'
  BY <1>1 DEF SoleHolder, HoldingPcs, EventLocked
<1>2. ASSUME NEW h \in Handlers, \E v \in Users : VouchRead(h, v) PROVE SoleHolder'
  <2>1. req'[h].pc = "read" /\ \A j \in Handlers \ {h} : req'[j] = req[j]
    BY <1>2 DEF VouchRead, TypeOK
  <2> QED
    BY <1>1, <2>1 DEF HoldingPcs
<1>3. ASSUME NEW h \in Handlers, VouchInsert(h) \/ CancelCommit(h) PROVE SoleHolder'
  <2>1. /\ req'[h].pc \in {"inserted", "cancelling"}
        /\ \A j \in Handlers \ {h} : req'[j] = req[j]
    BY <1>3 DEF VouchInsert, CancelCommit, Goto, TypeOK, Request
  <2> QED
    BY <1>1, <2>1 DEF HoldingPcs
<1>4. ASSUME NEW h \in Handlers,
             VouchReject(h) \/ VouchCommit(h) \/ ModerateCommit(h) \/ CancelIndex(h) \/ Fail(h)
      PROVE  SoleHolder'
  <2>1. req'[h].pc = "idle" /\ \A j \in Handlers \ {h} : req'[j] = req[j]
    BY <1>4 DEF VouchReject, VouchCommit, ModerateCommit, CancelIndex, Fail, Finish, Idle, TypeOK
  <2> QED
    BY <1>1, <2>1 DEF HoldingPcs
<1>5. ASSUME NEW h \in Handlers, VouchUpdate(h) \/ \E s \in ModerateTo : ModerateUpdate(h, s)
      PROVE  SoleHolder'
  <2>1. ~EventLocked /\ \A j \in Handlers \ {h} : req'[j] = req[j]
    BY <1>5 DEF VouchUpdate, ModerateUpdate, Goto, TypeOK
  <2> QED
    BY <1>1, <2>1
<1>6. ASSUME NEW h \in Handlers, VouchIndex(h) \/ ModerateIndex(h) PROVE SoleHolder'
  <2>1. req[h].pc \in HoldingPcs /\ \A j \in Handlers \ {h} : req'[j] = req[j]
    BY <1>6 DEF VouchIndex, ModerateIndex, Goto, HoldingPcs, TypeOK
  <2> QED
    BY <1>1, <2>1
<1>7. CASE UNCHANGED vars
  BY <1>7 DEF vars, SoleHolder
<1> QED
  BY <1>2, <1>3, <1>4, <1>5, <1>6, <1>7 DEF Next

(* While a transaction that has written the index is open, the index stands *)
(* for what that transaction will commit.                                   *)
LEMMA WriterDecides ==
  ASSUME SoleHolder, NEW h \in Handlers, req[h].pc \in {"indexed", "moderated"}
  PROVE  OnRadar <=> req[h].pc = "indexed" \/ req[h].status = "PUBLISHED"
BY DEF SoleHolder, HoldingPcs, OnRadar

LEMMA RowDecides ==
  ASSUME \A j \in Handlers : req[j].pc \notin {"indexed", "moderated"}
  PROVE  OnRadar <=> status = "PUBLISHED"
BY DEF OnRadar

LEMMA IndexStep ==
  TypeOK /\ SoleHolder /\ IndexAgrees /\ Next =>
    IndexAgrees' \/ \E h \in Handlers : CancelsTooLate(h) \/ LosesItsIndex(h) \/ WritesBack(h)
<1> SUFFICES ASSUME TypeOK, SoleHolder, IndexAgrees, Next,
                    ~\E h \in Handlers : CancelsTooLate(h) \/ LosesItsIndex(h) \/ WritesBack(h)
             PROVE  IndexAgrees'
  OBVIOUS
<1>1. SoleHolder'
  BY SoleHolderStep
<1>2. ASSUME NEW h \in Handlers, status' = status, geo' = geo,
             \A j \in Handlers \ {h} : req'[j] = req[j],
             req[h].pc \notin IndexPcs, req'[h].pc \notin IndexPcs
      PROVE  IndexAgrees'
  <2>1. OnRadar' <=> OnRadar
    BY <1>2 DEF OnRadar, IndexPcs
  <2> QED
    BY <1>2, <2>1 DEF IndexAgrees, IndexPcs
<1>3. ASSUME NEW h \in Handlers,
             \/ \E v \in Users : VouchRead(h, v)
             \/ VouchInsert(h) \/ VouchReject(h) \/ VouchUpdate(h)
             \/ \E s \in ModerateTo : ModerateUpdate(h, s)
             \/ Fail(h)
      PROVE  IndexAgrees'
  <2>1. status' = status /\ geo' = geo /\ \A j \in Handlers \ {h} : req'[j] = req[j]
    BY <1>3 DEF VouchRead, VouchInsert, VouchReject, VouchUpdate, ModerateUpdate, Fail, Goto,
                Finish, TypeOK, row
  <2>2. req[h].pc \notin IndexPcs
    BY <1>3 DEF VouchRead, VouchInsert, VouchReject, VouchUpdate, ModerateUpdate, LosesItsIndex,
                IndexPcs
  <2>3. req'[h].pc \notin IndexPcs
    BY <1>3 DEF VouchRead, VouchInsert, VouchReject, VouchUpdate, ModerateUpdate, Fail, Goto,
                Finish, Idle, TypeOK, Request, IndexPcs
  <2> QED
    BY <1>2, <2>1, <2>2, <2>3
<1>4. ASSUME NEW h \in Handlers, VouchIndex(h) PROVE IndexAgrees'
  <2>1. geo' = TRUE /\ req'[h].pc = "indexed"
    BY <1>4 DEF VouchIndex, Goto, TypeOK, Request
  <2>2. OnRadar'
    BY <2>1 DEF OnRadar
  <2> QED
    BY <2>1, <2>2 DEF IndexAgrees
<1>5. ASSUME NEW h \in Handlers, ModerateIndex(h) PROVE IndexAgrees'
  <2>1. /\ geo' = (req[h].status = "PUBLISHED")
        /\ req'[h].pc = "moderated" /\ req'[h].status = req[h].status
    BY <1>5 DEF ModerateIndex, Goto, TypeOK, Request
  <2>2. OnRadar' <=> req[h].status = "PUBLISHED"
    BY <1>1, <2>1 DEF SoleHolder, HoldingPcs, OnRadar
  <2> QED
    BY <2>1, <2>2 DEF IndexAgrees
<1>6. ASSUME NEW h \in Handlers, VouchCommit(h) \/ ModerateCommit(h) PROVE IndexAgrees'
  <2>1. /\ req[h].pc \in {"updated", "indexed", "moderated"}
        /\ geo' = geo
        /\ req'[h].pc = "idle" /\ \A j \in Handlers \ {h} : req'[j] = req[j]
    BY <1>6 DEF VouchCommit, ModerateCommit, Finish, Idle, TypeOK
  <2>2. \A j \in Handlers : req'[j].pc \notin {"indexed", "moderated"}
    BY <2>1 DEF SoleHolder, HoldingPcs
  <2>3. OnRadar' <=> status' = "PUBLISHED"
    BY <2>2 DEF OnRadar
  <2>4. OnRadar <=> status' = "PUBLISHED"
    <3>1. CASE ModerateCommit(h)
      BY <3>1, WriterDecides DEF ModerateCommit
    <3>2. CASE VouchCommit(h) /\ Publishing(h)
      BY <3>2, WriterDecides DEF VouchCommit
    <3>3. CASE VouchCommit(h) /\ ~Publishing(h)
      <4>1. req[h].pc = "updated" /\ status' = req[h].status
        BY <3>3 DEF VouchCommit
      <4>2. OnRadar <=> status = "PUBLISHED"
        BY <4>1, RowDecides DEF SoleHolder, HoldingPcs
      <4>3. (req[h].status = "PUBLISHED") <=> (status = "PUBLISHED")
        BY <3>3 DEF WritesBack
      <4> QED
        BY <4>1, <4>2, <4>3
    <3> QED
      BY <1>6, <3>1, <3>2, <3>3
  <2>5. (\E j \in Handlers : req'[j].pc = "cancelling") <=> \E j \in Handlers : req[j].pc = "cancelling"
    BY <2>1
  <2> QED
    BY <2>1, <2>3, <2>4, <2>5 DEF IndexAgrees
<1>7. ASSUME NEW h \in Handlers, CancelCommit(h) PROVE IndexAgrees'
  <2>1. req'[h].pc = "cancelling"
    BY <1>7 DEF CancelCommit, Goto, TypeOK, Request
  <2> QED
    BY <2>1 DEF IndexAgrees
<1>8. ASSUME NEW h \in Handlers, CancelIndex(h) PROVE IndexAgrees'
  <2>1. /\ req[h].pc = "cancelling" /\ req'[h].pc = "idle"
        /\ \A j \in Handlers \ {h} : req'[j] = req[j]
        /\ status' = status /\ geo' = FALSE
    BY <1>8 DEF CancelIndex, Finish, Idle, TypeOK, row
  <2>2. OnRadar' <=> OnRadar
    BY <2>1 DEF OnRadar
  <2>3. ~OnRadar
    BY <1>8 DEF CancelsTooLate
  <2> QED
    BY <2>1, <2>2, <2>3 DEF IndexAgrees
<1> QED
  BY <1>3, <1>4, <1>5, <1>6, <1>7, <1>8 DEF Next

(* The geo index leaves the status only by a late cancellation, a request   *)
(* that dies with its index write, or a status written back.                *)
THEOREM IndexIsTracked == Spec => IndexTracks
<1>1. Init => SoleHolder
  BY DEF Init, SoleHolder, HoldingPcs, Idle
<1>2. TypeOK /\ SoleHolder /\ [Next]_vars =>
        [IndexAgrees => IndexAgrees' \/ (\E h \in Handlers :
            CancelsTooLate(h) \/ LosesItsIndex(h) \/ WritesBack(h))]_vars
  BY IndexStep
<1> QED
  BY <1>1, <1>2, TypeCorrect, SoleHolderStep, PTL DEF Spec, IndexTracks
=============================================================================
