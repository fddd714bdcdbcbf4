--------------------------- MODULE SocialGraphProofs ---------------------------
(***************************************************************************)
(* What holds between two members for any number of handlers, with         *)
(* failures.  TiesAreWhole is inductive together with HeldExists: a block  *)
(* writes only a connection that exists.  BlockCascades needs to know what *)
(* a block in its transaction has in hand (Caught), which rests on the row *)
(* locks being exclusive (OneHolder).  SealedStays needs no more than the  *)
(* types: Sealed lists everything that could carry an answer from before   *)
(* the block past it, so each step can be taken by itself.                 *)
(* PendingSurvives rests on what an accept that is about to expire a       *)
(* request has seen (FoundOverdue).                                        *)
(***************************************************************************)
EXTENDS SocialGraph, TLAPS

USE PairAssumption, OperationsAssumption, FailAssumption

LEMMA PeerIsUser == \A u \in Users : Peer(u) \in Users
BY DEF Users, Peer

LEMMA WorkIsRequest ==
  ASSUME NEW pc \in Pcs, NEW u \in Users, NEW op \in Checked
  PROVE  Work(pc, u, op) \in Request
BY DEF Work, Request

(* A handler whose pc is not "idle" holds a whole request. *)
LEMMA Busy ==
  ASSUME TypeOK, NEW h \in Handlers, req[h].pc # "idle"
  PROVE  req[h] \in Request
BY DEF TypeOK, Idle

LEMMA Moves ==
  ASSUME TypeOK, NEW h \in Handlers
  PROVE  /\ Finish(h) => req' \in [Handlers -> Request \union {Idle}]
         /\ \A pc \in Pcs : req[h].pc # "idle" /\ Goto(h, pc)
                              => req' \in [Handlers -> Request \union {Idle}]
         /\ \A r \in Request : Begin(h, r) => req' \in [Handlers -> Request \union {Idle}]
<1>1. Finish(h) => req' \in [Handlers -> Request \union {Idle}]
  BY DEF TypeOK, Finish
<1>2. ASSUME NEW pc \in Pcs, req[h].pc # "idle", Goto(h, pc)
      PROVE  req' \in [Handlers -> Request \union {Idle}]
  <2>1. req[h] \in Request
    BY <1>2, Busy
  <2>2. [req[h] EXCEPT !.pc = pc] \in Request
    BY <2>1 DEF Request
  <2> QED
    BY <1>2, <2>2 DEF TypeOK, Goto
<1>3. \A r \in Request : Begin(h, r) => req' \in [Handlers -> Request \union {Idle}]
  BY DEF TypeOK, Begin
<1> QED
  BY <1>1, <1>2, <1>3

(* The steps that leave the database and the cache alone. *)
LEMMA QuietTypes ==
  ASSUME TypeOK, req' \in [Handlers -> Request \union {Idle}], UNCHANGED <<blocks, cache, ties>>
  PROVE  TypeOK'
BY DEF TypeOK, ties

LEMMA TypeStep == TypeOK /\ [Next]_vars => TypeOK'
<1> SUFFICES ASSUME TypeOK, [Next]_vars PROVE TypeOK'
  OBVIOUS
<1>1. ASSUME NEW h \in Handlers, NEW u \in Askers, NEW op \in Operations,
             AskHit(h, u, op) \/ AskMiss(h, u, op)
      PROVE  TypeOK'
  <2>1. Work("cleared", u, op) \in Request /\ Work("lookup", u, op) \in Request
    BY WorkIsRequest DEF Pcs, Checked
  <2> QED
    BY <1>1, <2>1, Moves, QuietTypes DEF AskHit, AskMiss
<1>2. ASSUME NEW h \in Handlers, NEW u \in Users, AcceptRead(h, u) PROVE TypeOK'
  <2>1. Work(IF love[Peer(u)] = "OVERDUE" THEN "expire" ELSE "accept", u, "open") \in Request
    BY WorkIsRequest DEF Pcs, Checked
  <2> QED
    BY <1>2, <2>1, Moves, QuietTypes DEF AcceptRead
<1>3. ASSUME NEW h \in Handlers, NEW u \in Blockers, BlockStart(h, u) PROVE TypeOK'
  <2>1. [Work("blocking", u, "open") EXCEPT !.seen = (connection # "NONE")] \in Request
    BY DEF Pcs, Checked, Work, Request
  <2> QED
    BY <1>3, <2>1, Moves, QuietTypes DEF BlockStart
<1>4. ASSUME NEW h \in Handlers, NEW u \in Blockers, Unblock(h, u) PROVE TypeOK'
  <2>1. [Work("invalidate", u, "open") EXCEPT !.todo = Users] \in Request
    BY DEF Pcs, Checked, Work, Request
  <2>2. req' \in [Handlers -> Request \union {Idle}]
    BY <1>4, <2>1, Moves DEF Unblock
  <2> QED
    BY <1>4, <2>2 DEF Unblock, TypeOK, ties
<1>5. ASSUME NEW h \in Handlers, Lookup(h) PROVE TypeOK'
  <2>1. req[h] \in Request
    BY <1>5, Busy DEF Lookup
  <2>2. [req[h] EXCEPT !.pc = "fill", !.seen = (blocks # {})] \in Request
    BY <2>1 DEF Request, Pcs
  <2>3. req' \in [Handlers -> Request \union {Idle}]
    BY <1>5, <2>2 DEF Lookup, TypeOK
  <2> QED
    BY <1>5, <2>3, QuietTypes DEF Lookup
<1>6. ASSUME NEW h \in Handlers, Fill(h) PROVE TypeOK'
  <2>1. req' \in [Handlers -> Request \union {Idle}]
    BY <1>6, Moves DEF Fill, Pcs
  <2> QED
    BY <1>6, <2>1 DEF Fill, TypeOK, ties
<1>7. ASSUME NEW h \in Handlers,
             \/ Unwelcome(h) \/ ReadConnection(h) \/ ReadExisting(h)
             \/ AcceptLock(h) \/ DeadlockAbort(h) \/ Fail(h)
      PROVE  TypeOK'
  <2>1. req' \in [Handlers -> Request \union {Idle}]
    BY <1>7, Moves DEF Unwelcome, ReadConnection, ReadExisting, AcceptLock, DeadlockAbort, Fail, Pcs
  <2> QED
    BY <1>7, <2>1, QuietTypes
    DEF Unwelcome, ReadConnection, ReadExisting, AcceptLock, DeadlockAbort, Fail
<1>8. ASSUME NEW h \in Handlers,
             Connect(h) \/ OpenConversation(h) \/ AcceptExpire(h) \/ AcceptCommit(h)
      PROVE  TypeOK'
  <2>1. req' \in [Handlers -> Request \union {Idle}]
    BY <1>8, Moves DEF Connect, OpenConversation, AcceptExpire, AcceptCommit
  <2> QED
    BY <1>8, <2>1 DEF Connect, OpenConversation, AcceptExpire, AcceptCommit,
       TypeOK, LoveStatuses, ConnectionStatuses, Open
<1>8a. ASSUME NEW h \in Handlers, SendLove(h) PROVE TypeOK'
  <2>1. req[h].user \in Users
    BY <1>8a, Busy DEF SendLove, Request
  <2>2. ASSUME NEW j \in Handlers, req[j].pc \in {"declined", "expire"}
        PROVE  [req[j] EXCEPT !.late = @ \union {req[h].user}] \in Request
    BY <2>1, <2>2, Busy DEF Request
  <2>3. req' \in [Handlers -> Request \union {Idle}]
    BY <1>8a, <2>2 DEF SendLove, TypeOK
  <2> QED
    BY <1>8a, <2>3 DEF SendLove, TypeOK, LoveStatuses, Open
<1>8b. ASSUME NEW h \in Handlers, BlockDecline(h) PROVE TypeOK'
  <2> DEFINE open == {s \in Users : love[s] \in Open}
  <2>1. [req[h] EXCEPT !.pc = "declined", !.todo = open] \in Request
    BY <1>8b, Busy DEF BlockDecline, Request, Pcs
  <2>2. req' \in [Handlers -> Request \union {Idle}]
    BY <1>8b, <2>1 DEF BlockDecline, TypeOK
  <2> QED
    BY <1>8b, <2>2, QuietTypes DEF BlockDecline
<1>9. ASSUME NEW h \in Handlers, BlockCommit(h) PROVE TypeOK'
  <2>1. req[h] \in Request
    BY <1>9, Busy DEF BlockCommit
  <2>2. [Work("invalidate", req[h].user, "open") EXCEPT !.todo = Users] \in Request
    BY <2>1 DEF Work, Request, Pcs, Checked
  <2>3. req' \in [Handlers -> Request \union {Idle}]
    BY <1>9, <2>2 DEF BlockCommit, TypeOK
  <2>4. blocks' \in SUBSET Users
    BY <1>9, <2>1 DEF BlockCommit, TypeOK, Request
  <2> QED
    BY <1>9, <2>3, <2>4 DEF BlockCommit, TypeOK, LoveStatuses, ConnectionStatuses
<1>10. ASSUME NEW h \in Handlers, NEW u \in Users, Invalidate(h, u) PROVE TypeOK'
  <2>1. req[h] \in Request
    BY <1>10, Busy DEF Invalidate
  <2>2. [req[h] EXCEPT !.todo = @ \ {u}] \in Request
    BY <2>1 DEF Request
  <2>3. req' \in [Handlers -> Request \union {Idle}]
    BY <1>10, <2>2, Moves DEF Invalidate, TypeOK
  <2> QED
    BY <1>10, <2>3 DEF Invalidate, TypeOK, ties
<1>11. ASSUME NEW u \in Users, Decline(u) \/ Cancel(u) PROVE TypeOK'
  BY <1>11, PeerIsUser DEF Decline, Cancel, Answer, TypeOK, LoveStatuses
<1>12. ASSUME NEW u \in Users, CacheExpire(u) \/ Lapse(u) PROVE TypeOK'
  BY <1>12 DEF CacheExpire, Lapse, TypeOK, ties, LoveStatuses, Open
<1>13. CASE RemoveConnection \/ ExpirationCron
  BY <1>13 DEF RemoveConnection, ExpirationCron, TypeOK, LoveStatuses, ConnectionStatuses
<1>14. CASE UNCHANGED vars
  BY <1>14 DEF vars, TypeOK, ties
<1> QED
  BY <1>1, <1>2, <1>3, <1>4, <1>5, <1>6, <1>7, <1>8, <1>8a, <1>8b, <1>9, <1>10, <1>11, <1>12,
     <1>13, <1>14
  DEF Next, Serve

LEMMA TypeInit == Init => TypeOK
BY DEF Init, TypeOK, LoveStatuses, ConnectionStatuses

(* Every variable keeps its type. *)
THEOREM TypeCorrect == Spec => []TypeOK
BY TypeInit, TypeStep, PTL DEF Spec

-----------------------------------------------------------------------------
(* What the requests in progress do: a step leaves them alone, or it moves  *)
(* one handler, and only four actions give a handler a row.                 *)
Blocking == {"blocking", "declined"}
Plain(h, r) == /\ req' = [req EXCEPT ![h] = r]
               /\ r.pc \notin Blocking \union {"accepted"}

LEMMA GotoPlain ==
  ASSUME TypeOK, NEW h \in Handlers, NEW pc \in Pcs \ (Blocking \union {"accepted"}),
         req[h].pc # "idle", Goto(h, pc)
  PROVE  \E r \in Request \union {Idle} : Plain(h, r)
<1>1. [req[h] EXCEPT !.pc = pc] \in Request /\ [req[h] EXCEPT !.pc = pc].pc = pc
  BY Busy DEF Request
<1>2. req' = [req EXCEPT ![h] = [req[h] EXCEPT !.pc = pc]]
  BY DEF Goto
<1> QED
  BY <1>1, <1>2 DEF Plain

LEMMA FinishPlain ==
  ASSUME NEW h \in Handlers, Finish(h)
  PROVE  \E r \in Request \union {Idle} : Plain(h, r)
<1>1. Idle.pc \notin Blocking \union {"accepted"}
  BY DEF Idle, Blocking
<1> QED
  BY <1>1 DEF Finish, Plain

LEMMA WorkPlain ==
  ASSUME NEW h \in Handlers, NEW pc \in Pcs \ (Blocking \union {"accepted"}),
         NEW u \in Users, NEW op \in Checked, Begin(h, Work(pc, u, op))
  PROVE  \E r \in Request \union {Idle} : Plain(h, r)
<1>1. Work(pc, u, op).pc = pc
  BY DEF Work
<1> QED
  BY <1>1, WorkIsRequest DEF Begin, Plain

LEMMA StepShapes ==
  ASSUME TypeOK, [Next]_vars
  PROVE  \/ UNCHANGED req
         \/ \E h \in Handlers : \E r \in Request \union {Idle} : Plain(h, r)
         \/ \E h \in Handlers, u \in Blockers : BlockStart(h, u)
         \/ \E h \in Handlers : BlockDecline(h) \/ SendLove(h) \/ AcceptLock(h)
<1> DEFINE Moved == \E h \in Handlers : \E r \in Request \union {Idle} : Plain(h, r)
<1>1. ASSUME NEW h \in Handlers, NEW u \in Askers, NEW op \in Operations,
             AskHit(h, u, op) \/ AskMiss(h, u, op)
      PROVE  Moved
  <2>1. PICK pc \in Pcs \ (Blocking \union {"accepted"}) : Begin(h, Work(pc, u, op))
    BY <1>1 DEF AskHit, AskMiss, Pcs, Blocking
  <2>2. u \in Users /\ op \in Checked
    BY DEF Checked
  <2> QED
    BY <2>1, <2>2, WorkPlain
<1>2. ASSUME NEW h \in Handlers, NEW u \in Users, AcceptRead(h, u) PROVE Moved
  <2>1. PICK pc \in Pcs \ (Blocking \union {"accepted"}) : Begin(h, Work(pc, u, "open"))
    BY <1>2 DEF AcceptRead, Pcs, Blocking
  <2>2. "open" \in Checked
    BY DEF Checked
  <2> QED
    BY <2>1, <2>2, WorkPlain
<1>3. ASSUME NEW h \in Handlers, NEW u \in Users, NEW todo \in SUBSET Users,
             req' = [req EXCEPT ![h] = [Work("invalidate", u, "open") EXCEPT !.todo = todo]]
      PROVE  Moved
  <2>1. [Work("invalidate", u, "open") EXCEPT !.todo = todo] \in Request
    BY DEF Work, Request, Pcs, Checked
  <2>2. [Work("invalidate", u, "open") EXCEPT !.todo = todo].pc = "invalidate"
    BY DEF Work
  <2> QED
    BY <1>3, <2>1, <2>2 DEF Plain, Blocking
<1>4. ASSUME NEW h \in Handlers, NEW u \in Blockers, Unblock(h, u) PROVE Moved
  BY <1>3, <1>4 DEF Unblock, Begin
<1>5. ASSUME NEW h \in Handlers, BlockCommit(h) PROVE Moved
  <2>1. req[h].user \in Users
    BY <1>5, Busy DEF BlockCommit, Request
  <2>2. req' = [req EXCEPT ![h] = [Work("invalidate", req[h].user, "open") EXCEPT !.todo = Users]]
    BY <1>5 DEF BlockCommit
  <2> QED
    BY <1>3, <2>1, <2>2
<1>6. ASSUME NEW h \in Handlers, Lookup(h) PROVE Moved
  <2> DEFINE r == [req[h] EXCEPT !.pc = "fill", !.seen = (blocks # {})]
  <2>1. r \in Request /\ r.pc = "fill"
    BY <1>6, Busy DEF Lookup, Request, Pcs
  <2>2. req' = [req EXCEPT ![h] = r]
    BY <1>6 DEF Lookup, TypeOK
  <2> QED
    BY <2>1, <2>2 DEF Plain, Blocking
<1>7. ASSUME NEW h \in Handlers, NEW u \in Users, Invalidate(h, u) PROVE Moved
  <2> DEFINE r == [req[h] EXCEPT !.todo = @ \ {u}]
  <2>1. r \in Request /\ r.pc = "invalidate"
    BY <1>7, Busy DEF Invalidate, Request
  <2>2. Finish(h) \/ req' = [req EXCEPT ![h] = r]
    BY <1>7 DEF Invalidate
  <2> QED
    BY <2>1, <2>2, FinishPlain DEF Plain, Blocking
<1>8. ASSUME NEW h \in Handlers,
             \/ Fill(h) \/ Unwelcome(h) \/ ReadConnection(h) \/ ReadExisting(h)
             \/ Connect(h) \/ OpenConversation(h) \/ AcceptExpire(h)
             \/ AcceptCommit(h) \/ DeadlockAbort(h) \/ Fail(h)
      PROVE  Moved
  BY <1>8, FinishPlain, GotoPlain DEF Fill, Unwelcome, ReadConnection, ReadExisting,
     Connect, OpenConversation, AcceptExpire, AcceptCommit, DeadlockAbort, Fail, Pcs, Blocking
<1> HIDE DEF Moved
<1>9. Moved \/ UNCHANGED req \/ (\E h \in Handlers, u \in Blockers : BlockStart(h, u))
      \/ (\E h \in Handlers : BlockDecline(h) \/ SendLove(h) \/ AcceptLock(h))
  BY <1>1, <1>2, <1>4, <1>5, <1>6, <1>7, <1>8 DEF Next, Serve, vars, Decline, Cancel,
     Answer, CacheExpire, Lapse, RemoveConnection, ExpirationCron
<1> QED
  BY <1>9 DEF Moved

-----------------------------------------------------------------------------
(* A block that holds the connection row holds a row that exists.           *)
HeldExists == \A h \in Handlers : req[h].pc \in Blocking /\ req[h].seen => connection # "NONE"

LEMMA ConnectionStays == [Next]_vars => (connection # "NONE" => connection' # "NONE")
BY DEF Next, Serve, vars, ties, AskHit, AskMiss, AcceptRead, BlockStart, Unblock, Lookup, Fill, Unwelcome,
   ReadConnection, ReadExisting, SendLove, Connect, OpenConversation, AcceptExpire, AcceptLock,
   AcceptCommit, BlockDecline, BlockCommit, Invalidate, DeadlockAbort, Fail, Decline, Cancel, Answer,
   CacheExpire, Lapse, RemoveConnection, ExpirationCron

LEMMA HeldStep == TypeOK /\ HeldExists /\ [Next]_vars => HeldExists'
<1> SUFFICES ASSUME TypeOK, HeldExists, [Next]_vars PROVE HeldExists'
  OBVIOUS
<1> USE ConnectionStays DEF HeldExists, Blocking
<1>1. CASE UNCHANGED req
  BY <1>1
<1>2. ASSUME NEW h \in Handlers, NEW r \in Request \union {Idle}, Plain(h, r) PROVE HeldExists'
  BY <1>2 DEF Plain, TypeOK
<1>3. ASSUME NEW h \in Handlers, NEW u \in Blockers, BlockStart(h, u) PROVE HeldExists'
  BY <1>3 DEF BlockStart, Begin, Work, TypeOK
<1>4. ASSUME NEW h \in Handlers, BlockDecline(h) PROVE HeldExists'
  BY <1>4 DEF BlockDecline, TypeOK
<1>5. ASSUME NEW h \in Handlers, SendLove(h) PROVE HeldExists'
  BY <1>5, Busy DEF SendLove, Idle, Request
<1>6. ASSUME NEW h \in Handlers, AcceptLock(h) PROVE HeldExists'
  BY <1>6, Busy DEF AcceptLock, Goto, TypeOK, Request
<1> QED
  BY <1>1, <1>2, <1>3, <1>4, <1>5, <1>6, StepShapes

(* Ties are made in one transaction, so no interleaving leaves half a tie:  *)
(* a connection has its conversation, an accepted request its connection.   *)
THEOREM TiesAreWholeHolds == Spec => []TiesAreWhole
<1> DEFINE IInv == TypeOK /\ TiesAreWhole /\ HeldExists
<1>1. Init => IInv
  BY TypeInit DEF Init, TiesAreWhole, HeldExists, Idle, Blocking
<1>2. IInv /\ [Next]_vars => IInv'
  <2> SUFFICES ASSUME IInv, [Next]_vars PROVE TiesAreWhole'
    BY TypeStep, HeldStep
  <2>1. CASE UNCHANGED ties
    BY <2>1 DEF TiesAreWhole, ties
  <2>2. ASSUME NEW h \in Handlers,
               SendLove(h) \/ Connect(h) \/ OpenConversation(h) \/ AcceptExpire(h) \/ AcceptCommit(h)
        PROVE  TiesAreWhole'
    BY <2>2 DEF SendLove, Connect, OpenConversation, AcceptExpire, AcceptCommit, TiesAreWhole, TypeOK
  <2>3. ASSUME NEW h \in Handlers, BlockCommit(h) PROVE TiesAreWhole'
    BY <2>3 DEF BlockCommit, TiesAreWhole, HeldExists, Blocking
  <2>4. ASSUME NEW u \in Users, Decline(u) \/ Cancel(u) \/ Lapse(u) PROVE TiesAreWhole'
    BY <2>4 DEF Decline, Cancel, Answer, Lapse, TiesAreWhole, TypeOK
  <2>5. CASE RemoveConnection \/ ExpirationCron
    BY <2>5 DEF RemoveConnection, ExpirationCron, TiesAreWhole, TypeOK
  <2> QED
    BY <2>1, <2>2, <2>3, <2>4, <2>5 DEF Next, Serve, vars, AskHit, AskMiss, AcceptRead, BlockStart, Unblock,
       Lookup, Fill, Unwelcome, ReadConnection, ReadExisting, AcceptLock, BlockDecline,
       Invalidate, DeadlockAbort, Fail, CacheExpire
<1> QED
  BY <1>1, <1>2, PTL DEF Spec

-----------------------------------------------------------------------------
(* What a step can do to a sealed pair: a handler goes on with a request    *)
(* that is not careless, and everything between the two stays shut.         *)
LEMMA SealedKept ==
  ASSUME TypeOK, Sealed, NEW h \in Handlers, NEW r,
         req' = [req EXCEPT ![h] = r], ~Careless(r),
         blocks' # {}, connection' # "ACTIVE",
         \A s \in Users : love'[s] \notin Open,
         \A u \in Users : cache'[u] # "clear"
  PROVE  Sealed'
<1>1. \A j \in Handlers : req'[j] = req[j] \/ req'[j] = r
  BY DEF TypeOK
<1>2. \A j \in Handlers : ~Careless(req'[j])
  BY <1>1 DEF Sealed
<1> QED
  BY <1>2 DEF Sealed, Careless

LEMMA SealedFinish ==
  ASSUME TypeOK, Sealed, NEW h \in Handlers, Finish(h),
         blocks' # {}, connection' # "ACTIVE",
         \A s \in Users : love'[s] \notin Open,
         \A u \in Users : cache'[u] # "clear"
  PROVE  Sealed'
<1>1. ~Careless(Idle)
  BY DEF Careless, Idle
<1> QED
  BY <1>1, SealedKept DEF Finish

LEMMA SealedStep == TypeOK /\ Sealed /\ [Next]_vars => Sealed' \/ blocks' = {}
<1> SUFFICES ASSUME TypeOK, Sealed, [Next]_vars, blocks' # {} PROVE Sealed'
  OBVIOUS
<1> USE DEF ties
<1>1. ASSUME NEW h \in Handlers, NEW u \in Askers, NEW op \in Operations,
             AskHit(h, u, op) \/ AskMiss(h, u, op)
      PROVE  Sealed'
  <2>1. req' = [req EXCEPT ![h] = Work("lookup", u, op)] /\ UNCHANGED <<blocks, cache, ties>>
    BY <1>1 DEF AskHit, AskMiss, Begin, Sealed
  <2>2. ~Careless(Work("lookup", u, op))
    BY DEF Careless, Work
  <2> QED
    BY <2>1, <2>2, SealedKept DEF Sealed
<1>2. ASSUME NEW h \in Handlers, NEW u \in Users, AcceptRead(h, u) PROVE FALSE
  BY <1>2, PeerIsUser DEF AcceptRead, Sealed
<1>3. ASSUME NEW h \in Handlers, NEW u \in Blockers, BlockStart(h, u) PROVE Sealed'
  <2> DEFINE r == [Work("blocking", u, "open") EXCEPT !.seen = (connection # "NONE")]
  <2>1. ~Careless(r)
    BY DEF Careless, Work
  <2> QED
    BY <1>3, <2>1, SealedKept DEF BlockStart, Begin, Sealed
<1>4. ASSUME NEW h \in Handlers, NEW u \in Blockers, Unblock(h, u) PROVE Sealed'
  <2> DEFINE r == [Work("invalidate", u, "open") EXCEPT !.todo = Users]
  <2>1. ~Careless(r)
    BY DEF Careless, Work
  <2> QED
    BY <1>4, <2>1, SealedKept DEF Unblock, Begin, Sealed
<1>5. ASSUME NEW h \in Handlers, Lookup(h) PROVE Sealed'
  <2> DEFINE r == [req[h] EXCEPT !.pc = "fill", !.seen = (blocks # {})]
  <2>1. r.pc = "fill" /\ r.seen
    BY <1>5, Busy DEF Lookup, Request, Sealed
  <2>2. req' = [req EXCEPT ![h] = r]
    BY <1>5 DEF Lookup, TypeOK
  <2>3. ~Careless(r)
    BY <2>1 DEF Careless
  <2> QED
    BY <1>5, <2>2, <2>3, SealedKept DEF Lookup, Sealed
<1>6. ASSUME NEW h \in Handlers, Fill(h) PROVE Sealed'
  <2>1. req[h].seen
    BY <1>6 DEF Fill, Sealed, Careless
  <2>2. Finish(h) /\ \A u \in Users : cache'[u] # "clear"
    BY <1>6, <2>1 DEF Fill, Sealed, TypeOK
  <2> QED
    BY <1>6, <2>2, SealedFinish DEF Fill, Sealed
<1>7. ASSUME NEW h \in Handlers,
             \/ Unwelcome(h) \/ ReadConnection(h) \/ ReadExisting(h) \/ SendLove(h)
             \/ Connect(h) \/ OpenConversation(h) \/ AcceptLock(h) \/ AcceptCommit(h)
      PROVE  FALSE
  BY <1>7 DEF Unwelcome, ReadConnection, ReadExisting, SendLove, Connect, OpenConversation,
     AcceptLock, AcceptCommit, Sealed, Careless
<1>8. ASSUME NEW h \in Handlers, AcceptExpire(h) PROVE Sealed'
  <2>1. \A s \in Users : love'[s] \notin Open
    BY <1>8 DEF AcceptExpire, Sealed, TypeOK, Open
  <2> QED
    BY <1>8, <2>1, SealedFinish DEF AcceptExpire, Sealed
<1>9. ASSUME NEW h \in Handlers, BlockCommit(h) PROVE Sealed'
  <2> DEFINE r == [Work("invalidate", req[h].user, "open") EXCEPT !.todo = Users]
  <2>1. r.pc = "invalidate"
    BY DEF Work
  <2>2. req' = [req EXCEPT ![h] = r]
    BY <1>9 DEF BlockCommit
  <2>3. ~Careless(r)
    BY <2>1 DEF Careless
  <2>4. \A s \in Users : love'[s] \notin Open
    BY <1>9 DEF BlockCommit, Sealed, Open
  <2>5. connection' # "ACTIVE"
    BY <1>9 DEF BlockCommit, Sealed
  <2> QED
    BY <1>9, <2>2, <2>3, <2>4, <2>5, SealedKept DEF BlockCommit, Sealed
<1>9a. ASSUME NEW h \in Handlers, BlockDecline(h) PROVE Sealed'
  <2> DEFINE r == [req[h] EXCEPT !.pc = "declined", !.todo = {s \in Users : love[s] \in Open}]
  <2>1. r.pc = "declined"
    BY <1>9a, Busy DEF BlockDecline, Request
  <2>2. req' = [req EXCEPT ![h] = r]
    BY <1>9a DEF BlockDecline, TypeOK
  <2>3. ~Careless(r)
    BY <2>1 DEF Careless
  <2> QED
    BY <1>9a, <2>2, <2>3, SealedKept DEF BlockDecline, Sealed
<1>10. ASSUME NEW h \in Handlers, NEW u \in Users, Invalidate(h, u) PROVE Sealed'
  <2> DEFINE r == [req[h] EXCEPT !.todo = @ \ {u}]
  <2>1. r.pc = "invalidate"
    BY <1>10, Busy DEF Invalidate, Request
  <2>2. ~Careless(r)
    BY <2>1 DEF Careless
  <2>3. Finish(h) \/ req' = [req EXCEPT ![h] = r]
    BY <1>10 DEF Invalidate
  <2>4. \A v \in Users : cache'[v] # "clear"
    BY <1>10 DEF Invalidate, Sealed, TypeOK
  <2>5. UNCHANGED <<blocks, ties>>
    BY <1>10 DEF Invalidate
  <2> HIDE DEF r
  <2>6. CASE Finish(h)
    BY <2>4, <2>5, <2>6, SealedFinish DEF Sealed
  <2>7. CASE req' = [req EXCEPT ![h] = r]
    BY <2>2, <2>4, <2>5, <2>7, SealedKept DEF Sealed
  <2> QED
    BY <2>3, <2>6, <2>7
<1>11. ASSUME NEW h \in Handlers, DeadlockAbort(h) \/ Fail(h) PROVE Sealed'
  BY <1>11, SealedFinish DEF DeadlockAbort, Fail, Sealed
<1>12. ASSUME NEW u \in Users,
              \/ Decline(u) \/ Cancel(u) \/ CacheExpire(u) \/ Lapse(u)
              \/ RemoveConnection \/ ExpirationCron
       PROVE  Sealed'
  <2>1. UNCHANGED <<blocks, req>>
    BY <1>12 DEF Decline, Cancel, Answer, CacheExpire, Lapse, RemoveConnection, ExpirationCron
  <2>2. connection' # "ACTIVE"
    BY <1>12 DEF Decline, Cancel, Answer, CacheExpire, Lapse, RemoveConnection, ExpirationCron, Sealed
  <2>3. \A s \in Users : love'[s] \notin Open
    BY <1>12, PeerIsUser DEF Decline, Cancel, Answer, CacheExpire, Lapse, RemoveConnection,
       ExpirationCron, Sealed, TypeOK, Open
  <2>4. \A v \in Users : cache'[v] # "clear"
    BY <1>12 DEF Decline, Cancel, Answer, CacheExpire, Lapse, RemoveConnection, ExpirationCron,
       Sealed, TypeOK
  <2> QED
    BY <2>1, <2>2, <2>3, <2>4 DEF Sealed, Careless
<1>13. CASE UNCHANGED vars
  BY <1>13 DEF vars, Sealed, Careless
<1>14. Ann \in Users
  BY DEF Users
<1> QED
  BY <1>1, <1>2, <1>3, <1>4, <1>5, <1>6, <1>7, <1>8, <1>9, <1>9a, <1>10, <1>11, <1>12, <1>13,
     <1>14
  DEF Next, Serve

(* A pair once sealed off stays so until the last block is lifted.          *)
THEOREM SealedStaysHolds == Spec => SealedStays
<1>1. TypeOK /\ [Next]_vars => [Sealed => Sealed' \/ blocks' = {}]_vars
  BY SealedStep
<1> QED
  BY <1>1, TypeCorrect, PTL DEF Spec, SealedStays

-----------------------------------------------------------------------------
(* A love request is held by one transaction at a time.                     *)
OneHolder ==
  \A h, j \in Handlers, s \in Users : HoldsLove(h, s) /\ HoldsLove(j, s) => h = j

(* What a block has in hand between its last statement and its commit: the  *)
(* requests it declines are still open, and every open request is one of    *)
(* them or was sent since.                                                  *)
Caught ==
  \A h \in Handlers : req[h].pc = "declined" =>
    \A s \in Users : /\ s \in req[h].todo => love[s] \in Open
                     /\ love[s] \in Open => s \in req[h].todo \union req[h].late

LEMMA HolderStep == TypeOK /\ OneHolder /\ [Next]_vars => OneHolder'
<1> SUFFICES ASSUME TypeOK, OneHolder, [Next]_vars PROVE OneHolder'
  OBVIOUS
<1>1. CASE UNCHANGED req
  BY <1>1 DEF OneHolder, HoldsLove
<1> DEFINE Free(h) == \A s \in Users : ~HoldsLove(h, s)'
<1>2. ASSUME NEW h \in Handlers, Free(h), \A j \in Handlers \ {h} : req'[j] = req[j]
      PROVE  OneHolder'
  BY <1>2 DEF OneHolder, HoldsLove
<1>3. ASSUME NEW h \in Handlers, NEW r \in Request \union {Idle}, Plain(h, r) PROVE OneHolder'
  <2>1. req'[h] = r /\ \A j \in Handlers \ {h} : req'[j] = req[j]
    BY <1>3 DEF Plain, TypeOK
  <2>2. Free(h)
    BY <1>3, <2>1 DEF Plain, HoldsLove, Blocking
  <2> QED
    BY <1>2, <2>1, <2>2
<1>4. ASSUME NEW h \in Handlers, NEW u \in Blockers, BlockStart(h, u) PROVE OneHolder'
  <2>1. req'[h].pc = "blocking" /\ \A j \in Handlers \ {h} : req'[j] = req[j]
    BY <1>4 DEF BlockStart, Begin, Work, TypeOK
  <2>2. Free(h)
    BY <2>1 DEF HoldsLove
  <2> QED
    BY <1>2, <2>1, <2>2
<1>5. ASSUME NEW h \in Handlers, SendLove(h) PROVE OneHolder'
  <2>1. ASSUME NEW j \in Handlers, NEW s \in Users, HoldsLove(j, s)' PROVE HoldsLove(j, s)
    BY <1>5, <2>1, Busy DEF SendLove, HoldsLove, Idle, Request
  <2> QED
    BY <2>1 DEF OneHolder
<1>6. ASSUME NEW h \in Handlers, AcceptLock(h) \/ BlockDecline(h) PROVE OneHolder'
  <2>1. \A j \in Handlers \ {h} : req'[j] = req[j]
    BY <1>6 DEF AcceptLock, Goto, BlockDecline, TypeOK
  <2>2. ASSUME NEW s \in Users, HoldsLove(h, s)' PROVE ~LoveLocked(s)
    BY <1>6, <2>2, Busy DEF AcceptLock, Goto, BlockDecline, HoldsLove, Request, TypeOK
  <2> QED
    BY <2>1, <2>2 DEF OneHolder, HoldsLove, LoveLocked
<1> QED
  BY <1>1, <1>3, <1>4, <1>5, <1>6, StepShapes

(* No step but SendLove opens a request, and none but the block's own       *)
(* commit closes one that a block holds.                                    *)
LEMMA HeldRequests ==
  ASSUME TypeOK, OneHolder, [Next]_vars, NEW s \in Users
  PROVE  /\ love'[s] \in Open /\ love[s] \notin Open =>
              \E h \in Handlers : SendLove(h) /\ req[h].user = s
         /\ \A j \in Handlers :
              req[j].pc = "declined" /\ s \in req[j].todo /\ love[s] \in Open
                => love'[s] \in Open \/ BlockCommit(j)
<1> DEFINE Kept == /\ love'[s] \in Open => love[s] \in Open
                   /\ LoveLocked(s) /\ love[s] \in Open => love'[s] \in Open
<1>0. ASSUME Kept
      PROVE  /\ ~(love'[s] \in Open /\ love[s] \notin Open)
             /\ \A j \in Handlers :
                  req[j].pc = "declined" /\ s \in req[j].todo /\ love[s] \in Open => love'[s] \in Open
  BY <1>0 DEF LoveLocked, HoldsLove
<1>1. CASE UNCHANGED love
  BY <1>1, <1>0
<1>2. ASSUME NEW h \in Handlers, SendLove(h)
      PROVE  /\ love'[s] \in Open /\ love[s] \notin Open => req[h].user = s
             /\ love[s] \in Open => love'[s] \in Open
  BY <1>2 DEF SendLove, Open, TypeOK
<1>3. ASSUME NEW h \in Handlers, AcceptExpire(h) PROVE Kept
  BY <1>3 DEF AcceptExpire, Open, TypeOK
<1>4. ASSUME NEW h \in Handlers, AcceptCommit(h)
      PROVE  /\ love'[s] \in Open => love[s] \in Open
             /\ \A j \in Handlers :
                  req[j].pc = "declined" /\ s \in req[j].todo => love'[s] = love[s]
  BY <1>4 DEF AcceptCommit, OneHolder, HoldsLove, Open, TypeOK
<1>5. ASSUME NEW h \in Handlers, BlockCommit(h)
      PROVE  /\ love'[s] \in Open => love[s] \in Open
             /\ \A j \in Handlers \ {h} :
                  req[j].pc = "declined" /\ s \in req[j].todo => love'[s] = love[s]
  BY <1>5 DEF BlockCommit, OneHolder, HoldsLove, Open, TypeOK
<1>6. ASSUME NEW u \in Users, Decline(u) \/ Cancel(u) PROVE Kept
  BY <1>6 DEF Decline, Cancel, Answer, Open, TypeOK
<1>7. ASSUME NEW u \in Users, Lapse(u) PROVE Kept
  BY <1>7 DEF Lapse, Open, TypeOK
<1>8. ASSUME ExpirationCron PROVE Kept
  BY <1>8 DEF ExpirationCron, Overdue, Open, TypeOK
<1> HIDE DEF Kept
<1>9. \/ UNCHANGED love \/ ExpirationCron
      \/ \E u \in Users : Decline(u) \/ Cancel(u) \/ Lapse(u)
      \/ \E h \in Handlers : SendLove(h) \/ AcceptExpire(h) \/ AcceptCommit(h) \/ BlockCommit(h)
  BY DEF Next, Serve, vars, ties, AskHit, AskMiss, AcceptRead, BlockStart, Unblock, Lookup, Fill,
     Unwelcome, ReadConnection, ReadExisting, Connect, OpenConversation, AcceptLock, BlockDecline,
     Invalidate, DeadlockAbort, Fail, CacheExpire, RemoveConnection
<1> QED
  BY <1>0, <1>1, <1>2, <1>3, <1>4, <1>5, <1>6, <1>7, <1>8, <1>9

LEMMA CaughtStep == TypeOK /\ OneHolder /\ Caught /\ [Next]_vars => Caught'
<1> SUFFICES ASSUME TypeOK, OneHolder, Caught, [Next]_vars PROVE Caught'
  OBVIOUS
<1>1. ASSUME NEW h \in Handlers, BlockDecline(h) PROVE Caught'
  <2>1. love' = love /\ \A j \in Handlers \ {h} : req'[j] = req[j]
    BY <1>1 DEF BlockDecline, ties, TypeOK
  <2>2. req'[h].todo = {s \in Users : love[s] \in Open}
    BY <1>1, Busy DEF BlockDecline, TypeOK, Request
  <2> QED
    BY <2>1, <2>2 DEF Caught
<1>2. ASSUME NEW h \in Handlers, SendLove(h) PROVE Caught'
  <2>1. req[h].user \in Users
    BY <1>2, Busy DEF SendLove, Request
  <2>2. ASSUME NEW j \in Handlers, req'[j].pc = "declined"
        PROVE  /\ req[j].pc = "declined" /\ req'[j].todo = req[j].todo
               /\ req'[j].late = req[j].late \union {req[h].user}
    BY <1>2, <2>2, Busy DEF SendLove, Idle, Request
  <2>3. \A s \in Users : love'[s] = IF s = req[h].user THEN "PENDING" ELSE love[s]
    BY <1>2, <2>1 DEF SendLove, TypeOK
  <2> QED
    BY <2>2, <2>3 DEF Caught, Open
<1>3. ASSUME \A h \in Handlers : ~SendLove(h),
             \A j \in Handlers : req'[j].pc = "declined" => req'[j] = req[j] /\ ~BlockCommit(j)
      PROVE  Caught'
  BY <1>3, HeldRequests DEF Caught
<1>4. ASSUME NEW h \in Handlers, req'[h].pc # "declined", ~SendLove(h),
             \A j \in Handlers \ {h} : req'[j] = req[j]
      PROVE  Caught'
  <2>1. ASSUME NEW j \in Handlers, BlockCommit(j) PROVE req'[j].pc = "invalidate"
    BY <2>1 DEF BlockCommit, Work, TypeOK
  <2>2. ASSUME NEW j \in Handlers, SendLove(j) PROVE req'[j] = Idle /\ req[j].pc # "idle"
    BY <2>2 DEF SendLove
  <2>3. \A j \in Handlers : ~SendLove(j)
    BY <1>4, <2>2 DEF Idle
  <2> QED
    BY <1>3, <1>4, <2>1, <2>3
<1>5. ASSUME NEW h \in Handlers, NEW r \in Request \union {Idle}, Plain(h, r), ~SendLove(h)
      PROVE  Caught'
  BY <1>4, <1>5 DEF Plain, Blocking, TypeOK
<1>6. ASSUME NEW h \in Handlers, NEW u \in Blockers, BlockStart(h, u) PROVE Caught'
  BY <1>4, <1>6 DEF BlockStart, Begin, Work, SendLove, TypeOK
<1>7. ASSUME NEW h \in Handlers, AcceptLock(h) PROVE Caught'
  BY <1>4, <1>7, Busy DEF AcceptLock, Goto, SendLove, Request, TypeOK
<1>8. CASE UNCHANGED req
  <2>1. \A j \in Handlers : ~SendLove(j) /\ ~BlockCommit(j)
    BY <1>8 DEF SendLove, BlockCommit, Work, Idle, TypeOK
  <2> QED
    BY <1>3, <1>8, <2>1
<1> QED
  BY <1>1, <1>2, <1>5, <1>6, <1>7, <1>8, StepShapes

(* A block that takes effect closes the requests of both directions that    *)
(* were not sent meanwhile, overwrites no answer, and leaves no connection  *)
(* it has seen.                                                             *)
THEOREM BlockCascadesHolds == Spec => BlockCascades
<1> DEFINE IInv == TypeOK /\ OneHolder /\ Caught
           Cascade(u) ==
             \E h \in Handlers :
               /\ req[h].pc = "declined" /\ req[h].user = u
               /\ \A s \in Users : /\ love'[s] \in Open => s \in req[h].late
                                   /\ love[s] \notin Open => love'[s] = love[s]
               /\ connection' = "ACTIVE" => ~req[h].seen
<1>1. Init => IInv
  BY TypeInit DEF Init, OneHolder, Caught, HoldsLove, Idle
<1>2. IInv /\ [Next]_vars => IInv'
  BY TypeStep, HolderStep, CaughtStep
<1>3. ASSUME IInv, [Next]_vars, NEW u \in blocks' \ blocks PROVE Cascade(u)
  <2>1. PICK h \in Handlers : BlockCommit(h)
    BY <1>3 DEF Next, Serve, vars, ties, AskHit, AskMiss, AcceptRead, BlockStart, Unblock, Lookup, Fill,
       Unwelcome, ReadConnection, ReadExisting, SendLove, Connect, OpenConversation, AcceptExpire,
       AcceptLock, AcceptCommit, BlockDecline, Invalidate, DeadlockAbort, Fail, Decline, Cancel,
       Answer, CacheExpire, Lapse, RemoveConnection, ExpirationCron
  <2>2. req[h].pc = "declined" /\ req[h].user = u
    BY <1>3, <2>1 DEF BlockCommit
  <2>3. \A s \in Users : /\ love'[s] \in Open => s \in req[h].late
                         /\ love[s] \notin Open => love'[s] = love[s]
    BY <1>3, <2>1, <2>2 DEF BlockCommit, Caught, Open
  <2>4. connection' = "ACTIVE" => ~req[h].seen
    BY <2>1 DEF BlockCommit
  <2> QED
    BY <2>2, <2>3, <2>4
<1>4. IInv /\ [Next]_vars => [\A u \in blocks' \ blocks : Cascade(u)]_vars
  BY <1>3
<1> QED
  BY <1>1, <1>2, <1>4, PTL DEF Spec, BlockCascades

-----------------------------------------------------------------------------
(* An accept that goes on to expire a request has found it overdue: if it   *)
(* is pending by now, it was sent again since.                              *)
FoundOverdue ==
  \A h \in Handlers : req[h].pc = "expire" =>
    req[h].user \in Users /\ (love[Peer(req[h].user)] = "PENDING" => Peer(req[h].user) \in req[h].late)

LEMMA OnlySendingPends ==
  ASSUME TypeOK, [Next]_vars, NEW s \in Users, love'[s] = "PENDING", love[s] # "PENDING"
  PROVE  \E h \in Handlers : SendLove(h) /\ req[h].user = s
<1>1. \/ UNCHANGED love \/ ExpirationCron
      \/ \E u \in Users : Decline(u) \/ Cancel(u) \/ Lapse(u)
      \/ \E h \in Handlers : SendLove(h) \/ AcceptExpire(h) \/ AcceptCommit(h) \/ BlockCommit(h)
  BY DEF Next, Serve, vars, ties, AskHit, AskMiss, AcceptRead, BlockStart, Unblock, Lookup, Fill,
     Unwelcome, ReadConnection, ReadExisting, Connect, OpenConversation, AcceptLock, BlockDecline,
     Invalidate, DeadlockAbort, Fail, CacheExpire, RemoveConnection
<1>2. ~ExpirationCron /\ \A u \in Users : ~(Decline(u) \/ Cancel(u) \/ Lapse(u))
  BY DEF ExpirationCron, Decline, Cancel, Answer, Lapse, TypeOK
<1>3. \A h \in Handlers : ~(AcceptExpire(h) \/ AcceptCommit(h) \/ BlockCommit(h))
  BY DEF AcceptExpire, AcceptCommit, BlockCommit, TypeOK
<1>4. \A h \in Handlers : SendLove(h) => req[h].user = s
  BY DEF SendLove, TypeOK
<1> QED
  BY <1>1, <1>2, <1>3, <1>4

(* Where a request comes from that is about to expire: none but AcceptRead  *)
(* makes one.                                                               *)
LEMMA ExpireOrigins ==
  ASSUME TypeOK, [Next]_vars, NEW h \in Handlers, req'[h].pc = "expire"
  PROVE  \/ req'[h] = req[h]
         \/ \E u \in Users : AcceptRead(h, u)
         \/ \E g \in Handlers : SendLove(g)
<1>1. ASSUME NEW g \in Handlers, NEW r, req' = [req EXCEPT ![g] = r], r.pc # "expire" PROVE req'[h] = req[h]
  BY <1>1 DEF TypeOK
<1>2. ASSUME NEW g \in Handlers, NEW pc, pc # "expire", req[g].pc # "idle", Goto(g, pc) PROVE req'[h] = req[h]
  <2>1. [req[g] EXCEPT !.pc = pc].pc = pc
    BY <1>2, Busy DEF Request
  <2> QED
    BY <1>1, <1>2, <2>1 DEF Goto
<1>3. ASSUME NEW g \in Handlers, Finish(g) PROVE req'[h] = req[h]
  BY <1>1, <1>3 DEF Finish, Idle
<1>4. ASSUME NEW g \in Handlers, NEW pc, NEW u \in Users, NEW op, pc # "expire", Begin(g, Work(pc, u, op))
      PROVE  req'[h] = req[h]
  <2>1. Work(pc, u, op).pc = pc
    BY DEF Work
  <2> QED
    BY <1>1, <1>4, <2>1 DEF Begin
<1>5. ASSUME NEW g \in Handlers, NEW u \in Users, AcceptRead(g, u)
      PROVE  req'[h] = req[h] \/ \E v \in Users : AcceptRead(h, v)
  BY <1>5 DEF AcceptRead, Begin, TypeOK
<1>6. ASSUME NEW g \in Handlers, NEW u \in Users, BlockStart(g, u) \/ Unblock(g, u) PROVE req'[h] = req[h]
  <2>1. [Work("blocking", u, "open") EXCEPT !.seen = (connection # "NONE")].pc = "blocking"
        /\ [Work("invalidate", u, "open") EXCEPT !.todo = Users].pc = "invalidate"
    BY DEF Work
  <2> QED
    BY <1>1, <1>6, <2>1 DEF BlockStart, Unblock, Begin
<1>7. ASSUME NEW g \in Handlers, BlockCommit(g) \/ BlockDecline(g) \/ Lookup(g) PROVE req'[h] = req[h]
  <2>1. req[g] \in Request /\ \A j \in Handlers \ {g} : req'[j] = req[j]
    BY <1>7, Busy DEF BlockCommit, BlockDecline, Lookup, TypeOK
  <2>2. req'[g].pc \in {"invalidate", "declined", "fill"}
    BY <1>7, <2>1 DEF BlockCommit, BlockDecline, Lookup, Work, Request, TypeOK
  <2> QED
    BY <2>1, <2>2
<1>8. ASSUME NEW g \in Handlers, NEW u \in Users, Invalidate(g, u) PROVE req'[h] = req[h]
  <2>1. [req[g] EXCEPT !.todo = @ \ {u}].pc = "invalidate"
    BY <1>8, Busy DEF Invalidate, Request
  <2> QED
    BY <1>1, <1>3, <1>8, <2>1 DEF Invalidate
<1>9. ASSUME NEW g \in Handlers,
             \/ Fill(g) \/ Unwelcome(g) \/ ReadConnection(g) \/ ReadExisting(g)
             \/ Connect(g) \/ OpenConversation(g) \/ AcceptExpire(g) \/ AcceptLock(g)
             \/ AcceptCommit(g) \/ DeadlockAbort(g) \/ Fail(g)
      PROVE  req'[h] = req[h]
  BY <1>2, <1>3, <1>9 DEF Fill, Unwelcome, ReadConnection, ReadExisting, Connect, OpenConversation,
     AcceptExpire, AcceptLock, AcceptCommit, DeadlockAbort, Fail
<1>10. ASSUME NEW g \in Handlers, NEW u \in Users, NEW op \in Operations, AskHit(g, u, op) \/ AskMiss(g, u, op)
       PROVE  req'[h] = req[h]
  BY <1>4, <1>10 DEF AskHit, AskMiss
<1> QED
  BY <1>5, <1>6, <1>7, <1>8, <1>9, <1>10
     DEF Next, Serve, vars, Decline, Cancel, Answer, CacheExpire, Lapse, RemoveConnection, ExpirationCron

LEMMA FoundOverdueStep == TypeOK /\ FoundOverdue /\ [Next]_vars => FoundOverdue'
<1> SUFFICES ASSUME TypeOK, FoundOverdue, [Next]_vars, NEW h \in Handlers, req'[h].pc = "expire"
             PROVE  /\ req'[h].user \in Users
                    /\ love'[Peer(req'[h].user)] = "PENDING" => Peer(req'[h].user) \in req'[h].late
  BY DEF FoundOverdue
<1>1. ASSUME NEW g \in Handlers, SendLove(g)
      PROVE  /\ req[h].pc = "expire" /\ req'[h].user = req[h].user
             /\ req'[h].late = req[h].late \union {req[g].user}
             /\ \A s \in Users : love'[s] = "PENDING" => love[s] = "PENDING" \/ s = req[g].user
  <2>1. \A s \in Users : love'[s] = "PENDING" => love[s] = "PENDING" \/ s = req[g].user
    BY <1>1 DEF SendLove, TypeOK
  <2> QED
    BY <1>1, <2>1, Busy DEF SendLove, Idle, Request
<1>2. CASE \E g \in Handlers : SendLove(g)
  BY <1>1, <1>2, PeerIsUser DEF FoundOverdue
<1>3. CASE req'[h] = req[h] /\ ~\E g \in Handlers : SendLove(g)
  BY <1>3, PeerIsUser, OnlySendingPends DEF FoundOverdue
<1>4. ASSUME NEW u \in Users, AcceptRead(h, u)
      PROVE  req'[h].user = u /\ love'[Peer(u)] = "OVERDUE"
  <2>1. req'[h] = Work(IF love[Peer(u)] = "OVERDUE" THEN "expire" ELSE "accept", u, "open") /\ love' = love
    BY <1>4 DEF AcceptRead, Begin, TypeOK, ties
  <2> QED
    BY <2>1 DEF Work
<1> QED
  BY <1>2, <1>3, <1>4, ExpireOrigins

(* A request that is not overdue expires only by an accept that has found   *)
(* it overdue before it was sent again: the cron selects what is overdue by *)
(* the statement that writes it, the accept by an earlier one.              *)
THEOREM PendingSurvivesHolds == Spec => PendingSurvives
<1> DEFINE Late(s) == \E h \in Handlers : AcceptExpire(h) /\ Peer(req[h].user) = s /\ s \in req[h].late
<1>1. Init => FoundOverdue
  BY DEF Init, FoundOverdue, Idle
<1>2. ASSUME TypeOK, FoundOverdue, [Next]_vars, NEW s \in Users, love[s] = "PENDING", love'[s] = "EXPIRED"
      PROVE  Late(s)
  <2>1. \/ ExpirationCron
        \/ \E u \in Users : Decline(u) \/ Cancel(u) \/ Lapse(u)
        \/ \E h \in Handlers : SendLove(h) \/ AcceptExpire(h) \/ AcceptCommit(h) \/ BlockCommit(h)
    BY <1>2 DEF Next, Serve, vars, ties, AskHit, AskMiss, AcceptRead, BlockStart, Unblock, Lookup, Fill,
       Unwelcome, ReadConnection, ReadExisting, Connect, OpenConversation, AcceptLock, BlockDecline,
       Invalidate, DeadlockAbort, Fail, CacheExpire, RemoveConnection
  <2>2. ~ExpirationCron /\ \A u \in Users : ~(Decline(u) \/ Cancel(u) \/ Lapse(u))
    BY <1>2 DEF ExpirationCron, Overdue, Decline, Cancel, Answer, Lapse, TypeOK
  <2>3. \A h \in Handlers : ~(SendLove(h) \/ AcceptCommit(h) \/ BlockCommit(h))
    BY <1>2 DEF SendLove, AcceptCommit, BlockCommit, TypeOK
  <2>4. ASSUME NEW h \in Handlers, AcceptExpire(h) PROVE Peer(req[h].user) = s /\ s \in req[h].late
    <3>1. Peer(req[h].user) = s
      BY <1>2, <2>4 DEF AcceptExpire, TypeOK
    <3> QED
      BY <1>2, <2>4, <3>1 DEF AcceptExpire, FoundOverdue
  <2> QED
    BY <2>1, <2>2, <2>3, <2>4
<1>3. TypeOK /\ FoundOverdue /\ [Next]_vars =>
        [\A s \in Users : love[s] = "PENDING" /\ love'[s] = "EXPIRED" => Late(s)]_vars
  BY <1>2
<1> QED
  BY <1>1, <1>3, TypeCorrect, FoundOverdueStep, PTL DEF Spec, PendingSurvives
=============================================================================
