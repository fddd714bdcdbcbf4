----------------------------- MODULE SocialGraph -----------------------------
(***************************************************************************)
(* The ties of one pair of members: blocks and their Redis cache           *)
(* (blocks.service.ts), love requests and their expiry                     *)
(* (love-requests.service.ts), the connection (connections.service.ts) and *)
(* the direct conversation (messages.service.ts).                          *)
(*                                                                         *)
(* A request runs on a handler and stops at its awaits.  The block check   *)
(* of an operation comes before its transaction and may be answered from   *)
(* the cache; accepting a love request makes no block check.  Transactions *)
(* are READ COMMITTED and their writes are seen at the commit.  Two of     *)
(* them lock rows at different times: accept first the love request, then  *)
(* the connection; block first the connection, then the love requests.     *)
(***************************************************************************)
EXTENDS Integers, FiniteSets

CONSTANTS Ann, Ben,      \* the pair
          Handlers,      \* requests in progress at one time
          Askers,        \* the members who make requests behind a block check
          Operations,    \* what they ask for
          Blockers,      \* the members who block and unblock
          MayFail        \* whether transactions roll back and functions are killed

Users == {Ann, Ben}
Peer(u) == IF u = Ann THEN Ben ELSE Ann

ASSUME PairAssumption == Ann # Ben /\ Askers \subseteq Users /\ Blockers \subseteq Users
ASSUME OperationsAssumption == Operations \subseteq {"love", "connect", "open"}
ASSUME FailAssumption == MayFail \in BOOLEAN

(* PENDING with an expiresAt that has passed is OVERDUE. *)
Open == {"PENDING", "OVERDUE"}
LoveStatuses == Open \union {"NONE", "ACCEPTED", "DECLINED", "CANCELLED", "EXPIRED"}
ConnectionStatuses == {"NONE", "ACTIVE", "REMOVED", "BLOCKED"}

VARIABLES blocks,        \* who of the pair has a blocks row about the other
          cache,         \* cache[u]: what blocks:u in Redis says about the peer
          love,          \* love[s]: the request s has sent to the peer
          connection,    \* the status of the pair's connections row
          conversation,  \* whether the direct conversation exists
          req            \* req[h]: the request handler h works on

ties == <<love, connection, conversation>>
vars == <<blocks, cache, ties, req>>

Pcs == {"lookup", "fill", "cleared",         \* isBlockedEither
        "unconnected", "sending",            \* sendLove
        "accept", "expire", "accepted",      \* accept
        "blocking", "declined", "invalidate"}   \* block, unblock
Checked == {"love", "connect", "open"}   \* sendLove, createConnection, createDirectConversation

Request == [pc : Pcs, user : Users, op : Checked,
            seen : BOOLEAN,          \* what the lookup found; that block holds the connection row
            todo : SUBSET Users,     \* the senders whose requests block has declined; then
                                    \* the cache keys still to be deleted
            late : SUBSET Users]     \* history: the requests sent since block declined,
                                    \* or since accept found one overdue
Idle == [pc |-> "idle"]

TypeOK ==
  /\ blocks \in SUBSET Users
  /\ cache \in [Users -> {"absent", "clear", "blocked"}]
  /\ love \in [Users -> LoveStatuses]
  /\ connection \in ConnectionStatuses
  /\ conversation \in BOOLEAN
  /\ req \in [Handlers -> Request \union {Idle}]

Init ==
  /\ blocks = {}
  /\ cache = [u \in Users |-> "absent"]
  /\ love = [u \in Users |-> "NONE"]
  /\ connection = "NONE"
  /\ conversation = FALSE
  /\ req = [h \in Handlers |-> Idle]

(* Row locks, held by the transactions that have written the row. *)
HoldsLove(h, s) ==
  \/ req[h].pc = "accepted" /\ Peer(req[h].user) = s
  \/ req[h].pc = "declined" /\ s \in req[h].todo
LoveLocked(s) == \E h \in Handlers : HoldsLove(h, s)
ConnectionLocked == \E h \in Handlers : req[h].pc \in {"blocking", "declined"} /\ req[h].seen
BlockLocked(u) == \E h \in Handlers : req[h].pc \in {"blocking", "declined"} /\ req[h].user = u

Work(pc, u, op) == [pc |-> pc, user |-> u, op |-> op, seen |-> FALSE, todo |-> {}, late |-> {}]
Begin(h, r) == req[h].pc = "idle" /\ req' = [req EXCEPT ![h] = r]
Goto(h, pc) == req' = [req EXCEPT ![h].pc = pc]
Finish(h) == req' = [req EXCEPT ![h] = Idle]

-----------------------------------------------------------------------------
(* isBlockedEither: the cache, or the blocks rows of both directions, which *)
(* are then cached.                                                         *)

AskHit(h, u, op) ==
  /\ cache[u] = "clear"
  /\ Begin(h, Work("cleared", u, op))
  /\ UNCHANGED <<blocks, cache, ties>>

(* A key that is not there, or a Redis that does not answer. *)
AskMiss(h, u, op) ==
  /\ cache[u] = "absent" \/ MayFail
  /\ Begin(h, Work("lookup", u, op))
  /\ UNCHANGED <<blocks, cache, ties>>

(* Mutant: the rows of one direction only. *)
Lookup_OwnBlocksOnly(h) ==
  /\ req[h].pc = "lookup"
  /\ req' = [req EXCEPT ![h].pc = "fill", ![h].seen = (req[h].user \in blocks)]
  /\ UNCHANGED <<blocks, cache, ties>>

Lookup(h) ==
  /\ req[h].pc = "lookup"
  /\ req' = [req EXCEPT ![h].pc = "fill", ![h].seen = (blocks # {})]
  /\ UNCHANGED <<blocks, cache, ties>>

(* The cache is written as far as Redis answers. *)
Fill(h) ==
  /\ req[h].pc = "fill"
  /\ \/ cache' = [cache EXCEPT ![req[h].user] = IF req[h].seen THEN "blocked" ELSE "clear"]
     \/ MayFail /\ UNCHANGED cache
  /\ IF req[h].seen THEN Finish(h) ELSE Goto(h, "cleared")
  /\ UNCHANGED <<blocks, ties>>

(* Mutant: the key is written without a lifetime. *)
CacheExpire_Never(u) == FALSE

(* CACHE_TTL_SECONDS have passed. *)
CacheExpire(u) ==
  /\ cache[u] # "absent"
  /\ cache' = [cache EXCEPT ![u] = "absent"]
  /\ UNCHANGED <<blocks, ties, req>>

-----------------------------------------------------------------------------
(* sendLove *)

(* The receiver does not accept love requests. *)
Unwelcome(h) ==
  /\ req[h].pc = "cleared" /\ req[h].op = "love"
  /\ Finish(h)
  /\ UNCHANGED <<blocks, cache, ties>>

ReadConnection(h) ==
  /\ req[h].pc = "cleared" /\ req[h].op = "love"
  /\ IF connection = "ACTIVE" THEN Finish(h) ELSE Goto(h, "unconnected")
  /\ UNCHANGED <<blocks, cache, ties>>

ReadExisting(h) ==
  /\ req[h].pc = "unconnected"
  /\ IF love[req[h].user] = "PENDING" THEN Finish(h) ELSE Goto(h, "sending")
  /\ UNCHANGED <<blocks, cache, ties>>

SendLove(h) ==
  /\ req[h].pc = "sending"
  /\ ~LoveLocked(req[h].user)
  /\ love' = [love EXCEPT ![req[h].user] = "PENDING"]
  /\ req' = [j \in Handlers |->
               IF j = h THEN Idle
               ELSE IF req[j].pc \in {"declined", "expire"} THEN [req[j] EXCEPT !.late = @ \union {req[h].user}]
               ELSE req[j]]
  /\ UNCHANGED <<blocks, cache, connection, conversation>>

(* createConnection *)
Connect(h) ==
  /\ req[h].pc = "cleared" /\ req[h].op = "connect"
  /\ ~ConnectionLocked
  /\ connection' = "ACTIVE"
  /\ conversation' = TRUE
  /\ Finish(h)
  /\ UNCHANGED <<blocks, cache, love>>

(* createDirectConversation *)
OpenConversation(h) ==
  /\ req[h].pc = "cleared" /\ req[h].op = "open"
  /\ conversation' = TRUE
  /\ Finish(h)
  /\ UNCHANGED <<blocks, cache, love, connection>>

-----------------------------------------------------------------------------
(* accept, by the receiver u of the peer's request *)

AcceptRead(h, u) ==
  /\ love[Peer(u)] \in Open
  /\ Begin(h, Work(IF love[Peer(u)] = "OVERDUE" THEN "expire" ELSE "accept", u, "open"))
  /\ UNCHANGED <<blocks, cache, ties>>

AcceptExpire(h) ==
  LET s == Peer(req[h].user)
  IN /\ req[h].pc = "expire"
     /\ ~LoveLocked(s)
     /\ love' = [love EXCEPT ![s] = "EXPIRED"]
     /\ Finish(h)
     /\ UNCHANGED <<blocks, cache, connection, conversation>>

AcceptLock(h) ==
  /\ req[h].pc = "accept"
  /\ ~LoveLocked(Peer(req[h].user))
  /\ Goto(h, "accepted")
  /\ UNCHANGED <<blocks, cache, ties>>

(* Mutant: the conversation is left to the first message. *)
AcceptCommit_NoConversation(h) ==
  /\ req[h].pc = "accepted"
  /\ ~ConnectionLocked
  /\ love' = [love EXCEPT ![Peer(req[h].user)] = "ACCEPTED"]
  /\ connection' = "ACTIVE"
  /\ Finish(h)
  /\ UNCHANGED <<blocks, cache, conversation>>

AcceptCommit(h) ==
  /\ req[h].pc = "accepted"
  /\ ~ConnectionLocked
  /\ love' = [love EXCEPT ![Peer(req[h].user)] = "ACCEPTED"]
  /\ connection' = "ACTIVE"
  /\ conversation' = TRUE
  /\ Finish(h)
  /\ UNCHANGED <<blocks, cache>>

-----------------------------------------------------------------------------
(* decline, cancel, removeConnection: found by id, whatever their status *)

Answer(s, status) ==
  /\ love[s] # "NONE"
  /\ ~LoveLocked(s)
  /\ love' = [love EXCEPT ![s] = status]
  /\ UNCHANGED <<blocks, cache, connection, conversation, req>>

Decline(u) == Answer(Peer(u), "DECLINED")
Cancel(u) == Answer(u, "CANCELLED")

RemoveConnection ==
  /\ connection # "NONE"
  /\ ~ConnectionLocked
  /\ connection' = "REMOVED"
  /\ UNCHANGED <<blocks, cache, love, conversation, req>>

-----------------------------------------------------------------------------
(* block and unblock *)

(* The blocks row and, where there is one, the connections row. *)
BlockStart(h, u) ==
  /\ ~BlockLocked(u)
  /\ ~ConnectionLocked
  /\ Begin(h, [Work("blocking", u, "open") EXCEPT !.seen = (connection # "NONE")])
  /\ UNCHANGED <<blocks, cache, ties>>

(* Mutant: only the requests the blocker has received are declined. *)
BlockDecline_OneDirection(h) ==
  LET open == {s \in Users : love[s] \in Open /\ s # req[h].user}
  IN /\ req[h].pc = "blocking"
     /\ \A s \in open : ~LoveLocked(s)
     /\ req' = [req EXCEPT ![h].pc = "declined", ![h].todo = open]
     /\ UNCHANGED <<blocks, cache, ties>>

(* The open love requests of both directions.  One that is sent before the  *)
(* commit is not among them.                                                *)
BlockDecline(h) ==
  LET open == {s \in Users : love[s] \in Open}
  IN /\ req[h].pc = "blocking"
     /\ \A s \in open : ~LoveLocked(s)
     /\ req' = [req EXCEPT ![h].pc = "declined", ![h].todo = open]
     /\ UNCHANGED <<blocks, cache, ties>>

BlockCommit(h) ==
  /\ req[h].pc = "declined"
  /\ blocks' = blocks \union {req[h].user}
  /\ connection' = IF req[h].seen THEN "BLOCKED" ELSE connection
  /\ love' = [s \in Users |-> IF s \in req[h].todo THEN "DECLINED" ELSE love[s]]
  /\ req' = [req EXCEPT ![h] = [Work("invalidate", @.user, "open") EXCEPT !.todo = Users]]
  /\ UNCHANGED <<cache, conversation>>

Unblock(h, u) ==
  /\ ~BlockLocked(u)
  /\ blocks' = blocks \ {u}
  /\ Begin(h, [Work("invalidate", u, "open") EXCEPT !.todo = Users])
  /\ UNCHANGED <<cache, ties>>

(* The two DEL commands are sent together and may be done in any order. *)
Invalidate(h, u) ==
  /\ req[h].pc = "invalidate"
  /\ u \in req[h].todo
  /\ cache' = [cache EXCEPT ![u] = "absent"]
  /\ IF req[h].todo = {u} THEN Finish(h) ELSE req' = [req EXCEPT ![h].todo = @ \ {u}]
  /\ UNCHANGED <<blocks, ties>>

-----------------------------------------------------------------------------
(* Time, and what goes wrong *)

(* 48 hours have passed. *)
Lapse(s) ==
  /\ love[s] = "PENDING"
  /\ love' = [love EXCEPT ![s] = "OVERDUE"]
  /\ UNCHANGED <<blocks, cache, connection, conversation, req>>

Overdue == {s \in Users : love[s] = "OVERDUE"}

(* Mutant: the requests that have not expired yet are selected. *)
ExpirationCron_Inverted ==
  LET selected == {s \in Users : love[s] = "PENDING"}
  IN /\ selected # {}
     /\ \A s \in selected : ~LoveLocked(s)
     /\ love' = [s \in Users |-> IF s \in selected THEN "EXPIRED" ELSE love[s]]
     /\ UNCHANGED <<blocks, cache, connection, conversation, req>>

(* handleExpirationCron *)
ExpirationCron ==
  /\ Overdue # {}
  /\ \A s \in Overdue : ~LoveLocked(s)
  /\ love' = [s \in Users |-> IF s \in Overdue THEN "EXPIRED" ELSE love[s]]
  /\ UNCHANGED <<blocks, cache, connection, conversation, req>>

(* An accept that waits for the connection a block has written, and a block *)
(* that waits for the love request the accept has written: the database     *)
(* aborts one of the two.                                                   *)
DeadlockAbort(h) ==
  /\ \E j, k \in Handlers : /\ req[j].pc = "accepted" /\ love[Peer(req[j].user)] \in Open
                            /\ req[k].pc = "blocking" /\ req[k].seen
                            /\ h \in {j, k}
  /\ Finish(h)
  /\ UNCHANGED <<blocks, cache, ties>>

(* A transaction is rolled back or the function is killed: the request ends *)
(* where it is, a block possibly before its invalidation.                   *)
Fail(h) ==
  /\ MayFail
  /\ req[h].pc # "idle"
  /\ Finish(h)
  /\ UNCHANGED <<blocks, cache, ties>>

-----------------------------------------------------------------------------
Serve(h) ==
  \/ Lookup(h) \/ Fill(h)
  \/ Unwelcome(h) \/ ReadConnection(h) \/ ReadExisting(h) \/ SendLove(h)
  \/ Connect(h) \/ OpenConversation(h)
  \/ AcceptExpire(h) \/ AcceptLock(h) \/ AcceptCommit(h)
  \/ BlockDecline(h) \/ BlockCommit(h) \/ (\E u \in Users : Invalidate(h, u))
  \/ DeadlockAbort(h)

Next ==
  \/ \E h \in Handlers, u \in Askers, op \in Operations : AskHit(h, u, op) \/ AskMiss(h, u, op)
  \/ \E h \in Handlers, u \in Users : AcceptRead(h, u)
  \/ \E h \in Handlers, u \in Blockers : BlockStart(h, u) \/ Unblock(h, u)
  \/ \E h \in Handlers : Serve(h) \/ Fail(h)
  \/ \E u \in Users : Decline(u) \/ Cancel(u) \/ CacheExpire(u) \/ Lapse(u)
  \/ RemoveConnection
  \/ ExpirationCron

Spec == Init /\ [][Next]_vars

(* Handlers progress (row locks are granted in queue order, deadlocks are   *)
(* broken), the scheduler runs the cron, and Redis expires keys.            *)
FairSpec ==
  /\ Spec
  /\ \A h \in Handlers : SF_vars(Serve(h))
  /\ SF_vars(ExpirationCron)
  /\ \A u \in Users : WF_vars(CacheExpire(u))

-----------------------------------------------------------------------------
(* Properties *)

(* Whoever was ever connected can talk, and whoever accepted a love request *)
(* has been connected, whichever of accept, connect, block and remove met.  *)
TiesAreWhole ==
  /\ connection # "NONE" => conversation
  /\ \A s \in Users : love[s] = "ACCEPTED" => connection # "NONE"

(* When a block takes effect no love request of either direction is open    *)
(* but one sent while its transaction ran, an answer that has been given is *)
(* not overwritten, and the connection is active only if it did not exist   *)
(* yet when the transaction looked for it.                                  *)
BlockCascades ==
  [][\A u \in blocks' \ blocks :
       \E h \in Handlers :
         /\ req[h].pc = "declined" /\ req[h].user = u
         /\ \A s \in Users : /\ love'[s] \in Open => s \in req[h].late
                             /\ love[s] \notin Open => love'[s] = love[s]
         /\ connection' = "ACTIVE" => ~req[h].seen]_vars

(* A request that will no longer consult the block relation before it makes *)
(* a tie, or that will cache that there is no block.                        *)
Careless(r) ==
  \/ r.pc \in {"cleared", "unconnected", "sending", "accept", "accepted"}
  \/ r.pc = "fill" /\ ~r.seen

(* The pair is sealed off: a block holds, nothing is open between the two,  *)
(* no cache denies the block and no request is past its block check.        *)
Sealed ==
  /\ blocks # {}
  /\ connection # "ACTIVE"
  /\ \A s \in Users : love[s] \notin Open
  /\ \A u \in Users : cache[u] # "clear"
  /\ \A h \in Handlers : ~Careless(req[h])

(* Once sealed off, the pair stays so until the last block is lifted,       *)
(* whoever of the two made it: the check of isBlockedEither is symmetric.   *)
SealedStays == [][Sealed => Sealed' \/ blocks' = {}]_vars

(* If a block stays, both caches tell it in the end, although a lookup that *)
(* started before the block may fill a cache after its invalidation.        *)
BlockEventuallyHides ==
  <>[](blocks # {}) => <>[](\A u \in Users : cache[u] # "clear")

(* README.md:70 "unreciprocated requests expire cleanly": an overdue        *)
(* request does not stay open, and one that is not overdue expires only by  *)
(* an accept that had found it overdue before it was sent again.            *)
OverdueLapses == \A s \in Users : love[s] = "OVERDUE" ~> love[s] # "OVERDUE"
PendingSurvives ==
  [][\A s \in Users : love[s] = "PENDING" /\ love'[s] = "EXPIRED" =>
       \E h \in Handlers : AcceptExpire(h) /\ Peer(req[h].user) = s /\ s \in req[h].late]_vars
ExpiresCleanly == OverdueLapses /\ PendingSurvives

(* What the code's documents claim, for the runs that refute it.            *)
AtRest == \A h \in Handlers : req[h].pc = "idle"

(* blocks.service.ts:42 "A block tears down the existing relationship in    *)
(* both directions": at rest no blocked pair is connected.                  *)
BlockSeparates == AtRest /\ blocks # {} => connection # "ACTIVE"

(* love-requests.service.ts:101 "Love Request sent! Active for 48 hours": a *)
(* request that is not overdue does not expire.                             *)
ActiveFor48Hours ==
  [][\A s \in Users : love[s] = "PENDING" => love'[s] # "EXPIRED"]_vars
=============================================================================
