--------------------------- MODULE MessagingProofs ---------------------------
(***************************************************************************)
(* One conversation and the presence of its members, for any users,        *)
(* messages, sockets and handlers, any size of a page and any clock.       *)
(*                                                                         *)
(* What a request has read at an earlier await must still mean something   *)
(* when it goes on.  The parts of the invariant say what: the times it has *)
(* noted are not ahead of the clock, the message it writes is nobody       *)
(* else's, the socket it verifies is waiting for it, and a listing has     *)
(* everything it owes either collected or still before it.                 *)
(***************************************************************************)
EXTENDS Messaging, TLAPS

USE UsersAssumption, KindsAssumption, MaxTimeAssumption

-----------------------------------------------------------------------------
(* Requests                                                                 *)

Asked == {"block", "privacy", "connection", "create"}   \* sendMessage before its row
Listings == {"page", "end"}

LEMMA RequestKinds ==
  ASSUME TypeOK, NEW h \in Handlers
  PROVE  /\ req[h].pc \in Asked => req[h].user \in Users
         /\ req[h].pc = "commit" => req[h].user \in Users /\ req[h].message \in Messages /\ req[h].at \in 1..MaxTime
         /\ req[h].pc \in {"read", "marking"} => req[h].user \in Users /\ req[h].at \in 1..MaxTime
         /\ req[h].pc = "marking" => req[h].there \subseteq Messages
         /\ req[h].pc = "verify" => req[h].socket \in Sockets
         /\ req[h].pc \in Listings => req[h].old \subseteq Messages /\ req[h].got \subseteq Messages
         /\ req[h].pc = "page" => req[h].cursor \subseteq Messages
<1>1. req[h] \in Request \union {Idle}
  BY DEF TypeOK
<1> QED
  BY <1>1 DEF Request, Idle, Asked, Listings

LEMMA BecomeMoves ==
  ASSUME TypeOK, NEW h \in Handlers, NEW request, Become(h, request)
  PROVE  /\ req'[h] = request
         /\ \A g \in Handlers : g # h => req'[g] = req[g]
         /\ request \in Request => req' \in [Handlers -> Request \union {Idle}]
BY DEF TypeOK, Become

LEMMA StartMoves ==
  ASSUME TypeOK, NEW h \in Handlers, NEW request, Start(h, request)
  PROVE  /\ req[h].pc = "idle" /\ req'[h] = request
         /\ \A g \in Handlers : g # h => req'[g] = req[g]
         /\ request \in Request => req' \in [Handlers -> Request \union {Idle}]
BY DEF TypeOK, Start

LEMMA FinishMoves ==
  ASSUME TypeOK, NEW h \in Handlers, Finish(h)
  PROVE  /\ req'[h] = Idle
         /\ \A g \in Handlers : g # h => req'[g] = req[g]
         /\ req' \in [Handlers -> Request \union {Idle}]
BY DEF TypeOK, Finish, Become

(* A request of sendMessage goes on to the next check.                      *)
LEMMA Asks ==
  ASSUME TypeOK, NEW h \in Handlers, req[h].pc \in Asked, NEW pc \in Asked
  PROVE  [req[h] EXCEPT !.pc = pc] \in Request
<1>1. req[h] \in [pc : {"block", "privacy", "connection", "create"}, user : Users]
  BY DEF TypeOK, Request, Idle, Asked
<1> QED
  BY <1>1 DEF Request, Asked

(* The request of one handler goes from one await to another.               *)
Hands(h, from, to) ==
  /\ req[h].pc \in from /\ req'[h].pc \in to
  /\ \A g \in Handlers : g # h => req'[g] = req[g]

LEMMA SendHands ==
  ASSUME TypeOK, NEW h \in Handlers
  PROVE  /\ \A u \in Users : SendMember(h, u) => Hands(h, {"idle"}, {IF kind = "DIRECT" THEN "block" ELSE "create"})
         /\ Announce(h) => Hands(h, {"idle"}, {"create"})
         /\ SendBlock(h) => Hands(h, {"block"}, {IF blocked THEN "idle" ELSE "privacy"})
         /\ SendPrivacy(h) =>
              Hands(h, {"privacy"}, {CASE permission = "NOBODY" -> "idle"
                                       [] permission = "CONNECTIONS_ONLY" -> "connection"
                                       [] OTHER -> "create"})
         /\ SendConnection(h) => Hands(h, {"connection"}, {IF connected THEN "create" ELSE "idle"})
         /\ \A m \in Messages : SendCreate(h, m) => Hands(h, {"create"}, {"commit"})
         /\ SendCommit(h) => Hands(h, {"commit"}, {"idle"})
<1>1. \A u \in Users : SendMember(h, u) => Hands(h, {"idle"}, {IF kind = "DIRECT" THEN "block" ELSE "create"})
  BY StartMoves DEF SendMember, Hands
<1>2. Announce(h) => Hands(h, {"idle"}, {"create"})
  BY <1>1 DEF Announce
<1>3. req[h].pc \in Asked =>
        \A pc \in Asked : Become(h, [req[h] EXCEPT !.pc = pc]) => Hands(h, {req[h].pc}, {pc})
  <2> SUFFICES ASSUME req[h].pc \in Asked, NEW pc \in Asked, Become(h, [req[h] EXCEPT !.pc = pc])
               PROVE  Hands(h, {req[h].pc}, {pc})
    OBVIOUS
  <2>1. req[h] \in [pc : {"block", "privacy", "connection", "create"}, user : Users]
    BY DEF TypeOK, Request, Idle, Asked
  <2>2. [req[h] EXCEPT !.pc = pc].pc = pc
    BY <2>1
  <2>3. req'[h].pc = pc /\ \A g \in Handlers : g # h => req'[g] = req[g]
    BY <2>2, BecomeMoves
  <2> QED
    BY <2>3 DEF Hands
<1>4. Finish(h) => Hands(h, {req[h].pc}, {"idle"})
  BY FinishMoves DEF Hands, Idle
<1>5. SendBlock(h) => Hands(h, {"block"}, {IF blocked THEN "idle" ELSE "privacy"})
  BY <1>3, <1>4 DEF SendBlock, Asked
<1>6. SendPrivacy(h) =>
        Hands(h, {"privacy"}, {CASE permission = "NOBODY" -> "idle"
                                 [] permission = "CONNECTIONS_ONLY" -> "connection"
                                 [] OTHER -> "create"})
  BY <1>3, <1>4 DEF SendPrivacy, Asked
<1>7. SendConnection(h) => Hands(h, {"connection"}, {IF connected THEN "create" ELSE "idle"})
  BY <1>3, <1>4 DEF SendConnection, Asked
<1>8. \A m \in Messages : SendCreate(h, m) => Hands(h, {"create"}, {"commit"})
  BY BecomeMoves DEF SendCreate, Hands
<1>9. SendCommit(h) => Hands(h, {"commit"}, {"idle"})
  BY <1>4 DEF SendCommit
<1> QED
  BY <1>1, <1>2, <1>5, <1>6, <1>7, <1>8, <1>9

LEMMA OtherHands ==
  ASSUME TypeOK, NEW h \in Handlers
  PROVE  /\ \A u \in Users : PageFirst(h, u) => Hands(h, {"idle"}, {"page"})
         /\ \A items \in SUBSET Messages, last \in Messages : PageNext(h, items, last) => Hands(h, {"page"}, {"page"})
         /\ PageLast(h) => Hands(h, {"page"}, {"end"})
         /\ \A u \in Users : ReadNow(h, u) => Hands(h, {"idle"}, {"read"})
         /\ \A s \in Sockets : ReadOverSocket(h, s) => Hands(h, {"idle"}, {"read"})
         /\ ReadFind(h) => Hands(h, {"read"}, {"marking"})
         /\ ReadCommit(h) => Hands(h, {"marking"}, {"idle"})
         /\ \A s \in Sockets, u \in Watchers : Connect(h, s, u) => Hands(h, {"idle"}, {"verify"})
         /\ Verified(h) => Hands(h, {"verify"}, {"idle"})
         /\ Rejected(h) => Hands(h, {"verify"}, {"idle"})
         /\ Fail(h) => Hands(h, {req[h].pc}, {"idle"})
<1>1. \A u \in Users : PageFirst(h, u) => Hands(h, {"idle"}, {"page"})
  BY StartMoves DEF PageFirst, Hands
<1>2. \A items \in SUBSET Messages, last \in Messages : PageNext(h, items, last) => Hands(h, {"page"}, {"page"})
  BY BecomeMoves DEF PageNext, Page, Turn, Hands
<1>3. PageLast(h) => Hands(h, {"page"}, {"end"})
  BY BecomeMoves DEF PageLast, Hands
<1>4. \A u : ReadNow(h, u) => Hands(h, {"idle"}, {"read"})
  BY StartMoves DEF ReadNow, Hands
<1>5. \A s \in Sockets, u \in Watchers : Connect(h, s, u) => Hands(h, {"idle"}, {"verify"})
  BY StartMoves DEF Connect, Hands
<1>6. Finish(h) => Hands(h, {req[h].pc}, {"idle"})
  BY FinishMoves DEF Hands, Idle
<1>7. ReadFind(h) => Hands(h, {"read"}, {"marking"})
  BY BecomeMoves DEF ReadFind, Hands
<1> QED
  BY <1>1, <1>2, <1>3, <1>4, <1>5, <1>6, <1>7 DEF ReadOverSocket, ReadCommit, Verified, Rejected, Fail

(* The end of a process lets go of the sockets it serves and of the         *)
(* requests that verify them, and of nothing else.                          *)
LEMMA EndLetsGo ==
  ASSUME TypeOK, NEW ended \in SUBSET Sockets, ProcessEnds(ended)
  PROVE  /\ \A h \in Handlers :
              IF req[h].pc = "verify" /\ req[h].socket \in ended THEN req'[h] = Idle ELSE req'[h] = req[h]
         /\ \A s \in Sockets : IF s \in ended THEN socket'[s] = Closed ELSE socket'[s] = socket[s]
         /\ req' \in [Handlers -> Request \union {Idle}]
         /\ socket' \in [Sockets -> Socket \union {Closed}]
BY DEF ProcessEnds, TypeOK

-----------------------------------------------------------------------------
(* The invariant                                                            *)

(* What a request has noted of the clock is not ahead of it.                *)
InTime == \A h \in Handlers : req[h].pc \in {"commit", "read", "marking"} => req[h].at <= now

(* A socket is being verified by one request, and waits for it, or is gone  *)
(* already.                                                                 *)
Attended ==
  \A h \in Handlers : req[h].pc = "verify" =>
    /\ socket[req[h].socket].pc \in {"verifying", "gone"}
    /\ \A g \in Handlers : req[g].pc = "verify" /\ req[g].socket = req[h].socket => g = h

(* The message a request is about to commit is not there yet, and no other  *)
(* request is about to commit it.                                           *)
Unsent ==
  \A h \in Handlers : req[h].pc = "commit" =>
    /\ message[req[h].message] = "NONE"
    /\ \A g \in Handlers : req[g].pc = "commit" /\ req[g].message = req[h].message => g = h

LEMMA RequestTypes ==
  ASSUME TypeOK, [Next]_vars
  PROVE  req' \in [Handlers -> Request \union {Idle}]
<1> DEFINE Typed == req' \in [Handlers -> Request \union {Idle}]
<1>1. ASSUME NEW h \in Handlers, NEW request \in Request, Start(h, request) \/ Become(h, request) PROVE Typed
  BY <1>1, StartMoves, BecomeMoves
<1>2. ASSUME NEW h \in Handlers, Finish(h) PROVE Typed
  BY <1>2, FinishMoves
<1>3. ASSUME NEW h \in Handlers, NEW u \in Users, SendMember(h, u) PROVE Typed
  <2>1. [pc |-> IF kind = "DIRECT" THEN "block" ELSE "create", user |-> u] \in Request
    BY DEF Request
  <2> QED
    BY <1>1, <1>3, <2>1 DEF SendMember
<1>4. ASSUME NEW h \in Handlers, Announce(h) PROVE Typed
  BY <1>3, <1>4 DEF Announce
<1>5. ASSUME NEW h \in Handlers, SendBlock(h) \/ SendPrivacy(h) \/ SendConnection(h) PROVE Typed
  <2>1. req[h].pc \in Asked
    BY <1>5 DEF SendBlock, SendPrivacy, SendConnection, Asked
  <2>2. \A pc \in Asked : [req[h] EXCEPT !.pc = pc] \in Request
    BY <2>1, Asks
  <2>3. CASE SendBlock(h)
    BY <1>1, <1>2, <2>2, <2>3 DEF SendBlock, Asked
  <2>4. CASE SendPrivacy(h)
    BY <1>1, <1>2, <2>2, <2>4 DEF SendPrivacy, Asked
  <2>5. CASE SendConnection(h)
    BY <1>1, <1>2, <2>2, <2>5 DEF SendConnection, Asked
  <2> QED
    BY <1>5, <2>3, <2>4, <2>5
<1>6. ASSUME NEW h \in Handlers, NEW m \in Messages, SendCreate(h, m) PROVE Typed
  <2>1. [pc |-> "commit", user |-> req[h].user, message |-> m, at |-> now] \in Request
    BY <1>6, RequestKinds DEF SendCreate, Asked, Request, TypeOK
  <2> QED
    BY <1>1, <1>6, <2>1 DEF SendCreate
<1>7. ASSUME NEW h \in Handlers, SendCommit(h) \/ ReadCommit(h) \/ Verified(h) \/ Rejected(h) \/ Fail(h) PROVE Typed
  BY <1>2, <1>7 DEF SendCommit, ReadCommit, Verified, Rejected, Fail
<1>8. ASSUME NEW h \in Handlers, NEW u \in Users, ReadNow(h, u) PROVE Typed
  <2>1. [pc |-> "read", user |-> u, at |-> now] \in Request
    BY DEF Request, TypeOK
  <2> QED
    BY <1>1, <1>8, <2>1 DEF ReadNow
<1>9. ASSUME NEW h \in Handlers, NEW s \in Sockets, ReadOverSocket(h, s) PROVE Typed
  <2>1. socket[s].user \in Users
    BY <1>9 DEF ReadOverSocket, TypeOK, Socket, Closed
  <2> QED
    BY <1>8, <1>9, <2>1 DEF ReadOverSocket
<1>10. ASSUME NEW h \in Handlers, NEW u \in Users, PageFirst(h, u) PROVE Typed
  <2>1. [pc |-> "page", old |-> Live, got |-> {}, cursor |-> {}] \in Request
    BY DEF Request, Live
  <2> QED
    BY <1>1, <1>10, <2>1 DEF PageFirst
<1>11. ASSUME NEW h \in Handlers, NEW items \in SUBSET Messages, NEW last \in Messages, PageNext(h, items, last)
       PROVE  Typed
  <2>1. [pc |-> "page", old |-> req[h].old, got |-> req[h].got \union items, cursor |-> {last}] \in Request
    BY <1>11, RequestKinds DEF PageNext, Page, Listings, Request
  <2> QED
    BY <1>1, <1>11, <2>1 DEF PageNext, Turn
<1>12. ASSUME NEW h \in Handlers, PageLast(h) PROVE Typed
  <2>1. [pc |-> "end", old |-> req[h].old, got |-> req[h].got \union Eligible(h)] \in Request
    BY <1>12, RequestKinds DEF PageLast, Listings, Request, Eligible, Live
  <2> QED
    BY <1>1, <1>12, <2>1 DEF PageLast
<1>13. ASSUME NEW h \in Handlers, NEW s \in Sockets, NEW u \in Watchers, Connect(h, s, u) PROVE Typed
  <2>1. [pc |-> "verify", socket |-> s] \in Request
    BY DEF Request
  <2> QED
    BY <1>1, <1>13, <2>1 DEF Connect
<1>14. CASE UNCHANGED req
  BY <1>14 DEF TypeOK
<1>15. ASSUME NEW h \in Handlers, ReadFind(h) PROVE Typed
  <2> DEFINE there == {m \in Messages : message[m] # "NONE"}
  <2>1. [pc |-> "marking", user |-> req[h].user, at |-> req[h].at, there |-> there] \in Request
    BY <1>15, RequestKinds DEF ReadFind, Request
  <2> QED
    BY <1>1, <1>15, <2>1 DEF ReadFind
<1>16. ASSUME NEW ended \in SUBSET Sockets, ProcessEnds(ended) PROVE Typed
  BY <1>16, EndLetsGo
<1> QED
  BY <1>3, <1>4, <1>5, <1>6, <1>7, <1>8, <1>9, <1>10, <1>11, <1>12, <1>13, <1>14, <1>15, <1>16
     DEF Next, vars, DeleteMessage, DisconnectEarly, Disconnect, PresenceExpire, Rejoin, PeerChanges, Tick

(* A message is committed with the time at which its row was created.       *)
LEMMA CommitTypes ==
  ASSUME TypeOK, InTime, NEW h \in Handlers, SendCommit(h)
  PROVE  /\ message' \in [Messages -> {"NONE", "LIVE", "DELETED"}]
         /\ sender' \in [Messages -> SUBSET Users]
         /\ at' \in [Messages -> 0..now]
         /\ lastMessageAt' \in 0..now
<1>1. req[h].pc = "commit" /\ req[h].user \in Users /\ req[h].message \in Messages /\ req[h].at \in 1..MaxTime
  BY RequestKinds DEF SendCommit
<1>2. req[h].at <= now /\ now \in 1..MaxTime
  BY <1>1 DEF InTime, TypeOK
<1>3. message' \in [Messages -> {"NONE", "LIVE", "DELETED"}] /\ sender' \in [Messages -> SUBSET Users]
  BY <1>1 DEF SendCommit, TypeOK
<1>4. at' \in [Messages -> 0..now]
  BY <1>1, <1>2 DEF SendCommit, TypeOK
<1>5. lastMessageAt' \in 0..now
  BY <1>1, <1>2 DEF SendCommit
<1> QED
  BY <1>3, <1>4, <1>5

(* What a socket becomes when its request is answered.                      *)
LEMMA SocketTypes ==
  ASSUME TypeOK, Attended, NEW h \in Handlers, Verified(h) \/ Rejected(h)
  PROVE  socket' \in [Sockets -> Socket \union {Closed}] /\ presence' \in SUBSET Users
<1>1. req[h].socket \in Sockets /\ socket[req[h].socket].pc \in {"verifying", "gone"}
  BY RequestKinds DEF Attended, Verified, Rejected
<1>2. socket[req[h].socket] \in Socket
  BY <1>1 DEF TypeOK, Closed
<1>3. [socket[req[h].socket] EXCEPT !.pc = "open"] \in Socket /\ socket[req[h].socket].user \in Users
  BY <1>2 DEF Socket
<1>4. CASE Verified(h)
  <2>1. Opened(req[h].socket) \in [Sockets -> Socket \union {Closed}]
    BY <1>1, <1>3 DEF Opened, TypeOK
  <2> QED
    BY <1>3, <1>4, <2>1 DEF Verified, TypeOK
<1>5. CASE Rejected(h)
  <2>1. socket' \in [Sockets -> Socket \union {Closed}]
    BY <1>1, <1>5 DEF Rejected, TypeOK
  <2>2. presence' \subseteq presence \union {socket[req[h].socket].user}
    BY <1>5 DEF Rejected, Deleted
  <2> QED
    BY <1>3, <2>1, <2>2 DEF TypeOK
<1> QED
  BY <1>4, <1>5

LEMMA TypeStep == TypeOK /\ InTime /\ Attended /\ [Next]_vars => TypeOK'
<1> SUFFICES ASSUME TypeOK, InTime, Attended, [Next]_vars PROVE TypeOK'
  OBVIOUS
<1>1. req' \in [Handlers -> Request \union {Idle}]
  BY RequestTypes
<1>2. CASE UNCHANGED <<tie, now, stored, online>>
  BY <1>1, <1>2 DEF TypeOK, tie, stored, online
<1>3. ASSUME NEW h \in Handlers, SendCommit(h) PROVE TypeOK'
  BY <1>1, <1>3, CommitTypes DEF SendCommit, TypeOK, tie, online
<1>4. ASSUME NEW h \in Handlers, ReadCommit(h) PROVE TypeOK'
  <2>1. req[h].user \in Users /\ req[h].at \in 0..now
    BY <1>4, RequestKinds DEF ReadCommit, InTime, TypeOK
  <2>2. lastReadAt' \in [Users -> 0..now]
    BY <1>4, <2>1 DEF ReadCommit, TypeOK
  <2>3. read' \in SUBSET Messages
    BY <1>4, RequestKinds DEF ReadCommit, TypeOK
  <2> QED
    BY <1>1, <1>4, <2>2, <2>3 DEF ReadCommit, TypeOK, tie, online
<1>5. ASSUME NEW m \in Messages, DeleteMessage(m) PROVE TypeOK'
  BY <1>1, <1>5 DEF DeleteMessage, TypeOK, tie, online
<1>6. ASSUME NEW h \in Handlers, NEW s \in Sockets, NEW u \in Watchers, Connect(h, s, u) PROVE TypeOK'
  <2>1. [pc |-> "verifying", user |-> u] \in Socket
    BY DEF Socket
  <2> QED
    BY <1>1, <1>6, <2>1 DEF Connect, TypeOK, tie, stored
<1>7. ASSUME NEW h \in Handlers, Verified(h) \/ Rejected(h) PROVE TypeOK'
  <2>1. UNCHANGED <<tie, now, stored>>
    BY <1>7 DEF Verified, Rejected
  <2> QED
    BY <1>1, <1>7, <2>1, SocketTypes DEF TypeOK, tie, stored
<1>8. ASSUME NEW s \in Sockets, DisconnectEarly(s) \/ Disconnect(s) PROVE TypeOK'
  <2>1. socket[s] \in Socket
    BY <1>8 DEF DisconnectEarly, Disconnect, TypeOK, Closed
  <2>2. [socket[s] EXCEPT !.pc = "gone"] \in Socket
    BY <2>1 DEF Socket
  <2>3. CASE DisconnectEarly(s)
    <3>1. socket' = [socket EXCEPT ![s] = [socket[s] EXCEPT !.pc = "gone"]]
      BY <2>3 DEF DisconnectEarly
    <3> QED
      BY <1>1, <2>2, <2>3, <3>1 DEF DisconnectEarly, TypeOK, tie, stored
  <2>4. CASE Disconnect(s)
    <3>1. presence' \subseteq presence
      BY <2>4 DEF Disconnect, Deleted
    <3> QED
      BY <1>1, <2>4, <3>1 DEF Disconnect, TypeOK, tie, stored
  <2> QED
    BY <1>8, <2>3, <2>4
<1>9. ASSUME NEW u \in Users, PresenceExpire(u) \/ Rejoin(u) PROVE TypeOK'
  BY <1>1, <1>9 DEF PresenceExpire, Rejoin, TypeOK, tie, stored, online
<1>10. CASE PeerChanges
  BY <1>1, <1>10 DEF PeerChanges, TypeOK, stored, online
<1>11. CASE Tick
  <2>1. now' \in 1..MaxTime /\ 0..now \subseteq 0..now'
    BY <1>11 DEF Tick, TypeOK
  <2> QED
    BY <1>1, <1>11, <2>1 DEF Tick, TypeOK, tie, stored, online
<1>12. ASSUME NEW ended \in SUBSET Sockets, ProcessEnds(ended) PROVE TypeOK'
  <2>1. UNCHANGED <<tie, now, stored, presence>>
    BY <1>12 DEF ProcessEnds
  <2> QED
    BY <1>1, <1>12, <2>1, EndLetsGo DEF TypeOK, tie, stored
<1> QED
  BY <1>2, <1>3, <1>4, <1>5, <1>6, <1>7, <1>8, <1>9, <1>10, <1>11, <1>12
     DEF Next, vars, SendMember, Announce, SendBlock, SendPrivacy, SendConnection, SendCreate,
         PageFirst, PageNext, PageLast, ReadNow, ReadOverSocket, ReadFind, Fail

(* Where a request comes from that has something to keep to.                *)
LEMMA Origins ==
  ASSUME TypeOK, [Next]_vars, NEW h \in Handlers,
         req'[h].pc \in {"commit", "read", "marking", "verify", "page", "end"}
  PROVE  \/ req'[h] = req[h]
         \/ req'[h].pc = "commit" /\ \E m \in Messages : SendCreate(h, m)
         \/ req'[h].pc = "read" /\ \E u \in Users : ReadNow(h, u)
         \/ req'[h].pc = "marking" /\ ReadFind(h)
         \/ req'[h].pc = "verify" /\ \E s \in Sockets, u \in Watchers : Connect(h, s, u)
         \/ req'[h].pc = "page" /\ \E u \in Users : PageFirst(h, u)
         \/ req'[h].pc = "page" /\ \E items \in SUBSET Messages, last \in Messages : PageNext(h, items, last)
         \/ req'[h].pc = "end" /\ PageLast(h)
<1>3. ASSUME NEW g \in Handlers,
             \/ \E u \in Senders : SendMember(g, u)
             \/ Announce(g) \/ SendBlock(g) \/ SendPrivacy(g) \/ SendConnection(g) \/ SendCommit(g)
             \/ ReadCommit(g) \/ Verified(g) \/ Rejected(g) \/ Fail(g)
      PROVE  req'[h] = req[h]
  <2>1. PICK from, to : Hands(g, from, {to}) /\ to \in {"idle", "block", "privacy", "connection", "create"}
    BY <1>3, SendHands, OtherHands
  <2> QED
    BY <2>1 DEF Hands
<1>4. ASSUME NEW g \in Handlers, g # h,
             \/ \E m \in Messages : SendCreate(g, m)
             \/ \E u \in Users : ReadNow(g, u) \/ PageFirst(g, u)
             \/ \E s \in Sockets : ReadOverSocket(g, s) \/ \E u \in Watchers : Connect(g, s, u)
             \/ \E items \in SUBSET Messages, last \in Messages : PageNext(g, items, last)
             \/ PageLast(g) \/ ReadFind(g)
      PROVE  req'[h] = req[h]
  BY <1>4, SendHands, OtherHands DEF Hands
<1>5. ASSUME NEW s \in Sockets, ReadOverSocket(h, s) PROVE \E u \in Users : ReadNow(h, u)
  BY <1>5 DEF ReadOverSocket, TypeOK, Socket, Closed
<1>6. ASSUME NEW from, NEW to, Hands(h, from, {to}) PROVE req'[h].pc = to
  BY <1>6 DEF Hands
<1>7. /\ (\E m \in Messages : SendCreate(h, m)) => req'[h].pc = "commit"
      /\ (\E u \in Users : ReadNow(h, u)) => req'[h].pc = "read"
      /\ (\E s \in Sockets, u \in Watchers : Connect(h, s, u)) => req'[h].pc = "verify"
      /\ (\E u \in Users : PageFirst(h, u)) => req'[h].pc = "page"
      /\ (\E items \in SUBSET Messages, last \in Messages : PageNext(h, items, last)) => req'[h].pc = "page"
      /\ PageLast(h) => req'[h].pc = "end"
      /\ ReadFind(h) => req'[h].pc = "marking"
  BY <1>6, SendHands, OtherHands
<1>8. ASSUME NEW ended \in SUBSET Sockets, ProcessEnds(ended) PROVE req'[h] = req[h]
  BY <1>8, EndLetsGo DEF Idle
<1> QED
  BY <1>3, <1>4, <1>5, <1>7, <1>8
     DEF Next, vars, DeleteMessage, DisconnectEarly, Disconnect, PresenceExpire, Rejoin, PeerChanges, Tick

LEMMA InTimeStep == TypeOK /\ InTime /\ [Next]_vars => InTime'
<1> SUFFICES ASSUME TypeOK, InTime, [Next]_vars, NEW h \in Handlers,
                    req'[h].pc \in {"commit", "read", "marking"}
             PROVE  req'[h].at <= now'
  BY DEF InTime
<1>1. now \in Int /\ now' \in Int /\ now <= now'
  <2>1. now \in Int
    BY DEF TypeOK
  <2>2. now' = now \/ now' = now + 1
    BY DEF Next, vars, SendMember, Announce, SendBlock, SendPrivacy, SendConnection, SendCreate, SendCommit,
           PageFirst, PageNext, PageLast, ReadNow, ReadOverSocket, ReadFind, ReadCommit, Connect, Verified, Rejected, Fail,
           DeleteMessage, DisconnectEarly, Disconnect, ProcessEnds, PresenceExpire, Rejoin, PeerChanges, Tick
  <2> QED
    BY <2>1, <2>2
<1>2. CASE req'[h] = req[h]
  <2>1. req[h].at <= now /\ req[h].at \in Int
    BY <1>2, RequestKinds DEF InTime
  <2> QED
    BY <1>1, <1>2, <2>1
<1>3. ASSUME NEW m \in Messages, SendCreate(h, m) PROVE req'[h].at = now
  BY <1>3, BecomeMoves DEF SendCreate
<1>4. ASSUME NEW u \in Users, ReadNow(h, u) PROVE req'[h].at = now
  BY <1>4, StartMoves DEF ReadNow
<1>5. ASSUME ReadFind(h) PROVE req'[h].at <= now'
  <2>1. req[h].at <= now /\ req[h].at \in Int /\ req'[h].at = req[h].at
    BY <1>5, RequestKinds, BecomeMoves DEF ReadFind, InTime
  <2> QED
    BY <1>1, <2>1
<1> QED
  BY <1>1, <1>2, <1>3, <1>4, <1>5, Origins

(* A socket that waits for its request is left to it.                       *)
LEMMA AttendedStep == TypeOK /\ Attended /\ [Next]_vars => Attended'
<1> SUFFICES ASSUME TypeOK, Attended, [Next]_vars, NEW h \in Handlers, req'[h].pc = "verify"
             PROVE  /\ socket'[req'[h].socket].pc \in {"verifying", "gone"}
                    /\ \A g \in Handlers : req'[g].pc = "verify" /\ req'[g].socket = req'[h].socket => g = h
  BY DEF Attended
<1>1. ASSUME NEW g \in Handlers, NEW s \in Sockets, NEW u \in Watchers, Connect(g, s, u)
      PROVE  /\ req'[g].socket = s /\ \A k \in Handlers : k # g => req'[k] = req[k]
             /\ socket'[s].pc = "verifying" /\ \A k \in Handlers : req[k].pc = "verify" => req[k].socket # s
             /\ \A r \in Sockets : r # s => socket'[r] = socket[r]
  <2>1. socket'[s].pc = "verifying" /\ \A r \in Sockets : r # s => socket'[r] = socket[r]
    BY <1>1 DEF Connect, TypeOK
  <2>2. socket[s].pc = "closed"
    BY <1>1 DEF Connect, Closed
  <2> QED
    BY <1>1, <2>1, <2>2, StartMoves DEF Connect, Attended
<1>2. CASE req'[h] = req[h]
  <2>1. /\ req[h].socket \in Sockets /\ socket[req[h].socket].pc \in {"verifying", "gone"}
        /\ \A g \in Handlers : req[g].pc = "verify" /\ req[g].socket = req[h].socket => g = h
    BY <1>2, RequestKinds DEF Attended
  <2>2. ASSUME NEW g \in Handlers, req'[g].pc = "verify", req'[g].socket = req'[h].socket PROVE g = h
    <3>1. CASE req'[g] = req[g]
      BY <1>2, <2>1, <2>2, <3>1
    <3>2. ASSUME NEW s \in Sockets, NEW u \in Watchers, Connect(g, s, u) PROVE g = h
      BY <1>1, <1>2, <2>2, <3>2
    <3> QED
      BY <2>2, <3>1, <3>2, Origins
  <2>3. socket'[req[h].socket].pc \in {"verifying", "gone"}
    <3>1. CASE UNCHANGED socket
      BY <2>1, <3>1
    <3>2. ASSUME NEW g \in Handlers, NEW s \in Sockets, NEW u \in Watchers, Connect(g, s, u)
          PROVE  socket'[req[h].socket].pc \in {"verifying", "gone"}
      BY <1>1, <1>2, <2>1, <3>2
    <3>3. ASSUME NEW g \in Handlers, Verified(g) \/ Rejected(g)
          PROVE  socket'[req[h].socket].pc \in {"verifying", "gone"}
      <4>1. g # h
        BY <1>2, <3>3, OtherHands DEF Hands
      <4>2. req[g].socket # req[h].socket
        BY <2>1, <3>3, <4>1 DEF Verified, Rejected
      <4>3. socket'[req[h].socket] = socket[req[h].socket]
        BY <2>1, <3>3, <4>2 DEF Verified, Rejected, Opened, TypeOK
      <4> QED
        BY <2>1, <4>3
    <3>4. ASSUME NEW s \in Sockets, DisconnectEarly(s) \/ Disconnect(s)
          PROVE  socket'[req[h].socket].pc \in {"verifying", "gone"}
      <4>1. CASE s = req[h].socket
        <5>1. socket[s] \in Socket /\ DisconnectEarly(s)
          BY <2>1, <3>4, <4>1 DEF Disconnect, TypeOK, Closed
        <5> QED
          BY <4>1, <5>1 DEF DisconnectEarly, TypeOK, Socket
      <4>2. CASE s # req[h].socket
        BY <2>1, <3>4, <4>2 DEF DisconnectEarly, Disconnect, TypeOK
      <4> QED
        BY <4>1, <4>2
    <3>5. ASSUME NEW ended \in SUBSET Sockets, ProcessEnds(ended)
          PROVE  socket'[req[h].socket].pc \in {"verifying", "gone"}
      BY <1>2, <2>1, <3>5, EndLetsGo DEF Idle
    <3> QED
      BY <3>1, <3>2, <3>3, <3>4, <3>5
         DEF Next, vars, SendMember, Announce, SendBlock, SendPrivacy, SendConnection, SendCreate, SendCommit,
             PageFirst, PageNext, PageLast, ReadNow, ReadOverSocket, ReadFind, ReadCommit, Fail,
             DeleteMessage, PresenceExpire, Rejoin, PeerChanges, Tick, online
  <2> QED
    BY <1>2, <2>2, <2>3
<1>3. ASSUME NEW s \in Sockets, NEW u \in Watchers, Connect(h, s, u)
      PROVE  /\ socket'[req'[h].socket].pc \in {"verifying", "gone"}
             /\ \A g \in Handlers : req'[g].pc = "verify" /\ req'[g].socket = req'[h].socket => g = h
  BY <1>1, <1>3
<1> QED
  BY <1>2, <1>3, Origins

(* Whoever commits a message has it to themselves.                          *)
LEMMA UnsentStep == TypeOK /\ Unsent /\ [Next]_vars => Unsent'
<1> SUFFICES ASSUME TypeOK, Unsent, [Next]_vars, NEW h \in Handlers, req'[h].pc = "commit"
             PROVE  /\ message'[req'[h].message] = "NONE"
                    /\ \A g \in Handlers : req'[g].pc = "commit" /\ req'[g].message = req'[h].message => g = h
  BY DEF Unsent
<1>1. ASSUME NEW g \in Handlers, NEW m \in Messages, SendCreate(g, m)
      PROVE  /\ req'[g].message = m /\ message'[m] = "NONE"
             /\ \A k \in Handlers : k # g => req'[k] = req[k]
             /\ \A k \in Handlers : req[k].pc = "commit" => req[k].message # m
  <2>1. \A k \in Handlers : req[k].pc = "commit" => req[k].message # m
    BY <1>1 DEF SendCreate, Writing
  <2> QED
    BY <1>1, <2>1, BecomeMoves DEF SendCreate, stored
<1>2. CASE req'[h] = req[h]
  <2>1. /\ req[h].message \in Messages /\ message[req[h].message] = "NONE"
        /\ \A g \in Handlers : req[g].pc = "commit" /\ req[g].message = req[h].message => g = h
    BY <1>2, RequestKinds DEF Unsent
  <2>2. ASSUME NEW g \in Handlers, req'[g].pc = "commit", req'[g].message = req'[h].message PROVE g = h
    <3>1. CASE req'[g] = req[g]
      BY <1>2, <2>1, <2>2, <3>1
    <3>2. ASSUME NEW m \in Messages, SendCreate(g, m) PROVE g = h
      BY <1>1, <1>2, <2>2, <3>2
    <3> QED
      BY <2>2, <3>1, <3>2, Origins
  <2>3. message'[req[h].message] = "NONE"
    <3>1. CASE UNCHANGED message
      BY <2>1, <3>1
    <3>2. ASSUME NEW g \in Handlers, SendCommit(g) PROVE message'[req[h].message] = "NONE"
      <4>1. g # h
        BY <1>2, <3>2, SendHands DEF Hands
      <4>2. req[g].message # req[h].message
        BY <2>1, <3>2, <4>1 DEF SendCommit
      <4> QED
        BY <2>1, <3>2, <4>2 DEF SendCommit, TypeOK
    <3>3. ASSUME NEW m \in Messages, DeleteMessage(m) PROVE message'[req[h].message] = "NONE"
      BY <2>1, <3>3 DEF DeleteMessage, TypeOK
    <3> QED
      BY <3>1, <3>2, <3>3
         DEF Next, vars, SendMember, Announce, SendBlock, SendPrivacy, SendConnection, SendCreate,
             PageFirst, PageNext, PageLast, ReadNow, ReadOverSocket, ReadFind, ReadCommit, Connect, Verified, Rejected, Fail,
             DisconnectEarly, Disconnect, ProcessEnds, PresenceExpire, Rejoin, PeerChanges, Tick, stored
  <2> QED
    BY <1>2, <2>2, <2>3
<1>3. ASSUME NEW m \in Messages, SendCreate(h, m)
      PROVE  /\ message'[req'[h].message] = "NONE"
             /\ \A g \in Handlers : req'[g].pc = "commit" /\ req'[g].message = req'[h].message => g = h
  BY <1>1, <1>3
<1> QED
  BY <1>2, <1>3, Origins

IInv == TypeOK /\ InTime /\ Attended /\ Unsent

LEMMA InvInit == Init => IInv
<1> SUFFICES ASSUME Init PROVE IInv
  OBVIOUS
<1>1. TypeOK
  <2>1. connected \in BOOLEAN /\ permission \in Permissions \union {"EVERYONE"}
    BY DEF Init
  <2>2. now \in 1..MaxTime /\ at \in [Messages -> 0..now] /\ lastReadAt \in [Users -> 0..now] /\ lastMessageAt \in 0..now
    BY DEF Init
  <2> QED
    BY <2>1, <2>2 DEF Init, TypeOK
<1>2. InTime /\ Attended /\ Unsent
  BY DEF Init, InTime, Attended, Unsent, Idle
<1> QED
  BY <1>1, <1>2 DEF IInv

LEMMA InvStep == IInv /\ [Next]_vars => IInv'
BY TypeStep, InTimeStep, AttendedStep, UnsentStep DEF IInv

LEMMA Invariant == Spec => []IInv
BY InvInit, InvStep, PTL DEF Spec

(* Every variable keeps its type, and every stored time is in the past:     *)
(* rows are written with the time a request has noted earlier (InTime), and *)
(* a socket is opened only by the one request that verifies it (Attended).  *)
THEOREM TypeCorrect == Spec => []TypeOK
BY Invariant, PTL DEF IInv

-----------------------------------------------------------------------------
(* Sending                                                                  *)

(* Once a block, a privacy setting or a missing connection is known and no  *)
(* request is past that check, no step but a change of them lets one pass.  *)
THEOREM BarredIsSilent == Spec => BarredStaysSilent
<1> DEFINE Same == UNCHANGED <<blocked, permission, connected>>
           Past == {"privacy", "connection", "create", "commit"}
<1>1. ASSUME TypeOK, [Next]_vars, kind = "DIRECT", Barred, Same PROVE Barred'
  <2>1. ASSUME NEW h \in Handlers, NEW from, NEW to, Hands(h, from, {to}),
               \/ to \notin Past
               \/ to = "privacy" /\ ~blocked
               \/ to = "connection" /\ permission = "CONNECTIONS_ONLY" /\ req[h].pc = "privacy"
               \/ to = "create" /\ permission \notin {"NOBODY", "CONNECTIONS_ONLY"} /\ req[h].pc = "privacy"
               \/ to = "create" /\ connected /\ req[h].pc = "connection"
               \/ to = "commit" /\ req[h].pc = "create"
        PROVE  Barred'
    BY <1>1, <2>1 DEF Hands, Barred
  <2>2. ASSUME NEW h \in Handlers,
               \/ \E u \in Senders : SendMember(h, u)
               \/ Announce(h) \/ SendBlock(h) \/ SendPrivacy(h) \/ SendConnection(h)
               \/ \E m \in Messages : SendCreate(h, m)
               \/ SendCommit(h)
        PROVE  Barred'
    <3>1. CASE Announce(h)
      BY <1>1, <3>1 DEF Announce
    <3>2. CASE \E u \in Senders : SendMember(h, u)
      BY <1>1, <2>1, <3>2, SendHands
    <3>3. CASE SendBlock(h)
      BY <1>1, <2>1, <3>3, SendHands
    <3>4. CASE SendPrivacy(h)
      BY <1>1, <2>1, <3>4, SendHands DEF SendPrivacy
    <3>5. CASE SendConnection(h)
      BY <1>1, <2>1, <3>5, SendHands DEF SendConnection
    <3>6. CASE SendCommit(h) \/ \E m \in Messages : SendCreate(h, m)
      BY <1>1, <2>1, <3>6, SendHands DEF SendCreate
    <3> QED
      BY <2>2, <3>1, <3>2, <3>3, <3>4, <3>5, <3>6
  <2>3. ASSUME NEW h \in Handlers,
               \/ \E u \in Readers : ReadNow(h, u) \/ PageFirst(h, u)
               \/ \E items \in SUBSET Messages, last \in Messages : PageNext(h, items, last)
               \/ PageLast(h) \/ ReadFind(h) \/ ReadCommit(h) \/ Fail(h)
               \/ \E s \in Sockets : ReadOverSocket(h, s) \/ \E u \in Watchers : Connect(h, s, u)
               \/ Verified(h) \/ Rejected(h)
        PROVE  Barred'
    <3>1. \/ Hands(h, {"idle"}, {"page"}) \/ Hands(h, {"page"}, {"page"}) \/ Hands(h, {"page"}, {"end"})
          \/ Hands(h, {"idle"}, {"read"}) \/ Hands(h, {"read"}, {"marking"}) \/ Hands(h, {"marking"}, {"idle"})
          \/ Hands(h, {"idle"}, {"verify"}) \/ Hands(h, {"verify"}, {"idle"}) \/ Hands(h, {req[h].pc}, {"idle"})
      BY <1>1, <2>3, OtherHands
    <3> QED
      BY <2>1, <3>1
  <2>4. CASE UNCHANGED req
    BY <1>1, <2>4 DEF Barred
  <2>5. ASSUME NEW ended \in SUBSET Sockets, ProcessEnds(ended) PROVE Barred'
    <3>1. \A h \in Handlers : req'[h].pc = req[h].pc \/ req'[h].pc = "idle"
      BY <1>1, <2>5, EndLetsGo DEF Idle
    <3> QED
      BY <1>1, <3>1 DEF Barred
  <2> QED
    BY <1>1, <2>2, <2>3, <2>4, <2>5
       DEF Next, vars, DeleteMessage, DisconnectEarly, Disconnect, PresenceExpire, Rejoin, PeerChanges, Tick
<1>2. TypeOK /\ [Next]_vars =>
        [kind = "DIRECT" /\ Barred => Barred' \/ <<blocked, permission, connected>>' # <<blocked, permission, connected>>]_vars
  BY <1>1
<1> QED
  BY <1>2, TypeCorrect, PTL DEF Spec, BarredStaysSilent

-----------------------------------------------------------------------------
(* Reading                                                                  *)

(* Read marks of messages and members part only by a message older than a  *)
(* mark that commits after it, or while the mark is made: what the marking  *)
(* statement finds is all there is, but for that.                           *)
THEOREM ReadIsTogether == Spec => ReadTogether
<1>1. ASSUME TypeOK, [Next]_vars, \A u \in Users : ReadUpTo(u)
      PROVE  (\A u \in Users : ReadUpTo(u))' \/ \E h \in Handlers : CommitsLate(h) \/ MarksLate(h)
  <2> DEFINE Kept == \A u \in Users : ReadUpTo(u)'
  <2>1. CASE UNCHANGED <<message, sender, at, read, lastReadAt>>
    BY <1>1, <2>1 DEF ReadUpTo, Live
  <2>2. ASSUME NEW h \in Handlers, SendCommit(h), ~CommitsLate(h) PROVE Kept
    <3>1. req[h].message \in Messages /\ \A u \in Users : ~(req[h].at < lastReadAt[u])
      BY <1>1, <2>2, RequestKinds DEF SendCommit, CommitsLate
    <3>2. at'[req[h].message] = req[h].at /\ UNCHANGED <<read, lastReadAt>>
      BY <1>1, <2>2, <3>1 DEF SendCommit, TypeOK
    <3>3. \A m \in Messages : m # req[h].message =>
            message'[m] = message[m] /\ sender'[m] = sender[m] /\ at'[m] = at[m]
      BY <1>1, <2>2 DEF SendCommit, TypeOK
    <3> QED
      BY <1>1, <3>1, <3>2, <3>3 DEF ReadUpTo, Live
  <2>3. ASSUME NEW h \in Handlers, ReadCommit(h), ~MarksLate(h) PROVE Kept
    <3>1. /\ read' = read \union {m \in req[h].there : req[h].user \notin sender[m]}
          /\ req[h].user \in Users /\ lastReadAt'[req[h].user] = req[h].at
          /\ UNCHANGED <<message, sender, at>>
          /\ \A u \in Users : u # req[h].user => lastReadAt'[u] = lastReadAt[u]
          /\ \A m \in Live \ req[h].there : ~(at[m] < req[h].at)
      BY <1>1, <2>3, RequestKinds DEF ReadCommit, MarksLate, TypeOK
    <3>2. ASSUME NEW u \in Users, NEW m \in Live', at'[m] < lastReadAt'[u], u \notin sender'[m]
          PROVE  m \in read'
      <4>1. m \in Live
        BY <3>1, <3>2 DEF Live
      <4>2. CASE u = req[h].user
        BY <3>1, <3>2, <4>1, <4>2 DEF Live
      <4>3. CASE u # req[h].user
        BY <1>1, <3>1, <3>2, <4>1, <4>3 DEF ReadUpTo
      <4> QED
        BY <4>2, <4>3
    <3> QED
      BY <3>2 DEF ReadUpTo
  <2>4. ASSUME NEW m \in Messages, DeleteMessage(m) PROVE Kept
    <3>1. Live' \subseteq Live /\ UNCHANGED <<sender, at, read, lastReadAt>>
      BY <1>1, <2>4 DEF DeleteMessage, Live, TypeOK
    <3> QED
      BY <1>1, <3>1 DEF ReadUpTo
  <2> QED
    BY <1>1, <2>1, <2>2, <2>3, <2>4
       DEF Next, vars, SendMember, Announce, SendBlock, SendPrivacy, SendConnection, SendCreate,
           PageFirst, PageNext, PageLast, ReadNow, ReadOverSocket, ReadFind, Connect, Verified, Rejected, Fail,
           DisconnectEarly, Disconnect, ProcessEnds, PresenceExpire, Rejoin, PeerChanges, Tick, stored
<1>2. TypeOK /\ [Next]_vars =>
        [(\A u \in Users : ReadUpTo(u)) =>
           (\A u \in Users : ReadUpTo(u))' \/ \E h \in Handlers : CommitsLate(h) \/ MarksLate(h)]_vars
  BY <1>1
<1> QED
  BY <1>2, TypeCorrect, PTL DEF Spec, ReadTogether

(* The conversation is listed by its newest message until one commits that  *)
(* is older than the last.  A commit in order is the newest, for the        *)
(* message it writes was not there (Unsent); and what remains at the top    *)
(* after a deletion is no newer than what was there.                        *)
THEOREM IsListedByNewest == Spec => ListedByNewest
<1>1. ASSUME TypeOK, Unsent, [Next]_vars, Ordered
      PROVE  Ordered' \/ \E h \in Handlers : SendCommit(h) /\ req[h].at < lastMessageAt
  <2>1. CASE UNCHANGED <<message, at, lastMessageAt>>
    BY <1>1, <2>1 DEF Ordered, Preview, Live
  <2>2. ASSUME NEW h \in Handlers, SendCommit(h), ~(req[h].at < lastMessageAt) PROVE Ordered'
    <3>1. req[h].message \in Messages /\ message[req[h].message] = "NONE" /\ req[h].at \in Int
      BY <1>1, <2>2, RequestKinds DEF SendCommit, Unsent
    <3>2. lastMessageAt \in Int /\ lastMessageAt' \in Int /\ lastMessageAt <= req[h].at /\ req[h].at <= lastMessageAt'
      BY <1>1, <2>2, <3>1 DEF SendCommit, TypeOK
    <3>3. at'[req[h].message] = req[h].at
      BY <1>1, <2>2, <3>1 DEF SendCommit, TypeOK
    <3>4. \A m \in Live : m # req[h].message /\ m \in Live' /\ at'[m] = at[m] /\ at[m] \in Int
      BY <1>1, <2>2, <3>1 DEF SendCommit, Live, TypeOK
    <3>5. \A m \in Live' : m # req[h].message => m \in Live
      BY <1>1, <2>2 DEF SendCommit, Live, TypeOK
    <3>6. ASSUME NEW m \in Preview', m # req[h].message PROVE at'[m] <= lastMessageAt'
      <4>1. m \in Preview
        BY <3>4, <3>5, <3>6 DEF Preview
      <4>2. at[m] <= lastMessageAt /\ at'[m] = at[m] /\ at[m] \in Int
        BY <1>1, <3>4, <4>1 DEF Ordered, Preview
      <4> QED
        BY <3>1, <3>2, <4>2
    <3> QED
      BY <3>2, <3>3, <3>6 DEF Ordered
  <2>3. ASSUME NEW m \in Messages, DeleteMessage(m) PROVE Ordered'
    <3>1. Live' = Live \ {m} /\ UNCHANGED <<at, lastMessageAt>> /\ lastMessageAt \in Int /\ \A n \in Live : at[n] \in Int
      BY <1>1, <2>3 DEF DeleteMessage, Live, TypeOK
    <3>2. ASSUME NEW n \in Preview' PROVE at[n] <= lastMessageAt
      <4>1. n \in Live /\ \A k \in Live : k # m => at[k] <= at[n]
        BY <3>1, <3>2 DEF Preview
      <4>2. CASE m \in Preview
        <5>1. m \in Live /\ at[n] <= at[m]
          BY <4>1, <4>2 DEF Preview
        <5>2. at[m] <= lastMessageAt
          BY <1>1, <4>2 DEF Ordered
        <5> QED
          BY <3>1, <4>1, <5>1, <5>2
      <4>3. CASE m \notin Preview
        <5>1. m \in Live
          BY <2>3 DEF DeleteMessage, Live
        <5>2. PICK k \in Live : at[m] < at[k]
          BY <3>1, <4>3, <5>1 DEF Preview
        <5>3. n \in Preview
          BY <3>1, <4>1, <5>1, <5>2 DEF Preview
        <5> QED
          BY <1>1, <5>3 DEF Ordered
      <4> QED
        BY <4>2, <4>3
    <3> QED
      BY <3>1, <3>2 DEF Ordered
  <2> QED
    BY <1>1, <2>1, <2>2, <2>3
       DEF Next, vars, SendMember, Announce, SendBlock, SendPrivacy, SendConnection, SendCreate, ReadFind, ReadCommit,
           PageFirst, PageNext, PageLast, ReadNow, ReadOverSocket, Connect, Verified, Rejected, Fail,
           DisconnectEarly, Disconnect, ProcessEnds, PresenceExpire, Rejoin, PeerChanges, Tick, stored
<1>2. IInv /\ [Next]_vars =>
        [Ordered => Ordered' \/ \E h \in Handlers : SendCommit(h) /\ req[h].at < lastMessageAt]_vars
  BY <1>1 DEF IInv
<1> QED
  BY <1>2, Invariant, PTL DEF Spec, ListedByNewest

-----------------------------------------------------------------------------
(* Pages                                                                    *)

Tied(h, m) == \E n \in req[h].got : n = m \/ at[n] = at[m]

(* A listing is about messages that are there, and so are not written any   *)
(* more.                                                                    *)
OnlySent ==
  \A h \in Handlers : req[h].pc \in Listings =>
    /\ \A m \in req[h].old \union req[h].got : message[m] # "NONE"
    /\ req[h].pc = "page" => \A m \in req[h].cursor : message[m] # "NONE"

(* What a listing owes it has got, but for ties, or it is before it.        *)
NoneLost ==
  \A h \in Handlers : req[h].pc \in Listings =>
    \A m \in req[h].old \intersect Live : Tied(h, m) \/ (req[h].pc = "page" /\ m \in Eligible(h))

(* A message that is there keeps its time and can only be deleted.          *)
LEMMA SentStays ==
  ASSUME TypeOK, Unsent, [Next]_vars, NEW m \in Messages, message[m] # "NONE"
  PROVE  message'[m] # "NONE" /\ at'[m] = at[m] /\ (m \in Live' => m \in Live)
<1>1. CASE UNCHANGED <<message, at>>
  BY <1>1 DEF Live
<1>2. ASSUME NEW h \in Handlers, SendCommit(h)
      PROVE  message'[m] # "NONE" /\ at'[m] = at[m] /\ (m \in Live' => m \in Live)
  <2>1. req[h].message # m
    BY <1>2 DEF SendCommit, Unsent
  <2> QED
    BY <1>2, <2>1 DEF SendCommit, Live, TypeOK
<1>3. ASSUME NEW n \in Messages, DeleteMessage(n)
      PROVE  message'[m] # "NONE" /\ at'[m] = at[m] /\ (m \in Live' => m \in Live)
  BY <1>3 DEF DeleteMessage, Live, TypeOK
<1> QED
  BY <1>1, <1>2, <1>3
     DEF Next, vars, SendMember, Announce, SendBlock, SendPrivacy, SendConnection, SendCreate, ReadFind, ReadCommit,
         PageFirst, PageNext, PageLast, ReadNow, ReadOverSocket, Connect, Verified, Rejected, Fail,
         DisconnectEarly, Disconnect, ProcessEnds, PresenceExpire, Rejoin, PeerChanges, Tick, stored

(* The three steps of a listing, by what they make of its request.          *)
LEMMA ListingSteps ==
  ASSUME TypeOK, NEW h \in Handlers
  PROVE  /\ \A u \in Users : PageFirst(h, u) =>
              /\ req'[h].old = Live /\ req'[h].got = {} /\ req'[h].cursor = {} /\ req'[h].pc = "page"
              /\ UNCHANGED stored
         /\ \A items \in SUBSET Messages, last \in Messages : PageNext(h, items, last) =>
              /\ req[h].pc = "page" /\ req'[h].old = req[h].old /\ req'[h].pc = "page"
              /\ req'[h].got = req[h].got \union items /\ req'[h].cursor = {last}
              /\ UNCHANGED stored
         /\ PageLast(h) =>
              /\ req[h].pc = "page" /\ req'[h].old = req[h].old /\ req'[h].pc = "end"
              /\ req'[h].got = req[h].got \union Eligible(h)
              /\ UNCHANGED stored
BY StartMoves, BecomeMoves DEF PageFirst, PageNext, Page, Turn, PageLast

LEMMA OnlySentStep == TypeOK /\ Unsent /\ OnlySent /\ [Next]_vars => OnlySent'
<1> SUFFICES ASSUME TypeOK, Unsent, OnlySent, [Next]_vars, NEW h \in Handlers, req'[h].pc \in Listings
             PROVE  /\ \A m \in req'[h].old \union req'[h].got : message'[m] # "NONE"
                    /\ req'[h].pc = "page" => \A m \in req'[h].cursor : message'[m] # "NONE"
  BY DEF OnlySent
<1>1. \A m \in Live : m \in Messages /\ message[m] # "NONE"
  BY DEF Live
<1>2. CASE req'[h] = req[h]
  BY <1>2, SentStays, RequestKinds DEF OnlySent, Listings
<1>3. ASSUME NEW u \in Users, PageFirst(h, u)
      PROVE  \A m \in req'[h].old \union req'[h].got \union req'[h].cursor : message'[m] # "NONE"
  BY <1>1, <1>3, ListingSteps, SentStays
<1>4. ASSUME NEW items \in SUBSET Messages, NEW last \in Messages, PageNext(h, items, last)
      PROVE  \A m \in req'[h].old \union req'[h].got \union req'[h].cursor : message'[m] # "NONE"
  <2>1. items \subseteq Live /\ last \in Live
    BY <1>4 DEF PageNext, Page, Eligible
  <2>2. \A m \in req[h].old \union req[h].got : m \in Messages /\ message[m] # "NONE"
    BY <1>4, ListingSteps, RequestKinds DEF OnlySent, Listings
  <2>3. /\ req'[h].old = req[h].old /\ req'[h].got = req[h].got \union items
        /\ req'[h].cursor = {last}
    BY <1>4, ListingSteps
  <2> QED
    BY <1>1, <2>1, <2>2, <2>3, SentStays
<1>5. ASSUME PageLast(h) PROVE \A m \in req'[h].old \union req'[h].got : message'[m] # "NONE"
  <2>1. \A m \in req[h].old \union req[h].got : m \in Messages /\ message[m] # "NONE"
    BY <1>5, ListingSteps, RequestKinds DEF OnlySent, Listings
  <2> QED
    BY <1>1, <1>5, <2>1, ListingSteps, SentStays DEF Eligible
<1> QED
  BY <1>2, <1>3, <1>4, <1>5, Origins, ListingSteps DEF Listings

LEMMA NoneLostStep == TypeOK /\ Unsent /\ OnlySent /\ NoneLost /\ [Next]_vars => NoneLost'
<1> SUFFICES ASSUME TypeOK, Unsent, OnlySent, NoneLost, [Next]_vars,
                    NEW h \in Handlers, req'[h].pc \in Listings, NEW m \in req'[h].old \intersect Live'
             PROVE  Tied(h, m)' \/ (req'[h].pc = "page" /\ m \in Eligible(h)')
  BY DEF NoneLost
<1>1. m \in Messages /\ m \in Live'
  BY DEF Live
<1>2. CASE req'[h] = req[h]
  <2>1. /\ \A n \in req[h].old \union req[h].got : n \in Messages /\ message[n] # "NONE"
        /\ req[h].pc = "page" => \A c \in req[h].cursor : c \in Messages /\ message[c] # "NONE"
    BY <1>2, RequestKinds DEF OnlySent, Listings
  <2>2. m \in Live /\ at'[m] = at[m] /\ \A n \in req[h].got : at'[n] = at[n]
    BY <1>1, <1>2, <2>1, SentStays
  <2>3. Tied(h, m) \/ (req[h].pc = "page" /\ m \in Eligible(h))
    BY <1>2, <2>2 DEF NoneLost
  <2>4. CASE Tied(h, m)
    BY <1>2, <2>2, <2>4 DEF Tied
  <2>5. CASE req[h].pc = "page" /\ m \in Eligible(h)
    <3>1. \A c \in req[h].cursor : at'[c] = at[c]
      BY <2>1, <2>5, SentStays
    <3> QED
      BY <1>1, <1>2, <2>2, <2>5, <3>1 DEF Eligible
  <2> QED
    BY <2>3, <2>4, <2>5
<1>3. ASSUME NEW u \in Users, PageFirst(h, u) PROVE m \in Eligible(h)'
  BY <1>1, <1>3, ListingSteps DEF Eligible
<1>4. ASSUME UNCHANGED stored, req[h].pc = "page", req'[h].old = req[h].old, req[h].got \subseteq req'[h].got
      PROVE  Tied(h, m)' \/ m \in Eligible(h)
  <2>1. m \in req[h].old \intersect Live /\ at' = at
    BY <1>4 DEF stored, Live
  <2> QED
    BY <1>4, <2>1 DEF NoneLost, Listings, Tied
<1>5. ASSUME NEW items \in SUBSET Messages, NEW last \in Messages, PageNext(h, items, last), m \in Eligible(h)
      PROVE  Tied(h, m)' \/ m \in Eligible(h)'
  <2>1. CASE m \in items
    <3>1. req'[h].got = req[h].got \union items
      BY <1>5, ListingSteps
    <3> QED
      BY <2>1, <3>1 DEF Tied
  <2>2. CASE m \notin items
    <3>1. last \in items /\ at[last] >= at[m]
      BY <1>5, <2>2 DEF PageNext, Page
    <3>2. at' = at /\ last \in req'[h].got /\ req'[h].cursor = {last}
      BY <1>5, <3>1, ListingSteps DEF stored
    <3>3. CASE at[last] = at[m]
      BY <3>2, <3>3 DEF Tied
    <3>4. CASE at[m] < at[last]
      BY <1>1, <3>2, <3>4 DEF Eligible
    <3>5. at[last] \in Int /\ at[m] \in Int
      BY <1>1 DEF TypeOK
    <3> QED
      BY <3>1, <3>3, <3>4, <3>5
  <2> QED
    BY <2>1, <2>2
<1>6. ASSUME NEW items \in SUBSET Messages, NEW last \in Messages, PageNext(h, items, last)
      PROVE  Tied(h, m)' \/ m \in Eligible(h)'
  BY <1>4, <1>5, <1>6, ListingSteps
<1>7. ASSUME PageLast(h) PROVE Tied(h, m)'
  BY <1>4, <1>7, ListingSteps DEF Tied
<1> QED
  BY <1>2, <1>3, <1>6, <1>7, Origins, ListingSteps DEF Listings

(* Whoever turns the pages to the end has got every message that was there  *)
(* at the start and still is, or one of its very time.  On the way each is  *)
(* tied to one that was got or comes before the cursor (NoneLost), and      *)
(* none is written again (Unsent, OnlySent).                                *)
THEOREM PagesLoseOnlyTies == Spec => []PagesMissOnlyTies
<1>1. Init => OnlySent /\ NoneLost
  BY DEF Init, OnlySent, NoneLost, Idle, Listings
<1>2. IInv /\ OnlySent /\ NoneLost /\ [Next]_vars => (OnlySent /\ NoneLost)'
  BY OnlySentStep, NoneLostStep DEF IInv
<1>3. NoneLost => PagesMissOnlyTies
  BY DEF NoneLost, PagesMissOnlyTies, Tied, Listings
<1> QED
  BY <1>1, <1>2, <1>3, Invariant, PTL DEF Spec

-----------------------------------------------------------------------------
(* Presence                                                                 *)

(* A socket that is not open leaves nobody more or less connected.          *)
LEMMA OthersConnected ==
  ASSUME NEW s \in Sockets, NEW u,
         \A r \in Sockets : r # s => socket'[r] = socket[r],
         \/ socket[s].pc # "open" /\ socket'[s].pc # "open"
         \/ socket[s].user # u /\ (socket'[s].pc = "open" => socket'[s].user # u)
  PROVE  Connected(u)' <=> Connected(u)
BY DEF Connected

(* Presence and open sockets part only by a verification that comes after   *)
(* its socket is gone, by a key that is left when a socket closes or its    *)
(* process ends, by another socket that closes, and by the lifetime of the  *)
(* key.  A request verifies a socket that waits for it (Attended), so it    *)
(* never closes an open one.                                                *)
THEOREM PresenceIsTracked == Spec => PresenceTracks
<1> DEFINE Excused(u) ==
             VerifiedLate(u) \/ KeyLeft(u) \/ DroppedWith(u) \/ OtherCloses(u) \/ PresenceExpire(u)
<1>1. ASSUME TypeOK, Attended, [Next]_vars, NEW u \in Users, Shown(u) PROVE Shown(u)' \/ Excused(u)
  <2>1. CASE UNCHANGED online
    BY <1>1, <2>1 DEF Shown, Connected, online
  <2>2. ASSUME NEW h \in Handlers, NEW s \in Sockets, NEW w \in Watchers, Connect(h, s, w) PROVE Shown(u)'
    <3>1. /\ socket[s].pc # "open" /\ socket'[s].pc # "open" /\ presence' = presence
          /\ \A r \in Sockets : r # s => socket'[r] = socket[r]
      BY <1>1, <2>2 DEF Connect, Closed, TypeOK
    <3> QED
      BY <1>1, <3>1, OthersConnected DEF Shown
  <2>3. ASSUME NEW s \in Sockets, DisconnectEarly(s) PROVE Shown(u)'
    <3>1. socket[s] \in Socket
      BY <1>1, <2>3 DEF DisconnectEarly, TypeOK, Closed
    <3>2. /\ socket[s].pc # "open" /\ socket'[s].pc # "open" /\ presence' = presence
          /\ \A r \in Sockets : r # s => socket'[r] = socket[r]
      BY <1>1, <2>3, <3>1 DEF DisconnectEarly, TypeOK, Socket
    <3> QED
      BY <1>1, <3>2, OthersConnected DEF Shown
  <2>4. ASSUME NEW h \in Handlers, Verified(h) PROVE Shown(u)' \/ Excused(u)
    <3> DEFINE s == req[h].socket
    <3>1. s \in Sockets /\ socket[s] \in Socket /\ socket[s].pc \in {"verifying", "gone"}
      <4>1. s \in Sockets /\ socket[s].pc \in {"verifying", "gone"}
        BY <1>1, <2>4, RequestKinds DEF Verified, Attended
      <4> QED
        BY <1>1, <4>1 DEF TypeOK, Closed
    <3>2. /\ presence' = presence \union {socket[s].user}
          /\ \A r \in Sockets : r # s => socket'[r] = socket[r]
      BY <1>1, <2>4, <3>1 DEF Verified, Opened, TypeOK
    <3>3. CASE socket[s].pc = "gone"
      <4>1. socket'[s].pc # "open"
        BY <1>1, <2>4, <3>1, <3>3 DEF Verified, Opened, Closed, TypeOK
      <4>2. Connected(u)' <=> Connected(u)
        BY <3>1, <3>2, <4>1, OthersConnected
      <4>3. CASE u = socket[s].user
        <5>1. socket[s] = [pc |-> "gone", user |-> u]
          BY <3>1, <3>3, <4>3 DEF Socket
        <5> QED
          BY <2>4, <5>1 DEF VerifiedLate
      <4>4. CASE u # socket[s].user
        BY <1>1, <3>2, <4>2, <4>4 DEF Shown
      <4> QED
        BY <4>3, <4>4
    <3>4. CASE socket[s].pc = "verifying"
      <4>1. socket'[s].pc = "open" /\ socket'[s].user = socket[s].user
        <5>1. socket' = [socket EXCEPT ![s] = [socket[s] EXCEPT !.pc = "open"]]
          BY <2>4, <3>4 DEF Verified, Opened
        <5> QED
          BY <1>1, <3>1, <5>1 DEF TypeOK, Socket
      <4>2. CASE u = socket[s].user
        BY <3>1, <3>2, <4>1, <4>2 DEF Shown, Connected
      <4>3. CASE u # socket[s].user
        <5>1. Connected(u)' <=> Connected(u)
          BY <3>1, <3>2, <4>1, <4>3, OthersConnected
        <5> QED
          BY <1>1, <3>2, <4>3, <5>1 DEF Shown
      <4> QED
        BY <4>2, <4>3
    <3> QED
      BY <3>1, <3>3, <3>4
  <2>5. ASSUME NEW s \in Sockets, Closes(s), socket'[s].pc # "open", \A r \in Sockets : r # s => socket'[r] = socket[r],
               presence' \in Deleted(socket[s].user) \union {presence \union {socket[s].user}}
        PROVE  Shown(u)' \/ Excused(u)
    <3>1. CASE u = socket[s].user
      <4>1. CASE u \in presence'
        BY <2>5, <3>1, <4>1 DEF KeyLeft
      <4>2. CASE Connected(u)'
        BY <2>5, <3>1, <4>2 DEF OtherCloses
      <4> QED
        BY <4>1, <4>2 DEF Shown
    <3>2. CASE u # socket[s].user
      <4>1. Connected(u)' <=> Connected(u)
        BY <2>5, <3>2, OthersConnected
      <4>2. u \in presence' <=> u \in presence
        BY <2>5, <3>2 DEF Deleted
      <4> QED
        BY <1>1, <4>1, <4>2 DEF Shown
    <3> QED
      BY <3>1, <3>2
  <2>6. ASSUME NEW h \in Handlers, Rejected(h) PROVE Shown(u)' \/ Excused(u)
    <3>1. req[h].socket \in Sockets /\ socket[req[h].socket].pc # "open"
      BY <1>1, <2>6, RequestKinds DEF Rejected, Attended
    <3>2. socket'[req[h].socket].pc # "open" /\ \A r \in Sockets : r # req[h].socket => socket'[r] = socket[r]
      BY <1>1, <2>6, <3>1 DEF Rejected, Closed, TypeOK
    <3>3. Closes(req[h].socket)
      BY <2>6 DEF Closes
    <3>4. presence' \in Deleted(socket[req[h].socket].user) \union {presence \union {socket[req[h].socket].user}}
      BY <2>6 DEF Rejected, Deleted
    <3> QED
      BY <2>5, <3>1, <3>2, <3>3, <3>4
  <2>7. ASSUME NEW s \in Sockets, Disconnect(s) PROVE Shown(u)' \/ Excused(u)
    <3>1. socket'[s].pc # "open" /\ \A r \in Sockets : r # s => socket'[r] = socket[r]
      BY <1>1, <2>7 DEF Disconnect, Closed, TypeOK
    <3> QED
      BY <2>5, <2>7, <3>1 DEF Disconnect, Closes
  <2>8. ASSUME NEW w \in Watchers, PresenceExpire(w) PROVE Shown(u)' \/ Excused(u)
    <3>1. CASE w = u
      BY <2>8, <3>1
    <3>2. CASE w # u
      BY <1>1, <2>8, <3>2 DEF PresenceExpire, Shown, Connected
    <3> QED
      BY <3>1, <3>2
  <2>9. ASSUME NEW ended \in SUBSET Sockets, ProcessEnds(ended) PROVE Shown(u)' \/ Excused(u)
    <3>1. presence' = presence /\ \A s \in Sockets : socket'[s].pc = "open" => s \notin ended /\ socket'[s] = socket[s]
      BY <1>1, <2>9, EndLetsGo DEF ProcessEnds, Closed
    <3>2. CASE \E s \in ended : socket[s].pc = "open" /\ socket[s].user = u
      <4>1. PICK s \in ended : socket[s].pc = "open" /\ socket[s].user = u
        BY <3>2
      <4>2. socket[s] = [pc |-> "open", user |-> u]
        <5>1. socket[s] \in Socket
          BY <1>1, <4>1 DEF TypeOK, Closed
        <5> QED
          BY <4>1, <5>1 DEF Socket
      <4> QED
        BY <2>9, <4>2 DEF DroppedWith
    <3>3. CASE ~\E s \in ended : socket[s].pc = "open" /\ socket[s].user = u
      <4>1. Connected(u) => Connected(u)'
        <5>1. SUFFICES ASSUME NEW s \in Sockets, socket[s].pc = "open", socket[s].user = u PROVE Connected(u)'
          BY DEF Connected
        <5>2. socket'[s] = socket[s]
          BY <1>1, <2>9, <3>3, <5>1, EndLetsGo
        <5> QED
          BY <5>1, <5>2 DEF Connected
      <4>2. Connected(u)' => Connected(u)
        BY <3>1 DEF Connected
      <4> QED
        BY <1>1, <3>1, <4>1, <4>2 DEF Shown
    <3> QED
      BY <3>2, <3>3
  <2> QED
    BY <1>1, <2>1, <2>2, <2>3, <2>4, <2>6, <2>7, <2>8, <2>9
       DEF Next, vars, SendMember, Announce, SendBlock, SendPrivacy, SendConnection, SendCreate, SendCommit,
           PageFirst, PageNext, PageLast, ReadNow, ReadOverSocket, ReadFind, ReadCommit, Fail, DeleteMessage, Rejoin, PeerChanges, Tick
<1>2. IInv /\ [Next]_vars =>
        [\A u \in Users : Shown(u) =>
           Shown(u)' \/ VerifiedLate(u) \/ KeyLeft(u) \/ DroppedWith(u) \/ OtherCloses(u) \/ PresenceExpire(u)]_vars
  BY <1>1 DEF IInv
<1> QED
  BY <1>2, Invariant, PTL DEF Spec, PresenceTracks
=============================================================================
