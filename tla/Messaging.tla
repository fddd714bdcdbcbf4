------------------------------ MODULE Messaging ------------------------------
(***************************************************************************)
(* One conversation: messages are sent over REST or a socket, listed page  *)
(* by page, marked as read and deleted, while the members, their blocks,   *)
(* their connection and their privacy change; and the presence of those    *)
(* who are connected by sockets.                                           *)
(*                                                                         *)
(* A message gets its createdAt when its row is created and becomes        *)
(* visible when the transaction commits.  Rows of members that left, of    *)
(* blocks and of connections are written by other components, which        *)
(* EventAttendance and SocialGraph model: here they change at any time.    *)
(* The rooms sockets join, and what is broadcast to them, are left out.    *)
(***************************************************************************)
EXTENDS Integers, FiniteSets

CONSTANTS Users, Senders, Readers, Watchers,  \* who may be in the conversation,
                        \* send, list and mark as read, and connect by sockets
          Messages,     \* those that may ever be sent: a bound
          Sockets, Handlers,
          Kinds,        \* of conversation, out of "DIRECT" and "EVENT_GROUP"
          Watched,      \* those in which sockets connect, which does not
                        \* depend on the conversation: a bound
          Organizer,    \* of the gathering of an event group
          Permissions,  \* allowMessages of the peer
          PageSize,     \* limit of getMessages
          MaxTime       \* ticks of the clock: a bound

ASSUME UsersAssumption == Senders \subseteq Users /\ Readers \subseteq Users /\ Watchers \subseteq Users /\ Organizer \in Users
ASSUME KindsAssumption == Kinds \subseteq {"DIRECT", "EVENT_GROUP"} /\ Watched \subseteq Kinds
ASSUME PageSizeAssumption == PageSize \in Nat \ {0}
ASSUME MaxTimeAssumption == MaxTime \in Nat \ {0}

VARIABLES kind, member,   \* those with a conversationMember row and no leftAt
          blocked,        \* what the cached relation of the two says
          permission, connected,
          now,
          message,        \* message[m]: "NONE", "LIVE" or "DELETED"
          sender, at,     \* of each message: senderId, createdAt
          read,           \* the messages with a readAt
          lastReadAt,     \* lastReadAt[u]
          lastMessageAt,
          socket,         \* socket[s]: of a client that connects
          presence,       \* the users whose presence key is in Redis
          req             \* req[h]: the request, or the requests for page after
                          \* page, that handler h works on

tie == <<kind, member, blocked, permission, connected>>
stored == <<message, sender, at, read, lastReadAt, lastMessageAt>>
online == <<socket, presence>>
vars == <<tie, now, stored, online, req>>

Request == [pc : {"block", "privacy", "connection", "create"}, user : Users]
             \union [pc : {"commit"}, user : Users, message : Messages, at : 1..MaxTime]
             \union [pc : {"read"}, user : Users, at : 1..MaxTime]
             \union [pc : {"marking"}, user : Users, at : 1..MaxTime,
                     there : SUBSET Messages]    \* those its second statement found
             \union [pc : {"verify"}, socket : Sockets]
             \union [pc : {"page"},
                     old : SUBSET Messages,      \* what there was to list at the start
                     got : SUBSET Messages,
                     cursor : SUBSET Messages]   \* none for the first page
             \union [pc : {"end"}, old : SUBSET Messages, got : SUBSET Messages]
Idle == [pc |-> "idle"]

Socket == [pc : {"verifying", "gone", "open"}, user : Users]
Closed == [pc |-> "closed"]

TypeOK ==
  /\ kind \in Kinds /\ member \in SUBSET Users
  /\ blocked \in BOOLEAN /\ connected \in BOOLEAN
  /\ permission \in Permissions \union {"EVERYONE"}
  /\ now \in 1..MaxTime
  /\ message \in [Messages -> {"NONE", "LIVE", "DELETED"}]
  /\ sender \in [Messages -> SUBSET Users]
  /\ at \in [Messages -> 0..now]
  /\ read \in SUBSET Messages
  /\ lastReadAt \in [Users -> 0..now] /\ lastMessageAt \in 0..now
  /\ socket \in [Sockets -> Socket \union {Closed}]
  /\ presence \in SUBSET Users
  /\ req \in [Handlers -> Request \union {Idle}]

Init ==
  /\ kind \in Kinds /\ member = Users
  /\ blocked = FALSE /\ permission \in IF kind = "DIRECT" THEN Permissions ELSE {"EVERYONE"}
  /\ connected \in {FALSE, kind = "DIRECT"}
  /\ now = 1
  /\ message = [m \in Messages |-> "NONE"]
  /\ sender = [m \in Messages |-> {}] /\ at = [m \in Messages |-> 0]
  /\ read = {}
  /\ lastReadAt = [u \in Users |-> 0] /\ lastMessageAt = 0
  /\ socket = [s \in Sockets |-> Closed] /\ presence = {}
  /\ req = [h \in Handlers |-> Idle]

Start(h, request) == req[h].pc = "idle" /\ req' = [req EXCEPT ![h] = request]
Become(h, request) == req' = [req EXCEPT ![h] = request]
Finish(h) == Become(h, Idle)

-----------------------------------------------------------------------------
(* sendMessage: each check is an await of its own                           *)

SendMember(h, u) ==
  /\ u \in member
  /\ Start(h, [pc |-> IF kind = "DIRECT" THEN "block" ELSE "create", user |-> u])
  /\ UNCHANGED <<tie, now, stored, online>>

(* postAnnouncement, for the organizer of the gathering only *)
Announce(h) == kind = "EVENT_GROUP" /\ SendMember(h, Organizer)

(* Mutant: the answer of the lookup is ignored. *)
SendBlock_Skipped(h) ==
  /\ req[h].pc = "block"
  /\ Become(h, [req[h] EXCEPT !.pc = "privacy"])
  /\ UNCHANGED <<tie, now, stored, online>>

(* assertNotBlocked, by the cached relation *)
SendBlock(h) ==
  /\ req[h].pc = "block"
  /\ IF blocked THEN Finish(h) ELSE Become(h, [req[h] EXCEPT !.pc = "privacy"])
  /\ UNCHANGED <<tie, now, stored, online>>

SendPrivacy(h) ==
  /\ req[h].pc = "privacy"
  /\ CASE permission = "NOBODY" -> Finish(h)
       [] permission = "CONNECTIONS_ONLY" -> Become(h, [req[h] EXCEPT !.pc = "connection"])
       [] OTHER -> Become(h, [req[h] EXCEPT !.pc = "create"])
  /\ UNCHANGED <<tie, now, stored, online>>

SendConnection(h) ==
  /\ req[h].pc = "connection"
  /\ IF connected THEN Become(h, [req[h] EXCEPT !.pc = "create"]) ELSE Finish(h)
  /\ UNCHANGED <<tie, now, stored, online>>

Writing == {req[h].message : h \in {g \in Handlers : req[g].pc = "commit"}}

SendCreate(h, m) ==
  /\ req[h].pc = "create"
  /\ message[m] = "NONE" /\ m \notin Writing
  /\ Become(h, [pc |-> "commit", user |-> req[h].user, message |-> m, at |-> now])
  /\ UNCHANGED <<tie, now, stored, online>>

(* Mutant: the conversation is not touched. *)
SendCommit_Untouched(h) ==
  /\ req[h].pc = "commit"
  /\ message' = [message EXCEPT ![req[h].message] = "LIVE"]
  /\ sender' = [sender EXCEPT ![req[h].message] = {req[h].user}]
  /\ at' = [at EXCEPT ![req[h].message] = req[h].at]
  /\ Finish(h)
  /\ UNCHANGED <<tie, now, read, lastReadAt, lastMessageAt, online>>

(* lastMessageAt is the time at which its statement was built. *)
SendCommit(h) ==
  /\ req[h].pc = "commit"
  /\ message' = [message EXCEPT ![req[h].message] = "LIVE"]
  /\ sender' = [sender EXCEPT ![req[h].message] = {req[h].user}]
  /\ at' = [at EXCEPT ![req[h].message] = req[h].at]
  /\ lastMessageAt' \in req[h].at..now
  /\ Finish(h)
  /\ UNCHANGED <<tie, now, read, lastReadAt, online>>

-----------------------------------------------------------------------------
(* getMessages, asked for page after page *)

Live == {m \in Messages : message[m] = "LIVE"}

Eligible(h) == {m \in Live : \A c \in req[h].cursor : at[m] < at[c]}

(* The newest come first, in any order if they were created at one time. *)
Page(h, items) ==
  /\ req[h].pc = "page"
  /\ items \subseteq Eligible(h) /\ Cardinality(items) = PageSize
  /\ \A m \in items, n \in Eligible(h) \ items : at[m] >= at[n]

PageFirst(h, u) ==
  /\ u \in member /\ Live # {}
  /\ Start(h, [pc |-> "page", old |-> Live, got |-> {}, cursor |-> {}])
  /\ UNCHANGED <<tie, now, stored, online>>

Turn(h, items, last) ==
  Become(h, [pc |-> "page", old |-> req[h].old, got |-> req[h].got \union items, cursor |-> {last}])

(* Mutant: the cursor is the first message of the next page. *)
PageNext_CursorBeyond(h, items, last) ==
  /\ Page(h, items)
  /\ last \in Eligible(h) \ items /\ \A m \in Eligible(h) \ items : at[last] >= at[m]
  /\ Turn(h, items, last)
  /\ UNCHANGED <<tie, now, stored, online>>

(* hasMore *)
PageNext(h, items, last) ==
  /\ Page(h, items) /\ Eligible(h) # items
  /\ last \in items /\ \A m \in items : at[last] <= at[m]
  /\ Turn(h, items, last)
  /\ UNCHANGED <<tie, now, stored, online>>

PageLast(h) ==
  /\ req[h].pc = "page"
  /\ Cardinality(Eligible(h)) <= PageSize
  /\ Become(h, [pc |-> "end", old |-> req[h].old, got |-> req[h].got \union Eligible(h)])
  /\ UNCHANGED <<tie, now, stored, online>>

(* listConversations: a member sees the newest message, in the order of     *)
(* lastMessageAt among the conversations there are.                         *)
Preview == {m \in Live : \A n \in Live : at[n] <= at[m]}

-----------------------------------------------------------------------------
(* markAsRead, for a member or anybody else, and deleteMessage *)

ReadNow(h, u) ==
  /\ Start(h, [pc |-> "read", user |-> u, at |-> now])
  /\ UNCHANGED <<tie, now, stored, online>>

(* "message:read" of a socket that has been verified *)
ReadOverSocket(h, s) == socket[s].pc = "open" /\ ReadNow(h, socket[s].user)

(* The row of the member is written, which one transaction can at a time,   *)
(* and the messages there are at that moment are found.                     *)
ReadFind(h) ==
  /\ req[h].pc = "read"
  /\ \A g \in Handlers : req[g].pc = "marking" => req[g].user # req[h].user
  /\ Become(h, [pc |-> "marking", user |-> req[h].user, at |-> req[h].at,
                there |-> {m \in Messages : message[m] # "NONE"}])
  /\ UNCHANGED <<tie, now, stored, online>>

(* Mutant: the messages are left as they are. *)
ReadCommit_MemberOnly(h) ==
  /\ req[h].pc = "marking"
  /\ lastReadAt' = [lastReadAt EXCEPT ![req[h].user] = req[h].at]
  /\ Finish(h)
  /\ UNCHANGED <<tie, now, message, sender, at, read, lastMessageAt, online>>

(* Deleted messages are marked as well. *)
ReadCommit(h) ==
  /\ req[h].pc = "marking"
  /\ lastReadAt' = [lastReadAt EXCEPT ![req[h].user] = req[h].at]
  /\ read' = read \union {m \in req[h].there : req[h].user \notin sender[m]}
  /\ Finish(h)
  /\ UNCHANGED <<tie, now, message, sender, at, lastMessageAt, online>>

DeleteMessage(m) ==
  /\ message[m] = "LIVE"
  /\ message' = [message EXCEPT ![m] = "DELETED"]
  /\ UNCHANGED <<tie, now, sender, at, read, lastReadAt, lastMessageAt, online, req>>

-----------------------------------------------------------------------------
(* handleConnection and handleDisconnect: when the token is verified, the   *)
(* user of the socket is set and the presence key written.  A socket is     *)
(* closed when Redis has answered the deletion of the key.                  *)

Connect(h, s, u) ==
  /\ kind \in Watched
  /\ socket[s] = Closed
  /\ socket' = [socket EXCEPT ![s] = [pc |-> "verifying", user |-> u]]
  /\ Start(h, [pc |-> "verify", socket |-> s])
  /\ UNCHANGED <<tie, now, stored, presence>>

Opened(s) == [socket EXCEPT ![s] = IF socket[s].pc = "gone" THEN Closed ELSE [socket[s] EXCEPT !.pc = "open"]]

Verified(h) ==
  /\ req[h].pc = "verify"
  /\ socket' = Opened(req[h].socket)
  /\ presence' = presence \union {socket[req[h].socket].user}
  /\ Finish(h)
  /\ UNCHANGED <<tie, now, stored>>

(* What a refused command leaves behind: the key as it was, or as if it had *)
(* been carried out, when only the answer is lost.                          *)
Deleted(u) == {presence, presence \ {u}}

(* The token is no good, or Redis refuses the key: the socket has its user  *)
(* by then, and to disconnect it deletes the key, unless it is gone.        *)
Rejected(h) ==
  /\ req[h].pc = "verify"
  /\ socket' = [socket EXCEPT ![req[h].socket] = Closed]
  /\ LET refused == socket[req[h].socket]
     IN  presence' \in {presence, presence \union {refused.user}}
                         \union (IF refused.pc = "gone" THEN {} ELSE Deleted(refused.user))
  /\ Finish(h)
  /\ UNCHANGED <<tie, now, stored>>

(* Mutant: the key of the user the client claims to be is deleted. *)
DisconnectEarly_ClaimedUser(s) ==
  /\ socket[s].pc = "verifying"
  /\ socket' = [socket EXCEPT ![s].pc = "gone"]
  /\ presence' = presence \ {socket[s].user}
  /\ UNCHANGED <<tie, now, stored, req>>

(* Before it is verified a socket has no user, and nothing is deleted. *)
DisconnectEarly(s) ==
  /\ socket[s].pc = "verifying"
  /\ socket' = [socket EXCEPT ![s].pc = "gone"]
  /\ UNCHANGED <<tie, now, stored, presence, req>>

(* Nothing catches a deletion that Redis refuses. *)
Disconnect(s) ==
  /\ socket[s].pc = "open"
  /\ socket' = [socket EXCEPT ![s] = Closed]
  /\ presence' \in Deleted(socket[s].user)
  /\ UNCHANGED <<tie, now, stored, req>>

(* A process ends with the sockets it serves: handleDisconnect is not       *)
(* called for them, and no request goes on to verify them.                  *)
ProcessEnds(ended) ==
  /\ ended # {} /\ \A s \in ended : socket[s] # Closed
  /\ socket' = [s \in Sockets |-> IF s \in ended THEN Closed ELSE socket[s]]
  /\ req' = [h \in Handlers |->
               IF req[h].pc = "verify" /\ req[h].socket \in ended THEN Idle ELSE req[h]]
  /\ UNCHANGED <<tie, now, stored, presence>>

(* 60 seconds after it was written *)
PresenceExpire(u) ==
  /\ u \in presence
  /\ presence' = presence \ {u}
  /\ UNCHANGED <<tie, now, stored, socket, req>>

-----------------------------------------------------------------------------
(* The other components, the clock, and requests that are cut off *)

(* joinEvent, leaveEvent and checkInAttendee of event groups *)
Rejoin(u) ==
  /\ kind = "EVENT_GROUP"
  /\ member' = IF u \in member THEN member \ {u} ELSE member \union {u}
  /\ UNCHANGED <<kind, blocked, permission, connected, now, stored, online, req>>

(* The cached relation, the peer's privacy and the connection *)
PeerChanges ==
  /\ kind = "DIRECT"
  /\ \/ blocked' = ~blocked /\ UNCHANGED <<permission, connected>>
     \/ permission' \in Permissions /\ UNCHANGED <<blocked, connected>>
     \/ connected' = ~connected /\ UNCHANGED <<blocked, permission>>
  /\ UNCHANGED <<kind, member, now, stored, online, req>>

Tick ==
  /\ now < MaxTime
  /\ now' = now + 1
  /\ UNCHANGED <<tie, stored, online, req>>

Fail(h) ==
  /\ req[h].pc \notin {"idle", "verify"}
  /\ Finish(h)
  /\ UNCHANGED <<tie, now, stored, online>>

Next ==
  \/ \E h \in Handlers :
       \/ \E u \in Senders : SendMember(h, u)
       \/ Announce(h)
       \/ SendBlock(h) \/ SendPrivacy(h) \/ SendConnection(h)
       \/ \E m \in Messages : SendCreate(h, m)
       \/ SendCommit(h)
       \/ \E u \in Readers : ReadNow(h, u) \/ PageFirst(h, u)
       \/ \E items \in SUBSET Messages, last \in Messages : PageNext(h, items, last)
       \/ PageLast(h) \/ ReadFind(h) \/ ReadCommit(h) \/ Fail(h)
       \/ \E s \in Sockets : ReadOverSocket(h, s) \/ \E u \in Watchers : Connect(h, s, u)
       \/ Verified(h) \/ Rejected(h)
  \/ \E m \in Messages : DeleteMessage(m)
  \/ \E s \in Sockets : DisconnectEarly(s) \/ Disconnect(s)
  \/ \E ended \in SUBSET Sockets : ProcessEnds(ended)
  \/ \E u \in Watchers : PresenceExpire(u)
  \/ \E u \in Users : Rejoin(u)
  \/ PeerChanges \/ Tick

Spec == Init /\ [][Next]_vars

-----------------------------------------------------------------------------
(* Properties *)

(* Once a block is known, or the peer's privacy does not allow messages,   *)
(* and no request is past that check, nothing gets through until one of     *)
(* them changes (sendMessage).                                              *)
Barred ==
  \/ blocked /\ \A h \in Handlers : req[h].pc \notin {"privacy", "connection", "create", "commit"}
  \/ permission = "NOBODY" /\ \A h \in Handlers : req[h].pc \notin {"connection", "create", "commit"}
  \/ /\ permission = "CONNECTIONS_ONLY" /\ ~connected
     /\ \A h \in Handlers : req[h].pc \notin {"create", "commit"}
BarredStaysSilent ==
  [][kind = "DIRECT" /\ Barred => Barred' \/ <<blocked, permission, connected>>' # <<blocked, permission, connected>>]_vars

(* Whoever lists a conversation to its end has got every message that was   *)
(* there at the start and is not deleted, but for those created at the very *)
(* time of the last one of a page (getMessages).                            *)
PagesMissOnlyTies ==
  \A h \in Handlers : req[h].pc = "end" =>
    \A m \in req[h].old \intersect Live : \E n \in req[h].got : n = m \/ at[n] = at[m]

(* What is older than a reader's lastReadAt has a readAt, until a message   *)
(* commits that was created before it: after the mark, or between the       *)
(* statement that marks the messages and its commit (markAsRead).           *)
ReadUpTo(u) == \A m \in Live : at[m] < lastReadAt[u] /\ u \notin sender[m] => m \in read
CommitsLate(h) == SendCommit(h) /\ \E u \in Users : req[h].at < lastReadAt[u]
MarksLate(h) == ReadCommit(h) /\ \E m \in Live \ req[h].there : at[m] < req[h].at
ReadTogether ==
  [][(\A u \in Users : ReadUpTo(u)) =>
       (\A u \in Users : ReadUpTo(u))' \/ \E h \in Handlers : CommitsLate(h) \/ MarksLate(h)]_vars

(* Whoever lists their conversations finds none above this one for a        *)
(* message older than the newest shown here, until a message commits that   *)
(* was created before it (listConversations, sendMessage).                  *)
Ordered == \A m \in Preview : at[m] <= lastMessageAt
ListedByNewest ==
  [][Ordered => Ordered' \/ \E h \in Handlers : SendCommit(h) /\ req[h].at < lastMessageAt]_vars

(* A user is shown online without an open socket only if a socket was gone  *)
(* before its token was verified, if the key was left when one closed, or   *)
(* if a process ended with one; and offline with an open socket only if the *)
(* key expired or another socket of theirs closed (handleConnection,        *)
(* handleDisconnect).                                                       *)
Connected(u) == \E s \in Sockets : socket[s].pc = "open" /\ socket[s].user = u
Shown(u) == u \in presence <=> Connected(u)
VerifiedLate(u) ==
  \E h \in Handlers : Verified(h) /\ socket[req[h].socket] = [pc |-> "gone", user |-> u]
Closes(s) == Disconnect(s) \/ \E h \in Handlers : Rejected(h) /\ req[h].socket = s
OtherCloses(u) == Connected(u)' /\ \E s \in Sockets : Closes(s) /\ socket[s].user = u
KeyLeft(u) == u \in presence' /\ \E s \in Sockets : Closes(s) /\ socket[s].user = u
DroppedWith(u) ==
  \E ended \in SUBSET Sockets :
    ProcessEnds(ended) /\ \E s \in ended : socket[s] = [pc |-> "open", user |-> u]
PresenceTracks ==
  [][\A u \in Users : Shown(u) =>
       Shown(u)' \/ VerifiedLate(u) \/ KeyLeft(u) \/ DroppedWith(u)
                \/ OtherCloses(u) \/ PresenceExpire(u)]_vars
=============================================================================
