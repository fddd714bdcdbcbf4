---------------------------- MODULE MemberProofs -----------------------------
(***************************************************************************)
(* What one member shows of themselves: first the profile, for any         *)
(* positions, draws, places, settings and handlers, then the photos, for   *)
(* any number of photos and of handlers and for any limit.  The two        *)
(* modules share no variable and are proved about one after the other.     *)
(*                                                                         *)
(* The properties of the profile are about single steps and need no more   *)
(* than the types; what a request may go on with is the table Hands.       *)
(***************************************************************************)
EXTENDS Profiles, ProfilePhotos, FiniteSetTheorems, TLAPS

USE FixesAssumption, SettingsAssumption, MaxPhotosAssumption

LEMMA RequestKinds ==
  ASSUME TypeOK, NEW h \in Handlers
  PROVE  /\ req[h].pc = "locate" => req[h].fix \in Fixes /\ req[h].ghost \in Ghosts
         /\ req[h].pc = "explore" => req[h].at \in AtMostOne(Places)
         /\ req[h].pc = "complete" => req[h].value \in BOOLEAN
         /\ req[h].pc = "fill" => req[h].settings \in Settings /\ req[h].viewer \in Viewers
         /\ req[h].pc = "view" => req[h].viewer \in Viewers
<1>1. req[h] \in Request \union {Idle}
  BY DEF TypeOK
<1> QED
  BY <1>1 DEF Request, Idle

LEMMA BecomeMoves ==
  ASSUME TypeOK, NEW h \in Handlers, NEW request, Become(h, request)
  PROVE  /\ req'[h] = request
         /\ \A g \in Handlers : g # h => req'[g] = req[g]
         /\ request \in Request \union {Idle} => req' \in [Handlers -> Request \union {Idle}]
BY DEF TypeOK, Become

LEMMA StartMoves ==
  ASSUME TypeOK, NEW h \in Handlers, NEW request, Start(h, request)
  PROVE  /\ req[h].pc = "idle" /\ req'[h] = request
         /\ \A g \in Handlers : g # h => req'[g] = req[g]
         /\ request \in Request => req' \in [Handlers -> Request \union {Idle}]
BY DEF TypeOK, Start

LEMMA FinishMoves ==
  ASSUME TypeOK, NEW h \in Handlers, Finish(h)
  PROVE  /\ req'[h].pc = "idle"
         /\ \A g \in Handlers : g # h => req'[g] = req[g]
         /\ req' \in [Handlers -> Request \union {Idle}]
BY DEF TypeOK, Finish, Become, Idle

(* The request of one handler goes on from one statement to another.        *)
Hands(h, from, to) ==
  /\ req[h].pc \in from /\ req'[h].pc \in to
  /\ \A g \in Handlers : g # h => req'[g] = req[g]

LEMMA HandsOf ==
  ASSUME TypeOK, NEW h \in Handlers
  PROVE  /\ \A to \in Fixes, g \in Ghosts : LocateRead(h, to, g) => Hands(h, {"idle"}, {"locate"})
         /\ LocateWrite(h) => Hands(h, {"locate"}, {"idle"})
         /\ \A to \in AtMostOne(Places) : Explore(h, to) => Hands(h, {"idle"}, {"explore"})
         /\ ExploreWrite(h) => Hands(h, {"explore"}, {"idle"})
         /\ \A pc \in {"interests", "recompute"} : SaveProfile(h, pc) => Hands(h, {"idle"}, {"interests", "recompute"})
         /\ SetInterests(h) => Hands(h, {"idle", "interests"}, {"recompute"})
         /\ Recompute(h) => Hands(h, {"recompute"}, {"complete"})
         /\ RecomputeWrite(h) => Hands(h, {"complete"}, {"idle"})
         /\ \A to \in Settings : UpdatePrivacy(h, to) => Hands(h, {"idle"}, {"clear"})
         /\ ClearCache(h) => Hands(h, {"clear"}, {"idle"})
         /\ \A viewer \in Viewers : View(h, viewer) => Hands(h, {"idle"}, {"view"})
         /\ GetHit(h) => Hands(h, {"view"}, {"shown", "idle"})
         /\ GetMiss(h) => Hands(h, {"view"}, {"fill"})
         /\ GetFill(h) => Hands(h, {"fill"}, {"shown", "idle"})
         /\ SearchPeople(h) => Hands(h, {"idle"}, {"shown"})
         /\ Discover(h) => Hands(h, {"idle"}, {"candidate"})
         /\ Candidate(h) => Hands(h, {"candidate"}, {"shown", "idle"})
         /\ Answer(h) => Hands(h, {"shown"}, {"idle"})
         /\ DeleteAccount(h) => Hands(h, {"idle"}, {"clear"})
         /\ Fail(h) => Hands(h, {req[h].pc}, {"idle"})
<1> USE DEF Hands
<1>1. ASSUME NEW request, Start(h, request) PROVE Hands(h, {"idle"}, {request.pc})
  BY <1>1, StartMoves
<1>2. ASSUME NEW request, Become(h, request) PROVE Hands(h, {req[h].pc}, {request.pc})
  BY <1>2, BecomeMoves
<1>3. ASSUME Finish(h) PROVE Hands(h, {req[h].pc}, {"idle"})
  BY <1>3, FinishMoves
<1> HIDE DEF Hands
<1>4. ASSUME NEW found, Show(h, found) PROVE Hands(h, {req[h].pc}, {"shown", "idle"})
  BY <1>2, <1>3, <1>4 DEF Show, Hands
<1>5. /\ \A to \in Fixes, g \in Ghosts : LocateRead(h, to, g) => Hands(h, {"idle"}, {"locate"})
      /\ \A to \in AtMostOne(Places) : Explore(h, to) => Hands(h, {"idle"}, {"explore"})
  BY <1>1 DEF LocateRead, Explore, Mine
<1>6. /\ LocateWrite(h) => Hands(h, {"locate"}, {"idle"})
      /\ ExploreWrite(h) => Hands(h, {"explore"}, {"idle"})
      /\ RecomputeWrite(h) => Hands(h, {"complete"}, {"idle"})
      /\ ClearCache(h) => Hands(h, {"clear"}, {"idle"})
      /\ Answer(h) => Hands(h, {"shown"}, {"idle"})
      /\ Fail(h) => Hands(h, {req[h].pc}, {"idle"})
  BY <1>3 DEF LocateWrite, ExploreWrite, RecomputeWrite, ClearCache, Answer, Fail
<1>7. \A pc \in {"interests", "recompute"} : SaveProfile(h, pc) => Hands(h, {"idle"}, {"interests", "recompute"})
  BY <1>1 DEF SaveProfile, Hands
<1>8. SetInterests(h) => Hands(h, {"idle", "interests"}, {"recompute"})
  BY <1>2 DEF SetInterests, Hands
<1>9. Recompute(h) => Hands(h, {"recompute"}, {"complete"})
  BY <1>2 DEF Recompute, Hands
<1>10. /\ \A to \in Settings : UpdatePrivacy(h, to) => Hands(h, {"idle"}, {"clear"})
       /\ DeleteAccount(h) => Hands(h, {"idle"}, {"clear"})
       /\ SearchPeople(h) => Hands(h, {"idle"}, {"shown"})
       /\ Discover(h) => Hands(h, {"idle"}, {"candidate"})
  BY <1>1 DEF UpdatePrivacy, DeleteAccount, SearchPeople, Discover
<1>11. \A viewer \in Viewers : View(h, viewer) => Hands(h, {"idle"}, {"view"})
  BY <1>1 DEF View
<1>12. /\ GetHit(h) => Hands(h, {"view"}, {"shown", "idle"})
       /\ GetFill(h) => Hands(h, {"fill"}, {"shown", "idle"})
  BY <1>4 DEF GetHit, GetFill
<1>13. GetMiss(h) => Hands(h, {"view"}, {"fill"})
  BY <1>2 DEF GetMiss, Hands
<1>14. Candidate(h) => Hands(h, {"candidate"}, {"shown", "idle"})
  BY <1>2, <1>3 DEF Candidate, Hands
<1> QED
  BY <1>5, <1>6, <1>7, <1>8, <1>9, <1>10, <1>11, <1>12, <1>13, <1>14

-----------------------------------------------------------------------------
LEMMA One ==
  ASSUME NEW S
  PROVE  /\ {} \in AtMostOne(S)
         /\ \A s \in S : {s} \in AtMostOne(S)
BY DEF AtMostOne

LEMMA TypeInit == Init => TypeOK
<1> SUFFICES ASSUME Init PROVE TypeOK
  OBVIOUS
<1>1. fix \in AtMostOne(Fixes) /\ ghost \in AtMostOne(Ghosts)
  <2>1. CASE profile = TRUE
    <3>1. PICK f \in Fixes, d \in Draws : fix = {f} /\ ghost = {[of |-> f, draw |-> d]}
      BY <2>1 DEF Init
    <3>2. [of |-> f, draw |-> d] \in Ghosts
      BY DEF Ghosts
    <3> QED
      BY <3>1, <3>2, One
  <2>2. CASE profile = FALSE
    BY <2>2, One DEF Init
  <2> QED
    BY <2>1, <2>2 DEF Init
<1>2. settings \in AtMostOne(Settings) /\ cache \in AtMostOne(Settings)
  <2>1. (settings = {} \/ settings = {DefaultSettings}) /\ cache = {}
    BY Zenon DEF Init
  <2> QED
    BY <2>1, One
<1>3. /\ exploring \in AtMostOne(Places) /\ exploringAt \in AtMostOne(Places)
      /\ mode = "NEAR_ME" /\ req = [h \in Handlers |-> Idle]
  <2>1. /\ exploring = {} /\ exploringAt = {} /\ mode = "NEAR_ME"
        /\ req = [h \in Handlers |-> Idle]
    BY DEF Init
  <2> QED
    BY <2>1, One
<1>4. /\ deleted \in BOOLEAN /\ profile \in BOOLEAN
      /\ interests \in BOOLEAN /\ complete \in BOOLEAN /\ bare \in BOOLEAN
      /\ photos \in 0..MaxPhotos
  <2>1. photos = 0 \/ photos = 1
    BY Zenon DEF Init
  <2>2. deleted \in BOOLEAN /\ profile \in BOOLEAN /\ interests \in BOOLEAN /\ complete \in BOOLEAN
    <3>1. TRUE \in BOOLEAN /\ FALSE \in BOOLEAN
      OBVIOUS
    <3> QED
      BY <3>1, Zenon DEF Init
  <2>3. bare \in BOOLEAN
    <3>1. bare = ~interests \/ bare = FALSE
      BY Zenon DEF Init
    <3> QED
      BY <2>2, <3>1
  <2> QED
    BY <2>1, <2>2, <2>3
<1> QED
  BY <1>1, <1>2, <1>3, <1>4 DEF TypeOK

LEMMA TypeStep == TypeOK /\ [Next]_vars => TypeOK'
<1> SUFFICES ASSUME TypeOK, [Next]_vars PROVE TypeOK'
  OBVIOUS
<1> USE DEF place, travel, card, privacy
<1>1. ASSUME NEW h \in Handlers, NEW to \in Fixes, NEW g \in Ghosts, LocateRead(h, to, g) PROVE TypeOK'
  <2>1. [pc |-> "locate", fix |-> to, ghost |-> g] \in Request
    BY DEF Request
  <2>2. req' \in [Handlers -> Request \union {Idle}]
    BY <1>1, <2>1, StartMoves DEF LocateRead, Mine
  <2> QED
    BY <1>1, <2>2 DEF LocateRead, TypeOK
<1>2. ASSUME NEW h \in Handlers, LocateWrite(h) PROVE TypeOK'
  <2>1. {req[h].fix} \in AtMostOne(Fixes) /\ {req[h].ghost} \in AtMostOne(Ghosts)
    BY <1>2, RequestKinds, One DEF LocateWrite
  <2> QED
    BY <1>2, <2>1, FinishMoves DEF LocateWrite, TypeOK
<1>3. ASSUME NEW h \in Handlers, NEW to \in AtMostOne(Places), Explore(h, to) PROVE TypeOK'
  <2>1. [pc |-> "explore", at |-> to] \in Request
    BY DEF Request
  <2>2. req' \in [Handlers -> Request \union {Idle}]
    BY <1>3, <2>1, StartMoves DEF Explore, Mine
  <2> QED
    BY <1>3, <2>2 DEF Explore, TypeOK
<1>4. ASSUME NEW h \in Handlers, ExploreWrite(h) PROVE TypeOK'
  <2>1. exploringAt' \in AtMostOne(Places)
    BY <1>4, RequestKinds DEF ExploreWrite
  <2> QED
    BY <1>4, <2>1, FinishMoves DEF ExploreWrite, TypeOK
<1>5. ASSUME NEW h \in Handlers, NEW pc \in {"interests", "recompute"}, SaveProfile(h, pc) PROVE TypeOK'
  <2>1. [pc |-> pc] \in Request
    BY DEF Request
  <2>2. req' \in [Handlers -> Request \union {Idle}]
    BY <1>5, <2>1, StartMoves DEF SaveProfile
  <2> QED
    BY <1>5, <2>2 DEF SaveProfile, TypeOK
<1>6. ASSUME NEW h \in Handlers, SetInterests(h) PROVE TypeOK'
  <2>1. [pc |-> "recompute"] \in Request
    BY DEF Request
  <2>2. req' \in [Handlers -> Request \union {Idle}]
    BY <1>6, <2>1, BecomeMoves DEF SetInterests
  <2>3. bare' \in BOOLEAN
    BY <1>6 DEF SetInterests, TypeOK
  <2> QED
    BY <1>6, <2>2, <2>3 DEF SetInterests, TypeOK
<1>7. ASSUME NEW h \in Handlers, Recompute(h) PROVE TypeOK'
  <2>1. [pc |-> "complete", value |-> photos >= 1 /\ interests] \in Request
    <3>1. (photos >= 1 /\ interests) \in BOOLEAN
      OBVIOUS
    <3>2. \A b \in BOOLEAN : [pc |-> "complete", value |-> b] \in Request
      BY DEF Request
    <3> QED
      BY <3>1, <3>2, Zenon
  <2>2. req' \in [Handlers -> Request \union {Idle}]
    BY <1>7, <2>1, BecomeMoves DEF Recompute
  <2> QED
    BY <1>7, <2>2 DEF Recompute, TypeOK
<1>8. ASSUME NEW h \in Handlers, RecomputeWrite(h) \/ Answer(h) \/ Fail(h) PROVE TypeOK'
  <2>1. req' \in [Handlers -> Request \union {Idle}] /\ complete' \in BOOLEAN
    BY <1>8, FinishMoves, RequestKinds DEF RecomputeWrite, Answer, Fail, TypeOK
  <2> QED
    BY <1>8, <2>1 DEF RecomputeWrite, Answer, Fail, TypeOK
<1>9. ASSUME NEW h \in Handlers, NEW to \in Settings, UpdatePrivacy(h, to) PROVE TypeOK'
  <2>1. [pc |-> "clear"] \in Request /\ {to} \in AtMostOne(Settings)
    BY One DEF Request
  <2>2. req' \in [Handlers -> Request \union {Idle}]
    BY <1>9, <2>1, StartMoves DEF UpdatePrivacy
  <2> QED
    BY <1>9, <2>1, <2>2 DEF UpdatePrivacy, TypeOK
<1>10. ASSUME NEW h \in Handlers, ClearCache(h) PROVE TypeOK'
  BY <1>10, FinishMoves, One DEF ClearCache, TypeOK
<1>11. ASSUME NEW h \in Handlers, NEW request \in Request, Start(h, request) \/ Become(h, request),
              UNCHANGED <<deleted, profile, place, travel, card, privacy>>
       PROVE  TypeOK'
  BY <1>11, StartMoves, BecomeMoves DEF TypeOK
<1>12. ASSUME NEW h \in Handlers, NEW viewer \in Viewers, View(h, viewer) PROVE TypeOK'
  <2>1. [pc |-> "view", viewer |-> viewer] \in Request
    BY DEF Request
  <2> QED
    BY <1>11, <1>12, <2>1 DEF View
<1>13. [pc |-> "shown"] \in Request /\ [pc |-> "candidate"] \in Request /\ [pc |-> "clear"] \in Request
  BY DEF Request
<1>14. ASSUME NEW h \in Handlers, NEW found, Show(h, found) PROVE req' \in [Handlers -> Request \union {Idle}]
  BY <1>13, <1>14, BecomeMoves, FinishMoves DEF Show
<1>15. ASSUME NEW h \in Handlers, GetHit(h) PROVE TypeOK'
  <2>1. req' \in [Handlers -> Request \union {Idle}]
    BY <1>14, <1>15 DEF GetHit
  <2> QED
    BY <1>15, <2>1 DEF GetHit, TypeOK
<1>16. ASSUME NEW h \in Handlers, GetMiss(h) PROVE TypeOK'
  <2>1. PICK found \in Current :
          Become(h, [pc |-> "fill", settings |-> found, viewer |-> req[h].viewer])
    BY <1>16 DEF GetMiss
  <2>2. found \in Settings /\ req[h].viewer \in Viewers
    BY <1>16, <2>1, RequestKinds DEF GetMiss, Current, TypeOK, AtMostOne
  <2>3. [pc |-> "fill", settings |-> found, viewer |-> req[h].viewer] \in Request
    BY <2>2 DEF Request
  <2> QED
    BY <1>11, <1>16, <2>1, <2>3 DEF GetMiss
<1>17. ASSUME NEW h \in Handlers, GetFill(h) PROVE TypeOK'
  <2>1. req' \in [Handlers -> Request \union {Idle}]
    BY <1>14, <1>17 DEF GetFill
  <2>2. cache' \in AtMostOne(Settings)
    BY <1>17, RequestKinds, One DEF GetFill, TypeOK
  <2> QED
    BY <1>17, <2>1, <2>2 DEF GetFill, TypeOK
<1>18. ASSUME NEW h \in Handlers, SearchPeople(h) \/ Discover(h) PROVE TypeOK'
  BY <1>11, <1>13, <1>18 DEF SearchPeople, Discover
<1>19. ASSUME NEW h \in Handlers, Candidate(h) PROVE TypeOK'
  <2>1. req' \in [Handlers -> Request \union {Idle}]
    BY <1>13, <1>19, BecomeMoves, FinishMoves DEF Candidate
  <2> QED
    BY <1>19, <2>1 DEF Candidate, TypeOK
<1>20. ASSUME NEW h \in Handlers, DeleteAccount(h) PROVE TypeOK'
  <2>1. req' \in [Handlers -> Request \union {Idle}]
    BY <1>13, <1>20, StartMoves DEF DeleteAccount
  <2> QED
    BY <1>20, <2>1, One DEF DeleteAccount, TypeOK
<1>21. ASSUME NEW to \in {"NEAR_ME", "CHOOSE_LOCATION"}, SetLocationMode(to) PROVE TypeOK'
  BY <1>21 DEF SetLocationMode, TypeOK
<1>22. CASE AddPhoto \/ DeletePhoto
  <2>1. photos' \in 0..MaxPhotos
    BY <1>22 DEF AddPhoto, DeletePhoto, TypeOK
  <2> QED
    BY <1>22, <2>1 DEF AddPhoto, DeletePhoto, TypeOK
<1>23. CASE CacheExpire
  BY <1>23, One DEF CacheExpire, TypeOK
<1>24. CASE UNCHANGED vars
  BY <1>24 DEF vars, TypeOK
<1> QED
  BY <1>1, <1>2, <1>3, <1>4, <1>5, <1>6, <1>7, <1>8, <1>9, <1>10, <1>12, <1>15, <1>16, <1>17,
     <1>18, <1>19, <1>20, <1>21, <1>22, <1>23, <1>24 DEF Next

(* Every variable keeps its type.                                           *)
THEOREM TypeCorrect == Spec => []TypeOK
BY TypeInit, TypeStep, PTL DEF Spec

-----------------------------------------------------------------------------
(* What leaves the position alone.                                          *)
LEMMA PlaceKept ==
  ASSUME TypeOK, [Next]_vars
  PROVE  \/ UNCHANGED place
         \/ \E h \in Handlers : LocateWrite(h) \/ DeleteAccount(h)
BY DEF Next, vars, place, travel, card, privacy, LocateRead, Explore, ExploreWrite, SaveProfile, SetInterests,
       Recompute, RecomputeWrite, UpdatePrivacy, ClearCache, View, GetHit, GetMiss, GetFill, SearchPeople,
       Discover, Candidate, Answer, Fail, SetLocationMode, AddPhoto, DeletePhoto, CacheExpire

LEMMA GhostStep ==
  ASSUME TypeOK, [Next]_vars, NEW f \in fix, NEW to \in fix', NEW g \in ghost,
         Distance(f, to) <= RefreshDistance
  PROVE  g \in ghost' \/ \E h \in Handlers : Late(h)
<1>1. CASE UNCHANGED place
  BY <1>1 DEF place
<1>2. ASSUME NEW h \in Handlers, LocateWrite(h), ~Late(h) PROVE g \in ghost'
  <2>1. /\ fix' = {req[h].fix} /\ ghost' = {req[h].ghost} /\ to = req[h].fix
        /\ req[h].ghost \in GhostFor(to)
    BY <1>2 DEF LocateWrite, Late
  <2>2. f \in Int /\ to \in Int
    BY <1>2, <2>1, RequestKinds DEF LocateWrite, TypeOK, AtMostOne
  <2>3. ~Moved(to)
    BY <2>2 DEF Moved, Distance
  <2>4. req[h].ghost \in ghost
    BY <2>1, <2>3 DEF GhostFor
  <2> QED
    BY <2>1, <2>4 DEF TypeOK, AtMostOne
<1>3. ASSUME NEW h \in Handlers, DeleteAccount(h) PROVE FALSE
  BY <1>3 DEF DeleteAccount
<1> QED
  BY <1>1, <1>2, <1>3, PlaceKept

(* The ghost of a member who stays about where they are is not drawn anew,  *)
(* but by a late request.                                                   *)
THEOREM GhostIsHeld == Spec => GhostHolds
<1>1. TypeOK /\ [Next]_vars =>
        [\A f \in fix, to \in fix', g \in ghost :
           Distance(f, to) <= RefreshDistance => g \in ghost' \/ \E h \in Handlers : Late(h)]_vars
  BY GhostStep
<1> QED
  BY <1>1, TypeCorrect, PTL DEF Spec, GhostHolds

LEMMA PlacelessStep ==
  ASSUME TypeOK, [Next]_vars, deleted, NoPosition, ~Locating
  PROVE  (NoPosition /\ ~Locating)'
<1>1. NoPosition'
  <2>1. ~ \E h \in Handlers : LocateWrite(h)
    BY DEF LocateWrite, Locating
  <2>2. ~ \E h \in Handlers : DeleteAccount(h)
    BY DEF DeleteAccount, SignedIn
  <2> QED
    BY <2>1, <2>2, PlaceKept DEF place, NoPosition
<1>2. ASSUME NEW h \in Handlers, NEW from, NEW to, Hands(h, from, to), "locate" \notin to PROVE ~Locating'
  BY <1>2 DEF Hands, Locating
<1>3. ~ \E h \in Handlers, to \in Fixes, g \in Ghosts : LocateRead(h, to, g)
  BY DEF LocateRead, Mine, SignedIn
<1>4. ASSUME NEW h \in Handlers,
             \/ LocateWrite(h)
             \/ (\E to \in AtMostOne(Places) : Explore(h, to)) \/ ExploreWrite(h)
             \/ (\E pc \in {"interests", "recompute"} : SaveProfile(h, pc)) \/ SetInterests(h)
             \/ Recompute(h) \/ RecomputeWrite(h)
      PROVE  ~Locating'
  BY <1>2, <1>4, HandsOf
<1>5. ASSUME NEW h \in Handlers,
             \/ (\E to \in Settings : UpdatePrivacy(h, to)) \/ ClearCache(h)
             \/ (\E viewer \in Viewers : View(h, viewer)) \/ GetHit(h) \/ GetMiss(h) \/ GetFill(h)
             \/ SearchPeople(h) \/ Discover(h) \/ Candidate(h) \/ Answer(h)
             \/ DeleteAccount(h) \/ Fail(h)
      PROVE  ~Locating'
  BY <1>2, <1>5, HandsOf
<1>6. ASSUME \/ \E to \in {"NEAR_ME", "CHOOSE_LOCATION"} : SetLocationMode(to)
             \/ AddPhoto \/ DeletePhoto \/ CacheExpire \/ UNCHANGED vars
      PROVE  ~Locating'
  <2>1. req' = req
    BY <1>6 DEF SetLocationMode, AddPhoto, DeletePhoto, CacheExpire, vars
  <2> QED
    BY <2>1 DEF Locating
<1>7. ~Locating'
  BY <1>3, <1>4, <1>5, <1>6 DEF Next
<1> QED
  BY <1>1, <1>7

(* A deleted account gets no position once no request of it is under way.   *)
THEOREM DeletedIsPlaceless == Spec => DeletedStaysPlaceless
<1>1. TypeOK /\ [Next]_vars => [deleted /\ NoPosition /\ ~Locating => (NoPosition /\ ~Locating)']_vars
  BY PlacelessStep
<1> QED
  BY <1>1, TypeCorrect, PTL DEF Spec, DeletedStaysPlaceless

-----------------------------------------------------------------------------
LEMMA ExploringStep ==
  ASSUME TypeOK, [Next]_vars, exploringAt = exploring \/ Travelling
  PROVE  \/ (exploringAt = exploring \/ Travelling)'
         \/ \E h \in Handlers : ExploreWrite(h) /\ req[h].at # exploring
         \/ \E h \in Handlers : Fail(h) /\ req[h].pc = "explore"
<1> DEFINE Goal == \/ (exploringAt = exploring \/ Travelling)'
                   \/ \E h \in Handlers : ExploreWrite(h) /\ req[h].at # exploring
                   \/ \E h \in Handlers : Fail(h) /\ req[h].pc = "explore"
<1> USE DEF place, travel, card, privacy
<1>1. ASSUME NEW h \in Handlers, req[h].pc # "explore", \A g \in Handlers : g # h => req'[g] = req[g],
             UNCHANGED <<exploring, exploringAt>>
      PROVE  Goal
  BY <1>1 DEF Travelling
<1>2. ASSUME NEW h \in Handlers, NEW to \in AtMostOne(Places), Explore(h, to) PROVE Goal
  <2>1. req'[h].pc = "explore" /\ req'[h].at = to /\ exploring' = to
    BY <1>2, StartMoves DEF Explore, Mine
  <2> QED
    BY <2>1 DEF Travelling
<1>3. ASSUME NEW h \in Handlers, ExploreWrite(h) PROVE Goal
  BY <1>3 DEF ExploreWrite
<1>4. ASSUME NEW h \in Handlers, Fail(h) PROVE Goal
  <2>1. CASE req[h].pc # "explore"
    BY <1>1, <1>4, <2>1, HandsOf DEF Fail, Hands
  <2> QED
    BY <1>4, <2>1
<1>5. ASSUME NEW h \in Handlers,
             \/ \E to \in Fixes, g \in Ghosts : LocateRead(h, to, g)
             \/ LocateWrite(h)
             \/ (\E pc \in {"interests", "recompute"} : SaveProfile(h, pc)) \/ SetInterests(h)
             \/ Recompute(h) \/ RecomputeWrite(h)
      PROVE  Goal
  <2>1. UNCHANGED <<exploring, exploringAt>>
    BY <1>5 DEF LocateRead, LocateWrite, SaveProfile, SetInterests, Recompute, RecomputeWrite
  <2>2. req[h].pc # "explore" /\ \A g \in Handlers : g # h => req'[g] = req[g]
    BY <1>5, HandsOf DEF Hands
  <2> QED
    BY <1>1, <2>1, <2>2
<1>6. ASSUME NEW h \in Handlers,
             \/ (\E to \in Settings : UpdatePrivacy(h, to)) \/ ClearCache(h)
             \/ (\E viewer \in Viewers : View(h, viewer)) \/ GetHit(h) \/ GetMiss(h) \/ GetFill(h)
             \/ SearchPeople(h) \/ Discover(h) \/ Candidate(h) \/ Answer(h)
             \/ DeleteAccount(h)
      PROVE  Goal
  <2>1. UNCHANGED <<exploring, exploringAt>>
    BY <1>6 DEF UpdatePrivacy, ClearCache, View, GetHit, GetMiss, GetFill, SearchPeople, Discover, Candidate,
                Answer, DeleteAccount
  <2>2. req[h].pc # "explore" /\ \A g \in Handlers : g # h => req'[g] = req[g]
    BY <1>6, HandsOf DEF Hands
  <2> QED
    BY <1>1, <2>1, <2>2
<1>7. CASE \/ \E to \in {"NEAR_ME", "CHOOSE_LOCATION"} : SetLocationMode(to)
          \/ AddPhoto \/ DeletePhoto \/ CacheExpire \/ UNCHANGED vars
  <2>1. UNCHANGED <<exploring, exploringAt, req>>
    BY <1>7 DEF SetLocationMode, AddPhoto, DeletePhoto, CacheExpire, vars
  <2> QED
    BY <2>1 DEF Travelling
<1> QED
  BY <1>2, <1>3, <1>4, <1>5, <1>6, <1>7 DEF Next

(* The member is found where they explore, but for the overlaps and the cut *)
(* that ExploringAgrees names.                                              *)
THEOREM ExploringIsAgreed == Spec => ExploringAgrees
<1>1. TypeOK /\ [Next]_vars =>
        [exploringAt = exploring \/ Travelling =>
           \/ (exploringAt = exploring \/ Travelling)'
           \/ \E h \in Handlers : ExploreWrite(h) /\ req[h].at # exploring
           \/ \E h \in Handlers : Fail(h) /\ req[h].pc = "explore"]_vars
  BY ExploringStep
<1> QED
  BY <1>1, TypeCorrect, PTL DEF Spec, ExploringAgrees

-----------------------------------------------------------------------------
LEMMA CacheStep ==
  ASSUME TypeOK, [Next]_vars, CacheAgrees
  PROVE  \/ CacheAgrees'
         \/ \E h \in Handlers : GetFill(h) /\ req[h].settings \notin Current
         \/ \E h \in Handlers : Fail(h) /\ req[h].pc = "clear"
<1> DEFINE Goal == \/ CacheAgrees'
                   \/ \E h \in Handlers : GetFill(h) /\ req[h].settings \notin Current
                   \/ \E h \in Handlers : Fail(h) /\ req[h].pc = "clear"
<1> USE DEF place, travel, card, privacy
<1>1. ASSUME NEW h \in Handlers, req[h].pc # "clear", \A g \in Handlers : g # h => req'[g] = req[g],
             settings' = settings, cache' \subseteq Current \/ cache' = cache
      PROVE  Goal
  <2>1. Current' = Current
    BY <1>1 DEF Current
  <2> QED
    BY <1>1, <2>1 DEF CacheAgrees
<1>2. ASSUME NEW h \in Handlers, req'[h].pc = "clear" PROVE Goal
  BY <1>2 DEF CacheAgrees
<1>3. ASSUME NEW h \in Handlers, (\E to \in Settings : UpdatePrivacy(h, to)) \/ DeleteAccount(h) PROVE Goal
  BY <1>2, <1>3, HandsOf DEF Hands
<1>4. CASE CacheExpire \/ \E h \in Handlers : ClearCache(h)
  BY <1>4 DEF CacheExpire, ClearCache, CacheAgrees
<1>5. ASSUME NEW h \in Handlers, GetFill(h) PROVE Goal
  <2>1. CASE req[h].settings \in Current
    BY <1>1, <1>5, <2>1, HandsOf DEF GetFill, Hands
  <2> QED
    BY <1>5, <2>1
<1>6. ASSUME NEW h \in Handlers, Fail(h) PROVE Goal
  <2>1. CASE req[h].pc # "clear"
    BY <1>1, <1>6, <2>1, HandsOf DEF Fail, Hands
  <2> QED
    BY <1>6, <2>1
<1>7. ASSUME NEW h \in Handlers,
             \/ \E to \in Fixes, g \in Ghosts : LocateRead(h, to, g)
             \/ LocateWrite(h)
             \/ (\E to \in AtMostOne(Places) : Explore(h, to)) \/ ExploreWrite(h)
             \/ (\E pc \in {"interests", "recompute"} : SaveProfile(h, pc)) \/ SetInterests(h)
             \/ Recompute(h) \/ RecomputeWrite(h)
      PROVE  Goal
  <2>1. UNCHANGED <<settings, cache>>
    BY <1>7 DEF LocateRead, LocateWrite, Explore, ExploreWrite, SaveProfile, SetInterests, Recompute, RecomputeWrite
  <2>2. req[h].pc # "clear" /\ \A g \in Handlers : g # h => req'[g] = req[g]
    BY <1>7, HandsOf DEF Hands
  <2> QED
    BY <1>1, <2>1, <2>2
<1>8. ASSUME NEW h \in Handlers,
             \/ (\E viewer \in Viewers : View(h, viewer)) \/ GetHit(h) \/ GetMiss(h)
             \/ SearchPeople(h) \/ Discover(h) \/ Candidate(h) \/ Answer(h)
      PROVE  Goal
  <2>1. UNCHANGED <<settings, cache>>
    BY <1>8 DEF View, GetHit, GetMiss, SearchPeople, Discover, Candidate, Answer
  <2>2. req[h].pc # "clear" /\ \A g \in Handlers : g # h => req'[g] = req[g]
    BY <1>8, HandsOf DEF Hands
  <2> QED
    BY <1>1, <2>1, <2>2
<1>9. CASE \/ \E to \in {"NEAR_ME", "CHOOSE_LOCATION"} : SetLocationMode(to)
          \/ AddPhoto \/ DeletePhoto \/ UNCHANGED vars
  <2>1. UNCHANGED <<settings, cache, req>>
    BY <1>9 DEF SetLocationMode, AddPhoto, DeletePhoto, vars
  <2> QED
    BY <2>1 DEF CacheAgrees, Current
<1> QED
  BY <1>3, <1>4, <1>5, <1>6, <1>7, <1>8, <1>9 DEF Next

(* The cache agrees with the row, but for a late reader and a cut update.   *)
THEOREM CacheIsTracked == Spec => CacheTracks
<1>1. TypeOK /\ [Next]_vars =>
        [CacheAgrees => \/ CacheAgrees'
                        \/ \E h \in Handlers : GetFill(h) /\ req[h].settings \notin Current
                        \/ \E h \in Handlers : Fail(h) /\ req[h].pc = "clear"]_vars
  BY CacheStep
<1> QED
  BY <1>1, TypeCorrect, PTL DEF Spec, CacheTracks

-----------------------------------------------------------------------------
LEMMA CompleteStep ==
  ASSUME TypeOK, [Next]_vars, Fit
  PROVE  \/ Fit'
         \/ DeletePhoto /\ photos' = 0
         \/ \E h \in Handlers : SetInterests(h) /\ ~interests'
<1> DEFINE Goal == \/ Fit'
                   \/ DeletePhoto /\ photos' = 0
                   \/ \E h \in Handlers : SetInterests(h) /\ ~interests'
<1> USE DEF place, travel, card, privacy
<1>1. ASSUME UNCHANGED <<photos, interests>>,
             complete' => photos >= 1 /\ (interests \/ bare'),
             \A h \in Handlers : \/ req'[h] = req[h]
                               \/ req'[h].pc # "complete"
                               \/ req'[h].value => photos >= 1 /\ interests
      PROVE  Goal
  BY <1>1 DEF Fit
<1>2. ASSUME NEW h \in Handlers, Recompute(h) PROVE Goal
  <2>1. /\ req'[h].value = (photos >= 1 /\ interests)
        /\ \A g \in Handlers : g # h => req'[g] = req[g]
    BY <1>2, BecomeMoves DEF Recompute
  <2>2. UNCHANGED <<photos, interests, complete, bare>>
    BY <1>2 DEF Recompute
  <2> QED
    BY <1>1, <2>1, <2>2 DEF Fit
<1>3. ASSUME NEW h \in Handlers, RecomputeWrite(h) PROVE Goal
  <2>1. complete' => photos >= 1 /\ (interests \/ bare')
    BY <1>3 DEF RecomputeWrite, Fit
  <2>2. req'[h].pc = "idle" /\ \A g \in Handlers : g # h => req'[g] = req[g]
    BY <1>3, FinishMoves DEF RecomputeWrite
  <2>3. photos' = photos /\ interests' = interests
    BY <1>3 DEF RecomputeWrite
  <2>4. complete' => photos' >= 1 /\ (interests' \/ bare')
    BY <2>1, <2>3, Zenon
  <2>5. \A g \in Handlers : req'[g].pc = "complete" => req'[g] = req[g]
    BY <2>2
  <2>6. \A g \in Handlers : req'[g].pc = "complete" /\ req'[g].value => photos' >= 1 /\ interests'
    BY <2>3, <2>5, Zenon DEF Fit
  <2> QED
    BY <2>4, <2>6, Zenon DEF Fit
<1>4. CASE AddPhoto
  <2>1. photos' >= 1 /\ interests' = interests /\ complete' = complete /\ bare' = bare /\ req' = req
    BY <1>4 DEF AddPhoto, TypeOK
  <2>2. complete' => photos' >= 1 /\ (interests' \/ bare')
    BY <2>1, Zenon DEF Fit
  <2>3. \A h \in Handlers : req'[h].pc = "complete" /\ req'[h].value => photos' >= 1 /\ interests'
    BY <2>1, Zenon DEF Fit
  <2> QED
    BY <2>2, <2>3, Zenon DEF Fit
<1>5. ASSUME NEW h \in Handlers, req'[h].pc # "complete", \A g \in Handlers : g # h => req'[g] = req[g],
             UNCHANGED card
      PROVE  Goal
  BY <1>1, <1>5 DEF Fit
<1>6. ASSUME NEW h \in Handlers,
             \/ \E to \in Fixes, g \in Ghosts : LocateRead(h, to, g)
             \/ LocateWrite(h)
             \/ (\E to \in AtMostOne(Places) : Explore(h, to)) \/ ExploreWrite(h)
             \/ \E pc \in {"interests", "recompute"} : SaveProfile(h, pc)
             \/ DeleteAccount(h) \/ Fail(h)
      PROVE  Goal
  <2>1. UNCHANGED card
    BY <1>6 DEF LocateRead, LocateWrite, Explore, ExploreWrite, SaveProfile, DeleteAccount, Fail
  <2>2. req'[h].pc # "complete" /\ \A g \in Handlers : g # h => req'[g] = req[g]
    BY <1>6, HandsOf DEF Hands
  <2> QED
    BY <1>5, <2>1, <2>2
<1>7. ASSUME NEW h \in Handlers,
             \/ (\E to \in Settings : UpdatePrivacy(h, to)) \/ ClearCache(h)
             \/ (\E viewer \in Viewers : View(h, viewer)) \/ GetHit(h) \/ GetMiss(h) \/ GetFill(h)
             \/ SearchPeople(h) \/ Discover(h) \/ Candidate(h) \/ Answer(h)
      PROVE  Goal
  <2>1. UNCHANGED card
    BY <1>7 DEF UpdatePrivacy, ClearCache, View, GetHit, GetMiss, GetFill, SearchPeople, Discover, Candidate, Answer
  <2>2. req'[h].pc # "complete" /\ \A g \in Handlers : g # h => req'[g] = req[g]
    BY <1>7, HandsOf DEF Hands
  <2> QED
    BY <1>5, <2>1, <2>2
<1>8. CASE CacheExpire \/ UNCHANGED vars \/ \E to \in {"NEAR_ME", "CHOOSE_LOCATION"} : SetLocationMode(to)
  <2>1. UNCHANGED <<photos, interests, complete, bare, req>>
    BY <1>8 DEF SetLocationMode, CacheExpire, vars
  <2> QED
    BY <2>1 DEF Fit
<1>9. CASE DeletePhoto
  <2>1. CASE photos' = 0
    BY <1>9, <2>1
  <2>2. CASE photos' # 0
    <3>1. photos >= 1 /\ photos' >= 1 /\ UNCHANGED <<interests, complete, bare, req>>
      BY <1>9, <2>2 DEF DeletePhoto, TypeOK
    <3> QED
      BY <3>1 DEF Fit
  <2> QED
    BY <2>1, <2>2
<1>10. ASSUME NEW h \in Handlers, SetInterests(h) PROVE Goal
  <2>1. CASE ~interests'
    BY <1>10, <2>1
  <2>2. CASE interests'
    <3>1. UNCHANGED <<photos, complete>>
      BY <1>10 DEF SetInterests
    <3>2. /\ req'[h].pc = "recompute"
          /\ \A g \in Handlers : g # h => req'[g] = req[g]
      BY <1>10, BecomeMoves DEF SetInterests
    <3> QED
      BY <2>2, <3>1, <3>2 DEF Fit
  <2> QED
    BY <2>1, <2>2
<1> QED
  BY <1>2, <1>3, <1>4, <1>6, <1>7, <1>8, <1>9, <1>10 DEF Next

(* Whoever is declared complete has a photo, and an interest unless it was  *)
(* register that declared it, until the last photo is deleted or the        *)
(* interests are taken away.                                                *)
THEOREM CompleteIsTracked == Spec => CompleteTracks
<1>1. Init => Fit
  <2> SUFFICES ASSUME Init PROVE Fit
    OBVIOUS
  <2>1. complete => photos >= 1 /\ (interests \/ bare)
    <3>1. ~complete \/ (photos = 1 /\ (interests \/ bare))
      BY Zenon DEF Init
    <3> QED
      BY <3>1
  <2>2. \A h \in Handlers : req[h].pc # "complete"
    BY DEF Init, Idle
  <2> QED
    BY <2>1, <2>2 DEF Fit
<1>2. TypeOK /\ [Next]_vars =>
        [Fit => \/ Fit'
                \/ DeletePhoto /\ photos' = 0
                \/ \E h \in Handlers : SetInterests(h) /\ ~interests']_vars
  BY CompleteStep
<1> QED
  BY <1>1, <1>2, TypeCorrect, PTL DEF Spec, CompleteTracks

-----------------------------------------------------------------------------
LEMMA UnseenStep ==
  ASSUME TypeOK, [Next]_vars, Unseen, Current' = {"private"}
  PROVE  Unseen'
<1> USE DEF place, travel, card, privacy
<1>0. /\ Current = {"private"} /\ cache \subseteq {"private"}
      /\ \A h \in Handlers : req[h].pc = "fill" => req[h].settings = "private"
      /\ \A h \in Handlers : req[h].pc # "shown"
  BY DEF Unseen
<1>1. ASSUME NEW h \in Handlers, req'[h].pc \notin {"fill", "shown"},
             \A g \in Handlers : g # h => req'[g] = req[g],
             cache' \subseteq {"private"}
      PROVE  Unseen'
  BY <1>0, <1>1 DEF Unseen
<1>2. ASSUME NEW h \in Handlers, GetMiss(h) PROVE Unseen'
  <2>1. /\ Become(h, [pc |-> "fill", settings |-> "private", viewer |-> req[h].viewer]) /\ cache' = cache
    BY <1>0, <1>2 DEF GetMiss
  <2>2. /\ req'[h].pc = "fill" /\ req'[h].settings = "private"
        /\ \A g \in Handlers : g # h => req'[g] = req[g]
    BY <2>1, BecomeMoves
  <2> QED
    BY <1>0, <2>1, <2>2 DEF Unseen
<1>3. ASSUME NEW h \in Handlers, GetHit(h) \/ GetFill(h) PROVE Unseen'
  <2>1. Show(h, "private") /\ cache' \subseteq {"private"}
    BY <1>0, <1>3 DEF GetHit, GetFill
  <2>2. req'[h].pc = "idle" /\ \A g \in Handlers : g # h => req'[g] = req[g]
    BY <2>1, FinishMoves DEF Show
  <2> QED
    BY <1>1, <2>1, <2>2
<1>4. ASSUME NEW h \in Handlers, Candidate(h) PROVE Unseen'
  <2>1. Finish(h) /\ cache' = cache
    BY <1>0, <1>4 DEF Candidate
  <2> QED
    BY <1>0, <1>1, <2>1, FinishMoves
<1>5. ~ \E h \in Handlers : SearchPeople(h)
  BY <1>0 DEF SearchPeople, Listed
<1>6. ASSUME NEW h \in Handlers,
             \/ \E to \in Fixes, g \in Ghosts : LocateRead(h, to, g)
             \/ LocateWrite(h)
             \/ (\E to \in AtMostOne(Places) : Explore(h, to)) \/ ExploreWrite(h)
             \/ (\E pc \in {"interests", "recompute"} : SaveProfile(h, pc)) \/ SetInterests(h)
             \/ Recompute(h) \/ RecomputeWrite(h)
      PROVE  Unseen'
  <2>1. cache' = cache
    BY <1>6 DEF LocateRead, LocateWrite, Explore, ExploreWrite, SaveProfile, SetInterests, Recompute, RecomputeWrite
  <2>2. req'[h].pc \notin {"fill", "shown"} /\ \A g \in Handlers : g # h => req'[g] = req[g]
    BY <1>6, HandsOf DEF Hands
  <2> QED
    BY <1>0, <1>1, <2>1, <2>2
<1>7. ASSUME NEW h \in Handlers,
             \/ (\E to \in Settings : UpdatePrivacy(h, to)) \/ ClearCache(h)
             \/ (\E viewer \in Viewers : View(h, viewer)) \/ Discover(h) \/ Answer(h)
             \/ DeleteAccount(h) \/ Fail(h)
      PROVE  Unseen'
  <2>1. cache' = cache \/ cache' = {}
    BY <1>7 DEF UpdatePrivacy, ClearCache, View, Discover, Answer, DeleteAccount, Fail
  <2>2. req'[h].pc \notin {"fill", "shown"} /\ \A g \in Handlers : g # h => req'[g] = req[g]
    BY <1>7, HandsOf DEF Hands
  <2> QED
    BY <1>0, <1>1, <2>1, <2>2
<1>8. CASE \/ \E to \in {"NEAR_ME", "CHOOSE_LOCATION"} : SetLocationMode(to)
          \/ AddPhoto \/ DeletePhoto \/ CacheExpire \/ UNCHANGED vars
  <2>1. req' = req /\ (cache' = cache \/ cache' = {})
    BY <1>8 DEF SetLocationMode, AddPhoto, DeletePhoto, CacheExpire, vars
  <2> QED
    BY <1>0, <2>1 DEF Unseen
<1> QED
  BY <1>2, <1>3, <1>4, <1>5, <1>6, <1>7, <1>8 DEF Next

(* A member in Private Mode that has come through is shown to no stranger   *)
(* until it is switched off.                                                *)
THEOREM PrivateIsUnseen == Spec => PrivateStaysUnseen
<1>1. TypeOK /\ [Next]_vars => [Unseen => Unseen' \/ Current' # {"private"}]_vars
  BY UnseenStep
<1> QED
  BY <1>1, TypeCorrect, PTL DEF Spec, PrivateStaysUnseen
-----------------------------------------------------------------------------
(***************************************************************************)
(* The photos.  The bound on the active ones is not inductive by itself:   *)
(* what is counted with them are the additions past their check.           *)
(***************************************************************************)

USE PhotosAssumption, EditorsAssumption, LimitAssumption

LEMMA Busy ==
  ASSUME PhotosTypeOK, NEW h \in Editors, edit[h].pc # "idle"
  PROVE  edit[h] \in Edit
BY DEF PhotosTypeOK, NoEdit

LEMMA FinishTypes ==
  ASSUME PhotosTypeOK, NEW h \in Editors, FinishEdit(h)
  PROVE  edit' \in [Editors -> Edit \union {NoEdit}]
BY DEF PhotosTypeOK, FinishEdit

LEMMA CommitTypes ==
  ASSUME PhotosTypeOK, NEW h \in Editors, NEW newPrimary \in SUBSET Photos,
         NEW newStatus \in [Photos -> {"NONE", "ACTIVE", "DELETED"}],
         Commit(h, newStatus, newPrimary)
  PROVE  PhotosTypeOK'
BY FinishTypes DEF PhotosTypeOK, Commit

(* A step that leaves the photos alone and gives one handler a request.     *)
LEMMA MoveTypes ==
  ASSUME PhotosTypeOK, NEW h \in Editors, NEW r \in Edit,
         edit' = [edit EXCEPT ![h] = r], UNCHANGED <<status, isPrimary>>
  PROVE  PhotosTypeOK'
BY DEF PhotosTypeOK

LEMMA PhotosTypeStep == PhotosTypeOK /\ [PhotosNext]_photosVars => PhotosTypeOK'
<1> SUFFICES ASSUME PhotosTypeOK, [PhotosNext]_photosVars PROVE PhotosTypeOK'
  OBVIOUS
<1>1. ASSUME NEW h \in Editors, NEW pc \in Pcs, NEW photo \in SUBSET Photos, NEW was \in BOOLEAN,
             Begin(h, pc, photo, was)
      PROVE  PhotosTypeOK'
  <2>1. [pc |-> pc, photo |-> photo, was |-> was, next |-> {}, rows |-> {}] \in Edit
    BY DEF Edit
  <2> QED
    BY <1>1, <2>1, MoveTypes DEF Begin
<1>2. ASSUME NEW h \in Editors, NEW wanted \in {{}, {TRUE}, {FALSE}}, AddRead(h, wanted)
      PROVE  PhotosTypeOK'
  <2>1. PICK pc \in Pcs : Begin(h, pc, {}, FALSE)
    BY <1>2 DEF AddRead, Pcs
  <2> QED
    BY <1>1, <2>1
<1>3. ASSUME NEW h \in Editors, NEW p \in Photos, DeleteRead(h, p) \/ SetRead(h, p)
      PROVE  PhotosTypeOK'
  <2>1. CASE DeleteRead(h, p)
    <3>1. (p \in isPrimary) \in BOOLEAN
      OBVIOUS
    <3>2. {p} \in SUBSET Photos /\ "delete" \in Pcs
      BY DEF Pcs
    <3> QED
      BY <1>1, <2>1, <3>1, <3>2, Zenon DEF DeleteRead
  <2>2. CASE SetRead(h, p)
    BY <1>1, <2>2 DEF SetRead, Pcs
  <2> QED
    BY <1>3, <2>1, <2>2
<1>4. ASSUME NEW h \in Editors, NEW from \in Pcs, NEW to \in Pcs,
             FindRows(h, from, to) \/ DemoteRows(h, from, to)
      PROVE  PhotosTypeOK'
  <2>1. edit[h] \in Edit
    BY <1>4, Busy DEF FindRows, DemoteRows, Pcs
  <2>2. Rows \in SUBSET Photos
    BY DEF Rows
  <2>3. [edit[h] EXCEPT !.pc = to, !.next = Rows] \in Edit
    BY <2>1, <2>2 DEF Edit
  <2>4. [edit[h] EXCEPT !.pc = to, !.next = {}, !.rows = edit[h].next] \in Edit
    BY <2>1 DEF Edit
  <2>5. CASE FindRows(h, from, to)
    BY <2>3, <2>5, MoveTypes DEF FindRows
  <2>6. CASE DemoteRows(h, from, to)
    <3>1. edit' = [edit EXCEPT ![h] = [edit[h] EXCEPT !.pc = to, !.next = {}, !.rows = edit[h].next]]
      BY <2>6 DEF DemoteRows
    <3> QED
      BY <2>4, <2>6, <3>1, MoveTypes DEF DemoteRows
  <2> QED
    BY <1>4, <2>5, <2>6
<1>4a. ASSUME NEW h \in Editors, AddDemote(h) \/ SetDemote(h) PROVE PhotosTypeOK'
  BY <1>4, <1>4a DEF AddDemote, SetDemote, Pcs
<1>5. ASSUME NEW h \in Editors, NEW p \in Photos, AddCommit(h, p) PROVE PhotosTypeOK'
  <2>1. [status EXCEPT ![p] = "ACTIVE"] \in [Photos -> {"NONE", "ACTIVE", "DELETED"}]
    BY DEF PhotosTypeOK
  <2>2. (isPrimary \ edit[h].rows) \union {p} \in SUBSET Photos /\ isPrimary \in SUBSET Photos
    BY DEF PhotosTypeOK
  <2> QED
    BY <1>5, <2>1, <2>2, CommitTypes DEF AddCommit
<1>6. ASSUME NEW h \in Editors, DeleteWrite(h) \/ DeleteFind(h) \/ DeletePromote(h) PROVE PhotosTypeOK'
  <2>1. edit[h] \in Edit
    BY <1>6, Busy DEF DeleteWrite, DeleteFind, DeletePromote
  <2>2. Deleted(h) \in [Photos -> {"NONE", "ACTIVE", "DELETED"}]
    BY DEF Deleted, PhotosTypeOK
  <2>3. isPrimary \in SUBSET Photos /\ isPrimary \union edit[h].next \in SUBSET Photos
    BY <2>1 DEF PhotosTypeOK, Edit
  <2>4. CASE Commit(h, Deleted(h), isPrimary) \/ Commit(h, Deleted(h), isPrimary \union edit[h].next)
    BY <2>2, <2>3, <2>4, CommitTypes
  <2>5. CASE /\ edit' = [edit EXCEPT ![h].pc = "find", ![h].rows = edit[h].photo]
             /\ UNCHANGED <<status, isPrimary>>
    <3>1. [edit[h] EXCEPT !.pc = "find", !.rows = edit[h].photo] \in Edit
      BY <2>1 DEF Edit, Pcs
    <3> QED
      BY <2>5, <3>1, MoveTypes
  <2>6. ASSUME NEW p \in Active,
               edit' = [edit EXCEPT ![h].pc = "promote", ![h].next = {p}],
               UNCHANGED <<status, isPrimary>>
        PROVE  PhotosTypeOK'
    <3>1. [edit[h] EXCEPT !.pc = "promote", !.next = {p}] \in Edit
      BY <2>1 DEF Edit, Pcs, Active
    <3> QED
      BY <2>6, <3>1, MoveTypes
  <2> QED
    BY <1>6, <2>4, <2>5, <2>6 DEF DeleteWrite, DeleteFind, DeletePromote
<1>7. ASSUME NEW h \in Editors, SetCommit(h) PROVE PhotosTypeOK'
  <2>1. (isPrimary \ edit[h].rows) \union edit[h].photo \in SUBSET Photos
    BY <1>7, Busy DEF SetCommit, PhotosTypeOK, Edit
  <2> QED
    BY <1>7, <2>1, CommitTypes DEF SetCommit, PhotosTypeOK
<1>8. ASSUME NEW h \in Editors, Abort(h) PROVE PhotosTypeOK'
  BY <1>8, FinishTypes DEF Abort, PhotosTypeOK
<1>9. CASE UNCHANGED photosVars
  BY <1>9 DEF photosVars, PhotosTypeOK
<1> QED
  BY <1>2, <1>3, <1>4a, <1>5, <1>6, <1>7, <1>8, <1>9 DEF PhotosNext

LEMMA PhotosTypeInit == PhotosInit => PhotosTypeOK
BY DEF PhotosInit, PhotosTypeOK

(* Every variable keeps its type.                                           *)
THEOREM PhotosTypeCorrect == PhotosSpec => []PhotosTypeOK
BY PhotosTypeInit, PhotosTypeStep, PTL DEF PhotosSpec

-----------------------------------------------------------------------------
(* A primary photo that stays active and primary, or a new one, is enough.  *)
LEMMA CommitKeeps ==
  ASSUME PhotosTypeOK, HasPrimary, NEW h \in Editors, NEW newStatus, NEW newPrimary,
         Commit(h, newStatus, newPrimary),
         \E p \in Photos : newStatus[p] = "ACTIVE" /\ p \in newPrimary
  PROVE  HasPrimary'
BY DEF HasPrimary, Active, Commit

(* No interleaving but the three of LossStep takes the primary photo from a *)
(* member who still has photos.                                             *)
THEOREM PrimaryKeptHolds == PhotosSpec => PrimaryKept
<1> DEFINE Kept == HasPrimary /\ Active' # {} => HasPrimary' \/ LossStep
<1>1. ASSUME PhotosTypeOK, [PhotosNext]_photosVars, HasPrimary, Active' # {} PROVE HasPrimary' \/ LossStep
  <2>1. ASSUME UNCHANGED <<status, isPrimary>> PROVE HasPrimary'
    BY <1>1, <2>1 DEF HasPrimary, Active
  <2>2. PICK main \in Photos : status[main] = "ACTIVE" /\ main \in isPrimary
    BY <1>1 DEF HasPrimary, Active
  <2>3. ASSUME NEW h \in Editors, NEW p \in Photos, AddCommit(h, p) PROVE HasPrimary'
    <3>1. [status EXCEPT ![p] = "ACTIVE"][p] = "ACTIVE" /\ [status EXCEPT ![p] = "ACTIVE"][main] = "ACTIVE"
      BY <1>1, <2>2 DEF PhotosTypeOK
    <3> QED
      BY <1>1, <2>2, <2>3, <3>1, CommitKeeps DEF AddCommit
  <2>4. ASSUME NEW h \in Editors, DeleteWrite(h) PROVE HasPrimary' \/ LossStep
    <3>1. CASE main \notin edit[h].photo
      <4>1. Deleted(h)[main] = "ACTIVE"
        BY <2>2, <3>1 DEF Deleted
      <4> QED
        BY <1>1, <2>1, <2>2, <2>4, <4>1, CommitKeeps DEF DeleteWrite
    <3>2. CASE main \in edit[h].photo /\ ~edit[h].was
      BY <2>2, <2>4, <3>2 DEF LossStep
    <3>3. CASE edit[h].was
      <4>1. UNCHANGED <<status, isPrimary>>
        BY <2>4, <3>3 DEF DeleteWrite
      <4> QED
        BY <2>1, <4>1
    <3> QED
      BY <3>1, <3>2, <3>3
  <2>5. ASSUME NEW h \in Editors, DeleteFind(h) PROVE HasPrimary'
    <3>1. CASE Active \subseteq edit[h].photo /\ ~UNCHANGED <<status, isPrimary>>
      <4>1. status' = Deleted(h)
        BY <2>5, <3>1 DEF DeleteFind, Commit
      <4>2. Active' = {}
        BY <3>1, <4>1 DEF Deleted, Active
      <4> QED
        BY <1>1, <4>2
    <3>2. CASE ~(Active \subseteq edit[h].photo)
      <4>1. UNCHANGED <<status, isPrimary>>
        BY <2>5, <3>2 DEF DeleteFind
      <4> QED
        BY <2>1, <4>1
    <3> QED
      BY <2>1, <3>1, <3>2
  <2>6. ASSUME NEW h \in Editors, DeletePromote(h),
               NEW p \in edit[h].next \intersect (Active \ edit[h].photo)
        PROVE  HasPrimary'
    <3>1. p \in Photos /\ Deleted(h)[p] = "ACTIVE"
      BY <2>6 DEF Deleted, Active
    <3> QED
      BY <1>1, <2>6, <3>1, CommitKeeps DEF DeletePromote
  <2>7. ASSUME NEW h \in Editors, SetCommit(h), NEW p \in edit[h].photo \intersect Active
        PROVE  HasPrimary'
    BY <1>1, <2>7, CommitKeeps DEF SetCommit, Active
  <2>8. ASSUME NEW h \in Editors, DeletePromote(h) \/ SetCommit(h) PROVE HasPrimary' \/ LossStep
    BY <2>6, <2>7, <2>8 DEF LossStep
  <2> QED
    BY <1>1, <2>1, <2>3, <2>4, <2>5, <2>8 DEF PhotosNext, photosVars, AddRead, AddDemote, FindRows,
       DemoteRows, DeleteRead, SetRead, SetDemote, Begin, Abort
<1>2. PhotosTypeOK /\ [PhotosNext]_photosVars => [Kept]_photosVars
  BY <1>1
<1> QED
  BY <1>2, PhotosTypeCorrect, PTL DEF PhotosSpec, PrimaryKept

-----------------------------------------------------------------------------
(* The additions that are past the check of the limit.                      *)
Adders == {h \in Editors : edit[h].pc \in {"add", "addPrimary", "addDemote", "create"}}

Bounded == Cardinality(Active) + Cardinality(Adders) <= Limit + Cardinality(Editors) - 1

LEMMA Counts ==
  /\ IsFiniteSet(Active) /\ Cardinality(Active) \in Nat
  /\ IsFiniteSet(Adders) /\ Cardinality(Adders) \in Nat
  /\ Cardinality(Adders) <= Cardinality(Editors)
  /\ Cardinality(Editors) \in Nat \ {0}
<1>1. Active \subseteq Photos /\ Adders \subseteq Editors
  BY DEF Active, Adders
<1>2. IsFiniteSet(Active) /\ IsFiniteSet(Adders) /\ Cardinality(Adders) <= Cardinality(Editors)
  BY <1>1, FS_Subset
<1>3. Cardinality(Editors) \in Nat /\ Cardinality(Editors) # 0
  BY FS_EmptySet, FS_CardinalityType
<1> QED
  BY <1>2, <1>3, FS_CardinalityType

(* Photos go and requests end.                                              *)
LEMMA Fewer ==
  ASSUME Bounded, Active' \subseteq Active, Adders' \subseteq Adders
  PROVE  Bounded'
<1>1. Cardinality(Active') <= Cardinality(Active) /\ Cardinality(Adders') <= Cardinality(Adders)
  BY Counts, FS_Subset
<1>2. Cardinality(Active') \in Nat /\ Cardinality(Adders') \in Nat
  BY Counts, FS_Subset, FS_CardinalityType
<1> QED
  BY <1>1, <1>2, Counts DEF Bounded

LEMMA FinishAdders ==
  ASSUME PhotosTypeOK, NEW h \in Editors, FinishEdit(h)
  PROVE  Adders' = Adders \ {h}
BY DEF PhotosTypeOK, FinishEdit, Adders, NoEdit

LEMMA BoundedStep == PhotosTypeOK /\ Bounded /\ [PhotosNext]_photosVars => Bounded'
<1> SUFFICES ASSUME PhotosTypeOK, Bounded, [PhotosNext]_photosVars PROVE Bounded'
  OBVIOUS
<1>1. ASSUME NEW h \in Editors, NEW wanted \in {{}, {TRUE}, {FALSE}}, AddRead(h, wanted)
      PROVE  Bounded'
  <2>1. Active' = Active
    BY <1>1 DEF AddRead, Begin, Active
  <2>2. Cardinality(Active) < Limit
    BY <1>1 DEF AddRead
  <2>3. Cardinality(Adders') <= Cardinality(Editors) /\ Cardinality(Adders') \in Nat
    <3>1. Adders' \subseteq Editors
      BY DEF Adders
    <3> QED
      BY <3>1, FS_Subset, FS_CardinalityType
  <2> QED
    BY <2>1, <2>2, <2>3, Counts DEF Bounded
<1>2. ASSUME NEW h \in Editors, NEW p \in Photos, AddCommit(h, p) PROVE Bounded'
  <2>1. Adders' = Adders \ {h} /\ h \in Adders
    BY <1>2, FinishAdders DEF AddCommit, Commit, Adders
  <2>2. CASE UNCHANGED status
    BY <2>1, <2>2, Fewer DEF Active
  <2>3. CASE status' = [status EXCEPT ![p] = "ACTIVE"]
    <3>1. Active' = Active \union {p} /\ p \notin Active
      BY <1>2, <2>3 DEF Active, AddCommit, PhotosTypeOK
    <3>2. Cardinality(Active') = Cardinality(Active) + 1
      BY <3>1, Counts, FS_AddElement
    <3>3. Cardinality(Adders') = Cardinality(Adders) - 1
      BY <2>1, Counts, FS_RemoveElement
    <3> QED
      BY <3>2, <3>3, Counts DEF Bounded
  <2> QED
    BY <1>2, <2>2, <2>3 DEF AddCommit, Commit
<1>3. ASSUME NEW h \in Editors, AddDemote(h) \/ SetDemote(h) PROVE Bounded'
  <2>1. Active' = Active
    BY <1>3 DEF AddDemote, SetDemote, FindRows, DemoteRows, Active
  <2>2. \A j \in Editors \ {h} : edit'[j] = edit[j]
    BY <1>3 DEF AddDemote, SetDemote, FindRows, DemoteRows, PhotosTypeOK
  <2>3. h \in Adders' => h \in Adders
    <3>1. edit[h] \in Edit
      BY <1>3, Busy DEF AddDemote, SetDemote, FindRows, DemoteRows
    <3>2. CASE AddDemote(h)
      BY <3>2 DEF AddDemote, FindRows, DemoteRows, Adders
    <3>3. CASE FindRows(h, "setPrimary", "setDemote")
      BY <3>1, <3>3 DEF FindRows, Adders, PhotosTypeOK, Edit
    <3>4. CASE DemoteRows(h, "setDemote", "set")
      BY <3>1, <3>4 DEF DemoteRows, Adders, PhotosTypeOK, Edit
    <3> QED
      BY <1>3, <3>2, <3>3, <3>4 DEF SetDemote
  <2> QED
    BY <2>1, <2>2, <2>3, Fewer DEF Adders
<1>4. ASSUME NEW h \in Editors, Deleted(h) = status' \/ UNCHANGED status,
             edit'[h].pc \notin {"add", "addPrimary", "addDemote", "create"},
             \A j \in Editors \ {h} : edit'[j] = edit[j]
      PROVE  Bounded'
  <2>1. Active' \subseteq Active
    BY <1>4 DEF Active, Deleted
  <2>2. Adders' \subseteq Adders
    BY <1>4 DEF Adders
  <2> QED
    BY <2>1, <2>2, Fewer
<1>5. ASSUME NEW h \in Editors, NEW p \in Photos, DeleteRead(h, p) \/ SetRead(h, p)
      PROVE  Bounded'
  BY <1>4, <1>5 DEF DeleteRead, SetRead, Begin, PhotosTypeOK
<1>6. ASSUME NEW h \in Editors, DeleteWrite(h) \/ DeleteFind(h) \/ DeletePromote(h)
      PROVE  Bounded'
  <2>1. edit[h] \in Edit
    BY <1>6, Busy DEF DeleteWrite, DeleteFind, DeletePromote
  <2>2. Deleted(h) = status' \/ UNCHANGED status
    BY <1>6 DEF DeleteWrite, DeleteFind, DeletePromote, Commit
  <2>3. CASE FinishEdit(h)
    BY <1>4, <2>2, <2>3 DEF FinishEdit, NoEdit, PhotosTypeOK
  <2>4. CASE edit' = [edit EXCEPT ![h].pc = "find", ![h].rows = edit[h].photo]
    BY <1>4, <2>1, <2>2, <2>4 DEF PhotosTypeOK, Edit
  <2>5. ASSUME NEW p, edit' = [edit EXCEPT ![h].pc = "promote", ![h].next = {p}] PROVE Bounded'
    BY <1>4, <2>1, <2>2, <2>5 DEF PhotosTypeOK, Edit
  <2> QED
    BY <1>6, <2>3, <2>4, <2>5 DEF DeleteWrite, DeleteFind, DeletePromote, Commit
<1>7. ASSUME NEW h \in Editors, SetCommit(h) \/ Abort(h) PROVE Bounded'
  <2>1. UNCHANGED status /\ FinishEdit(h)
    BY <1>7 DEF SetCommit, Abort, Commit
  <2> QED
    BY <1>4, <2>1 DEF FinishEdit, NoEdit, PhotosTypeOK
<1>8. CASE UNCHANGED photosVars
  BY <1>8, Fewer DEF photosVars, Active, Adders
<1> QED
  BY <1>1, <1>2, <1>3, <1>5, <1>6, <1>7, <1>8 DEF PhotosNext

(* Additions that run at once pass the limit by at most one less than there *)
(* are handlers.                                                            *)
THEOREM OvershootIsBounded == PhotosSpec => []OvershootBounded
<1>1. PhotosInit => Bounded
  <2> SUFFICES ASSUME PhotosInit PROVE Bounded
    OBVIOUS
  <2>1. PICK first \in Photos : Active = {first}
    BY DEF PhotosInit, Active
  <2>2. Cardinality(Active) = 1
    BY <2>1, FS_Singleton
  <2>3. Adders = {}
    BY DEF PhotosInit, Adders, NoEdit
  <2> QED
    BY <2>2, <2>3, FS_EmptySet, Counts DEF Bounded
<1>2. Bounded => OvershootBounded
  BY Counts DEF Bounded, OvershootBounded
<1> QED
  BY <1>1, <1>2, BoundedStep, PhotosTypeCorrect, PTL DEF PhotosSpec
=============================================================================
