------------------------------ MODULE Profiles -------------------------------
(***************************************************************************)
(* The profile of one member as discovery sees it: the position and its    *)
(* ghost, the place being explored, whether the profile is complete, and   *)
(* the privacy settings with their cache in Redis, until the account is    *)
(* deleted.                                                                *)
(*                                                                         *)
(* A fix is a position on a line; what matters is whether two fixes are    *)
(* further apart than a threshold.  A ghost is named by the fix it hides   *)
(* and by the draw of its random offset.  The other texts of a profile,    *)
(* the label of the nearest place and the preferences are left out.        *)
(***************************************************************************)
EXTENDS Integers, FiniteSets

CONSTANTS Fixes,         \* positions a device may report
          RefreshDistance,  \* GHOST_REFRESH_DISTANCE_M
          Draws,         \* random offsets
          Places,        \* that may be explored
          Settings,      \* of privacy
          DefaultSettings,
          MaxPhotos,     \* a bound
          Handlers       \* requests in progress at one time

ASSUME FixesAssumption == Fixes \subseteq Int /\ RefreshDistance \in Nat
ASSUME SettingsAssumption == DefaultSettings \in Settings /\ "private" \in Settings
ASSUME MaxPhotosAssumption == MaxPhotos \in Nat \ {0}

Ghosts == [of : Fixes, draw : Draws]

VARIABLES deleted,      \* status DELETED and deletedAt of the user
          profile,      \* whether there is one
          fix, ghost,   \* currentLat/Lng and ghostLat/Lng, at most one of each
          mode,         \* locationMode
          exploring,    \* exploringLocationId
          exploringAt,  \* exploringLat/Lng
          photos,       \* the number of active photos
          interests,    \* whether there are some
          complete,     \* isProfileComplete
          bare,         \* history: register declared the profile complete without
                        \* interests; none have been set, nothing computed since
          settings,     \* the userPrivacySettings row, none before the first update
          cache,        \* the settings under privacy:<id> in Redis
          req           \* req[h]: the request handler h works on

place == <<fix, ghost>>
travel == <<mode, exploring, exploringAt>>
card == <<photos, interests, complete, bare>>
privacy == <<settings, cache>>
vars == <<deleted, profile, place, travel, card, privacy, req>>

(* Who asks for the settings: a stranger who looks at the profile, or       *)
(* somebody Private Mode makes an exception for, or another service.        *)
Viewers == {"stranger", "other"}

AtMostOne(S) == {T \in SUBSET S : \A a, b \in T : a = b}

Request == [pc : {"locate"}, fix : Fixes, ghost : Ghosts]
             \union [pc : {"explore"}, at : AtMostOne(Places)]
             \union [pc : {"interests", "recompute", "clear"}]
             \union [pc : {"complete"}, value : BOOLEAN]
             \union [pc : {"fill"}, settings : Settings, viewer : Viewers]
             \union [pc : {"view"}, viewer : Viewers]
             \union [pc : {"candidate", "shown"}]
Idle == [pc |-> "idle"]

TypeOK ==
  /\ deleted \in BOOLEAN /\ profile \in BOOLEAN
  /\ fix \in AtMostOne(Fixes) /\ ghost \in AtMostOne(Ghosts)
  /\ mode \in {"NEAR_ME", "CHOOSE_LOCATION"}
  /\ exploring \in AtMostOne(Places) /\ exploringAt \in AtMostOne(Places)
  /\ photos \in 0..MaxPhotos /\ interests \in BOOLEAN /\ complete \in BOOLEAN /\ bare \in BOOLEAN
  /\ settings \in AtMostOne(Settings) /\ cache \in AtMostOne(Settings)
  /\ req \in [Handlers -> Request \union {Idle}]

(* register creates the whole profile, with interests or without;           *)
(* verifyOtp creates an account that has none yet.                          *)
Init ==
  /\ deleted = FALSE
  /\ \/ /\ profile = TRUE
        /\ \E f \in Fixes, d \in Draws : fix = {f} /\ ghost = {[of |-> f, draw |-> d]}
        /\ photos = 1 /\ interests \in BOOLEAN /\ complete = TRUE /\ bare = ~interests
        /\ settings = {DefaultSettings}
     \/ /\ profile = FALSE
        /\ fix = {} /\ ghost = {}
        /\ photos = 0 /\ interests = FALSE /\ complete = FALSE /\ bare = FALSE
        /\ settings = {}
  /\ mode = "NEAR_ME" /\ exploring = {} /\ exploringAt = {}
  /\ cache = {}
  /\ req = [h \in Handlers |-> Idle]

Start(h, request) == req[h].pc = "idle" /\ req' = [req EXCEPT ![h] = request]
Become(h, request) == req' = [req EXCEPT ![h] = request]
Finish(h) == Become(h, Idle)

(* validate of the JWT strategy lets no deleted account in. *)
SignedIn == ~deleted

(* Mutant: the status of the account is not looked at. *)
Mine_Unchecked(h, request) == profile /\ Start(h, request)

Mine(h, request) == SignedIn /\ profile /\ Start(h, request)

-----------------------------------------------------------------------------
(* updateLocation *)

Distance(a, b) == IF a < b THEN b - a ELSE a - b
Moved(to) == \A f \in fix : Distance(f, to) > RefreshDistance

(* Mutant: a new ghost for every ping. *)
GhostFor_Always(to) == {g \in Ghosts : g.of = to}

(* computeGhostPoint, or the ghost there is *)
GhostFor(to) == IF Moved(to) \/ ghost = {} THEN {g \in Ghosts : g.of = to} ELSE ghost

LocateRead(h, to, g) ==
  /\ g \in GhostFor(to)
  /\ Mine(h, [pc |-> "locate", fix |-> to, ghost |-> g])
  /\ UNCHANGED <<deleted, profile, place, travel, card, privacy>>

LocateWrite(h) ==
  /\ req[h].pc = "locate"
  /\ fix' = {req[h].fix} /\ ghost' = {req[h].ghost}
  /\ Finish(h)
  /\ UNCHANGED <<deleted, profile, travel, card, privacy>>

-----------------------------------------------------------------------------
(* setExploringLocation, clearExploringLocation: the row first, the         *)
(* coordinates in a second statement; setLocationMode                       *)

Explore(h, to) ==
  /\ exploring' = to
  /\ mode' = IF to = {} THEN "NEAR_ME" ELSE "CHOOSE_LOCATION"
  /\ Mine(h, [pc |-> "explore", at |-> to])
  /\ UNCHANGED <<deleted, profile, place, exploringAt, card, privacy>>

ExploreWrite(h) ==
  /\ req[h].pc = "explore"
  /\ exploringAt' = req[h].at
  /\ Finish(h)
  /\ UNCHANGED <<deleted, profile, place, mode, exploring, card, privacy>>

(* Mutant: near me gives the place up, and not its coordinates. *)
SetLocationMode_Clears(to) ==
  /\ SignedIn /\ profile
  /\ mode' = to
  /\ exploring' = IF to = "NEAR_ME" THEN {} ELSE exploring
  /\ UNCHANGED <<deleted, profile, place, exploringAt, card, privacy, req>>

SetLocationMode(to) ==
  /\ SignedIn /\ profile
  /\ mode' = to
  /\ UNCHANGED <<deleted, profile, place, exploring, exploringAt, card, privacy, req>>

(* The trigger of the table: the point others find the member by. *)
DiscoveryPoint == IF exploringAt # {} THEN exploringAt ELSE ghost

-----------------------------------------------------------------------------
(* createOrUpdateMine, updateMine, setInterests, recomputeCompleteness      *)

SaveProfile(h, pc) ==
  /\ SignedIn
  /\ pc \in {"interests", "recompute"}
  /\ profile' = TRUE
  /\ Start(h, [pc |-> pc])
  /\ UNCHANGED <<deleted, place, travel, card, privacy>>

(* An empty list takes them all away. *)
SetInterests(h) ==
  /\ req[h].pc = "interests" \/ (SignedIn /\ profile /\ req[h].pc = "idle")
  /\ interests' \in BOOLEAN /\ bare' = (bare /\ ~interests')
  /\ Become(h, [pc |-> "recompute"])
  /\ UNCHANGED <<deleted, profile, place, travel, photos, complete, privacy>>

(* Mutant: the interests are not asked for. *)
Recompute_PhotoOnly(h) ==
  /\ req[h].pc = "recompute"
  /\ Become(h, [pc |-> "complete", value |-> photos >= 1])
  /\ UNCHANGED <<deleted, profile, place, travel, card, privacy>>

Recompute(h) ==
  /\ req[h].pc = "recompute"
  /\ Become(h, [pc |-> "complete", value |-> photos >= 1 /\ interests])
  /\ UNCHANGED <<deleted, profile, place, travel, card, privacy>>

RecomputeWrite(h) ==
  /\ req[h].pc = "complete"
  /\ complete' = req[h].value /\ bare' = FALSE
  /\ Finish(h)
  /\ UNCHANGED <<deleted, profile, place, travel, photos, interests, privacy>>

(* addPhoto and deletePhoto, which ProfilePhotos models, recompute nothing. *)
AddPhoto ==
  /\ SignedIn /\ photos < MaxPhotos
  /\ photos' = photos + 1
  /\ UNCHANGED <<deleted, profile, place, travel, interests, complete, bare, privacy, req>>

DeletePhoto ==
  /\ SignedIn /\ photos > 0
  /\ photos' = photos - 1
  /\ UNCHANGED <<deleted, profile, place, travel, interests, complete, bare, privacy, req>>

-----------------------------------------------------------------------------
(* update and get of the privacy service                                    *)

(* Mutant: the cache is left to expire. *)
UpdatePrivacy_KeepsCache(h, to) ==
  /\ SignedIn /\ req[h].pc = "idle"
  /\ settings' = {to}
  /\ UNCHANGED <<deleted, profile, place, travel, card, cache, req>>

UpdatePrivacy(h, to) ==
  /\ SignedIn
  /\ settings' = {to}
  /\ Start(h, [pc |-> "clear"])
  /\ UNCHANGED <<deleted, profile, place, travel, card, cache>>

ClearCache(h) ==
  /\ req[h].pc = "clear"
  /\ cache' = {}
  /\ Finish(h)
  /\ UNCHANGED <<deleted, profile, place, travel, card, settings>>

Current == IF settings = {} THEN {DefaultSettings} ELSE settings

(* getPublic finds the account in use before it asks for the settings,      *)
(* sendMessage and sendLove do not look.                                    *)
View(h, viewer) ==
  /\ viewer = "stranger" => profile /\ ~deleted
  /\ Start(h, [pc |-> "view", viewer |-> viewer])
  /\ UNCHANGED <<deleted, profile, place, travel, card, privacy>>

Show(h, found) ==
  IF req[h].viewer = "stranger" /\ found # "private" THEN Become(h, [pc |-> "shown"]) ELSE Finish(h)

GetHit(h) ==
  /\ req[h].pc = "view"
  /\ \E found \in cache : Show(h, found)
  /\ UNCHANGED <<deleted, profile, place, travel, card, privacy>>

(* No key, or a Redis that does not answer *)
GetMiss(h) ==
  /\ req[h].pc = "view"
  /\ \E found \in Current :
       Become(h, [pc |-> "fill", settings |-> found, viewer |-> req[h].viewer])
  /\ UNCHANGED <<deleted, profile, place, travel, card, privacy>>

GetFill(h) ==
  /\ req[h].pc = "fill"
  /\ cache' \in {cache, {req[h].settings}}
  /\ Show(h, req[h].settings)
  /\ UNCHANGED <<deleted, profile, place, travel, card, settings>>

CacheExpire ==
  /\ cache # {}
  /\ cache' = {}
  /\ UNCHANGED <<deleted, profile, place, travel, card, settings, req>>

-----------------------------------------------------------------------------
(* deleteAccount: what is being explored is left as it is. *)

DeleteAccount(h) ==
  /\ SignedIn
  /\ deleted' = TRUE
  /\ fix' = {} /\ ghost' = {}
  /\ settings' = {"private"}
  /\ Start(h, [pc |-> "clear"])
  /\ UNCHANGED <<profile, travel, card, cache>>

-----------------------------------------------------------------------------
(* Discovery: searchPeople by one query; discover by findPeopleIdsWithin    *)
(* and a second look at the candidates, both at the row of the settings.    *)

Listed == ~deleted /\ complete /\ Current # {"private"}

SearchPeople(h) ==
  /\ Listed
  /\ Start(h, [pc |-> "shown"])
  /\ UNCHANGED <<deleted, profile, place, travel, card, privacy>>

Discover(h) ==
  /\ Listed /\ DiscoveryPoint # {}
  /\ Start(h, [pc |-> "candidate"])
  /\ UNCHANGED <<deleted, profile, place, travel, card, privacy>>

(* Mutant: what the first query found is taken as it is. *)
Candidate_Unchecked(h) ==
  /\ req[h].pc = "candidate"
  /\ Become(h, [pc |-> "shown"])
  /\ UNCHANGED <<deleted, profile, place, travel, card, privacy>>

Candidate(h) ==
  /\ req[h].pc = "candidate"
  /\ IF deleted \/ Current = {"private"} THEN Finish(h) ELSE Become(h, [pc |-> "shown"])
  /\ UNCHANGED <<deleted, profile, place, travel, card, privacy>>

Answer(h) ==
  /\ req[h].pc = "shown"
  /\ Finish(h)
  /\ UNCHANGED <<deleted, profile, place, travel, card, privacy>>

(* A process ends, or a store refuses a statement. *)
Fail(h) ==
  /\ req[h].pc # "idle"
  /\ Finish(h)
  /\ UNCHANGED <<deleted, profile, place, travel, card, privacy>>

Next ==
  \/ \E h \in Handlers :
       \/ \E to \in Fixes, g \in Ghosts : LocateRead(h, to, g)
       \/ LocateWrite(h)
       \/ (\E to \in AtMostOne(Places) : Explore(h, to)) \/ ExploreWrite(h)
       \/ (\E pc \in {"interests", "recompute"} : SaveProfile(h, pc)) \/ SetInterests(h)
       \/ Recompute(h) \/ RecomputeWrite(h)
       \/ (\E to \in Settings : UpdatePrivacy(h, to)) \/ ClearCache(h)
       \/ (\E viewer \in Viewers : View(h, viewer)) \/ GetHit(h) \/ GetMiss(h) \/ GetFill(h)
       \/ SearchPeople(h) \/ Discover(h) \/ Candidate(h) \/ Answer(h)
       \/ DeleteAccount(h) \/ Fail(h)
  \/ \E to \in {"NEAR_ME", "CHOOSE_LOCATION"} : SetLocationMode(to)
  \/ AddPhoto \/ DeletePhoto
  \/ CacheExpire

Spec == Init /\ [][Next]_vars

-----------------------------------------------------------------------------
(* Properties *)

(* While a member stays about where they are the ghost is not drawn anew,   *)
(* or averaging the pings would give the position away, but by a request    *)
(* that had read the row before another one wrote it                        *)
(* (profiles.service.ts, updateLocation).                                   *)
Late(h) == LocateWrite(h) /\ req[h].ghost \notin GhostFor(req[h].fix)
GhostHolds ==
  [][\A f \in fix, to \in fix', g \in ghost :
       Distance(f, to) <= RefreshDistance => g \in ghost' \/ \E h \in Handlers : Late(h)]_vars

(* The member is found at the place that is being explored, until the       *)
(* second statement of one choice comes after the first one of another, or  *)
(* never (setExploringLocation, clearExploringLocation).                    *)
Travelling == \E h \in Handlers : req[h].pc = "explore" /\ req[h].at = exploring
ExploringAgrees ==
  [][exploringAt = exploring \/ Travelling =>
       \/ (exploringAt = exploring \/ Travelling)'
       \/ \E h \in Handlers : ExploreWrite(h) /\ req[h].at # exploring
       \/ \E h \in Handlers : Fail(h) /\ req[h].pc = "explore"]_vars

(* Whoever is declared complete has a photo, and an interest unless it is   *)
(* register that declared it and nothing has been computed since; whoever a *)
(* request is about to declare complete has both.  It is so from the start, *)
(* and until the last photo is deleted or the interests are taken away      *)
(* (register, recomputeCompleteness; deletePhoto does not call it).         *)
Fit ==
  /\ complete => photos >= 1 /\ (interests \/ bare)
  /\ \A h \in Handlers : req[h].pc = "complete" /\ req[h].value => photos >= 1 /\ interests
CompleteTracks ==
  /\ Fit
  /\ [][Fit => \/ Fit'
               \/ DeletePhoto /\ photos' = 0
               \/ \E h \in Handlers : SetInterests(h) /\ ~interests']_vars

(* The cached settings are those of the row while no update is about to     *)
(* clear them, until a reader fills in what the row held before, or an      *)
(* update is cut off (privacy.service.ts, get and update).                  *)
CacheAgrees == cache \subseteq Current \/ \E h \in Handlers : req[h].pc = "clear"
CacheTracks ==
  [][CacheAgrees => \/ CacheAgrees'
                    \/ \E h \in Handlers : GetFill(h) /\ req[h].settings \notin Current
                    \/ \E h \in Handlers : Fail(h) /\ req[h].pc = "clear"]_vars

(* A deleted account has no position, but for one that a request brings     *)
(* that was let in before (deleteAccount, updateLocation).                  *)
NoPosition == fix = {} /\ ghost = {}
Locating == \E h \in Handlers : req[h].pc = "locate"
DeletedStaysPlaceless == [][deleted /\ NoPosition /\ ~Locating => (NoPosition /\ ~Locating)']_vars

(* Once Private Mode has reached the row and the cache, and no request is    *)
(* past its look at either, no stranger is shown the profile before it is   *)
(* switched off: not by discovery, that looks twice, and not by what was    *)
(* cached (getPublic, discover, searchPeople, deleteAccount).               *)
Unseen ==
  /\ Current = {"private"} /\ cache \subseteq {"private"}
  /\ \A h \in Handlers : req[h].pc = "fill" => req[h].settings = "private"
  /\ \A h \in Handlers : req[h].pc # "shown"
PrivateStaysUnseen == [][Unseen => Unseen' \/ Current' # {"private"}]_vars
=============================================================================
