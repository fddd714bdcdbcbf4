------------------------- MODULE OtpChallengeProofs --------------------------
(***************************************************************************)
(* One-time codes, for any number of codes, of handlers and of attempts.   *)
(* Neither bound is inductive by itself: with the wrong guesses are        *)
(* counted the comparisons under way, with the live codes the requests     *)
(* that are about to create one.                                           *)
(***************************************************************************)
EXTENDS OtpChallenge, FiniteSetTheorems, TLAPS

USE MaxCodesAssumption, HandlersAssumption, MaxAttemptsAssumption, MayFailAssumption

Comparing(c) == {h \in Handlers : req[h].pc = "compare" /\ c \in req[h].code}
Creating == {h \in Handlers : req[h].pc = "create"}

(* Only codes that were created expire, the memory has one place, and a     *)
(* comparison is with one code.                                             *)
Ordered ==
  /\ expired \subseteq 1..last
  /\ \A c, d \in memory : c = d
  /\ \A h \in Handlers : req[h].pc = "compare" => \E c \in 1..last : req[h].code = {c}

Guesses == \A c \in Codes : attempts[c] + Cardinality(Comparing(c)) <= MaxAttempts + Cardinality(Handlers) - 1

Outstanding == Cardinality(live) + Cardinality(Creating) <= Cardinality(Handlers)

IInv == TypeOK /\ Ordered /\ Guesses /\ Outstanding

-----------------------------------------------------------------------------
LEMMA Busy ==
  ASSUME TypeOK, NEW h \in Handlers, req[h].pc # "idle"
  PROVE  req[h] \in Request
BY DEF TypeOK, Idle

LEMMA FinishMoves ==
  ASSUME TypeOK, NEW h \in Handlers, Finish(h)
  PROVE  /\ req' \in [Handlers -> Request \union {Idle}]
         /\ req'[h].pc = "idle"
         /\ \A g \in Handlers : g # h => req'[g] = req[g]
BY DEF TypeOK, Finish, Idle

LEMMA WorkTypes ==
  ASSUME TypeOK, NEW h \in Handlers, NEW pc \in {"create", "compare"}, NEW code \in SUBSET Codes,
         NEW inMemory \in BOOLEAN, Work(h, pc, code, inMemory)
  PROVE  req' \in [Handlers -> Request \union {Idle}]
BY DEF TypeOK, Work, Request

LEMMA WorkMoves ==
  ASSUME TypeOK, NEW h \in Handlers, NEW pc, NEW code, NEW inMemory, Work(h, pc, code, inMemory)
  PROVE  /\ req'[h].pc = pc /\ req'[h].code = code
         /\ \A g \in Handlers : g # h => req'[g] = req[g]
BY DEF TypeOK, Work

LEMMA NextCode ==
  ASSUME TypeOK, last < MaxCodes
  PROVE  last + 1 \in Codes /\ last + 1 \in 0..MaxCodes /\ last + 1 \in 1..(last + 1) /\ 1..last \subseteq 1..(last + 1)
BY DEF TypeOK, Codes

(* The record verify goes by is one code.                                   *)
LEMMA FoundOne ==
  ASSUME TypeOK, Ordered, NEW code \in SUBSET Codes, NEW inMemory \in BOOLEAN, code # {}, Found(code, inMemory)
  PROVE  \E c \in 1..last : code = {c} /\ c \in (IF inMemory THEN memory ELSE live)
<1>1. CASE inMemory
  BY <1>1 DEF Found, Ordered, TypeOK
<1>2. CASE ~inMemory
  <2>1. PICK c \in live : c \in code /\ \A d \in live : d <= c
    BY <1>2 DEF Found, Latest
  <2>2. \A d \in code : d \in live /\ d <= c /\ c <= d
    BY <1>2, <2>1 DEF Found, Latest
  <2>3. c \in Int /\ \A d \in code : d \in Int
    BY DEF TypeOK, Codes
  <2>4. \A d \in code : d = c
    BY <2>2, <2>3
  <2> QED
    BY <1>2, <2>1, <2>4 DEF TypeOK
<1> QED
  BY <1>1, <1>2

-----------------------------------------------------------------------------
LEMMA TypeInit == Init => TypeOK
BY DEF Init, TypeOK

LEMMA TypeStep == TypeOK /\ [Next]_vars => TypeOK'
<1> SUFFICES ASSUME TypeOK, [Next]_vars PROVE TypeOK'
  OBVIOUS
<1>1. ASSUME NEW h \in Handlers, IssueConsume(h) PROVE TypeOK'
  <2>1. req' \in [Handlers -> Request \union {Idle}]
    BY <1>1, WorkTypes DEF IssueConsume
  <2> QED
    BY <1>1, <2>1 DEF IssueConsume, TypeOK
<1>2. ASSUME NEW h \in Handlers, IssueCreate(h) \/ IssueInMemory(h) PROVE TypeOK'
  <2>1. req' \in [Handlers -> Request \union {Idle}]
    BY <1>2, FinishMoves DEF IssueCreate, IssueInMemory
  <2>2. last' = last + 1 /\ last < MaxCodes
    BY <1>2 DEF IssueCreate, IssueInMemory
  <2>3. live' \in SUBSET (1..last') /\ memory' \in SUBSET (1..last') /\ last' \in 0..MaxCodes
    BY <1>2, <2>2, NextCode DEF IssueCreate, IssueInMemory, TypeOK
  <2> QED
    BY <1>2, <2>1, <2>3 DEF IssueCreate, IssueInMemory, TypeOK
<1>3. ASSUME NEW h \in Handlers, NEW code \in SUBSET Codes, NEW inMemory \in BOOLEAN, VerifyRead(h, code, inMemory)
      PROVE  TypeOK'
  <2>1. req' \in [Handlers -> Request \union {Idle}]
    BY <1>3, WorkTypes DEF VerifyRead
  <2> QED
    BY <1>3, <2>1 DEF VerifyRead, TypeOK
<1>4. ASSUME NEW h \in Handlers, NEW code \in SUBSET Codes, NEW inMemory \in BOOLEAN, VerifyReject(h, code, inMemory)
      PROVE  TypeOK'
  BY <1>4 DEF VerifyReject, TypeOK
<1>5. ASSUME NEW h \in Handlers, VerifyWrong(h) PROVE TypeOK'
  <2>1. attempts' \in [Codes -> Nat]
    BY <1>5 DEF VerifyWrong, TypeOK
  <2> QED
    BY <1>5, <2>1, FinishMoves DEF VerifyWrong, TypeOK
<1>6. ASSUME NEW h \in Handlers, VerifyRight(h) \/ LostWrite(h) PROVE TypeOK'
  <2>1. req[h] \in Request /\ req' \in [Handlers -> Request \union {Idle}]
    BY <1>6, Busy, FinishMoves DEF VerifyRight, LostWrite
  <2>2. accepted' \in SUBSET Codes
    BY <1>6, <2>1 DEF VerifyRight, LostWrite, TypeOK, Request
  <2> QED
    BY <1>6, <2>1, <2>2 DEF VerifyRight, LostWrite, TypeOK
<1>7. ASSUME NEW c \in Codes, Expire(c) PROVE TypeOK'
  BY <1>7 DEF Expire, TypeOK
<1>8. CASE Restart
  BY <1>8 DEF Restart, TypeOK
<1>9. CASE UNCHANGED vars
  BY <1>9 DEF vars, TypeOK
<1> QED
  BY <1>1, <1>2, <1>3, <1>4, <1>5, <1>6, <1>7, <1>8, <1>9 DEF Next

(* Every variable keeps its type.                                           *)
THEOREM TypeCorrect == Spec => []TypeOK
BY TypeInit, TypeStep, PTL DEF Spec

-----------------------------------------------------------------------------
LEMMA OrderedStep == IInv /\ [Next]_vars => Ordered'
<1> SUFFICES ASSUME IInv, [Next]_vars PROVE Ordered'
  OBVIOUS
<1> USE DEF IInv
<1>1. ASSUME NEW h \in Handlers, IssueConsume(h) PROVE Ordered'
  <2>1. /\ req'[h].pc = "create"
        /\ \A g \in Handlers : g # h => req'[g] = req[g]
    <3>1. Work(h, "create", {}, FALSE)
      BY <1>1 DEF IssueConsume
    <3> QED
      BY <3>1, WorkMoves
  <2> QED
    BY <1>1, <2>1 DEF IssueConsume, Ordered
<1>2. ASSUME NEW h \in Handlers, IssueCreate(h) \/ IssueInMemory(h) PROVE Ordered'
  <2>1. 1..last \subseteq 1..last' /\ expired' = expired
    BY <1>2, NextCode DEF IssueCreate, IssueInMemory
  <2>2. Finish(h) /\ \A c, d \in memory' : c = d
    BY <1>2 DEF IssueCreate, IssueInMemory, Ordered
  <2> QED
    BY <2>1, <2>2, FinishMoves DEF Ordered
<1>3. ASSUME NEW h \in Handlers, NEW code \in SUBSET Codes, NEW inMemory \in BOOLEAN, VerifyRead(h, code, inMemory)
      PROVE  Ordered'
  <2>1. PICK c \in 1..last : code = {c}
    BY <1>3, FoundOne DEF VerifyRead
  <2>2. /\ req'[h].code = {c}
        /\ \A g \in Handlers : g # h => req'[g] = req[g]
    <3>1. Work(h, "compare", {c}, inMemory)
      BY <1>3, <2>1 DEF VerifyRead
    <3> QED
      BY <3>1, WorkMoves
  <2> QED
    BY <1>3, <2>2 DEF VerifyRead, Ordered
<1>4. ASSUME NEW h \in Handlers, NEW code \in SUBSET Codes, NEW inMemory \in BOOLEAN, VerifyReject(h, code, inMemory)
      PROVE  Ordered'
  BY <1>4 DEF VerifyReject, Ordered
<1>5. ASSUME NEW h \in Handlers, VerifyWrong(h) \/ VerifyRight(h) \/ LostWrite(h) PROVE Ordered'
  <2>1. Finish(h) /\ UNCHANGED <<last, expired>> /\ memory' \subseteq memory
    BY <1>5 DEF VerifyWrong, VerifyRight, LostWrite
  <2> QED
    BY <2>1, FinishMoves DEF Ordered
<1>6. ASSUME NEW c \in Codes, Expire(c) PROVE Ordered'
  <2>1. c \in 1..last
    BY <1>6 DEF Expire, Codes, TypeOK
  <2> QED
    BY <1>6, <2>1 DEF Expire, Ordered
<1>7. CASE Restart
  BY <1>7 DEF Restart, Ordered, Idle
<1>8. CASE UNCHANGED vars
  BY <1>8 DEF vars, Ordered
<1> QED
  BY <1>1, <1>2, <1>3, <1>4, <1>5, <1>6, <1>7, <1>8 DEF Next

-----------------------------------------------------------------------------
LEMMA Sizes ==
  ASSUME TypeOK
  PROVE  /\ \A c : IsFiniteSet(Comparing(c)) /\ Cardinality(Comparing(c)) \in Nat
                   /\ Cardinality(Comparing(c)) <= Cardinality(Handlers)
         /\ IsFiniteSet(Creating) /\ Cardinality(Creating) \in Nat /\ Cardinality(Creating) <= Cardinality(Handlers)
         /\ IsFiniteSet(live) /\ Cardinality(live) \in Nat
         /\ Cardinality(Handlers) \in Nat
<1>1. Creating \subseteq Handlers /\ \A c : Comparing(c) \subseteq Handlers
  BY DEF Creating, Comparing
<1>2. IsFiniteSet(live)
  <2>1. IsFiniteSet(1..last)
    BY FS_Interval DEF TypeOK
  <2> QED
    BY <2>1, FS_Subset DEF TypeOK
<1> QED
  BY <1>1, <1>2, FS_Subset, FS_CardinalityType

(* Where nothing is guessed and no comparison begins.                       *)
LEMMA GuessesKept ==
  ASSUME TypeOK, Guesses, attempts' = attempts, NEW c \in Codes, Comparing(c)' \subseteq Comparing(c)
  PROVE  attempts'[c] + Cardinality(Comparing(c)') <= MaxAttempts + Cardinality(Handlers) - 1
<1>1. Cardinality(Comparing(c)') <= Cardinality(Comparing(c)) /\ Cardinality(Comparing(c)') \in Nat
  BY Sizes, FS_Subset, FS_CardinalityType
<1>2. attempts[c] + Cardinality(Comparing(c)) <= MaxAttempts + Cardinality(Handlers) - 1
  BY DEF Guesses
<1>3. attempts[c] \in Nat
  BY DEF TypeOK
<1> QED
  BY <1>1, <1>2, <1>3, Sizes

LEMMA GuessesStep == IInv /\ [Next]_vars => Guesses'
<1> SUFFICES ASSUME IInv, [Next]_vars, NEW c \in Codes
             PROVE  attempts'[c] + Cardinality(Comparing(c)') <= MaxAttempts + Cardinality(Handlers) - 1
  BY DEF Guesses, Codes
<1> USE DEF IInv
<1> DEFINE Goal == attempts'[c] + Cardinality(Comparing(c)') <= MaxAttempts + Cardinality(Handlers) - 1
<1>1. ASSUME NEW h \in Handlers, IssueConsume(h) PROVE Goal
  <2>1. Work(h, "create", {}, FALSE)
    BY <1>1 DEF IssueConsume
  <2>2. Comparing(c)' \subseteq Comparing(c)
    BY <2>1, WorkMoves DEF Comparing
  <2> QED
    BY <1>1, <2>2, GuessesKept DEF IssueConsume
<1>2. ASSUME NEW h \in Handlers, IssueCreate(h) \/ IssueInMemory(h) \/ VerifyRight(h) \/ LostWrite(h) PROVE Goal
  <2>1. Finish(h) /\ attempts' = attempts
    BY <1>2 DEF IssueCreate, IssueInMemory, VerifyRight, LostWrite
  <2>2. Comparing(c)' \subseteq Comparing(c)
    BY <2>1, FinishMoves DEF Comparing
  <2> QED
    BY <2>1, <2>2, GuessesKept
<1>3. ASSUME NEW h \in Handlers, NEW code \in SUBSET Codes, NEW inMemory \in BOOLEAN, VerifyRead(h, code, inMemory)
      PROVE  Goal
  <2>1. CASE c \in code
    <3>1. attempts'[c] = attempts[c] /\ attempts[c] \in Nat /\ attempts[c] < MaxAttempts
      BY <1>3, <2>1 DEF VerifyRead, Exhausted, TypeOK
    <3>2. Comparing(c)' \subseteq Handlers
      BY DEF Comparing
    <3>3. Cardinality(Comparing(c)') <= Cardinality(Handlers) /\ Cardinality(Comparing(c)') \in Nat
      BY <3>2, FS_Subset, FS_CardinalityType
    <3> QED
      BY <3>1, <3>3, Sizes
  <2>2. CASE c \notin code
    <3>1. Work(h, "compare", code, inMemory)
      BY <1>3 DEF VerifyRead
    <3>2. Comparing(c)' \subseteq Comparing(c)
      BY <2>2, <3>1, WorkMoves DEF Comparing
    <3> QED
      BY <1>3, <3>2, GuessesKept DEF VerifyRead
  <2> QED
    BY <2>1, <2>2
<1>4. ASSUME NEW h \in Handlers, VerifyWrong(h) PROVE Goal
  <2>1. CASE c \in req[h].code
    <3>1. attempts'[c] = attempts[c] + 1 /\ attempts[c] \in Nat
      BY <1>4, <2>1 DEF VerifyWrong, TypeOK
    <3>2. h \in Comparing(c) /\ Comparing(c)' = Comparing(c) \ {h}
      BY <1>4, <2>1, FinishMoves DEF VerifyWrong, Comparing
    <3>3. Cardinality(Comparing(c)') = Cardinality(Comparing(c)) - 1
      BY <3>2, Sizes, FS_RemoveElement
    <3>4. attempts[c] + Cardinality(Comparing(c)) <= MaxAttempts + Cardinality(Handlers) - 1
      BY DEF Guesses
    <3> QED
      BY <3>1, <3>3, <3>4, Sizes
  <2>2. CASE c \notin req[h].code
    <3>1. attempts'[c] = attempts[c] /\ attempts[c] \in Nat
      BY <1>4, <2>2 DEF VerifyWrong, TypeOK
    <3>2. Comparing(c)' \subseteq Comparing(c)
      BY <1>4, FinishMoves DEF VerifyWrong, Comparing
    <3>3. Cardinality(Comparing(c)') <= Cardinality(Comparing(c)) /\ Cardinality(Comparing(c)') \in Nat
      BY <3>2, Sizes, FS_Subset, FS_CardinalityType
    <3>4. attempts[c] + Cardinality(Comparing(c)) <= MaxAttempts + Cardinality(Handlers) - 1
      BY DEF Guesses
    <3> QED
      BY <3>1, <3>3, <3>4, Sizes
  <2> QED
    BY <2>1, <2>2
<1>5. ASSUME attempts' = attempts, req' = req \/ Restart PROVE Goal
  <2>1. Comparing(c)' \subseteq Comparing(c)
    BY <1>5 DEF Restart, Comparing, Idle
  <2> QED
    BY <1>5, <2>1, GuessesKept
<1>6. ASSUME NEW h \in Handlers, NEW code \in SUBSET Codes, NEW inMemory \in BOOLEAN, VerifyReject(h, code, inMemory)
      PROVE  Goal
  BY <1>5, <1>6 DEF VerifyReject
<1>7. CASE (\E d \in Codes : Expire(d)) \/ Restart \/ UNCHANGED vars
  BY <1>5, <1>7 DEF Expire, Restart, vars
<1> QED
  BY <1>1, <1>2, <1>3, <1>4, <1>6, <1>7 DEF Next

-----------------------------------------------------------------------------
(* Where no code is created.                                                *)
LEMMA OutstandingKept ==
  ASSUME TypeOK, Outstanding, live' \subseteq live, Creating' \subseteq Creating
  PROVE  Outstanding'
<1>1. /\ Cardinality(live') <= Cardinality(live) /\ Cardinality(live') \in Nat
      /\ Cardinality(Creating') <= Cardinality(Creating) /\ Cardinality(Creating') \in Nat
  BY Sizes, FS_Subset, FS_CardinalityType
<1> QED
  BY <1>1, Sizes DEF Outstanding

LEMMA OutstandingStep == IInv /\ [Next]_vars => Outstanding'
<1> SUFFICES ASSUME IInv, [Next]_vars PROVE Outstanding'
  OBVIOUS
<1> USE DEF IInv
<1>1. ASSUME NEW h \in Handlers, IssueConsume(h) PROVE Outstanding'
  <2>1. live' = {} /\ Creating' \subseteq Handlers
    BY <1>1 DEF IssueConsume, Creating
  <2>2. Cardinality(live') = 0 /\ Cardinality(Creating') <= Cardinality(Handlers) /\ Cardinality(Creating') \in Nat
    BY <2>1, FS_EmptySet, FS_Subset, FS_CardinalityType
  <2> QED
    BY <2>2, Sizes DEF Outstanding
<1>2. ASSUME NEW h \in Handlers, IssueCreate(h) PROVE Outstanding'
  <2>1. h \in Creating /\ Creating' = Creating \ {h}
    BY <1>2, FinishMoves DEF IssueCreate, Creating
  <2>2. last' \notin live /\ live' = live \union {last'}
    BY <1>2 DEF IssueCreate, TypeOK
  <2>3. Cardinality(Creating') = Cardinality(Creating) - 1
    BY <2>1, Sizes, FS_RemoveElement
  <2>4. Cardinality(live') = Cardinality(live) + 1
    BY <2>2, Sizes, FS_AddElement
  <2> QED
    BY <2>3, <2>4, Sizes DEF Outstanding
<1>3. ASSUME NEW h \in Handlers, NEW code \in SUBSET Codes, NEW inMemory \in BOOLEAN, VerifyRead(h, code, inMemory)
      PROVE  Outstanding'
  <2>1. Work(h, "compare", code, inMemory) /\ live' = live
    BY <1>3 DEF VerifyRead
  <2>2. Creating' \subseteq Creating
    BY <2>1, WorkMoves DEF Creating
  <2> QED
    BY <2>1, <2>2, OutstandingKept
<1>4. ASSUME NEW h \in Handlers, IssueInMemory(h) \/ VerifyWrong(h) \/ VerifyRight(h) \/ LostWrite(h)
      PROVE  Outstanding'
  <2>1. Finish(h) /\ live' \subseteq live
    BY <1>4 DEF IssueInMemory, VerifyWrong, VerifyRight, LostWrite
  <2>2. Creating' \subseteq Creating
    BY <2>1, FinishMoves DEF Creating
  <2> QED
    BY <2>1, <2>2, OutstandingKept
<1>5. ASSUME live' \subseteq live, req' = req \/ Restart PROVE Outstanding'
  <2>1. Creating' \subseteq Creating
    BY <1>5 DEF Restart, Creating, Idle
  <2> QED
    BY <1>5, <2>1, OutstandingKept
<1>6. ASSUME NEW h \in Handlers, NEW code \in SUBSET Codes, NEW inMemory \in BOOLEAN, VerifyReject(h, code, inMemory)
      PROVE  Outstanding'
  BY <1>5, <1>6 DEF VerifyReject
<1>7. CASE (\E d \in Codes : Expire(d)) \/ Restart \/ UNCHANGED vars
  BY <1>5, <1>7 DEF Expire, Restart, vars
<1> QED
  BY <1>1, <1>2, <1>3, <1>4, <1>6, <1>7 DEF Next

-----------------------------------------------------------------------------
LEMMA InvInit == Init => IInv
<1> SUFFICES ASSUME Init PROVE Ordered /\ Guesses /\ Outstanding
  BY TypeInit DEF IInv
<1>1. \A h \in Handlers : req[h].pc = "idle"
  BY DEF Init, Idle
<1>2. live = {} /\ Creating = {} /\ \A c : Comparing(c) = {}
  BY <1>1 DEF Init, Creating, Comparing
<1>3. Cardinality(Handlers) \in Nat /\ Cardinality({}) = 0 /\ Cardinality(Handlers) # 0
  <2>1. Cardinality(Handlers) \in Nat
    BY FS_CardinalityType
  <2>2. Cardinality({}) = 0 /\ (Cardinality(Handlers) = 0 <=> Handlers = {})
    BY FS_EmptySet
  <2> QED
    BY <2>1, <2>2
<1>4. Ordered
  BY <1>1 DEF Init, Ordered
<1>5. Guesses
  <2> SUFFICES ASSUME NEW c \in Codes
               PROVE  attempts[c] + Cardinality(Comparing(c)) <= MaxAttempts + Cardinality(Handlers) - 1
    BY DEF Guesses
  <2>1. attempts[c] = 0 /\ Cardinality(Comparing(c)) = 0
    BY <1>2, <1>3 DEF Init
  <2> QED
    BY <1>3, <2>1
<1>6. Outstanding
  BY <1>2, <1>3 DEF Outstanding
<1> QED
  BY <1>4, <1>5, <1>6

LEMMA InvStep == IInv /\ [Next]_vars => IInv'
BY TypeStep, OrderedStep, GuessesStep, OutstandingStep DEF IInv

LEMMA InvHolds == Spec => []IInv
BY InvInit, InvStep, PTL DEF Spec

(* No code is guessed at more often than the limit and the overlap allow.   *)
THEOREM AttemptsAreBounded == Spec => []AttemptsBounded
<1>1. IInv => AttemptsBounded
  <2> SUFFICES ASSUME IInv, NEW c \in Codes PROVE attempts[c] <= MaxAttempts + Cardinality(Handlers) - 1
    BY DEF AttemptsBounded
  <2>1. attempts[c] + Cardinality(Comparing(c)) <= MaxAttempts + Cardinality(Handlers) - 1
    BY DEF IInv, Guesses
  <2> QED
    BY <2>1, Sizes DEF IInv, TypeOK
<1> QED
  BY <1>1, InvHolds, PTL

(* No more codes are live than requests for one can overlap.                *)
THEOREM LiveIsBounded == Spec => []LiveBounded
<1>1. IInv => LiveBounded
  BY Sizes DEF IInv, Outstanding, LiveBounded
<1> QED
  BY <1>1, InvHolds, PTL

-----------------------------------------------------------------------------
(* A code that is not closed and not new is open, and what is new is neither *)
(* live, in memory, expired nor compared.                                    *)
LEMMA StateOf ==
  ASSUME TypeOK, NEW c \in Codes
  PROVE  /\ State[c] = "unused" <=> c > last
         /\ State[c] = "open" <=> c <= last /\ (Held(c) \/ c \in (live \union memory) \ expired)
         /\ State[c] = "closed" <=> c <= last /\ ~(Held(c) \/ c \in (live \union memory) \ expired)
<1>1. c \in Int /\ last \in Int
  BY DEF TypeOK, Codes
<1> QED
  BY <1>1 DEF State

LEMMA StateOfNext ==
  ASSUME TypeOK', NEW c \in Codes
  PROVE  /\ State'[c] = "unused" <=> c > last'
         /\ State'[c] = "open" <=> c <= last' /\ (Held(c)' \/ c \in (live' \union memory') \ expired')
         /\ State'[c] = "closed" <=> c <= last' /\ ~(Held(c)' \/ c \in (live' \union memory') \ expired')
<1>1. c \in Int /\ last' \in Int
  BY DEF TypeOK, Codes
<1> QED
  BY <1>1 DEF State

(* Where no code is created, it is enough that no open code is told apart    *)
(* from a new one and that no closed code opens.                             *)
LEMMA Closes ==
  ASSUME TypeOK, TypeOK', last' = last,
         \A c \in Codes : Held(c)' => Held(c) \/ c \in (live \union memory) \ expired,
         (live' \union memory') \ expired' \subseteq (live \union memory) \ expired
  PROVE  \E dropped \in SUBSET Abstract!Open : State' = Abstract!Closing(dropped)
<1> DEFINE dropped == {c \in Abstract!Open : State'[c] = "closed"}
<1>1. \A c \in Codes : State'[c] = State[c] \/ (State[c] = "open" /\ State'[c] = "closed")
  <2> SUFFICES ASSUME NEW c \in Codes, State'[c] # State[c]
               PROVE  State[c] = "open" /\ State'[c] = "closed"
    OBVIOUS
  <2>1. /\ State[c] \in {"unused", "open", "closed"} /\ State'[c] \in {"unused", "open", "closed"}
        /\ State[c] = "unused" <=> State'[c] = "unused"
    BY DEF State, Codes
  <2>2. State'[c] = "open" => State[c] = "open"
    BY StateOf, StateOfNext
  <2> QED
    BY <2>1, <2>2
<1>2. State' = [c \in Codes |-> State'[c]] /\ State = [c \in Codes |-> State[c]]
  BY DEF State
<1>3. State' = Abstract!Closing(dropped)
  BY <1>1, <1>2 DEF Abstract!Closing, Abstract!Open
<1> QED
  BY <1>3

LEMMA AbstractInit == Init => Abstract!Init
<1> SUFFICES ASSUME Init PROVE Abstract!Init
  OBVIOUS
<1>1. \A c \in Codes : c > last
  BY DEF Init, Codes
<1> QED
  BY <1>1 DEF Init, State, Abstract!Init

LEMMA AbstractStep == IInv /\ IInv' /\ [Next]_vars => [Abstract!Next]_<<State, accepted>>
<1> SUFFICES ASSUME IInv, IInv', [Next]_vars PROVE Abstract!Next \/ UNCHANGED <<State, accepted>>
  OBVIOUS
<1> USE DEF IInv
<1>1. ASSUME last' = last, accepted' = accepted,
             \A c \in Codes : Held(c)' => Held(c) \/ c \in (live \union memory) \ expired,
             (live' \union memory') \ expired' \subseteq (live \union memory) \ expired
      PROVE  Abstract!Next
  BY <1>1, Closes DEF Abstract!Next, Abstract!Close
<1>2. ASSUME NEW h \in Handlers, \A g \in Handlers : g # h => req'[g] = req[g],
             req'[h].pc # "compare"
      PROVE  \A c : Held(c)' => Held(c)
  BY <1>2 DEF Held
<1>3. ASSUME NEW h \in Handlers, IssueConsume(h) PROVE Abstract!Next
  <2>1. Work(h, "create", {}, FALSE)
    BY <1>3 DEF IssueConsume
  <2>2. req'[h].pc = "create" /\ \A g \in Handlers : g # h => req'[g] = req[g]
    BY <2>1, WorkMoves
  <2>3. \A c : Held(c)' => Held(c)
    BY <1>2, <2>2
  <2> QED
    BY <1>1, <1>3, <2>3 DEF IssueConsume
<1>4. ASSUME NEW h \in Handlers, IssueCreate(h) \/ IssueInMemory(h) PROVE Abstract!Next
  <2>1. /\ Finish(h) /\ last' = last + 1 /\ last < MaxCodes /\ UNCHANGED <<expired, accepted>>
        /\ last' \in live' \union memory'
        /\ \A c \in (live' \union memory') : c \in live \union memory \/ c = last'
    BY <1>4 DEF IssueCreate, IssueInMemory
  <2>2. \A c : Held(c)' <=> Held(c)
    <3>1. req[h].pc # "compare" /\ req'[h].pc # "compare"
      BY <1>4, <2>1, FinishMoves DEF IssueCreate, IssueInMemory
    <3> QED
      BY <2>1, <3>1, FinishMoves DEF Held
  <2>3. last' \in Codes /\ State[last'] = "unused" /\ last' \notin expired
    <3>1. last' \in Codes /\ last' > last /\ last' \notin 1..last
      BY <2>1, NextCode DEF TypeOK, Codes
    <3> QED
      BY <3>1, StateOf DEF Ordered
  <2>4. State'[last'] = "open"
    BY <2>1, <2>3, StateOfNext DEF TypeOK, Codes
  <2> DEFINE dropped == {c \in Abstract!Open : State'[c] = "closed"}
  <2>5. ASSUME NEW c \in Codes, c # last' PROVE State'[c] = IF c \in dropped THEN "closed" ELSE State[c]
    <3>1. /\ State[c] \in {"unused", "open", "closed"} /\ State'[c] \in {"unused", "open", "closed"}
      BY DEF State
    <3>0. (c <= last' <=> c <= last) /\ (c > last' <=> c > last)
      <4>1. c \in Int /\ last \in Int
        BY DEF TypeOK, Codes
      <4> QED
        BY <2>1, <2>5, <4>1
    <3>2. State[c] = "unused" <=> State'[c] = "unused"
      BY <3>0, StateOf, StateOfNext
    <3>3. State'[c] = "open" => State[c] = "open"
      BY <2>1, <2>2, <2>5, <3>0, StateOf, StateOfNext
    <3> QED
      BY <3>1, <3>2, <3>3 DEF Abstract!Open
  <2>6. State' = [c \in Codes |-> State'[c]]
    BY DEF State
  <2>7. State' = [Abstract!Closing(dropped) EXCEPT ![last'] = "open"]
    <3> HIDE DEF dropped
    <3> QED
      BY <2>3, <2>4, <2>5, <2>6 DEF Abstract!Closing
  <2>8. Abstract!Issue(last')
    BY <2>1, <2>3, <2>7 DEF Abstract!Issue
  <2> QED
    BY <2>3, <2>8 DEF Abstract!Next
<1>5. ASSUME NEW h \in Handlers, NEW code \in SUBSET Codes, NEW inMemory \in BOOLEAN, VerifyRead(h, code, inMemory)
      PROVE  Abstract!Next
  <2>1. /\ Work(h, "compare", code, inMemory) /\ UNCHANGED <<last, live, memory, expired, accepted>>
    BY <1>5 DEF VerifyRead
  <2>2. PICK d \in 1..last : code = {d} /\ d \in live \union memory
    BY <1>5, FoundOne DEF VerifyRead
  <2>3. d \notin expired
    BY <1>5, <2>2 DEF VerifyRead
  <2>4. \A c \in Codes : Held(c)' => Held(c) \/ c \in (live \union memory) \ expired
    <3>1. /\ req'[h].code = {d}
          /\ \A g \in Handlers : g # h => req'[g] = req[g]
      BY <2>1, <2>2, WorkMoves
    <3> QED
      BY <2>2, <2>3, <3>1 DEF Held
  <2> QED
    BY <1>1, <2>1, <2>4
<1>6. ASSUME NEW h \in Handlers, NEW code \in SUBSET Codes, NEW inMemory \in BOOLEAN, VerifyReject(h, code, inMemory)
      PROVE  Abstract!Next
  <2>1. /\ UNCHANGED <<last, expired, accepted, req>>
        /\ live' \union memory' \subseteq live \union memory
    BY <1>6 DEF VerifyReject
  <2> QED
    BY <1>1, <2>1 DEF Held
<1>7. ASSUME NEW h \in Handlers, VerifyWrong(h) \/ VerifyRight(h) \/ LostWrite(h) PROVE Abstract!Next
  <2>1. /\ Finish(h) /\ UNCHANGED <<last, expired>> /\ req[h].pc = "compare"
        /\ live' \union memory' \subseteq live \union memory
    BY <1>7 DEF VerifyWrong, VerifyRight, LostWrite
  <2>2. \A c \in Codes : Held(c)' => Held(c)
    BY <1>2, <2>1, FinishMoves
  <2>3. PICK d \in 1..last : req[h].code = {d}
    BY <2>1 DEF Ordered
  <2>4. accepted' = accepted \/ accepted' = accepted \union {d}
    BY <1>7, <2>3 DEF VerifyWrong, VerifyRight, LostWrite
  <2>5. CASE accepted' = accepted
    BY <1>1, <2>1, <2>2, <2>5
  <2>6. CASE accepted' = accepted \union {d}
    <3>1. d \in Codes /\ d <= last
      BY DEF TypeOK, Codes
    <3>2. Held(d)
      BY <2>1, <2>3 DEF Held
    <3>3. d \in Abstract!Open
      BY <3>1, <3>2, StateOf DEF Abstract!Open
    <3>4. \E dropped \in SUBSET Abstract!Open : State' = Abstract!Closing(dropped)
      BY <2>1, <2>2, Closes
    <3> QED
      BY <2>6, <3>1, <3>3, <3>4 DEF Abstract!Next, Abstract!Accept
  <2> QED
    BY <2>4, <2>5, <2>6
<1>8. ASSUME NEW c \in Codes, Expire(c) PROVE Abstract!Next
  BY <1>1, <1>8 DEF Expire, Held
<1>9. CASE Restart
  <2>1. \A c \in Codes : ~Held(c)'
    BY <1>9 DEF Restart, Held, Idle
  <2> QED
    BY <1>1, <1>9, <2>1 DEF Restart
<1>10. CASE UNCHANGED vars
  <2>1. State' = State
    BY <1>10 DEF vars, State, Held
  <2> QED
    BY <1>10, <2>1 DEF vars
<1> QED
  BY <1>3, <1>4, <1>5, <1>6, <1>7, <1>8, <1>9, <1>10 DEF Next

(* The codes are one-time codes: every step is one of OneTimeCode's or none  *)
(* at all.                                                                   *)
THEOREM ImplementsOneTimeCode == Spec => CodeSpec
<1>1. IInv /\ IInv' /\ [Next]_vars => [Abstract!Next]_(Abstract!vars)
  BY AbstractStep DEF Abstract!vars
<1> QED
  BY <1>1, AbstractInit, InvHolds, PTL DEF Spec, CodeSpec, Abstract!Spec
=============================================================================
