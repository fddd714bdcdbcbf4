---------------------------- MODULE OtpChallenge -----------------------------
(***************************************************************************)
(* The one-time codes of one identifier and purpose: issue and verify of   *)
(* otp.service.ts, behind requestOtp, forgotPassword, verifyOtp and        *)
(* resetPassword.                                                          *)
(*                                                                         *)
(* Codes are numbered in the order of their creation.  Their rows are read *)
(* and written without a transaction; a code whose row cannot be stored is *)
(* kept in the memory of the process.  The comparison of the hashes is an  *)
(* await between the check of the attempts and their increment.  The       *)
(* console provider of a development set-up, which accepts codes that were *)
(* never issued, is left out.                                              *)
(***************************************************************************)
EXTENDS Integers, FiniteSets

CONSTANTS MaxCodes,     \* the codes that may ever be issued: a bound
          Handlers,     \* requests in progress at one time
          MaxAttempts,  \* otp.maxAttempts
          MayFail       \* whether the database fails and the process restarts

ASSUME MaxCodesAssumption == MaxCodes \in Nat
ASSUME HandlersAssumption == IsFiniteSet(Handlers) /\ Handlers # {}
ASSUME MaxAttemptsAssumption == MaxAttempts \in Nat \ {0}
ASSUME MayFailAssumption == MayFail \in BOOLEAN

Codes == 1..MaxCodes

VARIABLES last,      \* the number of codes created so far
          live,      \* the codes whose row has no consumedAt
          memory,    \* the code in memoryOtpStore, if there is one
          attempts,  \* attempts[c]: wrong guesses counted, in the row or in memory
          expired,   \* the codes past their expiresAt
          accepted,  \* the codes a caller has been let in with
          req        \* req[h]: the request handler h works on

vars == <<last, live, memory, attempts, expired, accepted, req>>

Request == [pc : {"create", "compare"},
            code : SUBSET Codes,   \* the record that was read, none to create one
            inMemory : BOOLEAN]    \* isInMemory
Idle == [pc |-> "idle"]

TypeOK ==
  /\ last \in 0..MaxCodes
  /\ live \in SUBSET (1..last) /\ memory \in SUBSET (1..last)
  /\ attempts \in [Codes -> Nat]
  /\ expired \in SUBSET Codes /\ accepted \in SUBSET Codes
  /\ req \in [Handlers -> Request \union {Idle}]

Init ==
  /\ last = 0 /\ live = {} /\ memory = {}
  /\ attempts = [c \in Codes |-> 0]
  /\ expired = {} /\ accepted = {}
  /\ req = [h \in Handlers |-> Idle]

Work(h, pc, code, inMemory) ==
  req' = [req EXCEPT ![h] = [pc |-> pc, code |-> code, inMemory |-> inMemory]]
Finish(h) == req' = [req EXCEPT ![h] = Idle]

-----------------------------------------------------------------------------
(* issue *)

(* Mutant: the outstanding codes are left as they are. *)
IssueConsume_KeepsOld(h) ==
  /\ req[h].pc = "idle"
  /\ Work(h, "create", {}, FALSE)
  /\ UNCHANGED <<last, live, memory, attempts, expired, accepted>>

IssueConsume(h) ==
  /\ req[h].pc = "idle"
  /\ live' = {}
  /\ Work(h, "create", {}, FALSE)
  /\ UNCHANGED <<last, memory, attempts, expired, accepted>>

IssueCreate(h) ==
  /\ req[h].pc = "create"
  /\ last < MaxCodes
  /\ last' = last + 1
  /\ live' = live \union {last'}
  /\ Finish(h)
  /\ UNCHANGED <<memory, attempts, expired, accepted>>

(* Either statement fails: the code takes the one place there is in memory. *)
IssueInMemory(h) ==
  /\ MayFail
  /\ req[h].pc \in {"idle", "create"}
  /\ last < MaxCodes
  /\ last' = last + 1
  /\ memory' = {last'}
  /\ Finish(h)
  /\ UNCHANGED <<live, attempts, expired, accepted>>

-----------------------------------------------------------------------------
(* verify *)

(* Mutant: consumed rows are found as well. *)
Latest_Any == {c \in 1..last : \A d \in 1..last : d <= c}

Latest == {c \in live : \A d \in live : d <= c}

(* The record verify goes by: the latest row, or the one in memory when     *)
(* there is no row or the database does not answer.                         *)
Found(code, inMemory) ==
  IF inMemory THEN code = memory /\ (Latest = {} \/ MayFail) ELSE code = Latest

(* Mutant: > for >= in the check of the attempts. *)
Exhausted_OffByOne(code) == \E c \in code : attempts[c] > MaxAttempts

Exhausted(code) == \E c \in code : attempts[c] >= MaxAttempts

VerifyRead(h, code, inMemory) ==
  /\ req[h].pc = "idle"
  /\ code # {} /\ Found(code, inMemory)
  /\ code \intersect expired = {} /\ ~Exhausted(code)
  /\ Work(h, "compare", code, inMemory)
  /\ UNCHANGED <<last, live, memory, attempts, expired, accepted>>

(* A record that is of no use any more is consumed or deleted; an expired   *)
(* row is left as it is.                                                    *)
VerifyReject(h, code, inMemory) ==
  /\ req[h].pc = "idle"
  /\ code # {} /\ Found(code, inMemory)
  /\ code \intersect expired # {} \/ Exhausted(code)
  /\ IF inMemory THEN memory' = {} /\ UNCHANGED live
                 ELSE /\ live' = IF code \intersect expired = {} THEN live \ code ELSE live
                      /\ UNCHANGED memory
  /\ UNCHANGED <<last, attempts, expired, accepted, req>>

(* The increment of a row may be lost: its failure is ignored. *)
VerifyWrong(h) ==
  /\ req[h].pc = "compare"
  /\ attempts' = [c \in Codes |-> IF c \in req[h].code THEN attempts[c] + 1 ELSE attempts[c]]
  /\ Finish(h)
  /\ UNCHANGED <<last, live, memory, expired, accepted>>

(* In memory, whatever code has come to stand in the place is deleted.      *)
VerifyRight(h) ==
  /\ req[h].pc = "compare"
  /\ accepted' = accepted \union req[h].code
  /\ IF req[h].inMemory THEN memory' = {} /\ UNCHANGED live
                        ELSE live' = live \ req[h].code /\ UNCHANGED memory
  /\ Finish(h)
  /\ UNCHANGED <<last, attempts, expired>>

(* The write at the end of verify fails, which verify ignores. *)
LostWrite(h) ==
  /\ MayFail
  /\ req[h].pc = "compare" /\ ~req[h].inMemory
  /\ accepted' \in {accepted, accepted \union req[h].code}
  /\ Finish(h)
  /\ UNCHANGED <<last, live, memory, attempts, expired>>

-----------------------------------------------------------------------------
Expire(c) ==
  /\ c <= last
  /\ expired' = expired \union {c}
  /\ UNCHANGED <<last, live, memory, attempts, accepted, req>>

(* The process ends, with its memory and its requests. *)
Restart ==
  /\ MayFail
  /\ memory' = {}
  /\ req' = [h \in Handlers |-> Idle]
  /\ UNCHANGED <<last, live, attempts, expired, accepted>>

Next ==
  \/ \E h \in Handlers :
       \/ IssueConsume(h) \/ IssueCreate(h) \/ IssueInMemory(h)
       \/ \E code \in SUBSET Codes, inMemory \in BOOLEAN :
            VerifyRead(h, code, inMemory) \/ VerifyReject(h, code, inMemory)
       \/ VerifyWrong(h) \/ VerifyRight(h) \/ LostWrite(h)
  \/ \E c \in Codes : Expire(c)
  \/ Restart

Spec == Init /\ [][Next]_vars

-----------------------------------------------------------------------------
(* Properties *)

(* The attempts are checked before the hashes are compared and counted      *)
(* after: guesses that overlap pass the limit, but each by one at most      *)
(* (otp.service.ts, "brute force is bounded").                              *)
AttemptsBounded ==
  \A c \in Codes : attempts[c] <= MaxAttempts + Cardinality(Handlers) - 1

(* issue consumes the outstanding codes and then creates one: several are   *)
(* live only if as many requests for a code overlapped.                     *)
LiveBounded == Cardinality(live) <= Cardinality(Handlers)

(* A code is open while a request may still be let in with it.              *)
Held(c) == \E h \in Handlers : req[h].pc = "compare" /\ c \in req[h].code
State ==
  [c \in Codes |-> IF c > last THEN "unused"
                   ELSE IF Held(c) \/ c \in (live \union memory) \ expired THEN "open" ELSE "closed"]

(* The codes are one-time codes: nothing reopens a code that was consumed,  *)
(* replaced or has expired, and only an open code is accepted.              *)
Abstract == INSTANCE OneTimeCode WITH state <- State
CodeSpec == Abstract!Spec
=============================================================================
