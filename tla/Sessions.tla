------------------------------ MODULE Sessions -------------------------------
(***************************************************************************)
(* The sessions of one account: sign-in (register, login, verifyOtp),      *)
(* rotation of refresh tokens, logout, password changes, and the changes   *)
(* of the account's status by the member or by an administrator.           *)
(*                                                                         *)
(* A family is named by its first token.  A token that has expired is one  *)
(* that is never presented again.  The store of users in the memory of the *)
(* process that registered them is there or not, for any request.  The     *)
(* access tokens issued along and their cut-off by the Redis key           *)
(* auth:revoked are left out: whoever holds a token of an active account   *)
(* may be signed in.                                                       *)
(***************************************************************************)
EXTENDS Integers, FiniteSets

CONSTANTS Tokens,         \* the tokens that may ever be issued: a bound
          Handlers,       \* requests in progress at one time
          Passwords,
          FirstPassword,  \* the password of the registration
          MayFail         \* whether stores fail and processes end

ASSUME FiniteAssumption == IsFiniteSet(Tokens) /\ IsFiniteSet(Handlers)
ASSUME PasswordAssumption == FirstPassword \in Passwords /\ "otp" \notin Passwords
ASSUME MayFailAssumption == MayFail \in BOOLEAN

VARIABLES status, deleted,  \* of the row of the user: status, deletedAt;
                            \* "NONE" before there is a row
          password,         \* the one its hash is of
          issued,           \* the tokens handed out
          row,              \* row[t]: "NONE" where no row is stored for the token
          fam,              \* fam[t]: the first token of its family
          by,               \* by[t]: what its family was opened with
          req               \* req[h]: the request handler h works on

tokens == <<issued, row, fam, by>>
vars == <<status, deleted, password, issued, row, fam, by, req>>

Statuses == {"ACTIVE", "SUSPENDED", "DEACTIVATED", "DELETED"}
Secrets == Passwords \union {"otp"}

Pcs == {"register",                  \* register
        "user", "revoke", "reuse",   \* rotate
        "issue",                     \* issuePair, for any caller
        "hash",                      \* changePassword, the old password verified
        "all",                       \* revokeAllForUser
        "status"}                    \* updateUserStatus
Request == [pc : Pcs,
            tok : SUBSET Tokens,     \* the token presented, the rows found to be written
            fam : SUBSET Tokens,     \* the family to go on with, none for a new one
            by : SUBSET Secrets,     \* what the family was opened with
            to : SUBSET Statuses]    \* the status to set
Idle == [pc |-> "idle"]

TypeOK ==
  /\ status \in Statuses \union {"NONE"} /\ deleted \in BOOLEAN /\ password \in Passwords
  /\ issued \in SUBSET Tokens
  /\ row \in [Tokens -> {"NONE", "LIVE", "REVOKED"}]
  /\ fam \in [Tokens -> Tokens]
  /\ by \in [Tokens -> Secrets]
  /\ req \in [Handlers -> Request \union {Idle}]

Live == {t \in Tokens : row[t] = "LIVE"}

(* The first password is the one a registration will bring. *)
Init ==
  /\ status = "NONE" /\ deleted = FALSE /\ password = FirstPassword
  /\ issued = {}
  /\ row = [t \in Tokens |-> "NONE"]
  /\ fam = [t \in Tokens |-> t]
  /\ by = [t \in Tokens |-> "otp"]
  /\ req = [h \in Handlers |-> Idle]

Goto(h, pc) == req' = [req EXCEPT ![h].pc = pc]
Finish(h) == req' = [req EXCEPT ![h] = Idle]
Work(h, pc, tok, family, secret) ==
  req' = [req EXCEPT ![h] = [pc |-> pc, tok |-> tok, fam |-> family, by |-> secret, to |-> {}]]

(* The row of the user is held by the transaction of an administrator. *)
UserLocked == \E h \in Handlers : req[h].pc = "status"

-----------------------------------------------------------------------------
(* validate of the JWT strategy: where the row cannot be read the token is  *)
(* believed.                                                                *)
SignedIn == issued # {} /\ ((status = "ACTIVE" /\ ~deleted) \/ MayFail)

-----------------------------------------------------------------------------
(* register: nobody is found with the address, or the lookup fails, which   *)
(* is ignored; the password is hashed; the row is stored if its address is  *)
(* still free, and otherwise, or when the database fails, the caller gets   *)
(* a session for an account that is stored nowhere, and not for this one.   *)

Register(h) ==
  /\ req[h].pc = "idle"
  /\ status = "NONE" \/ deleted \/ MayFail
  /\ Work(h, "register", {}, {}, {FirstPassword})
  /\ UNCHANGED <<status, deleted, password, tokens>>

RegisterCommit(h) ==
  /\ req[h].pc = "register" /\ status = "NONE"
  /\ status' = "ACTIVE"
  /\ Goto(h, "issue")
  /\ UNCHANGED <<deleted, password, tokens>>

RegisterFallback(h) ==
  /\ req[h].pc = "register"
  /\ status # "NONE" \/ MayFail
  /\ Finish(h)
  /\ UNCHANGED <<status, deleted, password, tokens>>

-----------------------------------------------------------------------------
(* Signing in: the checks are made on the row that was read first.         *)

(* Mutant: assertUsable is not called. *)
Usable_Any == TRUE

(* assertUsable *)
Usable == status = "ACTIVE"

Login(h, secret) ==
  /\ req[h].pc = "idle"
  /\ ~deleted /\ Usable /\ secret = password
  /\ Work(h, "issue", {}, {}, {secret})
  /\ UNCHANGED <<status, deleted, password, tokens>>

(* No row is found, or the lookup fails, in login or in verifyOtp: the user *)
(* in the memory of the process has the password of the registration and is *)
(* always active.                                                           *)
LoginFromMemory(h) ==
  /\ req[h].pc = "idle"
  /\ status # "NONE"
  /\ deleted \/ MayFail
  /\ \E secret \in {FirstPassword, "otp"} : Work(h, "issue", {}, {}, {secret})
  /\ UNCHANGED <<status, deleted, password, tokens>>

VerifyOtp(h) ==
  /\ req[h].pc = "idle"
  /\ Usable
  /\ Work(h, "issue", {}, {}, {"otp"})
  /\ UNCHANGED <<status, deleted, password, tokens>>

(* issuePair; a row that cannot be stored does not keep the pair back. *)
Issue(h, t) ==
  /\ req[h].pc = "issue"
  /\ t \notin issued
  /\ issued' = issued \union {t}
  /\ \E stored \in {TRUE, ~MayFail} :
       row' = [row EXCEPT ![t] = IF stored THEN "LIVE" ELSE "NONE"]
  /\ \E f \in (IF req[h].fam = {} THEN {t} ELSE req[h].fam) : fam' = [fam EXCEPT ![t] = f]
  /\ \E s \in req[h].by : by' = [by EXCEPT ![t] = s]
  /\ Finish(h)
  /\ UNCHANGED <<status, deleted, password>>

-----------------------------------------------------------------------------
(* rotate *)

(* Mutant: a revoked row is taken for a live one. *)
Rotate_IgnoresRevoked(h, t) ==
  /\ req[h].pc = "idle"
  /\ t \in issued /\ row[t] # "NONE"
  /\ Work(h, "user", {t}, {fam[t]}, {by[t]})
  /\ UNCHANGED <<status, deleted, password, tokens>>

Rotate(h, t) ==
  /\ req[h].pc = "idle"
  /\ t \in issued /\ row[t] # "NONE"
  /\ Work(h, IF row[t] = "REVOKED" THEN "reuse" ELSE "user", {t}, {fam[t]}, {by[t]})
  /\ UNCHANGED <<status, deleted, password, tokens>>

(* There is no row, or it cannot be read: a new family, with no more checks. *)
RotateStateless(h, t) ==
  /\ req[h].pc = "idle"
  /\ t \in issued /\ (row[t] = "NONE" \/ MayFail)
  /\ Work(h, "issue", {}, {}, {by[t]})
  /\ UNCHANGED <<status, deleted, password, tokens>>

RotateUser(h) ==
  /\ req[h].pc = "user"
  /\ Goto(h, IF deleted \/ status # "ACTIVE" THEN "reuse" ELSE "revoke")
  /\ UNCHANGED <<status, deleted, password, tokens>>

(* Mutant: the rotated token keeps its row as it is. *)
RotateRevoke_Keeps(h) ==
  /\ req[h].pc = "revoke"
  /\ Goto(h, "issue")
  /\ UNCHANGED <<status, deleted, password, tokens>>

RotateRevoke(h) ==
  /\ req[h].pc = "revoke"
  /\ row' = [t \in Tokens |-> IF t \in req[h].tok THEN "REVOKED" ELSE row[t]]
  /\ Goto(h, "issue")
  /\ UNCHANGED <<status, deleted, password, issued, fam, by>>

Revoked(rows) == [t \in Tokens |-> IF t \in rows \intersect Live THEN "REVOKED" ELSE row[t]]

RevokeFamily(h) ==
  /\ req[h].pc = "reuse"
  /\ row' = Revoked({t \in Tokens : fam[t] \in req[h].fam})
  /\ Finish(h)
  /\ UNCHANGED <<status, deleted, password, issued, fam, by>>

-----------------------------------------------------------------------------
(* logout, with the token or without *)

RevokeToken(h, t) ==
  /\ req[h].pc = "idle" /\ SignedIn
  /\ t \in issued
  /\ row' = Revoked({t})
  /\ UNCHANGED <<status, deleted, password, issued, fam, by, req>>

Logout(h) ==
  /\ req[h].pc = "idle" /\ SignedIn
  /\ Work(h, "all", {}, {}, {})
  /\ UNCHANGED <<status, deleted, password, tokens>>

(* revokeAllForUser *)
RevokeAll(h) ==
  /\ req[h].pc = "all"
  /\ row' = Revoked(Tokens)
  /\ Finish(h)
  /\ UNCHANGED <<status, deleted, password, issued, fam, by>>

-----------------------------------------------------------------------------
(* resetPassword, by a code, and changePassword, by the old password *)

ResetPassword(h, new) ==
  /\ req[h].pc = "idle" /\ ~UserLocked
  /\ status # "NONE"
  /\ password' = new
  /\ Work(h, "all", {}, {}, {})
  /\ UNCHANGED <<status, deleted, tokens>>

ChangePassword(h) ==
  /\ req[h].pc = "idle" /\ SignedIn
  /\ Work(h, "hash", {}, {}, {})
  /\ UNCHANGED <<status, deleted, password, tokens>>

(* Mutant: the sessions are left as they are. *)
ChangeHash_KeepsSessions(h, new) ==
  /\ req[h].pc = "hash" /\ ~UserLocked
  /\ password' = new
  /\ Finish(h)
  /\ UNCHANGED <<status, deleted, tokens>>

ChangeHash(h, new) ==
  /\ req[h].pc = "hash" /\ ~UserLocked
  /\ password' = new
  /\ Goto(h, "all")
  /\ UNCHANGED <<status, deleted, tokens>>

-----------------------------------------------------------------------------
(* updateUserStatus and deleteAccount *)

(* The rows are found before the transaction commits. *)
UpdateUserStatus(h, to) ==
  /\ req[h].pc = "idle" /\ ~UserLocked
  /\ status # "NONE"
  /\ req' = [req EXCEPT ![h] = [pc |-> "status", tok |-> IF to \in {"SUSPENDED", "DELETED"} THEN Live ELSE {},
                                fam |-> {}, by |-> {}, to |-> {to}]]
  /\ UNCHANGED <<status, deleted, password, tokens>>

StatusCommit(h) ==
  /\ req[h].pc = "status"
  /\ status' \in req[h].to
  /\ row' = Revoked(req[h].tok)
  /\ Finish(h)
  /\ UNCHANGED <<deleted, password, issued, fam, by>>

DeleteAccount(h) ==
  /\ req[h].pc = "idle" /\ SignedIn /\ ~UserLocked
  /\ status' = "DELETED" /\ deleted' = TRUE
  /\ row' = Revoked(Tokens)
  /\ UNCHANGED <<password, issued, fam, by, req>>

-----------------------------------------------------------------------------
(* The function is killed, a store refuses a statement that is not caught. *)
Fail(h) ==
  /\ MayFail
  /\ req[h].pc # "idle"
  /\ Finish(h)
  /\ UNCHANGED <<status, deleted, password, tokens>>

Next ==
  \E h \in Handlers :
    \/ Register(h) \/ RegisterCommit(h) \/ RegisterFallback(h)
    \/ (\E secret \in Passwords : Login(h, secret)) \/ LoginFromMemory(h) \/ VerifyOtp(h)
    \/ \E t \in Tokens : Issue(h, t) \/ Rotate(h, t) \/ RotateStateless(h, t) \/ RevokeToken(h, t)
    \/ RotateUser(h) \/ RotateRevoke(h) \/ RevokeFamily(h)
    \/ Logout(h) \/ RevokeAll(h)
    \/ \E new \in Passwords : ResetPassword(h, new) \/ ChangeHash(h, new)
    \/ ChangePassword(h)
    \/ (\E to \in Statuses : UpdateUserStatus(h, to)) \/ StatusCommit(h)
    \/ DeleteAccount(h)
    \/ Fail(h)

Spec == Init /\ [][Next]_vars

-----------------------------------------------------------------------------
(* Properties *)

Rotating(h) == req[h].pc \in {"user", "revoke", "issue"}

(* A family that has no live token, and no rotation on its way to one, is   *)
(* over for good: neither a revoked token that is presented again nor a     *)
(* change of the account brings it back (token.service.ts, rotate).         *)
Ended(f) ==
  /\ f \in issued
  /\ \A t \in Live : fam[t] # f
  /\ \A h \in Handlers : Rotating(h) => f \notin req[h].fam
EndedStaysEnded == [][\A f \in Tokens : Ended(f) => Ended(f)']_vars

(* Live tokens of a family and successors on their way: a rotation trades   *)
(* one for the other.  More of them come only from a rotation that finds    *)
(* its token revoked since it was read.                                     *)
Line(f) ==
  Cardinality({t \in Live : fam[t] = f})
    + Cardinality({h \in Handlers : req[h].pc = "issue" /\ f \in req[h].fam})
Overlap == \E h \in Handlers : RotateRevoke(h) /\ req[h].tok \intersect Live = {}
LineGrowsByOverlap == [][\A f \in issued : Line(f)' <= Line(f) \/ Overlap]_vars

(* The two ways around the row of the account: a user in the memory of the  *)
(* process, and a token without a row that can be read.                     *)
Bypass == \E h \in Handlers : LoginFromMemory(h) \/ \E t \in Tokens : RotateStateless(h, t)

(* An account that is not active, has no live token and no request on its   *)
(* way to one gets none until it is active again (assertUsable, rotate).    *)
SignedOut ==
  /\ status # "ACTIVE"
  /\ Live = {}
  /\ \A h \in Handlers : ~Rotating(h)
SignedOutStays == [][SignedOut => SignedOut' \/ status' = "ACTIVE" \/ Bypass]_vars

(* What the sessions there are, and those on their way, were opened with.   *)
Openers == {by[t] : t \in Live} \union UNION {req[h].by : h \in {g \in Handlers : Rotating(g)}}
Replacing == \E h \in Handlers : req[h].pc = "all"
OpenedByNow == Replacing \/ Openers \subseteq {password, "otp"}

(* No session opened with a replaced password outlives the replacement,     *)
(* but for a request that was on its way when the rows were revoked, or a   *)
(* replacement that is cut off between its two writes (resetPassword,       *)
(* changePassword, revokeAllForUser).                                       *)
OldPasswordIsOut ==
  [][OpenedByNow => \/ OpenedByNow'
                    \/ Bypass
                    \/ \E h \in Handlers : RevokeAll(h) /\ \E g \in Handlers : Rotating(g)
                    \/ \E h \in Handlers : Fail(h) /\ req[h].pc = "all"]_vars

(* token.service.ts:41 "reusing a rotated token revokes the whole family":  *)
(* a family never has two live tokens.                                      *)
FamilyIsALine == \A s, t \in Live : fam[s] = fam[t] => s = t
=============================================================================
