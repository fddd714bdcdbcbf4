--------------------------- MODULE SessionsProofs ----------------------------
(***************************************************************************)
(* The sessions of one account, for any tokens, passwords and handlers.    *)
(* What the properties need besides the types: before the account is       *)
(* stored nothing is issued and its password is the first one, and a       *)
(* rotation goes on with the family of the token it was given.             *)
(***************************************************************************)
EXTENDS Sessions, FiniteSetTheorems, TLAPS

USE FiniteAssumption, PasswordAssumption, MayFailAssumption

LEMMA Busy ==
  ASSUME TypeOK, NEW h \in Handlers, req[h].pc # "idle"
  PROVE  req[h] \in Request
BY DEF TypeOK, Idle

LEMMA FinishTypes ==
  ASSUME TypeOK, NEW h \in Handlers, Finish(h)
  PROVE  req' \in [Handlers -> Request \union {Idle}]
BY DEF TypeOK, Finish

LEMMA GotoTypes ==
  ASSUME TypeOK, NEW h \in Handlers, NEW pc \in Pcs, req[h].pc # "idle", Goto(h, pc)
  PROVE  req' \in [Handlers -> Request \union {Idle}]
<1>1. [req[h] EXCEPT !.pc = pc] \in Request
  BY Busy DEF Request
<1> QED
  BY <1>1 DEF TypeOK, Goto

LEMMA WorkTypes ==
  ASSUME TypeOK, NEW h \in Handlers, NEW pc \in Pcs, NEW tok \in SUBSET Tokens,
         NEW family \in SUBSET Tokens, NEW secret \in SUBSET Secrets,
         Work(h, pc, tok, family, secret)
  PROVE  req' \in [Handlers -> Request \union {Idle}]
<1>1. [pc |-> pc, tok |-> tok, fam |-> family, by |-> secret, to |-> {}] \in Request
  BY DEF Request
<1> QED
  BY <1>1 DEF TypeOK, Work

LEMMA RevokedTypes ==
  ASSUME TypeOK, NEW rows \in SUBSET Tokens
  PROVE  Revoked(rows) \in [Tokens -> {"NONE", "LIVE", "REVOKED"}]
BY DEF TypeOK, Revoked

LEMMA TypeStep == TypeOK /\ [Next]_vars => TypeOK'
<1> SUFFICES ASSUME TypeOK, [Next]_vars PROVE TypeOK'
  OBVIOUS
<1> USE DEF Pcs, Secrets, tokens
<1>1. ASSUME NEW h \in Handlers, Register(h) \/ LoginFromMemory(h) \/ VerifyOtp(h) PROVE TypeOK'
  <2>1. req' \in [Handlers -> Request \union {Idle}]
    BY <1>1, WorkTypes DEF Register, LoginFromMemory, VerifyOtp
  <2> QED
    BY <1>1, <2>1 DEF Register, LoginFromMemory, VerifyOtp, TypeOK
<1>2. ASSUME NEW h \in Handlers, NEW secret \in Passwords, Login(h, secret) PROVE TypeOK'
  <2>1. req' \in [Handlers -> Request \union {Idle}]
    BY <1>2, WorkTypes DEF Login
  <2> QED
    BY <1>2, <2>1 DEF Login, TypeOK
<1>3. ASSUME NEW h \in Handlers, RegisterCommit(h) \/ RotateUser(h) \/ RotateRevoke(h) PROVE TypeOK'
  <2>1. req' \in [Handlers -> Request \union {Idle}]
    BY <1>3, GotoTypes DEF RegisterCommit, RotateUser, RotateRevoke
  <2> QED
    BY <1>3, <2>1 DEF RegisterCommit, RotateUser, RotateRevoke, TypeOK, Statuses
<1>4. ASSUME NEW h \in Handlers, RegisterFallback(h) \/ Fail(h) PROVE TypeOK'
  BY <1>4, FinishTypes DEF RegisterFallback, Fail, TypeOK
<1>5. ASSUME NEW h \in Handlers, NEW t \in Tokens, Issue(h, t) PROVE TypeOK'
  <2>1. req[h] \in Request
    BY <1>5, Busy DEF Issue
  <2>2. row' \in [Tokens -> {"NONE", "LIVE", "REVOKED"}]
    BY <1>5 DEF Issue, TypeOK
  <2>3. fam' \in [Tokens -> Tokens] /\ by' \in [Tokens -> Secrets]
    BY <1>5, <2>1 DEF Issue, TypeOK, Request
  <2> QED
    BY <1>5, <2>2, <2>3, FinishTypes DEF Issue, TypeOK
<1>6. ASSUME NEW h \in Handlers, NEW t \in Tokens, Rotate(h, t) \/ RotateStateless(h, t) PROVE TypeOK'
  <2>1. {fam[t]} \in SUBSET Tokens /\ {by[t]} \in SUBSET Secrets
    BY DEF TypeOK
  <2>2. req' \in [Handlers -> Request \union {Idle}]
    BY <1>6, <2>1, WorkTypes DEF Rotate, RotateStateless
  <2> QED
    BY <1>6, <2>2 DEF Rotate, RotateStateless, TypeOK
<1>7. ASSUME NEW h \in Handlers, RevokeFamily(h) \/ RevokeAll(h) PROVE TypeOK'
  BY <1>7, FinishTypes, RevokedTypes DEF RevokeFamily, RevokeAll, TypeOK
<1>8. ASSUME NEW h \in Handlers, NEW t \in Tokens, RevokeToken(h, t) PROVE TypeOK'
  BY <1>8, RevokedTypes DEF RevokeToken, TypeOK
<1>9. ASSUME NEW h \in Handlers, Logout(h) \/ ChangePassword(h) PROVE TypeOK'
  <2>1. req' \in [Handlers -> Request \union {Idle}]
    BY <1>9, WorkTypes DEF Logout, ChangePassword
  <2> QED
    BY <1>9, <2>1 DEF Logout, ChangePassword, TypeOK
<1>10. ASSUME NEW h \in Handlers, NEW new \in Passwords, ResetPassword(h, new) \/ ChangeHash(h, new)
       PROVE  TypeOK'
  <2>1. req' \in [Handlers -> Request \union {Idle}]
    BY <1>10, WorkTypes, GotoTypes DEF ResetPassword, ChangeHash
  <2> QED
    BY <1>10, <2>1 DEF ResetPassword, ChangeHash, TypeOK
<1>11. ASSUME NEW h \in Handlers, NEW to \in Statuses, UpdateUserStatus(h, to) PROVE TypeOK'
  <2>1. [pc |-> "status", tok |-> IF to \in {"SUSPENDED", "DELETED"} THEN Live ELSE {},
         fam |-> {}, by |-> {}, to |-> {to}] \in Request
    BY DEF Request, Live
  <2> QED
    BY <1>11, <2>1 DEF UpdateUserStatus, TypeOK
<1>12. ASSUME NEW h \in Handlers, StatusCommit(h) PROVE TypeOK'
  <2>1. req[h] \in Request
    BY <1>12, Busy DEF StatusCommit
  <2> QED
    BY <1>12, <2>1, FinishTypes, RevokedTypes DEF StatusCommit, TypeOK, Request
<1>13. ASSUME NEW h \in Handlers, DeleteAccount(h) PROVE TypeOK'
  BY <1>13, RevokedTypes DEF DeleteAccount, TypeOK, Statuses
<1>14. CASE UNCHANGED vars
  BY <1>14 DEF vars, TypeOK
<1> QED
  BY <1>1, <1>2, <1>3, <1>4, <1>5, <1>6, <1>7, <1>8, <1>9, <1>10, <1>11, <1>12, <1>13, <1>14 DEF Next

LEMMA TypeInit == Init => TypeOK
<1> SUFFICES ASSUME Init PROVE TypeOK
  OBVIOUS
<1>1. by \in [Tokens -> Secrets] /\ password \in Passwords
  BY DEF Init, Secrets
<1>2. req \in [Handlers -> Request \union {Idle}]
  BY DEF Init
<1>3. row \in [Tokens -> {"NONE", "LIVE", "REVOKED"}] /\ fam \in [Tokens -> Tokens] /\ issued \in SUBSET Tokens
  BY DEF Init
<1> QED
  BY <1>1, <1>2, <1>3 DEF Init, TypeOK

(* Every variable keeps its type.                                           *)
THEOREM TypeCorrect == Spec => []TypeOK
BY TypeInit, TypeStep, PTL DEF Spec

-----------------------------------------------------------------------------
(* Before the account is stored nothing is issued, and nobody but its       *)
(* registration is at work; a registration opens a new family with the      *)
(* first password.                                                          *)
Fresh ==
  /\ status = "NONE" => /\ password = FirstPassword
                        /\ issued = {}
                        /\ \A h \in Handlers : req[h].pc \in {"idle", "register"}
  /\ \A h \in Handlers : req[h].pc = "register" => req[h].fam = {} /\ req[h].by = {FirstPassword}

(* A rotation that is past its read goes on with the family of its token.   *)
Presented ==
  \A h \in Handlers : req[h].pc \in {"user", "revoke"} =>
    \E t \in issued : req[h].tok = {t} /\ req[h].fam = {fam[t]}

IInv == TypeOK /\ Fresh /\ Presented

LEMMA ReqIsFunction == TypeOK => DOMAIN req = Handlers /\ req = [h \in Handlers |-> req[h]]
BY DEF TypeOK

(* Going on with a request changes nothing of it but the statement it is at. *)
LEMMA GotoMoves ==
  ASSUME TypeOK, NEW h \in Handlers, NEW pc, req[h].pc # "idle", Goto(h, pc)
  PROVE  /\ req'[h].pc = pc
         /\ req'[h].tok = req[h].tok /\ req'[h].fam = req[h].fam /\ req'[h].by = req[h].by
         /\ \A g \in Handlers : g # h => req'[g] = req[g]
<1>1. req[h] \in Request
  BY Busy
<1>2. req'[h] = [req[h] EXCEPT !.pc = pc]
  BY DEF Goto, TypeOK
<1>3. \A g \in Handlers : g # h => req'[g] = req[g]
  BY DEF Goto, TypeOK
<1> QED
  BY <1>1, <1>2, <1>3 DEF Request

LEMMA InvInit == Init => IInv
<1> SUFFICES ASSUME Init PROVE Fresh /\ Presented
  BY TypeInit DEF IInv
<1>1. \A h \in Handlers : req[h].pc = "idle"
  BY DEF Init, Idle
<1> QED
  BY <1>1 DEF Init, Fresh, Presented

(* What the step of one handler may do for Fresh to stay.                    *)
LEMMA FreshKept ==
  ASSUME Fresh, NEW h \in Handlers,
         status' = "NONE" => status = "NONE" /\ password' = password /\ issued' = issued,
         \A g \in Handlers : g # h => req'[g] = req[g],
         \/ req'[h] = req[h]
         \/ req'[h].pc = "idle"
         \/ req'[h].pc = "register" /\ req'[h].fam = {} /\ req'[h].by = {FirstPassword}
         \/ req'[h].pc # "register" /\ status' # "NONE"
  PROVE  Fresh'
<1>1. \A g \in Handlers : req'[g].pc = "register" => req'[g].fam = {} /\ req'[g].by = {FirstPassword}
  BY DEF Fresh
<1>2. CASE status' = "NONE"
  BY <1>1, <1>2 DEF Fresh
<1> QED
  BY <1>1, <1>2 DEF Fresh

LEMMA FreshStep == IInv /\ [Next]_vars => Fresh'
<1> SUFFICES ASSUME IInv, [Next]_vars PROVE Fresh'
  OBVIOUS
<1> USE DEF IInv, tokens
<1>0. DOMAIN req = Handlers
  BY ReqIsFunction
<1>1. ASSUME NEW h \in Handlers, Register(h) PROVE Fresh'
  <2>1. /\ req'[h].pc = "register" /\ req'[h].fam = {} /\ req'[h].by = {FirstPassword}
        /\ \A g \in Handlers : g # h => req'[g] = req[g]
    BY <1>0, <1>1 DEF Register, Work
  <2>2. UNCHANGED <<status, password, issued>>
    BY <1>1 DEF Register
  <2> QED
    BY <2>1, <2>2, FreshKept
<1>2. ASSUME NEW h \in Handlers, RegisterCommit(h) \/ RegisterFallback(h) \/ Fail(h) PROVE Fresh'
  <2>1. CASE RegisterCommit(h)
    BY <2>1, FreshKept, GotoMoves DEF RegisterCommit
  <2>2. CASE RegisterFallback(h) \/ Fail(h)
    <3>1. /\ req'[h].pc = "idle"
          /\ \A g \in Handlers : g # h => req'[g] = req[g]
      BY <1>0, <2>2 DEF RegisterFallback, Fail, Finish, Idle
    <3>2. UNCHANGED <<status, password, issued>>
      BY <2>2 DEF RegisterFallback, Fail
    <3> QED
      BY <3>1, <3>2, FreshKept
  <2> QED
    BY <1>2, <2>1, <2>2
<1>3. ASSUME NEW h \in Handlers, NEW secret \in Passwords, Login(h, secret) PROVE Fresh'
  BY <1>0, <1>3, FreshKept DEF Login, Usable, Work
<1>4. ASSUME NEW h \in Handlers, LoginFromMemory(h) \/ VerifyOtp(h) PROVE Fresh'
  BY <1>0, <1>4, FreshKept DEF LoginFromMemory, VerifyOtp, Usable, Work
<1>5. ASSUME NEW h \in Handlers, NEW t \in Tokens, Issue(h, t) PROVE Fresh'
  <2>1. status # "NONE"
    BY <1>5 DEF Issue, Fresh
  <2> QED
    BY <1>0, <1>5, <2>1, FreshKept DEF Issue, Finish, Idle
<1>6. ASSUME NEW h \in Handlers, NEW t \in Tokens,
             Rotate(h, t) \/ RotateStateless(h, t) \/ RevokeToken(h, t)
      PROVE  Fresh'
  <2>1. status # "NONE"
    BY <1>6 DEF Rotate, RotateStateless, RevokeToken, Fresh
  <2> QED
    BY <1>0, <1>6, <2>1, FreshKept DEF Rotate, RotateStateless, RevokeToken, Work
<1>7. ASSUME NEW h \in Handlers, RotateUser(h) \/ RotateRevoke(h) \/ RevokeFamily(h) \/ RevokeAll(h)
      PROVE  Fresh'
  <2>1. status # "NONE"
    BY <1>7 DEF RotateUser, RotateRevoke, RevokeFamily, RevokeAll, Fresh
  <2>2. CASE RotateUser(h) \/ RotateRevoke(h)
    <3>1. PICK pc \in {"reuse", "revoke", "issue"} : req[h].pc # "idle" /\ Goto(h, pc)
      BY <2>2 DEF RotateUser, RotateRevoke
    <3> QED
      BY <2>1, <2>2, <3>1, FreshKept, GotoMoves DEF RotateUser, RotateRevoke
  <2>3. CASE RevokeFamily(h) \/ RevokeAll(h)
    BY <1>0, <2>1, <2>3, FreshKept DEF RevokeFamily, RevokeAll, Finish, Idle
  <2> QED
    BY <1>7, <2>2, <2>3
<1>8. ASSUME NEW h \in Handlers, Logout(h) \/ ChangePassword(h) PROVE Fresh'
  <2>1. status # "NONE"
    BY <1>8 DEF Logout, ChangePassword, SignedIn, Fresh
  <2> QED
    BY <1>0, <1>8, <2>1, FreshKept DEF Logout, ChangePassword, Work
<1>9. ASSUME NEW h \in Handlers, NEW new \in Passwords, ResetPassword(h, new) \/ ChangeHash(h, new)
      PROVE  Fresh'
  <2>1. status # "NONE"
    BY <1>9 DEF ResetPassword, ChangeHash, Fresh
  <2>2. CASE ResetPassword(h, new)
    BY <1>0, <2>1, <2>2, FreshKept DEF ResetPassword, Work
  <2>3. CASE ChangeHash(h, new)
    BY <2>1, <2>3, FreshKept, GotoMoves DEF ChangeHash
  <2> QED
    BY <1>9, <2>2, <2>3
<1>10. ASSUME NEW h \in Handlers, NEW to \in Statuses, UpdateUserStatus(h, to) PROVE Fresh'
  BY <1>0, <1>10, FreshKept DEF UpdateUserStatus
<1>11. ASSUME NEW h \in Handlers, StatusCommit(h) PROVE Fresh'
  <2>1. status' # "NONE"
    BY <1>11, Busy DEF StatusCommit, Request, Statuses
  <2> QED
    BY <1>0, <1>11, <2>1, FreshKept DEF StatusCommit, Finish, Idle
<1>12. ASSUME NEW h \in Handlers, DeleteAccount(h) PROVE Fresh'
  BY <1>12, FreshKept DEF DeleteAccount
<1>13. CASE UNCHANGED vars
  BY <1>13 DEF vars, Fresh
<1> QED
  BY <1>1, <1>2, <1>3, <1>4, <1>5, <1>6, <1>7, <1>8, <1>9, <1>10, <1>11, <1>12, <1>13 DEF Next

(* A request that comes to its row by anything but rotate is not Presented's. *)
LEMMA PresentedKept ==
  ASSUME Presented,
         issued \subseteq issued',
         \A t \in issued : fam'[t] = fam[t],
         \A h \in Handlers : \/ req'[h] = req[h]
                           \/ req'[h].pc \notin {"user", "revoke"}
                           \/ /\ req[h].pc = "user"
                              /\ req'[h].tok = req[h].tok /\ req'[h].fam = req[h].fam
                           \/ \E t \in issued : req'[h].tok = {t} /\ req'[h].fam = {fam[t]}
  PROVE  Presented'
<1> SUFFICES ASSUME NEW h \in Handlers, req'[h].pc \in {"user", "revoke"}
             PROVE  \E t \in issued' : req'[h].tok = {t} /\ req'[h].fam = {fam'[t]}
  BY DEF Presented
<1>1. \E t \in issued : req'[h].tok = {t} /\ req'[h].fam = {fam[t]}
  BY DEF Presented
<1> QED
  BY <1>1

LEMMA PresentedStep == IInv /\ [Next]_vars => Presented'
<1> SUFFICES ASSUME IInv, [Next]_vars PROVE Presented'
  OBVIOUS
<1> USE DEF IInv, tokens
<1>0. DOMAIN req = Handlers
  BY ReqIsFunction
<1>1. ASSUME NEW h \in Handlers, Register(h) \/ RegisterCommit(h) \/ RegisterFallback(h) \/ Fail(h)
      PROVE  Presented'
  <2>1. CASE RegisterCommit(h)
    BY <2>1, PresentedKept, GotoMoves DEF RegisterCommit
  <2>2. CASE Register(h) \/ RegisterFallback(h) \/ Fail(h)
    BY <1>0, <2>2, PresentedKept DEF Register, RegisterFallback, Fail, Work, Finish, Idle
  <2> QED
    BY <1>1, <2>1, <2>2
<1>2. ASSUME NEW h \in Handlers, NEW secret \in Passwords,
             Login(h, secret) \/ LoginFromMemory(h) \/ VerifyOtp(h)
      PROVE  Presented'
  BY <1>0, <1>2, PresentedKept DEF Login, LoginFromMemory, VerifyOtp, Work
<1>3. ASSUME NEW h \in Handlers, NEW t \in Tokens, Issue(h, t) PROVE Presented'
  <2>1. \A s \in issued : fam'[s] = fam[s]
    BY <1>3 DEF Issue, TypeOK
  <2> QED
    BY <1>0, <1>3, <2>1, PresentedKept DEF Issue, Finish, Idle
<1>4. ASSUME NEW h \in Handlers, NEW t \in Tokens, Rotate(h, t) PROVE Presented'
  <2>1. t \in issued /\ req'[h].tok = {t} /\ req'[h].fam = {fam[t]}
    BY <1>0, <1>4 DEF Rotate, Work
  <2>2. \A g \in Handlers : g # h => req'[g] = req[g]
    BY <1>0, <1>4 DEF Rotate, Work
  <2> QED
    BY <1>4, <2>1, <2>2, PresentedKept DEF Rotate
<1>5. ASSUME NEW h \in Handlers, NEW t \in Tokens, RotateStateless(h, t) \/ RevokeToken(h, t)
      PROVE  Presented'
  BY <1>0, <1>5, PresentedKept DEF RotateStateless, RevokeToken, Work
<1>6. ASSUME NEW h \in Handlers, RotateUser(h) \/ RotateRevoke(h) PROVE Presented'
  <2>1. PICK pc : /\ req[h].pc # "idle" /\ Goto(h, pc)
                  /\ req[h].pc = "user" \/ pc = "issue"
    BY <1>6 DEF RotateUser, RotateRevoke
  <2> QED
    BY <1>6, <2>1, PresentedKept, GotoMoves DEF RotateUser, RotateRevoke
<1>7. ASSUME NEW h \in Handlers, RevokeFamily(h) \/ RevokeAll(h) \/ Logout(h) \/ ChangePassword(h)
      PROVE  Presented'
  BY <1>0, <1>7, PresentedKept DEF RevokeFamily, RevokeAll, Logout, ChangePassword, Work, Finish, Idle
<1>8. ASSUME NEW h \in Handlers, NEW new \in Passwords, ResetPassword(h, new) \/ ChangeHash(h, new)
      PROVE  Presented'
  <2>1. CASE ResetPassword(h, new)
    BY <1>0, <2>1, PresentedKept DEF ResetPassword, Work
  <2>2. CASE ChangeHash(h, new)
    BY <2>2, PresentedKept, GotoMoves DEF ChangeHash
  <2> QED
    BY <1>8, <2>1, <2>2
<1>9. ASSUME NEW h \in Handlers,
             \/ \E to \in Statuses : UpdateUserStatus(h, to)
             \/ StatusCommit(h) \/ DeleteAccount(h)
      PROVE  Presented'
  <2>1. \A g \in Handlers : req'[g] = req[g] \/ req'[g].pc \in {"status", "idle"}
    BY <1>0, <1>9 DEF UpdateUserStatus, StatusCommit, DeleteAccount, Finish, Idle
  <2>2. UNCHANGED <<issued, fam>>
    BY <1>9 DEF UpdateUserStatus, StatusCommit, DeleteAccount
  <2> QED
    BY <2>1, <2>2, PresentedKept
<1>10. CASE UNCHANGED vars
  BY <1>10 DEF vars, Presented
<1> QED
  BY <1>1, <1>2, <1>3, <1>4, <1>5, <1>6, <1>7, <1>8, <1>9, <1>10 DEF Next

LEMMA InvStep == IInv /\ [Next]_vars => IInv'
BY TypeStep, FreshStep, PresentedStep DEF IInv

LEMMA InvHolds == Spec => []IInv
BY InvInit, InvStep, PTL DEF Spec

-----------------------------------------------------------------------------
(* What all the ways to revoke rows have in common.                         *)
LEMMA RevokedKeeps ==
  ASSUME TypeOK, NEW rows \in SUBSET Tokens, row' = Revoked(rows)
  PROVE  Live' = Live \ rows
BY DEF TypeOK, Revoked, Live

LEMMA IssueRows ==
  ASSUME TypeOK, NEW h \in Handlers, NEW t \in Tokens, Issue(h, t)
  PROVE  /\ Live' \subseteq Live \union {t}
         /\ \A s \in Tokens : s # t => fam'[s] = fam[s] /\ by'[s] = by[s]
         /\ (req[h].fam = {} /\ fam'[t] = t) \/ fam'[t] \in req[h].fam
         /\ by'[t] \in req[h].by
         /\ req'[h].pc = "idle"
         /\ \A g \in Handlers : g # h => req'[g] = req[g]
<1>1. req'[h].pc = "idle" /\ \A g \in Handlers : g # h => req'[g] = req[g]
  BY DEF Issue, Finish, TypeOK, Idle
<1>2. Live' \subseteq Live \union {t}
  BY DEF Issue, TypeOK, Live
<1>3. (req[h].fam = {} /\ fam'[t] = t) \/ fam'[t] \in req[h].fam
  BY DEF Issue, TypeOK
<1> QED
  BY <1>1, <1>2, <1>3 DEF Issue, TypeOK

(* A step of one handler that neither issues a token nor revives a row, as  *)
(* seen by the sessions: the handler leaves the rotation, or goes on with   *)
(* what it had, or comes to it anew with the families fams and the secrets. *)
Quiet(h, fams, secrets) ==
  /\ Live' \subseteq Live /\ UNCHANGED <<issued, fam, by>>
  /\ \A g \in Handlers : g # h => req'[g] = req[g]
  /\ \/ req'[h] = req[h]
     \/ ~Rotating(h)'
     \/ Rotating(h) /\ req'[h].fam = req[h].fam /\ req'[h].by = req[h].by
     \/ req'[h].fam = fams /\ req'[h].by = secrets

(* Every step but Issue is quiet, and what comes to a rotation anew is this. *)
LEMMA QuietStep ==
  ASSUME IInv, [Next]_vars,
         ~ \E h \in Handlers, t \in Tokens : Issue(h, t)
  PROVE  \/ \E h \in Handlers :
               \/ Quiet(h, {}, {FirstPassword}) /\ RegisterCommit(h)
               \/ Quiet(h, {}, {password}) /\ (\E secret \in Passwords : Login(h, secret))
               \/ Quiet(h, {}, {"otp"}) /\ VerifyOtp(h)
               \/ LoginFromMemory(h) /\ \E secret \in Secrets : Quiet(h, {}, {secret})
               \/ \E t \in Tokens : RotateStateless(h, t) /\ Quiet(h, {}, {by[t]})
               \/ \E t \in Live : Rotate(h, t) /\ Quiet(h, {fam[t]}, {by[t]})
               \/ Quiet(h, {}, {}) /\ (~Rotating(h)' \/ req'[h] = req[h])
               \/ Quiet(h, {}, {}) /\ (RotateUser(h) \/ RotateRevoke(h))
         \/ UNCHANGED vars
<1> DEFINE Out(h) == Quiet(h, {}, {}) /\ (~Rotating(h)' \/ req'[h] = req[h])
<1> USE DEF IInv, tokens
<1>0. DOMAIN req = Handlers
  BY ReqIsFunction
<1>1. ASSUME NEW h \in Handlers, Register(h) PROVE Out(h)
  <2>1. req'[h].pc = "register" /\ \A g \in Handlers : g # h => req'[g] = req[g]
    BY <1>0, <1>1 DEF Register, Work
  <2>2. Live' = Live /\ UNCHANGED <<issued, fam, by>>
    BY <1>1 DEF Register, Live
  <2> QED
    BY <2>1, <2>2 DEF Quiet, Rotating
<1>2. ASSUME NEW h \in Handlers, RegisterCommit(h) PROVE Quiet(h, {}, {FirstPassword})
  <2>1. /\ req'[h].fam = {} /\ req'[h].by = {FirstPassword}
        /\ \A g \in Handlers : g # h => req'[g] = req[g]
    BY <1>2, GotoMoves DEF RegisterCommit, Fresh
  <2>2. Live' = Live /\ UNCHANGED <<issued, fam, by>>
    BY <1>2 DEF RegisterCommit, Live
  <2> QED
    BY <2>1, <2>2 DEF Quiet
<1>3. ASSUME NEW h \in Handlers, NEW pc, NEW tok, NEW family, NEW secret,
             Work(h, pc, tok, family, secret), UNCHANGED tokens
      PROVE  Quiet(h, family, secret)
  <2>1. /\ req'[h].fam = family /\ req'[h].by = secret
        /\ \A g \in Handlers : g # h => req'[g] = req[g]
    BY <1>0, <1>3 DEF Work
  <2>2. Live' = Live /\ UNCHANGED <<issued, fam, by>>
    BY <1>3 DEF Live
  <2> QED
    BY <2>1, <2>2 DEF Quiet
<1>4. ASSUME NEW h \in Handlers, NEW secret \in Passwords, Login(h, secret)
      PROVE  Quiet(h, {}, {password})
  <2>1. Work(h, "issue", {}, {}, {password}) /\ UNCHANGED tokens
    BY <1>4 DEF Login
  <2> QED
    BY <1>3, <2>1
<1>5. ASSUME NEW h \in Handlers, VerifyOtp(h) PROVE Quiet(h, {}, {"otp"})
  BY <1>3, <1>5 DEF VerifyOtp
<1>6. ASSUME NEW h \in Handlers, LoginFromMemory(h)
      PROVE  \E secret \in Secrets : Quiet(h, {}, {secret})
  <2>1. PICK secret \in {FirstPassword, "otp"} : Work(h, "issue", {}, {}, {secret})
    BY <1>6 DEF LoginFromMemory
  <2>2. Quiet(h, {}, {secret})
    BY <1>3, <1>6, <2>1 DEF LoginFromMemory
  <2> QED
    BY <2>2 DEF Secrets
<1>7. ASSUME NEW h \in Handlers, NEW t \in Tokens, RotateStateless(h, t) PROVE Quiet(h, {}, {by[t]})
  BY <1>3, <1>7 DEF RotateStateless
<1>8. ASSUME NEW h \in Handlers, NEW t \in Tokens, Rotate(h, t), t \in Live
      PROVE  Quiet(h, {fam[t]}, {by[t]})
  BY <1>3, <1>8 DEF Rotate
<1>9. ASSUME NEW h \in Handlers, NEW t \in Tokens, Rotate(h, t), t \notin Live PROVE Out(h)
  <2>1. row[t] = "REVOKED"
    BY <1>9 DEF Rotate, Live, TypeOK
  <2>2. req'[h].pc = "reuse" /\ \A g \in Handlers : g # h => req'[g] = req[g]
    BY <1>0, <1>9, <2>1 DEF Rotate, Work
  <2>3. Live' = Live /\ UNCHANGED <<issued, fam, by>>
    BY <1>9 DEF Rotate, Live
  <2> QED
    BY <2>2, <2>3 DEF Quiet, Rotating
<1>10. ASSUME NEW h \in Handlers, RotateUser(h) \/ RotateRevoke(h) PROVE Quiet(h, {}, {})
  <2>1. PICK pc : req[h].pc \in {"user", "revoke"} /\ Goto(h, pc)
    BY <1>10 DEF RotateUser, RotateRevoke
  <2>2. /\ Rotating(h) /\ req'[h].fam = req[h].fam /\ req'[h].by = req[h].by
        /\ \A g \in Handlers : g # h => req'[g] = req[g]
    BY <2>1, GotoMoves DEF Rotating
  <2>3. Live' \subseteq Live /\ UNCHANGED <<issued, fam, by>>
    BY <1>10 DEF RotateUser, RotateRevoke, Live, TypeOK
  <2> QED
    BY <2>2, <2>3 DEF Quiet
<1>11. ASSUME NEW h \in Handlers, NEW rows \in SUBSET Tokens, row' = Revoked(rows),
              UNCHANGED <<issued, fam, by>>, Finish(h) \/ req' = req
       PROVE  Out(h)
  <2>1. Live' \subseteq Live
    BY <1>11, RevokedKeeps
  <2>2. /\ ~Rotating(h)' \/ req'[h] = req[h]
        /\ \A g \in Handlers : g # h => req'[g] = req[g]
    BY <1>0, <1>11 DEF Finish, Idle, Rotating
  <2> QED
    BY <1>11, <2>1, <2>2 DEF Quiet
<1>12. ASSUME NEW h \in Handlers,
              \/ RevokeFamily(h) \/ RevokeAll(h) \/ StatusCommit(h) \/ DeleteAccount(h)
              \/ \E t \in Tokens : RevokeToken(h, t)
       PROVE  Out(h)
  <2>1. CASE RevokeFamily(h)
    <3>1. {t \in Tokens : fam[t] \in req[h].fam} \in SUBSET Tokens
      OBVIOUS
    <3> QED
      BY <1>11, <2>1, <3>1 DEF RevokeFamily
  <2>2. CASE RevokeAll(h) \/ DeleteAccount(h)
    <3>1. Tokens \in SUBSET Tokens
      OBVIOUS
    <3> QED
      BY <1>11, <2>2, <3>1 DEF RevokeAll, DeleteAccount
  <2>3. CASE StatusCommit(h)
    BY <1>11, <2>3, Busy DEF StatusCommit, Request
  <2>4. ASSUME NEW t \in Tokens, RevokeToken(h, t) PROVE Out(h)
    <3>1. {t} \in SUBSET Tokens
      OBVIOUS
    <3> QED
      BY <1>11, <2>4, <3>1 DEF RevokeToken
  <2> QED
    BY <1>12, <2>1, <2>2, <2>3, <2>4
<1>13. ASSUME NEW h \in Handlers, UNCHANGED tokens,
              req'[h].pc \in {"idle", "all", "hash", "status"},
              \A g \in Handlers : g # h => req'[g] = req[g]
       PROVE  Out(h)
  BY <1>13 DEF Quiet, Rotating, Live
<1>14. ASSUME NEW h \in Handlers,
              \/ RegisterFallback(h) \/ Fail(h) \/ Logout(h) \/ ChangePassword(h)
              \/ \E new \in Passwords : ResetPassword(h, new) \/ ChangeHash(h, new)
              \/ \E to \in Statuses : UpdateUserStatus(h, to)
       PROVE  Out(h)
  <2>1. CASE RegisterFallback(h) \/ Fail(h)
    BY <1>0, <1>13, <2>1 DEF RegisterFallback, Fail, Finish, Idle
  <2>2. CASE Logout(h) \/ ChangePassword(h) \/ \E new \in Passwords : ResetPassword(h, new)
    BY <1>0, <1>13, <2>2 DEF Logout, ChangePassword, ResetPassword, Work
  <2>3. CASE \E new \in Passwords : ChangeHash(h, new)
    BY <1>13, <2>3, GotoMoves DEF ChangeHash
  <2>4. CASE \E to \in Statuses : UpdateUserStatus(h, to)
    BY <1>0, <1>13, <2>4 DEF UpdateUserStatus
  <2> QED
    BY <1>14, <2>1, <2>2, <2>3, <2>4
<1> HIDE DEF Out
<1>15. ASSUME NEW h \in Handlers, NEW t \in Tokens, Rotate(h, t)
       PROVE  Out(h) \/ \E s \in Live : Rotate(h, s) /\ Quiet(h, {fam[s]}, {by[s]})
  BY <1>8, <1>9, <1>15
<1>16. (\E h \in Handlers : Out(h)) => (\E h \in Handlers : Quiet(h, {}, {}) /\ (~Rotating(h)' \/ req'[h] = req[h]))
  BY DEF Out
<1> QED
  BY <1>1, <1>2, <1>4, <1>5, <1>6, <1>7, <1>10, <1>12, <1>14, <1>15, <1>16 DEF Next

-----------------------------------------------------------------------------
LEMMA EndedStep == IInv /\ [Next]_vars => \A f \in Tokens : Ended(f) => Ended(f)'
<1> SUFFICES ASSUME IInv, [Next]_vars, NEW f \in Tokens, Ended(f) PROVE Ended(f)'
  OBVIOUS
<1>1. ASSUME NEW h \in Handlers, NEW t \in Tokens, Issue(h, t) PROVE Ended(f)'
  <2>1. t # f /\ issued \subseteq issued'
    BY <1>1 DEF Issue, Ended
  <2>2. fam'[t] # f
    <3>1. fam'[t] = t \/ fam'[t] \in req[h].fam
      BY <1>1, IssueRows DEF IInv
    <3>2. f \notin req[h].fam
      BY <1>1 DEF Issue, Ended, Rotating
    <3> QED
      BY <2>1, <3>1, <3>2
  <2>3. \A s \in Live' : fam'[s] # f
    BY <1>1, <2>2, IssueRows DEF IInv, Ended, Live
  <2>4. \A g \in Handlers : Rotating(g)' => f \notin req'[g].fam
    BY <1>1, IssueRows DEF IInv, Ended, Rotating
  <2> QED
    BY <2>1, <2>3, <2>4 DEF Ended
<1>2. ASSUME NEW h \in Handlers, NEW family \in SUBSET Tokens, NEW secret, Quiet(h, family, secret), f \notin family
      PROVE  Ended(f)'
  <2>1. \A s \in Live' : fam'[s] # f
    BY <1>2 DEF Quiet, Ended
  <2>2. \A g \in Handlers : Rotating(g)' => f \notin req'[g].fam
    BY <1>2 DEF Quiet, Ended, Rotating
  <2> QED
    BY <1>2, <2>1, <2>2 DEF Quiet, Ended
<1>3. \A t \in Live : f \notin {fam[t]} /\ {fam[t]} \in SUBSET Tokens
  BY DEF Ended, IInv, TypeOK, Live
<1>4. CASE UNCHANGED vars
  BY <1>4 DEF vars, Ended, Live, Rotating
<1> QED
  BY <1>1, <1>2, <1>3, <1>4, QuietStep

(* A family that is over is over for good, whatever is presented again and  *)
(* whatever becomes of the account.                                         *)
THEOREM EndedForGood == Spec => EndedStaysEnded
<1>1. IInv /\ [Next]_vars => [\A f \in Tokens : Ended(f) => Ended(f)']_vars
  BY EndedStep
<1> QED
  BY <1>1, InvHolds, PTL DEF Spec, EndedStaysEnded

-----------------------------------------------------------------------------
LEMMA SignedOutStep ==
  IInv /\ [Next]_vars => (SignedOut => SignedOut' \/ status' = "ACTIVE" \/ Bypass)
<1> SUFFICES ASSUME IInv, [Next]_vars, SignedOut, status' # "ACTIVE", ~Bypass PROVE SignedOut'
  OBVIOUS
<1>1. ~ \E h \in Handlers, t \in Tokens : Issue(h, t)
  BY DEF Issue, SignedOut, Rotating
<1>2. ASSUME NEW h \in Handlers, NEW family, NEW secret, Quiet(h, family, secret), ~Rotating(h)' \/ req'[h] = req[h]
      PROVE  SignedOut'
  BY <1>2 DEF Quiet, SignedOut, Rotating
<1>3. ~ \E h \in Handlers : \/ RegisterCommit(h) \/ VerifyOtp(h)
                           \/ \E secret \in Passwords : Login(h, secret)
  BY DEF RegisterCommit, VerifyOtp, Login, Usable, SignedOut
<1>4. ~ \E h \in Handlers : RotateUser(h) \/ RotateRevoke(h) \/ LoginFromMemory(h) \/ \E t \in Tokens : RotateStateless(h, t)
  BY DEF RotateUser, RotateRevoke, SignedOut, Rotating, Bypass
<1>5. Live = {}
  BY DEF SignedOut
<1>6. CASE UNCHANGED vars
  BY <1>6 DEF vars, SignedOut, Live, Rotating
<1> QED
  BY <1>1, <1>2, <1>3, <1>4, <1>5, <1>6, QuietStep

(* An account that is not active and is signed out stays so until it is     *)
(* active again, but for the two ways around its row.                       *)
THEOREM SignedOutForGood == Spec => SignedOutStays
<1>1. IInv /\ [Next]_vars => [SignedOut => SignedOut' \/ status' = "ACTIVE" \/ Bypass]_vars
  BY SignedOutStep
<1> QED
  BY <1>1, InvHolds, PTL DEF Spec, SignedOutStays

-----------------------------------------------------------------------------
(* Openers, without the set.                                                *)
LEMMA OpenersWithin ==
  ASSUME NEW S, Openers \subseteq S
  PROVE  /\ \A t \in Live : by[t] \in S
         /\ \A h \in Handlers : Rotating(h) => req[h].by \subseteq S
BY DEF Openers

LEMMA OpenersWithinNext ==
  ASSUME NEW S, \A t \in Live' : by'[t] \in S,
         \A h \in Handlers : Rotating(h)' => req'[h].by \subseteq S
  PROVE  Openers' \subseteq S
BY DEF Openers

OpenersStay ==
  \/ OpenedByNow'
  \/ Bypass
  \/ \E h \in Handlers : RevokeAll(h) /\ \E g \in Handlers : Rotating(g)
  \/ \E h \in Handlers : Fail(h) /\ req[h].pc = "all"

(* While the rows are about to be revoked: only the revocation and a        *)
(* failure end that, and the revocation leaves no session.                  *)
LEMMA ReplacingStep ==
  ASSUME IInv, [Next]_vars, Replacing
  PROVE  OpenersStay
<1> USE DEF IInv
<1>1. PICK h \in Handlers : req[h].pc = "all"
  BY DEF Replacing
<1>2. SUFFICES ASSUME req'[h].pc # "all" PROVE OpenersStay
  BY DEF Replacing, OpenersStay, OpenedByNow
<1> DEFINE Begins(g) ==
             \/ Register(g) \/ (\E secret \in Passwords : Login(g, secret)) \/ LoginFromMemory(g) \/ VerifyOtp(g)
             \/ \E t \in Tokens : Rotate(g, t) \/ RotateStateless(g, t)
             \/ Logout(g) \/ ChangePassword(g) \/ \E new \in Passwords : ResetPassword(g, new)
           Goes(g) ==
             \/ RegisterCommit(g) \/ RotateUser(g) \/ RotateRevoke(g)
             \/ \E new \in Passwords : ChangeHash(g, new)
           Ends(g) ==
             \/ RegisterFallback(g) \/ Fail(g) \/ RevokeFamily(g) \/ RevokeAll(g) \/ StatusCommit(g)
             \/ \E t \in Tokens : Issue(g, t)
           Writes(g) ==
             \/ (\E to \in Statuses : UpdateUserStatus(g, to)) \/ DeleteAccount(g)
             \/ \E t \in Tokens : RevokeToken(g, t)
<1>3. PICK g \in Handlers : Begins(g) \/ Goes(g) \/ Ends(g) \/ Writes(g)
  <2>1. ~ UNCHANGED vars
    BY <1>1, <1>2 DEF vars
  <2> QED
    BY <2>1 DEF Next
<1>4. req'[g] # req[g] /\ g = h
  <2>1. DOMAIN req = Handlers
    BY ReqIsFunction
  <2>2. SUFFICES ASSUME g # h PROVE req'[h] = req[h]
    BY <1>1, <1>2
  <2>3. CASE Begins(g)
    BY <2>1, <2>2, <2>3
    DEF Register, Login, LoginFromMemory, VerifyOtp, Rotate, RotateStateless, Logout, ChangePassword, ResetPassword, Work
  <2>4. CASE Goes(g)
    <3>1. PICK pc : Goto(g, pc)
      BY <2>4 DEF RegisterCommit, RotateUser, RotateRevoke, ChangeHash
    <3> QED
      BY <2>1, <2>2, <3>1 DEF Goto
  <2>5. CASE Ends(g)
    <3>1. Finish(g)
      BY <2>5 DEF RegisterFallback, Fail, RevokeFamily, RevokeAll, StatusCommit, Issue
    <3> QED
      BY <2>1, <2>2, <3>1 DEF Finish
  <2>6. CASE Writes(g)
    BY <2>1, <2>2, <2>6 DEF UpdateUserStatus, DeleteAccount, RevokeToken
  <2> QED
    BY <1>3, <2>3, <2>4, <2>5, <2>6
<1>5. CASE Fail(g)
  BY <1>1, <1>4, <1>5 DEF OpenersStay
<1>6. CASE RevokeAll(g)
  <2>1. SUFFICES ASSUME \A k \in Handlers : ~Rotating(k) PROVE Openers' \subseteq {password', "otp"}
    BY <1>6 DEF OpenersStay, OpenedByNow
  <2>2. Live' = {}
    <3>1. Tokens \in SUBSET Tokens /\ row' = Revoked(Tokens)
      BY <1>6 DEF RevokeAll
    <3> QED
      BY <3>1, RevokedKeeps DEF Live
  <2>3. \A k \in Handlers : ~Rotating(k)'
    BY <1>6, <2>1 DEF RevokeAll, Finish, Idle, Rotating, TypeOK
  <2> QED
    BY <2>2, <2>3, OpenersWithinNext
<1>7. RevokeAll(g) \/ Fail(g)
  BY <1>1, <1>3, <1>4
  DEF Register, RegisterCommit, RegisterFallback, Login, LoginFromMemory, VerifyOtp,
      Issue, Rotate, RotateStateless, RevokeToken, RotateUser, RotateRevoke, RevokeFamily,
      Logout, ResetPassword, ChangeHash, ChangePassword, UpdateUserStatus, StatusCommit, DeleteAccount
<1> QED
  BY <1>5, <1>6, <1>7

(* With nothing about to be revoked, what comes to the sessions is opened   *)
(* by the password there is, or by what a live token was opened by.         *)
LEMMA OpenersStep ==
  ASSUME IInv, [Next]_vars, ~Replacing, Openers \subseteq {password, "otp"}, ~Bypass,
         ~Replacing', password' = password
  PROVE  Openers' \subseteq {password', "otp"}
<1> DEFINE Now == {password, "otp"}
<1> USE DEF IInv
<1>0. /\ \A t \in Live : by[t] \in Now
      /\ \A h \in Handlers : Rotating(h) => req[h].by \subseteq Now
  BY OpenersWithin
<1>1. ASSUME NEW h \in Handlers, NEW t \in Tokens, Issue(h, t) PROVE Openers' \subseteq Now
  <2>1. by'[t] \in Now
    BY <1>0, <1>1, IssueRows DEF Issue, Rotating
  <2>2. \A s \in Live' : by'[s] \in Now
    BY <1>0, <1>1, <2>1, IssueRows DEF Live
  <2>3. \A g \in Handlers : Rotating(g)' => req'[g].by \subseteq Now
    BY <1>0, <1>1, IssueRows DEF Rotating
  <2> QED
    BY <2>2, <2>3, OpenersWithinNext
<1>2. ASSUME NEW h \in Handlers, NEW family, NEW secret, Quiet(h, family, secret),
             secret \subseteq Now \/ ~Rotating(h)' \/ req'[h] = req[h]
      PROVE  Openers' \subseteq Now
  <2>1. \A s \in Live' : by'[s] \in Now
    BY <1>0, <1>2 DEF Quiet
  <2>2. \A g \in Handlers : Rotating(g)' => req'[g].by \subseteq Now
    BY <1>0, <1>2 DEF Quiet, Rotating
  <2> QED
    BY <2>1, <2>2, OpenersWithinNext
<1>3. \A h \in Handlers : RegisterCommit(h) => FirstPassword = password
  BY DEF RegisterCommit, Fresh
<1>4. \A t \in Live : {by[t]} \subseteq Now
  BY <1>0
<1>5. CASE UNCHANGED vars
  BY <1>5 DEF vars, Openers, Live, Rotating
<1>6. {} \subseteq Now /\ {password} \subseteq Now /\ {"otp"} \subseteq Now
  OBVIOUS
<1> HIDE DEF Now
<1>7. Openers' \subseteq Now
  BY <1>1, <1>2, <1>3, <1>4, <1>5, <1>6, QuietStep DEF Bypass
<1> QED
  BY <1>7 DEF Now

LEMMA PasswordStep ==
  ASSUME IInv, [Next]_vars, password' # password
  PROVE  Replacing'
<1>1. PICK h \in Handlers, new \in Passwords : ResetPassword(h, new) \/ ChangeHash(h, new)
  BY DEF Next, vars, tokens, Register, RegisterCommit, RegisterFallback, Login, LoginFromMemory, VerifyOtp,
         Issue, Rotate, RotateStateless, RevokeToken, RotateUser, RotateRevoke, RevokeFamily,
         Logout, RevokeAll, ChangePassword, UpdateUserStatus, StatusCommit, DeleteAccount, Fail
<1>2. req'[h].pc = "all"
  <2>1. CASE ResetPassword(h, new)
    BY <2>1, ReqIsFunction DEF IInv, ResetPassword, Work
  <2>2. CASE ChangeHash(h, new)
    BY <2>2, GotoMoves DEF IInv, ChangeHash
  <2> QED
    BY <1>1, <2>1, <2>2
<1> QED
  BY <1>2 DEF Replacing

(* No session opened with a replaced password outlives the replacement, but *)
(* for the exceptions OldPasswordIsOut names.                               *)
THEOREM OldPasswordGone == Spec => OldPasswordIsOut
<1>1. IInv /\ [Next]_vars => [OpenedByNow => OpenersStay]_vars
  <2> SUFFICES ASSUME IInv, [Next]_vars, OpenedByNow PROVE OpenersStay
    OBVIOUS
  <2>1. CASE Replacing
    BY <2>1, ReplacingStep
  <2>2. CASE ~Replacing
    <3>1. CASE Replacing' \/ Bypass
      BY <3>1 DEF OpenersStay, OpenedByNow
    <3>2. CASE ~Replacing' /\ ~Bypass
      BY <2>2, <3>2, OpenersStep, PasswordStep DEF OpenersStay, OpenedByNow
    <3> QED
      BY <3>1, <3>2
  <2> QED
    BY <2>1, <2>2
<1>2. Spec => [][OpenedByNow => OpenersStay]_vars
  BY <1>1, InvHolds, PTL DEF Spec
<1> QED
  BY <1>2 DEF OldPasswordIsOut, OpenersStay

-----------------------------------------------------------------------------
LiveOf(f) == {t \in Live : fam[t] = f}
IssuersOf(f) == {h \in Handlers : req[h].pc = "issue" /\ f \in req[h].fam}

LEMMA LineParts ==
  /\ \A f : Line(f) = Cardinality(LiveOf(f)) + Cardinality(IssuersOf(f))
  /\ \A f : IsFiniteSet(LiveOf(f)) /\ IsFiniteSet(IssuersOf(f))
<1>1. \A f : LiveOf(f) \subseteq Tokens /\ IssuersOf(f) \subseteq Handlers
  BY DEF LiveOf, IssuersOf, Live
<1> QED
  BY <1>1, FS_Subset DEF Line, LiveOf, IssuersOf

LEMMA LinePartsNext ==
  /\ \A f : Line(f)' = Cardinality(LiveOf(f)') + Cardinality(IssuersOf(f)')
  /\ \A f : IsFiniteSet(LiveOf(f)') /\ IsFiniteSet(IssuersOf(f)')
<1>1. \A f : LiveOf(f)' \subseteq Tokens /\ IssuersOf(f)' \subseteq Handlers
  BY DEF LiveOf, IssuersOf, Live
<1> QED
  BY <1>1, FS_Subset DEF Line, LiveOf, IssuersOf

LEMMA LineNotLonger ==
  ASSUME NEW f, LiveOf(f)' \subseteq LiveOf(f), IssuersOf(f)' \subseteq IssuersOf(f)
  PROVE  Line(f)' <= Line(f)
<1>1. /\ Cardinality(LiveOf(f)') <= Cardinality(LiveOf(f))
      /\ Cardinality(IssuersOf(f)') <= Cardinality(IssuersOf(f))
  BY LineParts, FS_Subset
<1>2. /\ Cardinality(LiveOf(f)') \in Nat /\ Cardinality(LiveOf(f)) \in Nat
      /\ Cardinality(IssuersOf(f)') \in Nat /\ Cardinality(IssuersOf(f)) \in Nat
  BY LineParts, LinePartsNext, FS_CardinalityType
<1> QED
  BY <1>1, <1>2, LineParts, LinePartsNext

(* One element moves from one finite set to another.                        *)
LEMMA Traded ==
  ASSUME NEW A, NEW B, NEW A2, NEW B2, NEW a, NEW b,
         IsFiniteSet(A), IsFiniteSet(B), a \in A, A2 = A \ {a}, B2 \subseteq B \union {b}
  PROVE  Cardinality(A2) + Cardinality(B2) <= Cardinality(A) + Cardinality(B)
<1>1. Cardinality(A2) = Cardinality(A) - 1
  BY FS_RemoveElement
<1>2. IsFiniteSet(B \union {b}) /\ Cardinality(B \union {b}) <= Cardinality(B) + 1
  <2>1. Cardinality(B) \in Nat
    BY FS_CardinalityType
  <2>2. /\ IsFiniteSet(B \union {b})
        /\ Cardinality(B \union {b}) = Cardinality(B) \/ Cardinality(B \union {b}) = Cardinality(B) + 1
    BY FS_AddElement
  <2> QED
    BY <2>1, <2>2
<1>3. Cardinality(B2) <= Cardinality(B \union {b}) /\ IsFiniteSet(B2)
  BY <1>2, FS_Subset
<1>4. /\ Cardinality(A) \in Nat /\ Cardinality(B) \in Nat /\ Cardinality(B2) \in Nat
      /\ Cardinality(B \union {b}) \in Nat
  BY <1>2, <1>3, FS_CardinalityType
<1> QED
  BY <1>1, <1>2, <1>3, <1>4

LEMMA LineStep == IInv /\ [Next]_vars => \A f \in issued : Line(f)' <= Line(f) \/ Overlap
<1> SUFFICES ASSUME IInv, [Next]_vars, NEW f \in issued, ~Overlap PROVE Line(f)' <= Line(f)
  OBVIOUS
<1> USE DEF IInv
<1>1. ASSUME NEW h \in Handlers, NEW t \in Tokens, Issue(h, t) PROVE Line(f)' <= Line(f)
  <2>1. LiveOf(f)' \subseteq LiveOf(f) \union {t}
    BY <1>1, IssueRows DEF LiveOf, Live
  <2>2. CASE f \in req[h].fam
    <3>1. h \in IssuersOf(f)
      BY <1>1, <2>2 DEF Issue, IssuersOf
    <3>2. IssuersOf(f)' = IssuersOf(f) \ {h}
      BY <1>1, IssueRows DEF IssuersOf
    <3>3. Cardinality(IssuersOf(f)') + Cardinality(LiveOf(f)') <= Cardinality(IssuersOf(f)) + Cardinality(LiveOf(f))
      BY <2>1, <3>1, <3>2, Traded, LineParts
    <3> QED
      BY <3>3, LineParts, LinePartsNext, FS_CardinalityType
  <2>3. CASE f \notin req[h].fam
    <3>1. fam'[t] # f
      <4>1. fam'[t] = t \/ fam'[t] \in req[h].fam
        BY <1>1, IssueRows
      <4>2. t # f
        BY <1>1 DEF Issue
      <4> QED
        BY <2>3, <4>1, <4>2
    <3>2. LiveOf(f)' \subseteq LiveOf(f)
      BY <2>1, <3>1 DEF LiveOf
    <3>3. IssuersOf(f)' \subseteq IssuersOf(f)
      BY <1>1, IssueRows DEF IssuersOf
    <3> QED
      BY <3>2, <3>3, LineNotLonger
  <2> QED
    BY <2>2, <2>3
<1>2. ASSUME NEW h \in Handlers, NEW family, NEW secret, Quiet(h, family, secret),
             \/ ~Rotating(h)' \/ req'[h] = req[h] \/ req'[h].pc # "issue" \/ f \notin req'[h].fam
      PROVE  Line(f)' <= Line(f)
  <2>1. LiveOf(f)' \subseteq LiveOf(f)
    BY <1>2 DEF Quiet, LiveOf
  <2>2. IssuersOf(f)' \subseteq IssuersOf(f)
    BY <1>2 DEF Quiet, IssuersOf, Rotating
  <2> QED
    BY <2>1, <2>2, LineNotLonger
<1>3. ASSUME NEW h \in Handlers, RotateRevoke(h) PROVE Line(f)' <= Line(f)
  <2>1. PICK t \in issued : req[h].tok = {t} /\ req[h].fam = {fam[t]}
    BY <1>3 DEF RotateRevoke, Presented
  <2>2. t \in Live
    BY <1>3, <2>1 DEF Overlap
  <2>3. Live' = Live \ {t} /\ UNCHANGED <<issued, fam>>
    BY <1>3, <2>1 DEF RotateRevoke, Live, TypeOK
  <2>4. /\ req'[h].pc = "issue" /\ req'[h].fam = {fam[t]}
        /\ \A g \in Handlers : g # h => req'[g] = req[g]
    BY <1>3, <2>1, GotoMoves DEF RotateRevoke
  <2>5. CASE fam[t] = f
    <3>1. t \in LiveOf(f) /\ LiveOf(f)' = LiveOf(f) \ {t}
      BY <2>2, <2>3, <2>5 DEF LiveOf
    <3>2. IssuersOf(f)' \subseteq IssuersOf(f) \union {h}
      BY <2>4 DEF IssuersOf
    <3> QED
      BY <3>1, <3>2, Traded, LineParts, LinePartsNext
  <2>6. CASE fam[t] # f
    <3>1. LiveOf(f)' \subseteq LiveOf(f)
      BY <2>3 DEF LiveOf
    <3>2. IssuersOf(f)' \subseteq IssuersOf(f)
      BY <2>4, <2>6 DEF IssuersOf
    <3> QED
      BY <3>1, <3>2, LineNotLonger
  <2> QED
    BY <2>5, <2>6
<1>4. ASSUME NEW h \in Handlers, RotateUser(h) PROVE req'[h].pc # "issue"
  <2>1. PICK pc \in {"reuse", "revoke"} : req[h].pc # "idle" /\ Goto(h, pc)
    BY <1>4 DEF RotateUser
  <2> QED
    BY <2>1, GotoMoves
<1>5. ASSUME NEW h \in Handlers, RegisterCommit(h) PROVE f \notin req'[h].fam
  BY <1>5, GotoMoves DEF RegisterCommit, Fresh
<1>6. ASSUME NEW h \in Handlers,
             \/ \E secret \in Passwords : Login(h, secret)
             \/ VerifyOtp(h) \/ LoginFromMemory(h) \/ \E t \in Tokens : RotateStateless(h, t)
      PROVE  f \notin req'[h].fam
  BY <1>6, ReqIsFunction DEF Login, VerifyOtp, LoginFromMemory, RotateStateless, Work
<1>7. ASSUME NEW h \in Handlers, NEW t \in Live, Rotate(h, t) PROVE req'[h].pc # "issue"
  BY <1>7, ReqIsFunction DEF Rotate, Work
<1>8. CASE UNCHANGED vars
  BY <1>8, LineNotLonger DEF vars, LiveOf, IssuersOf, Live
<1> QED
  BY <1>1, <1>2, <1>3, <1>4, <1>5, <1>6, <1>7, <1>8, QuietStep

(* A family's line never grows but by a rotation that finds its token       *)
(* revoked since it was read.                                               *)
THEOREM LineGrowsOnlyByOverlap == Spec => LineGrowsByOverlap
<1>1. IInv /\ [Next]_vars => [\A f \in issued : Line(f)' <= Line(f) \/ Overlap]_vars
  BY LineStep
<1> QED
  BY <1>1, InvHolds, PTL DEF Spec, LineGrowsByOverlap
=============================================================================
