--------------------------- MODULE AccountProofs ---------------------------
(***************************************************************************)
(* Proofs about the life of an account.                                    *)
(*                                                                         *)
(* Whatever overlaps, the types hold and the account's sessions implement  *)
(* SessionContract: every step of AccountNext is a step of AuthSession, a  *)
(* rewrite of status and password, the entry of a handler into the steps   *)
(* of its session, or the commit of a session by a verification or a       *)
(* Google login.                                                           *)
(*                                                                         *)
(* With one request at a time (Serial), what a handler has read is still   *)
(* so when it writes.  RedeemedOnce, PendingPasswordHasCode and            *)
(* SignupSparesActive follow; they do not hold when requests overlap.      *)
(***************************************************************************)
EXTENDS Account, AuthSessionProofs

-----------------------------------------------------------------------------
(* The inductive invariants.                                               *)

\* What a verification has read: a device it will open the session on, and a
\* version the account had.
FormInv ==
    \A p \in Reqs :
        /\ form[p].version <= tokenVersion
        /\ form[p].at \in {"read", "compared", "locked"} /\ form[p].type = "EMAIL_VERIFY"
           => form[p].device \in Devices

AccountInv == AccountTypeOK /\ DeviceInv /\ VersionInv /\ JtiInv /\ FormInv

\* Codes are numbered, and one that was redeemed is not in a row unspent.
CodesInv ==
    /\ \A c \in 1 .. MaxCodes : c > codes => redeemed[c] = 0
    /\ \A a \in OtpTypes :
          /\ otp[a].code <= codes
          /\ otp[a].code > 0 /\ ~otp[a].used => redeemed[otp[a].code] = 0
          /\ \A b \in OtpTypes : otp[a].code = otp[b].code /\ otp[a].code > 0 => a = b

\* What a handler has read is still so: nothing else ran since.
FormSound(p) ==
    /\ form[p].at = "signup" /\ form[p].saw = "PENDING" => status = "PENDING"
    /\ form[p].at = "status" => role = "ADMIN"
    /\ form[p].at \in {"read", "compared", "locked"} /\ form[p].type = "PASSWORD_RESET"
       => status = "ACTIVE"
    /\ form[p].at \in {"compared", "locked"} =>
          /\ form[p].code = otp[form[p].type].code
          /\ form[p].code > 0
          /\ ~otp[form[p].type].used
    /\ form[p].at \in {"signup", "request", "read", "wrong", "status"}
       => req[p].at = "idle"
    /\ req[p].at \in {"changePassword", "endChange"} => status = "ACTIVE"

AccountSerialInv ==
    /\ CodesInv /\ RedeemedOnce /\ PendingPasswordHasCode
    /\ \A p \in Reqs : FormSound(p)

USE DEF Advance

-----------------------------------------------------------------------------
(* The steps of the account, as the sessions see them.                     *)

\* A signup or an administrator writes status and password.
Rewrites ==
    /\ status' \in Statuses /\ password' = password + 1
    /\ UNCHANGED <<tokenVersion, rowVars, tokenVars, terminations, req>>

\* A handler enters the session's steps, or ends.
Places(p, r) ==
    /\ req' = [req EXCEPT ![p] = r]
    /\ \/ /\ r.at = "mint" /\ r.device \in Devices
          /\ r.version <= tokenVersion /\ r.family = 0
       \/ r.at \in {"idle", "changePassword"}
    /\ r.rows = {}
    /\ UNCHANGED <<userVars, rowVars, tokenVars, terminations>>

\* A verification or a Google login commits its session and activates the
\* account.
Opens(p) ==
    /\ SaveSession(p)
    /\ status' = "ACTIVE"
    /\ UNCHANGED <<tokenVersion, password>>

\* Which of the account's actions are which.
LEMMA SessionActions ==
  ASSUME NEW p \in Reqs,
         \/ SessionStep(p) \/ SessionMint(p)
         \/ ResetLock(p) \/ ResetCommit(p) \/ StatusCommit(p)
  PROVE  Next
BY DEF SessionStep, SessionMint, ResetLock, ResetCommit, StatusCommit, Next

LEMMA PlacingActions ==
  ASSUME AccountInv, NEW p \in Reqs,
         \/ RightCode(p) \/ VerifyLock(p) \/ AccountFail(p)
         \/ \E d \in Devices : GoogleLock(p, d)
  PROVE  UNCHANGED vars \/ \E r \in Request : Places(p, r)
<1> USE DEF AccountInv, AccountTypeOK, TypeOK
<1>1. CASE RightCode(p)
  <2> DEFINE r == [Idle EXCEPT !.at = "changePassword"]
  <2>1. r \in Request /\ r.at = "changePassword" /\ r.rows = {}
    BY DEF Idle, Request, Steps
  <2>2. CASE form[p].type = "PASSWORD_RESET"
    <3>1. Places(p, r)
      BY <1>1, <2>1, <2>2 DEF RightCode, Places
    <3> QED
      BY <2>1, <3>1
  <2>3. CASE form[p].type # "PASSWORD_RESET"
    BY <1>1, <2>3 DEF RightCode, vars
  <2> QED
    BY <2>2, <2>3
<1>2. CASE VerifyLock(p)
  <2> DEFINE r == [Idle EXCEPT !.at = "mint", !.device = form[p].device,
                               !.version = form[p].version, !.password = password]
  <2>1. form[p] \in Form /\ form[p].device \in Devices /\ form[p].version <= tokenVersion
    BY <1>2 DEF VerifyLock, FormInv
  <2>2. r \in Request /\ r.at = "mint" /\ r.device = form[p].device
        /\ r.version = form[p].version /\ r.family = 0 /\ r.rows = {}
    BY <2>1 DEF Idle, Request, Steps, Form
  <2>3. req' = [req EXCEPT ![p] = r]
        /\ UNCHANGED <<userVars, rowVars, tokenVars, terminations>>
    BY <1>2 DEF VerifyLock
  <2> HIDE DEF r
  <2> QED
    BY <2>1, <2>2, <2>3 DEF Places
<1>3. CASE AccountFail(p)
  <2>1. Places(p, Idle)
    BY <1>3 DEF AccountFail, Places, Idle
  <2> QED
    BY <2>1, IdleType
<1>4. ASSUME NEW d \in Devices, GoogleLock(p, d)
      PROVE  \E r \in Request : Places(p, r)
  <2> DEFINE r == [Idle EXCEPT !.at = "mint", !.device = d,
                               !.version = tokenVersion, !.password = password]
  <2>1. r \in Request /\ r.at = "mint" /\ r.device = d /\ r.version = tokenVersion
        /\ r.family = 0 /\ r.rows = {}
    BY DEF Idle, Request, Steps
  <2>2. req' = [req EXCEPT ![p] = r]
        /\ UNCHANGED <<userVars, rowVars, tokenVars, terminations>>
    BY <1>4 DEF GoogleLock
  <2>3. tokenVersion <= tokenVersion
    OBVIOUS
  <2> HIDE DEF r
  <2> QED
    BY <2>1, <2>2, <2>3 DEF Places
<1> QED
  BY <1>1, <1>2, <1>3, <1>4

\* Every step of the account is a step of its sessions or one of the others.
LEMMA StepKinds ==
  ASSUME AccountInv, [AccountNext]_accountVars
  PROVE  \/ [Next]_vars
         \/ Rewrites
         \/ \E p \in Reqs : Opens(p) \/ \E r \in Request : Places(p, r)
<1>1. ASSUME NEW p \in Reqs,
             \/ SignupRead(p) \/ RequestRead(p) \/ RequestCommit(p)
             \/ \E d \in Devices : VerifyRead(p, d)
             \/ ResetRead(p) \/ WrongCode(p) \/ StatusRead(p)
      PROVE  UNCHANGED vars
  BY <1>1 DEF SignupRead, RequestRead, RequestCommit, VerifyRead, ResetRead,
              ReadAccount, WrongCode, StatusRead
<1>2. ASSUME NEW p \in Reqs, SignupCommit(p)
      PROVE  Rewrites
  BY <1>2 DEF SignupCommit, Rewrites, Statuses, AccountInv, AccountTypeOK, TypeOK
<1>3. CASE AdminCreate
  BY <1>3 DEF AdminCreate, Rewrites, Statuses
<1>4. ASSUME NEW p \in Reqs, VerifyCommit(p) \/ GoogleCommit(p)
      PROVE  Opens(p)
  BY <1>4 DEF VerifyCommit, GoogleCommit, Opens
<1>5. ASSUME NEW p \in Reqs,
             \/ RightCode(p) \/ VerifyLock(p) \/ AccountFail(p)
             \/ \E d \in Devices : GoogleLock(p, d)
      PROVE  UNCHANGED vars \/ \E r \in Request : Places(p, r)
  BY <1>5, PlacingActions
<1>6. CASE SessionLapse \/ UNCHANGED accountVars \/ \E type \in OtpTypes : OtpExpires(type)
  BY <1>6 DEF SessionLapse, Next, accountVars, OtpExpires
<1>7. ASSUME NEW p \in Reqs,
             \/ SessionStep(p) \/ SessionMint(p)
             \/ ResetLock(p) \/ ResetCommit(p) \/ StatusCommit(p)
      PROVE  Next
  BY <1>7, SessionActions
<1> QED
  BY <1>1, <1>2, <1>3, <1>4, <1>5, <1>6, <1>7 DEF AccountNext

\* The part of the invariant that is about the sessions.
LEMMA SessionPartStep ==
  ASSUME AccountInv, [AccountNext]_accountVars
  PROVE  TypeOK' /\ DeviceInv' /\ VersionInv' /\ JtiInv'
<1>0. TypeOK /\ DeviceInv /\ VersionInv /\ JtiInv
  BY DEF AccountInv, AccountTypeOK
<1>1. CASE [Next]_vars
  BY <1>0, <1>1, TypeStep, VersionStep, JtiStep
<1>2. CASE Rewrites
  <2>1. TypeOK' /\ DeviceInv'
    BY <1>0, <1>2 DEF Rewrites, TypeOK, DeviceInv, rowVars, tokenVars
  <2>2. VersionInv' /\ JtiInv'
    BY <1>0, <1>2 DEF Rewrites, VersionInv, InTx, JtiInv, tokenVars
  <2> QED
    BY <2>1, <2>2
<1>3. ASSUME NEW p \in Reqs, NEW r \in Request, Places(p, r)
      PROVE  TypeOK' /\ DeviceInv' /\ VersionInv' /\ JtiInv'
  <2>1. /\ req' = [req EXCEPT ![p] = r] /\ req'[p] = r
        /\ \A q \in Reqs \ {p} : req'[q] = req[q]
        /\ UNCHANGED <<userVars, rowVars, tokenVars, terminations>>
    BY <1>0, <1>3 DEF Places, TypeOK
  <2>2. /\ r.at = "mint" => r.device \in Devices /\ r.version <= tokenVersion
        /\ r.at \notin {"lookup", "write", "logout"}
    BY <1>3 DEF Places
  <2>3. TypeOK' /\ DeviceInv'
    BY <1>0, <2>1, <2>2 DEF TypeOK, DeviceInv, userVars, rowVars, tokenVars
  <2>4. VersionInv' /\ JtiInv'
    BY <1>0, <2>1, <2>2 DEF VersionInv, InTx, JtiInv, userVars, tokenVars
  <2> QED
    BY <2>3, <2>4
<1>4. ASSUME NEW p \in Reqs, Opens(p)
      PROVE  TypeOK' /\ DeviceInv' /\ VersionInv' /\ JtiInv'
  <2>1. TypeOK' /\ DeviceInv'
    BY <1>0, <1>4, SaveTypes DEF Opens, TypeOK, Statuses
  <2>2. JtiInv'
    BY <1>0, <1>4, SaveJti DEF Opens
  <2>3. VersionInv'
    BY <1>0, <1>4 DEF Opens, SaveSession, Idle, VersionInv, InTx, TypeOK
  <2> QED
    BY <2>1, <2>2, <2>3
<1> QED
  BY <1>1, <1>2, <1>3, <1>4, StepKinds

\* The rows that only the account has.
LEMMA AccountPartStep ==
  ASSUME AccountInv, [AccountNext]_accountVars
  PROVE  /\ role' \in Roles
         /\ otp' \in [OtpTypes -> OtpRow]
         /\ codes' \in 0 .. MaxCodes
         /\ redeemed' \in [1 .. MaxCodes -> Nat]
         /\ form' \in [Reqs -> Form]
<1>0. /\ role \in Roles /\ otp \in [OtpTypes -> OtpRow] /\ codes \in 0 .. MaxCodes
      /\ redeemed \in [1 .. MaxCodes -> Nat] /\ form \in [Reqs -> Form]
      /\ status \in Statuses /\ tokenVersion \in Nat /\ password \in Nat
  BY DEF AccountInv, AccountTypeOK, TypeOK
<1>f. NoForm \in Form
  BY DEF NoForm, Form, OtpTypes, Statuses
<1>1. ASSUME NEW type \in OtpTypes, NEW pw \in Nat, NewCode(type, pw)
      PROVE  otp' \in [OtpTypes -> OtpRow] /\ codes' \in 0 .. MaxCodes
  <2> DEFINE row == [NoOtpRow EXCEPT !.code = codes + 1, !.password = pw]
  <2>1. codes \in Nat /\ codes + 1 \in Nat
    BY <1>0, AccountAssumptions
  <2>2. NoOtpRow \in OtpRow
    BY DEF NoOtpRow, OtpRow
  <2>3. row \in OtpRow
    BY <2>1, <2>2 DEF OtpRow
  <2>4. codes < MaxCodes /\ codes' = codes + 1 /\ otp' = [otp EXCEPT ![type] = row]
    BY <1>1 DEF NewCode
  <2> HIDE DEF row
  <2> QED
    BY <1>0, <2>3, <2>4, AccountAssumptions
<1>2. ASSUME NEW p \in Reqs, NEW f \in Form, Advance(p, f)
      PROVE  /\ form' \in [Reqs -> Form]
             /\ UNCHANGED <<role, otp, codes, redeemed>>
  BY <1>0, <1>2
<1>3. ASSUME NEW p \in Reqs, Spend(p)
      PROVE  /\ otp' \in [OtpTypes -> OtpRow] /\ codes' \in 0 .. MaxCodes
             /\ redeemed' \in [1 .. MaxCodes -> Nat] /\ form' \in [Reqs -> Form]
  <2>1. /\ otp' = [otp EXCEPT ![form[p].type].used = TRUE]
        /\ redeemed' = [redeemed EXCEPT ![form[p].code] = @ + 1]
        /\ form' = [form EXCEPT ![p] = NoForm] /\ codes' = codes
    BY <1>3 DEF Spend
  <2>2. otp' \in [OtpTypes -> OtpRow]
    <3>1. \A a \in OtpTypes : [otp[a] EXCEPT !.used = TRUE] \in OtpRow
      BY <1>0 DEF OtpRow
    <3>2. otp' = [otp EXCEPT ![form[p].type] = [otp[form[p].type] EXCEPT !.used = TRUE]]
      BY <2>1
    <3>3. form[p].type \in OtpTypes
      BY <1>0 DEF Form
    <3> QED
      BY <1>0, <3>1, <3>2, <3>3
  <2>3. redeemed' \in [1 .. MaxCodes -> Nat]
    <3>1. \A c \in 1 .. MaxCodes : redeemed[c] + 1 \in Nat
      BY <1>0
    <3>2. redeemed' = [redeemed EXCEPT ![form[p].code] = redeemed[form[p].code] + 1]
      BY <2>1
    <3> QED
      BY <1>0, <3>1, <3>2
  <2>4. form' \in [Reqs -> Form]
    BY <1>0, <1>f, <2>1
  <2> QED
    BY <1>0, <2>1, <2>2, <2>3, <2>4
<1>4. ASSUME NEW p \in Reqs,
             SessionStep(p) \/ SessionMint(p)
      PROVE  UNCHANGED <<role, otp, codes, redeemed, form>>
  BY <1>4 DEF SessionStep, SessionMint
<1>5. ASSUME NEW p \in Reqs,
             \/ SignupRead(p) \/ RequestRead(p) \/ StatusRead(p)
             \/ AccountFail(p) \/ StatusCommit(p)
             \/ \E d \in Devices : GoogleLock(p, d)
      PROVE  \E f \in Form : Advance(p, f)
  <2>1. /\ [NoForm EXCEPT !.at = "signup", !.saw = status] \in Form
        /\ [NoForm EXCEPT !.at = "request"] \in Form
        /\ [NoForm EXCEPT !.at = "status"] \in Form
        /\ [NoForm EXCEPT !.at = "google"] \in Form
    BY <1>0, <1>f DEF NoForm, Form
  <2> HIDE DEF Advance
  <2> QED
    BY <1>5, <1>f, <2>1
       DEF SignupRead, RequestRead, StatusRead, AccountFail, StatusCommit, GoogleLock
<1>6. ASSUME NEW p \in Reqs, NEW type \in OtpTypes, NEW d \in Devices \cup {NoDevice},
             ReadAccount(p, type, d)
      PROVE  \E f \in Form : Advance(p, f)
  <2> DEFINE stale == IF otp[type].expired THEN otp[type].code ELSE 0
             f == [NoForm EXCEPT !.at = "read", !.type = type, !.device = d,
                                 !.version = tokenVersion, !.stale = stale]
  <2>1. stale \in Nat
    BY <1>0 DEF OtpRow
  <2>2. Advance(p, f)
    BY <1>6 DEF ReadAccount
  <2> HIDE DEF stale, Advance
  <2>3. f \in Form
    BY <1>0, <2>1 DEF NoForm, Form, Statuses
  <2> QED
    BY <2>2, <2>3
<1>7. ASSUME NEW p \in Reqs,
             RightCode(p) \/ WrongCode(p) \/ VerifyLock(p) \/ ResetLock(p)
      PROVE  \E f \in Form : Advance(p, f)
  <2>1. form[p] \in Form /\ form[p].type \in OtpTypes
    BY <1>0 DEF Form
  <2>2. otp[form[p].type].code \in Nat
    BY <1>0, <2>1 DEF OtpRow
  <2>3. /\ [form[p] EXCEPT !.at = "wrong"] \in Form
        /\ [form[p] EXCEPT !.at = "locked"] \in Form
        /\ [form[p] EXCEPT !.at = "compared", !.code = otp[form[p].type].code] \in Form
    BY <2>1, <2>2 DEF Form
  <2> HIDE DEF Advance
  <2> QED
    BY <1>7, <2>3 DEF RightCode, WrongCode, VerifyLock, ResetLock
<1>8. ASSUME NEW p \in Reqs, SignupCommit(p)
      PROVE  /\ otp' \in [OtpTypes -> OtpRow] /\ codes' \in 0 .. MaxCodes
             /\ form' \in [Reqs -> Form] /\ UNCHANGED <<role, redeemed>>
  BY <1>0, <1>1, <1>f, <1>8 DEF SignupCommit, OtpTypes
<1>9. ASSUME NEW p \in Reqs, RequestCommit(p)
      PROVE  /\ otp' \in [OtpTypes -> OtpRow] /\ codes' \in 0 .. MaxCodes
             /\ form' \in [Reqs -> Form] /\ UNCHANGED <<role, redeemed>>
  BY <1>0, <1>1, <1>f, <1>9 DEF RequestCommit, OtpTypes
<1>10. ASSUME NEW p \in Reqs, VerifyCommit(p) \/ ResetCommit(p)
       PROVE  Spend(p) /\ UNCHANGED role
  BY <1>10 DEF VerifyCommit, ResetCommit
<1>11. ASSUME NEW p \in Reqs, GoogleCommit(p)
       PROVE  /\ role' \in Roles /\ form' \in [Reqs -> Form]
              /\ UNCHANGED <<otp, codes, redeemed>>
  BY <1>0, <1>f, <1>11 DEF GoogleCommit, Roles
<1>12. CASE AdminCreate
  BY <1>0, <1>12 DEF AdminCreate, Roles
<1>13. ASSUME NEW type \in OtpTypes, OtpExpires(type)
       PROVE  /\ otp' \in [OtpTypes -> OtpRow]
              /\ UNCHANGED <<role, codes, redeemed, form>>
  BY <1>0, <1>13 DEF OtpExpires, OtpRow
<1>14. CASE SessionLapse \/ UNCHANGED accountVars
  BY <1>0, <1>14 DEF SessionLapse, accountVars
<1>15. ASSUME NEW p \in Reqs, ResetRead(p) \/ \E d \in Devices : VerifyRead(p, d)
       PROVE  \E f \in Form : Advance(p, f)
  BY <1>6, <1>15 DEF ResetRead, VerifyRead, OtpTypes
<1> HIDE DEF Advance
<1>16. ASSUME NEW p \in Reqs, \E f \in Form : Advance(p, f)
       PROVE  /\ form' \in [Reqs -> Form]
              /\ UNCHANGED <<role, otp, codes, redeemed>>
  BY <1>2, <1>16
<1> QED
  BY <1>0, <1>3, <1>4, <1>5, <1>7, <1>8, <1>9, <1>10, <1>11, <1>12, <1>13, <1>14,
     <1>15, <1>16 DEF AccountNext

LEMMA FormStep ==
  ASSUME AccountInv, [AccountNext]_accountVars
  PROVE  FormInv'
<1>0. /\ form \in [Reqs -> Form] /\ tokenVersion \in Nat /\ FormInv
      /\ \A p \in Reqs : form[p].version \in Nat
  BY DEF AccountInv, AccountTypeOK, TypeOK, Form
<1>n. NoForm.at = "idle" /\ NoForm.version = 0
  BY DEF NoForm
<1>1. tokenVersion' \in Nat /\ tokenVersion <= tokenVersion'
  <2>1. CASE [Next]_vars
    <3>1. tokenVersion' = tokenVersion \/ tokenVersion' = tokenVersion + 1
      BY <2>1
         DEF Next, LoginRead, RotateReadUser, RotateBreach, RotateAccept,
             SignTokens, StartLogout, StartLogoutAll, StartChangePassword,
             StartGuarded, CheckOldPassword, Logout, LogoutAll, ChangePassword,
             LogoutTokens, LogoutAllTokens, ChangePasswordTokens, TakeRows,
             Fail, ChangeStatus, Lapse, CommitSession, NewVersion, vars, userVars
    <3> QED
      BY <1>0, <3>1
  <2>2. CASE \/ Rewrites
             \/ \E p \in Reqs : Opens(p) \/ \E r \in Request : Places(p, r)
    BY <1>0, <2>2 DEF Rewrites, Opens, Places, userVars
  <2> QED
    BY <2>1, <2>2, StepKinds
<1>2. ASSUME NEW p \in Reqs, NEW f, form' = [form EXCEPT ![p] = f],
             \/ f.at \notin {"read", "compared", "locked"} /\ f.version = 0
             \/ /\ f.version = form[p].version /\ f.device = form[p].device
                /\ f.type = form[p].type
                /\ f.at \in {"read", "compared", "locked"}
                   => form[p].at \in {"read", "compared", "locked"}
             \/ /\ f.version = tokenVersion
                /\ f.type = "EMAIL_VERIFY" => f.device \in Devices
      PROVE  FormInv'
  <2>1. \A q \in Reqs \ {p} : form'[q] = form[q]
    BY <1>0, <1>2
  <2>2. form'[p] = f
    BY <1>0, <1>2
  <2>3. form[p].version <= tokenVersion' /\ tokenVersion <= tokenVersion'
    BY <1>0, <1>1 DEF FormInv
  <2>4. \A q \in Reqs : form[q].version <= tokenVersion'
    BY <1>0, <1>1 DEF FormInv
  <2> QED
    BY <1>0, <1>1, <1>2, <2>1, <2>2, <2>3, <2>4 DEF FormInv
<1>3. CASE UNCHANGED form
  BY <1>0, <1>1, <1>3 DEF FormInv
<1>4. ASSUME NEW p \in Reqs,
             \/ SignupRead(p) \/ RequestRead(p) \/ StatusRead(p)
             \/ \E d \in Devices : GoogleLock(p, d)
      PROVE  FormInv'
  <2>1. CASE SignupRead(p)
    BY <1>2, <2>1 DEF SignupRead, NoForm
  <2>2. CASE RequestRead(p)
    BY <1>2, <2>2 DEF RequestRead, NoForm
  <2>3. CASE StatusRead(p)
    BY <1>2, <2>3 DEF StatusRead, NoForm
  <2>4. ASSUME NEW d \in Devices, GoogleLock(p, d)
        PROVE  FormInv'
    BY <1>2, <2>4 DEF GoogleLock, NoForm
  <2> QED
    BY <1>4, <2>1, <2>2, <2>3, <2>4
<1>5. ASSUME NEW p \in Reqs,
             \/ SignupCommit(p) \/ RequestCommit(p) \/ VerifyCommit(p)
             \/ ResetCommit(p) \/ GoogleCommit(p) \/ StatusCommit(p) \/ AccountFail(p)
      PROVE  FormInv'
  <2>1. form' = [form EXCEPT ![p] = NoForm]
    BY <1>5 DEF SignupCommit, RequestCommit, VerifyCommit, ResetCommit,
                GoogleCommit, StatusCommit, AccountFail, Spend
  <2> QED
    BY <1>2, <1>n, <2>1
<1>6. ASSUME NEW p \in Reqs, ResetRead(p) \/ \E d \in Devices : VerifyRead(p, d)
      PROVE  FormInv'
  <2>1. PICK type, d : /\ ReadAccount(p, type, d)
                       /\ type = "EMAIL_VERIFY" => d \in Devices
    BY <1>6 DEF ResetRead, VerifyRead
  <2> DEFINE stale == IF otp[type].expired THEN otp[type].code ELSE 0
             f == [NoForm EXCEPT !.at = "read", !.type = type, !.device = d,
                                 !.version = tokenVersion, !.stale = stale]
  <2>2. form' = [form EXCEPT ![p] = f]
    BY <2>1 DEF ReadAccount
  <2>3. f.version = tokenVersion /\ f.type = type /\ f.device = d
    BY DEF NoForm
  <2> HIDE DEF f
  <2> QED
    BY <1>2, <2>1, <2>2, <2>3
<1>7. ASSUME NEW p \in Reqs,
             RightCode(p) \/ WrongCode(p) \/ VerifyLock(p) \/ ResetLock(p)
      PROVE  FormInv'
  <2>1. form[p] \in Form /\ form[p].at \in {"read", "compared"}
    BY <1>0, <1>7 DEF RightCode, WrongCode, VerifyLock, ResetLock
  <2>2. CASE RightCode(p)
    <3> DEFINE f == [form[p] EXCEPT !.at = "compared", !.code = otp[form[p].type].code]
    <3>1. f.version = form[p].version /\ f.type = form[p].type /\ f.device = form[p].device
      BY <2>1 DEF Form
    <3>2. form' = [form EXCEPT ![p] = f] /\ form[p].at = "read"
      BY <2>2 DEF RightCode
    <3> HIDE DEF f
    <3> QED
      BY <1>2, <3>1, <3>2
  <2>3. CASE WrongCode(p)
    <3> DEFINE f == [form[p] EXCEPT !.at = "wrong"]
    <3>1. f.version = form[p].version /\ f.type = form[p].type /\ f.device = form[p].device
      BY <2>1 DEF Form
    <3>2. form' = [form EXCEPT ![p] = f] /\ form[p].at = "read"
      BY <2>3 DEF WrongCode
    <3> HIDE DEF f
    <3> QED
      BY <1>2, <3>1, <3>2
  <2>4. CASE VerifyLock(p) \/ ResetLock(p)
    <3> DEFINE f == [form[p] EXCEPT !.at = "locked"]
    <3>1. f.version = form[p].version /\ f.type = form[p].type /\ f.device = form[p].device
      BY <2>1 DEF Form
    <3>2. form' = [form EXCEPT ![p] = f] /\ form[p].at = "compared"
      BY <2>4 DEF VerifyLock, ResetLock
    <3> HIDE DEF f
    <3> QED
      BY <1>2, <3>1, <3>2
  <2> QED
    BY <1>7, <2>2, <2>3, <2>4
<1>8. ASSUME NEW p \in Reqs, SessionStep(p) \/ SessionMint(p)
      PROVE  UNCHANGED form
  BY <1>8 DEF SessionStep, SessionMint
<1>9. CASE \/ AdminCreate \/ SessionLapse \/ UNCHANGED accountVars
           \/ \E type \in OtpTypes : OtpExpires(type)
  BY <1>3, <1>9 DEF AdminCreate, SessionLapse, accountVars, OtpExpires
<1> QED
  BY <1>3, <1>4, <1>5, <1>6, <1>7, <1>8, <1>9 DEF AccountNext

LEMMA AccountInitInv == AccountInit => AccountInv
<1> SUFFICES ASSUME AccountInit
             PROVE  AccountInv
  OBVIOUS
<1>1. TypeOK /\ DeviceInv
  BY IdleType DEF AccountInit, TypeOK, Statuses, DeviceInv, NoRefreshRow, NoSessionRow,
                  RefreshRow, SessionRow, Idle
<1>2. AccountTypeOK
  BY <1>1, AccountAssumptions
     DEF AccountInit, AccountTypeOK, Roles, OtpTypes, OtpRow, NoOtpRow, Form, NoForm, Statuses
<1>3. VersionInv /\ JtiInv
  BY SessionAssumptions DEF AccountInit, VersionInv, InTx, JtiInv, Idle
<1>4. FormInv
  BY DEF AccountInit, FormInv, NoForm
<1> QED
  BY <1>1, <1>2, <1>3, <1>4 DEF AccountInv

\* Sessions, codes and handlers stay consistent, whatever overlaps.
THEOREM AccountInvariant == AccountSpec => []AccountInv
<1>1. AccountInv /\ [AccountNext]_accountVars => AccountInv'
  BY SessionPartStep, AccountPartStep, FormStep DEF AccountInv, AccountTypeOK
<1> QED
  BY AccountInitInv, <1>1, PTL DEF AccountSpec

\* Every variable of the account and its sessions keeps its type.
THEOREM AccountTypeCorrect == AccountSpec => []AccountTypeOK
<1>1. AccountInv => AccountTypeOK
  BY DEF AccountInv
<1> QED
  BY AccountInvariant, <1>1, PTL

-----------------------------------------------------------------------------
(* The account's sessions implement their contract.                        *)

\* Signup, verification, reset, Google login and administrators leave the
\* contract alone, or do what a handler of the sessions does.
LEMMA AccountContractStep ==
  ASSUME AccountInv, [AccountNext]_accountVars
  PROVE  [Contract!ContractNext]_Contract!contractVars
<1>0. TypeOK /\ DeviceInv /\ VersionInv /\ JtiInv
  BY DEF AccountInv, AccountTypeOK
<1>1. CASE [Next]_vars
  BY <1>0, <1>1, ContractStep
<1>2. CASE Rewrites
  BY <1>2 DEF Rewrites, Contract!contractVars, Vouched, tokenVars
<1>3. ASSUME NEW p \in Reqs, NEW r \in Request, Places(p, r)
      PROVE  [Contract!ContractNext]_Contract!contractVars
  BY <1>0, <1>3, HandlerStep DEF Places, userVars, tokenVars
<1>4. ASSUME NEW p \in Reqs, Opens(p)
      PROVE  Contract!ContractNext
  BY <1>0, <1>4, CommitStep DEF Opens
<1> QED
  BY <1>1, <1>2, <1>3, <1>4, StepKinds

\* Also while accounts are created, verified, reset and changed by
\* administrators, tokens are accepted from their grant to the next
\* termination, and no dead token returns.
THEOREM AccountImplementsContract == AccountSpec => ImplementsContract
<1>1. AccountInit => Contract!ContractInit
  BY DEF AccountInit, Contract!ContractInit, Vouched, Idle
<1>2. AccountInv /\ [AccountNext]_accountVars
      => [Contract!ContractNext]_Contract!contractVars
  BY AccountContractStep
<1> QED
  BY <1>1, <1>2, AccountInvariant, PTL
     DEF AccountSpec, ImplementsContract, Contract!ContractSpec
-----------------------------------------------------------------------------
(* What the sessions promise, next to the other handlers of the account.   *)

\* Rows, revocations and families, through every step of the account.
RowsAndFamilies == RowsInv /\ ListedSessionHasToken /\ FamilyInv

LEMMA RowsAndFamiliesStep ==
  ASSUME AccountInv, RowsAndFamilies, [AccountNext]_accountVars
  PROVE  RowsAndFamilies'
<1>0. /\ TypeOK /\ DeviceInv /\ VersionInv /\ JtiInv
      /\ RowsInv /\ ListedSessionHasToken /\ FamilyInv
      /\ req \in [Reqs -> Request]
  BY DEF AccountInv, AccountTypeOK, RowsAndFamilies, TypeOK
<1>1. CASE [Next]_vars
  BY <1>0, <1>1, RowsInvStep, ListedStep, FamilyStep DEF RowsAndFamilies
<1>2. CASE Rewrites
  BY <1>0, <1>2
     DEF Rewrites, RowsAndFamilies, RowsInv, Targets, ListedSessionHasToken,
         FamilyInv, FamilyIsOneLogin, InTx, rowVars, tokenVars
<1>3. ASSUME NEW p \in Reqs, NEW r \in Request, Places(p, r)
      PROVE  RowsAndFamilies'
  <2>1. /\ req'[p] = r /\ \A q \in Reqs \ {p} : req'[q] = req[q]
        /\ UNCHANGED <<rowVars, tokenVars>> /\ r.rows = {}
        /\ r.at \in {"lookup", "mint", "write"} => r.at = "mint" /\ r.family = 0
    BY <1>0, <1>3 DEF Places
  <2>2. RowsInv'
    BY <1>0, <2>1 DEF RowsInv, Targets
  <2>3. ListedSessionHasToken'
    BY <1>0, <2>1 DEF ListedSessionHasToken, rowVars
  <2>4. FamilyInv'
    BY <1>0, <2>1 DEF FamilyInv, FamilyIsOneLogin, InTx, tokenVars
  <2> QED
    BY <2>2, <2>3, <2>4 DEF RowsAndFamilies
<1>4. ASSUME NEW p \in Reqs, Opens(p)
      PROVE  RowsAndFamilies'
  <2>1. SaveSession(p) /\ req' = [req EXCEPT ![p] = Idle]
    BY <1>4 DEF Opens, SaveSession
  <2>2. RowsInv'
    BY <1>0, <2>1 DEF RowsInv, Targets, Idle
  <2> QED
    BY <1>0, <2>1, <2>2, SaveKeepsListed, FamilyCommit DEF RowsAndFamilies
<1> QED
  BY <1>1, <1>2, <1>3, <1>4, StepKinds

\* Rows and families stay sound next to signup, verification, reset, Google
\* login and administrators.
THEOREM RowsAndFamiliesAlways == AccountSpec => []RowsAndFamilies
<1>1. AccountInit => RowsAndFamilies
  <2>1. ASSUME AccountInit, NEW d \in Devices
        PROVE  /\ refreshRow[d].jti = 0
               /\ sessionRow[d].sid = 0 /\ sessionRow[d].active = FALSE
    BY <2>1 DEF AccountInit, NoRefreshRow, NoSessionRow
  <2>2. AccountInit => RowsInv /\ FamilyInv
    BY DEF AccountInit, RowsInv, FamilyInv, FamilyIsOneLogin, InTx, Idle
  <2> QED
    BY <2>1, <2>2 DEF RowsAndFamilies, ListedSessionHasToken
<1> QED
  BY <1>1, RowsAndFamiliesStep, AccountInvariant, PTL DEF AccountSpec

\* A session that is listed has the unrevoked token it names, also when a
\* verification, a reset or a Google login writes between the statements of a
\* revocation.
THEOREM AccountListedSessionHasToken == AccountSpec => []ListedSessionHasToken
<1>1. RowsAndFamilies => ListedSessionHasToken
  BY DEF RowsAndFamilies
<1> QED
  BY <1>1, RowsAndFamiliesAlways, PTL

\* The tokens of a family come from one login, verification or Google login.
THEOREM AccountFamilyIsOneLogin == AccountSpec => []FamilyIsOneLogin
<1>1. RowsAndFamilies => FamilyIsOneLogin
  BY DEF RowsAndFamilies, FamilyInv
<1> QED
  BY <1>1, RowsAndFamiliesAlways, PTL

\* A refresh token that was replaced on its device stays replaced, whichever
\* handler of the account writes later.
THEOREM AccountSupersededStaysDead == AccountSpec => SupersededStaysDead
<1>1. ASSUME AccountInv, [AccountNext]_accountVars,
             NEW t \in tokens, refreshRow[t.device].jti # t.jti
      PROVE  refreshRow'[t.device].jti # t.jti
  <2>0. TypeOK /\ JtiInv
    BY <1>1 DEF AccountInv, AccountTypeOK
  <2>1. CASE [Next]_vars
    BY <1>1, <2>0, <2>1, SupersededStep
  <2>2. CASE Rewrites \/ \E p \in Reqs, r \in Request : Places(p, r)
    BY <1>1, <2>2 DEF Rewrites, Places, rowVars
  <2>3. ASSUME NEW p \in Reqs, Opens(p)
        PROVE  refreshRow'[t.device].jti # t.jti
    BY <1>1, <2>0, <2>3, SaveSupersedes DEF Opens
  <2> QED
    BY <1>1, <2>1, <2>2, <2>3, StepKinds
<1>2. AccountInv /\ [AccountNext]_accountVars
      => [\A t \in tokens : ~Current(t) => ~Current(t)']_vars
  BY <1>1 DEF Current
<1> QED
  BY <1>2, AccountInvariant, PTL DEF AccountSpec, SupersededStaysDead

\* Through the contract: a pair the API no longer accepts is never accepted
\* again, whatever happens to the account.
THEOREM AccountDeadStaysDead == AccountSpec => Contract!DeadStaysDead
BY AccountImplementsContract, ContractDeadStaysDead, PTL
   DEF ImplementsContract, Contract!ContractSpec, Contract!DeadStaysDead

-----------------------------------------------------------------------------
(* One request at a time.                                                  *)

\* What a handler of the sessions does to the account: a password is changed
\* only in the step that the status was checked for.
LEMMA SessionEffect ==
  ASSUME TypeOK, NEW p \in Reqs, SessionStep(p) \/ SessionMint(p)
  PROVE  /\ UNCHANGED <<role, otp, codes, redeemed, form>>
         /\ status' = status
         /\ form[p].at = "idle" \/ req[p].at = "mint"
         /\ password' = password \/ (form[p].at = "idle" /\ req[p].at = "endChange")
         /\ req'[p].at \in {"changePassword", "endChange"}
            => status = "ACTIVE" \/ req[p].at = "changePassword"
<1>0. req[p] \in Request /\ req \in [Reqs -> Request]
  BY DEF TypeOK
<1> DEFINE Checked == req'[p].at \in {"changePassword", "endChange"}
                      => status = "ACTIVE" \/ req[p].at = "changePassword"
           Keeps == status' = status /\ password' = password /\ Checked
<1>s. ASSUME NEW r, req' = [req EXCEPT ![p] = r], UNCHANGED userVars,
             r.at \in {"changePassword", "endChange"}
             => status = "ACTIVE" \/ req[p].at = "changePassword"
      PROVE  Keeps
  BY <1>0, <1>s DEF userVars
<1> HIDE DEF Keeps, Checked
<1>1. CASE SessionStep(p)
  <2>1. UNCHANGED <<role, otp, codes, redeemed, form>> /\ form[p].at = "idle"
    BY <1>1 DEF SessionStep
  <2>2. ASSUME NEW d \in Devices, LoginRead(p, d)
        PROVE  Keeps
    <3> DEFINE r == [Idle EXCEPT !.at = "mint", !.device = d,
                                 !.version = tokenVersion, !.password = password]
    <3>1. r.at = "mint"
      BY DEF Idle
    <3>2. req' = [req EXCEPT ![p] = r] /\ UNCHANGED userVars
      BY <2>2 DEF LoginRead
    <3> HIDE DEF r
    <3> QED
      BY <1>s, <2>2, <3>1, <3>2
  <2>3. ASSUME NEW t \in tokens, RotateReadUser(p, t)
        PROVE  Keeps
    <3> DEFINE r == [Idle EXCEPT !.at = "lookup", !.device = t.device,
                                 !.version = tokenVersion, !.password = t.password,
                                 !.family = t.family, !.parent = t.jti]
    <3>1. r.at = "lookup"
      BY DEF Idle
    <3>2. req' = [req EXCEPT ![p] = r] /\ UNCHANGED userVars
      BY <2>3 DEF RotateReadUser
    <3> HIDE DEF r
    <3> QED
      BY <1>s, <2>3, <3>1, <3>2
  <2>4. ASSUME NEW step, NEW d, StartGuarded(p, step, d),
               step \notin {"changePassword", "endChange"}
        PROVE  Keeps
    <3> DEFINE r == [Idle EXCEPT !.at = step, !.device = d]
    <3>1. r.at = step
      BY DEF Idle
    <3>2. req' = [req EXCEPT ![p] = r] /\ UNCHANGED userVars
      BY <2>4 DEF StartGuarded
    <3> HIDE DEF r
    <3> QED
      BY <1>s, <2>4, <3>1, <3>2
  <2>5. ASSUME RotateBreach(p) \/ RotateAccept(p)
        PROVE  Keeps
    <3> DEFINE r(at) == [req[p] EXCEPT !.at = at]
    <3>1. (req' = [req EXCEPT ![p] = r("breach")] \/ req' = [req EXCEPT ![p] = r("mint")])
          /\ UNCHANGED userVars
      BY <2>5 DEF RotateBreach, RotateAccept
    <3>2. r("breach").at = "breach" /\ r("mint").at = "mint"
      BY <1>0 DEF Request
    <3> HIDE DEF r
    <3> QED
      BY <1>s, <3>1, <3>2
  <2>6. ASSUME CheckOldPassword(p)
        PROVE  Keeps
    <3> DEFINE r == [req[p] EXCEPT !.at = "changePassword", !.password = password]
    <3>1. req' = [req EXCEPT ![p] = r] /\ status = "ACTIVE" /\ UNCHANGED userVars
      BY <2>6 DEF CheckOldPassword
    <3> HIDE DEF r
    <3> QED
      BY <1>s, <3>1
  <2>7. ASSUME NEW from, NEW to, TakeRows(p, from, to),
               to = "endChange" => from = "changePassword", to # "changePassword"
        PROVE  Keeps
    <3> DEFINE found == {d \in Targets(p) : refreshRow[d].jti > 0}
               r == [req[p] EXCEPT !.at = to, !.rows = found]
    <3>1. req' = [req EXCEPT ![p] = r] /\ req[p].at = from /\ UNCHANGED userVars
      BY <2>7 DEF TakeRows
    <3>2. r.at = to
      BY <1>0 DEF Request
    <3> HIDE DEF r, found
    <3> QED
      BY <1>s, <2>7, <3>1, <3>2
  <2>8. ASSUME CommitSession(p) \/ Logout(p) \/ LogoutAll(p)
        PROVE  Keeps
    <3>1. req' = [req EXCEPT ![p] = Idle] /\ status' = status /\ password' = password
      BY <2>8 DEF CommitSession, SaveSession, Logout, LogoutAll, userVars
    <3>2. req'[p].at = "idle"
      BY <1>0, <3>1 DEF Idle
    <3> QED
      BY <3>1, <3>2 DEF Keeps, Checked
  <2>9. CASE ChangePassword(p)
    <3>1. req' = [req EXCEPT ![p] = Idle] /\ status' = status /\ req[p].at = "endChange"
      BY <2>9 DEF ChangePassword
    <3>2. req'[p].at = "idle"
      BY <1>0, <3>1 DEF Idle
    <3> QED
      BY <2>1, <3>1, <3>2
  <2>10. ASSUME LogoutTokens(p) \/ LogoutAllTokens(p) \/ ChangePasswordTokens(p)
        PROVE  Keeps
    BY <2>7, <2>10 DEF LogoutTokens, LogoutAllTokens, ChangePasswordTokens
  <2>11. ASSUME \/ \E d \in Devices : StartLogout(p, d)
               \/ StartLogoutAll(p) \/ StartChangePassword(p)
        PROVE  Keeps
    BY <2>4, <2>11 DEF StartLogout, StartLogoutAll, StartChangePassword
  <2>12. ASSUME \/ \E d \in Devices : LoginRead(p, d)
               \/ \E t \in tokens : RotateReadUser(p, t)
        PROVE  Keeps
    BY <2>2, <2>3, <2>12
  <2>13. Keeps \/ ChangePassword(p)
    BY <1>1, <2>8, <2>5, <2>6, <2>10, <2>11, <2>12 DEF SessionStep
  <2> QED
    BY <2>1, <2>9, <2>13 DEF Keeps, Checked
<1>2. CASE SessionMint(p)
  <2>1. /\ UNCHANGED <<role, otp, codes, redeemed, form>>
        /\ req[p].at = "mint" /\ UNCHANGED userVars
    BY <1>2 DEF SessionMint, SignTokens
  <2>2. PICK v : req' = [req EXCEPT ![p] =
                 [req[p] EXCEPT !.at = "write", !.version = SignedVersion(p),
                                !.jti = SignedJti(p), !.family = SignedFamily(p),
                                !.victim = v]]
    BY <1>2 DEF SessionMint, SignTokens
  <2> DEFINE r == [req[p] EXCEPT !.at = "write", !.version = SignedVersion(p),
                                 !.jti = SignedJti(p), !.family = SignedFamily(p),
                                 !.victim = v]
  <2>3. r.at = "write"
    BY <1>0 DEF Request
  <2>4. req' = [req EXCEPT ![p] = r]
    BY <2>2
  <2> HIDE DEF r
  <2>5. req'[p].at = "write"
    BY <1>0, <2>3, <2>4
  <2> QED
    BY <2>1, <2>5 DEF userVars
<1> QED
  BY <1>1, <1>2

\* A new code was never redeemed and is in no other row.
LEMMA NewCodeKeeps ==
  ASSUME AccountInv, CodesInv, RedeemedOnce,
         NEW type \in OtpTypes, NEW pw, NewCode(type, pw), UNCHANGED redeemed
  PROVE  /\ CodesInv' /\ RedeemedOnce'
         /\ otp'[type].password = pw
         /\ \A a \in OtpTypes \ {type} : otp'[a] = otp[a]
<1> DEFINE row == [NoOtpRow EXCEPT !.code = codes + 1, !.password = pw]
<1>0. /\ otp \in [OtpTypes -> OtpRow] /\ codes \in 0 .. MaxCodes
      /\ \A a \in OtpTypes : otp[a].code \in Nat
  BY DEF AccountInv, AccountTypeOK, OtpRow
<1>1. row.code = codes + 1 /\ row.password = pw /\ row.used = FALSE
  BY DEF NoOtpRow
<1>2. codes < MaxCodes /\ codes' = codes + 1 /\ otp' = [otp EXCEPT ![type] = row]
  BY DEF NewCode
<1> HIDE DEF row
<1>3. otp'[type] = row /\ \A a \in OtpTypes \ {type} : otp'[a] = otp[a]
  BY <1>0, <1>2
<1>4. codes + 1 \in 1 .. MaxCodes /\ redeemed[codes + 1] = 0
  BY <1>0, <1>2, AccountAssumptions DEF CodesInv
<1>5. \A c \in 1 .. MaxCodes : c > codes' => redeemed'[c] = 0
  BY <1>0, <1>2 DEF CodesInv
<1>6. ASSUME NEW a \in OtpTypes
      PROVE  /\ otp'[a].code <= codes'
             /\ otp'[a].code > 0 /\ ~otp'[a].used => redeemed'[otp'[a].code] = 0
             /\ \A b \in OtpTypes : otp'[a].code = otp'[b].code /\ otp'[a].code > 0 => a = b
  <2>1. CASE a = type
    BY <1>0, <1>1, <1>2, <1>3, <1>4, <2>1 DEF CodesInv
  <2>2. CASE a # type
    BY <1>0, <1>1, <1>2, <1>3, <1>4, <2>2 DEF CodesInv
  <2> QED
    BY <2>1, <2>2
<1>7. CodesInv'
  BY <1>5, <1>6 DEF CodesInv
<1> QED
  BY <1>1, <1>3, <1>7 DEF RedeemedOnce

\* The code that is redeemed was not redeemed before, and its row is marked.
LEMMA SpendKeeps ==
  ASSUME AccountInv, CodesInv, RedeemedOnce,
         NEW p \in Reqs, FormSound(p), form[p].at = "locked", Spend(p)
  PROVE  CodesInv' /\ RedeemedOnce'
<1> DEFINE type == form[p].type
           code == form[p].code
<1>0. /\ otp \in [OtpTypes -> OtpRow] /\ codes \in 0 .. MaxCodes
      /\ redeemed \in [1 .. MaxCodes -> Nat]
      /\ \A a \in OtpTypes : otp[a].code \in Nat
      /\ type \in OtpTypes /\ code \in Nat
  BY DEF AccountInv, AccountTypeOK, OtpRow, Form
<1>1. code = otp[type].code /\ code > 0 /\ ~otp[type].used
  BY DEF FormSound
<1>2. /\ otp' = [otp EXCEPT ![type] = [otp[type] EXCEPT !.used = TRUE]]
      /\ redeemed' = [redeemed EXCEPT ![code] = redeemed[code] + 1]
      /\ codes' = codes
  BY DEF Spend
<1> HIDE DEF type, code
<1>3. /\ code \in 1 .. MaxCodes /\ code <= codes /\ redeemed[code] = 0
      /\ \A b \in OtpTypes : otp[b].code = code => b = type
  BY <1>0, <1>1, AccountAssumptions DEF CodesInv
<1>4. /\ otp'[type].code = code /\ otp'[type].used = TRUE
      /\ \A a \in OtpTypes \ {type} : otp'[a] = otp[a]
  BY <1>0, <1>1, <1>2 DEF OtpRow
<1>5. /\ redeemed'[code] = 1
      /\ \A c \in 1 .. MaxCodes : c # code => redeemed'[c] = redeemed[c]
  BY <1>0, <1>2, <1>3
<1>6. \A c \in 1 .. MaxCodes : c > codes' => redeemed'[c] = 0
  BY <1>0, <1>2, <1>3, <1>5 DEF CodesInv
<1>7. ASSUME NEW a \in OtpTypes
      PROVE  /\ otp'[a].code <= codes'
             /\ otp'[a].code > 0 /\ ~otp'[a].used => redeemed'[otp'[a].code] = 0
             /\ \A b \in OtpTypes : otp'[a].code = otp'[b].code /\ otp'[a].code > 0 => a = b
  <2>1. \A b \in OtpTypes : otp'[b].code = otp[b].code
    BY <1>1, <1>4
  <2>2. otp'[a].code <= codes' /\ otp'[a].code \in Nat
    BY <1>0, <1>2, <2>1 DEF CodesInv
  <2>3. \A b \in OtpTypes : otp'[a].code = otp'[b].code /\ otp'[a].code > 0 => a = b
    BY <2>1 DEF CodesInv
  <2>4. ASSUME otp'[a].code > 0, ~otp'[a].used
        PROVE  redeemed'[otp'[a].code] = 0
    <3>1. a # type
      BY <1>4, <2>4
    <3>2. otp'[a] = otp[a] /\ otp[a].code # code
      BY <1>3, <1>4, <3>1
    <3>3. redeemed[otp[a].code] = 0 /\ otp[a].code \in 1 .. MaxCodes
      BY <1>0, <2>4, <3>2, AccountAssumptions DEF CodesInv
    <3> QED
      BY <1>5, <3>2, <3>3
  <2> QED
    BY <2>2, <2>3, <2>4
<1>8. CodesInv'
  BY <1>6, <1>7 DEF CodesInv
<1>9. RedeemedOnce'
  BY <1>5 DEF RedeemedOnce
<1> QED
  BY <1>8, <1>9

\* Every step issues a code, redeems the code its handler compared, lets one
\* expire, or leaves the codes alone.
LEMMA CodesStep ==
  ASSUME AccountInv, AccountSerialInv, [AccountNext]_accountVars
  PROVE  CodesInv' /\ RedeemedOnce'
<1>0. CodesInv /\ RedeemedOnce /\ TypeOK /\ otp \in [OtpTypes -> OtpRow]
  BY DEF AccountSerialInv, AccountInv, AccountTypeOK
<1>1. CASE UNCHANGED <<otp, codes, redeemed>>
  BY <1>0, <1>1 DEF CodesInv, RedeemedOnce
<1>2. ASSUME NEW p \in Reqs, SignupCommit(p) \/ RequestCommit(p)
      PROVE  CodesInv' /\ RedeemedOnce'
  BY <1>0, <1>2, NewCodeKeeps DEF SignupCommit, RequestCommit, OtpTypes
<1>3. ASSUME NEW p \in Reqs, VerifyCommit(p) \/ ResetCommit(p)
      PROVE  CodesInv' /\ RedeemedOnce'
  BY <1>0, <1>3, SpendKeeps DEF VerifyCommit, ResetCommit, AccountSerialInv
<1>4. ASSUME NEW type \in OtpTypes, OtpExpires(type)
      PROVE  CodesInv' /\ RedeemedOnce'
  <2>1. \A a \in OtpTypes : otp'[a].code = otp[a].code /\ otp'[a].used = otp[a].used
    <3>1. otp' = [otp EXCEPT ![type] = [otp[type] EXCEPT !.expired = TRUE]]
      BY <1>4 DEF OtpExpires
    <3> QED
      BY <1>0, <3>1 DEF OtpRow
  <2> QED
    BY <1>0, <1>4, <2>1 DEF OtpExpires, CodesInv, RedeemedOnce
<1>5. ASSUME NEW p \in Reqs, SessionStep(p) \/ SessionMint(p)
      PROVE  UNCHANGED <<otp, codes, redeemed>>
  BY <1>5 DEF SessionStep, SessionMint
<1>6. ASSUME NEW p \in Reqs,
             \/ SignupRead(p) \/ RequestRead(p) \/ ResetRead(p)
             \/ \E d \in Devices : VerifyRead(p, d) \/ GoogleLock(p, d)
             \/ RightCode(p) \/ WrongCode(p) \/ VerifyLock(p) \/ ResetLock(p)
             \/ GoogleCommit(p) \/ StatusRead(p) \/ StatusCommit(p) \/ AccountFail(p)
      PROVE  UNCHANGED <<otp, codes, redeemed>>
  BY <1>6 DEF SignupRead, RequestRead, ResetRead, VerifyRead, ReadAccount, GoogleLock,
              RightCode, WrongCode, VerifyLock, ResetLock, GoogleCommit, StatusRead,
              StatusCommit, AccountFail
<1>7. CASE AdminCreate \/ SessionLapse \/ UNCHANGED accountVars
  BY <1>1, <1>7 DEF AdminCreate, SessionLapse, accountVars
<1> QED
  BY <1>1, <1>2, <1>3, <1>4, <1>5, <1>6, <1>7 DEF AccountNext

\* With one request, what a handler read is still so, and an account that
\* awaits verification keeps the password its code was mailed with.
LEMMA SoundStep ==
  ASSUME Serial, AccountInv, AccountSerialInv, [AccountNext]_accountVars
  PROVE  PendingPasswordHasCode' /\ \A p \in Reqs : FormSound(p)'
<1>0. /\ CodesInv /\ RedeemedOnce /\ PendingPasswordHasCode
      /\ \A p \in Reqs : FormSound(p)
      /\ \A p, q \in Reqs : p = q
      /\ TypeOK /\ form \in [Reqs -> Form] /\ otp \in [OtpTypes -> OtpRow]
      /\ req \in [Reqs -> Request] /\ password \in Nat
      /\ "EMAIL_VERIFY" \in OtpTypes /\ "PASSWORD_RESET" \in OtpTypes
  BY DEF AccountSerialInv, AccountInv, AccountTypeOK, TypeOK, Serial, OtpTypes
<1>n. NoForm.at = "idle" /\ Idle.at = "idle"
  BY DEF NoForm, Idle
<1> DEFINE Good(p) == PendingPasswordHasCode' /\ FormSound(p)'
           Kept == PendingPasswordHasCode' /\ \A p \in Reqs : FormSound(p)'
<1>1. ASSUME NEW p \in Reqs, SessionStep(p) \/ SessionMint(p)
      PROVE  Good(p)
  <2>1. /\ role' = role /\ otp' = otp /\ form' = form /\ status' = status
        /\ form[p].at = "idle" \/ req[p].at = "mint"
        /\ password' = password \/ (form[p].at = "idle" /\ req[p].at = "endChange")
        /\ req'[p].at \in {"changePassword", "endChange"}
           => status = "ACTIVE" \/ req[p].at = "changePassword"
    BY <1>0, <1>1, SessionEffect
  <2>2. PendingPasswordHasCode'
    BY <1>0, <2>1 DEF PendingPasswordHasCode, FormSound
  <2>3. FormSound(p)'
    BY <1>0, <2>1 DEF FormSound
  <2> QED
    BY <2>2, <2>3
<1>2. ASSUME NEW p \in Reqs, NEW f, form' = [form EXCEPT ![p] = f],
             UNCHANGED <<userVars, otp, role>>,
             req'[p].at \in {"changePassword", "endChange"} => status = "ACTIVE",
             f.at \in {"signup", "request", "read", "wrong", "status"} => req'[p].at = "idle",
             f.at = "signup" => f.saw = status,
             f.at = "status" => role = "ADMIN",
             f.at \in {"read", "compared", "locked"} /\ f.type = "PASSWORD_RESET"
             => status = "ACTIVE",
             f.at \in {"compared", "locked"} =>
               f.code = otp[f.type].code /\ f.code > 0 /\ ~otp[f.type].used
      PROVE  Good(p)
  <2>1. form'[p] = f /\ status' = status /\ password' = password /\ otp' = otp /\ role' = role
    BY <1>0, <1>2 DEF userVars
  <2>2. PendingPasswordHasCode'
    BY <1>0, <2>1 DEF PendingPasswordHasCode
  <2>3. FormSound(p)'
    BY <1>2, <2>1 DEF FormSound
  <2> QED
    BY <2>2, <2>3
<1>3. ASSUME NEW p \in Reqs, form' = [form EXCEPT ![p] = NoForm],
             req'[p].at \notin {"changePassword", "endChange"}, PendingPasswordHasCode'
      PROVE  Good(p)
  <2>1. form'[p] = NoForm
    BY <1>0, <1>3
  <2>2. FormSound(p)'
    BY <1>n, <1>3, <2>1 DEF FormSound
  <2> QED
    BY <1>3, <2>2
<1>4. ASSUME NEW p \in Reqs, SignupCommit(p)
      PROVE  Good(p)
  <2>1. /\ NewCode("EMAIL_VERIFY", password + 1) /\ password' = password + 1
        /\ form' = [form EXCEPT ![p] = NoForm] /\ req' = req
        /\ form[p].at = "signup" /\ redeemed' = redeemed
    BY <1>4 DEF SignupCommit
  <2>2. otp'["EMAIL_VERIFY"].password = password'
    BY <1>0, <2>1, NewCodeKeeps
  <2>3. req'[p].at = "idle"
    BY <1>0, <2>1 DEF FormSound
  <2> HIDE DEF Good
  <2> QED
    BY <1>3, <2>1, <2>2, <2>3 DEF PendingPasswordHasCode
<1>5. ASSUME AdminCreate
      PROVE  Kept
  BY <1>0, <1>5 DEF AdminCreate, PendingPasswordHasCode, FormSound
<1>6. ASSUME NEW p \in Reqs, RequestCommit(p)
      PROVE  Good(p)
  <2>1. /\ NewCode("PASSWORD_RESET", password) /\ UNCHANGED <<userVars, req>>
        /\ form' = [form EXCEPT ![p] = NoForm]
        /\ form[p].at = "request" /\ redeemed' = redeemed /\ role' = role
    BY <1>6 DEF RequestCommit, vars
  <2>2. otp'["EMAIL_VERIFY"] = otp["EMAIL_VERIFY"]
    BY <1>0, <2>1, NewCodeKeeps
  <2>3. req'[p].at = "idle"
    BY <1>0, <2>1 DEF FormSound
  <2>4. PendingPasswordHasCode'
    BY <1>0, <2>1, <2>2 DEF PendingPasswordHasCode, userVars
  <2> HIDE DEF Good
  <2> QED
    BY <1>3, <2>1, <2>3, <2>4
<1>7. ASSUME NEW p \in Reqs, VerifyCommit(p) \/ GoogleCommit(p)
      PROVE  Good(p)
  <2>1. /\ req' = [req EXCEPT ![p] = Idle] /\ status' = "ACTIVE"
        /\ form' = [form EXCEPT ![p] = NoForm]
    BY <1>7 DEF VerifyCommit, GoogleCommit, SaveSession, Spend
  <2>2. req'[p].at = "idle"
    BY <1>0, <1>n, <2>1
  <2>3. PendingPasswordHasCode'
    BY <2>1 DEF PendingPasswordHasCode
  <2> HIDE DEF Good
  <2> QED
    BY <1>3, <2>1, <2>2, <2>3
<1>8. ASSUME NEW p \in Reqs, ResetCommit(p)
      PROVE  Good(p)
  <2>1. /\ req' = [req EXCEPT ![p] = Idle] /\ status' = status
        /\ form' = [form EXCEPT ![p] = NoForm]
        /\ form[p].at = "locked" /\ form[p].type = "PASSWORD_RESET"
    BY <1>8 DEF ResetCommit, ChangePassword, Spend
  <2>2. req'[p].at = "idle"
    BY <1>0, <1>n, <2>1
  <2>3. PendingPasswordHasCode'
    BY <1>0, <2>1 DEF PendingPasswordHasCode, FormSound
  <2> HIDE DEF Good
  <2> QED
    BY <1>3, <2>1, <2>2, <2>3
<1>9. ASSUME NEW p \in Reqs, StatusCommit(p)
      PROVE  Good(p)
  <2>1. /\ form[p].at = "status" /\ UNCHANGED req /\ UNCHANGED role
        /\ form' = [form EXCEPT ![p] = NoForm]
    BY <1>9 DEF StatusCommit, ChangeStatus
  <2>2. req'[p].at = "idle" /\ role = "ADMIN"
    BY <1>0, <2>1 DEF FormSound
  <2>3. PendingPasswordHasCode'
    BY <2>1, <2>2 DEF PendingPasswordHasCode
  <2> HIDE DEF Good
  <2> QED
    BY <1>3, <2>1, <2>2, <2>3
<1>10. ASSUME NEW p \in Reqs, AccountFail(p)
       PROVE  Good(p)
  <2>1. /\ req' = [req EXCEPT ![p] = Idle] /\ UNCHANGED <<userVars, otp, role>>
        /\ form' = [form EXCEPT ![p] = NoForm]
    BY <1>10 DEF AccountFail
  <2>2. req'[p].at = "idle"
    BY <1>0, <1>n, <2>1
  <2>3. PendingPasswordHasCode'
    BY <1>0, <2>1 DEF PendingPasswordHasCode, userVars
  <2> HIDE DEF Good
  <2> QED
    BY <1>3, <2>1, <2>2, <2>3
<1>11. ASSUME NEW p \in Reqs, SignupRead(p) \/ RequestRead(p) \/ StatusRead(p)
       PROVE  Good(p)
  <2>1. /\ UNCHANGED <<userVars, otp, role>> /\ UNCHANGED req /\ req[p].at = "idle"
    BY <1>11 DEF SignupRead, RequestRead, StatusRead, Free, vars
  <2>2. CASE SignupRead(p)
    <3> DEFINE f == [NoForm EXCEPT !.at = "signup", !.saw = status]
    <3>1. f.at = "signup" /\ f.saw = status
      BY DEF NoForm
    <3>2. form' = [form EXCEPT ![p] = f]
      BY <2>2 DEF SignupRead
    <3> HIDE DEF f, Good
    <3> QED
      BY <1>2, <2>1, <3>1, <3>2
  <2>3. CASE RequestRead(p)
    <3> DEFINE f == [NoForm EXCEPT !.at = "request"]
    <3>1. f.at = "request"
      BY DEF NoForm
    <3>2. form' = [form EXCEPT ![p] = f]
      BY <2>3 DEF RequestRead
    <3> HIDE DEF f, Good
    <3> QED
      BY <1>2, <2>1, <3>1, <3>2
  <2>4. CASE StatusRead(p)
    <3> DEFINE f == [NoForm EXCEPT !.at = "status"]
    <3>1. f.at = "status"
      BY DEF NoForm
    <3>2. form' = [form EXCEPT ![p] = f] /\ role = "ADMIN"
      BY <2>4 DEF StatusRead
    <3> HIDE DEF f, Good
    <3> QED
      BY <1>2, <2>1, <3>1, <3>2
  <2> QED
    BY <1>11, <2>2, <2>3, <2>4
<1>12. ASSUME NEW p \in Reqs, NEW type, NEW d, ReadAccount(p, type, d),
              type = "PASSWORD_RESET" => status = "ACTIVE"
       PROVE  Good(p)
  <2> DEFINE stale == IF otp[type].expired THEN otp[type].code ELSE 0
             f == [NoForm EXCEPT !.at = "read", !.type = type, !.device = d,
                                 !.version = tokenVersion, !.stale = stale]
  <2>1. f.at = "read" /\ f.type = type
    BY DEF NoForm
  <2>2. /\ form' = [form EXCEPT ![p] = f]
        /\ UNCHANGED <<userVars, otp, role>> /\ UNCHANGED req /\ req[p].at = "idle"
    BY <1>12 DEF ReadAccount, Free, vars
  <2> HIDE DEF f, Good
  <2> QED
    BY <1>2, <1>12, <2>1, <2>2
<1>13. ASSUME NEW p \in Reqs, ResetRead(p) \/ \E d \in Devices : VerifyRead(p, d)
       PROVE  Good(p)
  <2> HIDE DEF Good
  <2> QED
    BY <1>12, <1>13 DEF ResetRead, VerifyRead
<1>14. ASSUME NEW p \in Reqs, WrongCode(p)
       PROVE  Good(p)
  <2> DEFINE f == [form[p] EXCEPT !.at = "wrong"]
  <2>1. f.at = "wrong"
    BY <1>0 DEF Form
  <2>2. /\ form' = [form EXCEPT ![p] = f] /\ form[p].at = "read"
        /\ UNCHANGED <<userVars, otp, role>> /\ UNCHANGED req
    BY <1>14 DEF WrongCode, vars
  <2>3. req'[p].at = "idle"
    BY <1>0, <2>2 DEF FormSound
  <2> HIDE DEF f, Good
  <2> QED
    BY <1>2, <2>1, <2>2, <2>3
<1>15. ASSUME NEW p \in Reqs, RightCode(p)
       PROVE  Good(p)
  <2> DEFINE f == [form[p] EXCEPT !.at = "compared", !.code = otp[form[p].type].code]
             r == [Idle EXCEPT !.at = "changePassword"]
  <2>1. f.at = "compared" /\ f.type = form[p].type /\ f.code = otp[form[p].type].code
    BY <1>0 DEF Form
  <2>2. /\ form' = [form EXCEPT ![p] = f] /\ form[p].at = "read"
        /\ UNCHANGED <<userVars, otp, role>>
        /\ req' = IF form[p].type = "PASSWORD_RESET"
                  THEN [req EXCEPT ![p] = r] ELSE req
    BY <1>15 DEF RightCode
  <2>3. ~otp[form[p].type].used /\ otp[form[p].type].code > 0
    <3>1. otp[form[p].type].code \in Nat
      BY <1>0 DEF Form, OtpRow
    <3> QED
      BY <1>15, <3>1 DEF RightCode, Usable
  <2>4. req[p].at = "idle" /\ (form[p].type = "PASSWORD_RESET" => status = "ACTIVE")
    BY <1>0, <2>2 DEF FormSound
  <2>5. req'[p].at \in {"changePassword", "endChange"} => status = "ACTIVE"
    BY <1>0, <2>2, <2>4
  <2> HIDE DEF f, r, Good
  <2> QED
    BY <1>2, <2>1, <2>2, <2>3, <2>4, <2>5
<1>16. ASSUME NEW p \in Reqs, NEW r, form[p].at = "compared",
              form' = [form EXCEPT ![p] = [form[p] EXCEPT !.at = "locked"]],
              UNCHANGED <<userVars, otp, role>>,
              req' = [req EXCEPT ![p] = r],
              form[p].type = "EMAIL_VERIFY" => r.at = "mint"
       PROVE  Good(p)
  <2> DEFINE f == [form[p] EXCEPT !.at = "locked"]
  <2>1. f.at = "locked" /\ f.type = form[p].type /\ f.code = form[p].code
        /\ form[p].type \in OtpTypes
    BY <1>0 DEF Form
  <2>2. /\ form[p].type = "PASSWORD_RESET" => status = "ACTIVE"
        /\ form[p].code = otp[form[p].type].code /\ form[p].code > 0
        /\ ~otp[form[p].type].used
    BY <1>0, <1>16 DEF FormSound
  <2>3. form' = [form EXCEPT ![p] = f] /\ req'[p] = r
    BY <1>0, <1>16
  <2>4. req'[p].at \in {"changePassword", "endChange"} => status = "ACTIVE"
    BY <1>16, <2>1, <2>2, <2>3 DEF OtpTypes
  <2> HIDE DEF f, Good
  <2> QED
    BY <1>2, <1>16, <2>1, <2>2, <2>3, <2>4
<1>17. ASSUME NEW p \in Reqs, VerifyLock(p)
       PROVE  Good(p)
  <2> DEFINE r == [Idle EXCEPT !.at = "mint", !.device = form[p].device,
                               !.version = form[p].version, !.password = password]
  <2>1. r.at = "mint"
    BY DEF Idle
  <2>2. /\ form[p].at = "compared" /\ req' = [req EXCEPT ![p] = r]
        /\ form' = [form EXCEPT ![p] = [form[p] EXCEPT !.at = "locked"]]
        /\ UNCHANGED <<userVars, otp, role>>
    BY <1>17 DEF VerifyLock
  <2> HIDE DEF r, Good
  <2> QED
    BY <1>16, <2>1, <2>2
<1>18. ASSUME NEW p \in Reqs, ResetLock(p)
       PROVE  Good(p)
  <2> DEFINE found == {d \in Targets(p) : refreshRow[d].jti > 0}
             r == [req[p] EXCEPT !.at = "endChange", !.rows = found]
  <2>1. /\ form[p].at = "compared" /\ form[p].type = "PASSWORD_RESET"
        /\ req' = [req EXCEPT ![p] = r]
        /\ form' = [form EXCEPT ![p] = [form[p] EXCEPT !.at = "locked"]]
        /\ UNCHANGED <<userVars, otp, role>>
    BY <1>18 DEF ResetLock, ChangePasswordTokens, TakeRows
  <2> HIDE DEF r, Good
  <2> QED
    BY <1>16, <2>1
<1>19. ASSUME NEW p \in Reqs, NEW d \in Devices, GoogleLock(p, d)
       PROVE  Good(p)
  <2> DEFINE f == [NoForm EXCEPT !.at = "google"]
             r == [Idle EXCEPT !.at = "mint", !.device = d,
                               !.version = tokenVersion, !.password = password]
  <2>1. f.at = "google" /\ r.at = "mint"
    BY DEF NoForm, Idle
  <2>2. /\ form' = [form EXCEPT ![p] = f] /\ req' = [req EXCEPT ![p] = r]
        /\ UNCHANGED <<userVars, otp, role>>
    BY <1>19 DEF GoogleLock
  <2> HIDE DEF f, r
  <2>3. req'[p].at = "mint"
    BY <1>0, <2>1, <2>2
  <2> HIDE DEF Good
  <2> QED
    BY <1>2, <2>1, <2>2, <2>3
<1>20. ASSUME NEW type \in OtpTypes, OtpExpires(type)
       PROVE  Kept
  <2>1. \A a \in OtpTypes : /\ otp'[a].code = otp[a].code /\ otp'[a].used = otp[a].used
                            /\ otp'[a].password = otp[a].password
    <3>1. otp' = [otp EXCEPT ![type] = [otp[type] EXCEPT !.expired = TRUE]]
      BY <1>20 DEF OtpExpires
    <3> QED
      BY <1>0, <3>1 DEF OtpRow
  <2>2. UNCHANGED vars /\ role' = role /\ form' = form
    BY <1>20 DEF OtpExpires
  <2>3. status' = status /\ password' = password /\ req' = req
        /\ \A p \in Reqs : form[p].type \in OtpTypes
    BY <1>0, <2>2 DEF vars, userVars, Form
  <2>4. PendingPasswordHasCode'
    BY <1>0, <2>1, <2>2, <2>3 DEF PendingPasswordHasCode
  <2>5. ASSUME NEW p \in Reqs
        PROVE  FormSound(p)'
    BY <1>0, <2>1, <2>2, <2>3 DEF FormSound
  <2> QED
    BY <2>4, <2>5
<1>21. ASSUME SessionLapse \/ UNCHANGED accountVars
       PROVE  Kept
  <2>1. /\ UNCHANGED <<userVars, req>> /\ otp' = otp /\ role' = role /\ form' = form
    BY <1>21 DEF SessionLapse, Lapse, accountVars, vars
  <2> QED
    BY <1>0, <2>1 DEF userVars, PendingPasswordHasCode, FormSound
<1>22. ASSUME NEW p \in Reqs, Good(p)
       PROVE  Kept
  BY <1>0, <1>22
<1> HIDE DEF Good, Kept
<1>23. Kept
  BY <1>1, <1>4, <1>5, <1>6, <1>7, <1>8, <1>9, <1>10, <1>11, <1>13, <1>14, <1>15,
     <1>17, <1>18, <1>19, <1>20, <1>21, <1>22 DEF AccountNext
<1> QED
  BY <1>23 DEF Kept

LEMMA AccountSerialInit == AccountInit => AccountSerialInv
<1> SUFFICES ASSUME AccountInit
             PROVE  AccountSerialInv
  OBVIOUS
<1>1. CodesInv /\ RedeemedOnce
  BY DEF AccountInit, CodesInv, RedeemedOnce, NoOtpRow
<1>2. PendingPasswordHasCode
  BY DEF AccountInit, PendingPasswordHasCode
<1>3. ASSUME NEW p \in Reqs
      PROVE  FormSound(p)
  BY DEF AccountInit, FormSound, NoForm, Idle
<1> QED
  BY <1>1, <1>2, <1>3 DEF AccountSerialInv

\* One request at a time, the account's rows and what its handler has read
\* stay in step.
THEOREM AccountSerialInvariant ==
  ASSUME Serial
  PROVE  AccountSpec => [](AccountInv /\ AccountSerialInv)
<1>1. AccountSerialInv /\ AccountInv /\ [AccountNext]_accountVars => AccountSerialInv'
  BY CodesStep, SoundStep DEF AccountSerialInv
<1> QED
  BY <1>1, AccountSerialInit, AccountInvariant, PTL DEF AccountSpec

\* usedAt makes a code good for one verification or one reset.
THEOREM RedeemedOnceSerial == ASSUME Serial PROVE AccountSpec => []RedeemedOnce
<1>1. AccountSerialInv => RedeemedOnce
  BY DEF AccountSerialInv
<1> QED
  BY <1>1, AccountSerialInvariant, PTL

\* An account that awaits verification has the password its code came with.
THEOREM PendingPasswordHasCodeSerial ==
  ASSUME Serial PROVE AccountSpec => []PendingPasswordHasCode
<1>1. AccountSerialInv => PendingPasswordHasCode
  BY DEF AccountSerialInv
<1> QED
  BY <1>1, AccountSerialInvariant, PTL

\* A signup that ends finds no ACTIVE account, or leaves it alone: what the
\* signup read before its transaction is still so when it commits.
THEOREM SignupSparesActiveSerial ==
  ASSUME Serial PROVE AccountSpec => SignupSparesActive
<1>1. ASSUME AccountInv, AccountSerialInv, [AccountNext]_accountVars,
             NEW p \in Reqs, form[p].at = "signup", form'[p].at = "idle",
             status = "ACTIVE"
      PROVE  password' = password
  <2>1. TypeOK /\ FormSound(p) /\ (\A q \in Reqs : q = p)
        /\ form[p].saw \in Statuses /\ req[p].at = "idle"
    BY <1>1 DEF AccountInv, AccountTypeOK, AccountSerialInv, FormSound, Form, Serial
  <2>2. ASSUME NEW q \in Reqs, SessionStep(q) \/ SessionMint(q)
        PROVE  password' = password
    BY <1>1, <2>1, <2>2, SessionEffect
  <2>3. ~\E q \in Reqs : SignupCommit(q)
    BY <1>1, <2>1 DEF SignupCommit, FormSound
  <2>4. ~AdminCreate
    BY <1>1 DEF AdminCreate
  <2>5. ~\E q \in Reqs : ResetCommit(q)
    BY <1>1, <2>1 DEF ResetCommit
  <2>6. ASSUME NEW q \in Reqs,
               \/ SignupRead(q) \/ RequestRead(q) \/ RequestCommit(q) \/ ResetRead(q)
               \/ \E d \in Devices : VerifyRead(q, d) \/ GoogleLock(q, d)
               \/ RightCode(q) \/ WrongCode(q) \/ VerifyLock(q) \/ VerifyCommit(q)
               \/ ResetLock(q) \/ GoogleCommit(q) \/ StatusRead(q) \/ StatusCommit(q)
               \/ AccountFail(q)
        PROVE  password' = password
    BY <2>6 DEF SignupRead, RequestRead, RequestCommit, ResetRead, VerifyRead,
                ReadAccount, GoogleLock, RightCode, WrongCode, VerifyLock, VerifyCommit,
                ResetLock, ChangePasswordTokens, TakeRows, GoogleCommit, StatusRead,
                StatusCommit, ChangeStatus, AccountFail, vars, userVars
  <2>7. CASE \/ SessionLapse \/ UNCHANGED accountVars
             \/ \E type \in OtpTypes : OtpExpires(type)
    BY <2>7 DEF SessionLapse, Lapse, OtpExpires, accountVars, vars, userVars
  <2> QED
    BY <1>1, <2>2, <2>3, <2>4, <2>5, <2>6, <2>7 DEF AccountNext
<1>2. AccountInv /\ AccountSerialInv /\ [AccountNext]_accountVars
      => [\A p \in Reqs :
             form[p].at = "signup" /\ form'[p].at = "idle" /\ status = "ACTIVE"
             => UNCHANGED password]_accountVars
  BY <1>1
<1> QED
  BY <1>2, AccountSerialInvariant, PTL DEF AccountSpec, SignupSparesActive
=============================================================================
