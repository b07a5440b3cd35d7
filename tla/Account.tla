------------------------------ MODULE Account ------------------------------
(***************************************************************************)
(* The life of one account around its sessions: signup, verification by a  *)
(* mailed code, password reset, Google login, and what administrators do   *)
(* to it.  A handler that ends with a session, or that revokes sessions,   *)
(* goes through the steps of AuthSession for that part.                    *)
(*                                                                         *)
(* The rate limits in front of these handlers only refuse requests, so     *)
(* every request is let through here.                                      *)
(***************************************************************************)
EXTENDS AuthSession

CONSTANTS
    OtpMaxAttempts,  \* config auth.OTP_MAX_ATTEMPTS
    MaxCodes         \* bound: codes ever generated

ASSUME AccountAssumptions == OtpMaxAttempts \in Nat \ {0} /\ MaxCodes \in Nat

VARIABLES
    role,      \* User.role
    otp,       \* the VerificationToken row of each OTPType
    codes,     \* number of codes generated so far
    redeemed,  \* history: how often each code was redeemed
    form       \* the local variables of the handlers of this module

accountVars == <<vars, role, otp, codes, redeemed, form>>

-----------------------------------------------------------------------------
\* ADMIN stands for every role updateAdministratorStatus manages.
Roles == {"STUDENT", "ADMIN"}

OtpTypes == {"EMAIL_VERIFY", "PASSWORD_RESET"}

\* The i-th code generated is i, and 0 stands for none.  password is a history
\* field: User.password when the code was issued.
OtpRow == [code : Nat, used : BOOLEAN, expired : BOOLEAN, attempts : Nat,
           password : Nat]

Form == [at : {"idle", "signup", "request", "read", "compared", "wrong",
               "locked", "google", "status"},
         type : OtpTypes, saw : Statuses, device : Devices \cup {NoDevice},
         version : Nat, stale : Nat, code : Nat]

NoOtpRow == [code |-> 0, used |-> FALSE, expired |-> FALSE, attempts |-> 0,
             password |-> 0]
NoForm == [at |-> "idle", type |-> "EMAIL_VERIFY", saw |-> "NONE",
           device |-> NoDevice, version |-> 0, stale |-> 0, code |-> 0]

AccountInit ==
    /\ status = "NONE"
    /\ tokenVersion = 0
    /\ password = 0
    /\ refreshRow = [d \in Devices |-> NoRefreshRow]
    /\ sessionRow = [d \in Devices |-> NoSessionRow]
    /\ tokens = {}
    /\ minted = 0
    /\ lapsed = 0
    /\ terminations = 0
    /\ req = [p \in Reqs |-> Idle]
    /\ role = "STUDENT"
    /\ otp = [type \in OtpTypes |-> NoOtpRow]
    /\ codes = 0
    /\ redeemed = [c \in 1 .. MaxCodes |-> 0]
    /\ form = [p \in Reqs |-> NoForm]

-----------------------------------------------------------------------------
Free(p) == req[p].at = "idle" /\ form[p].at = "idle"

\* Transactions that have updated the User row and not yet committed.
AccountRowHolders ==
    UserRowHolders \cup {q \in Reqs : form[q].at \in {"locked", "google"}}

\* A handler's transaction took its form this far and touched nothing else.
Advance(p, f) ==
    /\ form' = [form EXCEPT ![p] = f]
    /\ UNCHANGED <<role, otp, codes, redeemed>>

NewCodeOnlyIfSpent(type, pw) ==
    /\ codes < MaxCodes
    /\ codes' = codes + 1
    /\ otp' = IF otp[type].code > 0 /\ ~otp[type].used THEN otp
              ELSE [otp EXCEPT ![type] = [NoOtpRow EXCEPT !.code = codes + 1,
                                                          !.password = pw]]

\* The upsert of a VerificationToken: a new code, unused, with no attempts.
NewCode(type, pw) ==
    /\ codes < MaxCodes
    /\ codes' = codes + 1
    /\ otp' = [otp EXCEPT ![type] = [NoOtpRow EXCEPT !.code = codes + 1,
                                                     !.password = pw]]

-----------------------------------------------------------------------------
(* Signup.  The existing account is read before the transaction, which     *)
(* then updates by id or inserts.                                          *)

SignupRead(p) ==
    /\ Free(p)
    /\ status # "ACTIVE"
    /\ Advance(p, [NoForm EXCEPT !.at = "signup", !.saw = status])
    /\ UNCHANGED vars

\* The insert is an upsert: it writes over an account that it meets.
SignupUpsert(p) ==
    /\ form[p].at = "signup"
    /\ AccountRowHolders = {}
    /\ status' = IF status = "NONE" THEN "PENDING" ELSE status
    /\ password' = password + 1
    /\ NewCode("EMAIL_VERIFY", password + 1)
    /\ form' = [form EXCEPT ![p] = NoForm]
    /\ UNCHANGED <<tokenVersion, rowVars, tokenVars, terminations, req,
                   role, redeemed>>

\* An insert that meets an account fails on the unique email.
SignupCommit(p) ==
    /\ form[p].at = "signup"
    /\ AccountRowHolders = {}
    /\ \/ form[p].saw = "PENDING" /\ UNCHANGED status
       \/ form[p].saw # "PENDING" /\ status = "NONE" /\ status' = "PENDING"
    /\ password' = password + 1
    /\ NewCode("EMAIL_VERIFY", password + 1)
    /\ form' = [form EXCEPT ![p] = NoForm]
    /\ UNCHANGED <<tokenVersion, rowVars, tokenVars, terminations, req,
                   role, redeemed>>

\* createAdmin and its siblings: the account starts ACTIVE with a password.
AdminCreate ==
    /\ status = "NONE"
    /\ AccountRowHolders = {}
    /\ status' = "ACTIVE"
    /\ role' = "ADMIN"
    /\ password' = password + 1
    /\ UNCHANGED <<tokenVersion, rowVars, tokenVars, terminations, req,
                   otp, codes, redeemed, form>>

-----------------------------------------------------------------------------
(* Codes.  verifyEmailOtp and resetPasswordWithOtp read the account, then  *)
(* the code's row, and update the row by id if the code matches.  Expiry   *)
(* is judged by the time the request came in.                              *)

RequestRead(p) ==
    /\ Free(p)
    /\ status = "ACTIVE"
    /\ Advance(p, [NoForm EXCEPT !.at = "request"])
    /\ UNCHANGED vars

\* The upsert waits for a reset that has marked the row and not committed.
RequestCommit(p) ==
    /\ form[p].at = "request"
    /\ \A q \in Reqs : ~(form[q].at = "locked" /\ form[q].type = "PASSWORD_RESET")
    /\ NewCode("PASSWORD_RESET", password)
    /\ form' = [form EXCEPT ![p] = NoForm]
    /\ UNCHANGED <<vars, role, redeemed>>

ReadAccount(p, type, d) ==
    /\ Free(p)
    /\ Advance(p, [NoForm EXCEPT
                     !.at = "read", !.type = type, !.device = d,
                     !.version = tokenVersion,
                     !.stale = IF otp[type].expired THEN otp[type].code ELSE 0])
    /\ UNCHANGED vars

VerifyRead(p, d) == status # "NONE" /\ ReadAccount(p, "EMAIL_VERIFY", d)
ResetRead(p) == status = "ACTIVE" /\ ReadAccount(p, "PASSWORD_RESET", NoDevice)

UsableAgain(row, stale) ==
    row.code \notin {0, stale} /\ row.attempts < OtpMaxAttempts

Usable(row, stale) ==
    /\ row.code \notin {0, stale}
    /\ ~row.used
    /\ row.attempts < OtpMaxAttempts

\* The presented code is the stored one.
RightCode(p) ==
    /\ form[p].at = "read"
    /\ LET row == otp[form[p].type]
       IN  /\ Usable(row, form[p].stale)
           /\ Advance(p, [form[p] EXCEPT !.at = "compared", !.code = row.code])
    /\ req' = IF form[p].type = "PASSWORD_RESET"
              THEN [req EXCEPT ![p] = [Idle EXCEPT !.at = "changePassword"]]
              ELSE req
    /\ UNCHANGED <<userVars, rowVars, tokenVars, terminations>>

\* Any other code: attempts is incremented, and the throw that follows rolls
\* the increment back.
WrongCode(p) ==
    /\ form[p].at = "read"
    /\ Usable(otp[form[p].type], form[p].stale)
    /\ Advance(p, [form[p] EXCEPT !.at = "wrong"])
    /\ UNCHANGED vars

\* usedAt is set by id: on whichever code the row holds by now.
Spend(p) ==
    /\ otp' = [otp EXCEPT ![form[p].type].used = TRUE]
    /\ redeemed' = [redeemed EXCEPT ![form[p].code] = @ + 1]
    /\ form' = [form EXCEPT ![p] = NoForm]
    /\ UNCHANGED codes

\* verifyEmailOtp has updated the two rows and goes on to the session, signed
\* with the version it read first.
VerifyLock(p) ==
    /\ form[p].at = "compared"
    /\ form[p].type = "EMAIL_VERIFY"
    /\ AccountRowHolders = {}
    /\ Advance(p, [form[p] EXCEPT !.at = "locked"])
    /\ req' = [req EXCEPT ![p] =
                 [Idle EXCEPT !.at = "mint", !.device = form[p].device,
                              !.version = form[p].version,
                              !.password = password]]
    /\ UNCHANGED <<userVars, rowVars, tokenVars, terminations>>

VerifyCommit(p) ==
    /\ form[p].at = "locked"
    /\ form[p].type = "EMAIL_VERIFY"
    /\ SaveSession(p)
    /\ status' = "ACTIVE"
    /\ Spend(p)
    /\ UNCHANGED <<tokenVersion, password, role>>

\* resetPasswordWithOtp ends like changePassword.
ResetLock(p) ==
    /\ form[p].at = "compared"
    /\ form[p].type = "PASSWORD_RESET"
    /\ AccountRowHolders = {}
    /\ ChangePasswordTokens(p)
    /\ Advance(p, [form[p] EXCEPT !.at = "locked"])

ResetKeepsVersion(p) ==
    /\ form[p].at = "locked"
    /\ form[p].type = "PASSWORD_RESET"
    /\ password' = password + 1
    /\ RevokeRows(req[p].rows, Targets(p))
    /\ terminations' = terminations + 1
    /\ req' = [req EXCEPT ![p] = Idle]
    /\ UNCHANGED <<status, tokenVersion, tokenVars>>
    /\ Spend(p)
    /\ UNCHANGED role

ResetCommit(p) ==
    /\ form[p].at = "locked"
    /\ form[p].type = "PASSWORD_RESET"
    /\ ChangePassword(p)
    /\ Spend(p)
    /\ UNCHANGED role

-----------------------------------------------------------------------------
(* Google login: the account is inserted or updated first, which locks it. *)

GoogleLock(p, d) ==
    /\ Free(p)
    /\ AccountRowHolders = {}
    /\ Advance(p, [NoForm EXCEPT !.at = "google"])
    /\ req' = [req EXCEPT ![p] =
                 [Idle EXCEPT !.at = "mint", !.device = d,
                              !.version = tokenVersion, !.password = password]]
    /\ UNCHANGED <<userVars, rowVars, tokenVars, terminations>>

GoogleCommit(p) ==
    /\ form[p].at = "google"
    /\ SaveSession(p)
    /\ status' = "ACTIVE"
    /\ role' = "STUDENT"
    /\ form' = [form EXCEPT ![p] = NoForm]
    /\ UNCHANGED <<tokenVersion, password, otp, codes, redeemed>>

(* updateAdministratorStatus reads the role in a statement of its own.     *)

StatusRead(p) ==
    /\ Free(p)
    /\ role = "ADMIN"
    /\ Advance(p, [NoForm EXCEPT !.at = "status"])
    /\ UNCHANGED vars

StatusCommit(p) ==
    /\ form[p].at = "status"
    /\ AccountRowHolders = {}
    /\ ChangeStatus
    /\ Advance(p, NoForm)

-----------------------------------------------------------------------------
\* The handlers of AuthSession, which wait for the User row where they
\* update it.
SessionStep(p) ==
    /\ form[p].at = "idle"
    /\ UNCHANGED <<role, otp, codes, redeemed, form>>
    /\ \/ \E d \in Devices : LoginRead(p, d)
       \/ \E t \in tokens : RotateReadUser(p, t)
       \/ RotateBreach(p)
       \/ RotateAccept(p)
       \/ CommitSession(p)
       \/ \E d \in Devices : StartLogout(p, d)
       \/ StartLogoutAll(p)
       \/ StartChangePassword(p)
       \/ LogoutTokens(p)
       \/ Logout(p)
       \/ LogoutAllTokens(p)
       \/ AccountRowHolders = {} /\ LogoutAll(p)
       \/ CheckOldPassword(p)
       \/ AccountRowHolders = {} /\ ChangePasswordTokens(p)
       \/ ChangePassword(p)

\* getTokens and the read of the active rows, for whichever handler.
SessionMint(p) ==
    /\ SignTokens(p)
    /\ UNCHANGED <<role, otp, codes, redeemed, form>>

AccountFail(p) ==
    /\ ~Free(p)
    /\ req' = [req EXCEPT ![p] = Idle]
    /\ Advance(p, NoForm)
    /\ UNCHANGED <<userVars, rowVars, tokenVars, terminations>>

SessionLapse == Lapse /\ UNCHANGED <<role, otp, codes, redeemed, form>>

\* otpTtlSeconds pass.
OtpExpires(type) ==
    /\ otp[type].code > 0
    /\ ~otp[type].expired
    /\ otp' = [otp EXCEPT ![type].expired = TRUE]
    /\ UNCHANGED <<vars, role, codes, redeemed, form>>

AccountNext ==
    \/ \E p \in Reqs : SessionStep(p)
    \/ \E p \in Reqs : SessionMint(p)
    \/ \E p \in Reqs : SignupRead(p)
    \/ \E p \in Reqs : SignupCommit(p)
    \/ AdminCreate
    \/ \E p \in Reqs : RequestRead(p)
    \/ \E p \in Reqs : RequestCommit(p)
    \/ \E p \in Reqs, d \in Devices : VerifyRead(p, d)
    \/ \E p \in Reqs : ResetRead(p)
    \/ \E p \in Reqs : RightCode(p)
    \/ \E p \in Reqs : WrongCode(p)
    \/ \E p \in Reqs : VerifyLock(p)
    \/ \E p \in Reqs : VerifyCommit(p)
    \/ \E p \in Reqs : ResetLock(p)
    \/ \E p \in Reqs : ResetCommit(p)
    \/ \E p \in Reqs, d \in Devices : GoogleLock(p, d)
    \/ \E p \in Reqs : GoogleCommit(p)
    \/ \E p \in Reqs : StatusRead(p)
    \/ \E p \in Reqs : StatusCommit(p)
    \/ \E p \in Reqs : AccountFail(p)
    \/ SessionLapse
    \/ \E type \in OtpTypes : OtpExpires(type)

AccountSpec == AccountInit /\ [][AccountNext]_accountVars

-----------------------------------------------------------------------------
\* Every variable has its type.
AccountTypeOK ==
    /\ TypeOK
    /\ role \in Roles
    /\ otp \in [OtpTypes -> OtpRow]
    /\ codes \in 0 .. MaxCodes
    /\ redeemed \in [1 .. MaxCodes -> Nat]
    /\ form \in [Reqs -> Form]

(* What holds when the account's requests do not overlap.                  *)

\* usedAt makes a code good for one verification or one reset.
RedeemedOnce == \A c \in 1 .. MaxCodes : redeemed[c] <= 1

\* A student whose account awaits verification can activate it only with the
\* code that was mailed together with the password it has: signup writes
\* password and code in one transaction, and a second signup replaces both.
PendingPasswordHasCode ==
    status = "PENDING" /\ role = "STUDENT"
    => otp["EMAIL_VERIFY"].password = password

-----------------------------------------------------------------------------
\* "Email already exists and is verified." (auth.service.ts): a signup never
\* writes to an account that is ACTIVE.  While requests do not overlap this
\* holds, also when an administrator creates the account meanwhile.  When they
\* do it does not: a signup that saw PENDING updates the account by its id
\* after another request has activated it (AccountSignupRace.cfg).
SignupSparesActive ==
    [][\A p \in Reqs :
          form[p].at = "signup" /\ form'[p].at = "idle" /\ status = "ACTIVE"
          => UNCHANGED password]_accountVars

\* "Prevents brute-forcing the OTP code" (security.prisma, attempts): a code
\* that does not match is counted.
WrongCodesCounted ==
    [][\A p \in Reqs :
          form[p].at = "read" /\ form'[p].at = "wrong"
          => otp'[form[p].type].attempts = otp[form[p].type].attempts + 1]_accountVars
=============================================================================
