---------------------------- MODULE AuthSession ----------------------------
(***************************************************************************)
(* Sessions and tokens of one account: TokenService and the handlers of    *)
(* AuthService and AuthController that use it (login, refresh, logout,     *)
(* logout-all, change-password).  Every query of the code filters on       *)
(* userId, so accounts do not interact and one account is modelled.        *)
(*                                                                         *)
(* PostgreSQL runs the transactions at its default isolation, READ         *)
(* COMMITTED: each statement reads the latest committed rows and nothing   *)
(* that was read is protected from change.  So each read of a handler is a *)
(* step of its own.  A statement that writes also reads: it finds its rows *)
(* and locks them until the commit.  The writes of a transaction become    *)
(* visible together, in the step that commits it; where a statement before *)
(* the last one finds rows by a condition, that statement is a step too.   *)
(***************************************************************************)
EXTENDS Naturals, FiniteSets

CONSTANTS
    Reqs,        \* slots for requests in flight
    Devices,     \* deviceId values clients send
    NoDevice,    \* no device to evict
    MaxDevices,  \* config device.MAX_DEVICES
    MaxJti,      \* bound: token pairs ever signed
    MaxVersion   \* bound: User.tokenVersion

ASSUME SessionAssumptions ==
    /\ NoDevice \notin Devices
    /\ IsFiniteSet(Devices)
    /\ MaxDevices \in Nat \ {0}
    /\ MaxJti \in Nat
    /\ MaxVersion \in Nat

VARIABLES
    status,        \* User.status
    tokenVersion,  \* User.tokenVersion
    password,      \* which password is User.password; 0 when there is none
    refreshRow,    \* the RefreshToken row of each device
    sessionRow,    \* the Session row of each device
    tokens,        \* token pairs delivered to clients
    minted,        \* number of jti drawn so far
    lapsed,        \* pairs 1..lapsed are past their seven days
    terminations,  \* history: replies that promised the end of every session
    req            \* the handlers in flight and their local variables

userVars  == <<status, tokenVersion, password>>
rowVars   == <<refreshRow, sessionRow>>
tokenVars == <<tokens, minted, lapsed>>
vars      == <<userVars, rowVars, tokenVars, terminations, req>>

-----------------------------------------------------------------------------
\* A jti is a fresh UUID: the i-th one drawn is i, and 0 stands for none.  A
\* family is named after the first jti of its login.
RefreshRow == [jti : Nat, family : Nat, rotatedFrom : Nat,
               revoked : BOOLEAN, born : Nat]
SessionRow == [sid : Nat, active : BOOLEAN]

\* The claims of a signed pair; password is a history field, the password
\* that was verified by the login the pair descends from.
Token == [jti : Nat, family : Nat, device : Devices, version : Nat,
          parent : Nat, password : Nat]

\* "NONE" is an account without a row.  LOCKED and DELETED take the same
\* paths as SUSPENDED everywhere in this code.
Statuses == {"NONE", "PENDING", "ACTIVE", "SUSPENDED"}

Steps == {"idle", "lookup", "mint", "write", "breach",
          "logout", "endLogout", "logoutAll", "endLogoutAll",
          "checkPassword", "changePassword", "endChange"}

Request == [at : Steps, device : Devices \cup {NoDevice}, version : Nat,
            password : Nat, family : Nat, parent : Nat, jti : Nat,
            victim : Devices \cup {NoDevice},
            rows : SUBSET Devices]

NoRefreshRow == [jti |-> 0, family |-> 0, rotatedFrom |-> 0,
                 revoked |-> TRUE, born |-> 0]
NoSessionRow == [sid |-> 0, active |-> FALSE]
Idle == [at |-> "idle", device |-> NoDevice, version |-> 0, password |-> 0,
         family |-> 0, parent |-> 0, jti |-> 0, victim |-> NoDevice,
         rows |-> {}]

Init ==
    /\ status = "ACTIVE"
    /\ tokenVersion = 0
    /\ password = 1
    /\ refreshRow = [d \in Devices |-> NoRefreshRow]
    /\ sessionRow = [d \in Devices |-> NoSessionRow]
    /\ tokens = {}
    /\ minted = 0
    /\ lapsed = 0
    /\ terminations = 0
    /\ req = [p \in Reqs |-> Idle]

-----------------------------------------------------------------------------
\* AtStrategy.validate: the account is active and the versions agree.  No
\* session row is looked at.
Accepts(t) == status = "ACTIVE" /\ t.version = tokenVersion

\* Rows that count against the device limit: not revoked and not expired.
ActiveDevices ==
    {d \in Devices : ~refreshRow[d].revoked /\ refreshRow[d].jti > lapsed}

VictimsAboveLimit(d) ==
    IF d \in ActiveDevices \/ Cardinality(ActiveDevices) <= MaxDevices
    THEN {NoDevice}
    ELSE {o \in ActiveDevices :
            \A e \in ActiveDevices : refreshRow[o].born <= refreshRow[e].born}

\* The device whose row makes room for d: the one whose row was created
\* first, when d has no active row and the limit is reached.
Victims(d) ==
    IF d \in ActiveDevices \/ Cardinality(ActiveDevices) < MaxDevices
    THEN {NoDevice}
    ELSE {o \in ActiveDevices :
            \A e \in ActiveDevices : refreshRow[o].born <= refreshRow[e].born}

\* The order of creation of d's row: createdAt is set by the insert and left
\* alone by every later upsert.
BornOf(d) ==
    IF refreshRow[d].born > 0 THEN refreshRow[d].born
    ELSE 1 + Cardinality({e \in Devices : refreshRow[e].born > 0})

-----------------------------------------------------------------------------
(* Locks.  A request's rows are the RefreshToken rows its transaction has  *)
(* updated and not yet committed; changePassword updates the User row      *)
(* first and so holds it until its commit.                                 *)

RowsFree(p, devices) == \A q \in Reqs \ {p} : req[q].rows \cap devices = {}

UserRowHolders == {q \in Reqs : req[q].at = "endChange"}

-----------------------------------------------------------------------------
(* Login: the account and its password are read before the transaction.    *)

LoginRead(p, d) ==
    /\ req[p].at = "idle"
    /\ status = "ACTIVE"
    /\ password > 0
    /\ req' = [req EXCEPT ![p] =
                 [Idle EXCEPT !.at = "mint", !.device = d,
                              !.version = tokenVersion, !.password = password]]
    /\ UNCHANGED <<userVars, rowVars, tokenVars, terminations>>

(* Refresh: the signature and the claims are verified, then the account is *)
(* read, then the stored row.                                              *)

RotateReadUser(p, t) ==
    /\ req[p].at = "idle"
    /\ t.jti > lapsed
    /\ Accepts(t)
    /\ req' = [req EXCEPT ![p] =
                 [Idle EXCEPT !.at = "lookup", !.device = t.device,
                              !.version = tokenVersion,
                              !.password = t.password,
                              !.family = t.family, !.parent = t.jti]]
    /\ UNCHANGED <<userVars, rowVars, tokenVars, terminations>>

\* An older token of the stored token's family: a replay.
IsReuse(p) ==
    LET stored == refreshRow[req[p].device]
    IN  stored.family = req[p].family /\ stored.jti # req[p].parent

\* Both breach branches update every row of the account and then throw, which
\* makes prisma.$transaction roll the updates back: what remains is the reply
\* "Security breach detected. All sessions terminated."
RotateBreach(p) ==
    /\ req[p].at = "lookup"
    /\ IsReuse(p) \/ refreshRow[req[p].device].revoked
    /\ req' = [req EXCEPT ![p].at = "breach"]
    /\ UNCHANGED <<userVars, rowVars, tokenVars, terminations>>

MatchesRevokedToo(p) ==
    ~IsReuse(p) /\ refreshRow[req[p].device].jti = req[p].parent

MatchesReplayed(p) == ~refreshRow[req[p].device].revoked

\* The stored row is live and its hash is that of the presented token.
Matches(p) ==
    /\ ~IsReuse(p)
    /\ ~refreshRow[req[p].device].revoked
    /\ refreshRow[req[p].device].jti = req[p].parent

RotateAccept(p) ==
    /\ req[p].at = "lookup"
    /\ Matches(p)
    /\ req' = [req EXCEPT ![p].at = "mint"]
    /\ UNCHANGED <<userVars, rowVars, tokenVars, terminations>>

-----------------------------------------------------------------------------
(* getTokens and the read of handleSessionUpdate: a pair is signed with    *)
(* what the handler read earlier, and the active rows are listed.          *)

SignedVersionNow(p) == tokenVersion
SignedVersion(p) == req[p].version

SignedJtiReused(p) == IF req[p].parent > 0 THEN req[p].parent ELSE minted + 1
SignedJti(p) == minted + 1

SignedFamilyOfRow(p) ==
    IF refreshRow[req[p].device].jti > 0
    THEN refreshRow[req[p].device].family ELSE minted + 1
SignedFamily(p) ==
    IF req[p].family > 0 THEN req[p].family ELSE minted + 1

SignTokens(p) ==
    /\ req[p].at = "mint"
    /\ minted < MaxJti
    /\ minted' = minted + 1
    /\ \E v \in Victims(req[p].device) :
          req' = [req EXCEPT ![p] =
                    [@ EXCEPT !.at = "write", !.version = SignedVersion(p),
                              !.jti = SignedJti(p),
                              !.family = SignedFamily(p), !.victim = v]]
    /\ UNCHANGED <<userVars, rowVars, tokens, lapsed, terminations>>

(* The writes of handleSessionUpdate and the commit: the victim's rows are *)
(* revoked, the device's rows are upserted, the pair goes to the client.   *)

SaveSession(p) ==
    /\ req[p].at = "write"
    /\ RowsFree(p, {req[p].device, req[p].victim})
    /\ LET r == req[p]
       IN  /\ refreshRow' = [d \in Devices |->
                IF d = r.device
                THEN [jti |-> r.jti, family |-> r.family,
                      rotatedFrom |-> r.parent, revoked |-> FALSE,
                      born |-> BornOf(d)]
                ELSE IF d = r.victim
                     THEN [refreshRow[d] EXCEPT !.revoked = TRUE]
                     ELSE refreshRow[d]]
           /\ sessionRow' = [d \in Devices |->
                IF d = r.device THEN [sid |-> r.jti, active |-> TRUE]
                ELSE IF d = r.victim
                     THEN [sessionRow[d] EXCEPT !.active = FALSE]
                     ELSE sessionRow[d]]
           /\ tokens' = tokens \cup
                {[jti |-> r.jti, family |-> r.family, device |-> r.device,
                  version |-> r.version, parent |-> r.parent,
                  password |-> r.password]}
    /\ req' = [req EXCEPT ![p] = Idle]
    /\ UNCHANGED <<minted, lapsed, terminations>>

\* login and rotateRefreshToken write nothing else.
CommitSession(p) == SaveSession(p) /\ UNCHANGED userVars

-----------------------------------------------------------------------------
(* Handlers behind AtGuard: the guard validates an access token, and the   *)
(* handler's transaction runs later.                                       *)

StartGuarded(p, step, d) ==
    /\ req[p].at = "idle"
    /\ \E t \in tokens : t.jti > lapsed /\ Accepts(t)
    /\ req' = [req EXCEPT ![p] = [Idle EXCEPT !.at = step, !.device = d]]
    /\ UNCHANGED <<userVars, rowVars, tokenVars, terminations>>

StartLogout(p, d) == StartGuarded(p, "logout", d)
StartLogoutAll(p) == StartGuarded(p, "logoutAll", NoDevice)
StartChangePassword(p) == StartGuarded(p, "checkPassword", NoDevice)

\* The devices a revocation is about: one for logout, all for the others.
Targets(p) == IF req[p].device = NoDevice THEN Devices ELSE {req[p].device}

\* The first updateMany of a revocation: it finds and locks the RefreshToken
\* rows that exist by now.
TakeRows(p, from, to) ==
    /\ req[p].at = from
    /\ LET found == {d \in Targets(p) : refreshRow[d].jti > 0}
       IN  /\ RowsFree(p, found)
           /\ req' = [req EXCEPT ![p] =
                        [req[p] EXCEPT !.at = to, !.rows = found]]
    /\ UNCHANGED <<userVars, rowVars, tokenVars, terminations>>

LogoutTokens(p) == TakeRows(p, "logout", "endLogout")
LogoutAllTokens(p) == TakeRows(p, "logoutAll", "endLogoutAll")
\* changePassword has updated the User row before.
ChangePasswordTokens(p) ==
    /\ UserRowHolders = {}
    /\ TakeRows(p, "changePassword", "endChange")

RevokeTokensOnly(rows, devices) ==
    /\ refreshRow' = [d \in Devices |->
         IF d \in rows THEN [refreshRow[d] EXCEPT !.revoked = TRUE]
                       ELSE refreshRow[d]]
    /\ UNCHANGED sessionRow

RevokeSessionsOnly(rows, devices) ==
    /\ sessionRow' = [d \in Devices |->
         IF d \in devices THEN [sessionRow[d] EXCEPT !.active = FALSE]
                          ELSE sessionRow[d]]
    /\ UNCHANGED refreshRow

\* The second updateMany and the commit: the tokens found earlier are revoked,
\* and the sessions found now are deactivated.
RevokeRows(rows, devices) ==
    /\ refreshRow' = [d \in Devices |->
         IF d \in rows THEN [refreshRow[d] EXCEPT !.revoked = TRUE]
                       ELSE refreshRow[d]]
    /\ sessionRow' = [d \in Devices |->
         IF d \in devices THEN [sessionRow[d] EXCEPT !.active = FALSE]
                          ELSE sessionRow[d]]

NewVersionUnchanged == tokenVersion
NewVersionDecremented == tokenVersion - 1
\* tokenVersion: { increment: 1 }, computed by the database on the row as it
\* is when the statement runs.
NewVersion == tokenVersion + 1

\* revokeDeviceSession: the device named by the body, or the token's own.
Logout(p) ==
    /\ req[p].at = "endLogout"
    /\ RevokeRows(req[p].rows, Targets(p))
    /\ req' = [req EXCEPT ![p] = Idle]
    /\ UNCHANGED <<userVars, tokenVars, terminations>>

\* revokeAllSessions, whose last statement updates the User row.
LogoutAll(p) ==
    /\ req[p].at = "endLogoutAll"
    /\ UserRowHolders = {}
    /\ tokenVersion < MaxVersion
    /\ tokenVersion' = NewVersion
    /\ RevokeRows(req[p].rows, Targets(p))
    /\ terminations' = terminations + 1
    /\ req' = [req EXCEPT ![p] = Idle]
    /\ UNCHANGED <<status, password, tokenVars>>

\* changePassword reads the account and compares the old password before its
\* transaction starts.
CheckOldPassword(p) ==
    /\ req[p].at = "checkPassword"
    /\ status = "ACTIVE"
    /\ password > 0
    /\ req' = [req EXCEPT ![p] = [@ EXCEPT !.at = "changePassword",
                                           !.password = password]]
    /\ UNCHANGED <<userVars, rowVars, tokenVars, terminations>>

ChangePasswordKeepsRows(p) ==
    /\ req[p].at = "endChange"
    /\ tokenVersion < MaxVersion
    /\ password' = password + 1
    /\ tokenVersion' = NewVersion
    /\ terminations' = terminations + 1
    /\ req' = [req EXCEPT ![p] = Idle]
    /\ UNCHANGED <<status, rowVars, tokenVars>>

ChangePassword(p) ==
    /\ req[p].at = "endChange"
    /\ tokenVersion < MaxVersion
    /\ password' = password + 1
    /\ tokenVersion' = NewVersion
    /\ RevokeRows(req[p].rows, Targets(p))
    /\ terminations' = terminations + 1
    /\ req' = [req EXCEPT ![p] = Idle]
    /\ UNCHANGED <<status, tokenVars>>

-----------------------------------------------------------------------------
\* The handler ends with an error: a check that does not hold, a mismatch of
\* the token's hash, a deadlock or timeout of the transaction, or the throw
\* after a breach.  Its transaction is rolled back.
Fail(p) ==
    /\ req[p].at # "idle"
    /\ req' = [req EXCEPT ![p] = Idle]
    /\ UNCHANGED <<userVars, rowVars, tokenVars, terminations>>

\* updateAdministratorStatus writes the status and nothing else.
ChangeStatus ==
    /\ status # "NONE"
    /\ UserRowHolders = {}
    /\ status' \in Statuses \ {"NONE", status}
    /\ UNCHANGED <<tokenVersion, password, rowVars, tokenVars,
                   terminations, req>>

\* Seven days pass for the oldest pair: its JWT and its rows expire together.
\* A pair that is signed and not yet committed is seconds old.
Lapse ==
    /\ lapsed < minted
    /\ \A p \in Reqs : req[p].at = "write" => req[p].jti # lapsed + 1
    /\ lapsed' = lapsed + 1
    /\ UNCHANGED <<userVars, rowVars, tokens, minted, terminations, req>>

Next ==
    \/ \E p \in Reqs, d \in Devices : LoginRead(p, d)
    \/ \E p \in Reqs, t \in tokens : RotateReadUser(p, t)
    \/ \E p \in Reqs : RotateBreach(p)
    \/ \E p \in Reqs : RotateAccept(p)
    \/ \E p \in Reqs : SignTokens(p)
    \/ \E p \in Reqs : CommitSession(p)
    \/ \E p \in Reqs, d \in Devices : StartLogout(p, d)
    \/ \E p \in Reqs : StartLogoutAll(p)
    \/ \E p \in Reqs : StartChangePassword(p)
    \/ \E p \in Reqs : LogoutTokens(p)
    \/ \E p \in Reqs : Logout(p)
    \/ \E p \in Reqs : LogoutAllTokens(p)
    \/ \E p \in Reqs : LogoutAll(p)
    \/ \E p \in Reqs : CheckOldPassword(p)
    \/ \E p \in Reqs : ChangePasswordTokens(p)
    \/ \E p \in Reqs : ChangePassword(p)
    \/ \E p \in Reqs : Fail(p)
    \/ ChangeStatus
    \/ Lapse

Spec == Init /\ [][Next]_vars

-----------------------------------------------------------------------------
\* Every variable has its type, and no pair lapses before it is signed.
TypeOK ==
    /\ status \in Statuses
    /\ tokenVersion \in Nat
    /\ password \in Nat
    /\ refreshRow \in [Devices -> RefreshRow]
    /\ sessionRow \in [Devices -> SessionRow]
    /\ tokens \subseteq Token
    /\ minted \in Nat
    /\ lapsed \in Nat
    /\ lapsed <= minted
    /\ terminations \in Nat
    /\ req \in [Reqs -> Request]

\* A session that getActiveSessions lists has a refresh token that is not
\* revoked, and it is the one the session names.  Five handlers write both
\* tables, with statements that other commits can fall between.
ListedSessionHasToken ==
    \A d \in Devices : /\ sessionRow[d].sid = refreshRow[d].jti
                       /\ sessionRow[d].active => ~refreshRow[d].revoked

\* A token that carries the account's version descends from a login that
\* verified the present password.  AtStrategy and rotateRefreshToken compare
\* versions only; login reads password and version before its transaction and
\* a change of password may commit anywhere in between.
AcceptedTokenKnowsPassword ==
    \A t \in tokens : t.version = tokenVersion => t.password = password

\* RefreshToken.family "groups tokens from the same login event": the tokens
\* of a family share device, version and verified password.
FamilyIsOneLogin ==
    \A t, u \in tokens : t.family = u.family =>
        /\ t.device = u.device
        /\ t.version = u.version
        /\ t.password = u.password

\* The pair that a device's row stands for.
Current(t) == refreshRow[t.device].jti = t.jti

\* A refresh token that was replaced on its device, by a rotation or by a new
\* login, never becomes the device's token again, whatever handlers that
\* started before the replacement still write.
SupersededStaysDead ==
    [][\A t \in tokens : ~Current(t) => ~Current(t)']_vars

\* The requests whose check of a credential has not been overtaken.
Vouched == {p \in Reqs : /\ req[p].at \in {"lookup", "mint", "write"}
                         /\ req[p].version = tokenVersion}

Contract == INSTANCE SessionContract WITH
    Ids <- 1 .. MaxJti,
    issued <- {t.jti : t \in tokens},
    live <- {t.jti : t \in {u \in tokens : u.version = tokenVersion}},
    vouched <- Vouched,
    ended <- terminations

\* The session layer keeps the contract: tokens are accepted from their grant
\* to the next termination, a reply that promises termination has killed
\* every token and every check in flight, and no dead token returns.  (Which
\* accounts are ACTIVE is a separate switch over what is live here.)
ImplementsContract == Contract!ContractSpec

-----------------------------------------------------------------------------
(* What holds when the account's requests do not overlap (Reqs has one     *)
(* element).                                                               *)

\* The two tables that record one session agree on every device: a refresh
\* token that counts against the device limit belongs to a listed session.
RowsAgree ==
    \A d \in Devices : sessionRow[d].active = ~refreshRow[d].revoked

\* Never more than MAX_DEVICES sessions are active.
DeviceLimit == Cardinality(ActiveDevices) <= MaxDevices

\* A refresh token is exchanged for at most one new pair.
SingleUse ==
    \A t, u \in tokens : t.parent = u.parent /\ t.parent > 0 => t = u

\* A session that was logged out or evicted comes back by a login only, never
\* by a refresh.
RevokedUntilLogin ==
    [][\A d \in Devices :
          /\ refreshRow[d].jti > 0
          /\ refreshRow[d].revoked
          /\ ~refreshRow'[d].revoked
          => refreshRow'[d].rotatedFrom = 0]_vars

\* A row listed as active stands for a pair that a client holds and the API
\* accepts; so no dead session takes one of the MAX_DEVICES places.
ActiveRowIsLive ==
    \A d \in ActiveDevices :
        \E t \in tokens : t.jti = refreshRow[d].jti /\ t.version = tokenVersion

-----------------------------------------------------------------------------
\* "Security breach detected. All sessions terminated." (token.service.ts):
\* when that reply is decided, no row of the account is usable any more.
BreachTerminatesSessions ==
    [][\A p \in Reqs :
          req[p].at # "breach" /\ req'[p].at = "breach"
          => \A d \in Devices : /\ refreshRow'[d].revoked
                                /\ ~sessionRow'[d].active]_vars
=============================================================================
