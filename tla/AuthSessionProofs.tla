------------------------- MODULE AuthSessionProofs -------------------------
(***************************************************************************)
(* What AuthSession guarantees for any number of requests in flight,       *)
(* devices, tokens and terminations; and, in its last part, what it        *)
(* guarantees as long as the requests of an account do not overlap.        *)
(***************************************************************************)
EXTENDS AuthSession, FiniteSetTheorems, TLAPS

-----------------------------------------------------------------------------
(* The inductive invariant.                                                *)

InTx(p) == req[p].at \in {"lookup", "mint", "write"}

\* No token and no handler is ahead of the account's version.
VersionInv ==
    /\ \A t \in tokens : t.version <= tokenVersion
    /\ \A p \in Reqs : InTx(p) => req[p].version <= tokenVersion

\* Whoever holds the present version has seen the present password.
PasswordInv ==
    /\ AcceptedTokenKnowsPassword
    /\ \A p \in Reqs : InTx(p) /\ req[p].version = tokenVersion
                       => req[p].password = password

\* A jti belongs to one delivered pair or to one pair about to be written.
JtiInv ==
    /\ minted <= MaxJti
    /\ \A t \in tokens : t.jti \in 1 .. minted
    /\ \A t, u \in tokens : t.jti = u.jti => t = u
    /\ \A p \in Reqs : req[p].at = "write" =>
          /\ req[p].jti \in 1 .. minted
          /\ \A t \in tokens : t.jti # req[p].jti
          /\ \A q \in Reqs : /\ req[q].at = "write"
                             /\ req[q].jti = req[p].jti
                             => q = p

\* A family was opened by one login, and whoever extends it agrees with it.
FamilyInv ==
    /\ FamilyIsOneLogin
    /\ \A t \in tokens : t.family \in 1 .. minted
    /\ \A p \in Reqs : req[p].at = "write" => req[p].family > 0
    /\ \A p \in Reqs : InTx(p) /\ req[p].family > 0 =>
          /\ req[p].family <= minted
          /\ \A t \in tokens : t.family = req[p].family =>
                /\ t.device = req[p].device
                /\ t.version = req[p].version
                /\ t.password = req[p].password
          /\ \A q \in Reqs : InTx(q) /\ req[q].family = req[p].family =>
                /\ req[q].device = req[p].device
                /\ req[q].version = req[p].version
                /\ req[q].password = req[p].password

\* A transaction that will write a row knows which device it is about.
DeviceInv == \A p \in Reqs : req[p].at \in {"lookup", "mint", "write", "logout"}
                             => req[p].device \in Devices

\* A revocation locks rows of the devices it is about only.
RowsInv == \A p \in Reqs : req[p].rows \subseteq Targets(p)

IInv == TypeOK /\ DeviceInv /\ RowsInv /\ VersionInv /\ PasswordInv /\ JtiInv /\ FamilyInv

-----------------------------------------------------------------------------
(* Typing.                                                                 *)

\* The creation order given to a row is a number: a row that exists keeps
\* its own, a new one comes after the finitely many that exist.
LEMMA BornOfType ==
  ASSUME TypeOK, NEW d \in Devices
  PROVE  BornOf(d) \in Nat
<1> DEFINE S == {e \in Devices : refreshRow[e].born > 0}
<1>1. IsFiniteSet(S)
  BY SessionAssumptions, FS_Subset, S \in SUBSET Devices
<1>2. Cardinality(S) \in Nat
  BY <1>1, FS_CardinalityType
<1>3. refreshRow[d].born \in Nat
  BY DEF TypeOK, RefreshRow
<1> QED
  BY <1>2, <1>3 DEF BornOf

\* Whoever makes room is a device, or nobody has to.
LEMMA VictimsType ==
  ASSUME NEW d \in Devices
  PROVE  Victims(d) \subseteq Devices \cup {NoDevice}
BY DEF Victims, ActiveDevices

LEMMA IdleType == Idle \in Request
BY DEF Idle, Request, Steps

\* The first updateMany of a revocation changes its own handler only, which
\* then waits to commit and holds rows of the devices it is about.
LEMMA TakeRowsStep ==
  ASSUME TypeOK, NEW p \in Reqs,
         LogoutTokens(p) \/ LogoutAllTokens(p) \/ ChangePasswordTokens(p)
  PROVE  /\ UNCHANGED <<userVars, rowVars, tokenVars, terminations>>
         /\ \E r \in Request : /\ req' = [req EXCEPT ![p] = r]
                              /\ r.at \in {"endLogout", "endLogoutAll", "endChange"}
                              /\ r.device = req[p].device
                              /\ r.rows \subseteq Targets(p)
<1>1. PICK to \in {"endLogout", "endLogoutAll", "endChange"} :
        \E from : TakeRows(p, from, to)
  BY DEF LogoutTokens, LogoutAllTokens, ChangePasswordTokens
<1> DEFINE found == {d \in Targets(p) : refreshRow[d].jti > 0}
           r == [req[p] EXCEPT !.at = to, !.rows = found]
<1>2. Targets(p) \subseteq Devices
  BY DEF Targets, TypeOK, Request
<1>3. r \in Request /\ r.at = to /\ r.device = req[p].device /\ r.rows = found
  <2>1. req[p] \in Request /\ found \subseteq Devices
    BY <1>2 DEF TypeOK
  <2> HIDE DEF found
  <2> QED
    BY <2>1 DEF Request, Steps
<1>4. req' = [req EXCEPT ![p] = r]
  BY <1>1 DEF TakeRows
<1> HIDE DEF r
<1> QED
  BY <1>1, <1>3, <1>4 DEF TakeRows

\* The commit of a session keeps the types, whatever its handler does to the
\* account in the same transaction.
LEMMA SaveTypes ==
  ASSUME TypeOK, DeviceInv, NEW p \in Reqs, SaveSession(p)
  PROVE  /\ refreshRow' \in [Devices -> RefreshRow]
         /\ sessionRow' \in [Devices -> SessionRow]
         /\ tokens' \subseteq Token
         /\ req' \in [Reqs -> Request]
         /\ DeviceInv'
         /\ UNCHANGED <<minted, lapsed, terminations>>
<1> USE DEF TypeOK, DeviceInv
<1>1. req[p].device \in Devices
  BY DEF SaveSession
<1>2. refreshRow' \in [Devices -> RefreshRow]
  <2>1. ASSUME NEW d \in Devices
        PROVE  refreshRow'[d] \in RefreshRow
    <3>1. CASE d = req[p].device
      BY <3>1, BornOfType DEF SaveSession, RefreshRow, Request
    <3>2. CASE d # req[p].device /\ d = req[p].victim
      BY <3>2 DEF SaveSession, RefreshRow
    <3>3. CASE d # req[p].device /\ d # req[p].victim
      BY <3>3 DEF SaveSession
    <3> QED
      BY <3>1, <3>2, <3>3
  <2> QED
    BY <2>1 DEF SaveSession
<1>3. sessionRow' \in [Devices -> SessionRow]
  BY DEF SaveSession, SessionRow, Request
<1>4. tokens' \subseteq Token
  BY <1>1 DEF SaveSession, Token, Request
<1> QED
  BY <1>2, <1>3, <1>4, IdleType DEF SaveSession, Idle

\* The type invariant, with the devices of the handlers: every step keeps both.
LEMMA TypeStep ==
  ASSUME TypeOK, DeviceInv, [Next]_vars
  PROVE  TypeOK' /\ DeviceInv'
<1> USE DEF TypeOK, DeviceInv
<1>1. ASSUME NEW p \in Reqs, NEW d \in Devices, LoginRead(p, d)
      PROVE  TypeOK' /\ DeviceInv'
  BY <1>1, IdleType DEF LoginRead, Idle, Request, Steps, userVars, rowVars, tokenVars
<1>2. ASSUME NEW p \in Reqs, NEW t \in tokens, RotateReadUser(p, t)
      PROVE  TypeOK' /\ DeviceInv'
  BY <1>2, IdleType
     DEF RotateReadUser, Token, Idle, Request, Steps, userVars, rowVars, tokenVars
<1>3. ASSUME NEW p \in Reqs, RotateBreach(p)
      PROVE  TypeOK' /\ DeviceInv'
  BY <1>3 DEF RotateBreach, Request, Steps, userVars, rowVars, tokenVars
<1>4. ASSUME NEW p \in Reqs, RotateAccept(p)
      PROVE  TypeOK' /\ DeviceInv'
  BY <1>4 DEF RotateAccept, Request, Steps, userVars, rowVars, tokenVars
<1>5. ASSUME NEW p \in Reqs, SignTokens(p)
      PROVE  TypeOK' /\ DeviceInv'
  <2>1. req[p].device \in Devices
    BY <1>5 DEF SignTokens
  <2>2. PICK v \in Victims(req[p].device) :
          req' = [req EXCEPT ![p] =
                    [@ EXCEPT !.at = "write", !.version = SignedVersion(p),
                              !.jti = SignedJti(p),
                              !.family = SignedFamily(p), !.victim = v]]
    BY <1>5 DEF SignTokens
  <2>3. v \in Devices \cup {NoDevice}
    BY <2>1, <2>2, VictimsType
  <2>4. /\ SignedVersion(p) \in Nat
        /\ SignedJti(p) \in Nat
        /\ SignedFamily(p) \in Nat
    BY DEF SignedVersion, SignedJti, SignedFamily, Request
  <2> DEFINE r == [req[p] EXCEPT !.at = "write",
                     !.version = SignedVersion(p), !.jti = SignedJti(p),
                     !.family = SignedFamily(p), !.victim = v]
  <2>5. r \in Request /\ r.device = req[p].device
    <3>1. req[p] \in Request
      OBVIOUS
    <3> HIDE DEF TypeOK, DeviceInv
    <3> QED
      BY <2>3, <2>4, <3>1 DEF Request, Steps
  <2>6. req' = [req EXCEPT ![p] = r]
    BY <2>2
  <2> HIDE DEF r
  <2>7. req' \in [Reqs -> Request] /\ DeviceInv'
    BY <2>1, <2>5, <2>6
  <2> QED
    BY <1>5, <2>7 DEF SignTokens, userVars, rowVars
<1>6. ASSUME NEW p \in Reqs, CommitSession(p)
      PROVE  TypeOK' /\ DeviceInv'
  BY <1>6, SaveTypes DEF CommitSession, userVars
<1>7. ASSUME NEW p \in Reqs, NEW d \in Devices, StartLogout(p, d)
      PROVE  TypeOK' /\ DeviceInv'
  <2>1. [Idle EXCEPT !.at = "logout", !.device = d] \in Request
    BY DEF Idle, Request, Steps
  <2> QED
    BY <1>7, <2>1 DEF StartLogout, StartGuarded, Idle, userVars, rowVars, tokenVars
<1>8. ASSUME NEW p \in Reqs, StartLogoutAll(p) \/ StartChangePassword(p)
      PROVE  TypeOK' /\ DeviceInv'
  <2>1. PICK step \in {"logoutAll", "checkPassword"} :
          StartGuarded(p, step, NoDevice)
    BY <1>8 DEF StartLogoutAll, StartChangePassword
  <2>2. [Idle EXCEPT !.at = step, !.device = NoDevice] \in Request
    BY DEF Idle, Request, Steps
  <2>3. [Idle EXCEPT !.at = step, !.device = NoDevice].at = step
    BY DEF Idle
  <2> QED
    BY <2>1, <2>2, <2>3 DEF StartGuarded, userVars, rowVars, tokenVars
<1>9. ASSUME NEW R, NEW D, RevokeRows(R, D)
      PROVE  /\ refreshRow' \in [Devices -> RefreshRow]
             /\ sessionRow' \in [Devices -> SessionRow]
  BY <1>9 DEF RevokeRows, RefreshRow, SessionRow
<1>10. ASSUME NEW p \in Reqs, Logout(p)
       PROVE  TypeOK' /\ DeviceInv'
  BY <1>9, <1>10, IdleType DEF Logout, Idle, userVars, tokenVars
<1>11. ASSUME NEW p \in Reqs, LogoutAll(p)
       PROVE  TypeOK' /\ DeviceInv'
  BY <1>9, <1>11, IdleType DEF LogoutAll, NewVersion, Idle, tokenVars
<1>12. ASSUME NEW p \in Reqs, CheckOldPassword(p)
       PROVE  TypeOK' /\ DeviceInv'
  <2> DEFINE r == [req[p] EXCEPT !.at = "changePassword", !.password = password]
  <2>1. req' = [req EXCEPT ![p] = r] /\ req[p] \in Request /\ password \in Nat
    BY <1>12 DEF CheckOldPassword
  <2>2. r \in Request /\ r.at = "changePassword"
    <3> HIDE DEF TypeOK, DeviceInv
    <3> QED
      BY <2>1 DEF Request, Steps
  <2> HIDE DEF r
  <2>3. req' \in [Reqs -> Request] /\ DeviceInv'
    BY <2>1, <2>2
  <2> QED
    BY <1>12, <2>3 DEF CheckOldPassword, userVars, rowVars, tokenVars
<1>13. ASSUME NEW p \in Reqs, ChangePassword(p)
       PROVE  TypeOK' /\ DeviceInv'
  BY <1>9, <1>13, IdleType DEF ChangePassword, NewVersion, Idle, tokenVars
<1>14. ASSUME NEW p \in Reqs, Fail(p)
       PROVE  TypeOK' /\ DeviceInv'
  BY <1>14, IdleType DEF Fail, Idle, userVars, rowVars, tokenVars
<1>15. CASE ChangeStatus
  BY <1>15 DEF ChangeStatus, Statuses, rowVars, tokenVars
<1>16. CASE Lapse
  BY <1>16 DEF Lapse, userVars, rowVars
<1>17. CASE UNCHANGED vars
  BY <1>17 DEF vars, userVars, rowVars, tokenVars
<1>18. ASSUME NEW p \in Reqs,
              LogoutTokens(p) \/ LogoutAllTokens(p) \/ ChangePasswordTokens(p)
       PROVE  TypeOK' /\ DeviceInv'
  BY <1>18, TakeRowsStep DEF userVars, rowVars, tokenVars
<1> QED
  BY <1>1, <1>2, <1>3, <1>4, <1>5, <1>6, <1>7, <1>8, <1>10, <1>11, <1>12,
     <1>13, <1>14, <1>15, <1>16, <1>17, <1>18 DEF Next

LEMMA TypeInit == Init => TypeOK /\ DeviceInv
BY IdleType DEF Init, TypeOK, Statuses, DeviceInv, NoRefreshRow, NoSessionRow, RefreshRow,
                SessionRow, Idle

\* Every variable keeps its type.
THEOREM TypeCorrect == Spec => []TypeOK
<1>1. TypeOK /\ DeviceInv /\ [Next]_vars => (TypeOK /\ DeviceInv)'
  BY TypeStep
<1> QED
  BY TypeInit, <1>1, PTL DEF Spec

-----------------------------------------------------------------------------
(* The two tables.                                                         *)

\* A revocation deactivates the session of every device whose token it
\* revokes.
LEMMA RevokeKeepsListed ==
  ASSUME TypeOK, ListedSessionHasToken, NEW D, NEW R \in SUBSET D, RevokeRows(R, D)
  PROVE  ListedSessionHasToken'
<1> SUFFICES ASSUME NEW d \in Devices
             PROVE  /\ sessionRow'[d].sid = refreshRow'[d].jti
                    /\ sessionRow'[d].active => ~refreshRow'[d].revoked
  BY DEF ListedSessionHasToken
<1>1. /\ refreshRow[d] \in RefreshRow /\ sessionRow[d] \in SessionRow
      /\ sessionRow[d].sid = refreshRow[d].jti
      /\ sessionRow[d].active => ~refreshRow[d].revoked
  BY DEF TypeOK, ListedSessionHasToken
<1>2. /\ refreshRow'[d].jti = refreshRow[d].jti
      /\ sessionRow'[d].sid = sessionRow[d].sid
  BY <1>1 DEF RevokeRows, RefreshRow, SessionRow
<1>3. CASE d \in D
  <2>1. sessionRow'[d].active = FALSE
    BY <1>1, <1>3 DEF RevokeRows, SessionRow
  <2> QED
    BY <1>1, <1>2, <2>1
<1>4. CASE d \notin D
  <2>1. refreshRow'[d] = refreshRow[d] /\ sessionRow'[d] = sessionRow[d]
    BY <1>4 DEF RevokeRows
  <2> QED
    BY <1>1, <2>1
<1> QED
  BY <1>3, <1>4

\* Every step keeps a revocation to the devices it is about.
LEMMA RowsInvStep ==
  ASSUME TypeOK, RowsInv, [Next]_vars
  PROVE  RowsInv'
<1> USE DEF RowsInv, TypeOK
<1>1. ASSUME NEW p \in Reqs, NEW r, req' = [req EXCEPT ![p] = r],
             \/ r.rows = {}
             \/ r.device = req[p].device /\ r.rows \subseteq Targets(p)
      PROVE  RowsInv'
  <2>1. \A q \in Reqs \ {p} : req'[q] = req[q]
    BY <1>1
  <2>2. req'[p] = r
    BY <1>1
  <2> QED
    BY <1>1, <2>1, <2>2 DEF Targets
<1>2. ASSUME NEW p \in Reqs,
             \/ \E d \in Devices : LoginRead(p, d)
             \/ \E t \in tokens : RotateReadUser(p, t)
             \/ CommitSession(p) \/ Logout(p) \/ LogoutAll(p)
             \/ ChangePassword(p) \/ Fail(p)
             \/ \E d \in Devices : StartLogout(p, d)
             \/ StartLogoutAll(p) \/ StartChangePassword(p)
      PROVE  RowsInv'
  <2>1. /\ req'[p].rows = {}
        /\ \A q \in Reqs \ {p} : req'[q] = req[q]
    <3>1. req \in [Reqs -> Request]
      OBVIOUS
    <3> HIDE DEF RowsInv, TypeOK
    <3>2. CASE \E d \in Devices : LoginRead(p, d)
      BY <3>1, <3>2 DEF LoginRead, Idle
    <3>3. CASE \E t \in tokens : RotateReadUser(p, t)
      BY <3>1, <3>3 DEF RotateReadUser, Idle
    <3>4. CASE \/ CommitSession(p) \/ Logout(p) \/ LogoutAll(p)
               \/ ChangePassword(p) \/ Fail(p)
      <4>1. req' = [req EXCEPT ![p] = Idle]
        BY <3>4 DEF CommitSession, SaveSession, Logout, LogoutAll,
                    ChangePassword, Fail
      <4> QED
        BY <3>1, <4>1 DEF Idle
    <3>5. CASE \E d \in Devices : StartLogout(p, d)
      BY <3>1, <3>5 DEF StartLogout, StartGuarded, Idle
    <3>6. CASE StartLogoutAll(p) \/ StartChangePassword(p)
      BY <3>1, <3>6 DEF StartLogoutAll, StartChangePassword, StartGuarded, Idle
    <3> QED
      BY <1>2, <3>2, <3>3, <3>4, <3>5, <3>6
  <2> QED
    BY <2>1 DEF Targets
<1>3. ASSUME NEW p \in Reqs,
             \/ RotateBreach(p) \/ RotateAccept(p) \/ SignTokens(p)
             \/ CheckOldPassword(p)
      PROVE  RowsInv'
  <2>1. /\ req'[p].rows = req[p].rows /\ req'[p].device = req[p].device
        /\ \A q \in Reqs \ {p} : req'[q] = req[q]
    <3>1. req \in [Reqs -> Request]
      OBVIOUS
    <3> HIDE DEF RowsInv, TypeOK
    <3>2. CASE RotateBreach(p) \/ RotateAccept(p)
      BY <3>1, <3>2 DEF RotateBreach, RotateAccept, Request
    <3>3. CASE SignTokens(p)
      BY <3>1, <3>3 DEF SignTokens, Request
    <3>4. CASE CheckOldPassword(p)
      BY <3>1, <3>4 DEF CheckOldPassword, Request
    <3> QED
      BY <1>3, <3>2, <3>3, <3>4
  <2> QED
    BY <2>1 DEF Targets
<1>4. ASSUME NEW p \in Reqs,
             LogoutTokens(p) \/ LogoutAllTokens(p) \/ ChangePasswordTokens(p)
      PROVE  RowsInv'
  BY <1>1, <1>4, TakeRowsStep
<1>5. CASE ChangeStatus \/ Lapse \/ UNCHANGED vars
  BY <1>5 DEF ChangeStatus, Lapse, vars, Targets
<1> QED
  BY <1>2, <1>3, <1>4, <1>5 DEF Next

\* The rows of a session are saved together.
LEMMA SaveKeepsListed ==
  ASSUME TypeOK, ListedSessionHasToken, NEW p \in Reqs, SaveSession(p)
  PROVE  ListedSessionHasToken'
<1>1. ASSUME NEW d \in Devices
      PROVE  /\ sessionRow'[d].sid = refreshRow'[d].jti
             /\ sessionRow'[d].active => ~refreshRow'[d].revoked
  <2>1. CASE d = req[p].device
    BY <2>1 DEF SaveSession, TypeOK
  <2>2. CASE d # req[p].device /\ d = req[p].victim
    BY <2>2 DEF SaveSession, TypeOK, ListedSessionHasToken, RefreshRow, SessionRow
  <2>3. CASE d # req[p].device /\ d # req[p].victim
    BY <2>3 DEF SaveSession, TypeOK, ListedSessionHasToken
  <2> QED
    BY <2>1, <2>2, <2>3
<1> QED
  BY <1>1 DEF ListedSessionHasToken

\* The steps that write the rows are the commits of a session and the three
\* revocations.
LEMMA ListedStep ==
  ASSUME TypeOK, RowsInv, ListedSessionHasToken, [Next]_vars
  PROVE  ListedSessionHasToken'
<1>1. ASSUME NEW p \in Reqs, CommitSession(p)
      PROVE  ListedSessionHasToken'
  BY <1>1, SaveKeepsListed DEF CommitSession
<1>2. ASSUME NEW p \in Reqs, Logout(p) \/ LogoutAll(p) \/ ChangePassword(p)
      PROVE  ListedSessionHasToken'
  BY <1>2, RevokeKeepsListed DEF Logout, LogoutAll, ChangePassword, RowsInv
<1>3. CASE UNCHANGED rowVars
  BY <1>3 DEF ListedSessionHasToken, rowVars
<1>4. \/ UNCHANGED rowVars
      \/ \E p \in Reqs : \/ CommitSession(p)
                         \/ Logout(p) \/ LogoutAll(p) \/ ChangePassword(p)
  BY DEF Next, LoginRead, RotateReadUser, RotateBreach, RotateAccept,
         SignTokens, StartLogout, StartLogoutAll, StartChangePassword,
         StartGuarded, CheckOldPassword, LogoutTokens, LogoutAllTokens,
         ChangePasswordTokens, TakeRows, Fail, ChangeStatus, Lapse,
         vars, rowVars
<1> QED
  BY <1>1, <1>2, <1>3, <1>4

\* A listed session always has the refresh token it names, unrevoked, even
\* when logins of new devices fall between the statements of a revocation.
THEOREM ListedSessionHasTokenAlways == Spec => []ListedSessionHasToken
<1>1. Init => RowsInv /\ ListedSessionHasToken
  <2>1. ASSUME Init, NEW d \in Devices
        PROVE  /\ refreshRow[d].jti = 0
               /\ sessionRow[d].sid = 0 /\ sessionRow[d].active = FALSE
    BY <2>1 DEF Init, NoRefreshRow, NoSessionRow
  <2>2. Init => RowsInv
    BY DEF RowsInv, Init, Idle
  <2> QED
    BY <2>1, <2>2 DEF ListedSessionHasToken
<1>2. TypeOK /\ RowsInv /\ ListedSessionHasToken /\ [Next]_vars
      => RowsInv' /\ ListedSessionHasToken'
  BY RowsInvStep, ListedStep
<1> QED
  BY <1>1, <1>2, TypeCorrect, PTL DEF Spec

-----------------------------------------------------------------------------
(* Versions and passwords.                                                 *)

\* How one step can change what the versions and passwords depend on.  A
\* handler in a transaction got there by reading the account just now, or
\* from a token the account accepts, or keeps what it had.
LEMMA VersionStep ==
  ASSUME TypeOK, DeviceInv, VersionInv, [Next]_vars
  PROVE  VersionInv' /\ (PasswordInv => PasswordInv')
<1> USE DEF VersionInv, PasswordInv, AcceptedTokenKnowsPassword, InTx, TypeOK
<1>1. ASSUME NEW p \in Reqs, NEW d \in Devices, LoginRead(p, d)
      PROVE  VersionInv' /\ (PasswordInv => PasswordInv')
  BY <1>1 DEF LoginRead, Idle, userVars, tokenVars
<1>2. ASSUME NEW p \in Reqs, NEW t \in tokens, RotateReadUser(p, t)
      PROVE  VersionInv' /\ (PasswordInv => PasswordInv')
  BY <1>2 DEF RotateReadUser, Accepts, Idle, userVars, tokenVars
<1>3. ASSUME NEW p \in Reqs, RotateBreach(p) \/ RotateAccept(p)
      PROVE  VersionInv' /\ (PasswordInv => PasswordInv')
  BY <1>3 DEF RotateBreach, RotateAccept, Request, userVars, tokenVars
<1>4. ASSUME NEW p \in Reqs, SignTokens(p)
      PROVE  VersionInv' /\ (PasswordInv => PasswordInv')
  <2>1. PICK v \in Victims(req[p].device) :
          req' = [req EXCEPT ![p] =
                    [@ EXCEPT !.at = "write", !.version = SignedVersion(p),
                              !.jti = SignedJti(p),
                              !.family = SignedFamily(p), !.victim = v]]
    BY <1>4 DEF SignTokens
  <2>2. /\ req'[p].version = req[p].version
        /\ req'[p].password = req[p].password
        /\ req'[p].at = "write" /\ req[p].at = "mint"
        /\ \A q \in Reqs \ {p} : req'[q] = req[q]
    BY <1>4, <2>1 DEF SignedVersion, SignTokens, Request
  <2> QED
    BY <1>4, <2>2 DEF SignTokens, userVars
<1>5. ASSUME NEW p \in Reqs, CommitSession(p)
      PROVE  VersionInv' /\ (PasswordInv => PasswordInv')
  BY <1>5 DEF CommitSession, SaveSession, Idle, userVars
<1>6. ASSUME NEW p \in Reqs, LogoutAll(p) \/ ChangePassword(p)
      PROVE  VersionInv' /\ (PasswordInv => PasswordInv')
  <2>1. /\ tokenVersion' = tokenVersion + 1
        /\ tokens' = tokens
        /\ req' = [req EXCEPT ![p] = Idle]
    BY <1>6 DEF LogoutAll, ChangePassword, NewVersion, tokenVars
  <2>2. \A t \in tokens : t.version \in Nat
    BY DEF Token
  <2>3. \A q \in Reqs : req[q].version \in Nat
    BY DEF Request
  <2> QED
    BY <2>1, <2>2, <2>3 DEF Idle
<1>7. ASSUME NEW p \in Reqs, NEW r, req' = [req EXCEPT ![p] = r],
             r.at \notin {"lookup", "mint", "write"},
             UNCHANGED <<userVars, tokenVars>>
      PROVE  VersionInv' /\ (PasswordInv => PasswordInv')
  BY <1>7 DEF userVars, tokenVars
<1>8. ASSUME NEW p \in Reqs,
             \/ \E d \in Devices : StartLogout(p, d)
             \/ StartLogoutAll(p) \/ StartChangePassword(p)
             \/ Logout(p) \/ CheckOldPassword(p) \/ Fail(p)
      PROVE  VersionInv' /\ (PasswordInv => PasswordInv')
  <2>1. CASE \/ \E d \in Devices : StartLogout(p, d)
             \/ StartLogoutAll(p) \/ StartChangePassword(p)
    <3>1. PICK step \in {"logout", "logoutAll", "checkPassword"},
               d \in Devices \cup {NoDevice} : StartGuarded(p, step, d)
      BY <2>1 DEF StartLogout, StartLogoutAll, StartChangePassword
    <3>2. [Idle EXCEPT !.at = step, !.device = d].at = step
      BY DEF Idle
    <3> QED
      BY <1>7, <3>1, <3>2 DEF StartGuarded
  <2>2. CASE Logout(p) \/ Fail(p)
    BY <1>7, <2>2 DEF Logout, Fail, Idle
  <2>3. CASE CheckOldPassword(p)
    <3> DEFINE r == [req[p] EXCEPT !.at = "changePassword", !.password = password]
    <3>1. r.at = "changePassword" /\ req' = [req EXCEPT ![p] = r]
      BY <2>3 DEF CheckOldPassword, Request
    <3> QED
      BY <1>7, <2>3, <3>1 DEF CheckOldPassword
  <2> QED
    BY <1>8, <2>1, <2>2, <2>3
<1>9. ASSUME NEW p \in Reqs,
             LogoutTokens(p) \/ LogoutAllTokens(p) \/ ChangePasswordTokens(p)
      PROVE  VersionInv' /\ (PasswordInv => PasswordInv')
  BY <1>7, <1>9, TakeRowsStep
<1>10. CASE ChangeStatus \/ Lapse \/ UNCHANGED vars
  BY <1>10 DEF ChangeStatus, Lapse, vars, userVars, tokenVars
<1> QED
  BY <1>1, <1>2, <1>3, <1>4, <1>5, <1>6, <1>7, <1>8, <1>9, <1>10 DEF Next

LEMMA VersionInit == Init => VersionInv /\ PasswordInv
BY DEF Init, VersionInv, PasswordInv, AcceptedTokenKnowsPassword, InTx, Idle

\* A token the API accepts descends from a login that verified the password
\* the account has now, however login, refresh and change of password overlap.
THEOREM AcceptedTokenKnowsPasswordAlways == Spec => []AcceptedTokenKnowsPassword
<1> DEFINE I == TypeOK /\ DeviceInv /\ VersionInv /\ PasswordInv
<1>1. Init => I
  BY TypeInit, VersionInit
<1>2. I /\ [Next]_vars => I'
  BY TypeStep, VersionStep
<1>3. I => AcceptedTokenKnowsPassword
  BY DEF PasswordInv
<1> QED
  BY <1>1, <1>2, <1>3, PTL DEF Spec

-----------------------------------------------------------------------------
(* Identifiers.                                                            *)

\* The pair a commit delivers takes its jti with it.
LEMMA SaveJti ==
  ASSUME TypeOK, JtiInv, NEW p \in Reqs, SaveSession(p)
  PROVE  JtiInv'
<1> USE DEF JtiInv, TypeOK
<1> DEFINE r == req[p]
           t == [jti |-> r.jti, family |-> r.family, device |-> r.device,
                 version |-> r.version, parent |-> r.parent,
                 password |-> r.password]
<1>1. tokens' = tokens \cup {t} /\ t.jti = req[p].jti
  BY DEF SaveSession
<1> HIDE DEF t
<1>2. /\ minted' = minted /\ req[p].at = "write" /\ req'[p].at = "idle"
      /\ \A q \in Reqs \ {p} : req'[q] = req[q]
  BY DEF SaveSession, Idle
<1> QED
  BY <1>1, <1>2

\* A jti is drawn once, is written by the handler that drew it, and reaches
\* one client.
LEMMA JtiStep ==
  ASSUME TypeOK, JtiInv, [Next]_vars
  PROVE  JtiInv'
<1> USE DEF JtiInv, TypeOK
<1>1. ASSUME NEW p \in Reqs, NEW r, req' = [req EXCEPT ![p] = r], r.at # "write",
             UNCHANGED <<tokens, minted>>
      PROVE  JtiInv'
  BY <1>1
<1>2. ASSUME NEW p \in Reqs, SignTokens(p)
      PROVE  JtiInv'
  <2>1. PICK v \in Victims(req[p].device) :
          req' = [req EXCEPT ![p] =
                    [@ EXCEPT !.at = "write", !.version = SignedVersion(p),
                              !.jti = SignedJti(p),
                              !.family = SignedFamily(p), !.victim = v]]
    BY <1>2 DEF SignTokens
  <2>2. /\ req'[p].at = "write" /\ req'[p].jti = minted + 1
        /\ \A q \in Reqs \ {p} : req'[q] = req[q]
        /\ minted' = minted + 1 /\ minted + 1 <= MaxJti /\ tokens' = tokens
    BY <1>2, <2>1, SessionAssumptions DEF SignTokens, SignedJti, Request
  <2>3. \A q \in Reqs \ {p} : req[q].at = "write" => req[q].jti # minted + 1
    OBVIOUS
  <2>4. \A t \in tokens : t.jti # minted + 1
    OBVIOUS
  <2> QED
    BY <2>2, <2>3, <2>4
<1>3. ASSUME NEW p \in Reqs, CommitSession(p)
      PROVE  JtiInv'
  BY <1>3, SaveJti DEF CommitSession
<1>4. ASSUME NEW p \in Reqs,
             \/ \E d \in Devices : LoginRead(p, d)
             \/ \E t \in tokens : RotateReadUser(p, t)
             \/ RotateBreach(p) \/ RotateAccept(p)
             \/ CheckOldPassword(p)
      PROVE  JtiInv'
  <2>1. ASSUME NEW d \in Devices, LoginRead(p, d)
        PROVE  JtiInv'
    BY <1>1, <2>1 DEF LoginRead, Idle, tokenVars
  <2>2. ASSUME NEW t \in tokens, RotateReadUser(p, t)
        PROVE  JtiInv'
    BY <1>1, <2>2 DEF RotateReadUser, Idle, tokenVars
  <2>3. CASE RotateBreach(p)
    BY <1>1, <2>3 DEF RotateBreach, Request, tokenVars
  <2>4. CASE RotateAccept(p)
    BY <1>1, <2>4 DEF RotateAccept, Request, tokenVars
  <2>5. CASE CheckOldPassword(p)
    BY <1>1, <2>5 DEF CheckOldPassword, Request, tokenVars
  <2> QED
    BY <1>4, <2>1, <2>2, <2>3, <2>4, <2>5
<1>5. ASSUME NEW p \in Reqs, NEW step \in {"logout", "logoutAll", "checkPassword"},
             NEW d, StartGuarded(p, step, d)
      PROVE  JtiInv'
  BY <1>1, <1>5 DEF StartGuarded, Idle, tokenVars
<1>6. ASSUME NEW p \in Reqs,
             Logout(p) \/ LogoutAll(p) \/ ChangePassword(p) \/ Fail(p)
      PROVE  JtiInv'
  BY <1>1, <1>6 DEF Logout, LogoutAll, ChangePassword, Fail, Idle, tokenVars
<1>7. ASSUME NEW p \in Reqs,
             LogoutTokens(p) \/ LogoutAllTokens(p) \/ ChangePasswordTokens(p)
      PROVE  JtiInv'
  BY <1>1, <1>7, TakeRowsStep DEF tokenVars
<1>8. CASE ChangeStatus \/ Lapse \/ UNCHANGED vars
  BY <1>8 DEF ChangeStatus, Lapse, vars, tokenVars
<1> QED
  BY <1>2, <1>3, <1>4, <1>5, <1>6, <1>7, <1>8
     DEF Next, StartLogout, StartLogoutAll, StartChangePassword

LEMMA JtiInit == Init => JtiInv
BY SessionAssumptions DEF Init, JtiInv, Idle

LEMMA JtiInvariant == Spec => [](TypeOK /\ DeviceInv /\ JtiInv)
<1>1. TypeOK /\ DeviceInv /\ JtiInv /\ [Next]_vars => (TypeOK /\ DeviceInv /\ JtiInv)'
  BY TypeStep, JtiStep
<1> QED
  BY TypeInit, JtiInit, <1>1, PTL DEF Spec

\* A commit writes a jti that no delivered pair has.
LEMMA SaveSupersedes ==
  ASSUME TypeOK, JtiInv, NEW p \in Reqs, SaveSession(p),
         NEW t \in tokens, refreshRow[t.device].jti # t.jti
  PROVE  refreshRow'[t.device].jti # t.jti
<1>1. t.device \in Devices
  BY DEF TypeOK, Token
<1>2. CASE t.device = req[p].device
  <2>1. refreshRow'[t.device].jti = req[p].jti /\ req[p].at = "write"
    BY <1>1, <1>2 DEF SaveSession
  <2> QED
    BY <2>1 DEF JtiInv
<1>3. CASE t.device # req[p].device
  <2>1. refreshRow'[t.device].jti = refreshRow[t.device].jti
    BY <1>1, <1>3 DEF SaveSession, TypeOK, RefreshRow
  <2> QED
    BY <2>1
<1> QED
  BY <1>2, <1>3

\* The other writes of the rows leave their jti alone.
LEMMA SupersededStep ==
  ASSUME TypeOK, JtiInv, [Next]_vars,
         NEW t \in tokens, refreshRow[t.device].jti # t.jti
  PROVE  refreshRow'[t.device].jti # t.jti
<1>1. t.device \in Devices
  BY DEF TypeOK, Token
<1>2. ASSUME NEW p \in Reqs, CommitSession(p)
      PROVE  refreshRow'[t.device].jti # t.jti
  BY <1>2, SaveSupersedes DEF CommitSession
<1>3. ASSUME NEW R, NEW D, RevokeRows(R, D)
      PROVE  refreshRow'[t.device].jti # t.jti
  BY <1>1, <1>3 DEF RevokeRows, TypeOK, RefreshRow
<1>4. CASE UNCHANGED refreshRow
  BY <1>4
<1>5. \/ UNCHANGED refreshRow
      \/ \E R, D : RevokeRows(R, D)
      \/ \E p \in Reqs : CommitSession(p)
  BY DEF Next, LoginRead, RotateReadUser, RotateBreach, RotateAccept,
         SignTokens, StartLogout, StartLogoutAll, StartChangePassword,
         StartGuarded, CheckOldPassword, Logout, LogoutAll, ChangePassword,
         LogoutTokens, LogoutAllTokens, ChangePasswordTokens, TakeRows,
         Fail, ChangeStatus, Lapse, vars, rowVars
<1> QED
  BY <1>2, <1>3, <1>4, <1>5

\* No handler, however late its write, makes a replaced refresh token the
\* device's token again.
THEOREM SupersededStaysDeadAlways == Spec => SupersededStaysDead
<1>1. TypeOK /\ DeviceInv /\ JtiInv /\ [Next]_vars
      => [\A t \in tokens : ~Current(t) => ~Current(t)']_vars
  BY SupersededStep DEF Current
<1> QED
  BY JtiInvariant, <1>1, PTL DEF Spec, SupersededStaysDead

-----------------------------------------------------------------------------
(* The session layer implements its contract.                              *)

LEMMA ContractInitially == Init => Contract!ContractInit
BY DEF Init, Contract!ContractInit, Vouched, Idle

\* A step that delivers no pair, moves no version and sends no promise, and
\* that touches one handler, is a check, a drop, or nothing to the contract.
LEMMA HandlerStep ==
  ASSUME TypeOK, NEW p \in Reqs, NEW r, req' = [req EXCEPT ![p] = r],
         UNCHANGED <<tokens, tokenVersion, terminations>>
  PROVE  [Contract!ContractNext]_Contract!contractVars
<1>1. \A q \in Reqs \ {p} : q \in Vouched <=> q \in Vouched'
  BY DEF Vouched, TypeOK
<1>2. Vouched \subseteq Reqs /\ Vouched' \subseteq Reqs
  BY DEF Vouched
<1>3. Vouched' = Vouched \cup {p} \/ Vouched' = Vouched \ {p}
  BY <1>1, <1>2
<1>4. Contract!Vouch(p) \/ Contract!Drop(p)
  BY <1>3 DEF Contract!Vouch, Contract!Drop
<1> QED
  BY <1>4 DEF Contract!ContractNext

\* The promise to end every session ends them: no token and no check in
\* flight carries the new version.
LEMMA TerminationStep ==
  ASSUME TypeOK, VersionInv, NEW p \in Reqs, LogoutAll(p) \/ ChangePassword(p)
  PROVE  Contract!TerminateAll
<1>1. /\ tokenVersion' = tokenVersion + 1
      /\ tokens' = tokens
      /\ terminations' = terminations + 1
      /\ req' = [req EXCEPT ![p] = Idle]
  BY DEF LogoutAll, ChangePassword, NewVersion, tokenVars
<1>2. \A t \in tokens : t.version # tokenVersion + 1
  BY DEF VersionInv, TypeOK, Token
<1>3. Vouched' = {}
  <2>1. \A q \in Reqs : InTx(q) => req[q].version # tokenVersion + 1
    BY DEF VersionInv, TypeOK, Request
  <2> QED
    BY <1>1, <2>1 DEF Vouched, InTx, TypeOK, Idle
<1> QED
  BY <1>1, <1>2, <1>3 DEF Contract!TerminateAll

\* A commit delivers one pair: accepted if the check behind it still counts,
\* dead otherwise.
LEMMA CommitStep ==
  ASSUME TypeOK, DeviceInv, JtiInv, NEW p \in Reqs, SaveSession(p),
         tokenVersion' = tokenVersion
  PROVE  Contract!ContractNext
<1> DEFINE r == req[p]
           t == [jti |-> r.jti, family |-> r.family, device |-> r.device,
                 version |-> r.version, parent |-> r.parent,
                 password |-> r.password]
           issued == {u.jti : u \in tokens}
           live == {u.jti : u \in {w \in tokens : w.version = tokenVersion}}
<1>1. /\ tokens' = tokens \cup {t}
      /\ t.jti = r.jti /\ t.version = r.version
      /\ tokenVersion' = tokenVersion /\ terminations' = terminations
      /\ req' = [req EXCEPT ![p] = Idle]
      /\ r.at = "write"
  BY DEF SaveSession
<1>2. PICK id \in 1 .. MaxJti : id = r.jti /\ id \notin issued
  BY <1>1, SessionAssumptions DEF JtiInv, TypeOK
<1>3. Vouched' = Vouched \ {p}
  BY <1>1 DEF Vouched, TypeOK, Idle
<1> HIDE DEF t
<1>4. issued' = issued \cup {id}
  BY <1>1, <1>2
<1>5. CASE r.version = tokenVersion
  <2>1. p \in Vouched
    BY <1>1, <1>5 DEF Vouched
  <2>2. live' = live \cup {id}
    <3>1. {w \in tokens' : w.version = tokenVersion'}
          = {w \in tokens : w.version = tokenVersion} \cup {t}
      BY <1>1, <1>5
    <3> QED
      BY <1>1, <1>2, <3>1
  <2>3. Contract!Grant(p, id)
    BY <1>1, <1>2, <1>3, <1>4, <2>1, <2>2 DEF Contract!Grant
  <2> QED
    BY <2>3 DEF Contract!ContractNext
<1>6. CASE r.version # tokenVersion
  <2>1. p \notin Vouched
    BY <1>6 DEF Vouched
  <2>2. live' = live
    <3>1. {w \in tokens' : w.version = tokenVersion'}
          = {w \in tokens : w.version = tokenVersion}
      BY <1>1, <1>6
    <3> QED
      BY <3>1
  <2>3. Vouched' = Vouched
    BY <1>3, <2>1
  <2>4. Contract!IssueDead(id)
    BY <1>1, <1>2, <1>4, <2>2, <2>3 DEF Contract!IssueDead
  <2> QED
    BY <2>4 DEF Contract!ContractNext
<1> QED
  BY <1>5, <1>6

\* Every step of the sessions is a step of the contract, or nothing to it.
LEMMA ContractStep ==
  ASSUME TypeOK, DeviceInv, VersionInv, JtiInv, [Next]_vars
  PROVE  [Contract!ContractNext]_Contract!contractVars
<1>1. ASSUME NEW p \in Reqs, CommitSession(p)
      PROVE  Contract!ContractNext
  BY <1>1, CommitStep DEF CommitSession, userVars
<1>2. ASSUME NEW p \in Reqs, LogoutAll(p) \/ ChangePassword(p)
      PROVE  Contract!ContractNext
  BY <1>2, TerminationStep DEF Contract!ContractNext
<1>3. ASSUME NEW p \in Reqs,
             \/ \E d \in Devices : LoginRead(p, d)
             \/ \E t \in tokens : RotateReadUser(p, t)
             \/ RotateBreach(p) \/ RotateAccept(p) \/ SignTokens(p)
             \/ \E d \in Devices : StartLogout(p, d)
             \/ StartLogoutAll(p) \/ StartChangePassword(p)
             \/ Logout(p) \/ CheckOldPassword(p) \/ Fail(p)
      PROVE  [Contract!ContractNext]_Contract!contractVars
  <2>1. \E r : req' = [req EXCEPT ![p] = r]
    BY <1>3 DEF LoginRead, RotateReadUser, RotateBreach, RotateAccept,
                SignTokens, StartLogout, StartLogoutAll,
                StartChangePassword, StartGuarded, Logout,
                CheckOldPassword, Fail
  <2>2. UNCHANGED <<tokens, tokenVersion, terminations>>
    BY <1>3 DEF LoginRead, RotateReadUser, RotateBreach, RotateAccept,
                SignTokens, StartLogout, StartLogoutAll,
                StartChangePassword, StartGuarded, Logout,
                CheckOldPassword, Fail, userVars, tokenVars
  <2> QED
    BY <2>1, <2>2, HandlerStep
<1>4. ASSUME NEW p \in Reqs,
             LogoutTokens(p) \/ LogoutAllTokens(p) \/ ChangePasswordTokens(p)
      PROVE  [Contract!ContractNext]_Contract!contractVars
  BY <1>4, TakeRowsStep, HandlerStep DEF userVars, tokenVars
<1>5. CASE ChangeStatus \/ Lapse \/ UNCHANGED vars
  BY <1>5 DEF ChangeStatus, Lapse, vars, userVars, tokenVars,
              Contract!contractVars, Vouched
<1> QED
  BY <1>1, <1>2, <1>3, <1>4, <1>5 DEF Next

\* Tokens are accepted from their grant to the next termination and no
\* longer, and a grant takes a check that no termination has overtaken.
THEOREM ImplementsContractAlways == Spec => ImplementsContract
<1>1. TypeOK /\ DeviceInv /\ VersionInv /\ JtiInv /\ [Next]_vars
      => [Contract!ContractNext]_Contract!contractVars
  BY ContractStep
<1>2. TypeOK /\ DeviceInv /\ VersionInv /\ PasswordInv /\ JtiInv /\ [Next]_vars
      => (TypeOK /\ DeviceInv /\ VersionInv /\ PasswordInv /\ JtiInv)'
  BY TypeStep, VersionStep, JtiStep
<1> QED
  BY TypeInit, VersionInit, JtiInit, ContractInitially, <1>1, <1>2, PTL
     DEF Spec, ImplementsContract, Contract!ContractSpec

\* No step of the contract makes a dead token live.
LEMMA ContractDeadStaysDead ==
  [Contract!ContractNext]_Contract!contractVars
  => [({t.jti : t \in tokens} \ {t.jti : t \in {u \in tokens : u.version = tokenVersion}})
       \cap {t.jti : t \in {u \in tokens : u.version = tokenVersion}}' = {}]_Contract!contractVars
<1> DEFINE issued == {t.jti : t \in tokens}
           live == {t.jti : t \in {u \in tokens : u.version = tokenVersion}}
<1> SUFFICES ASSUME Contract!ContractNext
             PROVE  (issued \ live) \cap live' = {}
  BY DEF Contract!contractVars
<1>1. live' = live \/ live' = {} \/ \E id : id \notin issued /\ live' = live \cup {id}
  BY DEF Contract!ContractNext, Contract!TerminateAll, Contract!Vouch,
         Contract!Drop, Contract!Grant, Contract!IssueDead
<1> HIDE DEF issued, live
<1> QED
  BY <1>1

\* The contract's own promise, carried over: a pair the API no longer accepts
\* is never accepted again.
THEOREM DeadStaysDeadAlways == Spec => Contract!DeadStaysDead
BY ImplementsContractAlways, ContractDeadStaysDead, PTL
   DEF ImplementsContract, Contract!ContractSpec, Contract!DeadStaysDead

-----------------------------------------------------------------------------
(* Families.                                                               *)

\* A commit delivers the family its transaction was opened with.
LEMMA FamilyCommit ==
  ASSUME TypeOK, FamilyInv, NEW p \in Reqs, SaveSession(p)
  PROVE  FamilyInv'
<1> USE DEF FamilyInv, FamilyIsOneLogin, InTx, TypeOK
<1> DEFINE r == req[p]
           t == [jti |-> r.jti, family |-> r.family, device |-> r.device,
                 version |-> r.version, parent |-> r.parent,
                 password |-> r.password]
<1>1. /\ tokens' = tokens \cup {t} /\ minted' = minted
      /\ t.family = r.family /\ t.device = r.device
      /\ t.version = r.version /\ t.password = r.password
  BY DEF SaveSession
<1>2. /\ r.at = "write" /\ req'[p].at = "idle"
      /\ \A q \in Reqs \ {p} : req'[q] = req[q]
  BY DEF SaveSession, Idle
<1>3. r.family \in 1 .. minted
  BY <1>2 DEF Request
<1> HIDE DEF t
<1>4. \A u \in tokens : u.family = t.family =>
        u.device = t.device /\ u.version = t.version /\ u.password = t.password
  BY <1>1, <1>2, <1>3
<1>5. \A q \in Reqs : InTx(q) /\ req[q].family = t.family =>
        /\ req[q].device = t.device
        /\ req[q].version = t.version
        /\ req[q].password = t.password
  BY <1>1, <1>2, <1>3
<1> QED
  BY <1>1, <1>2, <1>3, <1>4, <1>5

\* A family is extended by rotations of its own tokens only.
LEMMA FamilyStep ==
  ASSUME TypeOK, VersionInv, JtiInv, FamilyInv, [Next]_vars
  PROVE  FamilyInv'
<1> USE DEF FamilyInv, FamilyIsOneLogin, InTx, TypeOK
<1>1. ASSUME NEW p \in Reqs, NEW r, req' = [req EXCEPT ![p] = r],
             r.at \notin {"lookup", "mint", "write"},
             UNCHANGED <<tokens, minted>>
      PROVE  FamilyInv'
  BY <1>1
<1>2. ASSUME NEW p \in Reqs, NEW d \in Devices, LoginRead(p, d)
      PROVE  FamilyInv'
  <2>1. /\ req'[p].family = 0 /\ req'[p].at = "mint"
        /\ \A q \in Reqs \ {p} : req'[q] = req[q]
        /\ UNCHANGED <<tokens, minted>>
    BY <1>2 DEF LoginRead, Idle, tokenVars
  <2> QED
    BY <2>1
<1>3. ASSUME NEW p \in Reqs, NEW t \in tokens, RotateReadUser(p, t)
      PROVE  FamilyInv'
  <2>1. /\ req'[p].family = t.family /\ req'[p].device = t.device
        /\ req'[p].version = t.version /\ req'[p].password = t.password
        /\ req'[p].at = "lookup"
    BY <1>3 DEF RotateReadUser, Accepts, Idle
  <2>2. /\ \A q \in Reqs \ {p} : req'[q] = req[q]
        /\ UNCHANGED <<tokens, minted>>
    BY <1>3 DEF RotateReadUser, tokenVars
  <2>3. t.family \in 1 .. minted
    OBVIOUS
  <2> QED
    BY <2>1, <2>2, <2>3
<1>4. ASSUME NEW p \in Reqs, RotateAccept(p)
      PROVE  FamilyInv'
  <2>1. /\ req'[p].family = req[p].family /\ req'[p].device = req[p].device
        /\ req'[p].version = req[p].version /\ req'[p].password = req[p].password
        /\ req[p].at = "lookup" /\ req'[p].at = "mint"
        /\ \A q \in Reqs \ {p} : req'[q] = req[q]
        /\ UNCHANGED <<tokens, minted>>
    BY <1>4 DEF RotateAccept, Request, tokenVars
  <2> QED
    BY <2>1
<1>5. ASSUME NEW p \in Reqs, SignTokens(p)
      PROVE  FamilyInv'
  <2>1. PICK v \in Victims(req[p].device) :
          req' = [req EXCEPT ![p] =
                    [@ EXCEPT !.at = "write", !.version = SignedVersion(p),
                              !.jti = SignedJti(p),
                              !.family = SignedFamily(p), !.victim = v]]
    BY <1>5 DEF SignTokens
  <2>2. /\ req'[p].family = SignedFamily(p) /\ req'[p].device = req[p].device
        /\ req'[p].version = req[p].version /\ req'[p].password = req[p].password
        /\ req[p].at = "mint" /\ req'[p].at = "write"
        /\ \A q \in Reqs \ {p} : req'[q] = req[q]
        /\ tokens' = tokens /\ minted' = minted + 1
    BY <1>5, <2>1 DEF SignTokens, SignedVersion, Request
  <2>3. \A q \in Reqs : req[q].family \in Nat
    BY DEF Request
  <2>4. CASE req[p].family > 0
    <3>1. req'[p].family = req[p].family
      BY <2>2, <2>4 DEF SignedFamily
    <3> QED
      BY <2>2, <2>3, <2>4, <3>1
  <2>5. CASE ~(req[p].family > 0)
    <3>1. req'[p].family = minted + 1
      BY <2>2, <2>5 DEF SignedFamily
    <3>2. /\ \A t \in tokens : t.family # minted + 1
          /\ \A q \in Reqs : InTx(q) => req[q].family # minted + 1
      BY <2>3
    <3> QED
      BY <2>2, <2>3, <3>1, <3>2
  <2> QED
    BY <2>4, <2>5
<1>6. ASSUME NEW p \in Reqs, CommitSession(p)
      PROVE  FamilyInv'
  BY <1>6, FamilyCommit DEF CommitSession
<1>7. ASSUME NEW p \in Reqs, NEW d, StartLogout(p, d) \/ StartLogoutAll(p)
                                    \/ StartChangePassword(p)
      PROVE  FamilyInv'
  <2>1. PICK step \in {"logout", "logoutAll", "checkPassword"} :
          \E e : StartGuarded(p, step, e)
    BY <1>7 DEF StartLogout, StartLogoutAll, StartChangePassword
  <2>2. \A e : [Idle EXCEPT !.at = step, !.device = e].at = step
    BY DEF Idle
  <2> QED
    BY <1>1, <2>1, <2>2 DEF StartGuarded, tokenVars
<1>8. ASSUME NEW p \in Reqs,
             Logout(p) \/ LogoutAll(p) \/ ChangePassword(p) \/ Fail(p)
      PROVE  FamilyInv'
  BY <1>1, <1>8 DEF Logout, LogoutAll, ChangePassword, Fail, Idle, tokenVars
<1>9. ASSUME NEW p \in Reqs, RotateBreach(p) \/ CheckOldPassword(p)
      PROVE  FamilyInv'
  <2>1. PICK r : /\ req' = [req EXCEPT ![p] = r]
                 /\ r.at \in {"breach", "changePassword"}
    <3>1. CASE RotateBreach(p)
      <4>1. [req[p] EXCEPT !.at = "breach"].at = "breach"
        BY DEF Request
      <4> QED
        BY <3>1, <4>1 DEF RotateBreach
    <3>2. CASE CheckOldPassword(p)
      <4>1. [req[p] EXCEPT !.at = "changePassword",
                           !.password = password].at = "changePassword"
        BY DEF Request
      <4> QED
        BY <3>2, <4>1 DEF CheckOldPassword
    <3> QED
      BY <1>9, <3>1, <3>2
  <2> QED
    BY <1>1, <1>9, <2>1 DEF RotateBreach, CheckOldPassword, tokenVars
<1>10. CASE ChangeStatus \/ Lapse \/ UNCHANGED vars
  BY <1>10 DEF ChangeStatus, Lapse, vars, tokenVars
<1>11. ASSUME NEW p \in Reqs,
              LogoutTokens(p) \/ LogoutAllTokens(p) \/ ChangePasswordTokens(p)
       PROVE  FamilyInv'
  BY <1>1, <1>11, TakeRowsStep DEF tokenVars
<1> QED
  BY <1>2, <1>3, <1>4, <1>5, <1>6, <1>7, <1>8, <1>9, <1>10, <1>11 DEF Next

\* All parts of the invariant together.
THEOREM InductiveInvariant == Spec => []IInv
<1>1. Init => IInv
  <2>1. Init => FamilyInv
    BY DEF Init, FamilyInv, FamilyIsOneLogin, InTx, Idle
  <2>2. Init => RowsInv
    BY DEF Init, RowsInv, Idle
  <2> QED
    BY <2>1, <2>2, TypeInit, VersionInit, JtiInit DEF IInv
<1>2. IInv /\ [Next]_vars => IInv'
  BY TypeStep, RowsInvStep, VersionStep, JtiStep, FamilyStep DEF IInv
<1> QED
  BY <1>1, <1>2, PTL DEF Spec

\* Every token of a family descends from the same login: same device, same
\* version, same verified password.
THEOREM FamilyIsOneLoginAlways == Spec => []FamilyIsOneLogin
<1>1. IInv => FamilyIsOneLogin
  BY DEF IInv, FamilyInv
<1> QED
  BY InductiveInvariant, <1>1, PTL

-----------------------------------------------------------------------------
(* Requests that do not overlap.                                           *)

\* At most one request is in flight.
Serial == \A p, q \in Reqs : p = q

\* The devices a handler with this device is about.
TargetsOf(device) == IF device = NoDevice THEN Devices ELSE {device}

\* What one handler has read is still so: nothing else ran since.
Sound(r) ==
    /\ r.at \in {"lookup", "mint", "write"} => r.version = tokenVersion
    /\ r.at \in {"mint", "write"} /\ r.parent > 0 =>
          /\ refreshRow[r.device].jti = r.parent
          /\ ~refreshRow[r.device].revoked
    /\ r.at = "write" =>
          Cardinality(ActiveDevices \ {r.device, r.victim}) < MaxDevices
    /\ r.at \in {"logoutAll", "checkPassword", "changePassword",
                 "endLogoutAll", "endChange"} => r.device = NoDevice
    /\ r.at \in {"endLogout", "endLogoutAll", "endChange"} =>
          r.rows = {d \in TargetsOf(r.device) : refreshRow[d].jti > 0}

\* A row that was never written is not active.
EmptyIsRevoked == \A d \in Devices : refreshRow[d].jti = 0 => refreshRow[d].revoked

\* A row holds a pair that was delivered, and the account accepts the pair
\* as long as the row is not revoked.
RowsAreDelivered ==
    \A d \in Devices : refreshRow[d].jti > 0 =>
        \E t \in tokens :
            /\ t.jti = refreshRow[d].jti
            /\ t.device = d
            /\ ~refreshRow[d].revoked => t.version = tokenVersion

\* A token that was exchanged was delivered before, and no row holds it.
ParentsAreGone ==
    \A t \in tokens : t.parent > 0 =>
        /\ \E u \in tokens : u.jti = t.parent
        /\ \A d \in Devices : refreshRow[d].jti # t.parent

SerialInv ==
    /\ RowsAgree /\ DeviceLimit /\ SingleUse
    /\ EmptyIsRevoked /\ RowsAreDelivered /\ ParentsAreGone
    /\ \A p \in Reqs : Sound(req[p])

LEMMA SerialInit == Init => SerialInv
<1> SUFFICES ASSUME Init
             PROVE  SerialInv
  OBVIOUS
<1>1. \A d \in Devices : /\ refreshRow[d].jti = 0 /\ refreshRow[d].revoked = TRUE
                         /\ sessionRow[d].active = FALSE
  BY DEF Init, NoRefreshRow, NoSessionRow
<1>2. ActiveDevices = {}
  BY <1>1 DEF ActiveDevices
<1>3. DeviceLimit
  BY <1>2, FS_EmptySet, SessionAssumptions DEF DeviceLimit
<1>4. \A p \in Reqs : Sound(req[p])
  BY DEF Init, Sound, Idle
<1>5. tokens = {}
  BY DEF Init
<1>6. RowsAgree
  BY <1>1, Zenon DEF RowsAgree
<1> QED
  BY <1>1, <1>3, <1>4, <1>5, <1>6
     DEF SerialInv, SingleUse, EmptyIsRevoked, RowsAreDelivered, ParentsAreGone

\* Fewer active devices than before: a step that activates none.
LEMMA ActiveShrink ==
  ASSUME ActiveDevices' \subseteq ActiveDevices
  PROVE  /\ DeviceLimit => DeviceLimit'
         /\ \A X : /\ Cardinality(ActiveDevices' \ X) \in Nat
                   /\ Cardinality(ActiveDevices' \ X) <= Cardinality(ActiveDevices \ X)
                   /\ Cardinality(ActiveDevices \ X) \in Nat
<1>1. IsFiniteSet(ActiveDevices)
  BY SessionAssumptions, FS_Subset, ActiveDevices \in SUBSET Devices DEF ActiveDevices
<1>2. ASSUME NEW X
      PROVE  /\ Cardinality(ActiveDevices' \ X) \in Nat
             /\ Cardinality(ActiveDevices' \ X) <= Cardinality(ActiveDevices \ X)
             /\ Cardinality(ActiveDevices \ X) \in Nat
  <2>1. /\ ActiveDevices \ X \in SUBSET ActiveDevices
        /\ ActiveDevices' \ X \in SUBSET (ActiveDevices \ X)
    OBVIOUS
  <2>2. IsFiniteSet(ActiveDevices \ X)
    BY <1>1, <2>1, FS_Subset
  <2> QED
    BY <2>1, <2>2, FS_Subset, FS_CardinalityType
<1>3. ActiveDevices' \ {} = ActiveDevices' /\ ActiveDevices \ {} = ActiveDevices
  OBVIOUS
<1>4. DeviceLimit => DeviceLimit'
  <2>1. /\ Cardinality(ActiveDevices' \ {}) \in Nat
        /\ Cardinality(ActiveDevices' \ {}) <= Cardinality(ActiveDevices \ {})
        /\ Cardinality(ActiveDevices \ {}) \in Nat
    BY <1>2
  <2> QED
    BY <1>3, <2>1, SessionAssumptions DEF DeviceLimit
<1> QED
  BY <1>2, <1>4

\* A step of the one handler that leaves rows and tokens alone.
LEMMA SerialHandler ==
  ASSUME Serial, TypeOK, SerialInv, NEW p \in Reqs, NEW r, req' = [req EXCEPT ![p] = r],
         Sound(r), UNCHANGED <<rowVars, tokens, tokenVersion, lapsed>>
  PROVE  SerialInv'
<1>1. \A q \in Reqs : req'[q] = r
  BY DEF Serial, TypeOK
<1>2. ActiveDevices' = ActiveDevices
  BY DEF ActiveDevices, rowVars
<1>3. \A q \in Reqs : Sound(req[q])'
  BY <1>1, <1>2 DEF Sound, rowVars, TargetsOf
<1>4. RowsAgree' /\ DeviceLimit' /\ SingleUse' /\ EmptyIsRevoked' /\ RowsAreDelivered' /\ ParentsAreGone'
  BY <1>2 DEF SerialInv, RowsAgree, DeviceLimit, SingleUse, EmptyIsRevoked,
              RowsAreDelivered, ParentsAreGone, rowVars
<1> QED
  BY <1>3, <1>4 DEF SerialInv

\* Signing a pair: whoever makes room brings the others below the limit.
LEMMA SerialSign ==
  ASSUME Serial, TypeOK, DeviceInv, SerialInv, NEW p \in Reqs, SignTokens(p)
  PROVE  SerialInv'
<1>1. PICK v \in Victims(req[p].device) :
        req' = [req EXCEPT ![p] =
                  [@ EXCEPT !.at = "write", !.version = SignedVersion(p),
                            !.jti = SignedJti(p),
                            !.family = SignedFamily(p), !.victim = v]]
  BY DEF SignTokens
<1> DEFINE d == req[p].device
           r == [req[p] EXCEPT !.at = "write", !.version = SignedVersion(p),
                               !.jti = SignedJti(p),
                               !.family = SignedFamily(p), !.victim = v]
<1>2. req[p] \in Request /\ req[p].at = "mint" /\ d \in Devices
  BY DEF TypeOK, SignTokens, DeviceInv
<1>3. /\ r.at = "write" /\ r.version = req[p].version /\ r.parent = req[p].parent
      /\ r.device = d /\ r.victim = v
  BY <1>2 DEF Request, SignedVersion
<1>4. IsFiniteSet(ActiveDevices) /\ Cardinality(ActiveDevices) \in Nat
  <2>1. IsFiniteSet(ActiveDevices)
    BY SessionAssumptions, FS_Subset, ActiveDevices \in SUBSET Devices DEF ActiveDevices
  <2> QED
    BY <2>1, FS_CardinalityType
<1>5. Cardinality(ActiveDevices \ {d, v}) < MaxDevices
  <2>1. ASSUME NEW e \in ActiveDevices, e \in {d, v}
        PROVE  Cardinality(ActiveDevices \ {d, v}) < Cardinality(ActiveDevices)
    <3>1. /\ IsFiniteSet(ActiveDevices \ {e})
          /\ Cardinality(ActiveDevices \ {e}) = Cardinality(ActiveDevices) - 1
      BY <1>4, <2>1, FS_RemoveElement
    <3>2. ActiveDevices \ {d, v} \in SUBSET (ActiveDevices \ {e})
      BY <2>1
    <3>3. /\ Cardinality(ActiveDevices \ {d, v}) \in Nat
          /\ Cardinality(ActiveDevices \ {d, v}) <= Cardinality(ActiveDevices \ {e})
      <4>1. IsFiniteSet(ActiveDevices \ {d, v})
        BY <3>1, <3>2, FS_Subset
      <4> QED
        BY <3>1, <3>2, <4>1, FS_Subset, FS_CardinalityType
    <3> QED
      BY <1>4, <3>1, <3>3
  <2>2. Cardinality(ActiveDevices) <= MaxDevices
    BY DEF SerialInv, DeviceLimit
  <2>3. CASE d \in ActiveDevices \/ v \in ActiveDevices
    <3>1. Cardinality(ActiveDevices \ {d, v}) < Cardinality(ActiveDevices)
      BY <2>1, <2>3
    <3>2. Cardinality(ActiveDevices \ {d, v}) \in Nat
      BY <1>4, FS_Subset, FS_CardinalityType, ActiveDevices \ {d, v} \in SUBSET ActiveDevices
    <3> QED
      BY <1>4, <2>2, <3>1, <3>2, SessionAssumptions
  <2>4. CASE d \notin ActiveDevices /\ v \notin ActiveDevices
    <3>1. Cardinality(ActiveDevices) < MaxDevices
      BY <1>1, <2>4 DEF Victims
    <3>2. ActiveDevices \ {d, v} = ActiveDevices
      BY <2>4
    <3> QED
      BY <3>1, <3>2
  <2> QED
    BY <2>3, <2>4
<1>6. Sound(req[p])
  BY DEF SerialInv
<1>7. UNCHANGED <<rowVars, tokens, tokenVersion, lapsed>>
  BY DEF SignTokens, userVars
<1>8. req' = [req EXCEPT ![p] = r]
  BY <1>1
<1> HIDE DEF r
<1>9. Sound(r)
  BY <1>2, <1>3, <1>5, <1>6 DEF Sound
<1> QED
  BY <1>7, <1>8, <1>9, SerialHandler

\* A handler that ends or fails knows nothing.
LEMMA IdleSound == Sound(Idle)
BY DEF Sound, Idle

\* The commit of a session: the pair takes over the row of its device, and
\* the pair it was exchanged for is on no row any more.
LEMMA SerialCommit ==
  ASSUME Serial, TypeOK, DeviceInv, JtiInv, SerialInv, NEW p \in Reqs, CommitSession(p)
  PROVE  SerialInv'
<1> DEFINE r == req[p]
           t == [jti |-> r.jti, family |-> r.family, device |-> r.device,
                 version |-> r.version, parent |-> r.parent,
                 password |-> r.password]
           e == r.device
<1>1. /\ r \in Request /\ r.at = "write" /\ e \in Devices
      /\ r.jti \in 1 .. minted /\ \A u \in tokens : u.jti # r.jti
      /\ Sound(r)
  BY DEF CommitSession, SaveSession, TypeOK, DeviceInv, JtiInv, SerialInv
<1>2. /\ tokens' = tokens \cup {t} /\ tokenVersion' = tokenVersion
      /\ lapsed' = lapsed /\ req' = [req EXCEPT ![p] = Idle]
  BY DEF CommitSession, SaveSession, userVars
<1>3. t.jti = r.jti /\ t.device = e /\ t.version = r.version /\ t.parent = r.parent
  OBVIOUS
<1>4. r.jti \in Nat /\ r.jti > 0 /\ r.parent \in Nat /\ r.version = tokenVersion
  BY <1>1 DEF TypeOK, Request, Sound
<1>5. /\ refreshRow'[e].jti = r.jti /\ refreshRow'[e].revoked = FALSE
      /\ sessionRow'[e].active = TRUE
  BY <1>1 DEF CommitSession, SaveSession
<1>6. ASSUME NEW d \in Devices, d # e
      PROVE  /\ refreshRow'[d].jti = refreshRow[d].jti
             /\ \/ /\ d # r.victim
                   /\ refreshRow'[d].revoked = refreshRow[d].revoked
                   /\ sessionRow'[d].active = sessionRow[d].active
                \/ /\ refreshRow'[d].revoked = TRUE
                   /\ sessionRow'[d].active = FALSE
  <2>1. refreshRow[d] \in RefreshRow /\ sessionRow[d] \in SessionRow
    BY DEF TypeOK
  <2>2. CASE d = r.victim
    <3>1. /\ refreshRow'[d] = [refreshRow[d] EXCEPT !.revoked = TRUE]
          /\ sessionRow'[d] = [sessionRow[d] EXCEPT !.active = FALSE]
      BY <1>6, <2>2 DEF CommitSession, SaveSession
    <3> QED
      BY <2>1, <3>1 DEF RefreshRow, SessionRow
  <2>3. CASE d # r.victim
    <3>1. refreshRow'[d] = refreshRow[d] /\ sessionRow'[d] = sessionRow[d]
      BY <1>6, <2>3 DEF CommitSession, SaveSession
    <3> QED
      BY <2>3, <3>1
  <2> QED
    BY <2>2, <2>3
<1>k. ASSUME NEW d \in Devices, d # e
      PROVE  /\ refreshRow'[d].jti = refreshRow[d].jti
             /\ refreshRow[d].revoked => refreshRow'[d].revoked
  BY <1>6, <1>k
<1>7. /\ RowsAgree /\ DeviceLimit /\ SingleUse
      /\ EmptyIsRevoked /\ RowsAreDelivered /\ ParentsAreGone
  BY DEF SerialInv
<1>8. r.parent > 0 => refreshRow[e].jti = r.parent
  BY <1>1 DEF Sound
<1>9. ASSUME NEW d \in Devices
      PROVE  refreshRow[d].jti \in Nat
  BY DEF TypeOK, RefreshRow
<1>u. \A u, w \in tokens : u.jti = w.jti => u = w
  BY DEF JtiInv
<1>c. Cardinality(ActiveDevices \ {e, r.victim}) < MaxDevices
  BY <1>1 DEF Sound
<1>l. ActiveDevices' \subseteq (ActiveDevices \ {e, r.victim}) \cup {e}
  <2> SUFFICES ASSUME NEW d \in ActiveDevices', d # e
               PROVE  d \in ActiveDevices /\ d # r.victim
    OBVIOUS
  <2>1. d \in Devices /\ ~refreshRow'[d].revoked /\ refreshRow'[d].jti > lapsed
    BY <1>2 DEF ActiveDevices
  <2>2. CASE d = r.victim
    BY <1>6, <2>1, <2>2
  <2>3. CASE d # r.victim
    BY <1>6, <2>1, <2>3 DEF ActiveDevices
  <2> QED
    BY <2>2, <2>3
<1> HIDE DEF t, e, r
<1>10. RowsAgree'
  <2>1. ASSUME NEW d \in Devices
        PROVE  sessionRow'[d].active = ~refreshRow'[d].revoked
    <3>1. sessionRow[d].active = ~refreshRow[d].revoked
      BY <1>7 DEF RowsAgree
    <3>2. CASE d = e
      BY <1>5, <3>2, Zenon
    <3>3. CASE d # e
      BY <1>6, <3>1, <3>3, Zenon
    <3> QED
      BY <3>2, <3>3
  <2> QED
    BY <2>1 DEF RowsAgree
<1>11. EmptyIsRevoked'
  <2>1. ASSUME NEW d \in Devices, refreshRow'[d].jti = 0
        PROVE  refreshRow'[d].revoked
    <3>1. d # e
      BY <1>4, <1>5, <2>1
    <3>2. refreshRow[d].jti = 0
      BY <1>k, <2>1, <3>1
    <3>3. refreshRow[d].revoked
      BY <1>7, <3>2 DEF EmptyIsRevoked
    <3> QED
      BY <1>k, <3>1, <3>3
  <2> QED
    BY <2>1 DEF EmptyIsRevoked
<1>12. RowsAreDelivered'
  <2> SUFFICES ASSUME NEW d \in Devices, refreshRow'[d].jti > 0
               PROVE  \E u \in tokens' :
                        /\ u.jti = refreshRow'[d].jti
                        /\ u.device = d
                        /\ ~refreshRow'[d].revoked => u.version = tokenVersion'
    BY DEF RowsAreDelivered
  <2>1. CASE d = e
    BY <1>2, <1>3, <1>4, <1>5, <2>1
  <2>2. CASE d # e
    <3>1. refreshRow'[d].jti = refreshRow[d].jti
      BY <1>k, <2>2
    <3>2. PICK u \in tokens : /\ u.jti = refreshRow[d].jti
                              /\ u.device = d
                              /\ ~refreshRow[d].revoked => u.version = tokenVersion
      BY <1>7, <3>1 DEF RowsAreDelivered
    <3>3. ~refreshRow'[d].revoked => ~refreshRow[d].revoked
      BY <1>k, <2>2
    <3> QED
      BY <1>2, <3>1, <3>2, <3>3
  <2> QED
    BY <2>1, <2>2
<1>13. r.parent > 0 => \E u \in tokens : u.jti = r.parent /\ u.device = e
  BY <1>1, <1>7, <1>8 DEF RowsAreDelivered
<1>14. ParentsAreGone'
  <2> SUFFICES ASSUME NEW u \in tokens', u.parent > 0
               PROVE  /\ \E w \in tokens' : w.jti = u.parent
                      /\ \A d \in Devices : refreshRow'[d].jti # u.parent
    BY DEF ParentsAreGone
  <2>1. CASE u \in tokens
    <3>1. PICK w \in tokens : w.jti = u.parent
      BY <1>7, <2>1 DEF ParentsAreGone
    <3>2. refreshRow'[e].jti # u.parent
      BY <1>1, <1>5, <3>1
    <3>3. ASSUME NEW d \in Devices, d # e
          PROVE  refreshRow'[d].jti # u.parent
      <4>1. refreshRow[d].jti # u.parent
        BY <1>7, <2>1 DEF ParentsAreGone
      <4> QED
        BY <1>k, <3>3, <4>1
    <3> QED
      BY <1>2, <3>1, <3>2, <3>3
  <2>2. CASE u = t
    <3>1. PICK w \in tokens : w.jti = r.parent /\ w.device = e
      BY <1>3, <1>13, <2>2
    <3>2. refreshRow'[e].jti # r.parent
      BY <1>1, <1>5, <3>1
    <3>3. ASSUME NEW d \in Devices, d # e
          PROVE  refreshRow'[d].jti # r.parent
      <4> SUFFICES ASSUME refreshRow[d].jti = r.parent
                   PROVE  FALSE
        BY <1>6, <3>3
      <4>1. PICK x \in tokens : x.jti = refreshRow[d].jti /\ x.device = d
        BY <1>3, <1>7, <2>2 DEF RowsAreDelivered
      <4> QED
        BY <1>u, <3>1, <3>3, <4>1
    <3> QED
      BY <1>2, <1>3, <2>2, <3>1, <3>2, <3>3
  <2> QED
    BY <1>2, <2>1, <2>2
<1>15. SingleUse'
  <2>1. ASSUME NEW u \in tokens, u.parent > 0
        PROVE  u.parent # r.parent
    BY <1>1, <1>7, <1>8, <2>1 DEF ParentsAreGone
  <2> QED
    BY <1>2, <1>3, <1>7, <2>1 DEF SingleUse
<1>16. DeviceLimit'
  <2> DEFINE A == ActiveDevices \ {e, r.victim}
  <2>1. IsFiniteSet(A)
    BY SessionAssumptions, FS_Subset, A \in SUBSET Devices DEF ActiveDevices
  <2>2. Cardinality(A) \in Nat
    BY <2>1, FS_CardinalityType
  <2>3. /\ IsFiniteSet(A \cup {e})
        /\ Cardinality(A \cup {e}) <= Cardinality(A) + 1
    <3> HIDE DEF A
    <3>1. /\ IsFiniteSet(A \cup {e})
          /\ Cardinality(A \cup {e}) =
               IF e \in A THEN Cardinality(A) ELSE Cardinality(A) + 1
      BY <2>1, FS_AddElement
    <3> QED
      BY <2>2, <3>1
  <2>4. Cardinality(ActiveDevices') <= Cardinality(A \cup {e})
    BY <1>l, <2>3, FS_Subset
  <2>5. Cardinality(ActiveDevices') \in Nat /\ Cardinality(A \cup {e}) \in Nat
    BY <1>l, <2>3, FS_Subset, FS_CardinalityType
  <2> HIDE DEF A
  <2>6. Cardinality(A) < MaxDevices
    BY <1>c DEF A
  <2> QED
    BY <2>2, <2>3, <2>4, <2>5, <2>6, SessionAssumptions DEF DeviceLimit
<1>17. \A q \in Reqs : Sound(req[q])'
  <2>1. \A q \in Reqs : req'[q] = Idle
    BY <1>2 DEF Serial, TypeOK
  <2> QED
    BY <2>1 DEF Sound, Idle
<1> QED
  BY <1>10, <1>11, <1>12, <1>14, <1>15, <1>16, <1>17 DEF SerialInv

\* A revocation: the tokens and the sessions of its devices go together, and
\* when the version moves on they are all of the account's.
LEMMA SerialRevoke ==
  ASSUME Serial, TypeOK, SerialInv, NEW p \in Reqs,
         Logout(p) \/ LogoutAll(p) \/ ChangePassword(p)
  PROVE  SerialInv'
<1> DEFINE T == Targets(p)
           R == req[p].rows
<1>1. /\ RevokeRows(R, T) /\ req' = [req EXCEPT ![p] = Idle]
      /\ tokens' = tokens /\ lapsed' = lapsed
      /\ req[p].at \in {"endLogout", "endLogoutAll", "endChange"}
  BY DEF Logout, LogoutAll, ChangePassword, tokenVars
<1>2. R = {d \in T : refreshRow[d].jti > 0}
  <2>1. Sound(req[p])
    BY DEF SerialInv
  <2> QED
    BY <1>1, <2>1 DEF Sound, Targets, TargetsOf
<1>3. tokenVersion' = tokenVersion \/ T = Devices
  <2>1. CASE Logout(p)
    BY <2>1 DEF Logout, userVars
  <2>2. CASE LogoutAll(p) \/ ChangePassword(p)
    <3>1. Sound(req[p]) /\ req[p].at \in {"endLogoutAll", "endChange"}
      BY <2>2 DEF SerialInv, LogoutAll, ChangePassword
    <3> QED
      BY <3>1 DEF Sound, Targets
  <2> QED
    BY <2>1, <2>2
<1>4. ASSUME NEW d \in Devices
      PROVE  /\ refreshRow'[d].jti = refreshRow[d].jti
             /\ refreshRow'[d].revoked = (d \in R \/ refreshRow[d].revoked)
             /\ sessionRow'[d].active = (d \notin T /\ sessionRow[d].active)
  <2>1. refreshRow[d] \in RefreshRow /\ sessionRow[d] \in SessionRow
    BY DEF TypeOK
  <2>2. /\ refreshRow'[d] = IF d \in R THEN [refreshRow[d] EXCEPT !.revoked = TRUE]
                                       ELSE refreshRow[d]
        /\ sessionRow'[d] = IF d \in T THEN [sessionRow[d] EXCEPT !.active = FALSE]
                                       ELSE sessionRow[d]
    BY <1>1 DEF RevokeRows
  <2> HIDE DEF R, T
  <2> QED
    BY <2>1, <2>2 DEF RefreshRow, SessionRow
<1>5. /\ RowsAgree /\ DeviceLimit /\ SingleUse
      /\ EmptyIsRevoked /\ RowsAreDelivered /\ ParentsAreGone
  BY DEF SerialInv
<1>6. \A d \in Devices : refreshRow[d].jti \in Nat
  BY DEF TypeOK, RefreshRow
<1> HIDE DEF R, T
<1>7. ASSUME NEW d \in Devices
      PROVE  sessionRow'[d].active = ~refreshRow'[d].revoked
  <2>1. sessionRow[d].active = ~refreshRow[d].revoked
    BY <1>5 DEF RowsAgree
  <2>2. d \in T /\ d \notin R => refreshRow[d].revoked
    BY <1>2, <1>5, <1>6 DEF EmptyIsRevoked
  <2>3. d \in R => d \in T
    BY <1>2
  <2> QED
    BY <1>4, <2>1, <2>2, <2>3, Zenon
<1>k. ASSUME NEW d \in Devices
      PROVE  /\ refreshRow'[d].jti = refreshRow[d].jti
             /\ refreshRow[d].revoked => refreshRow'[d].revoked
  BY <1>4
<1>8. RowsAgree' /\ EmptyIsRevoked' /\ ParentsAreGone' /\ SingleUse'
  <2>1. RowsAgree'
    BY <1>7, Zenon DEF RowsAgree
  <2>2. EmptyIsRevoked'
    BY <1>5, <1>k DEF EmptyIsRevoked
  <2>3. ParentsAreGone' /\ SingleUse'
    BY <1>1, <1>5, <1>k DEF ParentsAreGone, SingleUse
  <2> QED
    BY <2>1, <2>2, <2>3
<1>9. RowsAreDelivered'
  <2> SUFFICES ASSUME NEW d \in Devices, refreshRow'[d].jti > 0
               PROVE  \E u \in tokens' :
                        /\ u.jti = refreshRow'[d].jti
                        /\ u.device = d
                        /\ ~refreshRow'[d].revoked => u.version = tokenVersion'
    BY DEF RowsAreDelivered
  <2>1. PICK u \in tokens : /\ u.jti = refreshRow[d].jti
                            /\ u.device = d
                            /\ ~refreshRow[d].revoked => u.version = tokenVersion
    BY <1>4, <1>5 DEF RowsAreDelivered
  <2>2. ~refreshRow'[d].revoked => d \notin R /\ ~refreshRow[d].revoked
    BY <1>4
  <2>3. d \notin R => T # Devices
    BY <1>2, <1>4
  <2> QED
    BY <1>1, <1>3, <1>4, <2>1, <2>2, <2>3
<1>10. ActiveDevices' \subseteq ActiveDevices
  BY <1>1, <1>4 DEF ActiveDevices
<1>11. DeviceLimit'
  BY <1>5, <1>10, ActiveShrink
<1>12. \A q \in Reqs : Sound(req[q])'
  <2>1. \A q \in Reqs : req'[q] = Idle
    BY <1>1 DEF Serial, TypeOK
  <2> QED
    BY <2>1 DEF Sound, Idle
<1> QED
  BY <1>8, <1>9, <1>11, <1>12 DEF SerialInv

\* Time only frees places.
LEMMA SerialLapse ==
  ASSUME Serial, TypeOK, SerialInv, Lapse
  PROVE  SerialInv'
<1>1. UNCHANGED <<userVars, rowVars, tokens, req>> /\ lapsed' = lapsed + 1
  BY DEF Lapse
<1>2. ActiveDevices' \subseteq ActiveDevices
  BY <1>1 DEF ActiveDevices, rowVars, TypeOK, RefreshRow
<1>3. DeviceLimit'
  BY <1>2, ActiveShrink DEF SerialInv
<1>4. ASSUME NEW q \in Reqs
      PROVE  Sound(req[q])'
  <2> DEFINE r == req[q]
             X == {r.device, r.victim}
  <2>1. Sound(r)
    BY DEF SerialInv
  <2>2. r.at = "write" => Cardinality(ActiveDevices' \ X) < MaxDevices
    <3>1. /\ Cardinality(ActiveDevices' \ X) \in Nat
          /\ Cardinality(ActiveDevices' \ X) <= Cardinality(ActiveDevices \ X)
          /\ Cardinality(ActiveDevices \ X) \in Nat
      BY <1>2, ActiveShrink
    <3>2. r.at = "write" => Cardinality(ActiveDevices \ X) < MaxDevices
      BY <2>1 DEF Sound
    <3> QED
      BY <3>1, <3>2, SessionAssumptions
  <2> QED
    BY <1>1, <2>1, <2>2 DEF Sound, TargetsOf, userVars, rowVars
<1>5. RowsAgree' /\ SingleUse' /\ EmptyIsRevoked' /\ RowsAreDelivered' /\ ParentsAreGone'
  BY <1>1 DEF SerialInv, RowsAgree, SingleUse, EmptyIsRevoked, RowsAreDelivered,
              ParentsAreGone, userVars, rowVars
<1> QED
  BY <1>3, <1>4, <1>5 DEF SerialInv

\* Requests that do not overlap keep the invariant.
LEMMA SerialStep ==
  ASSUME Serial, TypeOK, DeviceInv, JtiInv, SerialInv, [Next]_vars
  PROVE  SerialInv'
<1> USE DEF TypeOK
<1>1. ASSUME NEW p \in Reqs, NEW d \in Devices, LoginRead(p, d)
      PROVE  SerialInv'
  <2> DEFINE r == [Idle EXCEPT !.at = "mint", !.device = d,
                               !.version = tokenVersion, !.password = password]
  <2>1. req' = [req EXCEPT ![p] = r]
        /\ UNCHANGED <<rowVars, tokens, tokenVersion, lapsed>>
    BY <1>1 DEF LoginRead, userVars, tokenVars
  <2>2. Sound(r)
    BY DEF Sound, Idle
  <2> QED
    BY <2>1, <2>2, SerialHandler
<1>2. ASSUME NEW p \in Reqs, NEW t \in tokens, RotateReadUser(p, t)
      PROVE  SerialInv'
  <2> DEFINE r == [Idle EXCEPT !.at = "lookup", !.device = t.device,
                               !.version = tokenVersion, !.password = t.password,
                               !.family = t.family, !.parent = t.jti]
  <2>1. req' = [req EXCEPT ![p] = r]
        /\ UNCHANGED <<rowVars, tokens, tokenVersion, lapsed>>
    BY <1>2 DEF RotateReadUser, userVars, tokenVars
  <2>2. Sound(r)
    BY DEF Sound, Idle
  <2> QED
    BY <2>1, <2>2, SerialHandler
<1>3. ASSUME NEW p \in Reqs,
             \/ \E d \in Devices : StartLogout(p, d)
             \/ StartLogoutAll(p) \/ StartChangePassword(p)
      PROVE  SerialInv'
  <2>1. PICK step, d :
          /\ StartGuarded(p, step, d)
          /\ step = "logout" \/ (step \in {"logoutAll", "checkPassword"} /\ d = NoDevice)
    BY <1>3 DEF StartLogout, StartLogoutAll, StartChangePassword
  <2> DEFINE r == [Idle EXCEPT !.at = step, !.device = d]
  <2>2. req' = [req EXCEPT ![p] = r]
        /\ UNCHANGED <<rowVars, tokens, tokenVersion, lapsed>>
    BY <2>1 DEF StartGuarded, userVars, tokenVars
  <2>3. Sound(r)
    BY <2>1 DEF Sound, Idle
  <2> QED
    BY <2>2, <2>3, SerialHandler
<1>4. ASSUME NEW p \in Reqs, RotateBreach(p) \/ RotateAccept(p)
      PROVE  SerialInv'
  <2>1. req[p] \in Request /\ Sound(req[p]) /\ req[p].at = "lookup"
    BY <1>4 DEF SerialInv, RotateBreach, RotateAccept
  <2>2. PICK at \in {"breach", "mint"} :
          req' = [req EXCEPT ![p].at = at] /\ (at = "mint" => Matches(p))
    BY <1>4 DEF RotateBreach, RotateAccept
  <2> DEFINE r == [req[p] EXCEPT !.at = at]
  <2>3. /\ r.at = at /\ r.device = req[p].device /\ r.version = req[p].version
        /\ r.parent = req[p].parent
    BY <2>1 DEF Request
  <2>4. req' = [req EXCEPT ![p] = r]
        /\ UNCHANGED <<rowVars, tokens, tokenVersion, lapsed>>
    BY <1>4, <2>2 DEF RotateBreach, RotateAccept, userVars, tokenVars
  <2> HIDE DEF r
  <2>5. Sound(r)
    BY <2>1, <2>2, <2>3 DEF Sound, Matches
  <2> QED
    BY <2>4, <2>5, SerialHandler
<1>5. ASSUME NEW p \in Reqs, CheckOldPassword(p)
      PROVE  SerialInv'
  <2>1. req[p] \in Request /\ Sound(req[p]) /\ req[p].at = "checkPassword"
    BY <1>5 DEF SerialInv, CheckOldPassword
  <2> DEFINE r == [req[p] EXCEPT !.at = "changePassword", !.password = password]
  <2>3. r.at = "changePassword" /\ r.device = req[p].device
    BY <2>1 DEF Request
  <2>4. req' = [req EXCEPT ![p] = r]
        /\ UNCHANGED <<rowVars, tokens, tokenVersion, lapsed>>
    BY <1>5 DEF CheckOldPassword, userVars, tokenVars
  <2> HIDE DEF r
  <2>5. Sound(r)
    BY <2>1, <2>3 DEF Sound
  <2> QED
    BY <2>4, <2>5, SerialHandler
<1>6. ASSUME NEW p \in Reqs,
             LogoutTokens(p) \/ LogoutAllTokens(p) \/ ChangePasswordTokens(p)
      PROVE  SerialInv'
  <2>0. req[p] \in Request /\ Sound(req[p])
    BY DEF SerialInv
  <2>1. PICK from, to :
          /\ TakeRows(p, from, to)
          /\ \/ to = "endLogout"
             \/ to = "endLogoutAll" /\ from = "logoutAll"
             \/ to = "endChange" /\ from = "changePassword"
    BY <1>6 DEF LogoutTokens, LogoutAllTokens, ChangePasswordTokens
  <2> DEFINE found == {d \in Targets(p) : refreshRow[d].jti > 0}
             r == [req[p] EXCEPT !.at = to, !.rows = found]
  <2>2. r.at = to /\ r.device = req[p].device /\ r.rows = found
    BY <2>0 DEF Request
  <2>3. req' = [req EXCEPT ![p] = r] /\ req[p].at = from
    BY <2>1 DEF TakeRows
  <2> HIDE DEF r
  <2>4. Sound(r)
    <3>1. found = {d \in TargetsOf(r.device) : refreshRow[d].jti > 0}
      BY <2>2 DEF Targets, TargetsOf
    <3>2. to \in {"endLogoutAll", "endChange"} => r.device = NoDevice
      BY <2>0, <2>1, <2>2, <2>3 DEF Sound
    <3> HIDE DEF found
    <3> QED
      BY <2>1, <2>2, <3>1, <3>2 DEF Sound
  <2>5. UNCHANGED <<rowVars, tokens, tokenVersion, lapsed>>
    BY <2>1 DEF TakeRows, userVars, tokenVars
  <2> QED
    BY <2>3, <2>4, <2>5, SerialHandler
<1>7. ASSUME NEW p \in Reqs, Fail(p)
      PROVE  SerialInv'
  BY <1>7, IdleSound, SerialHandler DEF Fail, userVars, tokenVars
<1>8. CASE ChangeStatus \/ UNCHANGED vars
  <2>1. UNCHANGED <<rowVars, tokens, tokenVersion, lapsed, req>>
    BY <1>8 DEF ChangeStatus, vars, userVars, tokenVars
  <2>2. ActiveDevices' = ActiveDevices
    BY <2>1 DEF ActiveDevices, rowVars
  <2>3. \A p \in Reqs : Sound(req[p])'
    BY <2>1, <2>2 DEF SerialInv, Sound, TargetsOf, rowVars
  <2> QED
    BY <2>1, <2>2, <2>3
       DEF SerialInv, RowsAgree, DeviceLimit, SingleUse, EmptyIsRevoked,
           RowsAreDelivered, ParentsAreGone, rowVars
<1> HIDE DEF TypeOK
<1> QED
  BY <1>1, <1>2, <1>3, <1>4, <1>5, <1>6, <1>7, <1>8, SerialSign, SerialCommit, SerialRevoke, SerialLapse
     DEF Next

\* While requests do not overlap, rows, tokens and the handler agree.
THEOREM SerialInvariant ==
  ASSUME Serial
  PROVE  Spec => [](TypeOK /\ DeviceInv /\ JtiInv /\ SerialInv)
<1>1. TypeOK /\ DeviceInv /\ JtiInv /\ SerialInv /\ [Next]_vars
      => (TypeOK /\ DeviceInv /\ JtiInv /\ SerialInv)'
  BY TypeStep, JtiStep, SerialStep
<1> QED
  BY TypeInit, JtiInit, SerialInit, <1>1, PTL DEF Spec

\* The two tables agree on which devices are logged in.
THEOREM RowsAgreeSerial == ASSUME Serial PROVE Spec => []RowsAgree
<1>1. SerialInv => RowsAgree
  BY DEF SerialInv
<1> QED
  BY SerialInvariant, <1>1, PTL

\* Logins never bring more than MAX_DEVICES sessions to life.
THEOREM DeviceLimitSerial == ASSUME Serial PROVE Spec => []DeviceLimit
<1>1. SerialInv => DeviceLimit
  BY DEF SerialInv
<1> QED
  BY SerialInvariant, <1>1, PTL

\* No refresh token is exchanged twice.
THEOREM SingleUseSerial == ASSUME Serial PROVE Spec => []SingleUse
<1>1. SerialInv => SingleUse
  BY DEF SerialInv
<1> QED
  BY SerialInvariant, <1>1, PTL

\* Every row that takes one of the MAX_DEVICES places is a pair the API accepts.
THEOREM ActiveRowIsLiveSerial == ASSUME Serial PROVE Spec => []ActiveRowIsLive
<1>1. TypeOK /\ SerialInv => ActiveRowIsLive
  <2> SUFFICES ASSUME TypeOK, SerialInv, NEW d \in ActiveDevices
               PROVE  \E t \in tokens : t.jti = refreshRow[d].jti
                                        /\ t.version = tokenVersion
    BY DEF ActiveRowIsLive
  <2>1. d \in Devices /\ ~refreshRow[d].revoked /\ refreshRow[d].jti > 0
    BY DEF ActiveDevices, TypeOK, RefreshRow
  <2> QED
    BY <2>1 DEF SerialInv, RowsAreDelivered
<1> QED
  BY SerialInvariant, <1>1, PTL

\* A refresh never brings a revoked session back.
THEOREM RevokedUntilLoginSerial == ASSUME Serial PROVE Spec => RevokedUntilLogin
<1>1. TypeOK /\ DeviceInv /\ JtiInv /\ SerialInv /\ [Next]_vars
      => [\A d \in Devices :
             /\ refreshRow[d].jti > 0
             /\ refreshRow[d].revoked
             /\ ~refreshRow'[d].revoked
             => refreshRow'[d].rotatedFrom = 0]_vars
  <2> SUFFICES ASSUME TypeOK, DeviceInv, SerialInv, [Next]_vars, NEW d \in Devices,
                      refreshRow[d].revoked, ~refreshRow'[d].revoked
               PROVE  refreshRow'[d].rotatedFrom = 0
    OBVIOUS
  <2>1. ASSUME NEW p \in Reqs, CommitSession(p)
        PROVE  refreshRow'[d].rotatedFrom = 0
    <3>0. req[p] \in Request /\ Sound(req[p]) /\ req[p].at = "write"
          /\ refreshRow[d] \in RefreshRow
      BY <2>1 DEF TypeOK, SerialInv, CommitSession, SaveSession
    <3>1. CASE d = req[p].device
      <4>1. refreshRow'[d].rotatedFrom = req[p].parent
        BY <2>1, <3>1 DEF CommitSession, SaveSession
      <4>2. ~(req[p].parent > 0)
        BY <3>0, <3>1 DEF Sound
      <4> QED
        BY <3>0, <4>1, <4>2 DEF Request
    <3>2. CASE d # req[p].device
      <4>1. refreshRow'[d].revoked
        BY <2>1, <3>0, <3>2 DEF CommitSession, SaveSession, RefreshRow
      <4> QED
        BY <4>1
    <3> QED
      BY <3>1, <3>2
  <2>2. ASSUME NEW R, NEW D, RevokeRows(R, D)
        PROVE  refreshRow'[d].revoked
    BY <2>2 DEF RevokeRows, TypeOK, RefreshRow
  <2>3. \/ UNCHANGED refreshRow
        \/ \E R, D : RevokeRows(R, D)
        \/ \E p \in Reqs : CommitSession(p)
    BY DEF Next, LoginRead, RotateReadUser, RotateBreach, RotateAccept,
           SignTokens, StartLogout, StartLogoutAll, StartChangePassword,
           StartGuarded, CheckOldPassword, Logout, LogoutAll, ChangePassword,
           LogoutTokens, LogoutAllTokens, ChangePasswordTokens, TakeRows,
           Fail, ChangeStatus, Lapse, vars, rowVars
  <2> QED
    BY <2>1, <2>2, <2>3
<1> QED
  BY SerialInvariant, <1>1, PTL DEF Spec, RevokedUntilLogin
=============================================================================
