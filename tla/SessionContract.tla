-------------------------- MODULE SessionContract --------------------------
(***************************************************************************)
(* What the session layer of the API promises its clients, with none of    *)
(* its tables: a token is accepted from the moment it is granted until the *)
(* next time all sessions are terminated, and only a request whose         *)
(* credential was checked since then can be granted one.  AuthSession is   *)
(* the detailed specification that implements it.                          *)
(***************************************************************************)
EXTENDS Naturals

CONSTANTS
    Reqs,       \* the requests that can be in flight
    Ids         \* token identifiers

VARIABLES
    issued,     \* identifiers ever handed to a client
    live,       \* the issued identifiers the API accepts
    ended,      \* how often a reply promised the end of all sessions
    vouched     \* requests whose credential check still counts

contractVars == <<issued, live, ended, vouched>>

ContractInit == issued = {} /\ live = {} /\ ended = 0 /\ vouched = {}

\* A password or a refresh token was checked for request p.
Vouch(p) ==
    /\ vouched' = vouched \cup {p}
    /\ UNCHANGED <<issued, live, ended>>

\* Request p ends with an error.
Drop(p) ==
    /\ vouched' = vouched \ {p}
    /\ UNCHANGED <<issued, live, ended>>

\* Request p ends with a token the API accepts.
Grant(p, id) ==
    /\ p \in vouched
    /\ id \notin issued
    /\ issued' = issued \cup {id}
    /\ live' = live \cup {id}
    /\ vouched' = vouched \ {p}
    /\ UNCHANGED ended

\* A request that was overtaken by a termination ends with a token that was
\* never accepted.
IssueDead(id) ==
    /\ id \notin issued
    /\ issued' = issued \cup {id}
    /\ UNCHANGED <<live, ended, vouched>>

\* Every token dies, and so does every check made before this point.
TerminateAll ==
    /\ live' = {}
    /\ vouched' = {}
    /\ ended' = ended + 1
    /\ UNCHANGED issued

ContractNext ==
    \/ TerminateAll
    \/ \E p \in Reqs : Vouch(p) \/ Drop(p)
    \/ \E p \in Reqs, id \in Ids : Grant(p, id)
    \/ \E id \in Ids : IssueDead(id)

ContractSpec == ContractInit /\ [][ContractNext]_contractVars

-----------------------------------------------------------------------------
\* Only issued identifiers are accepted.
LiveIsIssued == live \subseteq issued

\* Once a token stopped being accepted it is never accepted again.
DeadStaysDead == [][(issued \ live) \cap live' = {}]_contractVars
=============================================================================
