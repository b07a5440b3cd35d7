---------------------------- MODULE WindowPolicy ----------------------------
(***************************************************************************)
(* What rateLimit promises: among any Window milliseconds at most Limit    *)
(* calls are allowed, and nobody is refused without Limit allowed calls in *)
(* the Window before.  The clocks of the callers are not the clock of the  *)
(* store, so both hold up to Slack milliseconds; with Slack = 0 this is    *)
(* the exact sliding window.  RateLimiter implements it.                   *)
(***************************************************************************)
EXTENDS Integers, Sequences, FiniteSets

CONSTANTS
    Callers,    \* the calls of rateLimit that can be in flight
    Limit,      \* allowed calls per window
    Window,     \* length of the window, in milliseconds
    Slack       \* how far the callers' clocks may be off, in milliseconds

VARIABLES
    clock,      \* the present
    allowedAt,  \* when each allowed call was allowed, in order
    answer      \* what each caller was answered

policyVars == <<clock, allowedAt, answer>>

\* The allowed calls of the last ms milliseconds.
Recent(ms) == {i \in DOMAIN allowedAt : allowedAt[i] > clock - ms}

PolicyInit ==
    /\ clock = 0
    /\ allowedAt = <<>>
    /\ answer = [c \in Callers |-> "none"]

Pass ==
    /\ clock' = clock + 1
    /\ UNCHANGED <<allowedAt, answer>>

Ask(c) ==
    /\ answer[c] # "asked"
    /\ answer' = [answer EXCEPT ![c] = "asked"]
    /\ UNCHANGED <<clock, allowedAt>>

Allow(c) ==
    /\ answer[c] = "asked"
    /\ Cardinality(Recent(Window - Slack)) < Limit
    /\ answer' = [answer EXCEPT ![c] = "allowed"]
    /\ allowedAt' = Append(allowedAt, clock)
    /\ UNCHANGED clock

Deny(c) ==
    /\ answer[c] = "asked"
    /\ Cardinality(Recent(Window + Slack)) >= Limit
    /\ answer' = [answer EXCEPT ![c] = "denied"]
    /\ UNCHANGED <<clock, allowedAt>>

PolicyNext == Pass \/ \E c \in Callers : Ask(c) \/ Allow(c) \/ Deny(c)

PolicySpec == PolicyInit /\ [][PolicyNext]_policyVars
=============================================================================
