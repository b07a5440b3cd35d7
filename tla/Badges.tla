------------------------------- MODULE Badges -------------------------------
(***************************************************************************)
(* Badges, the rules that award them, and the diamonds of one student.  An *)
(* event reads the active rules once and then works through them, looking  *)
(* for the badge, judging the condition and awarding in a transaction,     *)
(* while administrators and other events go on.  No handler raises events  *)
(* yet: they come in any order and overlap, as requests do.                *)
(***************************************************************************)
EXTENDS Overlap, Integers, FiniteSets

CONSTANTS
    BadgeIds, RuleIds,
    Rewards,      \* Badge.diamondReward
    Thresholds,   \* condition.minScore (or minReferrals) of a rule, 0 if absent
    Scores,       \* context.score (or totalReferrals) of an event
    NoScore,      \* an event whose context has no score
    EventCalls

ASSUME BadgeAssumptions ==
    /\ Rewards \subseteq Nat /\ Thresholds \subseteq Nat /\ Scores \subseteq Nat /\ NoScore \notin Scores

VARIABLES
    badge,      \* the Badge rows
    rule,       \* the BadgeRule rows
    badgeUsed,  \* ids of badges and rules given out so far
    ruleUsed,
    award,      \* UserBadge.diamondAwarded of each badge the student was given
    wallet,     \* DiamondWallet.balance, 0 while there is no row
    event       \* checkAndAwardBadges calls

badgeVars == <<badge, rule, badgeUsed, ruleUsed, award, wallet, event>>

-----------------------------------------------------------------------------
\* rules: those still to be worked through; due: history, the badges the rules
\* the event read award for its score.
NoEvent == [at |-> "idle", score |-> NoScore, rules |-> {}, badge |-> 0,
            reward |-> 0, due |-> {}]

BadgeRow == [reward : Rewards, active : BOOLEAN]
RuleRow == [badge : BadgeIds, min : Thresholds, active : BOOLEAN]

BadgesInit ==
    /\ badge = <<>> /\ rule = <<>>
    /\ badgeUsed = {} /\ ruleUsed = {}
    /\ award = <<>>
    /\ wallet = 0
    /\ event = [c \in EventCalls |-> NoEvent]

\* The cascade from a removed badge takes its UserBadge row with it; award
\* keeps what the row said as history.
Held(b) == b \in DOMAIN award /\ b \in DOMAIN badge

-----------------------------------------------------------------------------
(* Administration.  A badge is created with its first rule or without.     *)

\* A rule is added to badge b.
NewRule(b, min) ==
    \E r \in RuleIds \ ruleUsed :
        /\ ruleUsed' = ruleUsed \cup {r}
        /\ rule' = With(rule, r, [badge |-> b, min |-> min, active |-> TRUE])

BadgeCreate(b, reward) ==
    /\ b \in BadgeIds \ badgeUsed
    /\ badgeUsed' = badgeUsed \cup {b}
    /\ badge' = With(badge, b, [reward |-> reward, active |-> TRUE])
    /\ \/ UNCHANGED <<rule, ruleUsed>>
       \/ \E min \in Thresholds : NewRule(b, min)
    /\ UNCHANGED <<award, wallet, event>>

BadgeUpdate(b, row) ==
    /\ b \in DOMAIN badge
    /\ badge' = With(badge, b, row)
    /\ UNCHANGED <<rule, badgeUsed, ruleUsed, award, wallet, event>>

\* The rules of the badge and the UserBadge rows go with it, the diamonds stay.
BadgeRemove(b) ==
    /\ b \in DOMAIN badge
    /\ badge' = Without(badge, b)
    /\ rule' = Restrict(rule, {r \in DOMAIN rule : rule[r].badge # b})
    /\ UNCHANGED <<badgeUsed, ruleUsed, award, wallet, event>>

RuleAdd(b, min) ==
    /\ b \in DOMAIN badge
    /\ NewRule(b, min)
    /\ UNCHANGED <<badge, badgeUsed, award, wallet, event>>

RuleUpdate(r, min, active) ==
    /\ r \in DOMAIN rule
    /\ rule' = [rule EXCEPT ![r].min = min, ![r].active = active]
    /\ UNCHANGED <<badge, badgeUsed, ruleUsed, award, wallet, event>>

RuleRemove(r) ==
    /\ r \in DOMAIN rule
    /\ rule' = Without(rule, r)
    /\ UNCHANGED <<badge, badgeUsed, ruleUsed, award, wallet, event>>

-----------------------------------------------------------------------------
(* An event.                                                               *)

ActiveRules == {r \in DOMAIN rule : rule[r].active /\ badge[rule[r].badge].active}

\* evaluateCondition: a threshold of 0 is no threshold, and a score that is
\* not there is not below any.
IsMet(min, score) == ~(min # 0 /\ score # NoScore /\ score < min)

EventRead(c, score) ==
    /\ event[c].at = "idle"
    /\ event' = [event EXCEPT ![c] =
           [at |-> "loop", score |-> score,
            rules |-> {[id |-> r, badge |-> rule[r].badge, min |-> rule[r].min] : r \in ActiveRules},
            badge |-> 0, reward |-> 0,
            due |-> {rule[r].badge : r \in {q \in ActiveRules : IsMet(rule[q].min, score)}}]]
    /\ UNCHANGED <<badge, rule, badgeUsed, ruleUsed, award, wallet>>

\* break where the code says continue.
AfterHeldBreak(e, r) == [e EXCEPT !.rules = {}]

\* The student has the badge, or the condition is not met: on to the next.
AfterHeld(e, r) == [e EXCEPT !.rules = @ \ {r}]

EventSkip(c) ==
    \E r \in event[c].rules :
        /\ event[c].at = "loop"
        /\ Held(r.badge)
        /\ event' = [event EXCEPT ![c] = AfterHeld(event[c], r)]
        /\ UNCHANGED <<badge, rule, badgeUsed, ruleUsed, award, wallet>>

\* The rule awards its badge next, or the loop goes on.
Judged(e, r) ==
    IF IsMet(r.min, e.score)
    THEN [e EXCEPT !.at = "met", !.rules = @ \ {r}, !.badge = r.badge]
    ELSE [e EXCEPT !.rules = @ \ {r}]

\* The condition is judged after the look for the badge, on values read before.
EventJudge(c) ==
    \E r \in event[c].rules :
        /\ event[c].at = "loop"
        /\ ~Held(r.badge)
        /\ event' = [event EXCEPT ![c] = Judged(event[c], r)]
        /\ UNCHANGED <<badge, rule, badgeUsed, ruleUsed, award, wallet>>

\* awardBadge reads the reward inside its transaction.
AwardRead(c) ==
    /\ event[c].at = "met"
    /\ event[c].badge \in DOMAIN badge
    /\ event' = [event EXCEPT ![c].at = "award", ![c].reward = badge[event[c].badge].reward]
    /\ UNCHANGED <<badge, rule, badgeUsed, ruleUsed, award, wallet>>

Awardable(b) == b \in DOMAIN badge /\ b \notin DOMAIN award

\* The row and the diamonds commit together.
AwardCommit(c) ==
    LET e == event[c]
    IN  /\ e.at = "award"
        /\ Awardable(e.badge)
        /\ award' = With(award, e.badge, e.reward)
        /\ wallet' = wallet + e.reward
        /\ event' = [event EXCEPT ![c].at = "loop", ![c].badge = 0, ![c].reward = 0]
        /\ UNCHANGED <<badge, rule, badgeUsed, ruleUsed>>

\* The increment is outside the transaction.
WalletKeepsIncrement(c) == wallet + event[c].reward

\* What a failed transaction leaves of its increment.
WalletAfterFailure(c) == wallet

\* The badge is gone or the student has it by now: the error ends the event,
\* and the rules left are not looked at.
EventFail(c) ==
    /\ \/ event[c].at = "met" /\ event[c].badge \notin DOMAIN badge
       \/ event[c].at = "award" /\ ~Awardable(event[c].badge)
    /\ wallet' = WalletAfterFailure(c)
    /\ event' = [event EXCEPT ![c] = NoEvent]
    /\ UNCHANGED <<badge, rule, badgeUsed, ruleUsed, award>>

EventDone(c) ==
    /\ event[c].at = "loop"
    /\ event[c].rules = {}
    /\ event' = [event EXCEPT ![c] = NoEvent]
    /\ UNCHANGED <<badge, rule, badgeUsed, ruleUsed, award, wallet>>

BadgesNext ==
    \/ \E b \in BadgeIds :
           \/ \E reward \in Rewards : BadgeCreate(b, reward)
           \/ \E row \in BadgeRow : BadgeUpdate(b, row)
           \/ BadgeRemove(b)
           \/ \E min \in Thresholds : RuleAdd(b, min)
    \/ \E r \in RuleIds :
           \/ \E min \in Thresholds, active \in BOOLEAN : RuleUpdate(r, min, active)
           \/ RuleRemove(r)
    \/ \E c \in EventCalls :
           \/ \E score \in Scores \cup {NoScore} : EventRead(c, score)
           \/ EventSkip(c) \/ EventJudge(c)
           \/ AwardRead(c) \/ AwardCommit(c) \/ EventFail(c) \/ EventDone(c)

BadgesSpec == BadgesInit /\ [][BadgesNext]_badgeVars

-----------------------------------------------------------------------------
(* Properties.                                                             *)

\* The diamonds the student was given: <<b, i>> is the i-th of badge b.
Diamonds == UNION {{b} \X (1 .. award[b]) : b \in DOMAIN award}

\* The wallet holds exactly the diamonds of the badges the student was given,
\* each counted once, however events overlap and rewards change meanwhile.
WalletIsWhatWasAwarded == wallet = Cardinality(Diamonds)

\* An event that is worked through to the end leaves the student with every
\* badge that the rules it read award for its score: a badge the student has
\* already does not keep it from the others.  (A badge that another event
\* awards at the same moment does: EventFail.)
AwardsAreComplete ==
    [][\A c \in EventCalls :
          event[c].at = "loop" /\ event[c].rules = {} /\ event'[c] = NoEvent
              => \A b \in event[c].due : b \in DOMAIN award]_badgeVars
=============================================================================
