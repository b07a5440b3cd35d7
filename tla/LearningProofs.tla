-------------------------- MODULE LearningProofs --------------------------
(***************************************************************************)
(* Profiles are whole and inserted unless overtaken, awards are complete,  *)
(* and the changes of books are audited or lost in one of three known ways,*)
(* for any number of accounts, rules, books and requests.                  *)
(***************************************************************************)
EXTENDS Profile, Badges, Books, OverlapProofs, FiniteSetTheorems, WellFoundedInduction

-----------------------------------------------------------------------------
(* Profiles.                                                               *)

Names == {NameOf(base, n) : base \in Bases, n \in Nat}

ProfCall ==
    {NoCall}
    \cup [at : {"staff"}, email : Emails, kind : StaffKinds, raced : BOOLEAN]
    \cup [at : {"read"}, email : Emails, profile : BOOLEAN, student : BOOLEAN, raced : BOOLEAN]
    \cup [at : {"named"}, email : Emails, profile : BOOLEAN, raced : BOOLEAN,
          name : Names, code : Names]

\* What a request has read: a profile that exists goes on existing, and the
\* rest is so until a student is inserted.
ProfCallSound(call) ==
    /\ call.at \in {"read", "named"} =>
           call.email \in DOMAIN user /\ (call.profile => call.email \in DOMAIN profile)
    /\ call.at = "read" /\ ~call.raced =>
           /\ call.student <=> call.email \in DOMAIN student
           /\ call.profile \/ call.email \notin DOMAIN profile
    /\ call.at = "named" /\ ~call.raced => Insertable(call)

ProfileInv ==
    /\ profCall \in [ProfileCalls -> ProfCall]
    /\ \A c \in ProfileCalls : ProfCallSound(profCall[c])
    /\ ProfilesAreWhole

LEMMA ProfileInitInv == ProfileInit => ProfileInv
BY DEF ProfileInit, ProfileInv, ProfCall, ProfCallSound, ProfilesAreWhole, NoCall

\* No student is inserted, and profiles only for accounts that are new.
LEMMA ProfCalls ==
  ASSUME ProfileInv, UNCHANGED student,
         DOMAIN user \subseteq DOMAIN user', DOMAIN profile \subseteq DOMAIN profile',
         \A e \in DOMAIN profile' \ DOMAIN profile : e \notin DOMAIN user,
         \A d \in ProfileCalls : profCall'[d] = profCall[d] \/ ProfCallSound(profCall[d])'
  PROVE  \A d \in ProfileCalls : ProfCallSound(profCall[d])'
BY DEF ProfileInv, ProfCallSound, Insertable, NamesTaken, CodesTaken

\* Request c goes on to another decision.
LEMMA ProfGoesOn ==
  ASSUME ProfileInv, NEW c \in ProfileCalls, NEW call \in ProfCall,
         profCall' = [profCall EXCEPT ![c] = call],
         UNCHANGED <<user, profile, detail, student>>, ProfCallSound(call)
  PROVE  ProfileInv'
<1>1. /\ profCall' \in [ProfileCalls -> ProfCall]
      /\ \A d \in ProfileCalls : profCall'[d] = profCall[d] \/ profCall'[d] = call
  BY DEF ProfileInv
<1>2. \A d \in ProfileCalls : profCall'[d] = profCall[d] \/ ProfCallSound(profCall[d])'
  BY <1>1 DEF ProfCallSound, Insertable, NamesTaken, CodesTaken
<1> QED
  BY <1>1, <1>2, ProfCalls DEF ProfileInv, ProfilesAreWhole

\* The two requests are for the same account, as they read it.
SameRead(k, l) ==
    k.at = l.at /\ (k.at \in {"read", "named"} => k.email = l.email /\ k.profile = l.profile)

LEMMA ProfEnds ==
  ASSUME ProfileInv, NEW c \in ProfileCalls, NEW inserted \in BOOLEAN, ProfEnd(c, inserted)
  PROVE  /\ profCall' \in [ProfileCalls -> ProfCall]
         /\ \A d \in ProfileCalls :
                \/ profCall'[d] = NoCall
                \/ ~inserted /\ profCall'[d] = profCall[d]
                \/ inserted /\ profCall'[d].raced /\ SameRead(profCall[d], profCall'[d])
<1>1. NoCall \in ProfCall
  BY DEF ProfCall
<1>2. ASSUME NEW k \in ProfCall, k # NoCall
      PROVE  Overtaken(k) \in ProfCall /\ Overtaken(k).raced /\ SameRead(k, Overtaken(k))
  BY <1>2 DEF ProfCall, Overtaken, SameRead
<1>3. \A d \in ProfileCalls :
          profCall'[d] = IF d = c THEN NoCall
                         ELSE IF profCall[d] = NoCall \/ ~inserted THEN profCall[d]
                         ELSE Overtaken(profCall[d])
  BY DEF ProfileInv, ProfEnd, Ended, Overtaken
<1>4. profCall' \in [ProfileCalls -> ProfCall]
  BY <1>1, <1>2, EndedCalls DEF ProfileInv, ProfEnd
<1>5. profCall \in [ProfileCalls -> ProfCall]
  BY DEF ProfileInv
<1> QED
  BY <1>2, <1>3, <1>4, <1>5

\* A request ends that inserted no student.
LEMMA ProfEndsUnwritten ==
  ASSUME ProfileInv, NEW c \in ProfileCalls, ProfEnd(c, FALSE),
         UNCHANGED <<user, profile, detail, student>>
  PROVE  ProfileInv'
<1>1. profCall' \in [ProfileCalls -> ProfCall]
  BY ProfEnds
<1>2. \A d \in ProfileCalls : profCall'[d] = profCall[d] \/ profCall'[d] = NoCall
  BY ProfEnds
<1>3. \A d \in ProfileCalls : profCall'[d] = profCall[d] \/ ProfCallSound(profCall[d])'
  BY <1>2 DEF ProfCallSound, NoCall
<1> QED
  BY <1>1, <1>3, ProfCalls DEF ProfileInv, ProfilesAreWhole

LEMMA Least ==
  ASSUME NEW S, S \subseteq Nat, S # {}
  PROVE  \E n \in S : \A m \in S : n <= m
<1> DEFINE R == OpToRel(<, Nat)
<1>1. IsWellFoundedOn(R, Nat)
  BY NatLessThanWellFounded
<1>2. \A n, m \in Nat : m < n => <<m, n>> \in R
  BY DEF OpToRel
<1> HIDE DEF R
<1>3. PICK n \in S : \A m \in S : ~(<<m, n>> \in R)
  BY <1>1, WFMin
<1>4. \A m \in S : n \in Nat /\ m \in Nat /\ ~(m < n)
  BY <1>2, <1>3
<1> QED
  BY <1>4

\* The number found makes a name that nobody has.
LEMMA FirstFreeIsFree ==
  ASSUME NEW base \in Bases, NEW start \in Nat, NEW taken, HasFree(base, start, taken)
  PROVE  LET name == NameOf(base, FirstFree(base, start, taken))
         IN  name \in Names /\ name \notin taken
<1> DEFINE free == {n \in start .. MaxName : IsFree(base, n, taken)}
           First(n) == IsFree(base, n, taken) /\ \A m \in start .. n - 1 : ~IsFree(base, m, taken)
<1>1. free \subseteq Nat /\ free # {}
  BY ProfileAssumptions DEF HasFree
<1>2. PICK n \in free : \A m \in free : n <= m
  BY <1>1, Least
<1>3. n \in start .. MaxName /\ First(n)
  BY <1>2, ProfileAssumptions
<1>4. FirstFree(base, start, taken) = CHOOSE k \in start .. MaxName : First(k)
  BY DEF FirstFree
<1> HIDE DEF First
<1>5. /\ FirstFree(base, start, taken) \in start .. MaxName
      /\ First(FirstFree(base, start, taken))
  BY <1>3, <1>4
<1>6. FirstFree(base, start, taken) \in Nat
  BY <1>5, ProfileAssumptions
<1> QED
  BY <1>5, <1>6 DEF First, IsFree, Names

LEMMA ProfileNamesStep ==
  ASSUME ProfileInv, NEW c \in ProfileCalls, ProfileNames(c)
  PROVE  ProfileInv'
<1> DEFINE old == profCall[c]
<1>1. PICK base \in Bases, start \in 1 .. MaxName :
          /\ HasFree(base, 0, NamesTaken) /\ HasFree(base, start, CodesTaken)
          /\ profCall' = [profCall EXCEPT ![c] =
                 [at |-> "named", email |-> old.email, profile |-> old.profile,
                  raced |-> old.raced,
                  name |-> NameOf(base, FirstFree(base, 0, NamesTaken)),
                  code |-> NameOf(base, FirstFree(base, start, CodesTaken))]]
  BY DEF ProfileNames, ProfileInv
<1> DEFINE name == NameOf(base, FirstFree(base, 0, NamesTaken))
           code == NameOf(base, FirstFree(base, start, CodesTaken))
           call == [at |-> "named", email |-> old.email, profile |-> old.profile,
                    raced |-> old.raced, name |-> name, code |-> code]
<1>2. 0 \in Nat /\ start \in Nat
  BY ProfileAssumptions
<1>3. name \in Names /\ name \notin NamesTaken
  BY <1>1, <1>2, FirstFreeIsFree
<1>4. code \in Names /\ code \notin CodesTaken
  BY <1>1, <1>2, FirstFreeIsFree
<1>5. old \in ProfCall /\ old.at = "read" /\ ~old.student /\ ProfCallSound(old)
  BY DEF ProfileNames, ProfileInv
<1>6. UNCHANGED <<user, profile, detail, student>>
  BY DEF ProfileNames
<1>7. profCall' = [profCall EXCEPT ![c] = call]
  BY <1>1
<1> HIDE DEF name, code
<1>8. call \in ProfCall
  BY <1>3, <1>4, <1>5 DEF ProfCall, NoCall
<1>9. ProfCallSound(call)
  BY <1>3, <1>4, <1>5 DEF ProfCallSound, Insertable
<1> QED
  BY <1>6, <1>7, <1>8, <1>9, ProfGoesOn

LEMMA ProfileCommits ==
  ASSUME ProfileInv, NEW c \in ProfileCalls, ProfileCommit(c)
  PROVE  ProfileInv'
<1> DEFINE call == profCall[c]
           e == call.email
<1>1. /\ call.profile \/ e \notin DOMAIN profile
      /\ call.profile => e \in DOMAIN profile
  BY DEF ProfileCommit, Insertable, ProfileInv, ProfCallSound
<1>2. /\ profile' = IF call.profile THEN profile ELSE With(profile, e, "STUDENT")
      /\ student' = With(student, e, [name |-> call.name, code |-> call.code])
      /\ UNCHANGED <<user, detail>>
      /\ ProfEnd(c, TRUE)
  BY DEF ProfileCommit
<1>3. ProfilesAreWhole'
  BY <1>1, <1>2 DEF With, ProfileInv, ProfilesAreWhole
<1>4. DOMAIN profile \subseteq DOMAIN profile'
  BY <1>2 DEF With
<1>5. /\ profCall' \in [ProfileCalls -> ProfCall]
      /\ \A d \in ProfileCalls :
             \/ profCall'[d] = NoCall
             \/ profCall'[d].raced /\ SameRead(profCall[d], profCall'[d])
  BY <1>2, ProfEnds
<1>6. \A d \in ProfileCalls : ProfCallSound(profCall[d])'
  BY <1>2, <1>4, <1>5 DEF ProfileInv, ProfCallSound, SameRead, NoCall
<1> QED
  BY <1>3, <1>5, <1>6 DEF ProfileInv

LEMMA ProfileStep == ProfileInv /\ [ProfileNext]_profileVars => ProfileInv'
<1> SUFFICES ASSUME ProfileInv, [ProfileNext]_profileVars
             PROVE  ProfileInv'
  OBVIOUS
<1>1. CASE UNCHANGED profileVars
  BY <1>1, ProfCalls DEF profileVars, ProfileInv, ProfilesAreWhole
<1>2. ASSUME NEW e \in Emails, StudentJoins(e)
      PROVE  ProfileInv'
  <2>1. /\ DOMAIN user' = DOMAIN user \cup {e}
        /\ UNCHANGED <<profile, detail, student, profCall>>
    BY <1>2 DEF StudentJoins, With
  <2>2. ProfilesAreWhole'
    BY <1>2 DEF StudentJoins, With, ProfileInv, ProfilesAreWhole
  <2> QED
    BY <2>1, <2>2, ProfCalls DEF ProfileInv
<1>3. CASE SeedAdmin
  <2>1. /\ DOMAIN user' = DOMAIN user \cup {SuperAdmin}
        /\ DOMAIN profile' = DOMAIN profile \cup {SuperAdmin}
        /\ SuperAdmin \notin DOMAIN user
        /\ UNCHANGED <<student, profCall>>
    BY <1>3 DEF SeedAdmin, With
  <2>2. ProfilesAreWhole'
    BY <1>3, ProfileAssumptions DEF SeedAdmin, With, ProfileInv, ProfilesAreWhole
  <2> QED
    BY <2>1, <2>2, ProfCalls DEF ProfileInv
<1>4. ASSUME NEW c \in ProfileCalls, NEW e \in Emails, NEW kind \in StaffKinds,
             StaffCheck(c, e, kind)
      PROVE  ProfileInv'
  <2> DEFINE call == [at |-> "staff", email |-> e, kind |-> kind, raced |-> FALSE]
  <2>1. call \in ProfCall /\ ProfCallSound(call)
    BY DEF ProfCall, ProfCallSound
  <2>2. profCall' = [profCall EXCEPT ![c] = call] /\ UNCHANGED <<user, profile, detail, student>>
    BY <1>4 DEF StaffCheck, ProfDecide, Decided
  <2> HIDE DEF call
  <2> QED
    BY <2>1, <2>2, ProfGoesOn
<1>5. ASSUME NEW c \in ProfileCalls, NEW e \in Emails, ProfileRead(c, e)
      PROVE  ProfileInv'
  <2> DEFINE call == [at |-> "read", email |-> e, profile |-> e \in DOMAIN profile,
                      student |-> e \in DOMAIN student, raced |-> FALSE]
  <2>1. (e \in DOMAIN profile) \in BOOLEAN /\ (e \in DOMAIN student) \in BOOLEAN
    OBVIOUS
  <2>2. call \in ProfCall
    BY <2>1 DEF ProfCall
  <2>3. /\ call.at = "read" /\ call.email = e
        /\ call.profile <=> e \in DOMAIN profile
        /\ call.student <=> e \in DOMAIN student
    BY Zenon
  <2>4. e \in DOMAIN user
    BY <1>5 DEF ProfileRead
  <2>5. call \in ProfCall /\ ProfCallSound(call)
    <3> HIDE DEF call
    <3> QED
      BY <2>2, <2>3, <2>4 DEF ProfCallSound
  <2>6. profCall' = [profCall EXCEPT ![c] = call] /\ UNCHANGED <<user, profile, detail, student>>
    BY <1>5 DEF ProfileRead, ProfDecide, Decided
  <2> HIDE DEF call
  <2> QED
    BY <2>5, <2>6, ProfGoesOn
<1>6. ASSUME NEW c \in ProfileCalls, StaffCreate(c)
      PROVE  ProfileInv'
  <2> DEFINE e == profCall[c].email
             kind == profCall[c].kind
  <2>1. kind \in StaffKinds /\ kind # "STUDENT"
    BY <1>6, ProfileAssumptions DEF StaffCreate, ProfileInv, ProfCall, NoCall
  <2>2. /\ user' = With(user, e, kind)
        /\ profile' = With(profile, e, kind)
        /\ detail' = With(detail, e, kind)
        /\ student' = student /\ e \notin DOMAIN user /\ ProfEnd(c, FALSE)
    BY <1>6 DEF StaffCreate
  <2>3. ProfilesAreWhole'
    BY <2>1, <2>2 DEF With, ProfileInv, ProfilesAreWhole
  <2>4. DOMAIN profile' = DOMAIN profile \cup {e} /\ DOMAIN user' = DOMAIN user \cup {e}
    BY <2>2 DEF With
  <2>5. /\ profCall' \in [ProfileCalls -> ProfCall]
        /\ \A d \in ProfileCalls : profCall'[d] = profCall[d] \/ profCall'[d] = NoCall
    BY <2>2, ProfEnds
  <2>6. \A d \in ProfileCalls : profCall'[d] = profCall[d] \/ ProfCallSound(profCall[d])'
    BY <2>5 DEF ProfCallSound, NoCall
  <2>7. \A d \in ProfileCalls : ProfCallSound(profCall[d])'
    BY <2>2, <2>4, <2>6, ProfCalls
  <2> QED
    BY <2>3, <2>5, <2>7 DEF ProfileInv
<1>7. ASSUME NEW c \in ProfileCalls, StaffClash(c) \/ ProfileTexts(c) \/ ProfileClash(c)
      PROVE  ProfileInv'
  BY <1>7, ProfEndsUnwritten DEF StaffClash, ProfileTexts, ProfileClash, AfterRollback
<1> QED
  BY <1>1, <1>2, <1>3, <1>4, <1>5, <1>6, <1>7, ProfileNamesStep, ProfileCommits DEF ProfileNext

\* No account is left with half of its rows.
THEOREM ProfilesAreWholeAlways == ProfileSpec => []ProfilesAreWhole
<1>1. ProfileInv => ProfilesAreWhole
  BY DEF ProfileInv
<1> QED
  BY ProfileInitInv, ProfileStep, <1>1, PTL DEF ProfileSpec

\* The insert of a student that fails on a unique index was overtaken, whatever
\* first names there are and however they and their numbers make the same name.
THEOREM OnlyRacesClashAlways == ProfileSpec => []OnlyRacesClash
<1>1. ProfileInv => OnlyRacesClash
  BY DEF ProfileInv, ProfCallSound, OnlyRacesClash
<1> QED
  BY ProfileInitInv, ProfileStep, <1>1, PTL DEF ProfileSpec

-----------------------------------------------------------------------------
(* Badges.                                                                 *)

Event == [at : {"idle", "loop", "met", "award"}, score : Scores \cup {NoScore},
          rules : SUBSET [id : RuleIds, badge : BadgeIds, min : Thresholds],
          badge : BadgeIds \cup {0}, reward : Nat, due : SUBSET BadgeIds]

BadgesTypeOK ==
    /\ DOMAIN badge \subseteq BadgeIds
    /\ \A b \in DOMAIN badge : badge[b] \in BadgeRow
    /\ DOMAIN rule \subseteq RuleIds
    /\ \A r \in DOMAIN rule : rule[r] \in RuleRow
    /\ event \in [EventCalls -> Event]

\* A badge that is due was awarded, is being awarded, or has a rule ahead.
Provided(c, b) ==
    \/ b \in DOMAIN award
    \/ event[c].at \in {"met", "award"} /\ event[c].badge = b
    \/ \E r \in event[c].rules : r.badge = b /\ IsMet(r.min, event[c].score)

DueIsProvided ==
    \A c \in EventCalls : event[c].at # "idle" => \A b \in event[c].due : Provided(c, b)

BadgesInv == BadgesTypeOK /\ DueIsProvided

LEMMA BadgesInitInv == BadgesInit => BadgesInv
BY DEF BadgesInit, BadgesInv, BadgesTypeOK, DueIsProvided, NoEvent, Event

\* A step on the tables alone.
LEMMA BadgeTables ==
  ASSUME BadgesInv, UNCHANGED <<award, event>>,
         DOMAIN badge' \subseteq BadgeIds, \A b \in DOMAIN badge' : badge'[b] \in BadgeRow,
         DOMAIN rule' \subseteq RuleIds, \A r \in DOMAIN rule' : rule'[r] \in RuleRow
  PROVE  BadgesInv'
BY DEF BadgesInv, BadgesTypeOK, DueIsProvided, Provided

LEMMA RuleIsNew ==
  ASSUME BadgesInv, NEW b \in BadgeIds, NEW min \in Thresholds, NewRule(b, min)
  PROVE  DOMAIN rule' \subseteq RuleIds /\ \A r \in DOMAIN rule' : rule'[r] \in RuleRow
BY DEF NewRule, With, BadgesInv, BadgesTypeOK, RuleRow

\* A step of event c that leaves the tables.
LEMMA BadgeEvent ==
  ASSUME BadgesInv, NEW c \in EventCalls, NEW e \in Event,
         event' = [event EXCEPT ![c] = e],
         UNCHANGED <<badge, rule>>, DOMAIN award \subseteq DOMAIN award',
         e.at # "idle" =>
             \A b \in e.due :
                 \/ b \in DOMAIN award'
                 \/ e.at \in {"met", "award"} /\ e.badge = b
                 \/ \E r \in e.rules : r.badge = b /\ IsMet(r.min, e.score)
  PROVE  BadgesInv'
<1>1. BadgesTypeOK'
  BY DEF BadgesInv, BadgesTypeOK
<1>2. ASSUME NEW d \in EventCalls, event'[d].at # "idle", NEW b \in event'[d].due
      PROVE  Provided(d, b)'
  <2>1. CASE d = c
    BY <1>2, <2>1 DEF Provided, BadgesInv, BadgesTypeOK
  <2>2. CASE d # c
    BY <1>2, <2>2 DEF Provided, BadgesInv, BadgesTypeOK, DueIsProvided
  <2> QED
    BY <2>1, <2>2
<1> QED
  BY <1>1, <1>2 DEF BadgesInv, DueIsProvided

LEMMA BadgeAdministration ==
  ASSUME BadgesInv,
         \/ \E b \in BadgeIds :
                \/ \E reward \in Rewards : BadgeCreate(b, reward)
                \/ \E row \in BadgeRow : BadgeUpdate(b, row)
                \/ BadgeRemove(b)
                \/ \E min \in Thresholds : RuleAdd(b, min)
         \/ \E r \in RuleIds :
                \/ \E min \in Thresholds, active \in BOOLEAN : RuleUpdate(r, min, active)
                \/ RuleRemove(r)
  PROVE  BadgesInv'
<1>1. ASSUME NEW b \in BadgeIds, NEW reward \in Rewards, BadgeCreate(b, reward)
      PROVE  BadgesInv'
  <2>1. DOMAIN badge' \subseteq BadgeIds /\ \A k \in DOMAIN badge' : badge'[k] \in BadgeRow
    BY <1>1 DEF BadgeCreate, With, BadgesInv, BadgesTypeOK, BadgeRow
  <2>2. DOMAIN rule' \subseteq RuleIds /\ \A r \in DOMAIN rule' : rule'[r] \in RuleRow
    BY <1>1, RuleIsNew DEF BadgeCreate, BadgesInv, BadgesTypeOK
  <2> QED
    BY <1>1, <2>1, <2>2, BadgeTables DEF BadgeCreate
<1>2. ASSUME NEW b \in BadgeIds, NEW row \in BadgeRow, BadgeUpdate(b, row)
      PROVE  BadgesInv'
  <2>1. DOMAIN badge' \subseteq BadgeIds /\ \A k \in DOMAIN badge' : badge'[k] \in BadgeRow
    BY <1>2 DEF BadgeUpdate, With, BadgesInv, BadgesTypeOK
  <2> QED
    BY <1>2, <2>1, BadgeTables DEF BadgeUpdate, BadgesInv, BadgesTypeOK
<1>3. ASSUME NEW b \in BadgeIds, BadgeRemove(b)
      PROVE  BadgesInv'
  <2>1. DOMAIN badge' \subseteq BadgeIds /\ \A k \in DOMAIN badge' : badge'[k] \in BadgeRow
    BY <1>3 DEF BadgeRemove, Without, Restrict, BadgesInv, BadgesTypeOK
  <2>2. DOMAIN rule' \subseteq RuleIds /\ \A r \in DOMAIN rule' : rule'[r] \in RuleRow
    BY <1>3 DEF BadgeRemove, Restrict, BadgesInv, BadgesTypeOK
  <2> QED
    BY <1>3, <2>1, <2>2, BadgeTables DEF BadgeRemove
<1>4. ASSUME NEW b \in BadgeIds, NEW min \in Thresholds, RuleAdd(b, min)
      PROVE  BadgesInv'
  BY <1>4, RuleIsNew, BadgeTables DEF RuleAdd, BadgesInv, BadgesTypeOK
<1>5. ASSUME NEW r \in RuleIds, NEW min \in Thresholds, NEW active \in BOOLEAN,
             RuleUpdate(r, min, active)
      PROVE  BadgesInv'
  <2>1. DOMAIN rule' \subseteq RuleIds /\ \A k \in DOMAIN rule' : rule'[k] \in RuleRow
    BY <1>5 DEF RuleUpdate, BadgesInv, BadgesTypeOK, RuleRow
  <2> QED
    BY <1>5, <2>1, BadgeTables DEF RuleUpdate, BadgesInv, BadgesTypeOK
<1>6. ASSUME NEW r \in RuleIds, RuleRemove(r)
      PROVE  BadgesInv'
  <2>1. DOMAIN rule' \subseteq RuleIds /\ \A k \in DOMAIN rule' : rule'[k] \in RuleRow
    BY <1>6 DEF RuleRemove, Without, Restrict, BadgesInv, BadgesTypeOK
  <2> QED
    BY <1>6, <2>1, BadgeTables DEF RuleRemove, BadgesInv, BadgesTypeOK
<1> QED
  BY <1>1, <1>2, <1>3, <1>4, <1>5, <1>6

LEMMA EventReads ==
  ASSUME BadgesInv, NEW c \in EventCalls, NEW score \in Scores \cup {NoScore}, EventRead(c, score)
  PROVE  BadgesInv'
<1> DEFINE rules == {[id |-> r, badge |-> rule[r].badge, min |-> rule[r].min] : r \in ActiveRules}
           due == {rule[r].badge : r \in {q \in ActiveRules : IsMet(rule[q].min, score)}}
           e == [at |-> "loop", score |-> score, rules |-> rules, badge |-> 0, reward |-> 0,
                 due |-> due]
<1>1. \A r \in ActiveRules : rule[r].badge \in BadgeIds /\ rule[r].min \in Thresholds /\ r \in RuleIds
  BY DEF ActiveRules, BadgesInv, BadgesTypeOK, RuleRow
<1>2. rules \in SUBSET [id : RuleIds, badge : BadgeIds, min : Thresholds] /\ due \in SUBSET BadgeIds
  BY <1>1
<1>3. e \in Event
  BY <1>2 DEF Event
<1>4. \A b \in due : \E r \in rules : r.badge = b /\ IsMet(r.min, score)
  <2> SUFFICES ASSUME NEW q \in ActiveRules, IsMet(rule[q].min, score)
               PROVE  \E r \in rules : r.badge = rule[q].badge /\ IsMet(r.min, score)
    OBVIOUS
  <2> DEFINE r == [id |-> q, badge |-> rule[q].badge, min |-> rule[q].min]
  <2>1. r \in rules /\ r.badge = rule[q].badge /\ r.min = rule[q].min
    OBVIOUS
  <2> HIDE DEF r
  <2> QED
    BY <2>1
<1>5. event' = [event EXCEPT ![c] = e] /\ UNCHANGED <<badge, rule, award>>
  BY DEF EventRead
<1>6. e.due = due /\ e.rules = rules /\ e.score = score
  OBVIOUS
<1> HIDE DEF rules, due, e
<1> QED
  BY <1>3, <1>4, <1>5, <1>6, BadgeEvent

LEMMA EventLoops ==
  ASSUME BadgesInv, NEW c \in EventCalls, EventSkip(c) \/ EventJudge(c)
  PROVE  BadgesInv'
<1> DEFINE old == event[c]
<1>0. old \in Event /\ \A b \in old.due : Provided(c, b) \/ old.at = "idle"
  BY DEF BadgesInv, BadgesTypeOK, DueIsProvided
<1>1. CASE EventSkip(c)
  <2>1. PICK r \in old.rules : /\ old.at = "loop" /\ Held(r.badge)
                               /\ event' = [event EXCEPT ![c] = AfterHeld(old, r)]
    BY <1>1 DEF EventSkip
  <2> DEFINE e == [old EXCEPT !.rules = @ \ {r}]
  <2>2. /\ e \in Event /\ e.rules = old.rules \ {r} /\ e.due = old.due /\ e.score = old.score
        /\ e.at = "loop"
    BY <1>0, <2>1 DEF Event
  <2>3. event' = [event EXCEPT ![c] = e] /\ UNCHANGED <<badge, rule, award>>
    BY <1>1, <2>1 DEF AfterHeld, EventSkip
  <2>4. \A b \in e.due : \/ b \in DOMAIN award
                         \/ \E q \in e.rules : q.badge = b /\ IsMet(q.min, e.score)
    BY <1>0, <2>1, <2>2 DEF Provided, Held
  <2> HIDE DEF e
  <2> QED
    BY <2>2, <2>3, <2>4, BadgeEvent
<1>2. CASE EventJudge(c)
  <2>1. PICK r \in old.rules :
            /\ old.at = "loop"
            /\ event' = [event EXCEPT ![c] = Judged(old, r)]
            /\ UNCHANGED <<badge, rule, award>>
    BY <1>2 DEF EventJudge
  <2>0. r.badge \in BadgeIds
    BY <1>0, <2>1 DEF Event
  <2>2. CASE IsMet(r.min, old.score)
    <3> DEFINE e == [old EXCEPT !.at = "met", !.rules = old.rules \ {r}, !.badge = r.badge]
    <3>1. /\ e \in Event /\ e.rules = old.rules \ {r} /\ e.due = old.due /\ e.score = old.score
          /\ e.at = "met" /\ e.badge = r.badge
      BY <1>0, <2>0, <2>1 DEF Event
    <3>2. Judged(old, r) = e
      BY <2>2 DEF Judged
    <3>3. \A b \in e.due : \/ b \in DOMAIN award \/ e.badge = b
                           \/ \E q \in e.rules : q.badge = b /\ IsMet(q.min, e.score)
      BY <1>0, <2>1, <3>1 DEF Provided
    <3> HIDE DEF e
    <3> QED
      BY <2>1, <3>1, <3>2, <3>3, BadgeEvent
  <2>3. CASE ~IsMet(r.min, old.score)
    <3> DEFINE e == [old EXCEPT !.rules = old.rules \ {r}]
    <3>1. /\ e \in Event /\ e.rules = old.rules \ {r} /\ e.due = old.due /\ e.score = old.score
          /\ e.at = "loop"
      BY <1>0, <2>1 DEF Event
    <3>2. Judged(old, r) = e
      BY <2>3 DEF Judged
    <3>3. \A b \in e.due : \/ b \in DOMAIN award
                           \/ \E q \in e.rules : q.badge = b /\ IsMet(q.min, e.score)
      BY <1>0, <2>1, <2>3, <3>1 DEF Provided
    <3> HIDE DEF e
    <3> QED
      BY <2>1, <3>1, <3>2, <3>3, BadgeEvent
  <2> QED
    BY <2>2, <2>3
<1> QED
  BY <1>1, <1>2

LEMMA EventAwards ==
  ASSUME BadgesInv, NEW c \in EventCalls, AwardRead(c) \/ AwardCommit(c)
  PROVE  BadgesInv'
<1> DEFINE old == event[c]
<1>0. old \in Event /\ \A b \in old.due : Provided(c, b) \/ old.at = "idle"
  BY DEF BadgesInv, BadgesTypeOK, DueIsProvided
<1>1. CASE AwardRead(c)
  <2> DEFINE reward == badge[old.badge].reward
             e == [old EXCEPT !.at = "award", !.reward = reward]
  <2>1. reward \in Nat /\ old.at = "met"
    BY <1>1, BadgeAssumptions DEF AwardRead, BadgesInv, BadgesTypeOK, BadgeRow
  <2>2. /\ e \in Event /\ e.rules = old.rules /\ e.due = old.due /\ e.score = old.score
        /\ e.at = "award" /\ e.badge = old.badge
    BY <1>0, <2>1 DEF Event
  <2>3. event' = [event EXCEPT ![c] = e] /\ UNCHANGED <<badge, rule, award>>
    BY <1>1 DEF AwardRead, BadgesInv, BadgesTypeOK
  <2>4. \A b \in e.due : \/ b \in DOMAIN award \/ e.badge = b
                         \/ \E q \in e.rules : q.badge = b /\ IsMet(q.min, e.score)
    BY <1>0, <2>1, <2>2 DEF Provided
  <2> HIDE DEF e
  <2> QED
    BY <2>2, <2>3, <2>4, BadgeEvent
<1>2. CASE AwardCommit(c)
  <2> DEFINE e == [old EXCEPT !.at = "loop", !.badge = 0, !.reward = 0]
  <2>1. /\ e \in Event /\ e.rules = old.rules /\ e.due = old.due /\ e.score = old.score
        /\ e.at = "loop"
    BY <1>0 DEF Event
  <2>2. /\ event' = [event EXCEPT ![c] = e] /\ UNCHANGED <<badge, rule>>
        /\ old.at = "award" /\ award' = With(award, old.badge, old.reward)
    BY <1>2 DEF AwardCommit, BadgesInv, BadgesTypeOK
  <2>3. DOMAIN award' = DOMAIN award \cup {old.badge}
    BY <2>2 DEF With
  <2>4. \A b \in e.due : \/ b \in DOMAIN award'
                         \/ \E q \in e.rules : q.badge = b /\ IsMet(q.min, e.score)
    BY <1>0, <2>1, <2>2, <2>3 DEF Provided
  <2> HIDE DEF e
  <2> QED
    BY <2>1, <2>2, <2>3, <2>4, BadgeEvent
<1> QED
  BY <1>1, <1>2

LEMMA EventEnds ==
  ASSUME BadgesInv, NEW c \in EventCalls, EventFail(c) \/ EventDone(c)
  PROVE  BadgesInv'
<1>1. event' = [event EXCEPT ![c] = NoEvent] /\ UNCHANGED <<badge, rule, award>>
  BY DEF EventFail, EventDone
<1>2. NoEvent \in Event /\ NoEvent.at = "idle"
  BY DEF NoEvent, Event
<1> QED
  BY <1>1, <1>2, BadgeEvent

LEMMA BadgesStep == BadgesInv /\ [BadgesNext]_badgeVars => BadgesInv'
<1> SUFFICES ASSUME BadgesInv, [BadgesNext]_badgeVars
             PROVE  BadgesInv'
  OBVIOUS
<1>1. CASE UNCHANGED badgeVars
  BY <1>1, BadgeTables DEF badgeVars, BadgesInv, BadgesTypeOK
<1> QED
  BY <1>1, BadgeAdministration, EventReads, EventLoops, EventAwards, EventEnds DEF BadgesNext

\* An event that is worked through leaves no badge out that its rules award.
THEOREM AwardsAreCompleteAlways == BadgesSpec => AwardsAreComplete
<1>1. BadgesInv =>
        [\A c \in EventCalls :
            event[c].at = "loop" /\ event[c].rules = {} /\ event'[c] = NoEvent
                => \A b \in event[c].due : b \in DOMAIN award]_badgeVars
  BY DEF BadgesInv, DueIsProvided, Provided
<1> QED
  BY BadgesInitInv, BadgesStep, <1>1, PTL DEF BadgesSpec, AwardsAreComplete

\* Diamonds are numbered within their badge, and the wallet counts them.
WalletInv ==
    /\ \A b \in DOMAIN award : award[b] \in Nat
    /\ IsFiniteSet(Diamonds)
    /\ WalletIsWhatWasAwarded

\* An award adds as many diamonds as the reward it read, and none that the
\* student has.
LEMMA WalletAward ==
  ASSUME BadgesInv, WalletInv, NEW c \in EventCalls, AwardCommit(c)
  PROVE  WalletInv'
<1> DEFINE b == event[c].badge
           r == event[c].reward
           numbers == 1 .. r
           new == {b} \X numbers
<1>1. /\ b \notin DOMAIN award /\ award' = With(award, b, r) /\ wallet' = wallet + r
      /\ r \in Nat
  BY DEF AwardCommit, Awardable, BadgesInv, BadgesTypeOK, Event
<1> HIDE DEF b, r
<1>2. /\ DOMAIN award' = DOMAIN award \cup {b} /\ award'[b] = r
      /\ \A d \in DOMAIN award : award'[d] = award[d]
  BY <1>1 DEF With
<1>3. Diamonds' = Diamonds \cup new
  BY <1>2 DEF Diamonds
<1>4. Diamonds \cap new = {}
  BY <1>1 DEF Diamonds
<1>5. IsFiniteSet(new) /\ Cardinality(new) = r
  <2> DEFINE size == IF 1 > r THEN 0 ELSE r - 1 + 1
  <2>1. IsFiniteSet({b}) /\ Cardinality({b}) = 1
    BY FS_Singleton
  <2>2. 1 \in Int /\ r \in Int /\ size = r
    BY <1>1
  <2>3. IsFiniteSet(numbers) /\ Cardinality(numbers) = size
    BY <2>2, FS_Interval
  <2> HIDE DEF numbers, size
  <2>4. IsFiniteSet(new) /\ Cardinality(new) = 1 * Cardinality(numbers)
    BY <2>1, <2>3, FS_Product
  <2> QED
    BY <1>1, <2>2, <2>3, <2>4
<1> HIDE DEF new
<1>6. /\ IsFiniteSet(Diamonds \cup new)
      /\ Cardinality(Diamonds \cup new)
           = Cardinality(Diamonds) + Cardinality(new) - Cardinality(Diamonds \cap new)
  BY <1>5, FS_Union DEF WalletInv
<1>7. Cardinality(Diamonds \cap new) = 0 /\ Cardinality(Diamonds) \in Nat
  BY <1>4, FS_EmptySet, FS_CardinalityType DEF WalletInv
<1>8. wallet' = Cardinality(Diamonds')
  BY <1>1, <1>3, <1>5, <1>6, <1>7 DEF WalletInv, WalletIsWhatWasAwarded
<1> QED
  BY <1>1, <1>2, <1>3, <1>6, <1>8 DEF WalletInv, WalletIsWhatWasAwarded

\* Nothing else writes the wallet or what was awarded.
LEMMA WalletStep ==
  ASSUME BadgesInv, WalletInv, [BadgesNext]_badgeVars
  PROVE  WalletInv'
<1>1. CASE UNCHANGED <<award, wallet>>
  BY <1>1 DEF WalletInv, WalletIsWhatWasAwarded, Diamonds
<1>2. UNCHANGED <<award, wallet>> \/ \E c \in EventCalls : AwardCommit(c)
  BY DEF BadgesNext, badgeVars, BadgeCreate, BadgeUpdate, BadgeRemove, RuleAdd, RuleUpdate,
         RuleRemove, EventRead, EventSkip, EventJudge, AwardRead, EventFail, EventDone,
         WalletAfterFailure
<1> QED
  BY <1>1, <1>2, WalletAward

\* However events overlap, fail half-way and rewards change meanwhile, the
\* wallet holds the diamonds of the badges the student was given.
THEOREM WalletIsWhatWasAwardedAlways == BadgesSpec => []WalletIsWhatWasAwarded
<1>1. BadgesInit => WalletInv
  <2>1. ASSUME BadgesInit
        PROVE  Diamonds = {} /\ DOMAIN award = {} /\ wallet = 0
    BY <2>1 DEF BadgesInit, Diamonds
  <2> QED
    BY <2>1, FS_EmptySet DEF WalletInv, WalletIsWhatWasAwarded
<1>2. WalletInv => WalletIsWhatWasAwarded
  BY DEF WalletInv
<1> QED
  BY <1>1, <1>2, WalletStep, BadgesInitInv, BadgesStep, PTL DEF BadgesSpec

-----------------------------------------------------------------------------
(* Books.                                                                  *)

BkCall ==
    {NoCall}
    \cup [at : {"bookCreate"}, custom : CustomIds, raced : BOOLEAN]
    \cup [at : {"bookUpdate"}, id : BookIds, custom : CustomIds \cup {Same}, raced : BOOLEAN]
    \cup [at : {"bookRemove"}, id : BookIds, raced : BOOLEAN]
    \cup [at : {"chapterCreate"}, book : BookIds, order : Orders, raced : BOOLEAN]
    \cup [at : {"chapterUpdate"}, id : ChapterIds, book : BookIds \cup {Same},
          order : Orders \cup {Same}, checked : BOOLEAN, raced : BOOLEAN]
    \cup [at : {"chapterRemove"}, id : ChapterIds, raced : BOOLEAN]
    \cup [at : {"log"}, did : BOOLEAN, raced : BOOLEAN]

TablesOK ==
    /\ AllBooks \subseteq bookUsed /\ bookUsed \subseteq BookIds
    /\ \A b \in AllBooks : book[b] \in CustomIds
    /\ Chapters \subseteq chapterUsed /\ chapterUsed \subseteq ChapterIds
    /\ \A k \in Chapters : chapter[k] \in ChapterRow

\* What a request has seen of the orders, unless overtaken.
BkCallSound(call) ==
    /\ call.at = "chapterCreate" /\ ~call.raced => ~OrderTaken(call.book, call.order)
    /\ call.at = "chapterUpdate" /\ ~call.raced =>
           IF call.checked
           THEN call.order # Same /\ ~OrderTaken(chapter[call.id].book, call.order)
           ELSE call.order \in {Same, chapter[call.id].order}

Owes(call) == call.at = "log" /\ call.did

\* What was removed without an entry was a chapter, and is none again.
ForgottenAreGone ==
    /\ IsFiniteSet(forgotten)
    /\ forgotten \subseteq chapterUsed \ Chapters

BooksInv ==
    /\ TablesOK
    /\ bookCall \in [BookCalls -> BkCall]
    /\ ChapterOrdersDiffer
    /\ \A c \in BookCalls : BkCallSound(bookCall[c])
    /\ ForgottenAreGone
    /\ ChangesAreAudited

LEMMA BooksInitInv == BooksInit => BooksInv
<1> SUFFICES ASSUME BooksInit
             PROVE  BooksInv
  OBVIOUS
<1>1. {c \in BookCalls : bookCall[c].at = "log" /\ bookCall[c].did} = {}
  BY DEF BooksInit, NoCall
<1>2. ChangesAreAudited /\ ForgottenAreGone
  BY <1>1, FS_EmptySet DEF BooksInit, ChangesAreAudited, ForgottenAreGone
<1> QED
  BY <1>2 DEF BooksInit, BooksInv, TablesOK, ChapterOrdersDiffer, BkCallSound,
              BkCall, NoCall, AllBooks, Chapters

\* The two requests are about to enter the same, or nothing.
SameLog(k, l) ==
    /\ k.at = "log" <=> l.at = "log"
    /\ k.at = "log" => k.did = l.did

LEMMA BkEnded ==
  ASSUME bookCall \in [BookCalls -> BkCall], NEW c \in BookCalls, NEW wrote \in BOOLEAN
  PROVE  /\ Ended(bookCall, c, wrote) \in [BookCalls -> BkCall]
         /\ Ended(bookCall, c, wrote)[c] = NoCall
         /\ \A d \in BookCalls \ {c} : SameLog(bookCall[d], Ended(bookCall, c, wrote)[d])
         /\ \A d \in BookCalls :
                \/ Ended(bookCall, c, wrote)[d] = NoCall
                \/ wrote /\ Ended(bookCall, c, wrote)[d].raced
                \/ ~wrote /\ Ended(bookCall, c, wrote)[d] = bookCall[d]
<1>1. NoCall \in BkCall
  BY DEF BkCall
<1>2. ASSUME NEW k \in BkCall, k # NoCall
      PROVE  Overtaken(k) \in BkCall /\ Overtaken(k).raced /\ SameLog(k, Overtaken(k))
  BY <1>2 DEF BkCall, Overtaken, SameLog
<1>3. \A d \in BookCalls \ {c} : SameLog(bookCall[d], Ended(bookCall, c, wrote)[d])
  <2> SUFFICES ASSUME NEW d \in BookCalls \ {c}
               PROVE  SameLog(bookCall[d], Ended(bookCall, c, wrote)[d])
    OBVIOUS
  <2>1. Ended(bookCall, c, wrote)[d] =
            IF bookCall[d] = NoCall \/ ~wrote THEN bookCall[d] ELSE Overtaken(bookCall[d])
    BY DEF Ended, Overtaken
  <2> QED
    BY <1>2, <2>1 DEF SameLog
<1>4. Ended(bookCall, c, wrote)[c] = NoCall
  BY DEF Ended
<1> QED
  BY <1>1, <1>2, <1>3, <1>4, EndedCalls

\* Changes are owed as numbers are added up.
LEMMA OwedIsNat == BooksInv => owed \in Nat /\ Cardinality(forgotten) \in Nat
<1> SUFFICES ASSUME BooksInv
             PROVE  owed \in Nat /\ Cardinality(forgotten) \in Nat
  OBVIOUS
<1>1. IsFiniteSet({c \in BookCalls : bookCall[c].at = "log" /\ bookCall[c].did})
  BY BookAssumptions, FS_Subset
<1>2. Cardinality({c \in BookCalls : bookCall[c].at = "log" /\ bookCall[c].did}) \in Nat
  BY <1>1, FS_CardinalityType
<1>3. Cardinality(forgotten) \in Nat
  BY FS_CardinalityType DEF BooksInv, ForgottenAreGone
<1> QED
  BY <1>2, <1>3 DEF BooksInv, ChangesAreAudited

\* The books of the audit: one request's entry comes or goes, or a change is
\* forgotten.
LEMMA BkAudit ==
  ASSUME BooksInv, bookCall' \in [BookCalls -> BkCall], NEW c \in BookCalls,
         \A d \in BookCalls \ {c} : SameLog(bookCall[d], bookCall'[d]),
         NEW more \in Nat, Cardinality(forgotten') = Cardinality(forgotten) + more,
         owed' = owed + more + (IF Owes(bookCall'[c]) THEN 1 ELSE 0)
                             - (IF Owes(bookCall[c]) THEN 1 ELSE 0)
  PROVE  ChangesAreAudited'
<1> DEFINE Owing == {d \in BookCalls : bookCall[d].at = "log" /\ bookCall[d].did}
           OwingNext == {d \in BookCalls : bookCall'[d].at = "log" /\ bookCall'[d].did}
           Rest == Owing \ {c}
<1>1. OwingNext = IF Owes(bookCall'[c]) THEN Rest \cup {c} ELSE Rest
  BY DEF Owes, SameLog
<1>2. Owing = IF Owes(bookCall[c]) THEN Rest \cup {c} ELSE Rest
  BY DEF Owes
<1>3. IsFiniteSet(Rest)
  BY BookAssumptions, FS_Subset
<1>4. c \notin Rest
  OBVIOUS
<1>5. Cardinality(Rest) \in Nat /\ Cardinality(Rest \cup {c}) = Cardinality(Rest) + 1
  BY <1>3, <1>4, FS_CardinalityType, FS_AddElement
<1>6. owed = Cardinality(Owing) + Cardinality(forgotten)
  BY DEF BooksInv, ChangesAreAudited
<1>7. Cardinality(forgotten) \in Nat
  BY OwedIsNat
<1> HIDE DEF Owing, OwingNext, Rest
<1>8. owed' = Cardinality(OwingNext) + Cardinality(forgotten')
  BY <1>1, <1>2, <1>5, <1>6, <1>7
<1> QED
  BY <1>8 DEF ChangesAreAudited, OwingNext

\* A step that leaves the tables and one request's decision.
LEMMA BkNoWrite ==
  ASSUME BooksInv, UNCHANGED <<book, chapter, bookUsed, chapterUsed, forgotten>>,
         bookCall' \in [BookCalls -> BkCall],
         \A d \in BookCalls : bookCall'[d] = bookCall[d] \/ BkCallSound(bookCall'[d])
  PROVE  /\ TablesOK' /\ ChapterOrdersDiffer' /\ ForgottenAreGone'
         /\ \A d \in BookCalls : BkCallSound(bookCall[d])'
<1>1. TablesOK' /\ ChapterOrdersDiffer' /\ ForgottenAreGone'
  BY DEF BooksInv, TablesOK, ChapterOrdersDiffer, ForgottenAreGone, AllBooks, Chapters
<1>2. \A d \in BookCalls : BkCallSound(bookCall[d])'
  BY DEF BooksInv, BkCallSound, OrderTaken, Chapters
<1> QED
  BY <1>1, <1>2

\* A request decides, or is refused, and owes nothing.
LEMMA BkOwedStays ==
  ASSUME BooksInv, bookCall' \in [BookCalls -> BkCall], NEW c \in BookCalls,
         \A d \in BookCalls \ {c} : SameLog(bookCall[d], bookCall'[d]),
         ~Owes(bookCall[c]), ~Owes(bookCall'[c]), UNCHANGED <<owed, forgotten>>
  PROVE  ChangesAreAudited'
<1>1. /\ Cardinality(forgotten') = Cardinality(forgotten) + 0
      /\ owed' = owed + 0 + (IF Owes(bookCall'[c]) THEN 1 ELSE 0)
                           - (IF Owes(bookCall[c]) THEN 1 ELSE 0)
  BY OwedIsNat
<1> QED
  BY <1>1, BkAudit

LEMMA BkDecided ==
  ASSUME BooksInv, NEW c \in BookCalls, NEW decision \in BkCall, decision.at # "log",
         BkCallSound(decision), BookDecide(c, decision)
  PROVE  BooksInv'
<1>1. /\ bookCall' \in [BookCalls -> BkCall]
      /\ bookCall'[c] = decision
      /\ \A d \in BookCalls \ {c} : bookCall'[d] = bookCall[d]
      /\ bookCall[c] = NoCall
  BY DEF BookDecide, Decided, BooksInv
<1>2. /\ ~Owes(bookCall[c]) /\ ~Owes(bookCall'[c])
      /\ \A d \in BookCalls \ {c} : SameLog(bookCall[d], bookCall'[d])
  BY <1>1 DEF Owes, NoCall, SameLog
<1>3. UNCHANGED <<book, chapter, bookUsed, chapterUsed, owed, forgotten>>
  BY DEF BookDecide
<1>4. ChangesAreAudited'
  BY <1>1, <1>2, <1>3, BkOwedStays
<1>5. /\ TablesOK' /\ ChapterOrdersDiffer' /\ ForgottenAreGone'
      /\ \A d \in BookCalls : BkCallSound(bookCall[d])'
  BY <1>1, <1>3, BkNoWrite
<1> QED
  BY <1>1, <1>4, <1>5 DEF BooksInv

LEMMA BkRefused ==
  ASSUME BooksInv, NEW c \in BookCalls, bookCall[c].at # "log", Refused(c)
  PROVE  BooksInv'
<1> DEFINE log == Logging(FALSE)
<1>0. log \in BkCall /\ log.at = "log" /\ log.did = FALSE
  BY DEF Logging, BkCall
<1>1. /\ bookCall' \in [BookCalls -> BkCall]
      /\ bookCall'[c] = log
      /\ \A d \in BookCalls \ {c} : bookCall'[d] = bookCall[d]
  BY <1>0 DEF Refused, BooksInv
<1>2. /\ ~Owes(bookCall[c]) /\ ~Owes(bookCall'[c])
      /\ \A d \in BookCalls \ {c} : SameLog(bookCall[d], bookCall'[d])
  BY <1>0, <1>1 DEF Owes, SameLog
<1>3. UNCHANGED <<book, chapter, bookUsed, chapterUsed, owed, forgotten>>
  BY DEF Refused
<1> HIDE DEF log
<1>4. ChangesAreAudited'
  BY <1>1, <1>2, <1>3, BkOwedStays
<1>5. /\ TablesOK' /\ ChapterOrdersDiffer' /\ ForgottenAreGone'
      /\ \A d \in BookCalls : BkCallSound(bookCall[d])'
  BY <1>0, <1>1, <1>3, BkNoWrite DEF BkCallSound
<1> QED
  BY <1>1, <1>4, <1>5 DEF BooksInv

\* A request ends without a write, its entry added, refused or not asked for.
LEMMA BkEnds ==
  ASSUME BooksInv, NEW c \in BookCalls, bookCall' = Ended(bookCall, c, FALSE),
         UNCHANGED <<book, chapter, bookUsed, chapterUsed, forgotten>>,
         owed' = IF Owes(bookCall[c]) THEN owed - 1 ELSE owed
  PROVE  BooksInv'
<1>1. /\ bookCall' \in [BookCalls -> BkCall]
      /\ bookCall'[c] = NoCall
      /\ \A d \in BookCalls \ {c} : SameLog(bookCall[d], bookCall'[d])
      /\ \A d \in BookCalls : bookCall'[d] = NoCall \/ bookCall'[d] = bookCall[d]
  BY BkEnded DEF BooksInv
<1>2. ~Owes(bookCall'[c])
  <2>1. NoCall.at # "log"
    BY DEF NoCall
  <2> QED
    BY <1>1, <2>1 DEF Owes
<1>3. owed' = owed + 0 + (IF Owes(bookCall'[c]) THEN 1 ELSE 0)
                       - (IF Owes(bookCall[c]) THEN 1 ELSE 0)
  BY <1>2, OwedIsNat
<1>4. ChangesAreAudited'
  <2>1. Cardinality(forgotten') = Cardinality(forgotten) + 0
    BY OwedIsNat
  <2> QED
    BY <1>1, <1>3, <2>1, BkAudit
<1>5. BkCallSound(NoCall)
  BY DEF BkCallSound, NoCall
<1>6. /\ TablesOK' /\ ChapterOrdersDiffer' /\ ForgottenAreGone'
      /\ \A d \in BookCalls : BkCallSound(bookCall[d])'
  BY <1>1, <1>5, BkNoWrite
<1> QED
  BY <1>1, <1>4, <1>6 DEF BooksInv

\* A write overtakes every other request.  An entry will follow, or what was
\* removed is forgotten.
LEMMA BkWrote ==
  ASSUME BooksInv, TablesOK', ChapterOrdersDiffer', ForgottenAreGone',
         NEW c \in BookCalls, bookCall[c].at # "log", NEW id,
         \/ Wrote(c)
         \/ /\ bookCall' = Ended(bookCall, c, TRUE) /\ owed' = owed + 1
            /\ id \notin forgotten /\ forgotten' = forgotten \cup {id}
  PROVE  BooksInv'
<1> DEFINE ended == Ended(bookCall, c, TRUE)
<1>1. /\ ended \in [BookCalls -> BkCall]
      /\ ended[c] = NoCall
      /\ \A d \in BookCalls \ {c} : SameLog(bookCall[d], ended[d])
      /\ \A d \in BookCalls : ended[d] = NoCall \/ ended[d].raced
  BY BkEnded DEF BooksInv
<1> HIDE DEF ended
<1>2. owed \in Nat /\ Cardinality(forgotten) \in Nat /\ ~Owes(bookCall[c])
  BY OwedIsNat DEF Owes
<1>3. PICK call \in BkCall, more \in Nat :
          /\ bookCall' = [ended EXCEPT ![c] = call]
          /\ BkCallSound(call)'
          /\ Cardinality(forgotten') = Cardinality(forgotten) + more
          /\ owed' = owed + more + (IF Owes(call) THEN 1 ELSE 0)
  <2>1. CASE Wrote(c)
    <3>1. bookCall' = [ended EXCEPT ![c] = Logging(TRUE)] /\ owed' = owed + 1
          /\ forgotten' = forgotten
      BY <2>1 DEF Wrote, ended
    <3>2. /\ Logging(TRUE) \in BkCall /\ Owes(Logging(TRUE))
          /\ BkCallSound(Logging(TRUE))'
      BY DEF Logging, BkCall, Owes, BkCallSound
    <3>3. /\ Cardinality(forgotten') = Cardinality(forgotten) + 0
          /\ owed' = owed + 0 + (IF Owes(Logging(TRUE)) THEN 1 ELSE 0)
      BY <1>2, <3>1, <3>2
    <3> QED
      BY <3>1, <3>2, <3>3
  <2>2. CASE /\ bookCall' = ended /\ owed' = owed + 1
             /\ id \notin forgotten /\ forgotten' = forgotten \cup {id}
    <3>1. NoCall \in BkCall /\ ~Owes(NoCall) /\ BkCallSound(NoCall)'
      BY DEF NoCall, BkCall, Owes, BkCallSound
    <3>2. bookCall' = [ended EXCEPT ![c] = NoCall]
      BY <1>1, <2>2
    <3>3. Cardinality(forgotten') = Cardinality(forgotten) + 1
      BY <2>2, FS_AddElement DEF BooksInv, ForgottenAreGone
    <3>4. owed' = owed + 1 + (IF Owes(NoCall) THEN 1 ELSE 0)
      BY <1>2, <2>2, <3>1
    <3> QED
      BY <3>1, <3>2, <3>3, <3>4
  <2> QED
    BY <2>1, <2>2 DEF ended
<1>4. /\ bookCall' \in [BookCalls -> BkCall]
      /\ bookCall'[c] = call
      /\ \A d \in BookCalls \ {c} : bookCall'[d] = ended[d]
  BY <1>1, <1>3
<1>5. \A d \in BookCalls \ {c} : SameLog(bookCall[d], bookCall'[d])
  BY <1>1, <1>4
<1>6. owed' = owed + more + (IF Owes(bookCall'[c]) THEN 1 ELSE 0)
                          - (IF Owes(bookCall[c]) THEN 1 ELSE 0)
  BY <1>2, <1>3, <1>4
<1>7. ChangesAreAudited'
  BY <1>3, <1>4, <1>5, <1>6, BkAudit
<1>8. \A d \in BookCalls : BkCallSound(bookCall[d])'
  BY <1>1, <1>3, <1>4 DEF BkCallSound, NoCall
<1> QED
  BY <1>4, <1>7, <1>8 DEF BooksInv

\* A book or chapter row is written, or none.
LEMMA BookWrites ==
  ASSUME BooksInv, NEW c \in BookCalls, BookCreate(c) \/ BookUpdate(c) \/ BookRemove(c)
  PROVE  BooksInv'
<1> DEFINE call == bookCall[c]
<1>1. call \in BkCall /\ call.at # "log" /\ Wrote(c) /\ UNCHANGED <<chapter, chapterUsed>>
  BY DEF BooksInv, BookCreate, BookUpdate, BookRemove
<1>2. ChapterOrdersDiffer' /\ ForgottenAreGone'
  BY <1>1 DEF Wrote, BooksInv, ChapterOrdersDiffer, ForgottenAreGone, Chapters
<1>3. TablesOK'
  <2>1. CASE BookCreate(c)
    <3>1. call.custom \in CustomIds
      BY <1>1, <2>1 DEF BookCreate, BkCall, NoCall
    <3> QED
      BY <1>1, <2>1, <3>1 DEF BookCreate, With, BooksInv, TablesOK, AllBooks, Chapters
  <2>2. CASE BookUpdate(c)
    <3>1. call.custom \in CustomIds \cup {Same} /\ call.id \in AllBooks
      BY <1>1, <2>2 DEF BookUpdate, BkCall, NoCall
    <3> QED
      BY <1>1, <2>2, <3>1 DEF BookUpdate, With, BooksInv, TablesOK, AllBooks, Chapters
  <2>3. CASE BookRemove(c)
    BY <1>1, <2>3 DEF BookRemove, Without, Restrict, BooksInv, TablesOK, AllBooks, Chapters
  <2> QED
    BY <2>1, <2>2, <2>3
<1> QED
  BY <1>1, <1>2, <1>3, BkWrote

LEMMA ChapterCreates ==
  ASSUME BooksInv, NEW c \in BookCalls, ChapterCreate(c)
  PROVE  BooksInv'
<1> DEFINE call == bookCall[c]
           row == [book |-> call.book, order |-> call.order, raced |-> call.raced, moved |-> FALSE]
<1>1. call \in BkCall /\ call.at = "chapterCreate" /\ BkCallSound(call) /\ Wrote(c)
  BY DEF BooksInv, ChapterCreate
<1>2. row \in ChapterRow
  BY <1>1 DEF BkCall, NoCall, ChapterRow
<1>3. PICK id \in ChapterIds \ chapterUsed :
          chapterUsed' = chapterUsed \cup {id} /\ chapter' = With(chapter, id, row)
  BY DEF ChapterCreate
<1>4. UNCHANGED <<book, bookUsed>>
  BY DEF ChapterCreate
<1>5. /\ Chapters' = Chapters \cup {id}
      /\ chapter'[id] = row
      /\ \A k \in Chapters \ {id} : chapter'[k] = chapter[k]
  BY <1>3 DEF With, Chapters
<1>6. TablesOK'
  BY <1>2, <1>3, <1>4, <1>5 DEF BooksInv, TablesOK, AllBooks
<1>7. row.book = call.book /\ row.order = call.order /\ row.raced = call.raced
  OBVIOUS
<1>8. ASSUME NEW k \in Chapters, chapter[k].book = row.book, chapter[k].order = row.order
      PROVE  row.raced
  BY <1>1, <1>2, <1>7, <1>8 DEF BkCallSound, OrderTaken, ChapterRow
<1> HIDE DEF row
<1>9. ChapterOrdersDiffer'
  BY <1>5, <1>8 DEF BooksInv, ChapterOrdersDiffer
<1>10. ForgottenAreGone'
  BY <1>1, <1>3, <1>5 DEF Wrote, BooksInv, ForgottenAreGone
<1> QED
  BY <1>1, <1>6, <1>9, <1>10, BkWrote

LEMMA ChapterUpdates ==
  ASSUME BooksInv, NEW c \in BookCalls, ChapterUpdate(c)
  PROVE  BooksInv'
<1> DEFINE call == bookCall[c]
           old == chapter[call.id]
           target == IF call.book = Same THEN old.book ELSE call.book
           row == [book |-> target,
                   order |-> IF call.order = Same THEN old.order ELSE call.order,
                   raced |-> call.raced \/ (~call.checked /\ old.raced),
                   moved |-> target # old.book \/ (~call.checked /\ old.moved)]
<1>1. call \in BkCall /\ call.at = "chapterUpdate" /\ BkCallSound(call) /\ Wrote(c)
  BY DEF BooksInv, ChapterUpdate
<1>2. /\ call.id \in Chapters /\ target \in AllBooks
      /\ chapter' = With(chapter, call.id, row)
      /\ UNCHANGED <<book, bookUsed, chapterUsed>>
  BY DEF ChapterUpdate
<1>3. /\ call.order \in Orders \cup {Same} /\ call.checked \in BOOLEAN /\ call.raced \in BOOLEAN
      /\ old \in ChapterRow
  BY <1>1, <1>2 DEF BkCall, NoCall, BooksInv, TablesOK
<1>4. row \in ChapterRow
  BY <1>2, <1>3 DEF ChapterRow, BooksInv, TablesOK
<1>5. /\ Chapters' = Chapters
      /\ chapter'[call.id] = row
      /\ \A k \in Chapters \ {call.id} : chapter'[k] = chapter[k]
  BY <1>2 DEF With, Chapters
<1>6. TablesOK'
  <2> HIDE DEF row
  <2>1. \A k \in Chapters' : chapter'[k] \in ChapterRow
    BY <1>4, <1>5 DEF BooksInv, TablesOK
  <2> QED
    BY <1>2, <1>5, <2>1 DEF BooksInv, TablesOK, AllBooks
<1>7. ASSUME NEW k \in Chapters \ {call.id}, chapter[k].book = row.book,
             chapter[k].order = row.order, ~row.raced, ~row.moved
      PROVE  chapter[k].raced \/ chapter[k].moved
  <2>1. row.book = old.book /\ ~call.raced
    BY <1>3, <1>7
  <2>2. CASE call.checked
    BY <1>1, <1>7, <2>1, <2>2 DEF BkCallSound, OrderTaken
  <2>3. CASE ~call.checked
    <3>1. row.order = old.order /\ ~old.raced /\ ~old.moved
      BY <1>1, <1>3, <1>7, <2>1, <2>3 DEF BkCallSound, ChapterRow
    <3> QED
      BY <1>2, <1>7, <2>1, <3>1 DEF BooksInv, ChapterOrdersDiffer
  <2> QED
    BY <1>3, <2>2, <2>3
<1> HIDE DEF row
<1>8. ChapterOrdersDiffer'
  BY <1>4, <1>5, <1>7 DEF BooksInv, ChapterOrdersDiffer
<1>9. ForgottenAreGone'
  BY <1>1, <1>2, <1>5 DEF Wrote, BooksInv, ForgottenAreGone
<1> QED
  BY <1>1, <1>6, <1>8, <1>9, BkWrote

LEMMA ChapterRemoves ==
  ASSUME BooksInv, NEW c \in BookCalls, ChapterRemove(c)
  PROVE  BooksInv'
<1> DEFINE id == bookCall[c].id
<1>1. /\ Chapters' = Chapters \ {id}
      /\ \A k \in Chapters' : chapter'[k] = chapter[k]
      /\ UNCHANGED <<book, bookUsed, chapterUsed>>
  BY DEF ChapterRemove, Without, Restrict, Chapters
<1>2. TablesOK' /\ ChapterOrdersDiffer'
  BY <1>1 DEF BooksInv, TablesOK, ChapterOrdersDiffer, AllBooks
<1>3. /\ id \in Chapters /\ bookCall[c].at # "log"
      /\ \/ Wrote(c)
         \/ /\ bookCall' = Ended(bookCall, c, TRUE) /\ owed' = owed + 1
            /\ forgotten' = forgotten \cup {id}
  BY DEF ChapterRemove
<1>4. id \notin forgotten
  BY <1>3 DEF BooksInv, ForgottenAreGone
<1>5. ForgottenAreGone'
  <2>1. IsFiniteSet(forgotten')
    <3>1. IsFiniteSet(forgotten) /\ IsFiniteSet(forgotten \cup {id})
      BY FS_AddElement DEF BooksInv, ForgottenAreGone
    <3>2. forgotten' = forgotten \/ forgotten' = forgotten \cup {id}
      BY <1>3 DEF Wrote
    <3> QED
      BY <3>1, <3>2
  <2>2. id \in chapterUsed
    BY <1>3 DEF BooksInv, TablesOK
  <2>3. forgotten' \subseteq forgotten \cup {id}
    BY <1>3 DEF Wrote
  <2> QED
    BY <1>1, <2>1, <2>2, <2>3 DEF BooksInv, ForgottenAreGone
<1> QED
  BY <1>2, <1>3, <1>4, <1>5, BkWrote

\* The requests that read and decide, or are refused at once.
LEMMA BookReads ==
  ASSUME BooksInv, NEW c \in BookCalls,
         \/ \E custom \in CustomIds : BookCreateRead(c, custom)
         \/ \E id \in BookIds, custom \in CustomIds \cup {Same} : BookUpdateRead(c, id, custom)
         \/ \E id \in BookIds : BookRemoveRead(c, id)
         \/ \E b \in bookUsed, order \in Orders : ChapterCreateRead(c, b, order)
         \/ \E id \in ChapterIds, b \in bookUsed \cup {Same},
               order \in Orders \cup {Same} : ChapterUpdateRead(c, id, b, order)
         \/ \E id \in ChapterIds : ChapterRemoveRead(c, id)
  PROVE  BooksInv'
<1> DEFINE Sound(decision) == /\ decision \in BkCall /\ decision.at # "log"
                              /\ BkCallSound(decision) /\ BookDecide(c, decision)
           Refusal == bookCall[c] = NoCall /\ Refused(c)
<1>0. (\E decision : Sound(decision)) \/ Refusal => BooksInv'
  BY BkDecided, BkRefused DEF NoCall
<1>1. ASSUME NEW custom \in CustomIds, BookCreateRead(c, custom)
      PROVE  Refusal \/ Sound([at |-> "bookCreate", custom |-> custom, raced |-> FALSE])
  BY <1>1 DEF BookCreateRead, BkCall, BkCallSound
<1>2. ASSUME NEW id \in BookIds, NEW custom \in CustomIds \cup {Same},
             BookUpdateRead(c, id, custom)
      PROVE  Refusal \/ Sound([at |-> "bookUpdate", id |-> id, custom |-> custom,
                               raced |-> FALSE])
  BY <1>2 DEF BookUpdateRead, BkCall, BkCallSound
<1>3. ASSUME NEW id \in BookIds, BookRemoveRead(c, id)
      PROVE  Sound([at |-> "bookRemove", id |-> id, raced |-> FALSE])
  BY <1>3 DEF BookRemoveRead, BkCall, BkCallSound
<1>4. ASSUME NEW b \in bookUsed, NEW order \in Orders, ChapterCreateRead(c, b, order)
      PROVE  Refusal \/ Sound([at |-> "chapterCreate", book |-> b, order |-> order,
                               raced |-> FALSE])
  BY <1>4 DEF ChapterCreateRead, BkCall, BkCallSound, BooksInv, TablesOK
<1>5. ASSUME NEW id \in ChapterIds, NEW b \in bookUsed \cup {Same},
             NEW order \in Orders \cup {Same}, ChapterUpdateRead(c, id, b, order)
      PROVE  BooksInv'
  <2> DEFINE checked == order # Same /\ order # chapter[id].order
             decision == [at |-> "chapterUpdate", id |-> id, book |-> b, order |-> order,
                          checked |-> checked, raced |-> FALSE]
  <2>1. CASE (~checked \/ ~OrderTaken(chapter[id].book, order)) /\ BookDecide(c, decision)
    <3>1. decision \in BkCall /\ decision.at # "log"
      BY DEF BkCall, BooksInv, TablesOK
    <3>2. BkCallSound(decision)
      BY <2>1 DEF BkCallSound
    <3> QED
      BY <2>1, <3>1, <3>2, BkDecided
  <2>2. CASE Refusal
    BY <1>0, <2>2
  <2> QED
    BY <1>5, <2>1, <2>2 DEF ChapterUpdateRead
<1>6. ASSUME NEW id \in ChapterIds, ChapterRemoveRead(c, id)
      PROVE  Sound([at |-> "chapterRemove", id |-> id, raced |-> FALSE])
  BY <1>6 DEF ChapterRemoveRead, BkCall, BkCallSound
<1> HIDE DEF Sound, Refusal
<1> QED
  BY <1>0, <1>1, <1>2, <1>3, <1>4, <1>5, <1>6

LEMMA BooksStep == BooksInv /\ [BooksNext]_bookVars => BooksInv'
<1> SUFFICES ASSUME BooksInv, [BooksNext]_bookVars
             PROVE  BooksInv'
  OBVIOUS
<1>1. CASE UNCHANGED bookVars
  BY <1>1
     DEF bookVars, BooksInv, TablesOK, ChapterOrdersDiffer, BkCallSound, OrderTaken, AllBooks,
         Chapters, ForgottenAreGone, ChangesAreAudited
<1>2. ASSUME NEW c \in BookCalls, BookFail(c)
      PROVE  BooksInv'
  BY <1>2, BkRefused DEF BookFail
<1>3. ASSUME NEW c \in BookCalls, ChapterRemoveFail(c)
      PROVE  BooksInv'
  BY <1>3, BkEnds DEF ChapterRemoveFail, Owes
<1>4. ASSUME NEW c \in BookCalls, LogAction(c) \/ LogRefused(c)
      PROVE  BooksInv'
  BY <1>4, BkEnds DEF LogAction, LogRefused, Owes
<1>5. CASE BookCrash
  <2>1. /\ bookCall' = [c \in BookCalls |-> NoCall] /\ owed' = Cardinality(forgotten)
        /\ UNCHANGED <<book, chapter, bookUsed, chapterUsed, forgotten>>
    BY <1>5 DEF BookCrash
  <2>2. {c \in BookCalls : bookCall'[c].at = "log" /\ bookCall'[c].did} = {}
    BY <2>1 DEF NoCall
  <2>3. ChangesAreAudited'
    BY <2>1, <2>2, OwedIsNat, FS_EmptySet DEF ChangesAreAudited
  <2>4. NoCall \in BkCall /\ BkCallSound(NoCall)
    BY DEF NoCall, BkCall, BkCallSound
  <2>5. bookCall' \in [BookCalls -> BkCall] /\ \A c \in BookCalls : bookCall'[c] = NoCall
    BY <2>1, <2>4
  <2>6. /\ TablesOK' /\ ChapterOrdersDiffer' /\ ForgottenAreGone'
        /\ \A c \in BookCalls : BkCallSound(bookCall[c])'
    BY <2>1, <2>4, <2>5, BkNoWrite
  <2> QED
    BY <2>3, <2>5, <2>6 DEF BooksInv
<1> QED
  BY <1>1, <1>2, <1>3, <1>4, <1>5, BookReads, BookWrites, ChapterCreates, ChapterUpdates,
     ChapterRemoves
     DEF BooksNext

\* The invariant of books, chapters, and what their requests saw and owe.
THEOREM BooksInvariant == BooksSpec => []BooksInv
BY BooksInitInv, BooksStep, PTL DEF BooksSpec

\* A change that no entry tells of is about to be entered by its request, or the
\* removal of a chapter whose answer was lost.
THEOREM ChangesAreAuditedAlways == BooksSpec => []ChangesAreAudited
<1>1. BooksInv => ChangesAreAudited
  BY DEF BooksInv
<1> QED
  BY BooksInvariant, <1>1, PTL

\* Chapters of one book share an order only after an overlap or a move.
THEOREM ChapterOrdersDifferAlways == BooksSpec => []ChapterOrdersDiffer
<1>1. BooksInv => ChapterOrdersDiffer
  BY DEF BooksInv
<1> QED
  BY BooksInvariant, <1>1, PTL
=============================================================================
