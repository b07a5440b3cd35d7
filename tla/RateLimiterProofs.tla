------------------------- MODULE RateLimiterProofs -------------------------
(***************************************************************************)
(* RateLimiter keeps its types and implements WindowPolicy, for every      *)
(* limit, window, and distance between the clocks.                         *)
(***************************************************************************)
EXTENDS RateLimiter, FiniteSetTheorems, TLAPS

\* A reading that is on its way is as old, or as far ahead, as assumed.
ReadingInv ==
    \A c \in Callers : answer[c] = "asked" =>
        call[c] \in (clock - Late) .. (clock + Early)

\* The score of a member is near the time its call was allowed, and the key
\* lives for a window after it.
ScoreInv ==
    \A i \in DOMAIN score :
        /\ allowedAt[i] <= clock
        /\ score[i] \in (allowedAt[i] - Late) .. (allowedAt[i] + Early)
        /\ allowedAt[i] + Window <= expireAt

\* Only members that no reading can still need were removed.
KeepInv ==
    \A i \in DOMAIN score : score[i] > clock + Early - Window => i \in zset

IInv == LimiterTypeOK /\ ReadingInv /\ ScoreInv /\ KeepInv

-----------------------------------------------------------------------------
LEMMA InitInv == Init => IInv
BY LimiterAssumption
   DEF Init, IInv, LimiterTypeOK, ReadingInv, ScoreInv, KeepInv, Answers

\* The histories have the same calls, and their values have their types.
LEMMA Histories ==
    ASSUME LimiterTypeOK
    PROVE  /\ Len(score) \in Nat
           /\ DOMAIN score = 1 .. Len(score)
           /\ DOMAIN allowedAt = 1 .. Len(score)
           /\ \A i \in 1 .. Len(score) : score[i] \in Int /\ allowedAt[i] \in Nat
BY DEF LimiterTypeOK

\* An expired key holds no member that still counts.
LEMMA MembersKept ==
    ASSUME IInv
    PROVE  \A i \in DOMAIN score :
             score[i] > clock + Early - Window => i \in Members
<1> SUFFICES ASSUME NEW i \in DOMAIN score, score[i] > clock + Early - Window
             PROVE  i \in Members
  OBVIOUS
<1>1. score[i] \in Int /\ allowedAt[i] \in Nat /\ clock \in Nat /\ expireAt \in Nat
  BY Histories DEF IInv, LimiterTypeOK
<1>2. score[i] <= allowedAt[i] + Early /\ allowedAt[i] + Window <= expireAt
  BY <1>1, LimiterAssumption DEF IInv, ScoreInv
<1>3. clock <= expireAt
  BY <1>1, <1>2, LimiterAssumption
<1>4. i \in zset
  BY DEF IInv, KeepInv
<1> QED
  BY <1>1, <1>3, <1>4 DEF Members

LEMMA TickStep ==
    ASSUME IInv, Tick
    PROVE  IInv'
<1> USE LimiterAssumption
<1>1. clock \in Nat /\ clock' = clock + 1
  BY DEF Tick, IInv, LimiterTypeOK
<1>2. LimiterTypeOK'
  BY <1>1 DEF Tick, IInv, LimiterTypeOK
<1>3. ReadingInv'
  <2> SUFFICES ASSUME NEW c \in Callers, answer[c] = "asked"
               PROVE  call[c] \in (clock' - Late) .. (clock' + Early)
    BY DEF Tick, ReadingInv
  <2>1. call[c] \in Int /\ clock < call[c] + Late /\ call[c] <= clock + Early
    BY <1>1 DEF Tick, IInv, LimiterTypeOK, ReadingInv
  <2> QED
    BY <1>1, <2>1
<1>4. ScoreInv' /\ KeepInv'
  <2>1. ASSUME NEW i \in DOMAIN score
        PROVE  /\ allowedAt[i] <= clock' /\ allowedAt[i] \in Nat
               /\ score[i] > clock' + Early - Window => score[i] > clock + Early - Window
    BY <1>1, Histories DEF IInv, ScoreInv
  <2> QED
    BY <2>1 DEF Tick, IInv, ScoreInv, KeepInv
<1> QED
  BY <1>2, <1>3, <1>4 DEF IInv

LEMMA ReadStep ==
    ASSUME IInv, NEW c \in Callers, ReadClock(c)
    PROVE  IInv'
<1> USE LimiterAssumption
<1>1. PICK now \in (clock - Late) .. (clock + Early) :
        call' = [call EXCEPT ![c] = now]
  BY DEF ReadClock
<1>2. now \in Int
  BY <1>1 DEF IInv, LimiterTypeOK
<1>3. LimiterTypeOK'
  BY <1>1, <1>2 DEF IInv, LimiterTypeOK, ReadClock, Answers
<1>4. ReadingInv'
  BY <1>1 DEF IInv, LimiterTypeOK, ReadingInv, ReadClock
<1>5. ScoreInv' /\ KeepInv'
  BY DEF IInv, ScoreInv, KeepInv, ReadClock
<1> QED
  BY <1>3, <1>4, <1>5 DEF IInv

LEMMA AllowStep ==
    ASSUME IInv, NEW c \in Callers, Allow(c)
    PROVE  IInv'
<1> USE LimiterAssumption
<1> DEFINE n == Len(score)
<1>1. /\ n \in Nat /\ DOMAIN score = 1 .. n /\ DOMAIN score' = 1 .. n + 1
      /\ \A i \in 1 .. n : score'[i] = score[i] /\ allowedAt'[i] = allowedAt[i]
      /\ score'[n + 1] = call[c] /\ allowedAt'[n + 1] = clock
  BY DEF Allow, IInv, LimiterTypeOK
<1>2. zset' = Kept(call[c]) \cup {n + 1}
  BY DEF Allow, NewMember
<1>3. Kept(call[c]) \subseteq zset /\ Members \subseteq 1 .. n
  BY <1>1 DEF Kept, Members, IInv, LimiterTypeOK
<1>4. LimiterTypeOK'
  <2>1. score' \in Seq(Int) /\ allowedAt' \in Seq(Nat) /\ Len(score') = Len(allowedAt')
    BY DEF Allow, IInv, LimiterTypeOK
  <2>2. zset' \subseteq DOMAIN score'
    <3>1. \A i \in zset' : i \in 1 .. n \/ i = n + 1
      BY <1>2, <1>3 DEF Kept
    <3>2. \A i : i \in 1 .. n \/ i = n + 1 => i \in 1 .. n + 1
      BY <1>1
    <3> QED
      BY <1>1, <3>1, <3>2
  <2>3. clock' \in Nat /\ expireAt' \in Nat
    BY DEF Allow, IInv, LimiterTypeOK
  <2>4. /\ call' \in [Callers -> Int] /\ answer' \in [Callers -> Answers]
        /\ told' \in [Callers -> SUBSET Int]
    BY DEF Allow, IInv, LimiterTypeOK, Answers
  <2> QED
    BY <2>1, <2>2, <2>3, <2>4 DEF LimiterTypeOK
<1>5. call[c] \in (clock - Late) .. (clock + Early)
  BY DEF Allow, IInv, ReadingInv
<1>6. ReadingInv'
  BY DEF Allow, IInv, LimiterTypeOK, ReadingInv
<1>7. ScoreInv'
  <2>1. clock \in Nat /\ clock' = clock /\ expireAt' = clock + Window
    BY DEF Allow, IInv, LimiterTypeOK
  <2> SUFFICES ASSUME NEW i \in 1 .. n + 1
               PROVE  /\ allowedAt'[i] <= clock
                      /\ score'[i] \in (allowedAt'[i] - Late) .. (allowedAt'[i] + Early)
                      /\ allowedAt'[i] + Window <= clock + Window
    BY <1>1, <2>1 DEF ScoreInv
  <2>2. CASE i = n + 1
    BY <1>1, <1>5, <2>1, <2>2
  <2>3. CASE i \in 1 .. n
    <3>1. /\ allowedAt[i] \in Nat
          /\ allowedAt[i] <= clock
          /\ score[i] \in (allowedAt[i] - Late) .. (allowedAt[i] + Early)
      BY <1>1, <2>3, Histories DEF IInv, ScoreInv
    <3>2. score'[i] = score[i] /\ allowedAt'[i] = allowedAt[i]
      BY <1>1, <2>3
    <3> QED
      BY <2>1, <3>1, <3>2
  <2> QED
    BY <1>1, <2>2, <2>3
<1>8. KeepInv'
  <2> SUFFICES ASSUME NEW i \in 1 .. n + 1, score'[i] > clock + Early - Window
               PROVE  i \in zset'
    BY <1>1 DEF KeepInv, Allow
  <2>1. CASE i = n + 1
    BY <1>2, <2>1
  <2>2. CASE i \in 1 .. n
    <3>1. score[i] > clock + Early - Window /\ score[i] \in Int
      BY <1>1, <2>2 DEF IInv, LimiterTypeOK
    <3>2. i \in Members
      BY <1>1, <2>2, <3>1, MembersKept
    <3>3. score[i] > call[c] - Window
      BY <1>5, <3>1 DEF IInv, LimiterTypeOK
    <3> QED
      BY <1>2, <3>2, <3>3 DEF Kept
  <2> QED
    BY <1>1, <2>1, <2>2
<1> QED
  BY <1>4, <1>6, <1>7, <1>8 DEF IInv

LEMMA DenyStep ==
    ASSUME IInv, NEW c \in Callers, Deny(c)
    PROVE  IInv'
<1> USE LimiterAssumption
<1>1. /\ zset' = Kept(call[c])
      /\ UNCHANGED <<clock, expireAt, allowedAt, score>>
  BY DEF Deny
<1>2. Kept(call[c]) \subseteq zset
  BY DEF Kept, Members
<1>3. told' \in [Callers -> SUBSET Int]
  <2>1. PICK oldest \in Kept(call[c]) :
          told' = [told EXCEPT ![c] =
            {call[c] + Second * Seconds(score[oldest] + Window - call[c])}]
    BY DEF Deny
  <2>2. score[oldest] \in Int /\ call[c] \in Int
    BY <1>2, <2>1 DEF IInv, LimiterTypeOK
  <2>3. Seconds(score[oldest] + Window - call[c]) \in Int
    BY <2>2 DEF Seconds
  <2> QED
    BY <2>1, <2>2, <2>3 DEF IInv, LimiterTypeOK
<1>4. LimiterTypeOK'
  BY <1>1, <1>2, <1>3 DEF Deny, IInv, LimiterTypeOK, Answers
<1>5. ReadingInv'
  BY DEF Deny, IInv, LimiterTypeOK, ReadingInv
<1>6. ScoreInv'
  BY <1>1 DEF IInv, ScoreInv
<1>7. KeepInv'
  <2> SUFFICES ASSUME NEW i \in DOMAIN score, score[i] > clock + Early - Window
               PROVE  i \in Kept(call[c])
    BY <1>1 DEF KeepInv
  <2>1. i \in Members
    BY MembersKept
  <2>2. call[c] \in (clock - Late) .. (clock + Early)
    BY DEF Deny, IInv, ReadingInv
  <2> QED
    BY <2>1, <2>2 DEF Kept, IInv, LimiterTypeOK
<1> QED
  BY <1>4, <1>5, <1>6, <1>7 DEF IInv

LEMMA NextInv == IInv /\ [Next]_vars => IInv'
<1>1. IInv /\ UNCHANGED vars => IInv'
  BY DEF IInv, LimiterTypeOK, ReadingInv, ScoreInv, KeepInv, vars
<1> QED
  BY <1>1, TickStep, ReadStep, AllowStep, DenyStep DEF Next

\* The window, the scores and the readings stay consistent: what the two
\* theorems below rest on.
THEOREM LimiterInvariant == Spec => []IInv
<1> QED
  BY InitInv, NextInv, PTL DEF Spec

\* Every variable keeps its type.
THEOREM LimiterTypeCorrect == Spec => []LimiterTypeOK
<1>1. IInv => LimiterTypeOK
  BY DEF IInv
<1> QED
  BY <1>1, LimiterInvariant, PTL

-----------------------------------------------------------------------------
LEMMA IntervalFinite ==
    ASSUME NEW n \in Nat, NEW S \in SUBSET (1 .. n)
    PROVE  IsFiniteSet(S)
<1>1. IsFiniteSet(1 .. n)
  BY FS_Interval
<1> QED
  BY <1>1, FS_Subset

\* The two modules count with the same operator.
LEMMA SameCount == \A S : Policy!Cardinality(S) = Cardinality(S)
BY DEF Policy!Cardinality, Cardinality

\* Everything the policy counts is still in the sorted set.
LEMMA AllowIsAllowed ==
    ASSUME IInv, NEW c \in Callers, Allow(c)
    PROVE  Policy!Allow(c)
<1> USE LimiterAssumption
<1>1. call[c] \in (clock - Late) .. (clock + Early)
  BY DEF Allow, IInv, ReadingInv
<1>2. Policy!Recent(Window - (Late + Early)) \subseteq Kept(call[c])
  <2> SUFFICES ASSUME NEW i \in DOMAIN allowedAt,
                      allowedAt[i] > clock - (Window - (Late + Early))
               PROVE  i \in Kept(call[c])
    BY DEF Policy!Recent
  <2>1. i \in DOMAIN score /\ score[i] \in Int /\ allowedAt[i] \in Nat
    BY DEF IInv, LimiterTypeOK
  <2>2. score[i] > clock + Early - Window
    <3>1. score[i] >= allowedAt[i] - Late
      BY <2>1 DEF IInv, ScoreInv
    <3>2. clock \in Nat
      BY DEF IInv, LimiterTypeOK
    <3> QED
      BY <2>1, <3>1, <3>2
  <2>3. i \in Members
    BY <2>1, <2>2, MembersKept
  <2>4. call[c] \in Int /\ call[c] <= clock + Early /\ clock \in Nat
    BY <1>1 DEF IInv, LimiterTypeOK
  <2>5. score[i] > call[c] - Window
    BY <2>1, <2>2, <2>4
  <2> QED
    BY <2>3, <2>5 DEF Kept
<1>3. IsFiniteSet(Kept(call[c]))
  <2>1. Len(score) \in Nat /\ Kept(call[c]) \subseteq 1 .. Len(score)
    BY DEF Kept, Members, IInv, LimiterTypeOK
  <2> QED
    BY <2>1, IntervalFinite
<1>4. Cardinality(Policy!Recent(Window - (Late + Early))) < Limit
  <2>1. Cardinality(Policy!Recent(Window - (Late + Early))) <= Cardinality(Kept(call[c]))
    BY <1>2, <1>3, FS_Subset
  <2>2. /\ Cardinality(Kept(call[c])) \in Nat
        /\ Cardinality(Policy!Recent(Window - (Late + Early))) \in Nat
    BY <1>2, <1>3, FS_Subset, FS_CardinalityType
  <2> QED
    BY <2>1, <2>2 DEF Allow, HasRoom
<1> QED
  BY <1>4, SameCount DEF Allow, Policy!Allow

\* Everything the script counts is counted by the policy.
LEMMA DenyIsJustified ==
    ASSUME IInv, NEW c \in Callers, Deny(c)
    PROVE  Policy!Deny(c)
<1> USE LimiterAssumption
<1>1. call[c] \in (clock - Late) .. (clock + Early)
  BY DEF Deny, IInv, ReadingInv
<1>2. Kept(call[c]) \subseteq Policy!Recent(Window + (Late + Early))
  <2> SUFFICES ASSUME NEW i \in Kept(call[c])
               PROVE  i \in Policy!Recent(Window + (Late + Early))
    OBVIOUS
  <2>1. /\ i \in DOMAIN score /\ i \in DOMAIN allowedAt
        /\ score[i] \in Int /\ allowedAt[i] \in Nat
        /\ score[i] > call[c] - Window
    BY DEF Kept, Members, IInv, LimiterTypeOK
  <2>2. score[i] <= allowedAt[i] + Early
    BY <2>1 DEF IInv, ScoreInv
  <2>3. call[c] \in Int /\ clock - Late <= call[c] /\ clock \in Nat
    BY <1>1 DEF IInv, LimiterTypeOK
  <2>4. allowedAt[i] > clock - (Window + (Late + Early))
    BY <2>1, <2>2, <2>3
  <2> QED
    BY <2>1, <2>4 DEF Policy!Recent
<1>3. IsFiniteSet(Policy!Recent(Window + (Late + Early)))
  <2>1. /\ Len(allowedAt) \in Nat
        /\ Policy!Recent(Window + (Late + Early)) \subseteq 1 .. Len(allowedAt)
    BY DEF Policy!Recent, IInv, LimiterTypeOK
  <2> QED
    BY <2>1, IntervalFinite
<1>4. Cardinality(Policy!Recent(Window + (Late + Early))) >= Limit
  <2>1. Cardinality(Kept(call[c])) <= Cardinality(Policy!Recent(Window + (Late + Early)))
    BY <1>2, <1>3, FS_Subset
  <2>2. /\ Cardinality(Kept(call[c])) \in Nat
        /\ Cardinality(Policy!Recent(Window + (Late + Early))) \in Nat
    BY <1>2, <1>3, FS_Subset, FS_CardinalityType
  <2> QED
    BY <2>1, <2>2 DEF Deny, HasRoom
<1> QED
  BY <1>4, SameCount DEF Deny, Policy!Deny

LEMMA StepIsPolicyStep ==
    IInv /\ [Next]_vars => [Policy!PolicyNext]_(Policy!policyVars)
<1> SUFFICES ASSUME IInv, [Next]_vars
             PROVE  Policy!PolicyNext \/ UNCHANGED Policy!policyVars
  OBVIOUS
<1>1. CASE Tick
  BY <1>1 DEF Tick, Policy!PolicyNext, Policy!Pass
<1>2. ASSUME NEW c \in Callers, ReadClock(c)
      PROVE  Policy!PolicyNext
  BY <1>2 DEF ReadClock, Policy!PolicyNext, Policy!Ask
<1>3. ASSUME NEW c \in Callers, Allow(c)
      PROVE  Policy!PolicyNext
  BY <1>3, AllowIsAllowed DEF Policy!PolicyNext
<1>4. ASSUME NEW c \in Callers, Deny(c)
      PROVE  Policy!PolicyNext
  BY <1>4, DenyIsJustified DEF Policy!PolicyNext
<1>5. CASE UNCHANGED vars
  BY <1>5 DEF vars, Policy!policyVars
<1> QED
  BY <1>1, <1>2, <1>3, <1>4, <1>5 DEF Next

\* rateLimit implements the sliding window, up to what the clocks are off.
THEOREM ImplementsPolicyAlways == Spec => ImplementsPolicy
<1>1. Init => Policy!PolicyInit
  BY DEF Init, Policy!PolicyInit
<1>2. IInv /\ [Next]_vars => [Policy!PolicyNext]_(Policy!policyVars)
  BY StepIsPolicyStep
<1> QED
  BY <1>1, <1>2, LimiterInvariant, PTL
     DEF Spec, ImplementsPolicy, Policy!PolicySpec

-----------------------------------------------------------------------------
\* What a refused caller waits for: by the time it was told, one of the
\* members that refused it has left the window.
WaitInv ==
    /\ Cardinality(zset) <= Limit
    /\ \A c \in Callers : \A after \in told[c] :
         Cardinality({i \in zset : score[i] > after - Window}) < Limit

LEMMA SecondsRoundUp ==
    ASSUME NEW ms \in Int
    PROVE  Seconds(ms) \in Int /\ ms <= Second * Seconds(ms)
BY LimiterAssumption, Z3 DEF Seconds

LEMMA MembersFinite ==
    ASSUME IInv
    PROVE  IsFiniteSet(zset) /\ \A now : Kept(now) \subseteq zset
<1>1. Len(score) \in Nat /\ zset \subseteq 1 .. Len(score)
  BY DEF IInv, LimiterTypeOK
<1> QED
  BY <1>1, IntervalFinite DEF Kept, Members

LEMMA SmallerSet ==
    ASSUME NEW S, IsFiniteSet(S), NEW T \in SUBSET S
    PROVE  /\ IsFiniteSet(T) /\ Cardinality(T) \in Nat /\ Cardinality(S) \in Nat
           /\ Cardinality(T) <= Cardinality(S)
BY FS_Subset, FS_CardinalityType

\* The time a refusal names: after the reading that was refused, and one
\* member of the window is gone by then.
LEMMA DenyTells ==
    ASSUME IInv, NEW c \in Callers, Deny(c)
    PROVE  \E oldest \in Kept(call[c]), after \in Int :
             /\ told' = [told EXCEPT ![c] = {after}]
             /\ call[c] < after
             /\ score[oldest] <= after - Window
<1>1. PICK oldest \in Kept(call[c]) :
        told' = [told EXCEPT ![c] =
          {call[c] + Second * Seconds(score[oldest] + Window - call[c])}]
  BY DEF Deny
<1>2. /\ score[oldest] \in Int /\ call[c] \in Int /\ Window \in Int /\ Second \in Int
      /\ score[oldest] > call[c] - Window
  BY <1>1, LimiterAssumption DEF Kept, Members, IInv, LimiterTypeOK
<1> DEFINE ms == score[oldest] + Window - call[c]
           wait == Second * Seconds(ms)
<1>3. wait \in Int /\ ms <= wait
  BY <1>2, SecondsRoundUp
<1>4. call[c] < call[c] + wait /\ score[oldest] <= (call[c] + wait) - Window
  <2>1. ms > 0 /\ ms = score[oldest] + Window - call[c]
    BY <1>2
  <2> HIDE DEF ms, wait
  <2> QED
    BY <1>2, <1>3, <2>1
<1>5. told' = [told EXCEPT ![c] = {call[c] + wait}] /\ call[c] + wait \in Int
  BY <1>1, <1>2, <1>3
<1> QED
  BY <1>4, <1>5

LEMMA WaitStep == IInv /\ WaitInv /\ [Next]_vars => WaitInv'
<1> SUFFICES ASSUME IInv, WaitInv, [Next]_vars
             PROVE  WaitInv'
  OBVIOUS
<1>1. CASE UNCHANGED <<zset, told, score>>
  BY <1>1 DEF WaitInv
<1>2. ASSUME NEW c \in Callers, Allow(c)
      PROVE  WaitInv'
  <2>1. IsFiniteSet(Kept(call[c])) /\ Cardinality(Kept(call[c])) \in Nat
    BY MembersFinite, SmallerSet
  <2>2. /\ zset' = Kept(call[c]) \cup {Len(score) + 1}
        /\ Cardinality(Kept(call[c])) < Limit
        /\ told' = [d \in Callers |-> {}]
    BY <1>2 DEF Allow, HasRoom, NewMember
  <2>3. \/ Cardinality(zset') = Cardinality(Kept(call[c]))
        \/ Cardinality(zset') = Cardinality(Kept(call[c])) + 1
    BY <2>1, <2>2, FS_AddElement
  <2>4. Cardinality(zset') <= Limit
    BY <2>1, <2>2, <2>3, LimiterAssumption
  <2> QED
    BY <2>2, <2>4 DEF WaitInv
<1>3. ASSUME NEW c \in Callers, Deny(c)
      PROVE  WaitInv'
  <2>1. zset' = Kept(call[c]) /\ score' = score /\ zset' \subseteq zset
    BY <1>3, MembersFinite DEF Deny
  <2>2. PICK oldest \in Kept(call[c]), after \in Int :
          /\ told' = [told EXCEPT ![c] = {after}]
          /\ score[oldest] <= after - Window
    BY <1>3, DenyTells
  <2>3. /\ IsFiniteSet(zset) /\ IsFiniteSet(zset') /\ Cardinality(zset') \in Nat
        /\ Cardinality(zset') <= Limit
    BY <2>1, MembersFinite, SmallerSet, LimiterAssumption DEF WaitInv
  <2>4. ASSUME NEW d \in Callers, NEW t \in told'[d]
        PROVE  Cardinality({i \in zset' : score'[i] > t - Window}) < Limit
    <3>1. CASE d = c
      <4>1. t = after
        BY <2>2, <2>4, <3>1 DEF IInv, LimiterTypeOK
      <4>2. Cardinality(zset' \ {oldest}) = Cardinality(zset') - 1
        BY <2>1, <2>2, <2>3, FS_RemoveElement
      <4>3. oldest \notin {i \in zset' : score'[i] > t - Window}
        <5>1. score[oldest] \in Int
          BY <2>1, <2>2 DEF IInv, LimiterTypeOK
        <5> QED
          BY <2>1, <2>2, <4>1, <5>1, LimiterAssumption
      <4>4. {i \in zset' : score'[i] > t - Window} \subseteq zset' \ {oldest}
        BY <4>3
      <4>5. IsFiniteSet(zset' \ {oldest})
        BY <2>3, FS_Subset
      <4>6. /\ Cardinality({i \in zset' : score'[i] > t - Window}) \in Nat
            /\ Cardinality({i \in zset' : score'[i] > t - Window})
                 <= Cardinality(zset' \ {oldest})
        BY <4>4, <4>5, SmallerSet
      <4> QED
        BY <2>3, <4>2, <4>6, LimiterAssumption
    <3>2. CASE d # c
      <4>1. t \in told[d]
        BY <2>2, <2>4, <3>2 DEF IInv, LimiterTypeOK
      <4>2. {i \in zset' : score'[i] > t - Window}
              \subseteq {i \in zset : score[i] > t - Window}
        BY <2>1
      <4>3. IsFiniteSet({i \in zset : score[i] > t - Window})
        BY <2>3, FS_Subset
      <4>4. Cardinality({i \in zset : score[i] > t - Window}) < Limit
        BY <4>1 DEF WaitInv
      <4> QED
        BY <4>2, <4>3, <4>4, SmallerSet, LimiterAssumption
    <3> QED
      BY <3>1, <3>2
  <2> QED
    BY <2>3, <2>4 DEF WaitInv
<1> QED
  BY <1>1, <1>2, <1>3 DEF Next, Tick, ReadClock, vars

LEMMA DenyIsHonest ==
    ASSUME IInv, WaitInv, NEW c \in Callers, Deny(c)
    PROVE  /\ \A after \in told[c] : call[c] < after
           /\ \A after \in told'[c] : call[c] < after
<1>1. ASSUME NEW after \in told[c]
      PROVE  call[c] < after
  <2> SUFFICES ASSUME call[c] >= after
               PROVE  FALSE
    BY DEF IInv, LimiterTypeOK
  <2>1. after \in Int /\ call[c] \in Int
    BY DEF IInv, LimiterTypeOK
  <2>2. Kept(call[c]) \subseteq {i \in zset : score[i] > after - Window}
    <3> SUFFICES ASSUME NEW i \in Kept(call[c])
                 PROVE  i \in zset /\ score[i] > after - Window
      OBVIOUS
    <3>1. i \in zset /\ score[i] \in Int /\ score[i] > call[c] - Window
      BY DEF Kept, Members, IInv, LimiterTypeOK
    <3> QED
      BY <2>1, <3>1, LimiterAssumption
  <2>3. IsFiniteSet({i \in zset : score[i] > after - Window})
    BY MembersFinite, FS_Subset
  <2>4. Cardinality({i \in zset : score[i] > after - Window}) < Limit
    BY DEF WaitInv
  <2>5. Cardinality(Kept(call[c])) < Limit
    BY <2>2, <2>3, <2>4, SmallerSet, LimiterAssumption
  <2> QED
    BY <2>5 DEF Deny, HasRoom
<1>2. \A after \in told'[c] : call[c] < after
  BY DenyTells DEF IInv, LimiterTypeOK
<1> QED
  BY <1>1, <1>2

\* A caller that waits as long as it was told is refused again only if another
\* call was allowed meanwhile, and every wait is positive.
THEOREM WaitIsHonestAlways == Spec => WaitIsHonest
<1>1. Init => WaitInv
  BY FS_EmptySet, LimiterAssumption DEF Init, WaitInv
<1>2. IInv /\ WaitInv /\ [Next]_vars => WaitInv'
  BY WaitStep
<1>3. IInv /\ WaitInv /\ [Next]_vars =>
        [\A c \in Callers :
           Deny(c) => /\ \A after \in told[c] : call[c] < after
                      /\ \A after \in told'[c] : call[c] < after]_vars
  BY DenyIsHonest
<1> QED
  BY <1>1, <1>2, <1>3, LimiterInvariant, PTL DEF Spec, WaitIsHonest
=============================================================================
