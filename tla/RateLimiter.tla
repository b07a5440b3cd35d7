---------------------------- MODULE RateLimiter ----------------------------
(***************************************************************************)
(* RedisService.rateLimit: the sliding window that guards signup, login,   *)
(* OTP verification and password reset.  The caller reads its own clock    *)
(* (Date.now()), then a Lua script runs on the store: it removes the       *)
(* entries that left the window of that time, counts what is left, and     *)
(* either adds an entry and renews the expiry of the key, or answers how   *)
(* many seconds to wait.  The script is one step; the time between the     *)
(* reading of the clock and the script, and the distance between the       *)
(* callers' clocks and the store's, are bounded by Late and Early.         *)
(***************************************************************************)
EXTENDS Integers, Sequences, FiniteSets

CONSTANTS
    Callers,    \* the calls that can be in flight, from any instance
    Limit,      \* limit
    Window,     \* windowSeconds * 1000
    Second,     \* milliseconds in a second
    Late,       \* how old a caller's reading may be when its script runs
    Early,      \* how far ahead of the store a caller's clock may be
    MaxClock    \* bound of the model: the store's clock

ASSUME LimiterAssumption ==
    /\ Limit \in Nat \ {0}
    /\ Window \in Nat \ {0}
    /\ Second \in Nat \ {0}
    /\ Late \in Nat
    /\ Early \in Nat

VARIABLES
    clock,      \* the store's clock
    zset,       \* the members of the sorted set, by the call that added them
    expireAt,   \* when the store drops the key
    call,       \* the reading of the clock each call in flight carries
    answer,     \* what each caller was answered
    told,       \* when each refused caller may come back, while that stands
    allowedAt,  \* history: the store's time of each allowed call
    score       \* the score of each member ever added

vars == <<clock, zset, expireAt, call, answer, told, allowedAt, score>>

Answers == {"none", "asked", "allowed", "denied"}

Init ==
    /\ clock = 0
    /\ zset = {}
    /\ expireAt = 0
    /\ call = [c \in Callers |-> 0]
    /\ answer = [c \in Callers |-> "none"]
    /\ told = [c \in Callers |-> {}]
    /\ allowedAt = <<>>
    /\ score = <<>>

\* The time passes; no script runs later than Late after its reading.
Tick ==
    /\ clock < MaxClock
    /\ \A c \in Callers : answer[c] = "asked" => clock < call[c] + Late
    /\ clock' = clock + 1
    /\ UNCHANGED <<zset, expireAt, call, answer, told, allowedAt, score>>

\* const now = Date.now()
ReadClock(c) ==
    /\ answer[c] # "asked"
    /\ \E now \in (clock - Late) .. (clock + Early) :
          call' = [call EXCEPT ![c] = now]
    /\ answer' = [answer EXCEPT ![c] = "asked"]
    /\ UNCHANGED <<clock, zset, expireAt, told, allowedAt, score>>

\* The members the store still has: an expired key is an empty set.
Members == IF clock > expireAt THEN {} ELSE zset

\* ZREMRANGEBYSCORE key -inf (now - window)
Kept(now) == {i \in Members : score[i] > now - Window}

\* count < limit
HasRoom(now) == Cardinality(Kept(now)) < Limit

NewMemberPerTime(now) ==
    LET same == {i \in DOMAIN score : score[i] = now}
    IN  IF same = {} THEN Len(score) + 1 ELSE CHOOSE i \in same : TRUE
\* The time and a random seed: a new member for every call.
NewMember(now) == Len(score) + 1

Allow(c) ==
    /\ answer[c] = "asked"
    /\ HasRoom(call[c])
    /\ zset' = Kept(call[c]) \cup {NewMember(call[c])}
    /\ score' = Append(score, call[c])
    /\ allowedAt' = Append(allowedAt, clock)
    /\ expireAt' = clock + Window
    /\ answer' = [answer EXCEPT ![c] = "allowed"]
    /\ call' = [call EXCEPT ![c] = 0]
    /\ told' = [d \in Callers |-> {}]
    /\ UNCHANGED clock

WholeSeconds(ms) == ms \div Second
\* math.ceil(ms / 1000)
Seconds(ms) == (ms + Second - 1) \div Second

\* ZRANGE key 0 0: a member with the lowest score.  What a caller is told
\* stands until the next call is allowed.
Deny(c) ==
    /\ answer[c] = "asked"
    /\ ~HasRoom(call[c])
    /\ \E oldest \in Kept(call[c]) :
          /\ \A i \in Kept(call[c]) : score[oldest] <= score[i]
          /\ told' = [told EXCEPT ![c] =
               {call[c] + Second * Seconds(score[oldest] + Window - call[c])}]
    /\ zset' = Kept(call[c])
    /\ answer' = [answer EXCEPT ![c] = "denied"]
    /\ call' = [call EXCEPT ![c] = 0]
    /\ UNCHANGED <<clock, expireAt, allowedAt, score>>

Next == Tick \/ \E c \in Callers : ReadClock(c) \/ Allow(c) \/ Deny(c)

Spec == Init /\ [][Next]_vars

-----------------------------------------------------------------------------
\* Every variable has its type, and every member has a score.
LimiterTypeOK ==
    /\ clock \in Nat
    /\ expireAt \in Nat
    /\ call \in [Callers -> Int]
    /\ answer \in [Callers -> Answers]
    /\ told \in [Callers -> SUBSET Int]
    /\ allowedAt \in Seq(Nat)
    /\ score \in Seq(Int)
    /\ Len(score) = Len(allowedAt)
    /\ zset \subseteq DOMAIN score

Policy == INSTANCE WindowPolicy WITH Slack <- Late + Early

\* The script keeps the promise of the sliding window, up to what the clocks
\* are off: removing old entries and letting the key expire never forgets a
\* call that still counts, and never counts one that does not.
ImplementsPolicy == Policy!PolicySpec

\* A caller who was told to wait and waited that long by its clock is refused
\* again only if another call was allowed meanwhile, and no refusal asks for a
\* wait of zero: the reply "Please wait Ns before requesting another OTP" is
\* honest.
WaitIsHonest ==
    [][\A c \in Callers :
         Deny(c) => /\ \A after \in told[c] : call[c] < after
                    /\ \A after \in told'[c] : call[c] < after]_vars
=============================================================================
