-------------------------- MODULE RedisCacheProofs --------------------------
(***************************************************************************)
(* What the two cache levels and the lock of getOrSet guarantee, for any   *)
(* number of instances, calls and keys.  Each step of a call puts one row  *)
(* into call; the lemmas say of every row what it may look like, and of    *)
(* every other variable what a step may do to it.                          *)
(***************************************************************************)
EXTENDS RedisCache, TLAPS

-----------------------------------------------------------------------------
(* The row of one call.                                                    *)

\* Where a reply may fill L1.
Filling == {"read", "first", "poll", "recheck"}

\* What a call knows by itself: getOrSet is about one key, no reply takes
\* longer than MaxDelay, what a reply brings is no older than its command, and
\* only a caller on its way through the work has the lock.
Sound(r) ==
    /\ r \in CallRow
    /\ r.at \notin {"idle", "read", "write", "list", "purge"} => \E k \in Keys : r.keys = {k}
    /\ r.at \in Awaiting => r.age <= MaxDelay
    /\ r.at \in Filling => \A k \in Keys : r.seen[k].stale <= r.age
    /\ r.at = "joined" <=> r.on \in Calls
    /\ r.locked => r.at \in Holding

CallsSound == call \in [Calls -> CallRow] /\ \A c \in Calls : Sound(call[c])

LEMMA NobodyIsNoCall == Nobody \notin Calls
BY CacheAssumption DEF Nobody

LEMMA UnseenIsSeen == Unseen \in [Keys -> Value] /\ \A k \in Keys : Unseen[k].stale = 0
BY CacheAssumption DEF Unseen, Value, Nothing

LEMMA FetchedIsSeen ==
    ASSUME store \in [Keys -> Nat], NEW S
    PROVE  Fetched(S) \in [Keys -> Value] /\ \A k \in Keys : Fetched(S)[k].stale = 0
BY CacheAssumption DEF Fetched, Value

LEMMA KeyOf ==
    ASSUME NEW c, NEW k, call[c].keys = {k}
    PROVE  Key(c) = k
BY DEF Key

\* The row of a command, and that of a call that does nothing.
LEMMA RowSound ==
    ASSUME NEW at \in {"idle", "read", "write", "list", "purge", "first"},
           NEW S \in SUBSET Keys, at = "first" => \E k \in Keys : S = {k},
           NEW seen \in [Keys -> Value],
           at \in Filling => \A k \in Keys : seen[k].stale = 0
    PROVE  Sound(Row(at, S, seen))
<1>1. Row(at, S, seen) \in CallRow
  BY DEF Row, CallRow, Awaiting
<1>. QED
  BY <1>1, NobodyIsNoCall, CacheAssumption DEF Sound, Row, Awaiting, Filling

LEMMA IdleSound == Sound(Idle) /\ Idle.at = "idle" /\ ~Idle.locked /\ Idle.on = Nobody
BY RowSound, UnseenIsSeen DEF Idle, Row, Filling

LEMMA JoiningSound ==
    ASSUME NEW c \in Calls, NEW k \in Keys, call[c].keys = {k}, NEW d \in Calls
    PROVE  Sound(Joining(c, d))
<1>1. Joining(c, d) \in CallRow
  BY UnseenIsSeen DEF Joining, CallRow
<1>. QED
  BY <1>1, CacheAssumption DEF Sound, Joining, Awaiting, Filling

LEMMA AskingSound ==
    ASSUME NEW c \in Calls, NEW k \in Keys, call[c].keys = {k}, NEW n \in Nat
    PROVE  Sound(Asking(c, n))
<1>1. Asking(c, n) \in CallRow
  BY UnseenIsSeen DEF Asking, CallRow, Awaiting, LockFree
<1>. QED
  BY <1>1, NobodyIsNoCall, CacheAssumption DEF Sound, Asking, Awaiting, Filling, Holding

\* getOrSet goes on about its key, and keeps what it knows of the lock.
LEMMA OnwardSound ==
    ASSUME CallsSound, NEW c \in Calls, NEW k \in Keys, call[c].keys = {k},
           NEW at \in {"poll", "sleep", "recheck", "fetch", "store", "release"},
           NEW seen \in [Keys -> Value],
           \A j \in Keys : seen[j].stale = 0,
           NEW locked \in BOOLEAN,
           locked => call[c].locked /\ at \in Holding
    PROVE  Sound(Onward(c, at, seen, locked))
<1>1. call[c] \in CallRow /\ Sound(call[c])
  BY DEF CallsSound
<1>2. Onward(c, at, seen, locked) \in CallRow
  BY <1>1 DEF Onward, CallRow, Awaiting
<1>. QED
  BY <1>1, <1>2, NobodyIsNoCall, CacheAssumption DEF Sound, Onward, Awaiting, Filling

LEMMA OnwardRow ==
    ASSUME NEW c, NEW at, NEW seen, NEW locked
    PROVE  /\ Onward(c, at, seen, locked).at = at
           /\ Onward(c, at, seen, locked).keys = call[c].keys
           /\ Onward(c, at, seen, locked).seen = seen
           /\ Onward(c, at, seen, locked).locked = locked
           /\ at # "release" => Onward(c, at, seen, locked).held = call[c].held
BY DEF Onward

LEMMA WaitedSound ==
    ASSUME NEW r, Sound(r), NEW holds \in BOOLEAN, store \in [Keys -> Nat],
           holds <=> r.locked /\ r.at \in Holding \ {"release"},
           r.at \in Awaiting => r.age < MaxDelay
    PROVE  Sound(Waited(r, holds))
<1>1. r \in CallRow
  BY DEF Sound
<1>2. \A k \in Keys : /\ Staler(r.seen[k], k) \in Nat
                      /\ Staler(r.seen[k], k) <= r.seen[k].stale + 1
  BY <1>1 DEF CallRow, Value, Staler
<1>3. Waited(r, holds) \in CallRow
  BY <1>1, <1>2, CacheAssumption DEF Waited, CallRow, Value
<1>. QED
  BY <1>1, <1>2, <1>3, CacheAssumption
     DEF Sound, Waited, CallRow, Value, Awaiting, Filling, Holding, Working

LEMMA PutSound ==
    ASSUME CallsSound, NEW c \in Calls, NEW r, Sound(r), call' = [call EXCEPT ![c] = r]
    PROVE  CallsSound'
BY DEF CallsSound, Sound

\* What a pipeline brings is new.
LEMMA NotedSound ==
    ASSUME CallsSound, NEW p, NEW k \in Keys, NEW version \in Nat, Noted(p, k, version)
    PROVE  CallsSound'
<1> SUFFICES ASSUME NEW c \in Calls
             PROVE  Sound(call'[c])
  BY DEF CallsSound, Noted, Sound
<1> DEFINE r == [call[c] EXCEPT !.seen[k] = [ver |-> version, stale |-> 0]]
<1>1. Sound(call[c]) /\ call[c] \in CallRow
  BY DEF CallsSound
<1>2. r \in CallRow
  BY <1>1 DEF CallRow, Value
<1>3. /\ r.at = call[c].at /\ r.keys = call[c].keys /\ r.age = call[c].age
      /\ r.on = call[c].on /\ r.locked = call[c].locked
  BY <1>1 DEF CallRow
<1>4. \A j \in Keys : r.seen[j].stale = IF j = k THEN 0 ELSE call[c].seen[j].stale
  BY <1>1 DEF CallRow, Value
<1>5. call[c].age \in Nat
  BY <1>1 DEF CallRow
<1> HIDE DEF r
<1>6. Sound(r)
  BY <1>1, <1>2, <1>3, <1>4, <1>5 DEF Sound
<1>7. call'[c] = call[c] \/ call'[c] = r
  BY DEF Noted, r
<1>. QED
  BY <1>1, <1>6, <1>7

LEMMA EndSound ==
    ASSUME CallsSound, NEW c \in Calls, EndWork(c)
    PROVE  CallsSound'
BY IdleSound DEF CallsSound, EndWork, Sound

-----------------------------------------------------------------------------
(* Types, and how stale L1 may be.                                         *)

LocalOK(l) ==
    /\ l \in [Instances -> [Keys -> [ver : Nat, stale : Nat, left : Nat]]]
    /\ \A p \in Instances, k \in Keys : l[p][k].stale + l[p][k].left <= MaxDelay + L1Ttl

StoreOK ==
    /\ store \in [Keys -> Nat]
    /\ members \subseteq Keys
    /\ writes \in Nat
    /\ loose \subseteq Keys

PromisesOK(promises) == promises \in [Instances -> [Keys -> Calls \cup {Nobody, Settled}]]

LockOK == lock \in [Keys -> Nat] /\ overrun \subseteq Keys
PipeTypes ==
    /\ pipe \in [Instances -> PipeRow]
    /\ \A p \in Instances :
          /\ pipe[p].op # "set" => pipe[p].add = {}
          /\ pipe[p].op = "none" => pipe[p].by = Nobody
RepliesOK == replies \in [Instances -> Seq(Calls)]
FloorOK == floor \in [Instances -> [Keys -> Nat]]

Base ==
    /\ StoreOK
    /\ LockOK
    /\ LocalOK(local)
    /\ PromisesOK(lockMap)
    /\ CallsSound
    /\ RepliesOK
    /\ PipeTypes
    /\ FloorOK

LEMMA BaseInit == Init => Base
<1> SUFFICES ASSUME Init
             PROVE  Base
  OBVIOUS
<1>1. CallsSound
  BY IdleSound DEF Init, CallsSound, Sound
<1>2. LocalOK(local)
  BY CacheAssumption DEF Init, LocalOK, NoEntry
<1>. QED
  BY <1>1, <1>2, CacheAssumption
     DEF Init, Base, StoreOK, LockOK, PromisesOK, RepliesOK, PipeTypes, PipeRow, NoPipe, FloorOK

LEMMA Sent ==
    ASSUME CallsSound, RepliesOK, NEW c \in Calls, NEW r, Sound(r), Send(c, r)
    PROVE  CallsSound' /\ RepliesOK'
<1>1. Pod[c] \in Instances /\ replies[Pod[c]] \in Seq(Calls)
  BY CacheAssumption DEF RepliesOK
<1>2. Append(replies[Pod[c]], c) \in Seq(Calls)
  BY <1>1
<1>3. RepliesOK'
  BY <1>1, <1>2 DEF Send, RepliesOK
<1>4. CallsSound'
  BY PutSound DEF Send
<1>. QED
  BY <1>3, <1>4

LEMMA SentNext ==
    ASSUME CallsSound, RepliesOK, NEW c \in Calls, NEW r, Sound(r),
           replies[Pod[c]] # << >>, SendNext(c, r)
    PROVE  CallsSound' /\ RepliesOK'
<1>1. Pod[c] \in Instances /\ replies[Pod[c]] \in Seq(Calls)
  BY CacheAssumption DEF RepliesOK
<1>2. Append(Tail(replies[Pod[c]]), c) \in Seq(Calls)
  BY <1>1
<1>. QED
  BY <1>1, <1>2, PutSound DEF SendNext, RepliesOK

LEMMA RestIsReplies ==
    ASSUME RepliesOK, NEW c \in Calls, replies[Pod[c]] # << >>
    PROVE  Rest(c) \in Seq(Calls)
BY CacheAssumption DEF RepliesOK, Rest

LEMMA WasHandled ==
    ASSUME RepliesOK, NEW c \in Calls, replies[Pod[c]] # << >>, Handled(c)
    PROVE  RepliesOK'
<1>1. Pod[c] \in Instances /\ replies[Pod[c]] \in Seq(Calls)
  BY CacheAssumption DEF RepliesOK
<1>. QED
  BY <1>1 DEF Handled, RepliesOK

LEMMA Finished ==
    ASSUME CallsSound, NEW c \in Calls, Finish(c)
    PROVE  CallsSound'
BY IdleSound, PutSound DEF Finish

\* A reply fills L1 with values no older than the wait for it.
LEMMA FilledOK ==
    ASSUME LocalOK(local), NEW p \in Instances, NEW r, Sound(r), r.at \in Filling
    PROVE  LocalOK(Filled(p, r.seen))
<1>1. /\ r.seen \in [Keys -> Value]
      /\ \A k \in Keys : r.seen[k].stale <= MaxDelay
  BY CacheAssumption DEF Sound, CallRow, Value, Filling, Awaiting
<1>. QED
  BY <1>1, CacheAssumption DEF LocalOK, Filled, Entry, Value

LEMMA DroppedOK ==
    ASSUME LocalOK(local), NEW p \in Instances, NEW S
    PROVE  LocalOK(Dropped(p, S))
BY CacheAssumption DEF LocalOK, Dropped, NoEntry

\* A pipeline is sent, or goes on.
LEMMA StartedOK ==
    ASSUME PipeTypes, NEW p, NEW op \in {"get", "set", "del", "purge"}, NEW S \in SUBSET Keys,
           NEW c \in Calls \cup {Nobody}, Start(p, op, S, c)
    PROVE  PipeTypes'
BY DEF PipeTypes, Start, PipeRow

LEMMA GoesOK ==
    ASSUME PipeTypes, NEW p, NEW q \in PipeRow, q.op # "none", q.op # "set" => q.add = {},
           Goes(p, q)
    PROVE  PipeTypes'
BY DEF PipeTypes, Goes, PipeRow, NoPipe

LEMMA FinallyOK ==
    ASSUME Base, NEW c \in Calls, NEW k \in Keys, call[c].keys = {k},
           NEW rest \in Seq(Calls), NEW promises, PromisesOK(promises),
           Finally(c, rest, promises)
    PROVE  LockOK' /\ PromisesOK(lockMap)' /\ CallsSound' /\ RepliesOK'
<1>1. Key(c) = k /\ Pod[c] \in Instances
  BY KeyOf, CacheAssumption
<1>2. LockOK'
  <2>1. lock' = lock \/ lock' = [lock EXCEPT ![k] = 0]
    BY <1>1 DEF Finally
  <2>2. overrun' = overrun \/ overrun' = overrun \ {k}
    BY <1>1 DEF Finally, GiveBack
  <2>. QED
    BY <2>1, <2>2 DEF Base, LockOK
<1>3. PromisesOK(lockMap)'
  <2>1. PromisesOK(Promise(c, Nobody))
    BY <1>1 DEF Base, PromisesOK, Promise
  <2>. QED
    BY <2>1 DEF Finally, PromisesOK
<1>4. RepliesOK'
  <2>1. Append(rest, c) \in Seq(Calls)
    OBVIOUS
  <2>2. \E q \in {Append(rest, c), rest} : replies' = [replies EXCEPT ![Pod[c]] = q]
    BY DEF Finally
  <2>. QED
    BY <1>1, <2>1, <2>2 DEF Base, RepliesOK
<1>5. CallsSound'
  <2>1. CASE MustRelease(c)
    <3>1. PICK accepted \in BOOLEAN :
              call' = [call EXCEPT ![c] = Onward(c, "release", Unseen, ~accepted)]
      BY <2>1 DEF Finally
    <3>2. call[c].locked
      BY <2>1 DEF MustRelease
    <3>3. Sound(Onward(c, "release", Unseen, ~accepted))
      BY <3>2, OnwardSound, UnseenIsSeen DEF Base, Holding, Working
    <3>. QED
      BY <3>1, <3>3, PutSound DEF Base
  <2>2. CASE ~MustRelease(c)
    BY <2>2, EndSound DEF Finally, Base
  <2>. QED
    BY <2>1, <2>2
<1>. QED
  BY <1>2, <1>3, <1>4, <1>5

\* Commands of a call that does nothing yet.
LEMMA BaseAsks ==
    ASSUME Base, NEW c \in Calls, Ask(c)
    PROVE  Base'
<1>0. Pod[c] \in Instances
  BY CacheAssumption
<1>1. ASSUME NEW r, Sound(r), Send(c, r), PipeTypes',
             UNCHANGED <<store, members, lock, local, lockMap, writes, floor, loose, overrun>>
      PROVE  Base'
  BY <1>1, Sent DEF Base, StoreOK, LockOK, LocalOK, PromisesOK, FloorOK
<1>2. ASSUME NEW S \in Some(Read), Get(c, S)
      PROVE  Base'
  <2> DEFINE missed == {k \in S : ~Hit(Pod[c], k)}
             r == Row("read", missed, Unseen)
  <2>1. missed \in SUBSET Keys
    BY CacheAssumption DEF Some
  <2>2. Sound(r)
    BY <2>1, RowSound, UnseenIsSeen
  <2>3. Send(c, r) /\ Start(Pod[c], "get", missed, c)
    BY <1>2 DEF Get
  <2>4. PipeTypes'
    BY <2>1, <2>3, StartedOK DEF Base
  <2> HIDE DEF r
  <2>. QED
    BY <1>1, <1>2, <2>2, <2>3, <2>4 DEF Get
<1>3. ASSUME NEW k \in Read, Set(c, k)
      PROVE  Base'
  <2>1. k \in Keys
    BY CacheAssumption
  <2>2. Sound(Row("write", {k}, Unseen))
    BY <2>1, RowSound, UnseenIsSeen
  <2>3. PipeTypes'
    BY <1>3, <2>1, StartedOK DEF Base, Set
  <2>. QED
    BY <1>1, <1>3, <2>2, <2>3 DEF Set
<1>4. ASSUME NEW k \in Read, GetOrSet(c, k)
      PROVE  Base'
  <2>1. k \in Keys
    BY CacheAssumption
  <2>2. Sound(Row("first", {k}, Fetched({k})))
    BY <2>1, RowSound, FetchedIsSeen DEF Base, StoreOK
  <2>. QED
    BY <1>1, <1>4, <2>2 DEF GetOrSet, Base, PipeTypes
<1>5. CASE Invalidate(c)
  <2>1. Sound(Row("list", members, Unseen))
    BY RowSound, UnseenIsSeen DEF Base, StoreOK, Filling
  <2>. QED
    BY <1>1, <1>5, <2>1 DEF Invalidate, Base, PipeTypes
<1>. QED
  BY <1>2, <1>3, <1>4, <1>5 DEF Ask

\* Replies of get, set and invalidateTag, and a value that ends getOrSet early.
LEMMA BaseReplies ==
    ASSUME Base, NEW c \in Calls,
           GetReply(c) \/ SetReply(c) \/ InvalidateReply(c) \/ Purged(c) \/ FoundEarly(c)
    PROVE  Base'
<1>1. Pod[c] \in Instances /\ Sound(call[c])
  BY CacheAssumption DEF Base, CallsSound
<1>2. /\ replies[Pod[c]] # << >>
      /\ UNCHANGED <<store, members, lock, lockMap, writes, loose, overrun>>
  BY DEF GetReply, SetReply, InvalidateReply, Purged, FoundEarly, Reply
<1>3. ASSUME CallsSound', RepliesOK', PipeTypes', LocalOK(local'), FloorOK'
      PROVE  Base'
  BY <1>2, <1>3 DEF Base, StoreOK, LockOK, LocalOK, PromisesOK
<1>4. ASSUME Handled(c), Finish(c), UNCHANGED pipe
      PROVE  CallsSound' /\ RepliesOK' /\ PipeTypes'
  BY <1>2, <1>4, Finished, WasHandled DEF Base, PipeTypes
<1>5. CASE GetReply(c) \/ FoundEarly(c)
  <2>1. /\ call[c].at \in Filling /\ Handled(c) /\ Finish(c)
        /\ local' = Filled(Pod[c], call[c].seen)
        /\ UNCHANGED <<pipe, floor>>
    BY <1>5 DEF GetReply, FoundEarly, Reply, Filling
  <2>2. LocalOK(local')
    BY <1>1, <2>1, FilledOK DEF Base
  <2>. QED
    BY <1>3, <1>4, <2>1, <2>2 DEF Base, FloorOK
<1>6. CASE SetReply(c)
  <2>1. /\ local' = Dropped(Pod[c], call[c].keys) /\ Handled(c) /\ Finish(c)
        /\ UNCHANGED pipe
    BY <1>6 DEF SetReply, DropAfterSet
  <2>2. LocalOK(local')
    BY <1>1, <2>1, DroppedOK DEF Base
  <2>3. call[c].seen \in [Keys -> Value]
    BY <1>1 DEF Sound, CallRow
  <2>4. FloorOK'
    BY <1>1, <1>6, <2>3 DEF SetReply, Base, FloorOK, Value
  <2>. QED
    BY <1>3, <1>4, <2>1, <2>2, <2>4
<1>7. CASE InvalidateReply(c) \/ Purged(c)
  <2>1. UNCHANGED floor
    BY <1>7 DEF InvalidateReply, Purged
  <2>2. CASE Handled(c) /\ Finish(c) /\ UNCHANGED <<local, pipe>>
    BY <1>3, <1>4, <2>1, <2>2 DEF Base, FloorOK
  <2>3. CASE /\ local' = Dropped(Pod[c], call[c].keys)
             /\ SendNext(c, Row("purge", call[c].keys, Unseen))
             /\ Start(Pod[c], "purge", call[c].keys, c)
    <3>1. call[c].keys \in SUBSET Keys
      BY <1>1 DEF Sound, CallRow
    <3>2. Sound(Row("purge", call[c].keys, Unseen))
      BY <3>1, RowSound, UnseenIsSeen DEF Filling
    <3>3. CallsSound' /\ RepliesOK'
      BY <1>2, <2>3, <3>2, SentNext DEF Base
    <3>4. PipeTypes'
      BY <2>3, <3>1, StartedOK DEF Base
    <3>5. LocalOK(local')
      BY <1>1, <2>3, DroppedOK DEF Base
    <3>. QED
      BY <1>3, <2>1, <3>3, <3>4, <3>5 DEF Base, FloorOK
  <2>. QED
    BY <1>7, <2>2, <2>3 DEF InvalidateReply, Purged
<1>. QED
  BY <1>5, <1>6, <1>7

LEMMA OneKey ==
    ASSUME CallsSound, NEW c \in Calls,
           call[c].at \notin {"idle", "read", "write", "list", "purge"}
    PROVE  \E k \in Keys : call[c].keys = {k} /\ Key(c) = k
BY KeyOf DEF CallsSound, Sound

\* Who joins a promise waits for the call it belongs to, or is answered.
LEMMA JoinPut ==
    ASSUME Base, NEW c \in Calls, NEW k \in Keys, call[c].keys = {k}, Join(c)
    PROVE  \/ call' = [call EXCEPT ![c] = Idle]
           \/ \E d \in Calls : /\ d = lockMap[Pod[c]][k]
                              /\ call' = [call EXCEPT ![c] = Joining(c, d)]
<1>. Key(c) = k
  BY KeyOf
<1>1. lockMap[Pod[c]][k] # Nobody /\ lockMap[Pod[c]][k] \in Calls \cup {Nobody, Settled}
  BY CacheAssumption DEF Join, Base, PromisesOK
<1>2. CASE lockMap[Pod[c]][k] = Settled
  BY <1>2 DEF Join
<1>3. CASE lockMap[Pod[c]][k] # Settled
  <2>1. call' = [call EXCEPT ![c] = Joining(c, lockMap[Pod[c]][k])]
    BY <1>3 DEF Join
  <2>. QED
    BY <1>1, <1>3, <2>1
<1>. QED
  BY <1>2, <1>3

\* getOrSet before the work: the lock, the polls and the sleeps.
LEMMA BaseWaits ==
    ASSUME Base, NEW c \in Calls,
           Join(c) \/ AskLock(c) \/ Poll(c) \/ Sleep(c) \/ AskAgain(c)
    PROVE  Base'
<1>1. call[c].at \notin {"idle", "read", "write", "list", "purge"}
  BY DEF Join, AskLock, Poll, Sleep, AskAgain, Reply
<1>2. PICK k \in Keys : call[c].keys = {k} /\ Key(c) = k
  BY <1>1, OneKey DEF Base
<1>3. Pod[c] \in Instances /\ call[c] \in CallRow
  BY CacheAssumption DEF Base, CallsSound
<1>4. UNCHANGED <<store, members, local, lockMap, pipe, writes, floor, loose, overrun>>
  BY DEF Join, AskLock, Poll, Sleep, AskAgain
<1>5. ASSUME CallsSound' /\ RepliesOK' /\ LockOK'
      PROVE  Base'
  BY <1>4, <1>5 DEF Base, StoreOK, LocalOK, PromisesOK, PipeTypes, FloorOK
<1>6. ASSUME Acquire(k)
      PROVE  LockOK'
  BY <1>4, <1>6, CacheAssumption DEF Acquire, Base, LockOK
<1>7. CASE Join(c)
  <2>1. replies[Pod[c]] # << >> /\ Handled(c) /\ UNCHANGED lock
    BY <1>7 DEF Join, Reply
  <2>2. \/ call' = [call EXCEPT ![c] = Idle]
        \/ \E d \in Calls : call' = [call EXCEPT ![c] = Joining(c, d)]
    BY <1>2, <1>7, JoinPut
  <2>3. CallsSound'
    BY <1>2, <2>2, IdleSound, JoiningSound, PutSound DEF Base
  <2>. QED
    BY <1>4, <1>5, <2>1, <2>3, WasHandled DEF Base, LockOK
<1>8. CASE AskLock(c)
  <2>1. replies[Pod[c]] # << >> /\ SendNext(c, Asking(c, 0)) /\ Acquire(k)
    BY <1>2, <1>8 DEF AskLock, Reply
  <2>2. Sound(Asking(c, 0))
    BY <1>2, AskingSound
  <2>. QED
    BY <1>5, <1>6, <2>1, <2>2, SentNext DEF Base
<1>9. CASE Poll(c)
  <2>1. replies[Pod[c]] # << >> /\ UNCHANGED lock
    BY <1>9 DEF Poll, Reply
  <2>2. CASE Handled(c) /\ Finish(c)
    BY <1>4, <1>5, <2>1, <2>2, WasHandled, Finished DEF Base, LockOK
  <2>3. CASE SendNext(c, Onward(c, "poll", Fetched({Key(c)}), FALSE))
    <3>1. Sound(Onward(c, "poll", Fetched({Key(c)}), FALSE))
      BY <1>2, OnwardSound, FetchedIsSeen DEF Base, StoreOK
    <3>. QED
      BY <1>4, <1>5, <2>1, <2>3, <3>1, SentNext DEF Base, LockOK
  <2>. QED
    BY <1>9, <2>2, <2>3 DEF Poll
<1>10. CASE Sleep(c)
  <2>1. /\ replies[Pod[c]] # << >> /\ Handled(c) /\ UNCHANGED lock
        /\ call' = [call EXCEPT ![c] = Onward(c, "sleep", Unseen, FALSE)]
    BY <1>10 DEF Sleep, Reply
  <2>2. Sound(Onward(c, "sleep", Unseen, FALSE))
    BY <1>2, OnwardSound, UnseenIsSeen DEF Base
  <2>. QED
    BY <1>4, <1>5, <2>1, <2>2, PutSound, WasHandled DEF Base, LockOK
<1>11. CASE AskAgain(c)
  <2>1. Send(c, Asking(c, call[c].polls + 1)) /\ Acquire(k)
    BY <1>2, <1>11 DEF AskAgain
  <2>2. call[c].polls + 1 \in Nat
    BY <1>3 DEF CallRow
  <2>3. Sound(Asking(c, call[c].polls + 1))
    BY <1>2, <2>2, AskingSound
  <2>. QED
    BY <1>5, <1>6, <2>1, <2>3, Sent DEF Base
<1>. QED
  BY <1>7, <1>8, <1>9, <1>10, <1>11

\* The work of getOrSet.
LEMMA BaseWorks ==
    ASSUME Base, NEW c \in Calls,
           \/ Begin(c) \/ Fetch(c) \/ Store(c) \/ FoundInWork(c) \/ Stored(c)
           \/ FetchFails(c) \/ Released(c)
    PROVE  Base'
<1>1. call[c].at \notin {"idle", "read", "write", "list", "purge"}
  BY DEF Begin, Fetch, Store, FoundInWork, Stored, FetchFails, Released, Reply
<1>2. PICK k \in Keys : call[c].keys = {k} /\ Key(c) = k
  BY <1>1, OneKey DEF Base
<1>3. Pod[c] \in Instances /\ Sound(call[c]) /\ call[c] \in CallRow
  BY CacheAssumption DEF Base, CallsSound
<1>4. CASE Begin(c)
  <2>1. replies[Pod[c]] # << >> /\ UNCHANGED <<store, members, local, pipe, writes, floor, loose>>
    BY <1>4 DEF Begin, Reply
  <2>2. PromisesOK(Promise(c, c))
    BY <1>2, <1>3 DEF Base, PromisesOK, Promise
  <2> DEFINE r == Onward(c, "recheck", Fetched({Key(c)}), call[c].locked)
  <2>3. CASE lockMap' = Promise(c, c) /\ SendNext(c, r) /\ UNCHANGED <<lock, overrun>>
    <3>1. call[c].locked \in BOOLEAN
      BY <1>3 DEF CallRow
    <3>2. Sound(r)
      BY <1>2, <3>1, OnwardSound, FetchedIsSeen DEF Base, StoreOK, Holding, Working
    <3> HIDE DEF r
    <3>3. CallsSound' /\ RepliesOK'
      BY <2>1, <2>3, <3>2, SentNext DEF Base
    <3>. QED
      BY <2>1, <2>2, <2>3, <3>3 DEF Base, StoreOK, LockOK, LocalOK, PromisesOK, PipeTypes, FloorOK
  <2>4. CASE Finally(c, Rest(c), Promise(c, c))
    <3>1. LockOK' /\ PromisesOK(lockMap)' /\ CallsSound' /\ RepliesOK'
      BY <1>2, <2>1, <2>2, <2>4, RestIsReplies, FinallyOK DEF Base
    <3>. QED
      BY <2>1, <3>1 DEF Base, StoreOK, LocalOK, PipeTypes, FloorOK
  <2>. QED
    BY <1>4, <2>3, <2>4 DEF Begin
<1>5. CASE Fetch(c) \/ Store(c)
  <2>1. call[c].locked \in BOOLEAN
    BY <1>3 DEF CallRow
  <2>2. \A at \in {"fetch", "store"} : Sound(Onward(c, at, Unseen, call[c].locked))
    BY <1>2, <2>1, OnwardSound, UnseenIsSeen DEF Base, Holding, Working
  <2>3. CASE Fetch(c)
    <3>1. /\ replies[Pod[c]] # << >> /\ Handled(c)
          /\ call' = [call EXCEPT ![c] = Onward(c, "fetch", Unseen, call[c].locked)]
          /\ UNCHANGED <<store, members, lock, local, lockMap, pipe, writes, floor, loose, overrun>>
      BY <2>3 DEF Fetch, Reply
    <3>2. CallsSound' /\ RepliesOK'
      BY <2>2, <3>1, PutSound, WasHandled DEF Base
    <3>. QED
      BY <3>1, <3>2 DEF Base, StoreOK, LockOK, LocalOK, PromisesOK, PipeTypes, FloorOK
  <2>4. CASE Store(c)
    <3>1. /\ Send(c, Onward(c, "store", Unseen, call[c].locked))
          /\ Start(Pod[c], "set", {k}, c)
          /\ UNCHANGED <<store, members, lock, local, lockMap, writes, floor, loose, overrun>>
      BY <1>2, <2>4 DEF Store
    <3>2. CallsSound' /\ RepliesOK'
      BY <2>2, <3>1, Sent DEF Base
    <3>3. PipeTypes'
      BY <3>1, StartedOK DEF Base
    <3>. QED
      BY <3>1, <3>2, <3>3 DEF Base, StoreOK, LockOK, LocalOK, PromisesOK, FloorOK
  <2>. QED
    BY <1>5, <2>3, <2>4
<1>6. CASE FoundInWork(c) \/ Stored(c) \/ FetchFails(c)
  <2>1. /\ Finally(c, Rest(c), lockMap) /\ replies[Pod[c]] # << >>
        \/ Finally(c, replies[Pod[c]], lockMap)
    BY <1>6 DEF FoundInWork, Stored, FetchFails, Reply
  <2>2. LockOK' /\ PromisesOK(lockMap)' /\ CallsSound' /\ RepliesOK'
    BY <1>2, <1>3, <2>1, RestIsReplies, FinallyOK DEF Base, RepliesOK
  <2>3. \/ call[c].at = "recheck" /\ local' = Filled(Pod[c], call[c].seen)
        \/ local' = Dropped(Pod[c], {Key(c)})
        \/ local' = local
    BY <1>6 DEF FoundInWork, Stored, FetchFails, Reply
  <2>4. LocalOK(local')
    BY <1>3, <2>3, FilledOK, DroppedOK DEF Base, Filling
  <2>5. UNCHANGED <<store, members, pipe, writes, floor, loose>>
    BY <1>6 DEF FoundInWork, Stored, FetchFails
  <2>. QED
    BY <2>2, <2>4, <2>5 DEF Base, StoreOK, LocalOK, PipeTypes, FloorOK
<1>7. CASE Released(c)
  <2>1. /\ replies[Pod[c]] # << >> /\ Handled(c) /\ EndWork(c)
        /\ lockMap' = Promise(c, PromiseAfter(c))
        /\ UNCHANGED <<store, members, lock, local, pipe, writes, floor, loose, overrun>>
    BY <1>7 DEF Released, Reply
  <2>2. PromisesOK(Promise(c, PromiseAfter(c)))
    BY <1>2, <1>3 DEF Base, PromisesOK, Promise, PromiseAfter
  <2>3. CallsSound' /\ RepliesOK'
    BY <2>1, EndSound, WasHandled DEF Base
  <2>. QED
    BY <2>1, <2>2, <2>3 DEF Base, StoreOK, LockOK, LocalOK, PromisesOK, PipeTypes, FloorOK
<1>. QED
  BY <1>4, <1>5, <1>6, <1>7

\* What happens around the calls.
LEMMA BaseElse ==
    ASSUME Base,
           \/ \E p \in Instances : \E S \in Batches[p] : Delete(p, S) \/ MSet(p, S)
           \/ \E k \in Keys : Expire(k)
           \/ \E p \in Instances, k \in Keys : Evict(p, k)
    PROVE  Base'
<1>1. UNCHANGED <<members, lock, lockMap, call, replies, writes, floor, overrun>>
  BY DEF Delete, MSet, DropAndStart, Expire, Evict
<1>2. LockOK' /\ PromisesOK(lockMap)' /\ CallsSound' /\ RepliesOK' /\ FloorOK'
  BY <1>1 DEF Base, LockOK, PromisesOK, CallsSound, Sound, RepliesOK, FloorOK
<1>3. local' = local \/ \E p \in Instances, S \in SUBSET Keys : local' = Dropped(p, S)
  BY CacheAssumption DEF Delete, MSet, DropAndStart, Expire, Evict
<1>4. LocalOK(local')
  BY <1>3, DroppedOK DEF Base
<1>5. PipeTypes'
  <2>1. \/ UNCHANGED pipe
        \/ \E p \in Instances : \E S \in Batches[p], op \in {"set", "del"} : Start(p, op, S, Nobody)
    BY DEF Delete, MSet, DropAndStart, Expire, Evict
  <2>2. \A p \in Instances : Batches[p] \subseteq SUBSET Keys
    BY CacheAssumption
  <2>3. CASE UNCHANGED pipe
    BY <2>3 DEF Base, PipeTypes
  <2>. QED
    BY <2>1, <2>2, <2>3, StartedOK DEF Base
<1>6. StoreOK'
  <2>1. \/ UNCHANGED <<store, loose>>
        \/ \E k \in Keys : store' = [store EXCEPT ![k] = 0] /\ loose' = loose \ {k}
    BY DEF Delete, MSet, DropAndStart, Expire, Evict
  <2>. QED
    BY <1>1, <2>1 DEF Base, StoreOK
<1>. QED
  BY <1>2, <1>4, <1>5, <1>6 DEF Base, LocalOK

\* The commands of the pipelines.
LEMMA BasePipeline ==
    ASSUME Base, NEW p \in Instances, Pipeline(p)
    PROVE  Base'
<1>1. pipe[p] \in PipeRow
  BY DEF Base, PipeTypes
<1>2. /\ pipe[p].op # "set" => pipe[p].add = {}
      /\ pipe[p].op = "none" => pipe[p].by = Nobody
  BY DEF Base, PipeTypes
<1>3. ASSUME NEW k \in Keys, NEW T \in {pipe[p].add, pipe[p].add \ {k}, {k} \cap Tagged},
             NEW S \in {pipe[p].todo, pipe[p].todo \ {k}},
             pipe[p].op # "none", pipe[p].op = "set" \/ T = pipe[p].add,
             Goes(p, [pipe[p] EXCEPT !.todo = S, !.add = T])
      PROVE  PipeTypes'
  <2> DEFINE q == [pipe[p] EXCEPT !.todo = S, !.add = T]
  <2>1. q \in PipeRow /\ q.op = pipe[p].op /\ q.add = T
    BY <1>1, <1>3 DEF PipeRow
  <2> HIDE DEF q
  <2>. QED
    BY <1>2, <1>3, <2>1, GoesOK DEF Base, q
<1>4. PipeTypes'
  <2>1. ASSUME NEW k \in Keys, PipeGet(p, k) \/ PipeDel(p, k)
        PROVE  PipeTypes'
    <3>1. [pipe[p] EXCEPT !.todo = @ \ {k}] =
              [pipe[p] EXCEPT !.todo = pipe[p].todo \ {k}, !.add = pipe[p].add]
      BY <1>1 DEF PipeRow
    <3>. QED
      BY <1>3, <2>1, <3>1 DEF PipeGet, PipeDel
  <2>2. ASSUME NEW k \in Keys, PipeSet(p, k)
        PROVE  PipeTypes'
    BY <1>3, <2>2 DEF PipeSet
  <2>3. ASSUME NEW k \in Keys, PipeAdd(p, k)
        PROVE  PipeTypes'
    <3>1. [pipe[p] EXCEPT !.add = @ \ {k}] =
              [pipe[p] EXCEPT !.todo = pipe[p].todo, !.add = pipe[p].add \ {k}]
      BY <1>1 DEF PipeRow
    <3>2. pipe[p].op = "set"
      BY <1>2, <2>3 DEF PipeAdd
    <3>. QED
      BY <1>3, <2>3, <3>1, <3>2 DEF PipeAdd
  <2>4. CASE PipeDelTag(p)
    BY <2>4 DEF PipeDelTag, Base, PipeTypes, PipeRow, NoPipe
  <2>. QED
    BY <2>1, <2>2, <2>3, <2>4 DEF Pipeline
<1>5. UNCHANGED <<lock, local, lockMap, replies, floor, overrun>>
  BY DEF Pipeline, PipeGet, PipeSet, PipeAdd, PipeDel, PipeDelTag
<1>6. CallsSound'
  <2>1. \/ UNCHANGED call
        \/ \E k \in Keys, version \in {writes + 1} \cup {store[j] : j \in Keys} : Noted(p, k, version)
    BY DEF Pipeline, PipeGet, PipeSet, PipeAdd, PipeDel, PipeDelTag
  <2>2. \A version \in {writes + 1} \cup {store[j] : j \in Keys} : version \in Nat
    BY DEF Base, StoreOK
  <2>3. CASE UNCHANGED call
    BY <2>3 DEF Base, CallsSound, Sound
  <2>. QED
    BY <2>1, <2>2, <2>3, NotedSound DEF Base
<1>7. StoreOK'
  <2>1. \/ UNCHANGED <<store, writes>>
        \/ \E k \in Keys : store' = [store EXCEPT ![k] = 0] /\ UNCHANGED writes
        \/ \E k \in Keys : store' = [store EXCEPT ![k] = writes + 1] /\ writes' = writes + 1
    BY DEF Pipeline, PipeGet, PipeSet, PipeAdd, PipeDel, PipeDelTag
  <2>2. /\ members' \in {members, {}} \/ \E k \in Keys : members' = members \cup {k}
        /\ loose' = loose \/ \E k \in Keys : loose' \in {loose \ {k}, loose \cup {k}}
    BY DEF Pipeline, PipeGet, PipeSet, PipeAdd, PipeDel, PipeDelTag, Registered
  <2>. QED
    BY <2>1, <2>2 DEF Base, StoreOK
<1>. QED
  BY <1>4, <1>5, <1>6, <1>7 DEF Base, LockOK, LocalOK, PromisesOK, RepliesOK, FloorOK

\* The store changes nothing of a call but what it learns.
LEMMA PipelineRows ==
    ASSUME Base, NEW p \in Instances, Pipeline(p), NEW c \in Calls
    PROVE  /\ call'[c].at = call[c].at /\ call'[c].keys = call[c].keys
           /\ call'[c].on = call[c].on /\ call'[c].locked = call[c].locked
           /\ call'[c].held = call[c].held
           /\ c # pipe[p].by => call'[c] = call[c]
<1>1. call[c] \in CallRow
  BY DEF Base, CallsSound
<1>2. UNCHANGED call \/ \E k \in Keys : \E version : Noted(p, k, version)
  BY DEF Pipeline, PipeGet, PipeSet, PipeAdd, PipeDel, PipeDelTag
<1>. QED
  BY <1>1, <1>2 DEF Noted, CallRow

LEMMA BaseTick ==
    ASSUME Base, Tick
    PROVE  Base'
<1>1. CallsSound'
  <2>1. ASSUME NEW c \in Calls
        PROVE  Sound(Waited(call[c], Holds(c)))
    <3>1. Sound(call[c]) /\ call[c] \in CallRow
      BY DEF Base, CallsSound
    <3>2. call[c].locked \in BOOLEAN
      BY <3>1 DEF CallRow
    <3>. QED
      BY <3>1, <3>2, WaitedSound DEF Base, StoreOK, Tick, Holds
  <2>. QED
    BY <2>1 DEF Tick, CallsSound, Sound
<1>2. LockOK'
  <2>1. \A k \in Keys : Less(lock[k]) \in Nat
    BY DEF Base, LockOK, Less
  <2>. QED
    BY <2>1 DEF Tick, Base, LockOK
<1>3. LocalOK(local')
  <2>1. ASSUME NEW p \in Instances, NEW k \in Keys
        PROVE  /\ Aged(local[p][k], k) \in [ver : Nat, stale : Nat, left : Nat]
               /\ Aged(local[p][k], k).stale + Aged(local[p][k], k).left <= MaxDelay + L1Ttl
    BY CacheAssumption DEF Base, StoreOK, LocalOK, Aged, Staler, NoEntry
  <2>. QED
    BY <2>1 DEF Tick, LocalOK
<1>. QED
  BY <1>1, <1>2, <1>3 DEF Tick, Base, StoreOK, LocalOK, PromisesOK, RepliesOK, PipeTypes, FloorOK

LEMMA BaseStep == Base /\ [Next]_vars => Base'
<1> SUFFICES ASSUME Base, [Next]_vars
             PROVE  Base'
  OBVIOUS
<1>1. CASE UNCHANGED vars
  BY <1>1 DEF vars, Base, StoreOK, LockOK, LocalOK, PromisesOK, CallsSound, Sound, RepliesOK,
              PipeTypes, FloorOK
<1>2. CASE \E c \in Calls : Ask(c) \/ Step(c)
  BY <1>2, BaseAsks, BaseReplies, BaseWaits, BaseWorks DEF Step
<1>3. CASE Tick
  BY <1>3, BaseTick
<1>4. CASE \E p \in Instances : Pipeline(p)
  BY <1>4, BasePipeline
<1>. QED
  BY <1>1, <1>2, <1>3, <1>4, BaseElse DEF Next

\* Every variable of the cache keeps its type.
THEOREM CacheTypeCorrect == Spec => []CacheTypeOK
<1>1. Base => CacheTypeOK
  BY DEF Base, StoreOK, LockOK, LocalOK, PromisesOK, CallsSound, RepliesOK, PipeTypes, FloorOK, CacheTypeOK
<1>. QED
  BY BaseInit, BaseStep, <1>1, PTL DEF Spec

\* No instance serves a value that left the store longer ago than the time of
\* one reply and of one L1 entry together.
THEOREM StaleForAWhileAlways == Spec => []StaleForAWhile
<1>1. Base => StaleForAWhile
  BY DEF Base, LocalOK, StaleForAWhile
<1>. QED
  BY BaseInit, BaseStep, <1>1, PTL DEF Spec

-----------------------------------------------------------------------------
(* The lock of getOrSet.                                                   *)

\* Unless it was outlived, a lock lives as long as its holder may keep it.
HoldOK ==
    /\ OneHolder
    /\ \A c \in Calls : Holds(c) => \A k \in call[c].keys \ overrun :
          lock[k] + call[c].held >= LockTtl /\ call[c].held < LockTtl

LEMMA HolderHasLock ==
    ASSUME Base, HoldOK, NEW c \in Calls, NEW k \in call[c].keys, Holds(c)
    PROVE  /\ k \in Keys /\ call[c].keys = {k}
           /\ k \notin overrun => lock[k] > 0
<1>1. Sound(call[c]) /\ call[c] \in CallRow
  BY DEF Base, CallsSound
<1>2. call[c].keys = {k} /\ k \in Keys
  BY <1>1 DEF Sound, CallRow, Holds, Holding, Working
<1>3. call[c].held \in Nat /\ lock[k] \in Nat
  BY <1>1, <1>2 DEF CallRow, Base, LockOK
<1>. QED
  BY <1>2, <1>3, CacheAssumption DEF HoldOK

\* Nobody takes a lock, and no lock changes.
LEMMA HoldKept ==
    ASSUME HoldOK, UNCHANGED <<lock, overrun>>,
           \A d \in Calls : Holds(d)' => /\ Holds(d)
                                         /\ call'[d].keys = call[d].keys
                                         /\ call'[d].held = call[d].held
    PROVE  HoldOK'
BY DEF HoldOK, OneHolder

LEMMA HoldPut ==
    ASSUME Base, HoldOK, UNCHANGED <<lock, overrun>>, NEW c \in Calls, NEW r,
           call' = [call EXCEPT ![c] = r],
           r.locked /\ r.at \in Holding \ {"release"} =>
               Holds(c) /\ r.keys = call[c].keys /\ r.held = call[c].held
    PROVE  HoldOK'
<1>1. \A d \in Calls : call'[d] = IF d = c THEN r ELSE call[d]
  BY DEF Base, CallsSound
<1>. QED
  BY <1>1, HoldKept DEF Holds

LEMMA HoldEnd ==
    ASSUME Base, HoldOK, UNCHANGED <<lock, overrun>>, NEW c \in Calls, EndWork(c)
    PROVE  HoldOK'
<1>1. \A d \in Calls : call'[d] = Idle \/ call'[d] = call[d]
  BY DEF EndWork
<1>. QED
  BY <1>1, HoldKept, IdleSound DEF Holds

\* A lock that is free has no holder that did not outlive it; one that is taken
\* keeps its own.
LEMMA HoldAcquire ==
    ASSUME Base, HoldOK, NEW c \in Calls, NEW k \in Keys, call[c].keys = {k}, NEW n \in Nat,
           Acquire(k), UNCHANGED overrun, call' = [call EXCEPT ![c] = Asking(c, n)]
    PROVE  HoldOK'
<1>1. Key(c) = k
  BY KeyOf
<1>2. CASE ~LockFree(k)
  <2>1. UNCHANGED lock /\ ~Asking(c, n).locked
    BY <1>1, <1>2 DEF Acquire, Asking
  <2>. QED
    BY <2>1, HoldPut
<1>3. CASE LockFree(k)
  <2>1. /\ \A j \in Keys : lock'[j] = IF j = k THEN LockTtl ELSE lock[j]
        /\ lock[k] = 0
    BY <1>3 DEF Acquire, LockFree, Base, LockOK
  <2>2. \A d \in Calls : Holds(d) /\ k \in call[d].keys => k \in overrun
    BY <2>1, HolderHasLock
  <2>3. \A d \in Calls \ {c} : call'[d] = call[d]
    BY DEF Base, CallsSound
  <2>4. call'[c].keys = {k} /\ call'[c].held = 0
    BY DEF Base, CallsSound, Asking
  <2>5. \A d \in Calls \ {c} : Holds(d)' => Holds(d)
    BY <2>3 DEF Holds
  <2>6. OneHolder'
    BY <2>2, <2>3, <2>4, <2>5 DEF OneHolder, HoldOK
  <2>7. ASSUME NEW d \in Calls, Holds(d)', NEW j \in call'[d].keys, j \notin overrun
        PROVE  lock'[j] + call'[d].held >= LockTtl /\ call'[d].held < LockTtl
    <3>1. CASE d = c
      BY <2>1, <2>4, <2>7, <3>1, CacheAssumption
    <3>2. CASE d # c
      <4>1. Holds(d) /\ call'[d] = call[d] /\ j # k
        BY <2>2, <2>3, <2>5, <2>7, <3>2
      <4>2. j \in Keys
        BY <2>7, <4>1, HolderHasLock
      <4>. QED
        BY <2>1, <2>7, <4>1, <4>2 DEF HoldOK
    <3>. QED
      BY <3>1, <3>2
  <2>. QED
    BY <2>6, <2>7 DEF HoldOK
<1>. QED
  BY <1>2, <1>3

\* finally gives the lock back only if the caller has it; if another caller has
\* it too, somebody outlived it.
LEMMA HoldFinally ==
    ASSUME Base, HoldOK, NEW c \in Calls, NEW k \in Keys, call[c].keys = {k},
           call[c].at \in Holding \ {"release"}, NEW rest, NEW promises,
           Finally(c, rest, promises)
    PROVE  HoldOK'
<1>1. Key(c) = k
  BY KeyOf
<1>2. CASE MustRelease(c)
  <2>1. Holds(c)
    BY <1>2 DEF MustRelease, Holds
  <2>2. PICK accepted \in BOOLEAN :
            /\ call' = [call EXCEPT ![c] = Onward(c, "release", Unseen, ~accepted)]
            /\ lock' = IF accepted THEN [lock EXCEPT ![k] = 0] ELSE lock
    BY <1>1, <1>2 DEF Finally
  <2>3. overrun' = IF \E d \in Calls \ {c} : Holds(d) /\ k \in call[d].keys THEN overrun
                   ELSE overrun \ {k}
    BY <1>1, <1>2 DEF Finally, GiveBack
  <2>4. \A d \in Calls : Holds(d)' => d # c /\ Holds(d) /\ call'[d] = call[d]
    BY <2>2 DEF Base, CallsSound, Holds, Onward
  <2>5. ASSUME NEW d \in Calls, Holds(d)', NEW j \in call[d].keys
        PROVE  /\ j \in Keys /\ call[d].keys = {j}
               /\ j \in overrun' <=> j \in overrun
    <3>1. Holds(d) /\ d # c
      BY <2>4, <2>5
    <3>2. j \in Keys /\ call[d].keys = {j}
      BY <2>5, <3>1, HolderHasLock
    <3>. QED
      BY <2>3, <2>5, <3>1, <3>2
  <2>6. OneHolder'
    <3> SUFFICES ASSUME NEW d \in Calls, NEW e \in Calls, Holds(d)', Holds(e)',
                        call'[d].keys = call'[e].keys, d # e
                 PROVE  call'[d].keys \subseteq overrun'
      BY DEF OneHolder
    <3>1. Holds(d) /\ Holds(e) /\ call'[d] = call[d] /\ call'[e] = call[e]
      BY <2>4
    <3>2. call[d].keys \subseteq overrun
      BY <3>1 DEF HoldOK, OneHolder
    <3>. QED
      BY <2>5, <3>1, <3>2
  <2>7. ASSUME NEW d \in Calls, Holds(d)', NEW j \in call'[d].keys, j \notin overrun'
        PROVE  lock'[j] + call'[d].held >= LockTtl /\ call'[d].held < LockTtl
    <3>1. Holds(d) /\ call'[d] = call[d] /\ d # c
      BY <2>4, <2>7
    <3>2. call[d].keys = {j} /\ j \in Keys /\ j \notin overrun
      BY <2>5, <2>7, <3>1
    <3>3. j # k
      BY <2>1, <3>1, <3>2 DEF HoldOK, OneHolder
    <3>4. lock'[j] = lock[j]
      BY <2>2, <3>2, <3>3 DEF Base, LockOK
    <3>. QED
      BY <3>1, <3>2, <3>4 DEF HoldOK
  <2>. QED
    BY <2>6, <2>7 DEF HoldOK
<1>3. CASE ~MustRelease(c)
  BY <1>3, HoldEnd DEF Finally
<1>. QED
  BY <1>2, <1>3

\* A lock and its holder grow older together, until it is outlived.
LEMMA HoldTick ==
    ASSUME Base, HoldOK, Tick
    PROVE  HoldOK'
<1>1. \A d \in Calls : /\ call'[d].keys = call[d].keys
                       /\ call'[d].locked = call[d].locked
                       /\ call'[d].at = call[d].at
  BY DEF Tick, Waited
<1>2. \A d \in Calls : Holds(d)' <=> Holds(d)
  BY <1>1 DEF Holds
<1>3. overrun \subseteq overrun'
  BY DEF Tick
<1>4. OneHolder'
  BY <1>1, <1>2, <1>3 DEF HoldOK, OneHolder
<1>5. ASSUME NEW d \in Calls, Holds(d), NEW k \in call[d].keys, k \notin overrun'
      PROVE  lock'[k] + call'[d].held >= LockTtl /\ call'[d].held < LockTtl
  <2>1. lock[k] > 0 /\ k \in Keys
    BY <1>3, <1>5, HolderHasLock
  <2>2. lock'[k] = lock[k] - 1
    BY <2>1 DEF Tick, Less
  <2>3. lock[k] \in Nat /\ call[d].held \in Nat
    BY <2>1 DEF Base, LockOK, CallsSound, CallRow
  <2>4. lock[k] + call[d].held >= LockTtl /\ call[d].held < LockTtl
    BY <1>3, <1>5 DEF HoldOK
  <2>5. call[d].held + 1 < LockTtl
    BY <1>5, <2>1, <2>3, CacheAssumption DEF Tick
  <2>6. call'[d].held = call[d].held + 1
    BY <1>5, <2>4 DEF Tick, Waited
  <2>. QED
    BY <2>2, <2>3, <2>4, <2>5, <2>6, CacheAssumption
<1>. QED
  BY <1>1, <1>2, <1>4, <1>5 DEF HoldOK

\* getOrSet from its first get to its last reply.
LEMMA HoldGetOrSet ==
    ASSUME Base, HoldOK, NEW c \in Calls,
           \/ Join(c) \/ AskLock(c) \/ Poll(c) \/ Sleep(c) \/ AskAgain(c)
           \/ Begin(c) \/ Fetch(c) \/ Store(c) \/ FoundInWork(c) \/ Stored(c)
           \/ FetchFails(c) \/ Released(c)
    PROVE  HoldOK'
<1>1. call[c].at \notin {"idle", "read", "write", "list", "purge"}
  BY DEF Join, AskLock, Poll, Sleep, AskAgain, Begin, Fetch, Store, FoundInWork, Stored,
         FetchFails, Released, Reply
<1>2. PICK k \in Keys : call[c].keys = {k} /\ Key(c) = k
  BY <1>1, OneKey DEF Base
<1>3. CASE Join(c)
  <2>1. CASE call' = [call EXCEPT ![c] = Idle]
    BY <1>3, <2>1, IdleSound, HoldPut DEF Join
  <2>2. ASSUME NEW d \in Calls, call' = [call EXCEPT ![c] = Joining(c, d)]
        PROVE  HoldOK'
    BY <1>3, <2>2, HoldPut DEF Join, Joining
  <2>. QED
    BY <1>2, <1>3, <2>1, <2>2, JoinPut
<1>4. CASE AskLock(c) \/ AskAgain(c)
  <2>1. call[c].polls + 1 \in Nat
    BY DEF Base, CallsSound, CallRow
  <2>2. Acquire(k) /\ UNCHANGED overrun /\ \E n \in Nat : call' = [call EXCEPT ![c] = Asking(c, n)]
    BY <1>2, <1>4, <2>1 DEF AskLock, AskAgain, SendNext, Send
  <2>. QED
    BY <1>2, <2>2, HoldAcquire
<1>5. CASE Poll(c) \/ Sleep(c) \/ Fetch(c) \/ Store(c)
  <2>1. UNCHANGED <<lock, overrun>>
    BY <1>5 DEF Poll, Sleep, Fetch, Store
  <2>2. CASE Finish(c)
    BY <2>1, <2>2, IdleSound, HoldPut DEF Finish
  <2>3. ASSUME NEW at \in {"poll", "sleep"}, NEW seen,
               call' = [call EXCEPT ![c] = Onward(c, at, seen, FALSE)]
        PROVE  HoldOK'
    <3>1. ~Onward(c, at, seen, FALSE).locked
      BY DEF Onward
    <3>. QED
      BY <2>1, <2>3, <3>1, HoldPut
  <2>4. ASSUME NEW at \in {"fetch", "store"}, NEW seen, call[c].at \in Holding \ {"release"},
               call' = [call EXCEPT ![c] = Onward(c, at, seen, call[c].locked)]
        PROVE  HoldOK'
    BY <2>1, <2>4, HoldPut DEF Onward, Holds
  <2>. QED
    BY <1>5, <2>2, <2>3, <2>4 DEF Poll, Sleep, Fetch, Store, Reply, SendNext, Send, Holding, Working
<1>6. CASE Begin(c)
  <2>1. call[c].at \in Holding \ {"release"}
    BY <1>6 DEF Begin, Reply, Holding
  <2>2. CASE /\ SendNext(c, Onward(c, "recheck", Fetched({Key(c)}), call[c].locked))
             /\ UNCHANGED <<lock, overrun>>
    BY <2>1, <2>2, HoldPut DEF SendNext, Onward, Holds
  <2>3. CASE Finally(c, Rest(c), Promise(c, c))
    BY <1>2, <2>1, <2>3, HoldFinally
  <2>. QED
    BY <1>6, <2>2, <2>3 DEF Begin
<1>7. CASE FoundInWork(c) \/ Stored(c) \/ FetchFails(c)
  <2>1. call[c].at \in Holding \ {"release"}
    BY <1>7 DEF FoundInWork, Stored, FetchFails, Reply, Holding, Working
  <2>. QED
    BY <1>2, <1>7, <2>1, HoldFinally DEF FoundInWork, Stored, FetchFails
<1>8. CASE Released(c)
  BY <1>8, HoldEnd DEF Released
<1>. QED
  BY <1>3, <1>4, <1>5, <1>6, <1>7, <1>8

LEMMA HoldStep == Base /\ HoldOK /\ [Next]_vars => HoldOK'
<1> SUFFICES ASSUME Base, HoldOK, [Next]_vars
             PROVE  HoldOK'
  OBVIOUS
<1>1. CASE UNCHANGED <<lock, overrun, call>>
  BY <1>1, HoldKept DEF Holds
<1>2. ASSUME NEW c \in Calls, Ask(c)
      PROVE  HoldOK'
  <2>1. UNCHANGED <<lock, overrun>> /\ \E at, S, seen : call' = [call EXCEPT ![c] = Row(at, S, seen)]
    BY <1>2 DEF Ask, Get, Set, GetOrSet, Invalidate, Send
  <2>. QED
    BY <2>1, HoldPut DEF Row
<1>3. ASSUME NEW c \in Calls,
             GetReply(c) \/ SetReply(c) \/ InvalidateReply(c) \/ Purged(c) \/ FoundEarly(c)
      PROVE  HoldOK'
  <2>1. /\ UNCHANGED <<lock, overrun>>
        /\ Finish(c) \/ call' = [call EXCEPT ![c] = Row("purge", call[c].keys, Unseen)]
    BY <1>3 DEF GetReply, SetReply, InvalidateReply, Purged, FoundEarly, SendNext
  <2>. QED
    BY <2>1, HoldPut, IdleSound DEF Finish, Row
<1>4. CASE Tick
  BY <1>4, HoldTick
<1>5. ASSUME NEW p \in Instances, Pipeline(p)
      PROVE  HoldOK'
  <2>1. UNCHANGED <<lock, overrun>>
    BY <1>5 DEF Pipeline, PipeGet, PipeSet, PipeAdd, PipeDel, PipeDelTag
  <2>. QED
    BY <1>5, <2>1, PipelineRows, HoldKept DEF Holds
<1>. QED
  BY <1>1, <1>2, <1>3, <1>4, <1>5, HoldGetOrSet
     DEF Next, Step, Delete, MSet, DropAndStart, Expire, Evict, vars

\* Two callers hold the lock of a key only after one outlived it.
THEOREM OneHolderAlways == Spec => []OneHolder
<1>1. Init => HoldOK
  BY IdleSound DEF Init, HoldOK, OneHolder, Holds
<1>2. HoldOK => OneHolder
  BY DEF HoldOK
<1>. QED
  BY BaseInit, BaseStep, HoldStep, <1>1, <1>2, PTL DEF Spec

-----------------------------------------------------------------------------
(* The promises of getOrSet.                                               *)

\* A call that does the work of a promise goes on with it.
LEMMA AlivePut ==
    ASSUME Base, PromiseIsAlive, UNCHANGED lockMap, NEW c \in Calls, NEW r,
           call' = [call EXCEPT ![c] = r],
           call[c].at \in Working => r.at \in Working /\ r.keys = call[c].keys,
           r.at = "joined" => r.on \in Calls /\ call[r.on].at \in Working
    PROVE  PromiseIsAlive'
<1>1. \A d \in Calls : call'[d] = IF d = c THEN r ELSE call[d]
  BY DEF Base, CallsSound
<1>2. \A d \in Calls : call[d].at \in Working =>
          call'[d].at \in Working /\ call'[d].keys = call[d].keys
  BY <1>1
<1>3. \A d \in Calls : call[d].at = "joined" => call[d].on \in Calls
  BY DEF Base, CallsSound, Sound
<1>4. \A d \in Calls : call'[d].at = "joined" =>
          call'[d].on \in Calls /\ call[call'[d].on].at \in Working
  BY <1>1, <1>3 DEF PromiseIsAlive
<1>5. ASSUME NEW p \in Instances, NEW k \in Keys, NEW d \in Calls, lockMap'[p][k] = d
      PROVE  Pod[d] = p /\ call'[d].keys = {k} /\ call'[d].at \in Working
  BY <1>2, <1>5 DEF PromiseIsAlive
<1>6. ASSUME NEW d \in Calls, call'[d].at = "joined"
      PROVE  call'[call'[d].on].at \in Working
  BY <1>2, <1>4, <1>6
<1>. QED
  BY <1>5, <1>6 DEF PromiseIsAlive

\* The promise of the key becomes that of a call that works on it.
LEMMA AliveMine ==
    ASSUME Base, PromiseIsAlive, NEW c \in Calls, NEW k \in Keys, call[c].keys = {k},
           NEW r, r.at \in Working, r.keys = {k},
           call' = [call EXCEPT ![c] = r], lockMap' = Promise(c, c)
    PROVE  PromiseIsAlive'
<1>1. \A d \in Calls : call'[d] = IF d = c THEN r ELSE call[d]
  BY DEF Base, CallsSound
<1>2. \A p \in Instances, j \in Keys :
          lockMap'[p][j] = IF p = Pod[c] /\ j = k THEN c ELSE lockMap[p][j]
  BY KeyOf, CacheAssumption DEF Promise, Base, PromisesOK
<1>3. \A d \in Calls : call[d].at = "joined" => call[d].on \in Calls
  BY DEF Base, CallsSound, Sound
<1>4. r.at # "joined"
  BY DEF Working
<1>5. ASSUME NEW p \in Instances, NEW j \in Keys, NEW d \in Calls, lockMap'[p][j] = d
      PROVE  Pod[d] = p /\ call'[d].keys = {j} /\ call'[d].at \in Working
  BY <1>1, <1>2, <1>5 DEF PromiseIsAlive
<1>6. ASSUME NEW d \in Calls, call'[d].at = "joined"
      PROVE  call'[call'[d].on].at \in Working
  <2>1. call'[d] = call[d] /\ call[d].on \in Calls /\ call[call[d].on].at \in Working
    BY <1>1, <1>3, <1>4, <1>6 DEF PromiseIsAlive
  <2>. QED
    BY <1>1, <2>1
<1>. QED
  BY <1>5, <1>6 DEF PromiseIsAlive

\* The work of a call is over, and its promise is not in the map any more.
LEMMA AliveOver ==
    ASSUME Base, PromiseIsAlive, NEW c \in Calls, NEW k \in Keys, call[c].keys = {k},
           NEW q, q # c, q \in Calls => q = lockMap[Pod[c]][k],
           EndWork(c), lockMap' = Promise(c, q)
    PROVE  PromiseIsAlive'
<1>1. \A p \in Instances, j \in Keys :
          lockMap'[p][j] = IF p = Pod[c] /\ j = k THEN q ELSE lockMap[p][j]
  BY KeyOf, CacheAssumption DEF Promise, Base, PromisesOK
<1>2. \A d \in Calls : call[d].at = "joined" <=> call[d].on \in Calls
  BY DEF Base, CallsSound, Sound
<1>3. \A d \in Calls : call[d].at \in Working /\ d # c => call'[d] = call[d]
  BY <1>2 DEF EndWork, Working
<1>4. \A p \in Instances, j \in Keys :
          lockMap'[p][j] \in Calls => lockMap'[p][j] # c /\ lockMap'[p][j] = lockMap[p][j]
  BY <1>1 DEF PromiseIsAlive
<1>5. \A d \in Calls : call'[d].at = "joined" =>
          call'[d] = call[d] /\ call[d].on \in Calls \ {c} /\ call[call[d].on].at \in Working
  BY <1>2, IdleSound DEF EndWork, PromiseIsAlive
<1>. QED
  BY <1>3, <1>4, <1>5 DEF PromiseIsAlive

LEMMA AliveFinally ==
    ASSUME Base, PromiseIsAlive, NEW c \in Calls, NEW k \in Keys, call[c].keys = {k},
           NEW rest, NEW promises, promises \in {lockMap, Promise(c, c)},
           call[c].at # "joined", Finally(c, rest, promises)
    PROVE  PromiseIsAlive'
<1>1. CASE MustRelease(c)
  <2>1. PICK r : call' = [call EXCEPT ![c] = r] /\ r.at = "release" /\ r.keys = {k}
    <3>1. \A b : /\ Onward(c, "release", Unseen, b).at = "release"
                 /\ Onward(c, "release", Unseen, b).keys = {k}
      BY OnwardRow
    <3>. QED
      BY <1>1, <3>1 DEF Finally
  <2>2. r.at \in Working
    BY <2>1 DEF Working
  <2>3. lockMap' = promises
    BY <1>1 DEF Finally
  <2>4. CASE promises = lockMap
    BY <2>1, <2>2, <2>3, <2>4, AlivePut
  <2>5. CASE promises = Promise(c, c)
    BY <2>1, <2>2, <2>3, <2>5, AliveMine
  <2>. QED
    BY <2>4, <2>5
<1>2. CASE ~MustRelease(c)
  BY <1>2, NobodyIsNoCall, AliveOver DEF Finally
<1>. QED
  BY <1>1, <1>2

LEMMA AliveGetOrSet ==
    ASSUME Base, PromiseIsAlive, NEW c \in Calls,
           \/ Join(c) \/ AskLock(c) \/ Poll(c) \/ Sleep(c) \/ AskAgain(c)
           \/ Begin(c) \/ Fetch(c) \/ Store(c) \/ FoundInWork(c) \/ Stored(c)
           \/ FetchFails(c) \/ Released(c)
    PROVE  PromiseIsAlive'
<1>1. call[c].at \notin {"idle", "read", "write", "list", "purge"}
  BY DEF Join, AskLock, Poll, Sleep, AskAgain, Begin, Fetch, Store, FoundInWork, Stored,
         FetchFails, Released, Reply
<1>2. PICK k \in Keys : call[c].keys = {k} /\ Key(c) = k
  BY <1>1, OneKey DEF Base
<1>3. CASE Join(c)
  <2>1. call[c].at = "first" /\ UNCHANGED lockMap
    BY <1>3 DEF Join, Reply
  <2>2. CASE call' = [call EXCEPT ![c] = Idle]
    BY <2>1, <2>2, IdleSound, AlivePut DEF Working
  <2>3. ASSUME NEW d \in Calls, d = lockMap[Pod[c]][k],
               call' = [call EXCEPT ![c] = Joining(c, d)]
        PROVE  PromiseIsAlive'
    <3>1. call[d].at \in Working
      BY <2>3, CacheAssumption DEF PromiseIsAlive
    <3>. QED
      BY <2>1, <2>3, <3>1, AlivePut DEF Working, Joining
  <2>. QED
    BY <1>2, <1>3, <2>2, <2>3, JoinPut
<1>4. CASE AskLock(c) \/ AskAgain(c) \/ Poll(c) \/ Sleep(c)
  <2>1. call[c].at \notin Working /\ UNCHANGED lockMap
    BY <1>4 DEF AskLock, AskAgain, Poll, Sleep, Reply, Working
  <2>2. \E r : call' = [call EXCEPT ![c] = r] /\ r.at # "joined"
    BY <1>4, IdleSound
       DEF AskLock, AskAgain, Poll, Sleep, SendNext, Send, Finish, Asking, Onward
  <2>. QED
    BY <2>1, <2>2, AlivePut
<1>5. CASE Fetch(c) \/ Store(c)
  <2>1. /\ UNCHANGED lockMap
        /\ \E at \in {"fetch", "store"} :
              call' = [call EXCEPT ![c] = Onward(c, at, Unseen, call[c].locked)]
    BY <1>5 DEF Fetch, Store, Send
  <2>. QED
    BY <2>1, AlivePut DEF Onward, Working
<1>6. CASE Begin(c)
  <2>1. CASE /\ SendNext(c, Onward(c, "recheck", Fetched({Key(c)}), call[c].locked))
             /\ lockMap' = Promise(c, c)
    <3> DEFINE r == Onward(c, "recheck", Fetched({Key(c)}), call[c].locked)
    <3>1. r.at \in Working /\ r.keys = {k}
      BY <1>2, OnwardRow DEF Working
    <3>2. call' = [call EXCEPT ![c] = r]
      BY <2>1 DEF SendNext
    <3> HIDE DEF r
    <3>. QED
      BY <1>2, <2>1, <3>1, <3>2, AliveMine
  <2>2. CASE Finally(c, Rest(c), Promise(c, c))
    BY <1>2, <1>6, <2>2, AliveFinally DEF Begin, Reply
  <2>. QED
    BY <1>6, <2>1, <2>2 DEF Begin
<1>7. CASE FoundInWork(c) \/ Stored(c) \/ FetchFails(c)
  BY <1>2, <1>7, AliveFinally DEF FoundInWork, Stored, FetchFails, Reply
<1>8. CASE Released(c)
  <2>1. PromiseAfter(c) # c /\ (PromiseAfter(c) \in Calls => PromiseAfter(c) = lockMap[Pod[c]][k])
    BY <1>2, CacheAssumption DEF PromiseAfter, Nobody, Settled
  <2>. QED
    BY <1>2, <1>8, <2>1, AliveOver DEF Released
<1>. QED
  BY <1>3, <1>4, <1>5, <1>6, <1>7, <1>8

LEMMA AliveStep == Base /\ PromiseIsAlive /\ [Next]_vars => PromiseIsAlive'
<1> SUFFICES ASSUME Base, PromiseIsAlive, [Next]_vars
             PROVE  PromiseIsAlive'
  OBVIOUS
<1>1. CASE UNCHANGED <<lockMap, call>>
  BY <1>1 DEF PromiseIsAlive
<1>2. ASSUME NEW c \in Calls, Ask(c)
      PROVE  PromiseIsAlive'
  <2>1. /\ UNCHANGED lockMap
        /\ call[c].at \notin Working
        /\ \E at \in {"read", "write", "list", "first"} : \E S, seen :
              call' = [call EXCEPT ![c] = Row(at, S, seen)]
    BY <1>2 DEF Ask, Get, Set, GetOrSet, Invalidate, Send, Working
  <2>. QED
    BY <2>1, AlivePut DEF Row
<1>3. ASSUME NEW c \in Calls,
             GetReply(c) \/ SetReply(c) \/ InvalidateReply(c) \/ Purged(c) \/ FoundEarly(c)
      PROVE  PromiseIsAlive'
  <2>1. /\ UNCHANGED lockMap /\ call[c].at \notin Working
        /\ Finish(c) \/ call' = [call EXCEPT ![c] = Row("purge", call[c].keys, Unseen)]
    BY <1>3 DEF GetReply, SetReply, InvalidateReply, Purged, FoundEarly, Reply, SendNext, Working
  <2>. QED
    BY <2>1, AlivePut, IdleSound DEF Finish, Row
<1>4. CASE Tick
  <2>1. /\ UNCHANGED lockMap
        /\ \A d \in Calls : /\ call'[d].at = call[d].at
                            /\ call'[d].keys = call[d].keys
                            /\ call'[d].on = call[d].on
    BY <1>4 DEF Tick, Waited
  <2>2. \A d \in Calls : call[d].at = "joined" => call[d].on \in Calls
    BY DEF Base, CallsSound, Sound
  <2>. QED
    BY <2>1, <2>2 DEF PromiseIsAlive
<1>5. ASSUME NEW p \in Instances, Pipeline(p)
      PROVE  PromiseIsAlive'
  <2>1. UNCHANGED lockMap
    BY <1>5 DEF Pipeline, PipeGet, PipeSet, PipeAdd, PipeDel, PipeDelTag
  <2>2. \A d \in Calls : call[d].at = "joined" => call[d].on \in Calls
    BY DEF Base, CallsSound, Sound
  <2>. QED
    BY <1>5, <2>1, <2>2, PipelineRows DEF PromiseIsAlive
<1>. QED
  BY <1>1, <1>2, <1>3, <1>4, <1>5, AliveGetOrSet
     DEF Next, Step, Delete, MSet, DropAndStart, Expire, Evict, vars

\* Nobody waits for the promise of a call that is over.
THEOREM PromiseIsAliveAlways == Spec => []PromiseIsAlive
<1>1. Init => PromiseIsAlive
  BY IdleSound, CacheAssumption DEF Init, PromiseIsAlive, Nobody
<1>. QED
  BY BaseInit, BaseStep, AliveStep, <1>1, PTL DEF Spec
-----------------------------------------------------------------------------
(* The tag.                                                                *)

\* A value that nothing more is to be done for.
Settles(k) == store[k] # 0 /\ k \notin loose /\ \A p \in Instances : k \notin pipe[p].add

\* An invalidation under way has listed every such value, and will delete it
\* before the tag.
TrackedOK ==
    /\ TaggedKeysAreTracked
    /\ \A d \in Calls : call[d].at = "list" /\ call[d].keys # {} =>
          \A k \in Tagged : Settles(k) => k \in call[d].keys
    /\ \A p \in Instances : pipe[p].op = "purge" =>
          \A k \in Tagged : Settles(k) => k \in pipe[p].todo

\* No call comes to wait for the reply of such a command.
Kept(at) ==
    \A d \in Calls : call'[d].at = at =>
        /\ call[d].at = at
        /\ call'[d].keys = call[d].keys
        /\ \A k \in Keys : call'[d].seen[k].ver = call[d].seen[k].ver

LEMMA KeptPut ==
    ASSUME Base, NEW at \in {"list", "write"}, NEW c \in Calls, NEW r, r.at # at,
           call' = [call EXCEPT ![c] = r]
    PROVE  Kept(at)
BY DEF Base, CallsSound, Kept

LEMMA KeptEnd ==
    ASSUME Base, NEW at \in {"list", "write"}, NEW c \in Calls, EndWork(c)
    PROVE  Kept(at)
BY IdleSound DEF EndWork, Kept

LEMMA KeptFinally ==
    ASSUME Base, NEW at \in {"list", "write"}, NEW c \in Calls, NEW rest, NEW promises,
           Finally(c, rest, promises)
    PROVE  Kept(at)
<1>1. CASE MustRelease(c)
  <2>1. PICK b \in BOOLEAN : call' = [call EXCEPT ![c] = Onward(c, "release", Unseen, ~b)]
    BY <1>1 DEF Finally
  <2>2. Onward(c, "release", Unseen, ~b).at = "release"
    BY OnwardRow
  <2>. QED
    BY <2>1, <2>2, KeptPut
<1>2. CASE ~MustRelease(c)
  BY <1>2, KeptEnd DEF Finally
<1>. QED
  BY <1>1, <1>2

\* The handling of a reply sends neither command.
LEMMA KeptStep ==
    ASSUME Base, NEW at \in {"list", "write"}, NEW c \in Calls, Step(c)
    PROVE  Kept(at)
<1>1. CASE \/ GetReply(c) \/ SetReply(c) \/ InvalidateReply(c) \/ Purged(c) \/ FoundEarly(c)
           \/ AskLock(c)
           \/ Poll(c) \/ Sleep(c) \/ AskAgain(c) \/ Fetch(c) \/ Store(c)
  <2>1. \E r : call' = [call EXCEPT ![c] = r] /\ r.at # at
    BY <1>1, IdleSound
       DEF GetReply, SetReply, InvalidateReply, Purged, FoundEarly, AskLock, Poll, Sleep,
           AskAgain, Fetch, Store, Send, SendNext, Finish, Row, Asking, Onward
  <2>. QED
    BY <2>1, KeptPut
<1>2. CASE Join(c)
  <2>1. PICK k \in Keys : call[c].keys = {k}
    BY <1>2, OneKey DEF Base, Join, Reply
  <2>. QED
    BY <1>2, <2>1, JoinPut, KeptPut, IdleSound DEF Joining
<1>3. CASE Begin(c)
  <2>1. CASE SendNext(c, Onward(c, "recheck", Fetched({Key(c)}), call[c].locked))
    <3>1. Onward(c, "recheck", Fetched({Key(c)}), call[c].locked).at # at
      BY DEF Onward
    <3>. QED
      BY <2>1, <3>1, KeptPut DEF SendNext
  <2>. QED
    BY <1>3, <2>1, KeptFinally DEF Begin
<1>4. CASE FoundInWork(c) \/ Stored(c) \/ FetchFails(c)
  BY <1>4, KeptFinally DEF FoundInWork, Stored, FetchFails
<1>5. CASE Released(c)
  BY <1>5, KeptEnd DEF Released
<1>. QED
  BY <1>1, <1>2, <1>3, <1>4, <1>5 DEF Step

\* The invalidations that wait for their list are those that did.
ListsKept ==
    \A d \in Calls : call'[d].at = "list" => call[d].at = "list" /\ call'[d].keys = call[d].keys

\* Values that leave the store leave nothing behind.
LEMMA TrackedKept ==
    ASSUME TrackedOK, ListsKept, UNCHANGED members,
           \A k \in Keys : store'[k] # 0 /\ k \notin loose' => store[k] # 0 /\ k \notin loose,
           \A p \in Instances : pipe'[p].add = pipe[p].add,
           \A p \in Instances : pipe'[p].op = "purge" =>
               pipe[p].op = "purge" /\ pipe'[p].todo = pipe[p].todo
    PROVE  TrackedOK'
<1>1. Tagged \subseteq Keys
  BY CacheAssumption
<1>2. \A k \in Tagged : Settles(k)' => Settles(k)
  BY <1>1 DEF Settles
<1>3. TaggedKeysAreTracked'
  BY <1>1 DEF TrackedOK, TaggedKeysAreTracked
<1>. QED
  BY <1>2, <1>3 DEF TrackedOK, ListsKept

LEMMA StartRows ==
    ASSUME Base, NEW p \in Instances, Free(p), NEW op, NEW S, NEW c, Start(p, op, S, c)
    PROVE  /\ pipe'[p].op = op /\ pipe'[p].todo = S /\ pipe'[p].by = c
           /\ \A q \in Instances \ {p} : pipe'[q] = pipe[q]
           /\ \A q \in Instances : pipe'[q].add = pipe[q].add
BY DEF Base, PipeTypes, Free, Start

LEMMA TrackedStart ==
    ASSUME Base, TrackedOK, ListsKept, UNCHANGED <<store, members, loose>>,
           NEW p \in Instances, Free(p), NEW op \in {"get", "set", "del"}, NEW S, NEW c,
           Start(p, op, S, c)
    PROVE  TrackedOK'
<1>1. /\ pipe'[p].op = op
      /\ \A q \in Instances \ {p} : pipe'[q] = pipe[q]
      /\ \A q \in Instances : pipe'[q].add = pipe[q].add
  BY StartRows
<1>2. \A q \in Instances : pipe'[q].op = "purge" =>
          pipe[q].op = "purge" /\ pipe'[q].todo = pipe[q].todo
  BY <1>1
<1>. QED
  BY <1>1, <1>2, TrackedKept

LEMMA TrackedAsk ==
    ASSUME Base, TrackedOK, NEW c \in Calls, Ask(c)
    PROVE  TrackedOK'
<1>1. UNCHANGED <<store, members, loose>> /\ Pod[c] \in Instances
  BY CacheAssumption DEF Ask, Get, Set, GetOrSet, Invalidate
<1>2. CASE Invalidate(c)
  <2>1. \A d \in Calls : IF d = c THEN call'[d].keys = members ELSE call'[d] = call[d]
    BY <1>2 DEF Invalidate, Send, Base, CallsSound, Row
  <2>2. UNCHANGED pipe
    BY <1>2 DEF Invalidate
  <2>. QED
    BY <1>1, <2>1, <2>2 DEF TrackedOK, TaggedKeysAreTracked, Settles
<1>3. CASE ~Invalidate(c)
  <2>1. \E r : call' = [call EXCEPT ![c] = r] /\ r.at # "list"
    BY <1>3 DEF Ask, Get, Set, GetOrSet, Send, Row
  <2>2. ListsKept
    BY <2>1, KeptPut DEF Kept, ListsKept
  <2>3. \/ UNCHANGED pipe
        \/ \E op \in {"get", "set"} : \E S : Free(Pod[c]) /\ Start(Pod[c], op, S, c)
    BY <1>3 DEF Ask, Get, Set, GetOrSet, Send
  <2>. QED
    BY <1>1, <2>2, <2>3, TrackedKept, TrackedStart
<1>. QED
  BY <1>2, <1>3

LEMMA TrackedCall ==
    ASSUME Base, TrackedOK, NEW c \in Calls, Step(c)
    PROVE  TrackedOK'
<1>1. ListsKept
  BY KeptStep DEF Kept, ListsKept
<1>2. UNCHANGED <<store, members, loose>> /\ Pod[c] \in Instances
  BY CacheAssumption
     DEF Step, GetReply, SetReply, InvalidateReply, Purged, FoundEarly, Join, AskLock, Poll,
         Sleep, AskAgain, Begin, Fetch, Store, FoundInWork, Stored, FetchFails, Released
<1>3. CASE InvalidateReply(c) /\ call[c].keys # {}
  <2>1. Free(Pod[c]) /\ Start(Pod[c], "purge", call[c].keys, c) /\ call[c].at = "list"
    BY <1>3 DEF InvalidateReply, Reply, SendNext
  <2>2. /\ pipe'[Pod[c]].todo = call[c].keys
        /\ \A q \in Instances \ {Pod[c]} : pipe'[q] = pipe[q]
        /\ \A q \in Instances : pipe'[q].add = pipe[q].add
    BY <1>2, <2>1, StartRows
  <2>3. \A k \in Tagged : Settles(k)' <=> Settles(k)
    BY <1>2, <2>2 DEF Settles
  <2>4. TaggedKeysAreTracked'
    BY <1>2, <2>2 DEF TrackedOK, TaggedKeysAreTracked
  <2>. QED
    BY <1>1, <1>3, <2>1, <2>2, <2>3, <2>4 DEF TrackedOK, ListsKept
<1>4. CASE Store(c)
  <2>1. Free(Pod[c]) /\ Start(Pod[c], "set", {Key(c)}, c)
    BY <1>4 DEF Store, Send
  <2>. QED
    BY <1>1, <1>2, <2>1, TrackedStart
<1>5. CASE ~(InvalidateReply(c) /\ call[c].keys # {}) /\ ~Store(c)
  <2>1. UNCHANGED pipe
    BY <1>5
       DEF Step, GetReply, SetReply, InvalidateReply, Purged, FoundEarly, Join, AskLock, Poll,
           Sleep, AskAgain, Begin, Fetch, FoundInWork, Stored, FetchFails, Released
  <2>. QED
    BY <1>1, <1>2, <2>1, TrackedKept
<1>. QED
  BY <1>3, <1>4, <1>5

\* A key is registered after it was stored and before anybody deletes the tag,
\* or is known to be loose.
LEMMA TrackedPipeline ==
    ASSUME Base, TrackedOK, NEW p \in Instances, Pipeline(p)
    PROVE  TrackedOK'
<1>0. ListsKept
  BY PipelineRows DEF ListsKept
<1>1. /\ pipe \in [Instances -> PipeRow] /\ store \in [Keys -> Nat] /\ Tagged \subseteq Keys
      /\ pipe[p].op # "set" => pipe[p].add = {}
  BY CacheAssumption DEF Base, PipeTypes, StoreOK
<1>2. \A q \in Instances \ {p} : pipe'[q] = pipe[q]
  BY <1>1 DEF Pipeline, PipeGet, PipeSet, PipeAdd, PipeDel, PipeDelTag, Goes
<1>3. ASSUME NEW k \in Keys, PipeGet(p, k)
      PROVE  TrackedOK'
  <2>1. pipe'[p].add = {} /\ pipe'[p].op # "purge" /\ pipe[p].add = {}
    BY <1>1, <1>3 DEF PipeGet, Goes, NoPipe, PipeRow
  <2>2. UNCHANGED <<store, members, loose>>
    BY <1>3 DEF PipeGet
  <2>. QED
    BY <1>0, <1>2, <2>1, <2>2, TrackedKept
<1>4. ASSUME NEW k \in Keys, PipeSet(p, k)
      PROVE  TrackedOK'
  <2>1. /\ pipe[p].add = {} /\ pipe'[p].op # "purge"
        /\ pipe'[p].add = {k} \cap Tagged
    BY <1>1, <1>4 DEF PipeSet, Goes, Over, NoPipe, PipeRow
  <2>2. /\ UNCHANGED members /\ loose' = loose \ {k}
        /\ \A j \in Keys \ {k} : store'[j] = store[j]
    BY <1>1, <1>4 DEF PipeSet
  <2>3. \A j \in Tagged : Settles(j)' => Settles(j)
    BY <1>1, <1>2, <2>1, <2>2 DEF Settles
  <2>4. TaggedKeysAreTracked'
    BY <1>1, <1>2, <2>1, <2>2 DEF TrackedOK, TaggedKeysAreTracked
  <2>. QED
    BY <1>0, <1>2, <2>1, <2>3, <2>4 DEF TrackedOK, ListsKept
<1>5. ASSUME NEW k \in Keys, PipeAdd(p, k)
      PROVE  TrackedOK'
  <2>1. pipe[p].op = "set" /\ pipe'[p].op # "purge" /\ pipe'[p].add = pipe[p].add \ {k}
    BY <1>1, <1>5 DEF PipeAdd, Goes, Over, NoPipe, PipeRow
  <2>2. /\ UNCHANGED store /\ members' = members \cup {k}
        /\ loose' = IF Missed(k) /\ store[k] # 0 THEN loose \cup {k} ELSE loose \ {k}
    BY <1>5 DEF PipeAdd, Registered
  <2>3. \A j \in Tagged \ {k} : Settles(j)' => Settles(j)
    BY <1>2, <2>1, <2>2 DEF Settles
  <2>4. Settles(k)' => ~Missed(k)
    BY <2>2 DEF Settles
  <2>5. TaggedKeysAreTracked'
    BY <1>1, <1>2, <2>1, <2>2 DEF TrackedOK, TaggedKeysAreTracked
  <2>. QED
    BY <1>0, <1>2, <2>1, <2>3, <2>4, <2>5 DEF TrackedOK, ListsKept, Missed
<1>6. ASSUME NEW k \in Keys, PipeDel(p, k)
      PROVE  TrackedOK'
  <2>1. /\ pipe[p].add = {} /\ pipe'[p].add = {}
        /\ pipe'[p].op = "purge" => pipe[p].op = "purge" /\ pipe'[p].todo = pipe[p].todo \ {k}
    BY <1>1, <1>6 DEF PipeDel, Goes, NoPipe, PipeRow
  <2>2. /\ UNCHANGED members /\ loose' = loose \ {k} /\ store'[k] = 0
        /\ \A j \in Keys \ {k} : store'[j] = store[j]
    BY <1>1, <1>6 DEF PipeDel
  <2>3. \A j \in Tagged : Settles(j)' => Settles(j) /\ j # k
    BY <1>1, <1>2, <2>1, <2>2 DEF Settles
  <2>4. TaggedKeysAreTracked'
    BY <1>1, <1>2, <2>1, <2>2 DEF TrackedOK, TaggedKeysAreTracked
  <2>. QED
    BY <1>0, <1>2, <2>1, <2>3, <2>4 DEF TrackedOK, ListsKept
<1>7. CASE PipeDelTag(p)
  <2>1. /\ pipe[p].op = "purge" /\ pipe[p].todo = {} /\ pipe[p].add = {}
        /\ pipe'[p] = NoPipe /\ UNCHANGED <<store, loose>>
    BY <1>1, <1>7 DEF PipeDelTag
  <2>2. \A q \in Instances : pipe'[q].add = pipe[q].add
    BY <1>2, <2>1 DEF NoPipe
  <2>3. \A j \in Tagged : ~Settles(j)
    BY <2>1 DEF TrackedOK
  <2>4. \A j \in Tagged : ~Settles(j)'
    BY <2>1, <2>2, <2>3 DEF Settles
  <2>5. TaggedKeysAreTracked'
    BY <2>4 DEF TaggedKeysAreTracked, Settles
  <2>. QED
    BY <2>4, <2>5 DEF TrackedOK
<1>. QED
  BY <1>3, <1>4, <1>5, <1>6, <1>7 DEF Pipeline

LEMMA TrackedStep == Base /\ TrackedOK /\ [Next]_vars => TrackedOK'
<1> SUFFICES ASSUME Base, TrackedOK, [Next]_vars
             PROVE  TrackedOK'
  OBVIOUS
<1>1. CASE UNCHANGED <<store, members, loose, pipe, call>>
  BY <1>1, TrackedKept DEF ListsKept
<1>2. ASSUME NEW p \in Instances, NEW S \in Batches[p], MSet(p, S) \/ Delete(p, S)
      PROVE  TrackedOK'
  BY <1>2, TrackedStart DEF MSet, Delete, DropAndStart, ListsKept
<1>3. ASSUME NEW k \in Keys, Expire(k)
      PROVE  TrackedOK'
  <2>1. UNCHANGED <<members, pipe, call>> /\ loose' = loose \ {k}
        /\ store' = [store EXCEPT ![k] = 0]
    BY <1>3 DEF Expire
  <2>. QED
    BY <2>1, TrackedKept DEF ListsKept, Base, StoreOK
<1>4. CASE Tick
  BY <1>4, TrackedKept DEF Tick, Waited, ListsKept
<1>. QED
  BY <1>1, <1>2, <1>3, <1>4, TrackedAsk, TrackedCall, TrackedPipeline DEF Next, Evict, vars

\* Every value stored with the tag is registered under it, unless it was stored
\* behind the back of an invalidation.
THEOREM TaggedKeysAreTrackedAlways == Spec => []TaggedKeysAreTracked
<1>1. Init => TrackedOK
  BY IdleSound, CacheAssumption DEF Init, TrackedOK, TaggedKeysAreTracked, Settles
<1>2. TrackedOK => TaggedKeysAreTracked
  BY DEF TrackedOK
<1>. QED
  BY BaseInit, BaseStep, TrackedStep, <1>1, <1>2, PTL DEF Spec
-----------------------------------------------------------------------------
(* The order of the replies.                                               *)

\* A read that was sent after a write brings no older value than the write's.
Behind(w, r) ==
    w.at = "write" /\ r.at \in Filling =>
        \A k \in Keys : r.seen[k].ver # 0 => r.seen[k].ver >= w.seen[k].ver

\* The calls of an instance wait for one reply each, in the order of their
\* commands.
Ordered(q, p, rows) ==
    /\ \A i \in 1 .. Len(q) : Pod[q[i]] = p /\ rows[q[i]].at \in Awaiting
    /\ \A i, j \in 1 .. Len(q) : q[i] = q[j] => i = j
    /\ \A i, j \in 1 .. Len(q) : i < j => Behind(rows[q[i]], rows[q[j]])

\* What a reply may bring to L1 is no older than what the instance has set.
Fresh(r, least) ==
    r.at \in Filling => \A k \in Keys : r.seen[k].ver # 0 => r.seen[k].ver >= least[k]

\* Versions only grow.
VersionsOK ==
    /\ \A p \in Instances, k \in Keys :
          floor[p][k] <= writes /\ (store[k] # 0 => floor[p][k] <= store[k])
    /\ \A c \in Calls : call[c].at = "write" =>
          \A k \in Keys : /\ k \notin call[c].keys => call[c].seen[k].ver = 0
                          /\ call[c].seen[k].ver <= writes
                          /\ store[k] # 0 => call[c].seen[k].ver <= store[k]

QueuesOK ==
    \A p \in Instances :
        /\ Ordered(replies[p], p, call)
        /\ \A i \in 1 .. Len(replies[p]) : Fresh(call[replies[p][i]], floor[p])

Alike(r, s) == r.at = s.at /\ \A k \in Keys : r.seen[k].ver = s.seen[k].ver

LEMMA OrderedAlike ==
    ASSUME NEW q \in Seq(Calls), NEW p, NEW rows, NEW next, Ordered(q, p, rows),
           \A i \in 1 .. Len(q) : Alike(rows[q[i]], next[q[i]])
    PROVE  Ordered(q, p, next)
BY DEF Ordered, Alike, Behind

LEMMA OrderedTail ==
    ASSUME NEW q \in Seq(Calls), q # << >>, NEW p, NEW rows, Ordered(q, p, rows)
    PROVE  /\ Tail(q) \in Seq(Calls)
           /\ Len(Tail(q)) = Len(q) - 1
           /\ \A i \in 1 .. Len(Tail(q)) : Tail(q)[i] = q[i + 1] /\ q[i + 1] # Head(q)
           /\ Ordered(Tail(q), p, rows)
<1>1. /\ Tail(q) \in Seq(Calls)
      /\ Len(q) \in Nat \ {0}
      /\ Len(Tail(q)) = Len(q) - 1
      /\ \A i \in 1 .. Len(Tail(q)) : Tail(q)[i] = q[i + 1]
      /\ Head(q) = q[1]
  OBVIOUS
<1>2. \A i \in 1 .. Len(Tail(q)) : i + 1 \in 1 .. Len(q) /\ i + 1 # 1 /\ 1 \in 1 .. Len(q)
  BY <1>1
<1>3. \A i \in 1 .. Len(Tail(q)) : q[i + 1] # Head(q)
  BY <1>1, <1>2 DEF Ordered
<1>4. Ordered(Tail(q), p, rows)
  <2>1. \A i \in 1 .. Len(Tail(q)) : Pod[Tail(q)[i]] = p /\ rows[Tail(q)[i]].at \in Awaiting
    BY <1>1, <1>2 DEF Ordered
  <2>2. ASSUME NEW i \in 1 .. Len(Tail(q)), NEW j \in 1 .. Len(Tail(q))
        PROVE  /\ Tail(q)[i] = Tail(q)[j] => i = j
               /\ i < j => Behind(rows[Tail(q)[i]], rows[Tail(q)[j]])
    <3>1. i + 1 \in 1 .. Len(q) /\ j + 1 \in 1 .. Len(q)
      BY <1>2
    <3>2. Tail(q)[i] = q[i + 1] /\ Tail(q)[j] = q[j + 1]
      BY <1>1
    <3>3. (q[i + 1] = q[j + 1] => i + 1 = j + 1)
          /\ (i + 1 < j + 1 => Behind(rows[q[i + 1]], rows[q[j + 1]]))
      BY <3>1 DEF Ordered
    <3>. QED
      BY <3>2, <3>3
  <2>. QED
    BY <2>1, <2>2 DEF Ordered
<1>. QED
  BY <1>1, <1>3, <1>4

LEMMA OrderedAppend ==
    ASSUME NEW q \in Seq(Calls), NEW p, NEW rows, Ordered(q, p, rows), NEW c \in Calls,
           Pod[c] = p, rows[c].at \in Awaiting,
           \A i \in 1 .. Len(q) : q[i] # c /\ Behind(rows[q[i]], rows[c])
    PROVE  Ordered(Append(q, c), p, rows)
<1>1. /\ Len(q) \in Nat
      /\ Len(Append(q, c)) = Len(q) + 1
      /\ \A i \in 1 .. Len(q) : Append(q, c)[i] = q[i]
      /\ Append(q, c)[Len(q) + 1] = c
  OBVIOUS
<1>2. \A i \in 1 .. Len(q) + 1 : i \in 1 .. Len(q) \/ i = Len(q) + 1
  BY <1>1
<1>3. \A i \in 1 .. Len(Append(q, c)) :
          Pod[Append(q, c)[i]] = p /\ rows[Append(q, c)[i]].at \in Awaiting
  BY <1>1, <1>2 DEF Ordered
<1>4. ASSUME NEW i \in 1 .. Len(Append(q, c)), NEW j \in 1 .. Len(Append(q, c))
      PROVE  /\ Append(q, c)[i] = Append(q, c)[j] => i = j
             /\ i < j => Behind(rows[Append(q, c)[i]], rows[Append(q, c)[j]])
  <2>1. CASE i \in 1 .. Len(q) /\ j \in 1 .. Len(q)
    BY <1>1, <2>1 DEF Ordered
  <2>2. CASE i \in 1 .. Len(q) /\ j = Len(q) + 1
    BY <1>1, <2>2
  <2>3. CASE i = Len(q) + 1 /\ j \in 1 .. Len(q)
    <3>1. ~(i < j)
      BY <1>1, <2>3
    <3>. QED
      BY <1>1, <2>3, <3>1
  <2>4. CASE i = Len(q) + 1 /\ j = Len(q) + 1
    BY <1>1, <2>4
  <2>. QED
    BY <1>1, <1>2, <2>1, <2>2, <2>3, <2>4
<1>. QED
  BY <1>3, <1>4 DEF Ordered
\* What the store had when the command was sent.
Recent(r) == r.at \in Filling => \A k \in Keys : r.seen[k].ver \in {0, store[k]}

LEMMA RecentIsFresh ==
    ASSUME Base, VersionsOK, NEW r, Recent(r)
    PROVE  /\ \A d \in Calls : Behind(call[d], r)
           /\ \A p \in Instances : Fresh(r, floor[p])
<1>1. \A k \in Keys : store[k] \in Nat
  BY CacheAssumption DEF Base, StoreOK
<1>. QED
  BY <1>1 DEF VersionsOK, Recent, Behind, Fresh

LEMMA FetchedRecent ==
    ASSUME NEW S, NEW k \in Keys
    PROVE  Fetched(S)[k].ver \in {0, store[k]}
BY DEF Fetched

\* One call leaves the head of its queue, or joins the end of it, or both.
LEMMA QueueStep ==
    ASSUME Base, QueuesOK, NEW c \in Calls, NEW rest \in Seq(Calls),
           Ordered(rest, Pod[c], call),
           \A i \in 1 .. Len(rest) : rest[i] # c /\ Fresh(call[rest[i]], floor'[Pod[c]]),
           \A d \in Calls \ {c} : call[d].at \in Awaiting => call'[d] = call[d],
           \A p \in Instances \ {Pod[c]} : replies'[p] = replies[p] /\ floor'[p] = floor[p],
           \/ replies'[Pod[c]] = rest
           \/ /\ replies'[Pod[c]] = Append(rest, c)
              /\ call'[c].at \in Awaiting
              /\ Fresh(call'[c], floor'[Pod[c]])
              /\ \A d \in Calls : Behind(call[d], call'[c])
    PROVE  QueuesOK'
<1>1. ASSUME NEW p \in Instances \ {Pod[c]}
      PROVE  /\ Ordered(replies'[p], p, call')
             /\ \A i \in 1 .. Len(replies'[p]) : Fresh(call'[replies'[p][i]], floor'[p])
  <2>1. replies[p] \in Seq(Calls) /\ Ordered(replies[p], p, call) /\ replies'[p] = replies[p]
    BY DEF Base, RepliesOK, QueuesOK
  <2>2. \A i \in 1 .. Len(replies[p]) : call'[replies[p][i]] = call[replies[p][i]]
    <3>1. ASSUME NEW i \in 1 .. Len(replies[p])
          PROVE  call'[replies[p][i]] = call[replies[p][i]]
      <4>1. replies[p][i] \in Calls
        BY <2>1
      <4>2. Pod[replies[p][i]] = p /\ call[replies[p][i]].at \in Awaiting
        BY <2>1 DEF Ordered
      <4>. QED
        BY <4>1, <4>2
    <3>. QED
      BY <3>1
  <2>3. Ordered(replies[p], p, call')
    BY <2>1, <2>2, OrderedAlike DEF Alike
  <2>4. \A i \in 1 .. Len(replies[p]) : Fresh(call'[replies[p][i]], floor'[p])
    BY <2>2 DEF QueuesOK
  <2>. QED
    BY <2>1, <2>3, <2>4
<1>2. /\ Ordered(replies'[Pod[c]], Pod[c], call')
      /\ \A i \in 1 .. Len(replies'[Pod[c]]) :
            Fresh(call'[replies'[Pod[c]][i]], floor'[Pod[c]])
  <2>1. \A i \in 1 .. Len(rest) : call'[rest[i]] = call[rest[i]]
    BY DEF Ordered
  <2>2. Ordered(rest, Pod[c], call')
    BY <2>1, OrderedAlike DEF Alike
  <2>3. CASE replies'[Pod[c]] = rest
    BY <2>1, <2>2, <2>3
  <2>4. CASE /\ replies'[Pod[c]] = Append(rest, c)
             /\ call'[c].at \in Awaiting
             /\ Fresh(call'[c], floor'[Pod[c]])
             /\ \A d \in Calls : Behind(call[d], call'[c])
    <3>1. \A i \in 1 .. Len(rest) : rest[i] # c /\ Behind(call'[rest[i]], call'[c])
      BY <2>1, <2>4
    <3>2. Ordered(Append(rest, c), Pod[c], call')
      BY <2>2, <2>4, <3>1, OrderedAppend
    <3>3. \A i \in 1 .. Len(Append(rest, c)) : i \in 1 .. Len(rest) \/ i = Len(rest) + 1
      OBVIOUS
    <3>4. /\ \A i \in 1 .. Len(rest) : Append(rest, c)[i] = rest[i]
          /\ Append(rest, c)[Len(rest) + 1] = c
      OBVIOUS
    <3>5. \A i \in 1 .. Len(Append(rest, c)) :
              Fresh(call'[Append(rest, c)[i]], floor'[Pod[c]])
      BY <2>1, <2>4, <3>3, <3>4
    <3>. QED
      BY <2>4, <3>2, <3>5
  <2>. QED
    BY <2>3, <2>4
<1>3. Pod[c] \in Instances
  BY CacheAssumption
<1>. QED
  BY <1>1, <1>2, <1>3 DEF QueuesOK

\* What is left of a queue when its first reply is handled.
LEMMA RestOrdered ==
    ASSUME Base, QueuesOK, NEW c \in Calls, NEW at, Reply(c, at)
    PROVE  /\ Rest(c) \in Seq(Calls)
           /\ Ordered(Rest(c), Pod[c], call)
           /\ \A i \in 1 .. Len(Rest(c)) : /\ Rest(c)[i] # c
                                           /\ Fresh(call[Rest(c)[i]], floor[Pod[c]])
                                           /\ Behind(call[c], call[Rest(c)[i]])
<1> DEFINE q == replies[Pod[c]]
<1>1. q \in Seq(Calls) /\ q # << >> /\ Head(q) = c /\ Ordered(q, Pod[c], call)
      /\ \A i \in 1 .. Len(q) : Fresh(call[q[i]], floor[Pod[c]])
  BY CacheAssumption DEF Reply, Base, RepliesOK, QueuesOK
<1> HIDE DEF q
<1>2. \A i \in 1 .. Len(Tail(q)) : i + 1 \in 1 .. Len(q) /\ 1 \in 1 .. Len(q) /\ 1 < i + 1
  BY <1>1
<1>3. q[1] = c
  BY <1>1
<1>4. \A i \in 1 .. Len(Tail(q)) :
          Behind(call[c], call[q[i + 1]]) /\ Fresh(call[q[i + 1]], floor[Pod[c]])
  BY <1>1, <1>2, <1>3 DEF Ordered
<1>5. Rest(c) = Tail(q)
  BY DEF Rest, q
<1>. QED
  BY <1>1, <1>4, <1>5, OrderedTail

\* A call that waits for no reply is in no queue.
LEMMA AllOrdered ==
    ASSUME Base, QueuesOK, NEW c \in Calls, call[c].at \notin Awaiting
    PROVE  /\ replies[Pod[c]] \in Seq(Calls)
           /\ Ordered(replies[Pod[c]], Pod[c], call)
           /\ \A i \in 1 .. Len(replies[Pod[c]]) : /\ replies[Pod[c]][i] # c
                                                   /\ Fresh(call[replies[Pod[c]][i]], floor[Pod[c]])
BY CacheAssumption DEF Base, RepliesOK, QueuesOK, Ordered

LEMMA OthersPut ==
    ASSUME Base, NEW c \in Calls, NEW r, call' = [call EXCEPT ![c] = r]
    PROVE  /\ call'[c] = r
           /\ \A d \in Calls \ {c} : call[d].at \in Awaiting => call'[d] = call[d]
BY DEF Base, CallsSound

LEMMA OthersEnd ==
    ASSUME Base, NEW c \in Calls, EndWork(c)
    PROVE  \A d \in Calls \ {c} : call[d].at \in Awaiting => call'[d] = call[d]
<1>1. \A d \in Calls : call[d].at \in Awaiting => call[d].on \notin Calls
  BY DEF Base, CallsSound, Sound, Awaiting
<1>. QED
  BY <1>1 DEF EndWork

LEMMA OthersReplies ==
    ASSUME Base, NEW c \in Calls, NEW q, replies' = [replies EXCEPT ![Pod[c]] = q]
    PROVE  replies'[Pod[c]] = q /\ \A p \in Instances \ {Pod[c]} : replies'[p] = replies[p]
BY CacheAssumption DEF Base, RepliesOK

LEMMA QueueSend ==
    ASSUME Base, QueuesOK, VersionsOK, UNCHANGED floor, NEW c \in Calls,
           call[c].at \notin Awaiting, NEW r, r.at \in Awaiting, Recent(r), Send(c, r)
    PROVE  QueuesOK'
<1>1. call'[c] = r /\ \A d \in Calls \ {c} : call[d].at \in Awaiting => call'[d] = call[d]
  BY OthersPut DEF Send
<1>2. /\ replies'[Pod[c]] = Append(replies[Pod[c]], c)
      /\ \A p \in Instances \ {Pod[c]} : replies'[p] = replies[p]
  BY OthersReplies DEF Send
<1>3. Fresh(r, floor[Pod[c]]) /\ \A d \in Calls : Behind(call[d], r)
  BY RecentIsFresh, CacheAssumption
<1>. QED
  BY <1>1, <1>2, <1>3, AllOrdered, QueueStep

LEMMA QueueSendNext ==
    ASSUME Base, QueuesOK, VersionsOK, UNCHANGED floor, NEW c \in Calls, NEW at, Reply(c, at),
           NEW r, r.at \in Awaiting, Recent(r), SendNext(c, r)
    PROVE  QueuesOK'
<1>1. call'[c] = r /\ \A d \in Calls \ {c} : call[d].at \in Awaiting => call'[d] = call[d]
  BY OthersPut DEF SendNext
<1>2. /\ replies'[Pod[c]] = Append(Rest(c), c)
      /\ \A p \in Instances \ {Pod[c]} : replies'[p] = replies[p]
  BY OthersReplies DEF SendNext, Rest
<1>3. Fresh(r, floor[Pod[c]]) /\ \A d \in Calls : Behind(call[d], r)
  BY RecentIsFresh, CacheAssumption
<1>. QED
  BY <1>1, <1>2, <1>3, RestOrdered, QueueStep

LEMMA QueueHandled ==
    ASSUME Base, QueuesOK, UNCHANGED floor, NEW c \in Calls, NEW at, Reply(c, at), Handled(c),
           \A d \in Calls \ {c} : call[d].at \in Awaiting => call'[d] = call[d]
    PROVE  QueuesOK'
<1>1. /\ replies'[Pod[c]] = Rest(c)
      /\ \A p \in Instances \ {Pod[c]} : replies'[p] = replies[p]
  BY OthersReplies DEF Handled, Rest
<1>. QED
  BY <1>1, RestOrdered, QueueStep

LEMMA QueueFinally ==
    ASSUME Base, QueuesOK, VersionsOK, UNCHANGED floor, NEW c \in Calls,
           NEW rest \in Seq(Calls), Ordered(rest, Pod[c], call),
           \A i \in 1 .. Len(rest) : rest[i] # c /\ Fresh(call[rest[i]], floor[Pod[c]]),
           NEW promises, Finally(c, rest, promises)
    PROVE  QueuesOK'
<1>1. CASE MustRelease(c)
  <2>1. PICK r : call' = [call EXCEPT ![c] = r] /\ r.at = "release"
    <3>1. \A seen, b : Onward(c, "release", seen, b).at = "release"
      BY DEF Onward
    <3>. QED
      BY <1>1, <3>1 DEF Finally
  <2>2. Recent(r) /\ r.at \in Awaiting
    BY <2>1 DEF Recent, Filling, Awaiting
  <2>3. call'[c] = r /\ \A d \in Calls \ {c} : call[d].at \in Awaiting => call'[d] = call[d]
    BY <2>1, OthersPut
  <2>4. /\ replies'[Pod[c]] = Append(rest, c)
        /\ \A p \in Instances \ {Pod[c]} : replies'[p] = replies[p]
    BY <1>1, OthersReplies DEF Finally
  <2>5. Fresh(r, floor[Pod[c]]) /\ \A d \in Calls : Behind(call[d], r)
    BY <2>2, RecentIsFresh, CacheAssumption
  <2>. QED
    BY <2>2, <2>3, <2>4, <2>5, QueueStep
<1>2. CASE ~MustRelease(c)
  <2>1. \A d \in Calls \ {c} : call[d].at \in Awaiting => call'[d] = call[d]
    BY <1>2, OthersEnd DEF Finally
  <2>2. /\ replies'[Pod[c]] = rest
        /\ \A p \in Instances \ {Pod[c]} : replies'[p] = replies[p]
    BY <1>2, OthersReplies DEF Finally
  <2>. QED
    BY <2>1, <2>2, QueueStep
<1>. QED
  BY <1>1, <1>2
-----------------------------------------------------------------------------
(* The pipelines.                                                          *)

\* The call of a pipeline is the last one its instance waits for, and it is
\* about the pipeline's keys.
PipesOK ==
    \A p \in Instances : pipe[p].by \in Calls =>
        LET c == pipe[p].by
        IN  /\ Pod[c] = p
            /\ replies[p] # << >> /\ replies[p][Len(replies[p])] = c
            /\ call[c].at \in {"read", "write", "store", "purge"}
            /\ pipe[p].op = "get" => call[c].at = "read"
            /\ pipe[p].op = "set" => call[c].at \in {"write", "store"}
            /\ call[c].at = "write" => pipe[p].todo \subseteq call[c].keys

\* A queue keeps its last element when another one leaves it.
LEMMA TailLast ==
    ASSUME NEW S, NEW q \in Seq(S), q # << >>, q[Len(q)] # Head(q)
    PROVE  Tail(q) # << >> /\ Tail(q)[Len(Tail(q))] = q[Len(q)]
<1>1. Len(q) \in Nat /\ Len(q) > 1
  OBVIOUS
<1>2. /\ Len(Tail(q)) = Len(q) - 1 /\ Tail(q) \in Seq(S)
      /\ \A i \in 1 .. Len(q) - 1 : Tail(q)[i] = q[i + 1]
  BY <1>1
<1>3. Len(Tail(q)) # 0 /\ Len(<< >>) = 0
  BY <1>1, <1>2
<1>4. Tail(q) # << >>
  BY ONLY <1>3
<1>. QED
  BY <1>1, <1>2, <1>4

\* A call leaves the head of its queue, or sends a command when no pipeline is
\* under way, or sends a pipeline.
LEMMA PipesMove ==
    ASSUME Base, PipesOK, NEW c \in Calls,
           \A q \in Instances \ {Pod[c]} : replies'[q] = replies[q] /\ pipe'[q] = pipe[q],
           \A d \in Calls \ {c} : call[d].at \in Awaiting => call'[d] = call[d],
           \/ pipe'[Pod[c]].by = Nobody
           \/ /\ pipe'[Pod[c]] = pipe[Pod[c]]
              /\ pipe[Pod[c]].by # c
              /\ \/ replies'[Pod[c]] = replies[Pod[c]]
                 \/ /\ replies[Pod[c]] # << >> /\ Head(replies[Pod[c]]) = c
                    /\ replies'[Pod[c]] = Tail(replies[Pod[c]])
           \/ /\ pipe'[Pod[c]].by = c
              /\ \E rest \in Seq(Calls) : replies'[Pod[c]] = Append(rest, c)
              /\ call'[c].at \in {"read", "write", "store", "purge"}
              /\ pipe'[Pod[c]].op = "get" => call'[c].at = "read"
              /\ pipe'[Pod[c]].op = "set" => call'[c].at \in {"write", "store"}
              /\ call'[c].at = "write" => pipe'[Pod[c]].todo \subseteq call'[c].keys
    PROVE  PipesOK'
<1>0. Pod[c] \in Instances
  BY CacheAssumption
<1> SUFFICES ASSUME NEW p \in Instances, NEW d \in Calls, pipe'[p].by = d
             PROVE  /\ Pod[d] = p
                    /\ replies'[p] # << >> /\ replies'[p][Len(replies'[p])] = d
                    /\ call'[d].at \in {"read", "write", "store", "purge"}
                    /\ pipe'[p].op = "get" => call'[d].at = "read"
                    /\ pipe'[p].op = "set" => call'[d].at \in {"write", "store"}
                    /\ call'[d].at = "write" => pipe'[p].todo \subseteq call'[d].keys
  BY DEF PipesOK
<1>1. ASSUME pipe'[p] = pipe[p], d # c
      PROVE  call'[d] = call[d]
  BY <1>1 DEF PipesOK, Awaiting
<1>2. CASE p # Pod[c]
  <2>1. pipe'[p] = pipe[p] /\ replies'[p] = replies[p] /\ d # c
    BY <1>2 DEF PipesOK
  <2>. QED
    BY <1>1, <2>1 DEF PipesOK
<1>3. CASE p = Pod[c] /\ pipe'[p] = pipe[p] /\ d # c
  <2>1. call'[d] = call[d] /\ replies[p] # << >> /\ replies[p][Len(replies[p])] = d
    BY <1>1, <1>3 DEF PipesOK
  <2>2. replies[p] \in Seq(Calls)
    BY DEF Base, RepliesOK
  <2>3. ASSUME replies'[p] = Tail(replies[p]), Head(replies[p]) = c
        PROVE  replies'[p] # << >> /\ replies'[p][Len(replies'[p])] = d
    BY <1>3, <2>1, <2>2, <2>3, TailLast
  <2>4. \/ replies'[p] = replies[p]
        \/ replies'[p] = Tail(replies[p]) /\ Head(replies[p]) = c
    BY <1>3, NobodyIsNoCall
  <2>. QED
    BY <1>3, <2>1, <2>3, <2>4 DEF PipesOK
<1>4. CASE p = Pod[c] /\ d = c
  <2>1. pipe'[Pod[c]].by = c /\ pipe'[p].by # Nobody
    BY <1>4, NobodyIsNoCall
  <2>2. PICK rest \in Seq(Calls) : replies'[p] = Append(rest, c)
    BY <1>4, <2>1
  <2>3. replies'[p] # << >> /\ replies'[p][Len(replies'[p])] = c
    BY <2>2
  <2>. QED
    BY <1>4, <2>1, <2>3
<1>5. p = Pod[c] => pipe'[p] = pipe[p] \/ d = c
  BY NobodyIsNoCall
<1>. QED
  BY <1>2, <1>3, <1>4, <1>5

\* What the steps of a call do to its queue and to its pipeline.
LEMMA PipesHandled ==
    ASSUME Base, PipesOK, NEW c \in Calls, NEW at, Reply(c, at), Handled(c), UNCHANGED pipe,
           \A d \in Calls \ {c} : call[d].at \in Awaiting => call'[d] = call[d]
    PROVE  PipesOK'
BY OthersReplies, PipesMove DEF Reply, Handled

LEMMA FreePipe ==
    ASSUME Base, NEW c \in Calls, Free(Pod[c])
    PROVE  pipe[Pod[c]].by = Nobody
BY CacheAssumption DEF Base, PipeTypes, Free

LEMMA PipesSent ==
    ASSUME Base, PipesOK, NEW c \in Calls, UNCHANGED pipe, NEW r,
           Send(c, r) \/ SendNext(c, r)
    PROVE  PipesOK'
<1>1. /\ Free(Pod[c]) /\ call' = [call EXCEPT ![c] = r]
      /\ \E q : replies' = [replies EXCEPT ![Pod[c]] = q]
  BY DEF Send, SendNext
<1>. QED
  BY <1>1, FreePipe, OthersPut, OthersReplies, PipesMove

LEMMA PipesStarted ==
    ASSUME Base, PipesOK, NEW c \in Calls, NEW r, NEW op, NEW S, Start(Pod[c], op, S, c),
           Send(c, r) \/ (replies[Pod[c]] # << >> /\ SendNext(c, r)),
           r.at \in {"read", "write", "store", "purge"},
           op = "get" => r.at = "read",
           op = "set" => r.at \in {"write", "store"},
           r.at = "write" => S \subseteq r.keys
    PROVE  PipesOK'
<1>1. Pod[c] \in Instances /\ replies[Pod[c]] \in Seq(Calls)
  BY CacheAssumption DEF Base, RepliesOK
<1>2. Free(Pod[c]) /\ call' = [call EXCEPT ![c] = r]
  BY DEF Send, SendNext
<1>3. PICK rest \in Seq(Calls) : replies' = [replies EXCEPT ![Pod[c]] = Append(rest, c)]
  <2>1. CASE Send(c, r)
    BY <1>1, <2>1 DEF Send
  <2>2. CASE replies[Pod[c]] # << >> /\ SendNext(c, r)
    <3>1. Tail(replies[Pod[c]]) \in Seq(Calls)
      BY <1>1, <2>2
    <3>. QED
      BY <2>2, <3>1 DEF SendNext
  <2>. QED
    BY <2>1, <2>2
<1>4. /\ pipe'[Pod[c]].op = op /\ pipe'[Pod[c]].todo = S /\ pipe'[Pod[c]].by = c
      /\ \A q \in Instances \ {Pod[c]} : pipe'[q] = pipe[q]
  BY <1>1, <1>2, StartRows
<1>5. /\ call'[c] = r
      /\ \A d \in Calls \ {c} : call[d].at \in Awaiting => call'[d] = call[d]
  BY <1>2, OthersPut
<1>6. /\ replies'[Pod[c]] = Append(rest, c)
      /\ \A q \in Instances \ {Pod[c]} : replies'[q] = replies[q]
  BY <1>3, OthersReplies
<1>. QED
  BY <1>4, <1>5, <1>6, PipesMove

LEMMA PipesFinally ==
    ASSUME Base, PipesOK, NEW c \in Calls, pipe[Pod[c]].by # c, UNCHANGED pipe,
           NEW promises, NEW rest,
           \/ rest = replies[Pod[c]]
           \/ replies[Pod[c]] # << >> /\ Head(replies[Pod[c]]) = c /\ rest = Rest(c),
           Finally(c, rest, promises)
    PROVE  PipesOK'
<1>1. CASE MustRelease(c)
  <2>1. Free(Pod[c]) /\ \E r : call' = [call EXCEPT ![c] = r]
    BY <1>1 DEF Finally
  <2>2. replies' = [replies EXCEPT ![Pod[c]] = Append(rest, c)]
    BY <1>1 DEF Finally
  <2>. QED
    BY <2>1, <2>2, FreePipe, OthersPut, OthersReplies, PipesMove
<1>2. CASE ~MustRelease(c)
  <2>1. EndWork(c) /\ replies' = [replies EXCEPT ![Pod[c]] = rest]
    BY <1>2 DEF Finally
  <2>2. /\ \A d \in Calls \ {c} : call[d].at \in Awaiting => call'[d] = call[d]
        /\ replies'[Pod[c]] = rest
        /\ \A q \in Instances \ {Pod[c]} : replies'[q] = replies[q]
    BY <2>1, OthersEnd, OthersReplies
  <2>3. \/ replies'[Pod[c]] = replies[Pod[c]]
        \/ /\ replies[Pod[c]] # << >> /\ Head(replies[Pod[c]]) = c
           /\ replies'[Pod[c]] = Tail(replies[Pod[c]])
    BY <2>2 DEF Rest
  <2>. QED
    BY <2>2, <2>3, PipesMove
<1>. QED
  BY <1>1, <1>2

LEMMA PipesCall ==
    ASSUME Base, PipesOK, NEW c \in Calls, Ask(c) \/ Step(c)
    PROVE  PipesOK'
<1>1. CASE \E S \in Some(Read) : Get(c, S)
  <2>1. PICK S : /\ Send(c, Row("read", S, Unseen))
                 /\ Start(Pod[c], "get", S, c)
    BY <1>1 DEF Get
  <2>2. Row("read", S, Unseen).at = "read"
    BY DEF Row
  <2>. QED
    BY <2>1, <2>2, PipesStarted
<1>2. CASE \E k \in Read : Set(c, k)
  <2>1. PICK k : Send(c, Row("write", {k}, Unseen)) /\ Start(Pod[c], "set", {k}, c)
    BY <1>2 DEF Set
  <2>2. Row("write", {k}, Unseen).at = "write" /\ Row("write", {k}, Unseen).keys = {k}
    BY DEF Row
  <2>. QED
    BY <2>1, <2>2, PipesStarted
<1>3. CASE (\E k \in Read : GetOrSet(c, k)) \/ Invalidate(c) \/ AskLock(c) \/ AskAgain(c)
  <2>1. UNCHANGED pipe /\ \E r : Send(c, r) \/ SendNext(c, r)
    BY <1>3 DEF GetOrSet, Invalidate, AskLock, AskAgain
  <2>. QED
    BY <2>1, PipesSent
<1>4. CASE GetReply(c) \/ SetReply(c) \/ Purged(c) \/ FoundEarly(c) \/ Sleep(c) \/ Fetch(c)
  <2>1. /\ UNCHANGED pipe /\ Handled(c) /\ \E at : Reply(c, at)
        /\ \E r : call' = [call EXCEPT ![c] = r]
    BY <1>4 DEF GetReply, SetReply, Purged, FoundEarly, Sleep, Fetch, Finish
  <2>. QED
    BY <2>1, OthersPut, PipesHandled
<1>5. CASE Join(c)
  <2>1. PICK k \in Keys : call[c].keys = {k}
    BY <1>5, OneKey DEF Base, Join, Reply
  <2>2. \E r : call' = [call EXCEPT ![c] = r]
    BY <1>5, <2>1, JoinPut
  <2>. QED
    BY <1>5, <2>2, OthersPut, PipesHandled DEF Join
<1>6. CASE Poll(c)
  <2>1. CASE Handled(c) /\ Finish(c)
    BY <1>6, <2>1, OthersPut, PipesHandled DEF Poll, Finish
  <2>2. CASE ~(Handled(c) /\ Finish(c))
    BY <1>6, <2>2, PipesSent DEF Poll
  <2>. QED
    BY <2>1, <2>2
<1>7. CASE InvalidateReply(c)
  <2>1. CASE Handled(c) /\ Finish(c) /\ UNCHANGED pipe
    BY <1>7, <2>1, OthersPut, PipesHandled DEF InvalidateReply, Finish
  <2>2. CASE /\ SendNext(c, Row("purge", call[c].keys, Unseen))
             /\ Start(Pod[c], "purge", call[c].keys, c)
    BY <1>7, <2>2, PipesStarted DEF InvalidateReply, Reply, Row
  <2>. QED
    BY <1>7, <2>1, <2>2 DEF InvalidateReply
<1>8. CASE Begin(c)
  <2>1. /\ UNCHANGED pipe /\ replies[Pod[c]] # << >> /\ Head(replies[Pod[c]]) = c
        /\ pipe[Pod[c]].by # c
    BY <1>8 DEF Begin, Reply
  <2>2. CASE SendNext(c, Onward(c, "recheck", Fetched({Key(c)}), call[c].locked))
    BY <2>1, <2>2, PipesSent
  <2>3. CASE Finally(c, Rest(c), Promise(c, c))
    BY <2>1, <2>3, PipesFinally
  <2>. QED
    BY <1>8, <2>2, <2>3 DEF Begin
<1>9. CASE Store(c)
  <2>1. Onward(c, "store", Unseen, call[c].locked).at = "store"
    BY OnwardRow
  <2>. QED
    BY <1>9, <2>1, PipesStarted DEF Store
<1>10. CASE FoundInWork(c) \/ Stored(c)
  BY <1>10, PipesFinally DEF FoundInWork, Stored, Reply
<1>11. CASE FetchFails(c)
  <2>1. pipe[Pod[c]].by # c
    BY <1>11, CacheAssumption DEF FetchFails, PipesOK
  <2>. QED
    BY <1>11, <2>1, PipesFinally DEF FetchFails
<1>12. CASE Released(c)
  BY <1>12, OthersEnd, PipesHandled DEF Released
<1>. QED
  BY <1>1, <1>2, <1>3, <1>4, <1>5, <1>6, <1>7, <1>8, <1>9, <1>10, <1>11, <1>12 DEF Ask, Step

\* A pipeline keeps its command and its call until it is over.
LEMMA PipelineLeft ==
    ASSUME Base, NEW p \in Instances, Pipeline(p)
    PROVE  /\ \A q \in Instances \ {p} : pipe'[q] = pipe[q]
           /\ \/ pipe'[p].by = Nobody
              \/ /\ pipe'[p].by = pipe[p].by /\ pipe'[p].op = pipe[p].op
                 /\ pipe'[p].todo \subseteq pipe[p].todo
<1>1. pipe \in [Instances -> PipeRow]
  BY DEF Base, PipeTypes
<1>2. CASE \E k \in Keys : PipeGet(p, k) \/ PipeDel(p, k)
  BY <1>1, <1>2 DEF PipeGet, PipeDel, Goes, NoPipe, PipeRow
<1>3. CASE \E k \in Keys : PipeSet(p, k)
  BY <1>1, <1>3 DEF PipeSet, Goes, NoPipe, PipeRow
<1>4. CASE \E k \in Keys : PipeAdd(p, k)
  BY <1>1, <1>4 DEF PipeAdd, Goes, NoPipe, PipeRow
<1>5. CASE PipeDelTag(p)
  BY <1>1, <1>5 DEF PipeDelTag, NoPipe, PipeRow
<1>. QED
  BY <1>2, <1>3, <1>4, <1>5 DEF Pipeline

LEMMA PipesStep == Base /\ PipesOK /\ [Next]_vars => PipesOK'
<1> SUFFICES ASSUME Base, PipesOK, [Next]_vars
             PROVE  PipesOK'
  OBVIOUS
<1>1. CASE UNCHANGED <<pipe, replies, call>>
  BY <1>1 DEF PipesOK
<1>2. ASSUME NEW p \in Instances, NEW S \in Batches[p], MSet(p, S) \/ Delete(p, S)
      PROVE  PipesOK'
  <2>1. /\ Free(p) /\ UNCHANGED <<replies, call>>
        /\ \E op : Start(p, op, S, Nobody)
    BY <1>2 DEF MSet, Delete, DropAndStart
  <2>2. pipe'[p].by = Nobody /\ \A q \in Instances \ {p} : pipe'[q] = pipe[q]
    BY <2>1, StartRows
  <2>. QED
    BY <2>1, <2>2, NobodyIsNoCall DEF PipesOK
<1>3. CASE Tick
  <2>1. /\ UNCHANGED <<pipe, replies>>
        /\ \A d \in Calls : call'[d].at = call[d].at /\ call'[d].keys = call[d].keys
    BY <1>3 DEF Tick, Waited
  <2>. QED
    BY <2>1 DEF PipesOK
<1>4. ASSUME NEW p \in Instances, Pipeline(p)
      PROVE  PipesOK'
  <2>1. UNCHANGED replies
    BY <1>4 DEF Pipeline, PipeGet, PipeSet, PipeAdd, PipeDel, PipeDelTag
  <2>2. \A d \in Calls : call'[d].at = call[d].at /\ call'[d].keys = call[d].keys
    BY <1>4, PipelineRows
  <2>. QED
    BY <1>4, <2>1, <2>2, PipelineLeft, NobodyIsNoCall DEF PipesOK
<1>. QED
  BY <1>1, <1>2, <1>3, <1>4, PipesCall DEF Next, Expire, Evict, vars

-----------------------------------------------------------------------------
(* The versions, and the queues.                                           *)

LEMMA VersionsKept ==
    ASSUME VersionsOK, Kept("write"), UNCHANGED <<writes, floor>>,
           \A k \in Keys : store'[k] \in {0, store[k]}
    PROVE  VersionsOK'
<1>1. \A p \in Instances, k \in Keys :
          floor'[p][k] <= writes' /\ (store'[k] # 0 => floor'[p][k] <= store'[k])
  BY DEF VersionsOK
<1>2. ASSUME NEW c \in Calls, call'[c].at = "write", NEW k \in Keys
      PROVE  /\ k \notin call'[c].keys => call'[c].seen[k].ver = 0
             /\ call'[c].seen[k].ver <= writes'
             /\ store'[k] # 0 => call'[c].seen[k].ver <= store'[k]
  BY <1>2 DEF VersionsOK, Kept
<1>. QED
  BY <1>1, <1>2 DEF VersionsOK

\* What the call of a pipeline learns, and of which key.
LEMMA NotedRow ==
    ASSUME Base, NEW p \in Instances, NEW k \in Keys, NEW version, Noted(p, k, version)
    PROVE  /\ \A c \in Calls : c # pipe[p].by => call'[c] = call[c]
           /\ \A c \in Calls : c = pipe[p].by => \A j \in Keys :
                 call'[c].seen[j].ver = IF j = k THEN version ELSE call[c].seen[j].ver
<1>1. \A c \in Calls : call[c] \in CallRow
  BY DEF Base, CallsSound
<1>. QED
  BY <1>1 DEF Noted, CallRow

\* A new version is above all that was seen of the key.
LEMMA VersionsSet ==
    ASSUME Base, PipesOK, VersionsOK, NEW p \in Instances, NEW k \in Keys, PipeSet(p, k)
    PROVE  VersionsOK'
<1>1. /\ writes \in Nat /\ writes' = writes + 1 /\ UNCHANGED floor
      /\ \A j \in Keys : store[j] \in Nat /\ store'[j] = IF j = k THEN writes + 1 ELSE store[j]
  BY DEF PipeSet, Base, StoreOK
<1>2. \A q \in Instances, j \in Keys : floor[q][j] \in Nat
  BY DEF Base, FloorOK
<1>3. \A q \in Instances, j \in Keys :
          floor'[q][j] <= writes' /\ (store'[j] # 0 => floor'[q][j] <= store'[j])
  BY <1>1, <1>2 DEF VersionsOK
<1>4. \A c \in Calls, j \in Keys : call[c].seen[j].ver \in Nat
  BY DEF Base, CallsSound, CallRow, Value
<1>5. Noted(p, k, writes + 1)
  BY DEF PipeSet
<1>6. ASSUME NEW c \in Calls, call'[c].at = "write", NEW j \in Keys
      PROVE  /\ j \notin call'[c].keys => call'[c].seen[j].ver = 0
             /\ call'[c].seen[j].ver <= writes'
             /\ store'[j] # 0 => call'[c].seen[j].ver <= store'[j]
  <2>1. call[c].at = "write" /\ call'[c].keys = call[c].keys
    BY <1>6, PipelineRows DEF Pipeline
  <2>2. /\ j \notin call[c].keys => call[c].seen[j].ver = 0
        /\ call[c].seen[j].ver <= writes
        /\ store[j] # 0 => call[c].seen[j].ver <= store[j]
    BY <2>1 DEF VersionsOK
  <2>3. \/ call'[c].seen[j].ver = call[c].seen[j].ver
        \/ c = pipe[p].by /\ j = k /\ call'[c].seen[j].ver = writes + 1
    BY <1>5, NotedRow
  <2>4. c = pipe[p].by => k \in call[c].keys
    BY <2>1 DEF PipesOK, PipeSet
  <2>. QED
    BY <1>1, <1>4, <2>1, <2>2, <2>3, <2>4
<1>. QED
  BY <1>3, <1>6 DEF VersionsOK

LEMMA VersionsStep == Base /\ PipesOK /\ VersionsOK /\ [Next]_vars => VersionsOK'
<1> SUFFICES ASSUME Base, PipesOK, VersionsOK, [Next]_vars
             PROVE  VersionsOK'
  OBVIOUS
<1>1. CASE UNCHANGED <<store, writes, floor, call>>
  BY <1>1, VersionsKept DEF Kept
<1>2. ASSUME NEW c \in Calls, Ask(c)
      PROVE  VersionsOK'
  <2>1. UNCHANGED <<store, writes, floor>>
    BY <1>2 DEF Ask, Get, GetOrSet, Invalidate, Set
  <2>2. CASE ~\E k \in Read : Set(c, k)
    <3>1. \E r : call' = [call EXCEPT ![c] = r] /\ r.at # "write"
      BY <1>2, <2>2 DEF Ask, Get, GetOrSet, Invalidate, Send, Row
    <3>. QED
      BY <2>1, <3>1, KeptPut, VersionsKept
  <2>3. ASSUME NEW k \in Read, Set(c, k)
        PROVE  VersionsOK'
    <3>1. /\ \A j \in Keys : call'[c].seen[j].ver = 0
          /\ \A d \in Calls \ {c} : call'[d] = call[d]
      BY <2>3 DEF Set, Send, Row, Unseen, Nothing, Base, CallsSound
    <3>2. writes \in Nat /\ \A j \in Keys : store[j] \in Nat
      BY DEF Base, StoreOK
    <3>. QED
      BY <2>1, <3>1, <3>2 DEF VersionsOK
  <2>. QED
    BY <2>2, <2>3
<1>3. ASSUME NEW c \in Calls, Step(c)
      PROVE  VersionsOK'
  <2>1. Kept("write")
    BY <1>3, KeptStep
  <2>2. UNCHANGED <<store, writes>>
    BY <1>3
       DEF Step, GetReply, SetReply, InvalidateReply, Purged, FoundEarly, Join, AskLock, Poll,
           Sleep, AskAgain, Begin, Fetch, Store, FoundInWork, Stored, FetchFails, Released
  <2>3. CASE SetReply(c)
    <3>1. call[c].at = "write"
      BY <2>3 DEF SetReply, Reply
    <3>2. \A p \in Instances, k \in Keys :
              floor'[p][k] \in {floor[p][k], call[c].seen[k].ver}
      BY <2>3 DEF SetReply, Base, FloorOK
    <3>3. \A p \in Instances, k \in Keys :
              floor'[p][k] <= writes /\ (store[k] # 0 => floor'[p][k] <= store[k])
      BY <3>1, <3>2 DEF VersionsOK
    <3>. QED
      BY <2>1, <2>2, <3>3 DEF VersionsOK, Kept
  <2>4. CASE ~SetReply(c)
    <3>1. UNCHANGED floor
      BY <1>3, <2>4
         DEF Step, GetReply, InvalidateReply, Purged, FoundEarly, Join, AskLock, Poll, Sleep,
             AskAgain, Begin, Fetch, Store, FoundInWork, Stored, FetchFails, Released
    <3>. QED
      BY <2>1, <2>2, <3>1, VersionsKept
  <2>. QED
    BY <2>3, <2>4
<1>4. ASSUME NEW p \in Instances, Pipeline(p)
      PROVE  VersionsOK'
  <2>1. \A c \in Calls : call'[c].at = call[c].at /\ call'[c].keys = call[c].keys
    BY <1>4, PipelineRows
  <2>2. ASSUME NEW k \in Keys, PipeGet(p, k)
        PROVE  VersionsOK'
    <3>1. Noted(p, k, store[k]) /\ UNCHANGED <<store, writes, floor>>
      BY <2>2 DEF PipeGet
    <3>2. \A c \in Calls : call[c].at = "write" => call'[c] = call[c]
      BY <2>2, <3>1, NotedRow DEF PipesOK, PipeGet
    <3>. QED
      BY <2>1, <3>1, <3>2, VersionsKept DEF Kept
  <2>3. ASSUME NEW k \in Keys, PipeDel(p, k)
        PROVE  VersionsOK'
    <3>1. UNCHANGED <<writes, floor, call>> /\ \A j \in Keys : store'[j] \in {0, store[j]}
      BY <2>3 DEF PipeDel, Base, StoreOK
    <3>. QED
      BY <3>1, VersionsKept DEF Kept
  <2>4. CASE PipeDelTag(p) \/ \E k \in Keys : PipeAdd(p, k)
    BY <1>1, <2>4 DEF PipeDelTag, PipeAdd
  <2>. QED
    BY <1>4, <2>2, <2>3, <2>4, VersionsSet DEF Pipeline
<1>5. ASSUME NEW k \in Keys, Expire(k)
      PROVE  VersionsOK'
  BY <1>5, VersionsKept DEF Expire, Kept, Base, StoreOK
<1>6. CASE Tick
  <2>1. Kept("write")
    BY <1>6 DEF Tick, Waited, Kept
  <2>. QED
    BY <1>6, <2>1, VersionsKept DEF Tick
<1>. QED
  BY <1>1, <1>2, <1>3, <1>4, <1>5, <1>6 DEF Next, Delete, MSet, DropAndStart, Evict, vars

\* What a pipeline reads or stores concerns the last call of a queue: a version
\* it stores is behind nobody's reply, and one it reads is not below any of
\* those before it.
LEMMA QueuesPipeline ==
    ASSUME Base, PipesOK, VersionsOK, QueuesOK, NEW p \in Instances, Pipeline(p)
    PROVE  QueuesOK'
<1>1. UNCHANGED <<replies, floor>>
  BY DEF Pipeline, PipeGet, PipeSet, PipeAdd, PipeDel, PipeDelTag
<1>2. \A d \in Calls : /\ call'[d].at = call[d].at
                       /\ d # pipe[p].by => call'[d] = call[d]
  BY PipelineRows
<1>3. CASE UNCHANGED call
  BY <1>1, <1>3 DEF QueuesOK, Ordered, Behind, Fresh
<1>4. CASE ~UNCHANGED call
  <2>0. PICK k \in Keys : \E version : /\ Noted(p, k, version)
                                        /\ \/ pipe[p].op = "get" /\ version = store[k]
                                           \/ pipe[p].op = "set"
    BY <1>4 DEF Pipeline, PipeGet, PipeSet, PipeAdd, PipeDel, PipeDelTag
  <2>1. PICK version : /\ Noted(p, k, version)
                       /\ \/ pipe[p].op = "get" /\ version = store[k]
                          \/ pipe[p].op = "set"
    BY <2>0
  <2>2. \A d \in Calls : d = pipe[p].by => \A j \in Keys :
            call'[d].seen[j].ver = IF j = k THEN version ELSE call[d].seen[j].ver
    BY <2>1, NotedRow
  <2>3. \A d \in Calls : d = pipe[p].by /\ call[d].at \in Filling => version = store[k]
    BY <2>1 DEF PipesOK, Filling
  <2>4. store[k] \in Nat
    BY DEF Base, StoreOK
  <2>5. ASSUME NEW w \in Calls, NEW r \in Calls, Behind(call[w], call[r]), w # pipe[p].by
        PROVE  Behind(call'[w], call'[r])
    <3>1. CASE r = pipe[p].by /\ call[w].at = "write" /\ call[r].at \in Filling
      <4>1. store[k] # 0 => store[k] >= call[w].seen[k].ver
        BY <2>4, <3>1 DEF VersionsOK, Base, CallsSound, CallRow, Value
      <4>. QED
        BY <1>2, <2>2, <2>3, <2>5, <3>1, <4>1 DEF Behind
    <3>2. CASE r # pipe[p].by
      BY <1>2, <2>5, <3>2
    <3>3. CASE call[w].at # "write" \/ call[r].at \notin Filling
      BY <1>2, <3>3 DEF Behind
    <3>. QED
      BY <3>1, <3>2, <3>3
  <2>6. ASSUME NEW r \in Calls, NEW q \in Instances, Fresh(call[r], floor[q])
        PROVE  Fresh(call'[r], floor[q])
    <3>1. CASE r = pipe[p].by /\ call[r].at \in Filling
      <4>1. store[k] # 0 => store[k] >= floor[q][k]
        BY <2>4 DEF VersionsOK, Base, FloorOK
      <4>. QED
        BY <1>2, <2>2, <2>3, <2>6, <3>1, <4>1 DEF Fresh
    <3>2. CASE r # pipe[p].by
      BY <1>2, <2>6, <3>2
    <3>3. CASE call[r].at \notin Filling
      BY <1>2, <3>3 DEF Fresh
    <3>. QED
      BY <3>1, <3>2, <3>3
  <2>7. ASSUME NEW q \in Instances
        PROVE  /\ Ordered(replies[q], q, call')
               /\ \A i \in 1 .. Len(replies[q]) : Fresh(call'[replies[q][i]], floor[q])
    <3>1. /\ replies[q] \in Seq(Calls) /\ \A i \in 1 .. Len(replies[q]) : replies[q][i] \in Calls
          /\ Ordered(replies[q], q, call)
      BY DEF Base, RepliesOK, QueuesOK
    <3>2. ASSUME NEW i \in 1 .. Len(replies[q]), NEW j \in 1 .. Len(replies[q]), i < j
          PROVE  Behind(call'[replies[q][i]], call'[replies[q][j]])
      <4>1. replies[q][i] # pipe[p].by
        <5> SUFFICES ASSUME replies[q][i] = pipe[p].by
                     PROVE  FALSE
          OBVIOUS
        <5>1. Pod[replies[q][i]] = q /\ replies[q][i] \in Calls
          BY <3>1 DEF Ordered
        <5>2. q = p /\ replies[q][Len(replies[q])] = replies[q][i]
          BY <5>1 DEF PipesOK
        <5>3. Len(replies[q]) \in 1 .. Len(replies[q]) /\ i # Len(replies[q])
          BY <3>1, <3>2
        <5>. QED
          BY <3>1, <5>2, <5>3 DEF Ordered
      <4>2. Behind(call[replies[q][i]], call[replies[q][j]])
        BY <3>1, <3>2 DEF Ordered
      <4>. QED
        BY <2>5, <3>1, <4>1, <4>2
    <3>3. Ordered(replies[q], q, call')
      BY <1>2, <3>1, <3>2 DEF Ordered
    <3>. QED
      BY <2>6, <3>1, <3>3 DEF QueuesOK
  <2>. QED
    BY <1>1, <2>7 DEF QueuesOK
<1>. QED
  BY <1>3, <1>4

\* The commands of getOrSet.
LEMMA QueuesGetOrSet ==
    ASSUME Base, QueuesOK, VersionsOK, NEW c \in Calls,
           \/ Join(c) \/ AskLock(c) \/ Poll(c) \/ Sleep(c) \/ AskAgain(c)
           \/ Begin(c) \/ Fetch(c) \/ Store(c) \/ FoundInWork(c) \/ Stored(c)
           \/ FetchFails(c) \/ Released(c)
    PROVE  QueuesOK'
<1>1. UNCHANGED floor
  BY DEF Join, AskLock, Poll, Sleep, AskAgain, Begin, Fetch, Store, FoundInWork, Stored,
         FetchFails, Released
<1>2. \A n : Recent(Asking(c, n)) /\ Asking(c, n).at \in Awaiting
  BY DEF Recent, Asking, Filling, Awaiting
<1>3. ASSUME NEW at \in {"poll", "recheck"}, NEW S, NEW b
      PROVE  Recent(Onward(c, at, Fetched(S), b)) /\ Onward(c, at, Fetched(S), b).at \in Awaiting
  BY FetchedRecent DEF Recent, Onward, Awaiting
<1>4. CASE Join(c)
  <2>1. PICK k \in Keys : call[c].keys = {k}
    BY <1>4, OneKey DEF Base, Join, Reply
  <2>2. PICK r : call' = [call EXCEPT ![c] = r]
    BY <1>4, <2>1, JoinPut
  <2>. QED
    BY <1>1, <1>4, <2>2, OthersPut, QueueHandled DEF Join
<1>5. CASE AskLock(c)
  BY <1>1, <1>2, <1>5, QueueSendNext DEF AskLock
<1>6. CASE Poll(c)
  <2>1. CASE Handled(c) /\ Finish(c)
    BY <1>1, <1>6, <2>1, OthersPut, QueueHandled DEF Poll, Finish
  <2>2. CASE SendNext(c, Onward(c, "poll", Fetched({Key(c)}), FALSE))
    BY <1>1, <1>3, <1>6, <2>2, QueueSendNext DEF Poll
  <2>. QED
    BY <1>6, <2>1, <2>2 DEF Poll
<1>7. CASE Sleep(c)
  BY <1>1, <1>7, OthersPut, QueueHandled DEF Sleep
<1>8. CASE AskAgain(c)
  BY <1>1, <1>2, <1>8, QueueSend DEF AskAgain, Awaiting
<1>9. CASE Begin(c)
  <2>1. CASE SendNext(c, Onward(c, "recheck", Fetched({Key(c)}), call[c].locked))
    BY <1>1, <1>3, <1>9, <2>1, QueueSendNext DEF Begin
  <2>2. CASE Finally(c, Rest(c), Promise(c, c))
    BY <1>1, <1>9, <2>2, RestOrdered, QueueFinally DEF Begin
  <2>. QED
    BY <1>9, <2>1, <2>2 DEF Begin
<1>10. CASE Fetch(c)
  BY <1>1, <1>10, OthersPut, QueueHandled DEF Fetch
<1>11. CASE Store(c)
  <2>1. PICK r : Send(c, r) /\ r.at = "store"
    BY <1>11 DEF Store, Onward
  <2>2. Recent(r) /\ r.at \in Awaiting /\ call[c].at \notin Awaiting
    BY <1>11, <2>1 DEF Store, Recent, Filling, Awaiting
  <2>. QED
    BY <1>1, <2>1, <2>2, QueueSend
<1>12. CASE FoundInWork(c) \/ Stored(c)
  BY <1>1, <1>12, RestOrdered, QueueFinally DEF FoundInWork, Stored
<1>13. CASE FetchFails(c)
  BY <1>1, <1>13, AllOrdered, QueueFinally DEF FetchFails, Awaiting
<1>14. CASE Released(c)
  BY <1>1, <1>14, OthersEnd, QueueHandled DEF Released
<1>. QED
  BY <1>4, <1>5, <1>6, <1>7, <1>8, <1>9, <1>10, <1>11, <1>12, <1>13, <1>14

LEMMA QueuesStep == Base /\ PipesOK /\ VersionsOK /\ QueuesOK /\ [Next]_vars => QueuesOK'
<1> SUFFICES ASSUME Base, PipesOK, VersionsOK, QueuesOK, [Next]_vars
             PROVE  QueuesOK'
  OBVIOUS
<1>1. CASE UNCHANGED <<call, replies, floor>>
  BY <1>1 DEF QueuesOK, Ordered, Behind, Fresh
<1>2. ASSUME NEW c \in Calls, Ask(c)
      PROVE  QueuesOK'
  <2>1. PICK r : Send(c, r) /\ r.at \in Awaiting /\ Recent(r)
    <3>1. ASSUME NEW S, NEW keys
          PROVE  /\ Recent(Row("first", keys, Fetched(S)))
                 /\ Row("first", keys, Fetched(S)).at \in Awaiting
      BY FetchedRecent DEF Recent, Row, Awaiting
    <3>2. ASSUME NEW at \in {"read", "write", "list"}, NEW keys
          PROVE  Recent(Row(at, keys, Unseen)) /\ Row(at, keys, Unseen).at \in Awaiting
      BY DEF Recent, Row, Unseen, Nothing, Awaiting
    <3>. QED
      BY <1>2, <3>1, <3>2 DEF Ask, Get, GetOrSet, Set, Invalidate
  <2>2. UNCHANGED floor /\ call[c].at \notin Awaiting
    BY <1>2 DEF Ask, Get, GetOrSet, Set, Invalidate, Awaiting
  <2>. QED
    BY <2>1, <2>2, QueueSend
<1>3. ASSUME NEW c \in Calls,
             GetReply(c) \/ InvalidateReply(c) \/ Purged(c) \/ FoundEarly(c)
      PROVE  QueuesOK'
  <2>1. UNCHANGED floor /\ \E at \in Awaiting : Reply(c, at)
    BY <1>3 DEF GetReply, InvalidateReply, Purged, FoundEarly, Awaiting
  <2>2. CASE Handled(c) /\ call' = [call EXCEPT ![c] = Idle]
    BY <2>1, <2>2, OthersPut, QueueHandled
  <2>3. CASE SendNext(c, Row("purge", call[c].keys, Unseen))
    <3>1. /\ Recent(Row("purge", call[c].keys, Unseen))
          /\ Row("purge", call[c].keys, Unseen).at \in Awaiting
      BY DEF Recent, Row, Filling, Awaiting
    <3>. QED
      BY <2>1, <2>3, <3>1, QueueSendNext
  <2>. QED
    BY <1>3, <2>2, <2>3 DEF GetReply, InvalidateReply, Purged, FoundEarly, Finish
<1>4. ASSUME NEW c \in Calls, SetReply(c)
      PROVE  QueuesOK'
  <2>1. Reply(c, "write") /\ call[c].at = "write"
    BY <1>4 DEF SetReply, Reply
  <2>2. \A k \in Keys : floor'[Pod[c]][k] \in {floor[Pod[c]][k], call[c].seen[k].ver}
    BY <1>4, CacheAssumption DEF SetReply, Base, FloorOK
  <2>3. \A i \in 1 .. Len(Rest(c)) :
            Rest(c)[i] # c /\ Fresh(call[Rest(c)[i]], floor'[Pod[c]])
    BY <2>1, <2>2, RestOrdered DEF Fresh, Behind
  <2>4. \A p \in Instances \ {Pod[c]} : floor'[p] = floor[p]
    BY <1>4 DEF SetReply, Base, FloorOK
  <2>5. /\ replies'[Pod[c]] = Rest(c)
        /\ \A p \in Instances \ {Pod[c]} : replies'[p] = replies[p]
    BY <1>4, OthersReplies DEF SetReply, Handled, Rest
  <2>6. \A d \in Calls \ {c} : call[d].at \in Awaiting => call'[d] = call[d]
    BY <1>4, OthersPut DEF SetReply, Finish
  <2>. QED
    BY <2>1, <2>3, <2>4, <2>5, <2>6, RestOrdered, QueueStep
<1>5. CASE Tick
  <2>1. \A d \in Calls : Alike(call[d], call'[d])
    BY <1>5 DEF Tick, Waited, Alike
  <2>2. UNCHANGED <<replies, floor>>
    BY <1>5 DEF Tick
  <2>3. ASSUME NEW p \in Instances
        PROVE  /\ Ordered(replies[p], p, call')
               /\ \A i \in 1 .. Len(replies[p]) : Fresh(call'[replies[p][i]], floor[p])
    <3>1. replies[p] \in Seq(Calls) /\ \A i \in 1 .. Len(replies[p]) : replies[p][i] \in Calls
      BY DEF Base, RepliesOK
    <3>2. Ordered(replies[p], p, call')
      BY <2>1, <3>1, OrderedAlike DEF QueuesOK
    <3>. QED
      BY <2>1, <3>1, <3>2 DEF QueuesOK, Fresh, Alike
  <2>. QED
    BY <2>2, <2>3 DEF QueuesOK
<1>. QED
  BY <1>1, <1>2, <1>3, <1>4, <1>5, QueuesGetOrSet, QueuesPipeline
     DEF Next, Step, Delete, MSet, DropAndStart, Expire, Evict, vars

LEMMA SeenDropped ==
    ASSUME Base, SetIsSeen, UNCHANGED floor, NEW p \in Instances, NEW S,
           local' = Dropped(p, S) \/ local' = local
    PROVE  SetIsSeen'
<1>1. CASE local' = local
  BY <1>1 DEF SetIsSeen, Hit
<1>2. CASE local' = Dropped(p, S)
  <2>1. \A q \in Instances, k \in Keys : local'[q][k] \in {NoEntry, local[q][k]}
    BY <1>2 DEF Dropped, Base, LocalOK
  <2>. QED
    BY <2>1 DEF SetIsSeen, Hit, NoEntry
<1>. QED
  BY <1>1, <1>2

LEMMA SeenFilled ==
    ASSUME Base, SetIsSeen, QueuesOK, UNCHANGED floor, NEW c \in Calls, NEW at \in Filling,
           Reply(c, at), local' = Filled(Pod[c], call[c].seen)
    PROVE  SetIsSeen'
<1>1. Pod[c] \in Instances /\ call[c].at \in Filling
  BY CacheAssumption DEF Reply
<1>2. Fresh(call[c], floor[Pod[c]])
  <2>1. replies[Pod[c]] \in Seq(Calls) /\ replies[Pod[c]] # << >> /\ Head(replies[Pod[c]]) = c
    BY <1>1 DEF Reply, Base, RepliesOK
  <2>2. 1 \in 1 .. Len(replies[Pod[c]]) /\ replies[Pod[c]][1] = c
    BY <2>1
  <2>. QED
    BY <1>1, <2>2 DEF QueuesOK
<1>3. ASSUME NEW p \in Instances, NEW k \in Keys
      PROVE  \/ local'[p][k] = local[p][k]
             \/ p = Pod[c] /\ call[c].seen[k].ver # 0 /\ local'[p][k].ver = call[c].seen[k].ver
  BY <1>1 DEF Filled, Entry, Base, LocalOK
<1>. QED
  BY <1>1, <1>2, <1>3 DEF SetIsSeen, Hit, Fresh

LEMMA SeenStep == Base /\ VersionsOK /\ QueuesOK /\ SetIsSeen /\ [Next]_vars => SetIsSeen'
<1> SUFFICES ASSUME Base, VersionsOK, QueuesOK, SetIsSeen, [Next]_vars
             PROVE  SetIsSeen'
  OBVIOUS
<1>1. CASE UNCHANGED <<local, floor>>
  BY <1>1 DEF SetIsSeen, Hit
<1>2. ASSUME NEW c \in Calls, GetReply(c) \/ FoundEarly(c) \/ FoundInWork(c)
      PROVE  SetIsSeen'
  <2>1. /\ \E at \in Filling : Reply(c, at)
        /\ local' = Filled(Pod[c], call[c].seen) /\ UNCHANGED floor
    BY <1>2 DEF GetReply, FoundEarly, FoundInWork, Filling
  <2>. QED
    BY <2>1, SeenFilled
<1>3. ASSUME NEW c \in Calls, Stored(c) \/ InvalidateReply(c) \/ Purged(c)
      PROVE  SetIsSeen'
  BY <1>3, SeenDropped, CacheAssumption DEF Stored, InvalidateReply, Purged
<1>4. ASSUME NEW c \in Calls, SetReply(c)
      PROVE  SetIsSeen'
  <2>1. call[c].at = "write" /\ Pod[c] \in Instances /\ local' = Dropped(Pod[c], call[c].keys)
    BY <1>4, CacheAssumption DEF SetReply, Reply, DropAfterSet
  <2>2. ASSUME NEW p \in Instances, NEW k \in Keys
        PROVE  \/ local'[p][k].left = 0
               \/ local'[p][k] = local[p][k] /\ floor'[p][k] = floor[p][k]
    <3>1. CASE p = Pod[c] /\ k \in call[c].keys
      BY <2>1, <3>1 DEF Dropped, NoEntry, Base, LocalOK
    <3>2. CASE p = Pod[c] /\ k \notin call[c].keys
      <4>1. call[c].seen[k].ver = 0 /\ floor[p][k] \in Nat
        BY <2>1, <3>2, CacheAssumption DEF VersionsOK, Base, FloorOK
      <4>2. floor'[p][k] = IF call[c].seen[k].ver > floor[p][k] THEN call[c].seen[k].ver
                           ELSE floor[p][k]
        BY <1>4, <3>2 DEF SetReply, Base, FloorOK
      <4>3. local'[p][k] = local[p][k]
        BY <2>1, <3>2 DEF Dropped, Base, LocalOK
      <4>. QED
        BY <4>1, <4>2, <4>3
    <3>3. CASE p # Pod[c]
      BY <1>4, <2>1, <3>3 DEF SetReply, Dropped, Base, LocalOK, FloorOK
    <3>. QED
      BY <3>1, <3>2, <3>3
  <2>. QED
    BY <2>2 DEF SetIsSeen, Hit
<1>5. ASSUME NEW p \in Instances,
             \/ \E S \in Batches[p] : Delete(p, S) \/ MSet(p, S)
             \/ \E k \in Keys : Evict(p, k)
      PROVE  SetIsSeen'
  BY <1>5, SeenDropped DEF Delete, MSet, DropAndStart, Evict
<1>6. CASE Tick
  <2>1. UNCHANGED floor
    BY <1>6 DEF Tick
  <2>2. ASSUME NEW p \in Instances, NEW k \in Keys, local'[p][k].left > 0
        PROVE  local[p][k].left > 0 /\ local'[p][k].ver = local[p][k].ver
    <3>1. local'[p][k] = Aged(local[p][k], k) /\ local[p][k].left \in Nat
      BY <1>6 DEF Tick, Base, LocalOK
    <3>. QED
      BY <2>2, <3>1 DEF Aged, NoEntry
  <2>. QED
    BY <2>1, <2>2 DEF SetIsSeen, Hit
<1>7. ASSUME NEW c \in Calls,
             \/ Ask(c) \/ Join(c) \/ AskLock(c) \/ Poll(c) \/ Sleep(c) \/ AskAgain(c)
             \/ Begin(c) \/ Fetch(c) \/ Store(c) \/ FetchFails(c) \/ Released(c)
      PROVE  SetIsSeen'
  BY <1>1, <1>7
     DEF Ask, Get, Set, GetOrSet, Invalidate, Join, AskLock, Poll, Sleep, AskAgain, Begin,
         Fetch, Store, FetchFails, Released
<1>8. ASSUME NEW p \in Instances, Pipeline(p)
      PROVE  SetIsSeen'
  BY <1>1, <1>8 DEF Pipeline, PipeGet, PipeSet, PipeAdd, PipeDel, PipeDelTag
<1>. QED
  BY <1>1, <1>2, <1>3, <1>4, <1>5, <1>6, <1>7, <1>8 DEF Next, Step, Expire, vars

\* After set returned, its instance never reads an older value from L1.
THEOREM SetIsSeenAlways == Spec => []SetIsSeen
<1>1. Init => VersionsOK
  BY IdleSound DEF Init, VersionsOK
<1>2. Init => QueuesOK
  <2>1. \A i : i \notin 1 .. Len(<< >>)
    OBVIOUS
  <2>. QED
    BY <2>1 DEF Init, QueuesOK, Ordered
<1>3. Init => SetIsSeen
  BY DEF Init, SetIsSeen, Hit, NoEntry
<1>4. Init => PipesOK
  BY NobodyIsNoCall DEF Init, PipesOK, NoPipe
<1>. QED
  BY BaseInit, BaseStep, PipesStep, VersionsStep, QueuesStep, SeenStep, <1>1, <1>2, <1>3, <1>4,
     PTL DEF Spec
=============================================================================
