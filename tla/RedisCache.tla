----------------------------- MODULE RedisCache -----------------------------
(***************************************************************************)
(* RedisService as a cache: a store shared by all instances (L2), an       *)
(* in-process cache per instance whose entries live L1Ttl (L1), batch      *)
(* reads and writes, invalidation by tag, and getOrSet with its promise    *)
(* map and its lock in the store.                                          *)
(*                                                                         *)
(* An instance has one connection: its commands take effect in the order   *)
(* they are sent and their replies are handled in that order.  A single    *)
(* command takes effect in the step that sends it.  pipeline() is not      *)
(* MULTI: its commands take effect one by one, with those of other         *)
(* instances between them, and the next command of the instance after its  *)
(* last one.  The code after an await is the step that handles the reply.  *)
(* A value is the number of the write that stored it; 0 stands for a       *)
(* missing value.                                                          *)
(***************************************************************************)
EXTENDS Naturals, Sequences, FiniteSets

CONSTANTS
    Instances,  \* the processes of the service
    Calls,      \* the calls that can be in flight
    Pod,        \* the instance of each call
    Keys,
    Read,       \* the keys that are read, set and cached by getOrSet
    Batches,    \* the sets of keys that each instance calls mSet and mDel with
    Tagged,     \* the keys that are stored with the tag
    L1Ttl,      \* redis.localCacheTtlMs
    LockTtl,    \* ttlSeconds of acquireLock
    MaxPolls,   \* redis.lockAcquireMaxWaitMs / stepMs
    MaxDelay,   \* the longest wait for a reply
    MaxWrites   \* bound of the model: the writes

ASSUME CacheAssumption ==
    /\ Pod \in [Calls -> Instances]
    /\ Read \subseteq Keys /\ Tagged \subseteq Keys
    /\ Batches \in [Instances -> SUBSET (SUBSET Keys \ {{}})]
    /\ L1Ttl \in Nat \ {0}
    /\ MaxDelay \in Nat
    /\ LockTtl \in Nat \ {0}
    /\ MaxWrites \in Nat /\ MaxPolls \in Nat
    /\ {"nobody", "settled"} \cap Calls = {}

VARIABLES
    store,      \* the value of each key in the store
    members,    \* the keys registered under the tag
    lock,       \* how long the lock of each key will still exist
    local,      \* localCache of each instance
    lockMap,    \* the promise of each key in each instance
    call,       \* where each call is
    replies,    \* the calls whose reply each instance has yet to handle
    pipe,       \* what is left of the pipeline of each instance
    writes,     \* the number of writes so far
    floor,      \* history: the last value each instance has set
    loose,      \* history: the keys stored behind an invalidation's back
    overrun     \* history: the locks a holder outlived, until nobody holds them

vars == <<store, members, lock, local, lockMap, call, replies, pipe, writes,
          floor, loose, overrun>>

\* Nobody: no promise.  Settled: a rejected promise nobody will remove.
Nobody == "nobody"
Settled == "settled"
Nothing == [ver |-> 0, stale |-> 0]
NoEntry == [ver |-> 0, stale |-> 0, left |-> 0]
Unseen == [k \in Keys |-> Nothing]

\* A call about the keys S, where it is, and what its command brings.
Row(at, S, seen) ==
    [at |-> at, keys |-> S, seen |-> seen, locked |-> FALSE, polls |-> 0, age |-> 0,
     held |-> 0, on |-> Nobody]

Idle == Row("idle", {}, Unseen)

\* A pipeline: its command, the keys it has yet to reach, the key whose SADD
\* comes next, and the call that waits for it.
NoPipe == [op |-> "none", todo |-> {}, add |-> {}, by |-> Nobody]

\* Where a call waits for a reply, and where the work of getOrSet runs.
Awaiting == {"read", "write", "list", "purge", "first", "lock", "poll",
             "recheck", "store", "release"}
Working == {"recheck", "fetch", "store", "release"}
\* Where a caller has the lock, if it got it.
Holding == {"lock"} \cup Working

Init ==
    /\ store = [k \in Keys |-> 0]
    /\ members = {}
    /\ lock = [k \in Keys |-> 0]
    /\ local = [p \in Instances |-> [k \in Keys |-> NoEntry]]
    /\ lockMap = [p \in Instances |-> [k \in Keys |-> Nobody]]
    /\ call = [c \in Calls |-> Idle]
    /\ replies = [p \in Instances |-> <<>>]
    /\ pipe = [p \in Instances |-> NoPipe]
    /\ writes = 0
    /\ floor = [p \in Instances |-> [k \in Keys |-> 0]]
    /\ loose = {}
    /\ overrun = {}

\* localCache.get(k) !== undefined
Hit(p, k) == local[p][k].left > 0

\* What redis.get brings.
Fetched(S) ==
    [k \in Keys |-> [ver |-> IF k \in S THEN store[k] ELSE 0, stale |-> 0]]

Entry(value, life) == [ver |-> value.ver, stale |-> value.stale, left |-> life]
FilledOver(p, seen) ==
    [local EXCEPT ![p] = [k \in Keys |->
        IF seen[k].ver = 0 THEN local[p][k]
        ELSE Entry(seen[k], L1Ttl + local[p][k].left)]]
\* localCache.set of what a read brought; a missing value is not cached.
Filled(p, seen) ==
    [local EXCEPT ![p] = [k \in Keys |->
        IF seen[k].ver = 0 THEN local[p][k] ELSE Entry(seen[k], L1Ttl)]]

\* localCache.delete
Dropped(p, S) ==
    [local EXCEPT ![p] = [k \in Keys |-> IF k \in S THEN NoEntry ELSE local[p][k]]]

\* No pipeline of the instance is under way.
Free(p) == pipe[p].op = "none"

\* A command is sent: its reply comes after those of the earlier ones.
Send(c, next) ==
    /\ Free(Pod[c])
    /\ call' = [call EXCEPT ![c] = next]
    /\ replies' = [replies EXCEPT ![Pod[c]] = Append(@, c)]

\* The reply of c is the next one its instance handles, and it is complete.
Reply(c, step) ==
    /\ call[c].at = step
    /\ replies[Pod[c]] # <<>>
    /\ Head(replies[Pod[c]]) = c
    /\ pipe[Pod[c]].by # c

Handled(c) == replies' = [replies EXCEPT ![Pod[c]] = Tail(@)]
Finish(c) == call' = [call EXCEPT ![c] = Idle]

\* The call handles a reply and sends its next command.
SendNext(c, next) ==
    /\ Free(Pod[c])
    /\ call' = [call EXCEPT ![c] = next]
    /\ replies' = [replies EXCEPT ![Pod[c]] = Append(Tail(@), c)]

\* getOrSet goes on: the row of c at its next await.
Onward(c, at, seen, locked) ==
    [at |-> at, keys |-> call[c].keys, seen |-> seen, locked |-> locked,
     polls |-> IF at \in Working THEN 0 ELSE call[c].polls, age |-> 0,
     held |-> IF at = "release" THEN 0 ELSE call[c].held, on |-> Nobody]

\* There is room for as many writes as S has keys, after those on their way.
MayWrite(S) ==
    LET coming == {w \in Instances \X Keys :
                      pipe[w[1]].op = "set" /\ w[2] \in pipe[w[1]].todo}
    IN  writes + Cardinality(coming) + Cardinality(S) <= MaxWrites

\* The pipeline of p is sent; c waits for it.
Start(p, op, S, c) ==
    pipe' = [pipe EXCEPT ![p] = [op |-> op, todo |-> S, add |-> {}, by |-> c]]

-----------------------------------------------------------------------------
(* The commands of a pipeline, as the store runs them.                     *)

\* A pipeline is over after its last command; that of invalidateTag ends with
\* the DEL of the tag.
Over(q) == q.todo = {} /\ q.add = {} /\ q.op # "purge"
Goes(p, q) == pipe' = [pipe EXCEPT ![p] = IF Over(q) THEN NoPipe ELSE q]

\* What the call of the pipeline learns: the version it read or stored.
Noted(p, k, version) ==
    call' = [c \in Calls |->
        IF c # pipe[p].by THEN call[c]
        ELSE [call[c] EXCEPT !.seen[k] = [ver |-> version, stale |-> 0]]]

PipeGet(p, k) ==
    /\ pipe[p].op = "get" /\ k \in pipe[p].todo
    /\ Noted(p, k, store[k])
    /\ Goes(p, [pipe[p] EXCEPT !.todo = @ \ {k}])
    /\ UNCHANGED <<store, members, lock, local, lockMap, replies, writes, floor, loose,
                   overrun>>

\* SET, before the SADD of its key and after that of the key before.
PipeSet(p, k) ==
    /\ pipe[p].op = "set" /\ k \in pipe[p].todo /\ pipe[p].add = {}
    /\ writes' = writes + 1
    /\ store' = [store EXCEPT ![k] = writes + 1]
    /\ loose' = loose \ {k}
    /\ Noted(p, k, writes + 1)
    /\ Goes(p, [pipe[p] EXCEPT !.todo = @ \ {k}, !.add = {k} \cap Tagged])
    /\ UNCHANGED <<members, lock, local, lockMap, replies, floor, overrun>>

RegisteredOnce(k) == IF members = {} THEN {k} ELSE members
Registered(k) == members \cup {k}

\* An invalidation under way will delete the tag, and not this key: it did not
\* list it, or has deleted it already.
Missed(k) ==
    \/ \E d \in Calls : /\ call[d].at = "list"
                        /\ call[d].keys # {} /\ k \notin call[d].keys
    \/ \E p \in Instances : pipe[p].op = "purge" /\ k \notin pipe[p].todo

\* SADD
PipeAdd(p, k) ==
    /\ k \in pipe[p].add
    /\ members' = Registered(k)
    /\ loose' = IF Missed(k) /\ store[k] # 0 THEN loose \cup {k} ELSE loose \ {k}
    /\ Goes(p, [pipe[p] EXCEPT !.add = @ \ {k}])
    /\ UNCHANGED <<store, lock, local, lockMap, call, replies, writes, floor, overrun>>

\* DEL of a key, by mDel (and del) or by invalidateTag
PipeDel(p, k) ==
    /\ pipe[p].op \in {"del", "purge"} /\ k \in pipe[p].todo
    /\ store' = [store EXCEPT ![k] = 0]
    /\ loose' = loose \ {k}
    /\ Goes(p, [pipe[p] EXCEPT !.todo = @ \ {k}])
    /\ UNCHANGED <<members, lock, local, lockMap, call, replies, writes, floor, overrun>>

\* DEL of the tag, the last command of invalidateTag
PipeDelTag(p) ==
    /\ pipe[p].op = "purge" /\ pipe[p].todo = {}
    /\ members' = {}
    /\ pipe' = [pipe EXCEPT ![p] = NoPipe]
    /\ UNCHANGED <<store, lock, local, lockMap, call, replies, writes, floor, loose,
                   overrun>>

-----------------------------------------------------------------------------
\* get and mGet: what L1 does not have is read from the store.
Get(c, S) ==
    LET missed == {k \in S : ~Hit(Pod[c], k)}
    IN  /\ call[c].at = "idle"
        /\ missed # {}
        /\ Send(c, Row("read", missed, Unseen))
        /\ Start(Pod[c], "get", missed, c)
        /\ UNCHANGED <<store, members, lock, local, lockMap, writes, floor, loose, overrun>>

GetReply(c) ==
    /\ Reply(c, "read")
    /\ local' = Filled(Pod[c], call[c].seen)
    /\ Handled(c)
    /\ Finish(c)
    /\ UNCHANGED <<store, members, lock, lockMap, pipe, writes, floor, loose, overrun>>

\* set: L1 is left alone until the reply.
Set(c, k) ==
    /\ call[c].at = "idle"
    /\ MayWrite({k})
    /\ Send(c, Row("write", {k}, Unseen))
    /\ Start(Pod[c], "set", {k}, c)
    /\ UNCHANGED <<store, members, lock, local, lockMap, writes, floor, loose, overrun>>

DropBeforeSet(p, S) == local
\* "Invalidate local cache on write"
DropAfterSet(p, S) == Dropped(p, S)

SetReply(c) ==
    LET p == Pod[c]
        Newer(k) == call[c].seen[k].ver > floor[p][k]
    IN  /\ Reply(c, "write")
        /\ local' = DropAfterSet(p, call[c].keys)
        /\ floor' = [floor EXCEPT ![p] =
              [k \in Keys |-> IF Newer(k) THEN call[c].seen[k].ver ELSE floor[p][k]]]
        /\ Handled(c)
        /\ Finish(c)
        /\ UNCHANGED <<store, members, lock, lockMap, pipe, writes, loose, overrun>>

\* L1 is cleared when the pipeline is sent; its reply changes nothing.
DropAndStart(p, op, S) ==
    /\ Free(p)
    /\ local' = Dropped(p, S)
    /\ Start(p, op, S, Nobody)
    /\ UNCHANGED <<store, members, lock, lockMap, call, replies, writes, floor, loose,
                   overrun>>

MSet(p, S) == MayWrite(S) /\ DropAndStart(p, "set", S)

\* del and mDel
Delete(p, S) == DropAndStart(p, "del", S)

\* invalidateTag, SMEMBERS
Invalidate(c) ==
    /\ call[c].at = "idle"
    /\ Send(c, Row("list", members, Unseen))
    /\ UNCHANGED <<store, members, lock, local, lockMap, pipe, writes, floor, loose,
                   overrun>>

\* invalidateTag after SMEMBERS: nothing to do for an empty tag; otherwise L1
\* forgets the keys it listed, and the pipeline that deletes them and the tag
\* is sent.
InvalidateReply(c) ==
    LET S == call[c].keys
    IN  /\ Reply(c, "list")
        /\ \/ /\ S = {}
              /\ Handled(c)
              /\ Finish(c)
              /\ UNCHANGED <<local, pipe>>
           \/ /\ S # {}
              /\ local' = Dropped(Pod[c], S)
              /\ SendNext(c, Row("purge", S, Unseen))
              /\ Start(Pod[c], "purge", S, c)
        /\ UNCHANGED <<store, members, lock, lockMap, writes, floor, loose, overrun>>

Purged(c) ==
    /\ Reply(c, "purge")
    /\ Handled(c)
    /\ Finish(c)
    /\ UNCHANGED <<store, members, lock, local, lockMap, pipe, writes, floor, loose,
                   overrun>>

-----------------------------------------------------------------------------
\* getOrSet: the first get.
GetOrSet(c, k) ==
    /\ call[c].at = "idle"
    /\ ~Hit(Pod[c], k)
    /\ Send(c, Row("first", {k}, Fetched({k})))
    /\ UNCHANGED <<store, members, lock, local, lockMap, pipe, writes, floor, loose,
                   overrun>>

Key(c) == CHOOSE k \in call[c].keys : TRUE
Found(c) == call[c].seen[Key(c)].ver # 0

\* A get inside getOrSet brought a value before the work began: return it.
FoundEarly(c) ==
    /\ Reply(c, "first") \/ Reply(c, "poll")
    /\ Found(c)
    /\ local' = Filled(Pod[c], call[c].seen)
    /\ Handled(c)
    /\ Finish(c)
    /\ UNCHANGED <<store, members, lock, lockMap, pipe, writes, floor, loose, overrun>>

Joining(c, d) ==
    [at |-> "joined", keys |-> call[c].keys, seen |-> Unseen, locked |-> FALSE, polls |-> 0,
     age |-> 0, held |-> 0, on |-> d]

\* lockMap.has(key): return the promise, whose outcome may be settled already.
Join(c) ==
    LET promise == lockMap[Pod[c]][Key(c)]
    IN  /\ Reply(c, "first")
        /\ ~Found(c)
        /\ promise # Nobody
        /\ Handled(c)
        /\ call' = [call EXCEPT ![c] = IF promise = Settled THEN Idle
                        ELSE Joining(c, promise)]
        /\ UNCHANGED <<store, members, lock, local, lockMap, pipe, writes, floor, loose,
                   overrun>>

\* acquireLock: SET lock 1 EX ttl NX
LockFree(k) == lock[k] = 0
Acquire(k) == lock' = IF LockFree(k) THEN [lock EXCEPT ![k] = LockTtl] ELSE lock
Asking(c, polls) ==
    [at |-> "lock", keys |-> call[c].keys, seen |-> Unseen, locked |-> LockFree(Key(c)),
     polls |-> polls, age |-> 0, held |-> 0, on |-> Nobody]

AskLock(c) ==
    /\ Reply(c, "first")
    /\ ~Found(c)
    /\ lockMap[Pod[c]][Key(c)] = Nobody
    /\ Acquire(Key(c))
    /\ SendNext(c, Asking(c, 0))
    /\ UNCHANGED <<store, members, local, lockMap, pipe, writes, floor, loose,
                   overrun>>

\* The lock was not free and there is time left: L1, or the store, again.
Poll(c) ==
    /\ Reply(c, "lock")
    /\ ~call[c].locked
    /\ call[c].polls < MaxPolls
    /\ \/ /\ Hit(Pod[c], Key(c))
          /\ Handled(c)
          /\ Finish(c)
       \/ /\ ~Hit(Pod[c], Key(c))
          /\ SendNext(c, Onward(c, "poll", Fetched({Key(c)}), FALSE))
    /\ UNCHANGED <<store, members, lock, local, lockMap, pipe, writes, floor, loose,
                   overrun>>

\* await sleep(stepMs)
Sleep(c) ==
    /\ Reply(c, "poll")
    /\ ~Found(c)
    /\ Handled(c)
    /\ call' = [call EXCEPT ![c] = Onward(c, "sleep", Unseen, FALSE)]
    /\ UNCHANGED <<store, members, lock, local, lockMap, pipe, writes, floor, loose,
                   overrun>>

AskAgain(c) ==
    /\ call[c].at = "sleep"
    /\ call[c].age > 0
    /\ Acquire(Key(c))
    /\ Send(c, Asking(c, call[c].polls + 1))
    /\ UNCHANGED <<store, members, local, lockMap, pipe, writes, floor, loose,
                   overrun>>

Holds(c) == call[c].locked /\ call[c].at \in Holding \ {"release"}

\* What the map of promises holds for the key of c.
Promise(c, promise) == [lockMap EXCEPT ![Pod[c]][Key(c)] = promise]

\* The work of c is over: everyone who joined it is answered too.
EndWork(c) ==
    call' = [d \in Calls |-> IF d = c \/ call[d].on = c THEN Idle ELSE call[d]]

ReleaseAnyway(c) == TRUE
\* if (lockAcquired)
MustRelease(c) == call[c].locked

\* The lock of k is given back: who outlived it no longer matters if nobody
\* else holds it.
GiveBack(c) ==
    overrun' = IF \E d \in Calls \ {c} : Holds(d) /\ Key(c) \in call[d].keys THEN overrun
               ELSE overrun \ {Key(c)}

\* finally: a caller that has the lock deletes it and waits for the reply (the
\* command may be rejected, and the lock then stays until it expires); any
\* other deletes the promise of the key, whoever's it is, and is done.
Finally(c, rest, promises) ==
    \/ /\ MustRelease(c)
       /\ Free(Pod[c])
       /\ GiveBack(c)
       /\ lockMap' = promises
       /\ replies' = [replies EXCEPT ![Pod[c]] = Append(rest, c)]
       /\ \E accepted \in BOOLEAN :
             /\ lock' = IF accepted THEN [lock EXCEPT ![Key(c)] = 0] ELSE lock
             /\ call' = [call EXCEPT ![c] = Onward(c, "release", Unseen, ~accepted)]
    \/ /\ ~MustRelease(c)
       /\ lockMap' = Promise(c, Nobody)
       /\ replies' = [replies EXCEPT ![Pod[c]] = rest]
       /\ EndWork(c)
       /\ UNCHANGED <<lock, overrun>>

Rest(c) == Tail(replies[Pod[c]])

\* The work starts when the lock was taken, or when the time to wait is over;
\* its promise replaces any other.  A recheck that finds the value in L1 ends
\* the work at once.
Begin(c) ==
    /\ Reply(c, "lock")
    /\ call[c].locked \/ call[c].polls = MaxPolls
    /\ \/ /\ ~Hit(Pod[c], Key(c))
          /\ lockMap' = Promise(c, c)
          /\ SendNext(c, Onward(c, "recheck", Fetched({Key(c)}), call[c].locked))
          /\ UNCHANGED <<lock, overrun>>
       \/ /\ Hit(Pod[c], Key(c))
          /\ Finally(c, Rest(c), Promise(c, c))
    /\ UNCHANGED <<store, members, local, pipe, writes, floor, loose>>

\* The recheck found no value: call the fetcher.
Fetch(c) ==
    /\ Reply(c, "recheck")
    /\ ~Found(c)
    /\ call' = [call EXCEPT ![c] = Onward(c, "fetch", Unseen, call[c].locked)]
    /\ Handled(c)
    /\ UNCHANGED <<store, members, lock, local, lockMap, pipe, writes, floor, loose,
                   overrun>>

\* The fetcher answered: set.
Store(c) ==
    /\ call[c].at = "fetch"
    /\ MayWrite({Key(c)})
    /\ Send(c, Onward(c, "store", Unseen, call[c].locked))
    /\ Start(Pod[c], "set", {Key(c)}, c)
    /\ UNCHANGED <<store, members, lock, local, lockMap, writes, floor, loose, overrun>>

FoundInWork(c) ==
    /\ Reply(c, "recheck")
    /\ Found(c)
    /\ local' = Filled(Pod[c], call[c].seen)
    /\ Finally(c, Rest(c), lockMap)
    /\ UNCHANGED <<store, members, pipe, writes, floor, loose>>

Stored(c) ==
    /\ Reply(c, "store")
    /\ local' = Dropped(Pod[c], {Key(c)})
    /\ Finally(c, Rest(c), lockMap)
    /\ UNCHANGED <<store, members, pipe, writes, floor, loose>>

\* The fetcher throws, or its value cannot be stored.
FetchFails(c) ==
    /\ call[c].at = "fetch"
    /\ Finally(c, replies[Pod[c]], lockMap)
    /\ UNCHANGED <<store, members, local, pipe, writes, floor, loose>>

LeftInMap(c) == lockMap[Pod[c]][Key(c)]
\* After a rejected release lockMap.delete is not reached.
PromiseAfter(c) ==
    IF ~call[c].locked THEN Nobody
    ELSE IF lockMap[Pod[c]][Key(c)] = c THEN Settled ELSE lockMap[Pod[c]][Key(c)]

Released(c) ==
    /\ Reply(c, "release")
    /\ lockMap' = Promise(c, PromiseAfter(c))
    /\ EndWork(c)
    /\ Handled(c)
    /\ UNCHANGED <<store, members, lock, local, pipe, writes, floor, loose, overrun>>

-----------------------------------------------------------------------------
\* EX ttl ran out.
Expire(k) ==
    /\ store[k] # 0
    /\ store' = [store EXCEPT ![k] = 0]
    /\ loose' = loose \ {k}
    /\ UNCHANGED <<members, lock, local, lockMap, call, replies, pipe, writes, floor,
                   overrun>>

\* lru-cache max: an entry makes room for another one.
Evict(p, k) ==
    /\ Hit(p, k)
    /\ local' = Dropped(p, {k})
    /\ UNCHANGED <<store, members, lock, lockMap, call, replies, pipe, writes, floor,
                   loose, overrun>>

Less(n) == IF n = 0 THEN 0 ELSE n - 1

\* How old a value is that the store no longer has.
Staler(value, k) ==
    value.stale + (IF value.ver # 0 /\ value.ver # store[k] THEN 1 ELSE 0)

Aged(entry, k) ==
    IF entry.left <= 1 THEN NoEntry
    ELSE [ver |-> entry.ver, stale |-> Staler(entry, k), left |-> entry.left - 1]

\* The row of a call when stepMs have passed.
Waited(r, holds) ==
    [at |-> r.at, keys |-> r.keys,
     seen |-> [k \in Keys |-> [ver |-> r.seen[k].ver, stale |-> Staler(r.seen[k], k)]],
     locked |-> r.locked, polls |-> r.polls,
     age |-> IF r.at \in Awaiting THEN r.age + 1 ELSE IF r.at = "sleep" THEN 1 ELSE 0,
     held |-> IF ~holds THEN 0 ELSE IF r.held < LockTtl THEN r.held + 1 ELSE LockTtl,
     on |-> r.on]

\* stepMs pass.  No reply is slower than its bound; a fetcher may take longer
\* than the lock lives.
Tick ==
    /\ \A c \in Calls : call[c].at \in Awaiting => call[c].age < MaxDelay
    /\ overrun' = overrun \cup {k \in Keys : \E c \in Calls :
          Holds(c) /\ k \in call[c].keys /\ call[c].held + 1 >= LockTtl}
    /\ lock' = [k \in Keys |-> Less(lock[k])]
    /\ local' = [p \in Instances |-> [k \in Keys |-> Aged(local[p][k], k)]]
    /\ call' = [c \in Calls |-> Waited(call[c], Holds(c))]
    /\ UNCHANGED <<store, members, lockMap, replies, pipe, writes, floor, loose>>

\* What the instance does for a call: it handles a reply, or its own await is over.
Step(c) ==
    \/ GetReply(c) \/ SetReply(c) \/ InvalidateReply(c) \/ Purged(c)
    \/ FoundEarly(c) \/ Join(c) \/ AskLock(c) \/ Poll(c) \/ Sleep(c) \/ AskAgain(c)
    \/ Begin(c) \/ Fetch(c) \/ Store(c) \/ FoundInWork(c) \/ Stored(c)
    \/ FetchFails(c) \/ Released(c)

\* What the store does for the pipeline of an instance.
Pipeline(p) ==
    \/ \E k \in Keys : PipeGet(p, k) \/ PipeSet(p, k) \/ PipeAdd(p, k) \/ PipeDel(p, k)
    \/ PipeDelTag(p)

Some(S) == SUBSET S \ {{}}

Ask(c) ==
    \/ \E S \in Some(Read) : Get(c, S)
    \/ \E k \in Read : Set(c, k)
    \/ \E k \in Read : GetOrSet(c, k)
    \/ Invalidate(c)

Next ==
    \/ \E c \in Calls : Ask(c) \/ Step(c)
    \/ \E p \in Instances : Pipeline(p)
    \/ \E p \in Instances : \E S \in Batches[p] : Delete(p, S) \/ MSet(p, S)
    \/ \E k \in Keys : Expire(k)
    \/ \E p \in Instances, k \in Keys : Evict(p, k)
    \/ Tick

Spec == Init /\ [][Next]_vars

-----------------------------------------------------------------------------
Value == [ver : Nat, stale : Nat]

CallRow ==
    [at : Awaiting \cup {"idle", "joined", "sleep", "fetch"}, keys : SUBSET Keys,
     seen : [Keys -> Value], locked : BOOLEAN, polls : Nat, age : Nat, held : Nat,
     on : Calls \cup {Nobody}]

PipeRow ==
    [op : {"none", "get", "set", "del", "purge"}, todo : SUBSET Keys, add : SUBSET Keys,
     by : Calls \cup {Nobody}]

\* Every variable has its type.
CacheTypeOK ==
    /\ store \in [Keys -> Nat]
    /\ members \subseteq Keys
    /\ lock \in [Keys -> Nat]
    /\ local \in [Instances -> [Keys -> [ver : Nat, stale : Nat, left : Nat]]]
    /\ lockMap \in [Instances -> [Keys -> Calls \cup {Nobody, Settled}]]
    /\ call \in [Calls -> CallRow]
    /\ replies \in [Instances -> Seq(Calls)]
    /\ pipe \in [Instances -> PipeRow]
    /\ writes \in Nat
    /\ floor \in [Instances -> [Keys -> Nat]]
    /\ loose \subseteq Keys
    /\ overrun \subseteq Keys

\* What an instance serves from its own memory left the store at most the time
\* of one reply and of one L1 entry ago: a write, a delete, an invalidation of
\* another instance, and a read in flight that fills L1 after them, are all
\* forgotten by then.
StaleForAWhile ==
    \A p \in Instances, k \in Keys :
        local[p][k].stale + local[p][k].left <= MaxDelay + L1Ttl

\* After set returned, its instance never reads an older value from L1, even
\* when a read of the old value was in flight meanwhile.
SetIsSeen ==
    \A p \in Instances, k \in Keys :
        Hit(p, k) => local[p][k].ver >= floor[p][k]

\* Two callers hold the lock of getOrSet only after one of them, or one before
\* them, outlived it since it was last nobody's: nothing bounds a fetcher, and
\* its finally deletes the lock whoever has it by then.  A caller that gave up
\* waiting, or one that joined, never takes part in that.
OneHolder ==
    \A c, d \in Calls : Holds(c) /\ Holds(d) /\ call[c].keys = call[d].keys =>
        c = d \/ call[c].keys \subseteq overrun

\* A promise of the map belongs to a call that is still working on the key, or
\* was left behind by a rejected release: nobody waits for a call that is over.
PromiseIsAlive ==
    /\ \A p \in Instances, k \in Keys : lockMap[p][k] \in Calls =>
          LET c == lockMap[p][k]
          IN  Pod[c] = p /\ call[c].keys = {k} /\ call[c].at \in Working
    /\ \A d \in Calls : call[d].at = "joined" => call[call[d].on].at \in Working

\* A value stored with the tag is registered under it, so that the next
\* invalidation deletes it, or its SADD is still to come, whatever commands of
\* other pipelines ran between.  The one way to lose it is to register it when
\* an invalidation under way has not listed it, or has already deleted it.
TaggedKeysAreTracked ==
    \A k \in Tagged : store[k] # 0 /\ k \notin loose =>
        k \in members \/ \E p \in Instances : k \in pipe[p].add

\* "Only ONE concurrent fetcher runs per key."
OneFetcher ==
    \A c, d \in Calls :
        call[c].at = "fetch" /\ call[d].at = "fetch" /\ call[c].keys = call[d].keys
            => c = d
=============================================================================
