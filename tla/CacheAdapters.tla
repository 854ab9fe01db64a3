--------------------------- MODULE CacheAdapters ---------------------------
(***************************************************************************)
(* The same calls made of InMemoryCache and of RedisCache: an application   *)
(* binds either to cacheToken and must not be able to tell them apart.      *)
(***************************************************************************)
EXTENDS Cache

CONSTANTS
    MaxClock,    \* bound on time
    MaxCount     \* bound on counters and attempts
ASSUME CacheAdaptersAssumption == MaxClock \in Nat \ {0} /\ MaxCount \in Nat \ {0}

VARIABLES
    clock,
    memory, redis,               \* the entry of an ordinary key in each
    memoryWindow, redisWindow,   \* the entry of a fixed window in each
    apart                        \* since put or forget, a call on which they differ
adapterVars == <<clock, memory, redis, memoryWindow, redisWindow, apart>>

Values == {<<"number", n>> : n \in {0, 1}} \union {<<"json", n>> : n \in {-1, 0, 1}}
Instants == {Never} \union clock..(clock + 2)

AdaptersInit ==
    /\ clock = 1 /\ apart = FALSE
    /\ memory = Missing /\ redis = Missing /\ memoryWindow = Missing /\ redisWindow = Missing

Entries == [present : BOOLEAN, value : {"number", "json", "window"} \X (-MaxCount..MaxCount),
            expiresAt : 0..(MaxClock + 2)]
AdaptersTypeOK ==
    /\ clock \in 1..MaxClock /\ apart \in BOOLEAN
    /\ {memory, redis, memoryWindow, redisWindow} \subseteq Entries

OnKey(m, r) ==
    memory' = m /\ redis' = r /\ UNCHANGED <<clock, memoryWindow, redisWindow>>

callPut(v, at) == OnKey(put(v, at, clock), put(encode(v), at, clock)) /\ apart' = FALSE
callAdd(v, at) ==
    OnKey(add(memory, v, at, clock), add(redis, encode(v), at, clock)) /\ UNCHANGED apart
\* forget, pull and flush leave nothing under the key.
callForget == OnKey(Missing, Missing) /\ apart' = FALSE
\* The caller expects an object by another reference: memory compares references, Redis
\* the text.
expectsCopy(v) == has(memory, clock) /\ memory.value # v /\ encode(memory.value) = encode(v)
callForgetIf(v) ==
    /\ OnKey(forgetIf(memory, v, clock), forgetIf(redis, encode(v), clock))
    /\ apart' = (apart \/ expectsCopy(v))
callExpireIf(v, at) ==
    /\ at # Never
    /\ OnKey(expireIf(memory, v, at, clock), compareExpire(redis, encode(v), at, clock))
    /\ apart' = (apart \/ expectsCopy(v))
callIncrement(amount, at) ==
    /\ \A e \in {memory, redis} :
          Numeric(e) => entry(e, clock).value[2] + amount \in -MaxCount..MaxCount
    /\ OnKey(increment(memory, amount, at, clock), counter(redis, amount, at, clock))
    /\ apart' = (apart \/ (has(memory, clock) /\ Numeric(memory) /\ memory.expiresAt = Never /\ at # Never))
callHitFixedWindow ==
    /\ attempts(memoryWindow, clock) < MaxCount
    /\ memoryWindow' = hitFixedWindow(memoryWindow, 2, clock)
    /\ redisWindow' = fixedWindowHit(redisWindow, 2, clock)
    /\ UNCHANGED <<clock, memory, redis, apart>>
callClearFixedWindow ==
    /\ memoryWindow' = Missing /\ redisWindow' = Missing
    /\ UNCHANGED <<clock, memory, redis, apart>>
AdaptersTick ==
    /\ clock < MaxClock /\ clock' = clock + 1
    /\ UNCHANGED <<memory, redis, memoryWindow, redisWindow, apart>>

AdaptersNext ==
    \/ \E v \in Values, at \in Instants : callPut(v, at) \/ callAdd(v, at) \/ callExpireIf(v, at)
    \/ \E v \in Values : callForgetIf(v)
    \/ \E amount \in {-1, 1}, at \in Instants : callIncrement(amount, at)
    \/ callForget \/ callHitFixedWindow \/ callClearFixedWindow \/ AdaptersTick

AdaptersSpec == AdaptersInit /\ [][AdaptersNext]_adapterVars

\* An entry as Redis holds it.
AsText(e) == [e EXCEPT !.value = encode(@)]

\* The two adapters hold the same visible entries after the same calls, so get, has,
\* the answers of add, forgetIf and expireIf, the counter's value and the window's
\* state are the same, but for two calls on a key until it is put or forgotten: an
\* increment with a TTL of a counter without expiry, which InMemoryCache.increment
\* gives the TTL and the COUNTER script keeps for ever; and forgetIf or expireIf of an
\* object by another reference to the same JSON, which InMemoryCache refuses (Object.is)
\* and the compare scripts accept.
AdaptersAgree ==
    /\ apart \/ entry(AsText(memory), clock) = entry(redis, clock)
    /\ entry(memoryWindow, clock) = entry(redisWindow, clock)
=============================================================================
