------------------------------- MODULE Cache -------------------------------
(***************************************************************************)
(* One key of a cache: what InMemoryCache does to its entry, and what the   *)
(* commands and scripts of RedisCache do to the same key in Redis.          *)
(* A value is a pair: a number, any other JSON value ("json"), or a fixed   *)
(* window with its attempts.  In memory the number of a JSON value stands   *)
(* for the value as Object.is knows it, an object by its reference; in      *)
(* Redis for the text that encode gives it.  TTLs are given as the instant  *)
(* they resolve to (resolveExpiration, ttlMilliseconds); Never is a call    *)
(* without a TTL.                                                           *)
(* Every operator takes the time and gives the entry after the call.        *)
(***************************************************************************)
EXTENDS Integers

Never == 0
Missing == [present |-> FALSE, value |-> <<"json", 0>>, expiresAt |-> Never]
Past(at, now) == at # Never /\ at <= now

\* #entry: an entry past its expiry is deleted by whoever looks at it.  The sweep
\* of #maybeSweep deletes the same entries and nobody can tell.
entry(e, now) == IF Past(e.expiresAt, now) THEN Missing ELSE e
has(e, now) == entry(e, now).present

\* JsonCacheSerializer.encode: object 1 is a copy of object 0, and has its text.
encode(v) == IF v = <<"json", 1>> THEN <<"json", 0>> ELSE v

\* Object.is of the entry's value, and GET of its payload: what is expected is the value
\* itself in memory, and its text in Redis.
Matches(e, expected, now) == has(e, now) /\ e.value = expected

\* put and forever: a TTL that is not positive removes the key.
put(v, at, now) ==
    IF Past(at, now) THEN Missing ELSE [present |-> TRUE, value |-> v, expiresAt |-> at]

\* add stores where nothing is stored, and says whether it did.
adds(e, at, now) == ~has(e, now) /\ ~Past(at, now)
add(e, v, at, now) == IF adds(e, at, now) THEN put(v, at, now) ELSE entry(e, now)

\* forgetIf and expireIf act for the holder of the expected value only.
forgetIf(e, expected, now) == IF Matches(e, expected, now) THEN Missing ELSE entry(e, now)
expireIf(e, expected, at, now) ==
    IF Matches(e, expected, now) THEN put(e.value, at, now) ELSE entry(e, now)

Numeric(e) == e.present => e.value[1] = "number"

\* increment and decrement.  An existing expiry is kept; the TTL of the call
\* counts where there is none, for a new counter and for a permanent one.
increment(e, amount, at, now) ==
    LET c == entry(e, now)
        current == IF c.present THEN c.value[2] ELSE 0
        expiresAt == IF c.expiresAt # Never THEN c.expiresAt ELSE at
    IN IF ~Numeric(c) THEN c
       ELSE IF Past(expiresAt, now) THEN c
       ELSE put(<<"number", current + amount>>, expiresAt, now)

\* hitFixedWindow: the first hit opens the window, later ones count in it.
hitFixedWindow(e, window, now) ==
    LET c == entry(e, now)
        existing == c.present /\ c.value[1] = "window"
    IN [present |-> TRUE,
        value |-> <<"window", IF existing THEN c.value[2] + 1 ELSE 1>>,
        expiresAt |-> IF existing THEN c.expiresAt ELSE now + window]

\* fixedWindowState
attempts(e, now) ==
    LET c == entry(e, now) IN IF c.present /\ c.value[1] = "window" THEN c.value[2] ELSE 0
retryAfter(e, now) == IF e.expiresAt - now > 1 THEN e.expiresAt - now ELSE 1

(***************************************************************************)
(* RedisCache.  SET, SET NX, DEL and the compare scripts do what put, add,  *)
(* forget and forgetIf do above; these scripts are written differently.     *)
(***************************************************************************)
\* COMPARE_EXPIRE
compareExpire(e, expected, at, now) ==
    IF ~Matches(e, expected, now) THEN entry(e, now)
    ELSE IF at <= now THEN Missing ELSE [e EXCEPT !.expiresAt = at]

\* mutant: the counter is set again with the TTL of the call
counterResets(e, amount, at, now) ==
    LET raw == entry(e, now)
        result == (IF raw.present THEN raw.value[2] ELSE 0) + amount
    IN IF ~Numeric(raw) THEN raw ELSE put(<<"number", result>>, at, now)

\* COUNTER: a permanent counter stays permanent, whatever TTL the call has.
counter(e, amount, at, now) ==
    LET raw == entry(e, now)
        encoded == <<"number", (IF raw.present THEN raw.value[2] ELSE 0) + amount>>
    IN IF ~Numeric(raw) THEN raw
       ELSE IF raw.present THEN [raw EXCEPT !.value = encoded]
       ELSE put(encoded, at, now)

\* FIXED_WINDOW_HIT
fixedWindowHit(e, window, now) ==
    IF ~e.present \/ e.expiresAt <= now
    THEN [present |-> TRUE, value |-> <<"window", 1>>, expiresAt |-> now + window]
    ELSE [e EXCEPT !.value[2] = @ + 1]

(***************************************************************************)
(* CacheLock over these owner-atomic calls (InMemoryCache, and the scripts *)
(* of RedisCache).  The value under the lock's key is its owner, or None   *)
(* when the key is absent or past its expiry.  Owners are random and       *)
(* unique.  Expiry is an action of the modules that use locks.             *)
(***************************************************************************)
None == "none"

\* cache.expireIf and owned(): the call succeeds for the current owner only.
Owns(lock, owner) == lock = owner

\* acquire(): cache.add stores the owner where the key is absent.
acquire(lock, owner) == IF lock = None THEN owner ELSE lock

\* release(): cache.forgetIf removes the key of its owner and no other.
release(lock, owner) == IF Owns(lock, owner) THEN None ELSE lock
=============================================================================
