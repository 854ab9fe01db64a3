---------------------------- MODULE RateLimiter ----------------------------
(***************************************************************************)
(* RateLimiter.hit of one key by concurrent requests.  With an atomic       *)
(* cache a hit is one call (hitFixedWindow).  Otherwise it reads its clock,  *)
(* adds a timer that holds the window's end, reads it back and increments    *)
(* the counter of that end, and other requests, a clear and the clock run    *)
(* between these steps.  The cache counts the timer's TTL from its own later *)
(* clock, so that a timer may outlive the end it holds.                      *)
(***************************************************************************)
EXTENDS Cache, FiniteSets

CONSTANTS
    Requests,
    MaxAttempts,   \* allowed in a window
    Decay,         \* length of a window
    MaxTime        \* bound on time
ASSUME RateLimiterAssumption == {MaxAttempts, Decay, MaxTime} \subseteq Nat \ {0}

VARIABLES
    atomicFixedWindow,
    time,
    timer,       \* the cache entry of #timerKey
    counters,    \* the entries of #attemptsKey, one for each window's end
    window,      \* the entry of #atomicKey
    request,     \* of each request its program counter, what it reads and its answer, with
                 \* the window it is made in (the end that the timer held when it was added),
                 \* whether it lost that window (it ended, or its timer was cleared) before
                 \* its answer, and whether the clock ran between its clock and its add
    clearing     \* a clear: the removals it still makes, and the end it read
limiterVars == <<atomicFixedWindow, time, timer, counters, window, request, clearing>>

Ends == 1..(MaxTime + Decay)
Fresh == [pc |-> "idle", now |-> 0, made |-> 0, resetAt |-> 0, allowed |-> FALSE,
          late |-> FALSE, waited |-> FALSE]
Hits == [pc : {"idle", "add", "get", "increment", "answered"}, now : 0..MaxTime,
         made : {0} \union Ends, resetAt : {0} \union Ends, allowed : BOOLEAN, late : BOOLEAN,
         waited : BOOLEAN]
Clears == [pc : {"idle", "both", "timer", "counter", "cleared"}, resetAt : {0} \union Ends]

LimiterTypeOK ==
    /\ atomicFixedWindow \in BOOLEAN /\ time \in 1..MaxTime
    /\ DOMAIN counters = Ends
    /\ request \in [Requests -> Hits] /\ clearing \in Clears

LimiterInit ==
    /\ atomicFixedWindow \in BOOLEAN /\ time = 1 /\ timer = Missing /\ window = Missing
    /\ counters = [r \in Ends |-> Missing] /\ request = [q \in Requests |-> Fresh]
    /\ clearing = [pc |-> "idle", resetAt |-> 0]

\* The result of a hit; ThrottleRequests answers 429 unless it is allowed.
Answer(q, count, made) ==
    request' = [request EXCEPT ![q].pc = "answered", ![q].made = made,
                               ![q].allowed = count <= MaxAttempts, ![q].late = @ \/ made <= time]

hitAtomically(q) ==
    /\ atomicFixedWindow /\ request[q].pc = "idle"
    /\ window' = hitFixedWindow(window, Decay, time)
    /\ Answer(q, attempts(window', time), window'.expiresAt)
    /\ UNCHANGED <<atomicFixedWindow, time, timer, counters, clearing>>

\* now = this.now(), and the end of a window that starts now
hitReadsClock(q) ==
    /\ ~atomicFixedWindow /\ request[q].pc = "idle"
    /\ request' = [request EXCEPT ![q].pc = "add", ![q].now = time, ![q].resetAt = time + Decay]
    /\ UNCHANGED <<atomicFixedWindow, time, timer, counters, window, clearing>>

\* cache.add(timerKey, resetAt, decaySeconds): the TTL starts at the cache's clock.
hitAddsTimer(q) ==
    /\ request[q].pc = "add"
    /\ timer' = add(timer, <<"number", request[q].resetAt>>, time + Decay, time)
    /\ request' = [request EXCEPT ![q].pc = "get", ![q].made = timer'.value[2],
                                  ![q].waited = request[q].now < time]
    /\ UNCHANGED <<atomicFixedWindow, time, counters, window, clearing>>

\* mutant: the request's own end of the window is used
hitKeepsOwnEnd(q) ==
    /\ request[q].pc = "get" /\ request' = [request EXCEPT ![q].pc = "increment"]
    /\ UNCHANGED <<atomicFixedWindow, time, timer, counters, window, clearing>>

\* cache.get(timerKey, resetAt): the request's own end where the timer has gone.
hitReadsTimer(q) ==
    /\ request[q].pc = "get"
    /\ request' = [request EXCEPT ![q].pc = "increment",
                                  ![q].resetAt = IF has(timer, time) THEN timer.value[2] ELSE @]
    /\ UNCHANGED <<atomicFixedWindow, time, timer, counters, window, clearing>>

\* cache.increment(attemptsKey, 1, storedResetAt): past its end a counter is not
\* stored and every late hit is the first.
hitCounts(q) ==
    LET end == request[q].resetAt
        current == entry(counters[end], time)
    IN /\ request[q].pc = "increment"
       /\ counters' = [counters EXCEPT ![end] = increment(@, 1, end, time)]
       /\ Answer(q, 1 + (IF current.present THEN current.value[2] ELSE 0), request[q].made)
       /\ UNCHANGED <<atomicFixedWindow, time, timer, window, clearing>>

\* clear: one call, or a read of the timer and then, both under way at once, the removal
\* of the timer and, where it was read, of the counter of its end.
clearAtomically ==
    /\ atomicFixedWindow /\ clearing.pc = "idle"
    /\ window' = Missing /\ clearing' = [clearing EXCEPT !.pc = "cleared"]
    /\ UNCHANGED <<atomicFixedWindow, time, timer, counters, request>>
clearReads ==
    /\ ~atomicFixedWindow /\ clearing.pc = "idle"
    /\ clearing' = IF has(timer, time) THEN [pc |-> "both", resetAt |-> timer.value[2]]
                   ELSE [pc |-> "timer", resetAt |-> 0]
    /\ UNCHANGED <<atomicFixedWindow, time, timer, counters, window, request>>
\* A request about to read the timer loses its window; one that has read it does not.
clearForgetsTimer ==
    /\ clearing.pc \in {"both", "timer"}
    /\ timer' = Missing
    /\ clearing' = [clearing EXCEPT !.pc = IF @ = "both" THEN "counter" ELSE "cleared"]
    /\ request' = [q \in Requests |-> [request[q] EXCEPT !.late = @ \/ request[q].pc = "get"]]
    /\ UNCHANGED <<atomicFixedWindow, time, counters, window>>
clearForgetsCounter ==
    /\ clearing.pc \in {"both", "counter"}
    /\ counters' = [counters EXCEPT ![clearing.resetAt] = Missing]
    /\ clearing' = [clearing EXCEPT !.pc = IF @ = "both" THEN "timer" ELSE "cleared"]
    /\ UNCHANGED <<atomicFixedWindow, time, timer, window, request>>

LimiterTick ==
    /\ time < MaxTime /\ time' = time + 1
    /\ UNCHANGED <<atomicFixedWindow, timer, counters, window, request, clearing>>

LimiterNext ==
    \/ \E q \in Requests : \/ hitAtomically(q) \/ hitReadsClock(q) \/ hitAddsTimer(q)
                          \/ hitReadsTimer(q) \/ hitCounts(q)
    \/ clearAtomically \/ clearReads \/ clearForgetsTimer \/ clearForgetsCounter \/ LimiterTick

LimiterSpec == LimiterInit /\ [][LimiterNext]_limiterVars

AllowedIn(end) == {q \in Requests : request[q].allowed /\ request[q].made = end}
Straddlers(end) == {q \in Requests : request[q].late /\ request[q].made = end}

\* A clear has removed the hits counted so far.
Restarted == clearing.pc \in {"timer", "cleared"} /\ (atomicFixedWindow \/ clearing.resetAt # 0)

\* Of the requests made in one window no more are allowed than the limit, once more when a
\* clear removed its hits, plus one for each that was answered without the window: it ended
\* while the request was between its calls of the cache, or before the request was made,
\* or a clear took the timer that the request had still to read.
\* A request is made in a window that has ended by its own clock only where the timer
\* outlives the end it holds: the request that stored it waited between reading its
\* clock and the cache's add.  With an atomic cache there is none of this.
LimitIsPaid ==
    /\ \A end \in Ends :
          Cardinality(AllowedIn(end)) <= MaxAttempts * (IF Restarted THEN 2 ELSE 1)
                                         + Cardinality(Straddlers(end))
    /\ \A q \in Requests :
          request[q].made # 0 /\ request[q].made <= request[q].now
             => \E p \in Requests : request[p].waited /\ request[p].now + Decay = request[q].made
    /\ atomicFixedWindow => \A q \in Requests : ~request[q].late

\* "hit: Atomically consumes one attempt and returns window metadata" (docs/modules.md):
\* no more requests of a window are allowed than the limit, without a clear.
HitsAreAtomic ==
    clearing.pc = "idle" => \A end \in Ends : Cardinality(AllowedIn(end)) <= MaxAttempts
=============================================================================
