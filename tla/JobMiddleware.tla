--------------------------- MODULE JobMiddleware ---------------------------
(***************************************************************************)
(* Jobs of one key that a JobRunner wraps in WithoutOverlapping (outermost), *)
(* RateLimited and ThrottlesExceptions.  A middleware that refuses a job     *)
(* throws JobReleasedError, which passes through the outer ones and makes    *)
(* the queue run the job again later.  Every await of the cache is a step.   *)
(* Renewals that succeed change nothing; a lock that expires under its       *)
(* holder is a fault (lapse), as are calls of the cache that throw.          *)
(***************************************************************************)
EXTENDS Cache, FiniteSets

CONSTANTS
    Jobs,                  \* each run is a lock owner while it lasts
    RateMax, RateWindow,   \* options of RateLimited
    MaxExceptions, ExceptionWindow,
    MaxReleases,           \* the release budget of a job
    LastInstant,           \* bound on time
    MaxCacheFaults
\* What the constructors accept.
WithoutOverlappingOptions == None \notin Jobs /\ MaxReleases \in Nat
RateLimitedOptions == {RateMax, RateWindow} \subseteq Nat \ {0}
ThrottlesExceptionsOptions == {MaxExceptions, ExceptionWindow} \subseteq Nat \ {0}
ASSUME JobMiddlewareAssumption ==
    /\ WithoutOverlappingOptions /\ RateLimitedOptions /\ ThrottlesExceptionsOptions
    /\ LastInstant \in Nat \ {0} /\ MaxCacheFaults \in Nat

VARIABLES
    instant,
    overlapLock,     \* the owner of the lock, or None
    rate,            \* the fixed window of RateLimited
    exceptions,      \* the fixed window of ThrottlesExceptions
    job,
    together,        \* pairs of jobs whose runs were inside the lock at once
    recorded,        \* eligible failures counted in the current exception window
    cacheFaults
middlewareVars == <<instant, overlapLock, rate, exceptions, job, together, recorded, cacheFaults>>

NewRun == [pc |-> "waiting", availableAt |-> 0, releases |-> 0, lost |-> FALSE,
           thrown |-> "none", delay |-> 0]
Inside == {"rate", "throttle", "handler", "record", "release"}

MiddlewareTypeOK ==
    /\ instant \in 1..LastInstant /\ overlapLock \in Jobs \union {None}
    /\ job \in [Jobs -> [pc : {"waiting", "completed", "failed", "failedHook"} \union Inside,
                         availableAt : Nat, releases : 0..MaxReleases, lost : BOOLEAN,
                         thrown : {"none", "released", "error"}, delay : Nat]]
    /\ together \subseteq SUBSET Jobs /\ recorded \in Nat /\ cacheFaults \in 0..MaxCacheFaults

MiddlewareInit ==
    /\ instant = 1 /\ overlapLock = None /\ rate = Missing /\ exceptions = Missing
    /\ job = [j \in Jobs |-> NewRun] /\ together = {} /\ recorded = 0 /\ cacheFaults = 0

CacheThrows == cacheFaults < MaxCacheFaults /\ cacheFaults' = cacheFaults + 1
CacheAnswers == UNCHANGED cacheFaults

\* What the queue does with a job that threw: run it again after the delay while its
\* release budget lasts, or fail it.  A plain error fails it here (retries are the
\* queue's, see InMemoryQueue and BullMQQueue).
Released(j, delay) ==
    IF job[j].releases < MaxReleases
    THEN [NewRun EXCEPT !.availableAt = instant + delay, !.releases = job[j].releases + 1]
    ELSE [job[j] EXCEPT !.pc = "failed", !.thrown = "error"]

(***************************************************************************)
(* WithoutOverlapping                                                       *)
(***************************************************************************)
\* lock.acquire(): a busy lock releases the job (releaseAfterMilliseconds).
acquireLock(j) ==
    /\ job[j].pc = "waiting" /\ job[j].availableAt <= instant
    /\ \/ /\ overlapLock = None /\ CacheAnswers
          /\ overlapLock' = acquire(overlapLock, j)
          /\ job' = [job EXCEPT ![j].pc = "rate"]
          /\ together' = together \union {{j, k} : k \in {k \in Jobs : job[k].pc \in Inside}}
       \/ /\ overlapLock # None /\ CacheAnswers
          /\ job' = [job EXCEPT ![j] = Released(j, 1)]
          /\ UNCHANGED <<overlapLock, together>>
       \/ /\ CacheThrows
          /\ job' = [job EXCEPT ![j] = [@ EXCEPT !.pc = "failed", !.thrown = "error"]]
          /\ UNCHANGED <<overlapLock, together>>
    /\ UNCHANGED <<instant, rate, exceptions, recorded>>

\* The lock expires while its holder is inside: a renewal came too late.
lapse ==
    /\ overlapLock # None /\ cacheFaults < MaxCacheFaults
    /\ overlapLock' = None /\ cacheFaults' = cacheFaults + 1
    /\ UNCHANGED <<instant, rate, exceptions, job, together, recorded>>

\* The renewal timer finds the lock lost, or its call throws.
renewalFails(j) ==
    /\ job[j].pc \in Inside \ {"release"} /\ ~job[j].lost
    /\ \/ ~Owns(overlapLock, j) /\ CacheAnswers
       \/ CacheThrows
    /\ job' = [job EXCEPT ![j].lost = TRUE]
    /\ UNCHANGED <<instant, overlapLock, rate, exceptions, together, recorded>>

\* Leaving the inner middleware, with what was thrown.
InnerEnds(j, thrown, delay) ==
    job' = [job EXCEPT ![j] = [@ EXCEPT !.pc = "release", !.thrown = thrown, !.delay = delay]]

\* mutant: the answer of release() is not looked at
finishIgnoringRelease(j) ==
    /\ job[j].pc = "release" /\ CacheAnswers
    /\ overlapLock' = release(overlapLock, j)
    /\ job' = [job EXCEPT ![j] =
           IF job[j].thrown = "released" THEN Released(j, job[j].delay)
           ELSE [@ EXCEPT !.pc = IF job[j].thrown = "error" THEN "failed" ELSE "completed"]]
    /\ UNCHANGED <<instant, rate, exceptions, together, recorded>>

\* After next(): release the lock, then throw the operation's error, the loss of the
\* lock or the failure of the release, in this order.
finish(j) ==
    /\ job[j].pc = "release"
    /\ \E throws \in BOOLEAN :
       LET lost == job[j].lost \/ (~throws /\ ~Owns(overlapLock, j)) IN
       /\ IF throws THEN CacheThrows ELSE CacheAnswers
       /\ IF throws
          THEN overlapLock' \in {overlapLock, release(overlapLock, j)}
          ELSE overlapLock' = release(overlapLock, j)
       /\ job' = [job EXCEPT ![j] =
              IF job[j].thrown = "released" THEN Released(j, job[j].delay)
              ELSE [@ EXCEPT !.pc = IF job[j].thrown = "error" \/ lost \/ throws THEN "failed" ELSE "completed",
                             !.lost = lost]]
    /\ together' = IF job[j].thrown = "released" THEN {p \in together : j \notin p} ELSE together
    /\ UNCHANGED <<instant, rate, exceptions, recorded>>

\* A lock nobody will release any more expires (the release did not reach the cache).
expireLock ==
    /\ overlapLock # None /\ job[overlapLock].pc \notin Inside
    /\ overlapLock' = None
    /\ UNCHANGED <<instant, rate, exceptions, job, together, recorded, cacheFaults>>

(***************************************************************************)
(* RateLimited                                                              *)
(***************************************************************************)
hitRate(j) ==
    /\ job[j].pc = "rate"
    /\ \/ /\ CacheAnswers /\ rate' = hitFixedWindow(rate, RateWindow, instant)
          /\ IF attempts(rate', instant) <= RateMax
             THEN job' = [job EXCEPT ![j].pc = "throttle"]
             ELSE InnerEnds(j, "released", retryAfter(rate', instant))
       \/ CacheThrows /\ InnerEnds(j, "error", 0) /\ UNCHANGED rate
    /\ UNCHANGED <<instant, overlapLock, exceptions, together, recorded>>

\* fixedWindowState: an open throttle releases the job for the rest of the window.
checkThrottle(j) ==
    /\ job[j].pc = "throttle"
    /\ \/ /\ CacheAnswers
          /\ IF attempts(exceptions, instant) >= MaxExceptions
             THEN InnerEnds(j, "released", retryAfter(exceptions, instant))
             ELSE job' = [job EXCEPT ![j].pc = "handler"]
       \/ CacheThrows /\ InnerEnds(j, "error", 0)
    /\ UNCHANGED <<instant, overlapLock, rate, exceptions, together, recorded>>

\* The handler succeeds, throws what is not counted (released, not retryable, or
\* refused by the predicate), or throws what is (a predicate that throws counts too).
runHandler(j) ==
    /\ job[j].pc = "handler"
    /\ \/ \E thrown \in {"none", "error"} : InnerEnds(j, thrown, 0)
       \/ InnerEnds(j, "released", 1)
       \/ job' = [job EXCEPT ![j].pc = "record"]
    /\ UNCHANGED <<instant, overlapLock, rate, exceptions, together, recorded, cacheFaults>>

\* hitFixedWindow: the failure that fills the budget waits for the window's end.
recordFailure(j) ==
    /\ job[j].pc = "record"
    /\ \/ /\ CacheAnswers /\ exceptions' = hitFixedWindow(exceptions, ExceptionWindow, instant)
          /\ recorded' = attempts(exceptions', instant)
          /\ InnerEnds(j, "released", IF recorded' >= MaxExceptions THEN retryAfter(exceptions', instant) ELSE 1)
       \/ CacheThrows /\ InnerEnds(j, "error", 0) /\ UNCHANGED <<exceptions, recorded>>
    /\ UNCHANGED <<instant, overlapLock, rate, together>>

(***************************************************************************)
(* The queue                                                                *)
(***************************************************************************)
\* The failed phase of a terminal failure passes through every middleware.
failedPhase(j) ==
    /\ job[j].pc = "failed" /\ job' = [job EXCEPT ![j].pc = "failedHook"]
    /\ UNCHANGED <<instant, overlapLock, rate, exceptions, together, recorded, cacheFaults>>
MiddlewareTick ==
    /\ instant < LastInstant /\ instant' = instant + 1
    /\ UNCHANGED <<overlapLock, rate, exceptions, job, together, recorded, cacheFaults>>

MiddlewareNext ==
    \/ \E j \in Jobs : \/ acquireLock(j) \/ renewalFails(j) \/ finish(j) \/ hitRate(j)
                       \/ checkThrottle(j) \/ runHandler(j) \/ recordFailure(j) \/ failedPhase(j)
    \/ lapse \/ expireLock \/ MiddlewareTick

MiddlewareSpec == MiddlewareInit /\ [][MiddlewareNext]_middlewareVars

\* Of two jobs that were inside WithoutOverlapping at the same time at most one is
\* reported as completed: the one whose lock lapsed learns of it from a renewal or from
\* its release, whatever the other did meanwhile, and fails (JobOverlapLockLostError).
OverlapIsReported ==
    \A pair \in together : Cardinality({j \in pair : job[j].pc = "completed"}) <= 1

\* An exception window counts at most MaxExceptions failures, plus one for each lock
\* that was lost: under the lock no job reads the window before another's failure and
\* runs its handler after it.
ThrottleIsExact == recorded <= MaxExceptions + cacheFaults

\* Jobs of one key under lapsing locks and failing caches: overlap never goes unreported,
\* and the exception window is exact but for the locks that were lost.
MiddlewareIsExact == OverlapIsReported /\ ThrottleIsExact
=============================================================================
