----------------------------- MODULE Scheduler -----------------------------
(***************************************************************************)
(* scheduler-nuxt: one scheduled task run by several servers.  Every server *)
(* keeps a ScheduledMinuteGuard; a run takes the overlap lease and claims    *)
(* its occurrence through CacheLockSchedulerLockProvider, executes, checks   *)
(* the lease, completes the claim and releases the lease.  Each awaited call *)
(* of the cache is a step, and may fail before or after it took effect.      *)
(*                                                                         *)
(* Renewals that succeed change nothing here: expiry under a live owner is   *)
(* a fault (Lapse), expiry of a lock that nobody renews is not (Expire).     *)
(* A completed claim is retained as long as its occurrence can be replayed,  *)
(* as occurrenceRetentionSeconds is to be configured.                        *)
(***************************************************************************)
EXTENDS Cache, FiniteSets

CONSTANTS
    Servers,     \* processes, each with its own guard
    Runs,        \* invocations of the task; each is also a lock owner
    ServerOf,    \* the server of each run
    MinutesOf,   \* the minutes each run may be invoked for
    Policies,    \* subsets of {"overlap", "oneServer"} the task may declare
    MaxMinute,   \* occurrences are minutes 1..MaxMinute
    MaxFaults    \* lapses, failed calls and crashes

ASSUME SchedulerAssumption ==
    /\ None \notin Runs /\ ServerOf \in [Runs -> Servers]
    /\ MinutesOf \in [Runs -> SUBSET (1..MaxMinute)]
    /\ Policies \subseteq SUBSET {"overlap", "oneServer"}
    /\ MaxMinute \in Nat /\ MaxFaults \in Nat

Minutes == 1..MaxMinute

VARIABLES
    policy,     \* what the task declares
    overlap,    \* the owner of the overlap lock
    marker,     \* the owner of each occurrence's lock
    guard,      \* ScheduledMinuteGuard of each server
    run,        \* the runs
    met,        \* pairs of runs that held leases at the same time
    faults
vars == <<policy, overlap, marker, guard, run, met, faults>>

Waiting == {"scope", "acquire", "claim"}
Working == {"execute", "assertExecuted", "hook", "assertHooked", "complete"}
Leaving == {"release", "skip", "dropClaim", "dropLease"}
Ended   == {"completed", "skipped", "failed", "dead"}

Idle == [pc |-> "idle", minute |-> 0, lease |-> "none", leaseLost |-> FALSE,
         claim |-> "none", claimLost |-> FALSE]

TypeOK ==
    /\ policy \in Policies /\ faults \in 0..MaxFaults
    /\ overlap \in Runs \union {None} /\ marker \in [Minutes -> Runs \union {None}]
    /\ guard \in [Servers -> [minute : 0..MaxMinute, state : {"none", "in-flight", "completed"}]]
    /\ run \in [Runs -> [pc : {"idle"} \union Waiting \union Working \union Leaving \union Ended,
                         minute : 0..MaxMinute,
                         lease : {"none", "active", "left"}, leaseLost : BOOLEAN,
                         claim : {"none", "active", "completed", "left"}, claimLost : BOOLEAN]]
    /\ met \subseteq SUBSET Runs

Init ==
    /\ policy \in Policies /\ overlap = None /\ marker = [m \in Minutes |-> None]
    /\ guard = [s \in Servers |-> [minute |-> 0, state |-> "none"]]
    /\ run = [r \in Runs |-> Idle] /\ met = {} /\ faults = 0

Goto(r, pc) == run' = [run EXCEPT ![r].pc = pc]

\* A call of the cache may be answered or fail; a failed one took effect or not.
Fault == faults < MaxFaults /\ faults' = faults + 1
NoFault == UNCHANGED faults

(***************************************************************************)
(* ScheduledMinuteGuard                                                     *)
(***************************************************************************)
\* complete(): the minute is done, if the guard still remembers it.
guardComplete(r) ==
    guard' = [guard EXCEPT ![ServerOf[r]] =
                IF @.minute = run[r].minute THEN [@ EXCEPT !.state = "completed"] ELSE @]

\* mutant: fail() tests for the wrong state
guardFailCompleted(r) ==
    guard' = [guard EXCEPT ![ServerOf[r]] =
                IF @.minute = run[r].minute /\ @.state = "completed"
                THEN [minute |-> 0, state |-> "none"] ELSE @]

\* fail(): a minute in flight may be tried again.
guardFail(r) ==
    guard' = [guard EXCEPT ![ServerOf[r]] =
                IF @.minute = run[r].minute /\ @.state = "in-flight"
                THEN [minute |-> 0, state |-> "none"] ELSE @]

\* An invocation for minute m, which with event timestamps may be a replay of an
\* earlier one: check() refuses a minute the guard remembers.  An invocation
\* that the task's zone makes not due changes nothing and is not modelled.
check(r, m) ==
    /\ run[r].pc = "idle"
    /\ IF guard[ServerOf[r]].minute = m
       THEN run' = [run EXCEPT ![r].pc = "skipped", ![r].minute = m] /\ UNCHANGED guard
       ELSE /\ run' = [run EXCEPT ![r].pc = "scope", ![r].minute = m]
            /\ guard' = [guard EXCEPT ![ServerOf[r]] = [minute |-> m, state |-> "in-flight"]]
    /\ UNCHANGED <<policy, overlap, marker, met, faults>>

(***************************************************************************)
(* SchedulerRunner.run up to the execution                                  *)
(***************************************************************************)
\* The first call a run makes after its scope was created, by the task's policy.
AfterScope == IF "overlap" \in policy THEN "acquire"
              ELSE IF "oneServer" \in policy THEN "claim" ELSE "execute"
AfterLease == IF "oneServer" \in policy THEN "claim" ELSE "execute"

\* createScope throws, or the task is skipped for maintenance, or the run starts.
OpenScope(r) ==
    /\ run[r].pc = "scope"
    /\ \/ Goto(r, "failed") /\ guardFail(r)
       \/ Goto(r, "skipped") /\ guardComplete(r)
       \/ Goto(r, AfterScope) /\ UNCHANGED guard
    /\ UNCHANGED <<policy, overlap, marker, met, faults>>

\* Runs whose lease is being held, as far as their code goes.
InSection(r) == run[r].lease = "active"

\* provider.acquire: the lease, or the run is skipped because it is locked.
AcquireLease(r) ==
    /\ run[r].pc = "acquire"
    /\ overlap' = acquire(overlap, r)
    /\ IF Owns(overlap', r)
       THEN /\ run' = [run EXCEPT ![r].pc = AfterLease, ![r].lease = "active"]
            /\ met' = met \union {{q, r} : q \in {q \in Runs : InSection(q)}}
            /\ UNCHANGED guard
       ELSE Goto(r, "skipped") /\ guardFail(r) /\ UNCHANGED met
    /\ UNCHANGED <<policy, marker, faults>>

AcquireLeaseFails(r) ==
    /\ run[r].pc = "acquire" /\ Fault
    /\ overlap' \in {overlap, acquire(overlap, r)}
    /\ Goto(r, "failed") /\ guardFail(r)
    /\ UNCHANGED <<policy, marker, met>>

\* The occurrence is another run's: the lease is given back first.
ClaimRefused(r) == [run EXCEPT ![r].pc = "skip"]

\* provider.claim
ClaimOccurrence(r) ==
    LET m == run[r].minute IN
    /\ run[r].pc = "claim"
    /\ marker' = [marker EXCEPT ![m] = acquire(@, r)]
    /\ run' = IF Owns(marker'[m], r)
              THEN [run EXCEPT ![r].pc = "execute", ![r].claim = "active"]
              ELSE ClaimRefused(r)
    /\ UNCHANGED <<policy, overlap, guard, met, faults>>

ClaimOccurrenceFails(r) ==
    LET m == run[r].minute IN
    /\ run[r].pc = "claim" /\ Fault
    /\ marker' \in {marker, [marker EXCEPT ![m] = acquire(@, r)]}
    /\ Goto(r, "dropLease")
    /\ UNCHANGED <<policy, overlap, guard, met>>

(***************************************************************************)
(* The execution, its checks and the claim's completion                     *)
(***************************************************************************)
\* The operation or the dispatch to the queue, then the success hook: each ends
\* or throws.  The failure hook changes nothing here, whether it throws or not.
Execute(r) ==
    /\ \/ run[r].pc = "execute" /\ \E pc \in {"assertExecuted", "dropClaim"} : Goto(r, pc)
       \/ run[r].pc = "hook" /\ \E pc \in {"assertHooked", "dropClaim"} : Goto(r, pc)
    /\ UNCHANGED <<policy, overlap, marker, guard, met, faults>>

\* lease.assertOwned, before the success hook and after it.
assertOwned(r) ==
    LET owned == run[r].lease = "none" \/ (~run[r].leaseLost /\ Owns(overlap, r))
        next  == IF run[r].pc = "assertExecuted" THEN "hook" ELSE "complete"
    IN  /\ run[r].pc \in {"assertExecuted", "assertHooked"}
        /\ run' = IF owned THEN [run EXCEPT ![r].pc = next]
                  ELSE [run EXCEPT ![r].pc = "dropClaim", ![r].leaseLost = TRUE]
        /\ UNCHANGED <<policy, overlap, marker, guard, met, faults>>

assertOwnedFails(r) ==
    /\ run[r].pc \in {"assertExecuted", "assertHooked"} /\ run[r].lease = "active" /\ Fault
    /\ Goto(r, "dropClaim")
    /\ UNCHANGED <<policy, overlap, marker, guard, met>>

\* claim.complete: renewals stop, and the marker is kept for the full retention
\* if it is still this run's.
complete(r) ==
    LET mine == ~run[r].claimLost /\ Owns(marker[run[r].minute], r) IN
    /\ run[r].pc = "complete"
    /\ run' = IF run[r].claim = "none" THEN [run EXCEPT ![r].pc = "release"]
              ELSE IF mine THEN [run EXCEPT ![r].pc = "release", ![r].claim = "completed"]
              ELSE [run EXCEPT ![r].pc = "dropClaim", ![r].claimLost = TRUE]
    /\ UNCHANGED <<policy, overlap, marker, guard, met, faults>>

completeFails(r) ==
    /\ run[r].pc = "complete" /\ run[r].claim = "active" /\ ~run[r].claimLost /\ Fault
    /\ run' = [run EXCEPT ![r].pc = "dropClaim", ![r].claimLost = TRUE]
    /\ UNCHANGED <<policy, overlap, marker, guard, met>>

(***************************************************************************)
(* Giving back                                                              *)
(***************************************************************************)
\* claim.release in the catch: also a claim that is lost is released.
DropClaim(r) ==
    LET m == run[r].minute IN
    /\ run[r].pc = "dropClaim"
    /\ \/ NoFault /\ marker' = IF run[r].claim = "none" THEN marker
                                ELSE [marker EXCEPT ![m] = release(@, r)]
       \/ Fault /\ run[r].claim # "none" /\ marker' \in {marker, [marker EXCEPT ![m] = release(@, r)]}
    /\ run' = [run EXCEPT ![r].pc = "dropLease", ![r].claim = IF @ = "none" THEN @ ELSE "left"]
    /\ UNCHANGED <<policy, overlap, guard, met>>

\* mutant: the answer of the release is ignored
LeftWellUnconfirmed(r) == run[r].lease = "none" \/ ~run[r].leaseLost

\* lease.release succeeds for a run without a lease, and for one that is told
\* neither by a renewal nor by the release itself that the lock is not its own.
LeftWell(r) == run[r].lease = "none" \/ (~run[r].leaseLost /\ Owns(overlap, r))

Leave(r, pc) ==
    /\ run' = [run EXCEPT ![r].pc = pc, ![r].lease = IF @ = "none" THEN @ ELSE "left",
                          ![r].leaseLost = FALSE, ![r].claimLost = FALSE]
    /\ IF pc = "completed" THEN guardComplete(r) ELSE guardFail(r)

\* lease.release at the three places that call it, and settleMinuteGuard or the
\* guard's fail() after it.  A lease that is lost is not released.
LeaveLease(r) ==
    /\ run[r].pc \in {"release", "skip", "dropLease"}
    /\ overlap' = IF run[r].lease = "active" /\ ~run[r].leaseLost THEN release(overlap, r) ELSE overlap
    /\ Leave(r, IF ~LeftWell(r) \/ run[r].pc = "dropLease" THEN "failed"
                ELSE IF run[r].pc = "skip" THEN "skipped" ELSE "completed")
    /\ UNCHANGED <<policy, marker, met, faults>>

LeaveLeaseFails(r) ==
    /\ run[r].pc \in {"release", "skip", "dropLease"}
    /\ run[r].lease = "active" /\ ~run[r].leaseLost /\ Fault
    /\ overlap' \in {overlap, release(overlap, r)}
    /\ Leave(r, "failed")
    /\ UNCHANGED <<policy, marker, met>>

(***************************************************************************)
(* Renewals, expiry, crashes                                                *)
(***************************************************************************)
\* The timers of a lease and of a claim run until it is left or found lost.
RenewsLease(r) == run[r].lease = "active" /\ ~run[r].leaseLost
RenewsClaim(r) == run[r].claim = "active" /\ ~run[r].claimLost

\* A renewal finds another owner, or none, or cannot reach the cache.
RenewLease(r) ==
    /\ RenewsLease(r)
    /\ \/ ~Owns(overlap, r) /\ NoFault
       \/ Owns(overlap, r) /\ Fault
    /\ run' = [run EXCEPT ![r].leaseLost = TRUE]
    /\ UNCHANGED <<policy, overlap, marker, guard, met>>

RenewClaim(r) ==
    /\ RenewsClaim(r)
    /\ \/ ~Owns(marker[run[r].minute], r) /\ NoFault
       \/ Owns(marker[run[r].minute], r) /\ Fault
    /\ run' = [run EXCEPT ![r].claimLost = TRUE]
    /\ UNCHANGED <<policy, overlap, marker, guard, met>>

\* A lock that nobody renews expires; one whose renewal is late lapses.
ExpireLease ==
    /\ overlap # None /\ ~RenewsLease(overlap)
    /\ overlap' = None
    /\ UNCHANGED <<policy, marker, guard, run, met, faults>>

LapseLease ==
    /\ overlap # None /\ RenewsLease(overlap) /\ Fault
    /\ overlap' = None
    /\ UNCHANGED <<policy, marker, guard, run, met>>

ExpireClaim(m) ==
    /\ marker[m] # None /\ run[marker[m]].claim # "completed" /\ ~RenewsClaim(marker[m])
    /\ marker' = [marker EXCEPT ![m] = None]
    /\ UNCHANGED <<policy, overlap, guard, run, met, faults>>

LapseClaim(m) ==
    /\ marker[m] # None /\ RenewsClaim(marker[m]) /\ Fault
    /\ marker' = [marker EXCEPT ![m] = None]
    /\ UNCHANGED <<policy, overlap, guard, run, met>>

\* A server dies and is started again: its runs and its guard are gone.
Crash(s) ==
    /\ Fault /\ \E r \in Runs : ServerOf[r] = s /\ run[r].pc \notin Ended \union {"idle"}
    /\ run' = [r \in Runs |->
                 IF ServerOf[r] = s /\ run[r].pc \notin Ended \union {"idle"}
                 THEN [run[r] EXCEPT !.pc = "dead", !.lease = "left", !.leaseLost = FALSE, !.claimLost = FALSE,
                                     !.claim = IF @ = "completed" THEN @ ELSE "left"]
                 ELSE run[r]]
    /\ guard' = [guard EXCEPT ![s] = [minute |-> 0, state |-> "none"]]
    /\ UNCHANGED <<policy, overlap, marker, met>>

(***************************************************************************)
(* Specification                                                            *)
(***************************************************************************)
\* What a run does by itself when its calls are answered.
RunStep(r) == OpenScope(r) \/ AcquireLease(r) \/ ClaimOccurrence(r) \/ Execute(r) \/ assertOwned(r)
              \/ complete(r) \/ DropClaim(r) \/ LeaveLease(r)

Next ==
    \/ \E r \in Runs :
         \/ OpenScope(r) \/ AcquireLease(r) \/ AcquireLeaseFails(r)
         \/ ClaimOccurrence(r) \/ ClaimOccurrenceFails(r)
         \/ Execute(r) \/ assertOwned(r) \/ assertOwnedFails(r) \/ complete(r) \/ completeFails(r)
         \/ DropClaim(r) \/ LeaveLease(r) \/ LeaveLeaseFails(r) \/ RenewLease(r) \/ RenewClaim(r)
         \/ \E m \in MinutesOf[r] : check(r, m)
    \/ ExpireLease \/ LapseLease
    \/ \E m \in Minutes : ExpireClaim(m) \/ LapseClaim(m)
    \/ \E s \in Servers : Crash(s)

Spec == Init /\ [][Next]_vars

\* Servers go on with what they have begun, and expiry needs nobody's help.
FairSpec ==
    /\ Spec
    /\ \A r \in Runs : WF_vars(RunStep(r))
    /\ WF_vars(ExpireLease)
    /\ \A m \in Minutes : WF_vars(ExpireClaim(m))

(***************************************************************************)
(* Properties                                                               *)
(***************************************************************************)
\* onOneServer: once a run has completed an occurrence no run on any server
\* executes that occurrence again, and none that was executing it meanwhile,
\* with a claim that lapsed, is completed too.
OccurrenceRunsOnce ==
    \A q, r \in Runs :
       q # r /\ run[q].claim = "completed" /\ run[q].minute = run[r].minute =>
          /\ run'[r].pc = "execute" => run[r].pc = "execute"
          /\ run'[r].claim # "completed"

\* withoutOverlapping: leases can lapse and executions overlap, but of two runs
\* that held the lease at the same time at most one is reported as completed.
CompletedRunsAreDisjoint ==
    \A pair \in met : \E r \in pair : run[r].pc # "completed"

\* What onOneServer and withoutOverlapping promise of the runs that are completed.
RunsAreExclusive == [][OccurrenceRunsOnce /\ CompletedRunsAreDisjoint']_vars

\* Whatever failed, nothing stays held: no lock but the markers of completed
\* occurrences, and no minute that a guard believes to be in flight and refuses.
NothingStaysHeld ==
    <>[](/\ overlap = None
         /\ \A m \in Minutes : marker[m] # None => run[marker[m]].claim = "completed"
         /\ \A s \in Servers : guard[s].state # "in-flight")
=============================================================================
