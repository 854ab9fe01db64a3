--------------------------- MODULE SchedulerProofs ---------------------------
(***************************************************************************)
(* Proofs about Scheduler, for any servers, runs and minutes, every policy  *)
(* and any number of faults, about the lock of JobMiddleware, about         *)
(* RateLimiter, about CacheAdapters and about Schedule.                     *)
(*                                                                         *)
(* A claim that is completed keeps its marker, and no other run's call can  *)
(* take or remove it.  A lease that is lost is never won back: only a run   *)
(* that has yet to acquire its lease can become the owner of the lock, so   *)
(* of two runs that held the lease together the one that is not the owner   *)
(* can no longer be told that it left well.                                 *)
(***************************************************************************)
EXTENDS Scheduler, JobMiddleware, RateLimiter, CacheAdapters, Schedule, FiniteSetTheorems, TLAPS

RunRecord == [pc : {"idle"} \union Waiting \union Working \union Leaving \union Ended,
              minute : 0..MaxMinute,
              lease : {"none", "active", "left"}, leaseLost : BOOLEAN,
              claim : {"none", "active", "completed", "left"}, claimLost : BOOLEAN]

\* Where a run can be with the leases and claims it has.
FitsPolicy(rec, pol) ==
    /\ rec.pc # "idle" => rec.minute \in Minutes
    /\ rec.pc \in {"idle", "scope", "acquire"} => rec.lease = "none"
    /\ rec.pc \in {"idle", "scope", "acquire", "claim"} => rec.claim = "none"
    /\ rec.pc = "claim" \/ rec.claim \in {"active", "completed"} => "oneServer" \in pol
    /\ rec.claim = "left" => rec.pc \in {"dropLease"} \union Ended
    /\ rec.lease = "active" => rec.pc \notin Ended
    /\ rec.lease = "left" => rec.pc \in Ended
    /\ rec.claim = "completed" => rec.pc \in {"release", "completed", "failed", "dead"}

\* The occurrence of a completed claim stays marked as its own.
RunIsSound(r) ==
    /\ FitsPolicy(run[r], policy)
    /\ run[r].claim = "completed" => marker[run[r].minute] = r

\* A run whose lease another has taken over, or whose end said so.
Lost(r) ==
    \/ run[r].lease = "active" /\ overlap # r
    \/ run[r].lease = "left" /\ run[r].pc # "completed"

SchedulerInv ==
    /\ TypeOK
    /\ \A r \in Runs : RunIsSound(r)
    /\ \A pair \in met : \E r \in pair : Lost(r)

\* Only one run moves; it takes no lock of another, and no lease it had lost.
LEMMA OneRunMoves ==
    ASSUME SchedulerInv, NEW r \in Runs, NEW rec \in RunRecord,
           run' = [run EXCEPT ![r] = rec], policy' = policy,
           faults' = faults \/ Fault,
           guard' \in [Servers -> [minute : 0..MaxMinute, state : {"none", "in-flight", "completed"}]],
           overlap' \in {None, overlap, r}, marker' \in [Minutes -> Runs \union {None}],
           \A m \in Minutes : marker'[m] = marker[m] \/ marker[m] \in {None, r},
           FitsPolicy(rec, policy), rec.claim = "completed" => marker'[rec.minute] = r,
           Lost(r) => (rec.lease = "active" /\ overlap' # r) \/ (rec.lease = "left" /\ rec.pc # "completed"),
           met' \subseteq SUBSET Runs, \A pair \in met' : pair \in met \/ \E x \in pair : Lost(x)'
    PROVE  SchedulerInv'
<1>1. /\ run \in [Runs -> RunRecord] /\ run' \in [Runs -> RunRecord] /\ run'[r] = rec
      /\ \A q \in Runs \ {r} : run'[q] = run[q]
  BY DEF SchedulerInv, TypeOK, RunRecord
<1>2. TypeOK'
  <2>1. faults' \in 0..MaxFaults
    BY SchedulerAssumption DEF SchedulerInv, TypeOK, Fault
  <2>2. overlap' \in Runs \union {None} /\ policy' \in Policies
    BY DEF SchedulerInv, TypeOK
  <2> QED  BY <1>1, <2>1, <2>2 DEF TypeOK, RunRecord
<1>3. ASSUME NEW q \in Runs
      PROVE  RunIsSound(q)'
  <2>1. CASE q = r
    BY <1>1, <2>1 DEF RunIsSound
  <2>2. CASE q # r
    <3>1. run'[q] = run[q] /\ RunIsSound(q)
      BY <1>1, <2>2 DEF SchedulerInv
    <3>2. run[q].claim = "completed" => run[q].minute \in Minutes /\ marker[run[q].minute] = q
      BY <3>1 DEF RunIsSound, FitsPolicy
    <3>3. None # q
      BY SchedulerAssumption
    <3> QED  BY <2>2, <3>1, <3>2, <3>3 DEF RunIsSound
  <2> QED  BY <2>1, <2>2
<1>4. ASSUME NEW q \in Runs, Lost(q)
      PROVE  Lost(q)'
  <2>1. CASE q = r
    BY <1>1, <1>4, <2>1 DEF Lost
  <2>2. CASE q # r
    <3>1. None # q
      BY SchedulerAssumption
    <3> QED  BY <1>1, <1>4, <2>2, <3>1 DEF Lost
  <2> QED  BY <2>1, <2>2
<1>5. ASSUME NEW pair \in met'
      PROVE  \E x \in pair : Lost(x)'
  <2>1. CASE pair \in met
    BY <1>4, <2>1 DEF SchedulerInv, TypeOK
  <2> QED  BY <2>1
<1> QED  BY <1>2, <1>3, <1>5 DEF SchedulerInv

\* The guard of a server remembers a minute, whatever it is told.
LEMMA GuardIsTyped ==
    ASSUME TypeOK, NEW r \in Runs
    PROVE  /\ guardComplete(r) \/ guardFail(r) \/ UNCHANGED guard =>
                 guard' \in [Servers -> [minute : 0..MaxMinute, state : {"none", "in-flight", "completed"}]]
           /\ \A m \in Minutes : guard' = [guard EXCEPT ![ServerOf[r]] = [minute |-> m, state |-> "in-flight"]] =>
                 guard' \in [Servers -> [minute : 0..MaxMinute, state : {"none", "in-flight", "completed"}]]
<1> DEFINE G == [minute : 0..MaxMinute, state : {"none", "in-flight", "completed"}]
<1>1. guard \in [Servers -> G] /\ ServerOf[r] \in Servers
  BY SchedulerAssumption DEF TypeOK
<1>2. [minute |-> 0, state |-> "none"] \in G /\ \A m \in Minutes : [minute |-> m, state |-> "in-flight"] \in G
  BY SchedulerAssumption DEF Minutes
<1>3. \A g \in G : [g EXCEPT !.state = "completed"] \in G
  OBVIOUS
<1>4. \A g \in G : [guard EXCEPT ![ServerOf[r]] = g] \in [Servers -> G]
  BY <1>1
<1> HIDE DEF G
<1>5. guardComplete(r) => \E g \in G : guard' = [guard EXCEPT ![ServerOf[r]] = g]
  BY <1>1, <1>3 DEF guardComplete
<1>6. guardFail(r) => \E g \in G : guard' = [guard EXCEPT ![ServerOf[r]] = g]
  BY <1>1, <1>2 DEF guardFail
<1> QED  BY <1>1, <1>2, <1>4, <1>5, <1>6 DEF G

\* A run goes on with what it holds: no lock is touched.
LEMMA RunGoesOn ==
    ASSUME SchedulerInv, NEW r \in Runs, run[r].pc \notin Ended, NEW rec \in RunRecord,
           run' = [run EXCEPT ![r] = rec], FitsPolicy(rec, policy),
           rec.lease = run[r].lease, rec.claim \in {run[r].claim, "left"}, rec.minute = run[r].minute,
           UNCHANGED <<policy, overlap, marker, met>>, faults' = faults \/ Fault,
           guardComplete(r) \/ guardFail(r) \/ UNCHANGED guard
    PROVE  SchedulerInv'
<1>1. TypeOK /\ RunIsSound(r)
  BY DEF SchedulerInv
<1>2. guard' \in [Servers -> [minute : 0..MaxMinute, state : {"none", "in-flight", "completed"}]]
  BY <1>1, GuardIsTyped
<1>3. /\ marker' \in [Minutes -> Runs \union {None}] /\ met' \subseteq SUBSET Runs
      /\ \A m \in Minutes : marker'[m] = marker[m]
      /\ overlap' \in {None, overlap, r} /\ \A pair \in met' : pair \in met
  BY <1>1 DEF TypeOK
<1>4. rec.claim = "completed" => marker'[rec.minute] = r
  BY <1>1 DEF RunIsSound
<1>5. Lost(r) => (rec.lease = "active" /\ overlap' # r) \/ (rec.lease = "left" /\ rec.pc # "completed")
  BY <1>1 DEF Lost, RunIsSound, FitsPolicy
<1>6. policy' = policy
  OBVIOUS
<1> QED  BY <1>2, <1>3, <1>4, <1>5, <1>6, OneRunMoves

\* Steps of a run that make no call, or a call that changes no lock.
LEMMA RunSteps ==
    ASSUME SchedulerInv, NEW r \in Runs,
           OpenScope(r) \/ Execute(r) \/ assertOwned(r) \/ assertOwnedFails(r) \/ completeFails(r)
           \/ RenewLease(r) \/ RenewClaim(r)
    PROVE  SchedulerInv'
<1>1. run \in [Runs -> RunRecord] /\ run[r] \in RunRecord /\ FitsPolicy(run[r], policy)
  BY DEF SchedulerInv, TypeOK, RunRecord, RunIsSound
<1>2. CASE OpenScope(r)
  <2>1. PICK pc \in {"failed", "skipped", AfterScope} : Goto(r, pc)
    BY <1>2 DEF OpenScope
  <2>2. /\ run[r].pc = "scope" /\ UNCHANGED <<policy, overlap, marker, met>> /\ faults' = faults
        /\ guardComplete(r) \/ guardFail(r) \/ UNCHANGED guard
    BY <1>2 DEF OpenScope
  <2> DEFINE rec == [run[r] EXCEPT !.pc = pc]
  <2>3. pc \in {"failed", "skipped", "acquire", "claim", "execute"} /\ (pc = "claim" => "oneServer" \in policy)
    BY DEF AfterScope
  <2>4. /\ rec \in RunRecord /\ rec.pc = pc /\ rec.lease = run[r].lease /\ rec.claim = run[r].claim
        /\ rec.minute = run[r].minute
    BY <1>1, <2>3 DEF RunRecord, Waiting, Working, Ended
  <2>5. run' = [run EXCEPT ![r] = rec]
    BY <2>1 DEF Goto
  <2> HIDE DEF rec
  <2>6. FitsPolicy(rec, policy)
    BY <1>1, <2>2, <2>3, <2>4 DEF FitsPolicy, Ended
  <2> QED  BY <2>2, <2>4, <2>5, <2>6, RunGoesOn DEF Ended
<1>3. ASSUME NEW rec \in RunRecord, run' = [run EXCEPT ![r] = rec],
             rec.lease = run[r].lease, rec.claim = run[r].claim, rec.minute = run[r].minute,
             \/ rec.pc = run[r].pc
             \/ run[r].pc \in Working /\ rec.pc \in {"assertExecuted", "assertHooked", "hook", "complete", "dropClaim"},
             UNCHANGED <<policy, overlap, marker, guard, met>>, faults' = faults \/ Fault
      PROVE  SchedulerInv'
  <2>1. FitsPolicy(rec, policy)
    BY <1>1, <1>3 DEF FitsPolicy, Ended, Working
  <2>2. /\ marker' \in [Minutes -> Runs \union {None}] /\ met' \subseteq SUBSET Runs
        /\ guard' \in [Servers -> [minute : 0..MaxMinute, state : {"none", "in-flight", "completed"}]]
        /\ \A m \in Minutes : marker'[m] = marker[m]
        /\ overlap' \in {None, overlap, r} /\ \A pair \in met' : pair \in met
        /\ policy' = policy
    BY <1>3 DEF SchedulerInv, TypeOK
  <2>3. rec.claim = "completed" => marker'[rec.minute] = r
    BY <1>3 DEF SchedulerInv, RunIsSound
  <2>4. Lost(r) => (rec.lease = "active" /\ overlap' # r) \/ (rec.lease = "left" /\ rec.pc # "completed")
    BY <1>1, <1>3 DEF Lost, FitsPolicy, Working, Ended
  <2> QED  BY <1>3, <2>1, <2>2, <2>3, <2>4, OneRunMoves
<1>4. ASSUME NEW pc \in {"assertExecuted", "assertHooked", "hook", "complete", "dropClaim"}, Goto(r, pc),
             run[r].pc \in Working,
             UNCHANGED <<policy, overlap, marker, guard, met>>, faults' = faults \/ Fault
      PROVE  SchedulerInv'
  <2> DEFINE rec == [run[r] EXCEPT !.pc = pc]
  <2>1. /\ rec \in RunRecord /\ rec.pc = pc /\ rec.lease = run[r].lease /\ rec.claim = run[r].claim
        /\ rec.minute = run[r].minute
    BY <1>1 DEF RunRecord, Working, Leaving
  <2>2. run' = [run EXCEPT ![r] = rec]
    BY <1>4 DEF Goto
  <2> HIDE DEF rec
  <2> QED  BY <1>3, <1>4, <2>1, <2>2
<1>5. CASE Execute(r) \/ assertOwnedFails(r)
  BY <1>4, <1>5 DEF Execute, assertOwnedFails, Working
<1>6. CASE assertOwned(r)
  <2> DEFINE rec == [run[r] EXCEPT !.pc = "dropClaim", !.leaseLost = TRUE]
  <2>1. /\ rec \in RunRecord /\ rec.pc = "dropClaim" /\ rec.lease = run[r].lease /\ rec.claim = run[r].claim
        /\ rec.minute = run[r].minute
    BY <1>1 DEF RunRecord, Leaving
  <2>2. \/ Goto(r, "hook") \/ Goto(r, "complete")
        \/ run' = [run EXCEPT ![r] = rec]
    BY <1>6 DEF assertOwned, Goto
  <2>3. UNCHANGED <<policy, overlap, marker, guard, met, faults>> /\ run[r].pc \in Working
    BY <1>6 DEF assertOwned, Working
  <2> HIDE DEF rec
  <2> QED  BY <1>3, <1>4, <2>1, <2>2, <2>3
<1>7. CASE completeFails(r)
  <2> DEFINE rec == [run[r] EXCEPT !.pc = "dropClaim", !.claimLost = TRUE]
  <2>1. /\ rec \in RunRecord /\ rec.pc = "dropClaim" /\ rec.lease = run[r].lease /\ rec.claim = run[r].claim
        /\ rec.minute = run[r].minute
    BY <1>1 DEF RunRecord, Leaving
  <2>2. /\ run' = [run EXCEPT ![r] = rec] /\ run[r].pc \in Working
        /\ UNCHANGED <<policy, overlap, marker, guard, met>> /\ Fault
    BY <1>7 DEF completeFails, Working
  <2> HIDE DEF rec
  <2> QED  BY <1>3, <2>1, <2>2
<1>8. CASE RenewLease(r)
  <2> DEFINE rec == [run[r] EXCEPT !.leaseLost = TRUE]
  <2>1. /\ rec \in RunRecord /\ rec.pc = run[r].pc /\ rec.lease = run[r].lease /\ rec.claim = run[r].claim
        /\ rec.minute = run[r].minute
    BY <1>1 DEF RunRecord
  <2>2. /\ run' = [run EXCEPT ![r] = rec]
        /\ UNCHANGED <<policy, overlap, marker, guard, met>> /\ (faults' = faults \/ Fault)
    BY <1>8 DEF RenewLease, NoFault
  <2> HIDE DEF rec
  <2> QED  BY <1>3, <2>1, <2>2
<1>9. CASE RenewClaim(r)
  <2> DEFINE rec == [run[r] EXCEPT !.claimLost = TRUE]
  <2>1. /\ rec \in RunRecord /\ rec.pc = run[r].pc /\ rec.lease = run[r].lease /\ rec.claim = run[r].claim
        /\ rec.minute = run[r].minute
    BY <1>1 DEF RunRecord
  <2>2. /\ run' = [run EXCEPT ![r] = rec]
        /\ UNCHANGED <<policy, overlap, marker, guard, met>> /\ (faults' = faults \/ Fault)
    BY <1>9 DEF RenewClaim, NoFault
  <2> HIDE DEF rec
  <2> QED  BY <1>3, <2>1, <2>2
<1> QED  BY <1>2, <1>5, <1>6, <1>7, <1>8, <1>9

\* The guard admits an invocation or skips it.
LEMMA InvocationSteps ==
    ASSUME SchedulerInv, NEW r \in Runs, NEW m \in MinutesOf[r], check(r, m)
    PROVE  SchedulerInv'
<1>1. /\ run \in [Runs -> RunRecord] /\ run[r] \in RunRecord /\ FitsPolicy(run[r], policy) /\ run[r].pc = "idle"
      /\ m \in Minutes /\ m \in 0..MaxMinute
  BY SchedulerAssumption DEF SchedulerInv, TypeOK, RunRecord, RunIsSound, check, Minutes
<1>2. PICK pc \in {"skipped", "scope"} : run' = [run EXCEPT ![r].pc = pc, ![r].minute = m]
  BY DEF check
<1>3. /\ UNCHANGED <<policy, overlap, marker, met, faults>>
      /\ guard' \in [Servers -> [minute : 0..MaxMinute, state : {"none", "in-flight", "completed"}]]
  <2>1. TypeOK
    BY DEF SchedulerInv
  <2> QED  BY <1>1, <2>1, GuardIsTyped DEF check
<1> DEFINE rec == [run[r] EXCEPT !.pc = pc, !.minute = m]
<1>4. /\ rec \in RunRecord /\ rec.pc = pc /\ rec.lease = run[r].lease /\ rec.claim = run[r].claim
      /\ rec.minute = m
  BY <1>1 DEF RunRecord, Waiting, Ended
<1>5. run' = [run EXCEPT ![r] = rec]
  BY <1>1, <1>2
<1> HIDE DEF rec
<1>6. FitsPolicy(rec, policy)
  BY <1>1, <1>4 DEF FitsPolicy
<1>7. rec.claim # "completed" /\ ~Lost(r)
  BY <1>1, <1>4 DEF FitsPolicy, Lost
<1>8. /\ marker' \in [Minutes -> Runs \union {None}] /\ met' \subseteq SUBSET Runs
      /\ \A n \in Minutes : marker'[n] = marker[n]
      /\ overlap' \in {None, overlap, r} /\ \A pair \in met' : pair \in met
      /\ policy' = policy
  BY <1>3 DEF SchedulerInv, TypeOK
<1> QED  BY <1>3, <1>4, <1>5, <1>6, <1>7, <1>8, OneRunMoves

\* The lease: whoever holds one when another run gets it has lost its own.
LEMMA AcquireSteps ==
    ASSUME SchedulerInv, NEW r \in Runs, AcquireLease(r) \/ AcquireLeaseFails(r)
    PROVE  SchedulerInv'
<1>1. /\ run \in [Runs -> RunRecord] /\ run[r] \in RunRecord /\ FitsPolicy(run[r], policy) /\ run[r].pc = "acquire"
      /\ TypeOK /\ ~Lost(r)
  BY DEF SchedulerInv, TypeOK, RunRecord, RunIsSound, AcquireLease, AcquireLeaseFails, Lost, FitsPolicy
<1>2. /\ UNCHANGED <<policy, marker>> /\ overlap' \in {overlap, r} /\ (faults' = faults \/ Fault)
      /\ marker' \in [Minutes -> Runs \union {None}]
      /\ \A n \in Minutes : marker'[n] = marker[n]
  BY <1>1 DEF AcquireLease, AcquireLeaseFails, acquire, TypeOK
<1>3. ASSUME NEW pc \in {"skipped", "failed"}, Goto(r, pc), guardFail(r), UNCHANGED met
      PROVE  SchedulerInv'
  <2> DEFINE rec == [run[r] EXCEPT !.pc = pc]
  <2>1. /\ rec \in RunRecord /\ rec.pc = pc /\ rec.lease = run[r].lease /\ rec.claim = run[r].claim
        /\ rec.minute = run[r].minute
    BY <1>1 DEF RunRecord, Ended
  <2>2. run' = [run EXCEPT ![r] = rec]
    BY <1>3 DEF Goto
  <2> HIDE DEF rec
  <2>3. FitsPolicy(rec, policy) /\ rec.claim # "completed"
    BY <1>1, <2>1 DEF FitsPolicy
  <2>4. /\ guard' \in [Servers -> [minute : 0..MaxMinute, state : {"none", "in-flight", "completed"}]]
        /\ met' \subseteq SUBSET Runs /\ \A pair \in met' : pair \in met
    BY <1>1, <1>3, GuardIsTyped DEF TypeOK
  <2> QED  BY <1>1, <1>2, <2>1, <2>2, <2>3, <2>4, OneRunMoves
<1>4. CASE AcquireLeaseFails(r)
  BY <1>3, <1>4 DEF AcquireLeaseFails
<1>5. CASE AcquireLease(r) /\ ~Owns(overlap', r)
  BY <1>3, <1>5 DEF AcquireLease
<1>6. CASE AcquireLease(r) /\ Owns(overlap', r)
  <2>1. /\ run' = [run EXCEPT ![r].pc = AfterLease, ![r].lease = "active"] /\ overlap' = r
        /\ met' = met \union {{q, r} : q \in {q \in Runs : InSection(q)}} /\ UNCHANGED guard
    BY <1>6 DEF AcquireLease, Owns
  <2> DEFINE rec == [run[r] EXCEPT !.pc = AfterLease, !.lease = "active"]
  <2>2. AfterLease \in {"claim", "execute"} /\ (AfterLease = "claim" => "oneServer" \in policy)
    BY DEF AfterLease
  <2>3. /\ rec \in RunRecord /\ rec.pc = AfterLease /\ rec.lease = "active" /\ rec.claim = run[r].claim
        /\ rec.minute = run[r].minute
    BY <1>1, <2>2 DEF RunRecord, Waiting, Working
  <2>4. run' = [run EXCEPT ![r] = rec]
    BY <2>1
  <2> HIDE DEF rec
  <2>5. FitsPolicy(rec, policy) /\ rec.claim # "completed"
    BY <1>1, <2>2, <2>3 DEF FitsPolicy, Ended
  <2>6. ASSUME NEW q \in Runs, InSection(q)
        PROVE  Lost(q)'
    <3>1. q # r
      BY <1>1, <2>6 DEF InSection, FitsPolicy
    <3>2. run'[q] = run[q]
      BY <1>1, <2>4, <3>1
    <3> QED  BY <2>1, <2>6, <3>1, <3>2 DEF Lost, InSection
  <2>7. /\ guard' \in [Servers -> [minute : 0..MaxMinute, state : {"none", "in-flight", "completed"}]]
        /\ met' \subseteq SUBSET Runs
    BY <1>1, <2>1 DEF TypeOK
  <2>8. \A pair \in met' : pair \in met \/ \E x \in pair : Lost(x)'
    BY <2>1, <2>6
  <2> QED  BY <1>1, <1>2, <2>3, <2>4, <2>5, <2>7, <2>8, OneRunMoves
<1> QED  BY <1>4, <1>5, <1>6

\* The claim of an occurrence, its completion and its release.
LEMMA ClaimSteps ==
    ASSUME SchedulerInv, NEW r \in Runs,
           ClaimOccurrence(r) \/ ClaimOccurrenceFails(r) \/ complete(r) \/ DropClaim(r)
    PROVE  SchedulerInv'
<1> DEFINE m == run[r].minute
<1>1. /\ run \in [Runs -> RunRecord] /\ run[r] \in RunRecord /\ FitsPolicy(run[r], policy) /\ TypeOK
      /\ run[r].pc \in {"claim", "complete", "dropClaim"} /\ m \in Minutes
  BY DEF SchedulerInv, TypeOK, RunRecord, RunIsSound, ClaimOccurrence, ClaimOccurrenceFails, complete, DropClaim,
         FitsPolicy
<1>2. /\ UNCHANGED <<policy, overlap, guard, met>> /\ (faults' = faults \/ Fault)
      /\ guard' \in [Servers -> [minute : 0..MaxMinute, state : {"none", "in-flight", "completed"}]]
      /\ met' \subseteq SUBSET Runs /\ overlap' \in {None, overlap, r} /\ \A pair \in met' : pair \in met
      /\ policy' = policy
  BY <1>1 DEF ClaimOccurrence, ClaimOccurrenceFails, complete, DropClaim, TypeOK, NoFault
<1>3. \/ marker' = marker
      \/ marker[m] \in {None, r} /\ \E o \in {None, r} : marker' = [marker EXCEPT ![m] = o]
  <2>1. /\ acquire(marker[m], r) = marker[m] \/ (marker[m] = None /\ acquire(marker[m], r) = r)
        /\ release(marker[m], r) = marker[m] \/ (marker[m] = r /\ release(marker[m], r) = None)
    BY DEF acquire, release, Owns
  <2>2. [marker EXCEPT ![m] = marker[m]] = marker
    BY <1>1 DEF TypeOK
  <2>3. \/ marker' = marker \/ marker' = [marker EXCEPT ![m] = acquire(marker[m], r)]
        \/ marker' = [marker EXCEPT ![m] = release(marker[m], r)]
    BY <1>1 DEF ClaimOccurrence, ClaimOccurrenceFails, complete, DropClaim
  <2> QED  BY <2>1, <2>2, <2>3
<1>4. /\ marker' \in [Minutes -> Runs \union {None}]
      /\ \A n \in Minutes : marker'[n] = marker[n] \/ marker[n] \in {None, r}
  BY <1>1, <1>3 DEF TypeOK
<1>5. ASSUME NEW rec \in RunRecord, run' = [run EXCEPT ![r] = rec], rec.lease = run[r].lease, rec.minute = m,
             FitsPolicy(rec, policy), rec.claim = "completed" => marker'[m] = r
      PROVE  SchedulerInv'
  <2>1. Lost(r) => (rec.lease = "active" /\ overlap' # r) \/ (rec.lease = "left" /\ rec.pc # "completed")
    BY <1>1, <1>2, <1>5 DEF Lost, FitsPolicy, Ended
  <2>2. rec.claim = "completed" => marker'[rec.minute] = r
    BY <1>5
  <2> QED  BY <1>2, <1>4, <1>5, <2>1, <2>2, OneRunMoves
<1>6. ASSUME NEW pc \in {"execute", "skip", "dropLease", "release", "dropClaim"},
             NEW claim \in {"none", "active", "completed", "left"}, NEW lost \in BOOLEAN
      PROVE  LET rec == [run[r] EXCEPT !.pc = pc, !.claim = claim, !.claimLost = lost]
             IN  /\ rec \in RunRecord /\ rec.lease = run[r].lease /\ rec.minute = m
                 /\ rec.pc = pc /\ rec.claim = claim
  BY <1>1 DEF RunRecord, Working, Leaving
<1>7. ASSUME NEW pc \in {"execute", "skip", "dropLease", "release", "dropClaim"},
             NEW claim \in {run[r].claim, "active", "completed", "left"},
             run' = [run EXCEPT ![r].pc = pc, ![r].claim = claim],
             claim \in {"active", "completed"} => "oneServer" \in policy,
             claim = "left" => pc = "dropLease",
             claim = "completed" => pc = "release" /\ marker'[m] = r
      PROVE  SchedulerInv'
  <2> DEFINE rec == [run[r] EXCEPT !.pc = pc, !.claim = claim]
  <2>1. /\ rec \in RunRecord /\ rec.lease = run[r].lease /\ rec.minute = m
        /\ rec.pc = pc /\ rec.claim = claim
    BY <1>1 DEF RunRecord, Working, Leaving
  <2>2. run' = [run EXCEPT ![r] = rec]
    BY <1>7
  <2> HIDE DEF rec
  <2>3. FitsPolicy(rec, policy)
    BY <1>1, <1>7, <2>1 DEF FitsPolicy, Ended
  <2> QED  BY <1>5, <1>7, <2>1, <2>2, <2>3
<1>8. ASSUME NEW pc \in {"execute", "skip", "dropLease", "release", "dropClaim"},
             run' = [run EXCEPT ![r].pc = pc]
      PROVE  SchedulerInv'
  <2> DEFINE rec == [run[r] EXCEPT !.pc = pc]
  <2>1. /\ rec \in RunRecord /\ rec.lease = run[r].lease /\ rec.minute = m
        /\ rec.pc = pc /\ rec.claim = run[r].claim
    BY <1>1 DEF RunRecord, Working, Leaving
  <2>2. run' = [run EXCEPT ![r] = rec]
    BY <1>8
  <2> HIDE DEF rec
  <2>3. FitsPolicy(rec, policy) /\ rec.claim # "completed"
    BY <1>1, <1>8, <2>1 DEF FitsPolicy, Ended
  <2> QED  BY <1>5, <2>1, <2>2, <2>3
<1>9. CASE ClaimOccurrence(r)
  <2>1. "oneServer" \in policy
    BY <1>1, <1>9 DEF ClaimOccurrence, FitsPolicy
  <2>2. CASE Owns(marker'[m], r)
    <3>1. run' = [run EXCEPT ![r].pc = "execute", ![r].claim = "active"]
      BY <1>9, <2>2 DEF ClaimOccurrence
    <3> QED  BY <1>7, <2>1, <3>1
  <2>3. CASE ~Owns(marker'[m], r)
    BY <1>8, <1>9, <2>3 DEF ClaimOccurrence, ClaimRefused
  <2> QED  BY <2>2, <2>3
<1>10. CASE ClaimOccurrenceFails(r)
  BY <1>8, <1>10 DEF ClaimOccurrenceFails, Goto
<1>11. CASE complete(r)
  <2>1. CASE run[r].claim = "none"
    BY <1>8, <1>11, <2>1 DEF complete
  <2>2. CASE run[r].claim # "none" /\ ~run[r].claimLost /\ Owns(marker[m], r)
    <3>1. run' = [run EXCEPT ![r].pc = "release", ![r].claim = "completed"] /\ marker'[m] = r
      BY <1>11, <2>2 DEF complete, Owns
    <3>2. "oneServer" \in policy
      BY <1>1, <1>11, <2>2 DEF FitsPolicy, complete, Ended, RunRecord
    <3> QED  BY <1>7, <3>1, <3>2
  <2>3. CASE run[r].claim # "none" /\ ~(~run[r].claimLost /\ Owns(marker[m], r))
    <3> DEFINE rec == [run[r] EXCEPT !.pc = "dropClaim", !.claimLost = TRUE]
    <3>1. /\ rec \in RunRecord /\ rec.lease = run[r].lease /\ rec.minute = m
          /\ rec.pc = "dropClaim" /\ rec.claim = run[r].claim
      BY <1>1 DEF RunRecord, Leaving
    <3>2. run' = [run EXCEPT ![r] = rec]
      BY <1>11, <2>3 DEF complete
    <3> HIDE DEF rec
    <3>3. FitsPolicy(rec, policy) /\ rec.claim # "completed"
      BY <1>1, <3>1 DEF FitsPolicy, Ended
    <3> QED  BY <1>5, <3>1, <3>2, <3>3
  <2> QED  BY <2>1, <2>2, <2>3
<1>12. CASE DropClaim(r)
  <2> DEFINE claim == IF run[r].claim = "none" THEN run[r].claim ELSE "left"
  <2>1. run' = [run EXCEPT ![r].pc = "dropLease", ![r].claim = claim]
    BY <1>1, <1>12 DEF DropClaim
  <2>2. claim \in {run[r].claim, "left"} /\ claim \notin {"active", "completed"}
    OBVIOUS
  <2> HIDE DEF claim
  <2> QED  BY <1>7, <2>1, <2>2
<1> QED  BY <1>9, <1>10, <1>11, <1>12

\* The end of a run: the one that is told that it left well is the owner of the lock.
LEMMA LeavingSteps ==
    ASSUME SchedulerInv, NEW r \in Runs, LeaveLease(r) \/ LeaveLeaseFails(r)
    PROVE  SchedulerInv'
<1>1. /\ run \in [Runs -> RunRecord] /\ run[r] \in RunRecord /\ FitsPolicy(run[r], policy) /\ TypeOK
      /\ run[r].pc \in {"release", "skip", "dropLease"}
  BY DEF SchedulerInv, TypeOK, RunRecord, RunIsSound, LeaveLease, LeaveLeaseFails
<1>2. /\ UNCHANGED <<policy, marker, met>> /\ (faults' = faults \/ Fault)
      /\ overlap' \in {None, overlap, r}
  BY DEF LeaveLease, LeaveLeaseFails, release
<1>3. PICK pc \in {"completed", "skipped", "failed"} :
         /\ Leave(r, pc)
         /\ pc = "completed" => LeftWell(r) /\ run[r].pc = "release"
         /\ pc = "skipped" => run[r].pc = "skip"
  BY DEF LeaveLease, LeaveLeaseFails
<1> DEFINE lease == IF run[r].lease = "none" THEN "none" ELSE "left"
           rec == [run[r] EXCEPT !.pc = pc, !.lease = lease, !.leaseLost = FALSE, !.claimLost = FALSE]
<1>4. /\ rec \in RunRecord /\ rec.lease = lease /\ rec.minute = run[r].minute
      /\ rec.pc = pc /\ rec.claim = run[r].claim
  BY <1>1 DEF RunRecord, Ended
<1>5. run' = [run EXCEPT ![r] = rec]
  BY <1>3 DEF Leave
<1> HIDE DEF rec
<1>6. FitsPolicy(rec, policy)
  BY <1>1, <1>3, <1>4 DEF FitsPolicy, Ended
<1>7. rec.claim = "completed" => marker'[rec.minute] = r
  BY <1>2, <1>4 DEF SchedulerInv, RunIsSound
<1>8. Lost(r) => rec.lease = "left" /\ rec.pc # "completed"
  BY <1>1, <1>3, <1>4 DEF Lost, LeftWell, Owns, FitsPolicy, Ended
<1>9. /\ guard' \in [Servers -> [minute : 0..MaxMinute, state : {"none", "in-flight", "completed"}]]
      /\ marker' \in [Minutes -> Runs \union {None}] /\ met' \subseteq SUBSET Runs
      /\ \A n \in Minutes : marker'[n] = marker[n]
      /\ \A pair \in met' : pair \in met
      /\ policy' = policy
  <2>1. guardComplete(r) \/ guardFail(r)
    BY <1>3 DEF Leave
  <2> QED  BY <1>1, <1>2, <2>1, GuardIsTyped DEF TypeOK
<1> QED  BY <1>2, <1>4, <1>5, <1>6, <1>7, <1>8, <1>9, OneRunMoves

\* Locks that expire: a marker of a completed claim is not among them.
LEMMA ExpirySteps ==
    ASSUME SchedulerInv, ExpireLease \/ LapseLease \/ \E m \in Minutes : ExpireClaim(m) \/ LapseClaim(m)
    PROVE  SchedulerInv'
<1>1. /\ TypeOK /\ UNCHANGED <<policy, guard, run, met>> /\ (faults' = faults \/ Fault)
      /\ overlap' \in {None, overlap}
  BY DEF ExpireLease, LapseLease, ExpireClaim, LapseClaim, SchedulerInv
<1>2. \/ marker' = marker
      \/ \E m \in Minutes : /\ marker' = [marker EXCEPT ![m] = None]
                            /\ marker[m] # None /\ run[marker[m]].claim # "completed"
  BY DEF ExpireLease, LapseLease, ExpireClaim, LapseClaim, RenewsClaim
<1>3. TypeOK'
  <2>1. faults' \in 0..MaxFaults
    BY <1>1, SchedulerAssumption DEF TypeOK, Fault
  <2>2. marker' \in [Minutes -> Runs \union {None}] /\ overlap' \in Runs \union {None}
    BY <1>1, <1>2 DEF TypeOK
  <2> QED  BY <1>1, <2>1, <2>2 DEF TypeOK
<1>4. ASSUME NEW r \in Runs
      PROVE  RunIsSound(r)' /\ (Lost(r) => Lost(r)')
  <2>1. FitsPolicy(run[r], policy) /\ (run[r].claim = "completed" => marker[run[r].minute] = r)
    BY DEF SchedulerInv, RunIsSound
  <2>2. run[r].claim = "completed" => run[r].minute \in Minutes
    BY <2>1 DEF FitsPolicy
  <2>3. run[r].claim = "completed" => marker'[run[r].minute] = r
    BY <1>1, <1>2, <2>1, <2>2 DEF TypeOK
  <2>4. None # r
    BY SchedulerAssumption
  <2> QED  BY <1>1, <2>1, <2>3, <2>4 DEF RunIsSound, Lost
<1> QED  BY <1>1, <1>3, <1>4 DEF SchedulerInv, TypeOK

\* A server that dies takes its runs and its guard with it, and no lock.
LEMMA CrashSteps ==
    ASSUME SchedulerInv, NEW s \in Servers, Crash(s)
    PROVE  SchedulerInv'
<1> DEFINE Died(r) == ServerOf[r] = s /\ run[r].pc \notin Ended \union {"idle"}
           rec(r) == [run[r] EXCEPT !.pc = "dead", !.lease = "left", !.leaseLost = FALSE, !.claimLost = FALSE,
                                    !.claim = IF @ = "completed" THEN @ ELSE "left"]
<1>1. /\ TypeOK /\ run \in [Runs -> RunRecord] /\ UNCHANGED <<policy, overlap, marker, met>> /\ Fault
      /\ run' = [r \in Runs |-> IF Died(r) THEN rec(r) ELSE run[r]]
      /\ guard' = [guard EXCEPT ![s] = [minute |-> 0, state |-> "none"]]
  BY DEF Crash, SchedulerInv, TypeOK, RunRecord
<1>2. ASSUME NEW r \in Runs
      PROVE  /\ rec(r) \in RunRecord /\ rec(r).pc = "dead" /\ rec(r).lease = "left"
             /\ rec(r).minute = run[r].minute
             /\ rec(r).claim = IF run[r].claim = "completed" THEN "completed" ELSE "left"
  BY <1>1 DEF RunRecord, Ended
<1> HIDE DEF rec
<1>3. TypeOK'
  <2>1. faults' \in 0..MaxFaults
    BY <1>1, SchedulerAssumption DEF TypeOK, Fault
  <2>2. guard' \in [Servers -> [minute : 0..MaxMinute, state : {"none", "in-flight", "completed"}]]
    BY <1>1, SchedulerAssumption DEF TypeOK
  <2>3. run' \in [Runs -> RunRecord]
    BY <1>1, <1>2
  <2> QED  BY <1>1, <2>1, <2>2, <2>3 DEF TypeOK, RunRecord
<1>4. ASSUME NEW r \in Runs
      PROVE  RunIsSound(r)' /\ (Lost(r) => Lost(r)')
  <2>1. FitsPolicy(run[r], policy) /\ (run[r].claim = "completed" => marker[run[r].minute] = r)
    BY DEF SchedulerInv, RunIsSound
  <2>2. CASE Died(r)
    BY <1>1, <1>2, <2>1, <2>2 DEF RunIsSound, Lost, FitsPolicy, Ended
  <2>3. CASE ~Died(r)
    BY <1>1, <2>1, <2>3 DEF RunIsSound, Lost
  <2> QED  BY <2>2, <2>3
<1> QED  BY <1>1, <1>3, <1>4 DEF SchedulerInv, TypeOK

\* Every step keeps the invariant.
LEMMA SchedulerSteps == SchedulerInv /\ [Next]_vars => SchedulerInv'
<1> SUFFICES ASSUME SchedulerInv, [Next]_vars
             PROVE  SchedulerInv'
  OBVIOUS
<1>1. ASSUME NEW r \in Runs,
             \/ OpenScope(r) \/ AcquireLease(r) \/ AcquireLeaseFails(r)
             \/ ClaimOccurrence(r) \/ ClaimOccurrenceFails(r)
             \/ Execute(r) \/ assertOwned(r) \/ assertOwnedFails(r) \/ complete(r) \/ completeFails(r)
             \/ DropClaim(r) \/ LeaveLease(r) \/ LeaveLeaseFails(r) \/ RenewLease(r) \/ RenewClaim(r)
             \/ \E m \in MinutesOf[r] : check(r, m)
      PROVE  SchedulerInv'
  BY <1>1, RunSteps, AcquireSteps, ClaimSteps, LeavingSteps, InvocationSteps
<1>2. CASE ExpireLease \/ LapseLease \/ \E m \in Minutes : ExpireClaim(m) \/ LapseClaim(m)
  BY <1>2, ExpirySteps
<1>3. ASSUME NEW s \in Servers, Crash(s)
      PROVE  SchedulerInv'
  BY <1>3, CrashSteps
<1>4. CASE UNCHANGED vars
  BY <1>4 DEF vars, SchedulerInv, TypeOK, RunIsSound, Lost
<1> QED  BY <1>1, <1>2, <1>3, <1>4 DEF Next

\* Once a run has completed an occurrence, its marker refuses all others.
LEMMA CompletedClaimsRefuse == SchedulerInv /\ [Next]_vars => OccurrenceRunsOnce
<1> SUFFICES ASSUME SchedulerInv, [Next]_vars, NEW q \in Runs, NEW r \in Runs,
                    q # r, run[q].claim = "completed", run[q].minute = run[r].minute
             PROVE  /\ run'[r].pc = "execute" => run[r].pc = "execute"
                    /\ run'[r].claim # "completed"
  BY DEF OccurrenceRunsOnce
<1>1. /\ run \in [Runs -> RunRecord] /\ FitsPolicy(run[r], policy) /\ TypeOK
      /\ FitsPolicy(run[q], policy) /\ marker[run[q].minute] = q /\ "oneServer" \in policy
  BY DEF SchedulerInv, TypeOK, RunRecord, RunIsSound, FitsPolicy
<1>2. run[q].minute \in Minutes /\ q # None
  BY <1>1, SchedulerAssumption DEF FitsPolicy
<1>3. ~Owns(marker[run[r].minute], r) /\ acquire(marker[run[r].minute], r) = q
  BY <1>1, <1>2 DEF Owns, acquire
<1>4. run[r].claim # "completed"
  BY <1>1 DEF SchedulerInv, RunIsSound
<1>5. AfterScope # "execute" /\ AfterLease # "execute"
  BY <1>1 DEF AfterScope, AfterLease
<1> DEFINE Goal == /\ run'[r].pc = "execute" => run[r].pc = "execute"
                   /\ run'[r].claim # "completed"
<1>6. ASSUME NEW x \in Runs, NEW rec, run' = [run EXCEPT ![x] = rec],
             x = r => /\ rec.pc \in {run[r].pc} \/ rec.pc # "execute"
                      /\ rec.claim # "completed"
      PROVE  Goal
  BY <1>1, <1>4, <1>6
<1>7. ASSUME NEW x \in Runs,
             \/ OpenScope(x) \/ AcquireLease(x) \/ AcquireLeaseFails(x)
             \/ \E m \in MinutesOf[x] : check(x, m)
      PROVE  Goal
  <2>1. CASE OpenScope(x)
    <3>1. PICK pc \in {"failed", "skipped", AfterScope} : run' = [run EXCEPT ![x] = [run[x] EXCEPT !.pc = pc]]
      BY <2>1 DEF OpenScope, Goto
    <3> QED  BY <1>1, <1>4, <1>5, <1>6, <3>1 DEF RunRecord
  <2>2. CASE AcquireLease(x) \/ AcquireLeaseFails(x)
    <3>1. \/ \E pc \in {"failed", "skipped"} : run' = [run EXCEPT ![x] = [run[x] EXCEPT !.pc = pc]]
          \/ run' = [run EXCEPT ![x] = [run[x] EXCEPT !.pc = AfterLease, !.lease = "active"]]
      BY <2>2 DEF AcquireLease, AcquireLeaseFails, Goto
    <3>2. ASSUME NEW rec, rec = [run[x] EXCEPT !.pc = AfterLease, !.lease = "active"]
          PROVE  rec.pc = AfterLease /\ rec.claim = run[x].claim
      BY <1>1, <3>2 DEF RunRecord
    <3>3. \A pc \in {"failed", "skipped"} : LET rec == [run[x] EXCEPT !.pc = pc]
                                           IN  rec.pc = pc /\ rec.claim = run[x].claim
      BY <1>1 DEF RunRecord
    <3>4. ASSUME NEW pc \in {"failed", "skipped"}, run' = [run EXCEPT ![x] = [run[x] EXCEPT !.pc = pc]]
          PROVE  Goal
      <4> DEFINE rec == [run[x] EXCEPT !.pc = pc]
      <4>1. rec.pc # "execute" /\ rec.claim = run[x].claim
        BY <3>3
      <4>2. run' = [run EXCEPT ![x] = rec]
        BY <3>4
      <4> HIDE DEF rec, Goal
      <4> QED  BY <1>4, <1>6, <4>1, <4>2
    <3>5. CASE run' = [run EXCEPT ![x] = [run[x] EXCEPT !.pc = AfterLease, !.lease = "active"]]
      <4> DEFINE rec == [run[x] EXCEPT !.pc = AfterLease, !.lease = "active"]
      <4>1. rec.pc # "execute" /\ rec.claim = run[x].claim
        BY <1>5, <3>2
      <4>2. run' = [run EXCEPT ![x] = rec]
        BY <3>5
      <4> HIDE DEF rec, Goal
      <4> QED  BY <1>4, <1>6, <4>1, <4>2
    <3> QED  BY <3>1, <3>4, <3>5
  <2>3. ASSUME NEW m \in MinutesOf[x], check(x, m)
        PROVE  Goal
    <3>1. \E pc \in {"scope", "skipped"} : run' = [run EXCEPT ![x] = [run[x] EXCEPT !.pc = pc, !.minute = m]]
      BY <2>3 DEF check
    <3> QED  BY <1>1, <1>4, <1>6, <3>1 DEF RunRecord
  <2> QED  BY <1>7, <2>1, <2>2, <2>3
<1>8. ASSUME NEW x \in Runs, ClaimOccurrence(x) \/ ClaimOccurrenceFails(x) \/ complete(x) \/ completeFails(x) \/ DropClaim(x)
      PROVE  Goal
  <2>1. CASE x = r
    <3>1. Owns(marker'[run[x].minute], x) => ~ClaimOccurrence(x)
      BY <1>1, <1>2, <1>3, <2>1 DEF Owns, TypeOK, ClaimOccurrence
    <3>2. ~Owns(marker[run[x].minute], x)
      BY <1>3, <2>1
    <3>3. \/ \E pc \in {"skip", "dropLease", "release"} : run' = [run EXCEPT ![x] = [run[x] EXCEPT !.pc = pc]]
          \/ run' = [run EXCEPT ![x] = [run[x] EXCEPT !.pc = "dropClaim", !.claimLost = TRUE]]
          \/ run' = [run EXCEPT ![x] = [run[x] EXCEPT !.pc = "dropLease", !.claim = IF @ = "none" THEN @ ELSE "left"]]
      BY <1>8, <3>1, <3>2 DEF ClaimOccurrence, ClaimOccurrenceFails, ClaimRefused, complete, completeFails, DropClaim, Goto
    <3>4. \A pc \in {"skip", "dropLease", "release"} : LET rec == [run[x] EXCEPT !.pc = pc]
                                                       IN  rec.pc = pc /\ rec.claim = run[x].claim
      BY <1>1 DEF RunRecord
    <3>5. LET rec == [run[x] EXCEPT !.pc = "dropClaim", !.claimLost = TRUE]
          IN  rec.pc = "dropClaim" /\ rec.claim = run[x].claim
      BY <1>1 DEF RunRecord
    <3>6. LET rec == [run[x] EXCEPT !.pc = "dropLease", !.claim = IF @ = "none" THEN @ ELSE "left"]
          IN  rec.pc = "dropLease" /\ rec.claim # "completed"
      BY <1>1, <1>4, <2>1 DEF RunRecord
    <3>7. ASSUME NEW pc \in {"skip", "dropLease", "release"}, run' = [run EXCEPT ![x] = [run[x] EXCEPT !.pc = pc]]
          PROVE  Goal
      <4> DEFINE rec == [run[x] EXCEPT !.pc = pc]
      <4>1. rec.pc # "execute" /\ rec.claim # "completed"
        BY <1>4, <2>1, <3>4
      <4>2. run' = [run EXCEPT ![x] = rec]
        BY <3>7
      <4> HIDE DEF rec, Goal
      <4> QED  BY <1>6, <4>1, <4>2
    <3>8. CASE run' = [run EXCEPT ![x] = [run[x] EXCEPT !.pc = "dropClaim", !.claimLost = TRUE]]
      <4> DEFINE rec == [run[x] EXCEPT !.pc = "dropClaim", !.claimLost = TRUE]
      <4>1. rec.pc # "execute" /\ rec.claim # "completed"
        BY <1>4, <2>1, <3>5
      <4>2. run' = [run EXCEPT ![x] = rec]
        BY <3>8
      <4> HIDE DEF rec, Goal
      <4> QED  BY <1>6, <4>1, <4>2
    <3>9. CASE run' = [run EXCEPT ![x] = [run[x] EXCEPT !.pc = "dropLease", !.claim = IF @ = "none" THEN @ ELSE "left"]]
      <4> DEFINE rec == [run[x] EXCEPT !.pc = "dropLease", !.claim = IF @ = "none" THEN @ ELSE "left"]
      <4>1. rec.pc # "execute" /\ rec.claim # "completed"
        BY <3>6
      <4>2. run' = [run EXCEPT ![x] = rec]
        BY <3>9
      <4> HIDE DEF rec, Goal
      <4> QED  BY <1>6, <4>1, <4>2
    <3> QED  BY <3>3, <3>7, <3>8, <3>9
  <2>2. CASE x # r
    <3>1. run'[r] = run[r]
      <4>1. CASE ClaimOccurrence(x) \/ ClaimOccurrenceFails(x)
        BY <1>1, <2>2, <4>1 DEF ClaimOccurrence, ClaimOccurrenceFails, ClaimRefused, Goto
      <4>2. CASE complete(x) \/ completeFails(x) \/ DropClaim(x)
        BY <1>1, <2>2, <4>2 DEF complete, completeFails, DropClaim
      <4> QED  BY <1>8, <4>1, <4>2
    <3> QED  BY <1>4, <3>1
  <2> QED  BY <2>1, <2>2
<1>9. ASSUME NEW x \in Runs, Execute(x) \/ assertOwned(x) \/ assertOwnedFails(x) \/ RenewLease(x) \/ RenewClaim(x)
      PROVE  Goal
  BY <1>1, <1>4, <1>9 DEF Execute, assertOwned, assertOwnedFails, RenewLease, RenewClaim, Goto, RunRecord
<1>10. ASSUME NEW x \in Runs, LeaveLease(x) \/ LeaveLeaseFails(x)
       PROVE  Goal
  <2>1. \E pc \in {"completed", "skipped", "failed"} : Leave(x, pc)
    BY <1>10 DEF LeaveLease, LeaveLeaseFails
  <2> QED  BY <1>1, <1>4, <2>1 DEF Leave, RunRecord
<1>11. CASE ExpireLease \/ LapseLease \/ (\E m \in Minutes : ExpireClaim(m) \/ LapseClaim(m)) \/ UNCHANGED vars
  BY <1>4, <1>11 DEF ExpireLease, LapseLease, ExpireClaim, LapseClaim, vars
<1>12. ASSUME NEW s \in Servers, Crash(s)
       PROVE  Goal
  BY <1>1, <1>4, <1>12 DEF Crash, RunRecord
<1> QED  BY <1>7, <1>8, <1>9, <1>10, <1>11, <1>12 DEF Next

\* What onOneServer and withoutOverlapping promise (SchedulerRunner.run over
\* CacheLockSchedulerLockProvider): through failed calls, lapsed locks and crashes a completed
\* occurrence is not executed or completed again, and of two runs that held the lease together at
\* most one is reported as completed.
THEOREM RunsAreAlwaysExclusive == Spec => []TypeOK /\ RunsAreExclusive
<1>1. Init => SchedulerInv
  <2> SUFFICES ASSUME Init
               PROVE  SchedulerInv
    OBVIOUS
  <2>1. TypeOK
    BY SchedulerAssumption DEF Init, TypeOK, Idle
  <2>2. \A r \in Runs : RunIsSound(r)
    BY DEF Init, RunIsSound, FitsPolicy, Idle, Ended
  <2> QED  BY <2>1, <2>2 DEF Init, SchedulerInv
<1>2. SchedulerInv /\ [Next]_vars => SchedulerInv'
  BY SchedulerSteps
<1>3. SchedulerInv => TypeOK
  BY DEF SchedulerInv
<1>4. SchedulerInv /\ [Next]_vars => OccurrenceRunsOnce
  BY CompletedClaimsRefuse
<1>5. SchedulerInv => CompletedRunsAreDisjoint
  BY DEF SchedulerInv, RunIsSound, FitsPolicy, Lost, TypeOK, CompletedRunsAreDisjoint, Ended
<1>6. SchedulerInv /\ [Next]_vars => [OccurrenceRunsOnce /\ CompletedRunsAreDisjoint']_vars
  <2>1. SchedulerInv' => CompletedRunsAreDisjoint'
    BY <1>5, PTL
  <2> QED  BY <1>2, <1>4, <2>1
<1> QED  BY <1>1, <1>2, <1>3, <1>6, PTL DEF Spec, RunsAreExclusive

(***************************************************************************)
(* JobMiddleware.  Of two jobs that were inside the lock together one is not *)
(* its owner, or has been told so, and will fail; there are no more jobs     *)
(* inside that do not own the lock than locks were lost, so with the owner   *)
(* they overrun the exception window by no more than that.                   *)
(***************************************************************************)
JobRun == [pc : {"waiting", "completed", "failed", "failedHook"} \union Inside,
           availableAt : Nat, releases : 0..MaxReleases, lost : BOOLEAN,
           thrown : {"none", "released", "error"}, delay : Nat]

WindowEntry(e) ==
    \/ e = Missing
    \/ \E n \in Nat \ {0}, at \in Nat \ {0} :
          e = [present |-> TRUE, value |-> <<"window", n>>, expiresAt |-> at]

MiddlewareTypes ==
    /\ instant \in 1..LastInstant /\ overlapLock \in Jobs \union {None}
    /\ job \in [Jobs -> JobRun] /\ together \subseteq SUBSET Jobs
    /\ recorded \in Nat /\ cacheFaults \in 0..MaxCacheFaults
    /\ WindowEntry(rate) /\ WindowEntry(exceptions)

\* A job that will not be reported as completed.
Doomed(j) ==
    \/ job[j].pc \in {"failed", "failedHook"}
    \/ job[j].pc \in Inside /\ (overlapLock # j \/ job[j].lost)

OverlapsAreDoomed ==
    \A pair \in together :
        \E a, b \in Jobs : /\ pair = {a, b} /\ a # b /\ Doomed(a)
                           /\ job[a].pc # "waiting" /\ job[b].pc # "waiting"

\* The jobs inside that do not own the lock, and those that may still count a failure.
Intruders == {j \in Jobs : job[j].pc \in Inside /\ overlapLock # j}
Handling == {j \in Jobs : job[j].pc \in {"handler", "record"}}

IntrudersAreFaults == IsFiniteSet(Intruders) /\ Cardinality(Intruders) <= cacheFaults

FailuresAreFaults ==
    /\ IsFiniteSet(Handling)
    /\ attempts(exceptions, instant) + Cardinality(Handling) <= MaxExceptions + cacheFaults
    /\ recorded <= MaxExceptions + cacheFaults

MiddlewareInv == MiddlewareTypes /\ OverlapsAreDoomed /\ IntrudersAreFaults /\ FailuresAreFaults

\* What a fixed window counts.
LEMMA WindowFits ==
    ASSUME NEW e, WindowEntry(e), NEW now \in Nat \ {0}, NEW length \in Nat \ {0}
    PROVE  /\ attempts(e, now) \in Nat /\ retryAfter(e, now) \in Nat
           /\ WindowEntry(hitFixedWindow(e, length, now))
           /\ attempts(hitFixedWindow(e, length, now), now) = attempts(e, now) + 1
           /\ attempts(e, now + 1) <= attempts(e, now)
           /\ retryAfter(hitFixedWindow(e, length, now), now) \in Nat
<1>1. attempts(Missing, now) = 0 /\ attempts(Missing, now + 1) = 0
  BY DEF attempts, entry, Past, Missing, Never
<1>2. ASSUME NEW n \in Nat \ {0}, NEW at \in Nat \ {0},
             NEW f, f = [present |-> TRUE, value |-> <<"window", n>>, expiresAt |-> at]
      PROVE  /\ attempts(f, now) = IF at <= now THEN 0 ELSE n
             /\ attempts(f, now + 1) = IF at <= now + 1 THEN 0 ELSE n
             /\ retryAfter(f, now) \in Nat
  <2>1. f.present /\ f.value = <<"window", n>> /\ f.value[1] = "window" /\ f.value[2] = n /\ f.expiresAt = at
    BY <1>2
  <2>2. ~Missing.present
    BY DEF Missing
  <2>3. \A t \in Nat : attempts(f, t) = IF at <= t THEN 0 ELSE n
    BY <2>1, <2>2 DEF attempts, entry, Past, Never
  <2>4. now \in Nat /\ now + 1 \in Nat
    OBVIOUS
  <2>5. retryAfter(f, now) \in Nat
    <3>1. at - now > 1 => at - now \in Nat
      OBVIOUS
    <3>2. retryAfter(f, now) = IF at - now > 1 THEN at - now ELSE 1
      BY <2>1 DEF retryAfter
    <3> QED  BY <3>1, <3>2
  <2> QED  BY <2>3, <2>4, <2>5
<1> DEFINE opened == [present |-> TRUE, value |-> <<"window", 1>>, expiresAt |-> now + length]
<1>3. /\ WindowEntry(opened) /\ attempts(opened, now) = 1 /\ retryAfter(opened, now) \in Nat
      /\ retryAfter(Missing, now) \in Nat /\ WindowEntry(Missing)
  <2>1. now + length \in Nat \ {0} /\ 1 \in Nat \ {0} /\ ~(now + length <= now)
    OBVIOUS
  <2>2. attempts(opened, now) = 1 /\ retryAfter(opened, now) \in Nat
    BY <1>2, <2>1
  <2>3. WindowEntry(opened) /\ WindowEntry(Missing)
    BY <2>1 DEF WindowEntry
  <2>4. retryAfter(Missing, now) \in Nat
    BY DEF retryAfter, Missing, Never
  <2> QED  BY <2>2, <2>3, <2>4
<1>4. CASE e = Missing
  <2>1. hitFixedWindow(e, length, now) = opened
    BY <1>4 DEF hitFixedWindow, entry, Past, Missing, Never
  <2> HIDE DEF opened
  <2> QED  BY <1>1, <1>3, <1>4, <2>1
<1>5. CASE e # Missing
  <2>1. PICK n \in Nat \ {0}, at \in Nat \ {0} :
            e = [present |-> TRUE, value |-> <<"window", n>>, expiresAt |-> at]
    BY <1>5 DEF WindowEntry
  <2>2. /\ attempts(e, now) = IF at <= now THEN 0 ELSE n
        /\ attempts(e, now + 1) = IF at <= now + 1 THEN 0 ELSE n
        /\ retryAfter(e, now) \in Nat
    BY <1>2, <2>1
  <2>3. CASE at <= now
    <3>1. hitFixedWindow(e, length, now) = opened
      BY <2>1, <2>3 DEF hitFixedWindow, entry, Past, Missing, Never
    <3> HIDE DEF opened
    <3> QED  BY <1>3, <2>2, <2>3, <3>1
  <2>4. CASE ~(at <= now)
    <3> DEFINE later == [present |-> TRUE, value |-> <<"window", n + 1>>, expiresAt |-> at]
    <3>1. hitFixedWindow(e, length, now) = later
      BY <2>1, <2>4 DEF hitFixedWindow, entry, Past, Missing, Never
    <3>2. n + 1 \in Nat \ {0}
      OBVIOUS
    <3>3. WindowEntry(later) /\ attempts(later, now) = n + 1 /\ retryAfter(later, now) \in Nat
      BY <1>2, <2>4, <3>2 DEF WindowEntry
    <3> HIDE DEF later
    <3> QED  BY <2>2, <2>4, <3>1, <3>3
  <2> QED  BY <2>3, <2>4
<1> QED  BY <1>4, <1>5

LEMMA MiddlewareStarts == MiddlewareInit => MiddlewareInv
<1> SUFFICES ASSUME MiddlewareInit PROVE MiddlewareInv
  OBVIOUS
<1>1. NewRun \in JobRun /\ NewRun.pc = "waiting"
  BY JobMiddlewareAssumption DEF NewRun, JobRun, WithoutOverlappingOptions
<1>2. Intruders = {} /\ Handling = {}
  BY <1>1 DEF MiddlewareInit, Intruders, Handling, Inside
<1>3. attempts(exceptions, instant) = 0
  BY DEF MiddlewareInit, attempts, entry, Past, Missing, Never
<1>4. MiddlewareTypes
  <2>1. 1 \in 1..LastInstant /\ 0 \in Nat /\ 0 \in 0..MaxCacheFaults
    BY JobMiddlewareAssumption
  <2> QED  BY <1>1, <2>1 DEF MiddlewareInit, MiddlewareTypes, WindowEntry
<1>5. MaxExceptions \in Nat
  BY JobMiddlewareAssumption DEF ThrottlesExceptionsOptions
<1>6. together = {} /\ recorded = 0 /\ cacheFaults = 0
  BY DEF MiddlewareInit
<1>7. Cardinality({}) = 0 /\ IsFiniteSet({})
  BY FS_EmptySet
<1> QED  BY <1>2, <1>3, <1>4, <1>5, <1>6, <1>7
         DEF MiddlewareInv, OverlapsAreDoomed, IntrudersAreFaults, FailuresAreFaults

\* Numbers of the invariant.
LEMMA MiddlewareNumbers ==
    ASSUME MiddlewareInv
    PROVE  /\ instant \in Nat \ {0} /\ cacheFaults \in Nat /\ MaxExceptions \in Nat \ {0}
           /\ RateWindow \in Nat \ {0} /\ ExceptionWindow \in Nat \ {0}
           /\ attempts(exceptions, instant) \in Nat /\ Cardinality(Handling) \in Nat
           /\ Cardinality(Intruders) \in Nat /\ recorded \in Nat
<1>1. /\ instant \in Nat \ {0} /\ cacheFaults \in Nat /\ MaxExceptions \in Nat \ {0}
      /\ RateWindow \in Nat \ {0} /\ ExceptionWindow \in Nat \ {0} /\ recorded \in Nat
  BY JobMiddlewareAssumption DEF MiddlewareInv, MiddlewareTypes, RateLimitedOptions, ThrottlesExceptionsOptions
<1>2. attempts(exceptions, instant) \in Nat
  BY <1>1, WindowFits DEF MiddlewareInv, MiddlewareTypes
<1>3. Cardinality(Handling) \in Nat /\ Cardinality(Intruders) \in Nat
  BY FS_CardinalityType DEF MiddlewareInv, IntrudersAreFaults, FailuresAreFaults
<1> QED  BY <1>1, <1>2, <1>3

\* One job moves.
LEMMA OneJobMoves ==
    ASSUME MiddlewareTypes, NEW j \in Jobs, NEW rec \in JobRun, job' = [job EXCEPT ![j] = rec]
    PROVE  /\ job' \in [Jobs -> JobRun] /\ job'[j] = rec
           /\ \A m \in Jobs : m # j => job'[m] = job[m]
           /\ Handling' = IF rec.pc \in {"handler", "record"} THEN Handling \cup {j} ELSE Handling \ {j}
           /\ overlapLock' = overlapLock =>
                 Intruders' = IF rec.pc \in Inside /\ overlapLock # j
                              THEN Intruders \cup {j} ELSE Intruders \ {j}
<1>1. /\ job' \in [Jobs -> JobRun] /\ job'[j] = rec
      /\ \A m \in Jobs : m # j => job'[m] = job[m]
  BY DEF MiddlewareTypes
<1> QED  BY <1>1 DEF Handling, Intruders

\* The pairs of the other jobs stay doomed, and those of j when j does.
LEMMA OverlapsStayDoomed ==
    ASSUME MiddlewareInv, NEW j \in Jobs, NEW rec \in JobRun, job' = [job EXCEPT ![j] = rec],
           overlapLock' \in {overlapLock, None}, None \notin Jobs,
           together' \subseteq together,
           \A pair \in together' : j \in pair => rec.pc # "waiting" /\ (Doomed(j) => Doomed(j)')
    PROVE  OverlapsAreDoomed'
<1> SUFFICES ASSUME NEW pair \in together'
             PROVE  \E a, b \in Jobs : /\ pair = {a, b} /\ a # b /\ Doomed(a)'
                                       /\ job'[a].pc # "waiting" /\ job'[b].pc # "waiting"
  BY DEF OverlapsAreDoomed
<1>1. PICK a, b \in Jobs : /\ pair = {a, b} /\ a # b /\ Doomed(a)
                           /\ job[a].pc # "waiting" /\ job[b].pc # "waiting"
  BY DEF MiddlewareInv, OverlapsAreDoomed
<1>2. /\ job'[j] = rec /\ \A m \in Jobs : m # j => job'[m] = job[m]
  BY OneJobMoves DEF MiddlewareInv
<1>3. job'[a].pc # "waiting" /\ job'[b].pc # "waiting"
  BY <1>1, <1>2
<1>4. Doomed(a)'
  BY <1>1, <1>2 DEF Doomed
<1> QED  BY <1>1, <1>3, <1>4

\* A job that stays inside.
LEMMA InsideSteps ==
    ASSUME MiddlewareInv, NEW j \in Jobs, NEW rec \in JobRun, job' = [job EXCEPT ![j] = rec],
           job[j].pc \in Inside, rec.pc \in Inside, job[j].lost => rec.lost,
           UNCHANGED <<instant, overlapLock, together>>,
           CacheAnswers \/ CacheThrows, WindowEntry(rate'), WindowEntry(exceptions'), recorded' \in Nat,
           FailuresAreFaults'
    PROVE  MiddlewareInv'
<1>1. None \notin Jobs /\ cacheFaults \in Nat /\ Cardinality(Intruders) \in Nat
  BY MiddlewareNumbers, JobMiddlewareAssumption DEF WithoutOverlappingOptions
<1>2. /\ job' \in [Jobs -> JobRun] /\ job'[j] = rec
      /\ Intruders' = IF overlapLock # j THEN Intruders \cup {j} ELSE Intruders \ {j}
  BY OneJobMoves DEF MiddlewareInv
<1>3. Intruders' = Intruders
  BY <1>2 DEF Intruders
<1>4. cacheFaults' \in 0..MaxCacheFaults /\ cacheFaults' >= cacheFaults
  BY <1>1, JobMiddlewareAssumption DEF CacheAnswers, CacheThrows, MiddlewareInv, MiddlewareTypes
<1>5. MiddlewareTypes'
  BY <1>2, <1>4 DEF MiddlewareInv, MiddlewareTypes
<1>6. OverlapsAreDoomed'
  <2>1. Doomed(j) => Doomed(j)'
    BY <1>2 DEF Doomed, Inside
  <2>2. rec.pc # "waiting"
    BY DEF Inside
  <2> QED  BY <1>1, <2>1, <2>2, OverlapsStayDoomed
<1>7. IntrudersAreFaults'
  BY <1>1, <1>3, <1>4 DEF MiddlewareInv, IntrudersAreFaults
<1> QED  BY <1>5, <1>6, <1>7 DEF MiddlewareInv

\* A job that does not count failures, or no longer does, leaves room in the window.
LEMMA FailuresStay ==
    ASSUME MiddlewareInv, NEW j \in Jobs, NEW rec \in JobRun, job' = [job EXCEPT ![j] = rec],
           rec.pc \in {"handler", "record"} => j \in Handling,
           instant' = instant, exceptions' = exceptions, recorded' = recorded, CacheAnswers \/ CacheThrows
    PROVE  FailuresAreFaults'
<1>1. \/ Handling' = Handling \ {j}
      \/ Handling' = Handling
  <2>1. Handling' = IF rec.pc \in {"handler", "record"} THEN Handling \cup {j} ELSE Handling \ {j}
    BY OneJobMoves DEF MiddlewareInv
  <2> QED  BY <2>1
<1>2. IsFiniteSet(Handling') /\ Cardinality(Handling') <= Cardinality(Handling) /\ Cardinality(Handling') \in Nat
  <2>1. IsFiniteSet(Handling) /\ Handling' \in SUBSET Handling
    BY <1>1 DEF MiddlewareInv, FailuresAreFaults
  <2> QED  BY <2>1, FS_Subset, FS_CardinalityType
<1>3. cacheFaults' \in Nat /\ cacheFaults' >= cacheFaults
  BY MiddlewareNumbers DEF CacheAnswers, CacheThrows
<1> QED  BY <1>2, <1>3, MiddlewareNumbers DEF MiddlewareInv, FailuresAreFaults

\* What the calls of a job make of it.
LEMMA RunFits ==
    ASSUME MiddlewareTypes, NEW j \in Jobs
    PROVE  /\ \A thrown \in {"none", "released", "error"}, delay \in Nat :
                 InnerEnds(j, thrown, delay) =>
                    \E rec \in JobRun : /\ job' = [job EXCEPT ![j] = rec]
                                       /\ rec.pc = "release" /\ rec.lost = job[j].lost
           /\ \A pc \in {"rate", "throttle", "handler", "record", "failedHook"} :
                 job' = [job EXCEPT ![j].pc = pc] =>
                    \E rec \in JobRun : /\ job' = [job EXCEPT ![j] = rec]
                                       /\ rec.pc = pc /\ rec.lost = job[j].lost
           /\ \A delay \in Nat : Released(j, delay) \in JobRun /\ Released(j, delay).pc \in {"waiting", "failed"}
<1>1. job[j] \in JobRun /\ instant \in Nat
  BY JobMiddlewareAssumption DEF MiddlewareTypes
<1>2. ASSUME NEW thrown \in {"none", "released", "error"}, NEW delay \in Nat, InnerEnds(j, thrown, delay)
      PROVE  \E rec \in JobRun : /\ job' = [job EXCEPT ![j] = rec]
                                /\ rec.pc = "release" /\ rec.lost = job[j].lost
  <2> DEFINE rec == [job[j] EXCEPT !.pc = "release", !.thrown = thrown, !.delay = delay]
  <2>1. rec \in JobRun /\ rec.pc = "release" /\ rec.lost = job[j].lost
    BY <1>1 DEF JobRun, Inside
  <2>2. job' = [job EXCEPT ![j] = rec]
    BY <1>2 DEF InnerEnds
  <2> HIDE DEF rec
  <2> QED  BY <2>1, <2>2
<1>3. ASSUME NEW pc \in {"rate", "throttle", "handler", "record", "failedHook"},
             job' = [job EXCEPT ![j].pc = pc]
      PROVE  \E rec \in JobRun : /\ job' = [job EXCEPT ![j] = rec]
                                /\ rec.pc = pc /\ rec.lost = job[j].lost
  <2> DEFINE rec == [job[j] EXCEPT !.pc = pc]
  <2>1. rec \in JobRun /\ rec.pc = pc /\ rec.lost = job[j].lost
    BY <1>1 DEF JobRun, Inside
  <2>2. job' = [job EXCEPT ![j] = rec]
    BY <1>3
  <2> HIDE DEF rec
  <2> QED  BY <2>1, <2>2
<1>4. ASSUME NEW delay \in Nat
      PROVE  Released(j, delay) \in JobRun /\ Released(j, delay).pc \in {"waiting", "failed"}
  <2>1. CASE job[j].releases < MaxReleases
    <3>1. instant + delay \in Nat /\ job[j].releases + 1 \in 0..MaxReleases
      BY <1>1, <2>1, JobMiddlewareAssumption DEF JobRun, WithoutOverlappingOptions
    <3> QED  BY <2>1, <3>1 DEF Released, NewRun, JobRun
  <2>2. CASE ~(job[j].releases < MaxReleases)
    BY <1>1, <2>2 DEF Released, JobRun
  <2> QED  BY <2>1, <2>2
<1> QED  BY <1>2, <1>3, <1>4

\* The steps of a job inside the lock.
LEMMA InnerSteps ==
    ASSUME MiddlewareInv, NEW j \in Jobs,
           renewalFails(j) \/ hitRate(j) \/ checkThrottle(j) \/ runHandler(j) \/ recordFailure(j)
    PROVE  MiddlewareInv'
<1>1. /\ MiddlewareTypes /\ job[j] \in JobRun /\ job[j].pc \in Inside
      /\ UNCHANGED <<instant, overlapLock, together>> /\ (CacheAnswers \/ CacheThrows)
      /\ WindowEntry(rate) /\ WindowEntry(exceptions)
  BY DEF MiddlewareInv, MiddlewareTypes, renewalFails, hitRate, checkThrottle, runHandler, recordFailure,
         CacheAnswers, Inside
<1>2. /\ instant \in Nat \ {0} /\ RateWindow \in Nat \ {0} /\ ExceptionWindow \in Nat \ {0}
      /\ recorded \in Nat /\ attempts(exceptions, instant) \in Nat /\ retryAfter(exceptions, instant) \in Nat
  BY <1>1, MiddlewareNumbers, WindowFits
<1>3. ASSUME NEW rec \in JobRun, job' = [job EXCEPT ![j] = rec], rec.pc \in Inside, job[j].lost => rec.lost,
             rec.pc \in {"handler", "record"} => j \in Handling,
             exceptions' = exceptions, recorded' = recorded, WindowEntry(rate')
      PROVE  MiddlewareInv'
  <2>1. FailuresAreFaults'
    BY <1>1, <1>3, FailuresStay
  <2> QED  BY <1>1, <1>2, <1>3, <2>1, InsideSteps
<1>4. ASSUME NEW thrown \in {"none", "released", "error"}, NEW delay \in Nat, InnerEnds(j, thrown, delay),
             exceptions' = exceptions, recorded' = recorded, WindowEntry(rate')
      PROVE  MiddlewareInv'
  <2>1. PICK rec \in JobRun : job' = [job EXCEPT ![j] = rec] /\ rec.pc = "release" /\ rec.lost = job[j].lost
    BY <1>1, <1>4, RunFits
  <2> QED  BY <1>3, <1>4, <2>1 DEF Inside
<1>5. CASE renewalFails(j)
  <2> DEFINE rec == [job[j] EXCEPT !.lost = TRUE]
  <2>1. rec \in JobRun /\ rec.pc = job[j].pc /\ rec.lost = TRUE
    BY <1>1 DEF JobRun
  <2>2. job' = [job EXCEPT ![j] = rec] /\ exceptions' = exceptions /\ recorded' = recorded /\ rate' = rate
    BY <1>5 DEF renewalFails
  <2> HIDE DEF rec
  <2>3. rec.pc \in {"handler", "record"} => j \in Handling
    BY <2>1 DEF Handling
  <2> QED  BY <1>1, <1>3, <2>1, <2>2, <2>3
<1>6. CASE hitRate(j)
  <2>1. exceptions' = exceptions /\ recorded' = recorded
    BY <1>6 DEF hitRate
  <2>2. CASE rate' = hitFixedWindow(rate, RateWindow, instant)
    <3>1. WindowEntry(rate') /\ retryAfter(rate', instant) \in Nat
      BY <1>1, <1>2, <2>2, WindowFits
    <3>2. CASE job' = [job EXCEPT ![j].pc = "throttle"]
      <4>1. PICK rec \in JobRun : job' = [job EXCEPT ![j] = rec] /\ rec.pc = "throttle" /\ rec.lost = job[j].lost
        BY <1>1, <3>2, RunFits
      <4> QED  BY <1>3, <2>1, <3>1, <4>1 DEF Inside
    <3>3. CASE InnerEnds(j, "released", retryAfter(rate', instant)) \/ InnerEnds(j, "error", 0)
      BY <1>4, <2>1, <3>1, <3>3
    <3> QED  BY <1>6, <3>2, <3>3 DEF hitRate
  <2>3. CASE rate' = rate /\ InnerEnds(j, "error", 0)
    BY <1>1, <1>4, <2>1, <2>3
  <2> QED  BY <1>6, <2>2, <2>3 DEF hitRate
<1>7. CASE checkThrottle(j)
  <2>1. exceptions' = exceptions /\ recorded' = recorded /\ rate' = rate
    BY <1>7 DEF checkThrottle
  <2>2. CASE \/ InnerEnds(j, "released", retryAfter(exceptions, instant)) \/ InnerEnds(j, "error", 0)
    BY <1>1, <1>2, <1>4, <2>1, <2>2
  <2>3. CASE /\ ~(attempts(exceptions, instant) >= MaxExceptions) /\ CacheAnswers
             /\ job' = [job EXCEPT ![j].pc = "handler"]
    <3>1. PICK rec \in JobRun : job' = [job EXCEPT ![j] = rec] /\ rec.pc = "handler" /\ rec.lost = job[j].lost
      BY <1>1, <2>3, RunFits
    <3>2. Handling' = Handling \cup {j}
      BY <1>1, <3>1, OneJobMoves
    <3>3. Handling \cup {j} \in SUBSET (Intruders \cup {overlapLock})
      BY <1>1 DEF Handling, Intruders, Inside
    <3>4. /\ IsFiniteSet(Intruders \cup {overlapLock})
          /\ Cardinality(Intruders \cup {overlapLock}) \in Nat
          /\ Cardinality(Intruders \cup {overlapLock}) <= Cardinality(Intruders) + 1
      <4>1. IsFiniteSet(Intruders) /\ Cardinality(Intruders) \in Nat
        BY MiddlewareNumbers DEF MiddlewareInv, IntrudersAreFaults
      <4>2. /\ IsFiniteSet(Intruders \cup {overlapLock})
            /\ Cardinality(Intruders \cup {overlapLock}) =
                  IF overlapLock \in Intruders THEN Cardinality(Intruders) ELSE Cardinality(Intruders) + 1
        BY <4>1, FS_AddElement
      <4> QED  BY <4>1, <4>2
    <3>5. /\ IsFiniteSet(Handling') /\ Cardinality(Handling') \in Nat
          /\ Cardinality(Handling') <= Cardinality(Intruders \cup {overlapLock})
      BY <3>2, <3>3, <3>4, FS_Subset, FS_CardinalityType
    <3>6. attempts(exceptions, instant) + Cardinality(Handling') <= MaxExceptions + cacheFaults
      BY <1>2, <2>3, <3>4, <3>5, MiddlewareNumbers DEF MiddlewareInv, IntrudersAreFaults
    <3>7. FailuresAreFaults'
      BY <1>1, <2>1, <2>3, <3>5, <3>6 DEF MiddlewareInv, FailuresAreFaults, CacheAnswers
    <3> QED  BY <1>1, <1>2, <2>1, <3>1, <3>7, InsideSteps DEF Inside
  <2> QED  BY <1>7, <2>2, <2>3 DEF checkThrottle
<1>8. CASE runHandler(j)
  <2>1. exceptions' = exceptions /\ recorded' = recorded /\ rate' = rate
    BY <1>8 DEF runHandler
  <2>2. CASE job' = [job EXCEPT ![j].pc = "record"]
    <3>1. PICK rec \in JobRun : job' = [job EXCEPT ![j] = rec] /\ rec.pc = "record" /\ rec.lost = job[j].lost
      BY <1>1, <2>2, RunFits
    <3>2. j \in Handling
      BY <1>8 DEF runHandler, Handling
    <3> QED  BY <1>1, <1>3, <2>1, <3>1, <3>2 DEF Inside
  <2>3. CASE \E thrown \in {"none", "released", "error"}, delay \in {0, 1} : InnerEnds(j, thrown, delay)
    <3>1. PICK thrown \in {"none", "released", "error"}, delay \in {0, 1} : InnerEnds(j, thrown, delay)
      BY <2>3
    <3>2. delay \in Nat
      OBVIOUS
    <3> QED  BY <1>1, <1>4, <2>1, <3>1, <3>2
  <2> QED  BY <1>8, <2>2, <2>3 DEF runHandler
<1>9. CASE recordFailure(j)
  <2>1. rate' = rate /\ j \in Handling
    BY <1>9 DEF recordFailure, Handling
  <2>2. CASE exceptions' = exceptions /\ recorded' = recorded /\ InnerEnds(j, "error", 0)
    BY <1>1, <1>4, <2>1, <2>2
  <2>3. CASE /\ CacheAnswers /\ exceptions' = hitFixedWindow(exceptions, ExceptionWindow, instant)
             /\ recorded' = attempts(exceptions', instant)
             /\ InnerEnds(j, "released", IF recorded' >= MaxExceptions THEN retryAfter(exceptions', instant) ELSE 1)
    <3>1. /\ WindowEntry(exceptions') /\ retryAfter(exceptions', instant) \in Nat
          /\ attempts(exceptions', instant) = attempts(exceptions, instant) + 1
      BY <1>1, <1>2, <2>3, WindowFits
    <3>2. PICK rec \in JobRun : job' = [job EXCEPT ![j] = rec] /\ rec.pc = "release" /\ rec.lost = job[j].lost
      <4>1. CASE recorded' >= MaxExceptions
        BY <1>1, <2>3, <3>1, <4>1, RunFits
      <4>2. CASE ~(recorded' >= MaxExceptions)
        BY <1>1, <2>3, <4>2, RunFits
      <4> QED  BY <4>1, <4>2
    <3>3. Handling' = Handling \ {j}
      BY <1>1, <3>2, OneJobMoves
    <3>4. IsFiniteSet(Handling') /\ Cardinality(Handling') = Cardinality(Handling) - 1
      BY <2>1, <3>3, FS_RemoveElement DEF MiddlewareInv, FailuresAreFaults
    <3>5. FailuresAreFaults'
      <4>1. /\ attempts(exceptions, instant) + Cardinality(Handling) <= MaxExceptions + cacheFaults
            /\ cacheFaults' = cacheFaults
        BY <2>3 DEF MiddlewareInv, FailuresAreFaults, CacheAnswers
      <4>2. attempts(exceptions', instant) + Cardinality(Handling') <= MaxExceptions + cacheFaults
        BY <3>1, <3>4, <4>1, MiddlewareNumbers
      <4>3. Cardinality(Handling') \in Nat /\ attempts(exceptions', instant) \in Nat
        BY <1>2, <3>1, <3>4, FS_CardinalityType
      <4> QED  BY <1>1, <2>3, <3>4, <4>1, <4>2, <4>3, MiddlewareNumbers DEF FailuresAreFaults
    <3>6. recorded' \in Nat
      BY <1>2, <2>3, <3>1
    <3> QED  BY <1>1, <2>1, <3>1, <3>2, <3>5, <3>6, InsideSteps DEF Inside
  <2> QED  BY <1>9, <2>2, <2>3 DEF recordFailure
<1> QED  BY <1>5, <1>6, <1>7, <1>8, <1>9

\* No more intruders, and no fewer faults.
LEMMA IntrudersStay ==
    ASSUME MiddlewareInv, Intruders' \subseteq Intruders, CacheAnswers \/ CacheThrows
    PROVE  IntrudersAreFaults' /\ cacheFaults' \in 0..MaxCacheFaults
<1>1. IsFiniteSet(Intruders') /\ Cardinality(Intruders') <= Cardinality(Intruders) /\ Cardinality(Intruders') \in Nat
  <2>1. IsFiniteSet(Intruders) /\ Intruders' \in SUBSET Intruders
    BY DEF MiddlewareInv, IntrudersAreFaults
  <2> QED  BY <2>1, FS_Subset, FS_CardinalityType
<1>2. cacheFaults' \in Nat /\ cacheFaults' >= cacheFaults /\ cacheFaults' \in 0..MaxCacheFaults
  BY MiddlewareNumbers, JobMiddlewareAssumption DEF CacheAnswers, CacheThrows, MiddlewareInv, MiddlewareTypes
<1> QED  BY <1>1, <1>2, MiddlewareNumbers DEF MiddlewareInv, IntrudersAreFaults

\* A job that is not inside afterwards.
LEMMA OutsideSteps ==
    ASSUME MiddlewareInv, NEW j \in Jobs, NEW rec \in JobRun, job' = [job EXCEPT ![j] = rec],
           rec.pc \notin Inside, overlapLock' = overlapLock \/ (overlapLock = j /\ overlapLock' = None),
           UNCHANGED <<instant, rate, exceptions, recorded>>, CacheAnswers \/ CacheThrows,
           together' \subseteq together,
           \A pair \in together' : j \in pair => rec.pc # "waiting" /\ (Doomed(j) => Doomed(j)')
    PROVE  MiddlewareInv'
<1>1. None \notin Jobs /\ MiddlewareTypes
  BY JobMiddlewareAssumption DEF WithoutOverlappingOptions, MiddlewareInv
<1>2. /\ job' \in [Jobs -> JobRun] /\ job'[j] = rec
      /\ \A m \in Jobs : m # j => job'[m] = job[m]
  BY <1>1, OneJobMoves
<1>3. Intruders' \subseteq Intruders
  BY <1>1, <1>2 DEF Intruders
<1>4. IntrudersAreFaults' /\ cacheFaults' \in 0..MaxCacheFaults
  BY <1>3, IntrudersStay
<1>5. FailuresAreFaults'
  BY FailuresStay DEF Inside
<1>6. OverlapsAreDoomed'
  <2>1. overlapLock' \in {overlapLock, None}
    OBVIOUS
  <2> QED  BY <1>1, <2>1, OverlapsStayDoomed
<1>7. MiddlewareTypes'
  BY <1>1, <1>2, <1>4 DEF MiddlewareTypes
<1> QED  BY <1>4, <1>5, <1>6, <1>7 DEF MiddlewareInv

\* Leaving WithoutOverlapping: a job that lost its lock learns of it here at the latest.
LEMMA FinishSteps ==
    ASSUME MiddlewareInv, NEW j \in Jobs, finish(j) \/ failedPhase(j)
    PROVE  MiddlewareInv'
<1>1. MiddlewareTypes /\ job[j] \in JobRun /\ UNCHANGED <<instant, rate, exceptions, recorded>>
  BY DEF MiddlewareInv, MiddlewareTypes, finish, failedPhase
<1>2. CASE failedPhase(j)
  <2>1. PICK rec \in JobRun : job' = [job EXCEPT ![j] = rec] /\ rec.pc = "failedHook" /\ rec.lost = job[j].lost
    BY <1>1, <1>2, RunFits DEF failedPhase
  <2>2. /\ overlapLock' = overlapLock /\ together' = together /\ CacheAnswers
        /\ rec.pc \notin Inside /\ rec.pc # "waiting"
    BY <1>2, <2>1 DEF failedPhase, CacheAnswers, Inside
  <2>3. Doomed(j)'
    <3>1. job'[j] = rec
      BY <1>1, <2>1, OneJobMoves
    <3> QED  BY <2>1, <3>1 DEF Doomed
  <2> QED  BY <1>1, <2>1, <2>2, <2>3, OutsideSteps
<1>3. CASE finish(j)
  <2>1. PICK throws \in BOOLEAN :
          LET lost == job[j].lost \/ (~throws /\ ~Owns(overlapLock, j)) IN
          /\ IF throws THEN CacheThrows ELSE CacheAnswers
          /\ IF throws
             THEN overlapLock' \in {overlapLock, release(overlapLock, j)}
             ELSE overlapLock' = release(overlapLock, j)
          /\ job' = [job EXCEPT ![j] =
                 IF job[j].thrown = "released" THEN Released(j, job[j].delay)
                 ELSE [@ EXCEPT !.pc = IF job[j].thrown = "error" \/ lost \/ throws THEN "failed" ELSE "completed",
                                !.lost = lost]]
    BY <1>3 DEF finish
  <2>2. /\ overlapLock' = overlapLock \/ (overlapLock = j /\ overlapLock' = None)
        /\ CacheAnswers \/ CacheThrows
        /\ job[j].pc = "release" /\ job[j].delay \in Nat /\ job[j].lost \in BOOLEAN
        /\ together' = IF job[j].thrown = "released" THEN {p \in together : j \notin p} ELSE together
    BY <1>1, <1>3, <2>1 DEF release, Owns, finish, JobRun
  <2>3. CASE job[j].thrown = "released"
    <3>1. /\ job' = [job EXCEPT ![j] = Released(j, job[j].delay)]
          /\ Released(j, job[j].delay) \in JobRun /\ Released(j, job[j].delay).pc \in {"waiting", "failed"}
      BY <1>1, <2>1, <2>2, <2>3, RunFits
    <3>2. together' \subseteq together /\ \A pair \in together' : j \notin pair
      BY <2>2, <2>3
    <3>3. Released(j, job[j].delay).pc \notin Inside
      BY <3>1 DEF Inside
    <3> QED  BY <1>1, <2>2, <3>1, <3>2, <3>3, OutsideSteps
  <2>4. CASE job[j].thrown # "released"
    <3> DEFINE lost == job[j].lost \/ (~throws /\ ~Owns(overlapLock, j))
               pc == IF job[j].thrown = "error" \/ lost \/ throws THEN "failed" ELSE "completed"
               rec == [job[j] EXCEPT !.pc = pc, !.lost = lost]
    <3>1. job' = [job EXCEPT ![j] = rec]
      BY <2>1, <2>4
    <3>2. lost \in BOOLEAN /\ pc \in {"failed", "completed"}
      BY <2>2
    <3>3. Doomed(j) => pc = "failed"
      BY <2>2 DEF Doomed, Owns
    <3> HIDE DEF lost, pc
    <3>4. rec \in JobRun /\ rec.pc = pc
      BY <1>1, <3>2 DEF JobRun
    <3> HIDE DEF rec
    <3>5. Doomed(j) => Doomed(j)'
      <4>1. job'[j] = rec
        BY <1>1, <3>1, <3>4, OneJobMoves
      <4> QED  BY <3>3, <3>4, <4>1 DEF Doomed
    <3>6. rec.pc \notin Inside /\ rec.pc # "waiting"
      BY <3>2, <3>4 DEF Inside
    <3> QED  BY <1>1, <2>2, <2>4, <3>1, <3>4, <3>5, <3>6, OutsideSteps
  <2> QED  BY <2>3, <2>4
<1> QED  BY <1>2, <1>3

\* Entering WithoutOverlapping: who is still inside does not own the lock.
LEMMA AcquireLockSteps ==
    ASSUME MiddlewareInv, NEW j \in Jobs, acquireLock(j)
    PROVE  MiddlewareInv'
<1>1. /\ MiddlewareTypes /\ job[j] \in JobRun /\ UNCHANGED <<instant, rate, exceptions, recorded>>
      /\ job[j].pc = "waiting" /\ None \notin Jobs
  BY JobMiddlewareAssumption DEF MiddlewareInv, MiddlewareTypes, acquireLock, WithoutOverlappingOptions
<1>2. \A pair \in together : j \notin pair
  BY <1>1 DEF MiddlewareInv, OverlapsAreDoomed
<1>3. CASE /\ overlapLock # None /\ CacheAnswers /\ job' = [job EXCEPT ![j] = Released(j, 1)]
           /\ UNCHANGED <<overlapLock, together>>
  <2>1. Released(j, 1) \in JobRun /\ Released(j, 1).pc \in {"waiting", "failed"}
    BY <1>1, RunFits
  <2>2. Released(j, 1).pc \notin Inside
    BY <2>1 DEF Inside
  <2> QED  BY <1>1, <1>2, <1>3, <2>1, <2>2, OutsideSteps
<1>4. CASE /\ CacheThrows /\ job' = [job EXCEPT ![j] = [@ EXCEPT !.pc = "failed", !.thrown = "error"]]
           /\ UNCHANGED <<overlapLock, together>>
  <2> DEFINE rec == [job[j] EXCEPT !.pc = "failed", !.thrown = "error"]
  <2>1. rec \in JobRun /\ rec.pc = "failed" /\ rec.pc \notin Inside
    BY <1>1 DEF JobRun, Inside
  <2>2. job' = [job EXCEPT ![j] = rec]
    BY <1>4
  <2> HIDE DEF rec
  <2> QED  BY <1>1, <1>2, <1>4, <2>1, <2>2, OutsideSteps
<1>5. CASE /\ overlapLock = None /\ CacheAnswers /\ overlapLock' = acquire(overlapLock, j)
           /\ job' = [job EXCEPT ![j].pc = "rate"]
           /\ together' = together \union {{j, k} : k \in {k \in Jobs : job[k].pc \in Inside}}
  <2>1. overlapLock' = j /\ cacheFaults' = cacheFaults
    BY <1>5 DEF acquire, CacheAnswers
  <2>2. PICK rec \in JobRun : job' = [job EXCEPT ![j] = rec] /\ rec.pc = "rate" /\ rec.lost = job[j].lost
    BY <1>1, <1>5, RunFits
  <2>3. /\ job' \in [Jobs -> JobRun] /\ job'[j] = rec
        /\ \A m \in Jobs : m # j => job'[m] = job[m]
    BY <1>1, <2>2, OneJobMoves
  <2>4. Intruders' = Intruders
    BY <1>1, <1>5, <2>1, <2>2, <2>3 DEF Intruders, Inside
  <2>5. IntrudersAreFaults'
    BY <1>5, <2>4, IntrudersStay
  <2>6. FailuresAreFaults'
    BY <1>1, <1>5, <2>2, FailuresStay
  <2>7. MiddlewareTypes'
    <3>1. \A k \in Jobs : {j, k} \in SUBSET Jobs
      OBVIOUS
    <3>2. together' \in SUBSET SUBSET Jobs
      BY <1>1, <1>5, <3>1 DEF MiddlewareTypes
    <3> QED  BY <1>1, <2>1, <2>3, <3>2 DEF MiddlewareTypes
  <2>8. OverlapsAreDoomed'
    <3> SUFFICES ASSUME NEW pair \in together'
                 PROVE  \E a, b \in Jobs : /\ pair = {a, b} /\ a # b /\ Doomed(a)'
                                           /\ job'[a].pc # "waiting" /\ job'[b].pc # "waiting"
      BY DEF OverlapsAreDoomed
    <3>1. CASE pair \in together
      <4>1. PICK a, b \in Jobs : /\ pair = {a, b} /\ a # b /\ Doomed(a)
                                 /\ job[a].pc # "waiting" /\ job[b].pc # "waiting"
        BY <3>1 DEF MiddlewareInv, OverlapsAreDoomed
      <4>2. a # j /\ b # j
        BY <1>1, <4>1
      <4>3. Doomed(a)'
        BY <2>1, <2>3, <4>1, <4>2 DEF Doomed
      <4> QED  BY <2>3, <4>1, <4>2, <4>3
    <3>2. ASSUME NEW k \in Jobs, job[k].pc \in Inside, pair = {j, k}
          PROVE  \E a, b \in Jobs : /\ pair = {a, b} /\ a # b /\ Doomed(a)'
                                    /\ job'[a].pc # "waiting" /\ job'[b].pc # "waiting"
      <4>1. k # j /\ job[k].pc # "waiting" /\ pair = {k, j}
        BY <1>1, <3>2 DEF Inside
      <4>2. job'[k] = job[k]
        BY <2>3, <4>1
      <4>3. Doomed(k)'
        BY <2>1, <3>2, <4>1, <4>2 DEF Doomed
      <4> QED  BY <2>2, <2>3, <4>1, <4>2, <4>3
    <3> QED  BY <1>5, <3>1, <3>2
  <2> QED  BY <2>5, <2>6, <2>7, <2>8 DEF MiddlewareInv
<1> QED  BY <1>3, <1>4, <1>5 DEF acquireLock

\* The lock expires, and time passes.
LEMMA LapseSteps ==
    ASSUME MiddlewareInv, lapse \/ expireLock \/ MiddlewareTick
    PROVE  MiddlewareInv'
<1>1. /\ MiddlewareTypes /\ UNCHANGED <<rate, exceptions, job, together, recorded>>
      /\ Handling' = Handling /\ None \notin Jobs
  BY JobMiddlewareAssumption DEF MiddlewareInv, lapse, expireLock, MiddlewareTick, Handling, WithoutOverlappingOptions
<1>2. OverlapsAreDoomed'
  <2>1. overlapLock' \in {overlapLock, None}
    BY DEF lapse, expireLock, MiddlewareTick
  <2>2. \A m \in Jobs : Doomed(m) => Doomed(m)'
    BY <1>1, <2>1 DEF Doomed
  <2> QED  BY <1>1, <2>2 DEF MiddlewareInv, OverlapsAreDoomed
<1>3. /\ IsFiniteSet(Intruders) /\ Cardinality(Intruders) <= cacheFaults
      /\ IsFiniteSet(Handling) /\ recorded <= MaxExceptions + cacheFaults
      /\ attempts(exceptions, instant) + Cardinality(Handling) <= MaxExceptions + cacheFaults
  BY DEF MiddlewareInv, IntrudersAreFaults, FailuresAreFaults
<1>4. CASE lapse
  <2>1. /\ overlapLock' = None /\ cacheFaults' = cacheFaults + 1 /\ cacheFaults < MaxCacheFaults
        /\ instant' = instant
    BY <1>4 DEF lapse
  <2>2. Intruders' \in SUBSET (Intruders \cup {overlapLock})
    BY <1>1 DEF Intruders
  <2>3. /\ IsFiniteSet(Intruders \cup {overlapLock})
        /\ Cardinality(Intruders \cup {overlapLock}) =
              IF overlapLock \in Intruders THEN Cardinality(Intruders) ELSE Cardinality(Intruders) + 1
    BY <1>3, FS_AddElement
  <2>4. /\ IsFiniteSet(Intruders') /\ Cardinality(Intruders') \in Nat
        /\ Cardinality(Intruders') <= Cardinality(Intruders \cup {overlapLock})
    BY <2>2, <2>3, FS_Subset, FS_CardinalityType
  <2>5. IntrudersAreFaults'
    BY <1>3, <2>1, <2>3, <2>4, MiddlewareNumbers DEF IntrudersAreFaults
  <2>6. FailuresAreFaults'
    BY <1>1, <1>3, <2>1, MiddlewareNumbers DEF FailuresAreFaults
  <2>7. MiddlewareTypes'
    BY <1>1, <2>1, JobMiddlewareAssumption DEF MiddlewareTypes
  <2> QED  BY <1>2, <2>5, <2>6, <2>7 DEF MiddlewareInv
<1>5. CASE expireLock
  <2>1. overlapLock' = None /\ cacheFaults' = cacheFaults /\ instant' = instant
        /\ job[overlapLock].pc \notin Inside
    BY <1>5 DEF expireLock
  <2>2. Intruders' = Intruders
    BY <1>1, <2>1 DEF Intruders
  <2>3. MiddlewareTypes' /\ IntrudersAreFaults' /\ FailuresAreFaults'
    BY <1>1, <1>3, <2>1, <2>2 DEF MiddlewareTypes, IntrudersAreFaults, FailuresAreFaults
  <2> QED  BY <1>2, <2>3 DEF MiddlewareInv
<1>6. CASE MiddlewareTick
  <2>1. /\ overlapLock' = overlapLock /\ cacheFaults' = cacheFaults
        /\ instant' = instant + 1 /\ instant < LastInstant
    BY <1>6 DEF MiddlewareTick
  <2>2. Intruders' = Intruders
    BY <1>1, <2>1 DEF Intruders
  <2>3. attempts(exceptions, instant + 1) <= attempts(exceptions, instant)
        /\ attempts(exceptions, instant + 1) \in Nat
    <3>1. instant \in Nat \ {0} /\ instant + 1 \in Nat \ {0} /\ WindowEntry(exceptions)
          /\ ExceptionWindow \in Nat \ {0}
      BY <1>1, MiddlewareNumbers DEF MiddlewareTypes
    <3> QED  BY <3>1, WindowFits
  <2>4. FailuresAreFaults'
    BY <1>1, <1>3, <2>1, <2>3, MiddlewareNumbers DEF FailuresAreFaults
  <2>5. MiddlewareTypes' /\ IntrudersAreFaults'
    BY <1>1, <1>3, <2>1, <2>2, JobMiddlewareAssumption DEF MiddlewareTypes, IntrudersAreFaults
  <2> QED  BY <1>2, <2>4, <2>5 DEF MiddlewareInv
<1> QED  BY <1>4, <1>5, <1>6

\* WithoutOverlapping, RateLimited and ThrottlesExceptions, packages/queue-middleware/src/index.ts:
\* of the jobs that were inside the lock at once at most one is reported as completed, and the
\* exception window overruns by no more than the locks that were lost.
THEOREM MiddlewareIsAlwaysExact == MiddlewareSpec => [](MiddlewareTypeOK /\ MiddlewareIsExact)
<1>1. MiddlewareInv /\ [MiddlewareNext]_middlewareVars => MiddlewareInv'
  <2>1. ASSUME MiddlewareInv, MiddlewareNext PROVE MiddlewareInv'
    BY <2>1, InnerSteps, FinishSteps, AcquireLockSteps, LapseSteps DEF MiddlewareNext
  <2>2. ASSUME MiddlewareInv, UNCHANGED middlewareVars PROVE MiddlewareInv'
    BY <2>2 DEF middlewareVars, MiddlewareInv, MiddlewareTypes, OverlapsAreDoomed, IntrudersAreFaults,
                FailuresAreFaults, Doomed, Intruders, Handling
  <2> QED  BY <2>1, <2>2
<1>2. MiddlewareInv => MiddlewareTypeOK /\ MiddlewareIsExact
  <2> SUFFICES ASSUME MiddlewareInv PROVE MiddlewareTypeOK /\ MiddlewareIsExact
    OBVIOUS
  <2>1. MiddlewareTypeOK /\ ThrottleIsExact
    BY DEF MiddlewareInv, MiddlewareTypes, MiddlewareTypeOK, JobRun, FailuresAreFaults, ThrottleIsExact
  <2>2. OverlapIsReported
    <3> SUFFICES ASSUME NEW pair \in together
                 PROVE  Cardinality({m \in pair : job[m].pc = "completed"}) <= 1
      BY DEF OverlapIsReported
    <3>1. PICK a, b \in Jobs : pair = {a, b} /\ a # b /\ Doomed(a)
      BY DEF MiddlewareInv, OverlapsAreDoomed
    <3>2. job[a].pc # "completed"
      BY <3>1 DEF Doomed, Inside
    <3> DEFINE done == {m \in pair : job[m].pc = "completed"}
    <3>3. done = {} \/ done = {b}
      BY <3>1, <3>2
    <3>4. Cardinality({}) = 0 /\ Cardinality({b}) = 1
      BY FS_EmptySet, FS_Singleton
    <3>5. Cardinality(done) = 0 \/ Cardinality(done) = 1
      BY <3>3, <3>4, Zenon
    <3> HIDE DEF done
    <3>6. Cardinality(done) <= 1
      BY <3>5
    <3> QED  BY <3>6 DEF done
  <2> QED  BY <2>1, <2>2 DEF MiddlewareIsExact
<1> QED  BY MiddlewareStarts, <1>1, <1>2, PTL DEF MiddlewareSpec

(***************************************************************************)
(* RateLimiter.  As long as the window of a request lasts and is not        *)
(* cleared, the timer names it and its hits are in one counter.             *)
(***************************************************************************)
TimerTo(end, at) == [present |-> TRUE, value |-> <<"number", end>>, expiresAt |-> at]
\* The timer names a window; it may outlive its end.
Holds(t, end) == \E at \in Nat : at >= end /\ t = TimerTo(end, at)
CounterAt(n, end) == [present |-> TRUE, value |-> <<"number", n>>, expiresAt |-> end]
WindowAt(n, end) == [present |-> TRUE, value |-> <<"window", n>>, expiresAt |-> end]

LimiterTypes ==
    /\ atomicFixedWindow \in BOOLEAN /\ time \in 1..MaxTime
    /\ timer = Missing \/ \E end \in Ends : Holds(timer, end)
    /\ window = Missing \/ \E end \in Ends, n \in Nat : window = WindowAt(n, end)
    /\ DOMAIN counters = Ends
    /\ \A end \in Ends : counters[end] = Missing \/ \E n \in Nat : counters[end] = CounterAt(n, end)
    /\ request \in [Requests -> Hits]
    /\ clearing \in Clears
    /\ clearing.pc \in {"both", "counter"} => clearing.resetAt \in Ends /\ ~atomicFixedWindow

\* Where a request is when it has not lost its window.
HitFits(h) ==
    /\ h.pc = "idle" => h = Fresh
    /\ h.pc # "answered" => ~h.allowed
    /\ h.pc \in {"add", "get", "increment"} => ~atomicFixedWindow /\ h.resetAt \in Ends
    /\ h.pc = "add" => h.resetAt = h.now + Decay /\ h.now \in 1..time /\ h.made = 0 /\ ~h.late /\ ~h.waited
    /\ h.pc \in {"get", "increment"} => h.made \in Ends
    /\ atomicFixedWindow => ~h.late /\ h.now = 0
    /\ h.pc = "get" /\ ~h.late /\ time < h.made => Holds(timer, h.made)
    /\ h.pc = "increment" /\ ~h.late /\ time < h.made => h.resetAt = h.made

Asked == {q \in Requests : request[q].pc # "idle"}
Keeping(end) == AllowedIn(end) \ Straddlers(end)

\* The hits counted for a window, and those that a clear took away.
Counted(end) ==
    IF atomicFixedWindow
    THEN IF window.present /\ window.expiresAt = end THEN window.value[2] ELSE 0
    ELSE IF counters[end].present THEN counters[end].value[2] ELSE 0
Forgotten == IF Restarted THEN MaxAttempts ELSE 0

WindowsAreKept ==
    \A end \in Ends :
        /\ Cardinality(Keeping(end)) <= Forgotten + MaxAttempts
        /\ time < end => Cardinality(Keeping(end)) <= Forgotten + Counted(end)

LimiterInv ==
    /\ LimiterTypes
    /\ IsFiniteSet(Asked)
    /\ \A q \in Requests : HitFits(request[q])
    /\ WindowsAreKept

\* A request that waited between its clock and its add made the window of that end, which a
\* timer that outlives its end, and a request made past the end of its window, owe to it.
Delayed(end) == \E p \in Requests : request[p].waited /\ request[p].now + Decay = end
GapsAreOwed ==
    /\ \A end \in Ends, at \in Nat : timer = TimerTo(end, at) /\ at > end => Delayed(end)
    /\ \A q \in Requests : request[q].made # 0 /\ request[q].made <= request[q].now => Delayed(request[q].made)

LEMMA LimiterNumbers ==
    /\ MaxAttempts \in Nat /\ MaxAttempts > 0 /\ Decay \in Nat /\ Decay > 0 /\ MaxTime \in Nat
    /\ Ends \subseteq Nat /\ 0 \notin Ends
    /\ \A t \in 1..MaxTime : t \in Nat /\ t + Decay \in Ends /\ t + Decay > t
  BY RateLimiterAssumption DEF Ends

\* What the cache answers for a key that expires at the end of its window.
LEMMA EntryFacts ==
    ASSUME NEW end \in Nat \ {0}, NEW now \in Nat, NEW v, NEW e,
           e = [present |-> TRUE, value |-> v, expiresAt |-> end]
    PROVE  /\ now < end => entry(e, now) = e /\ has(e, now)
           /\ ~(now < end) => entry(e, now) = Missing /\ ~has(e, now)
           /\ entry(Missing, now) = Missing /\ ~has(Missing, now)
           /\ ~Missing.present /\ Missing # e /\ e.present /\ e.value = v /\ e.expiresAt = end
           /\ Missing.expiresAt = 0
<1>1. e.present /\ e.value = v /\ e.expiresAt = end
  OBVIOUS
<1>2. ~Missing.present /\ Missing.expiresAt = 0 /\ Missing # e
  <2>1. ~Missing.present /\ Missing.expiresAt = 0
    BY DEF Missing, Never
  <2> QED  BY <1>1, <2>1
<1>3. entry(Missing, now) = Missing
  BY <1>2 DEF entry, Past, Never
<1>4. now < end => entry(e, now) = e
  BY <1>1 DEF entry, Past, Never
<1>5. ~(now < end) => entry(e, now) = Missing
  BY <1>1 DEF entry, Past, Never
<1>6. now < end => has(e, now)
  BY <1>1, <1>4 DEF has
<1>7. ~(now < end) => ~has(e, now)
  BY <1>2, <1>5 DEF has
<1>8. ~has(Missing, now)
  BY <1>2, <1>3 DEF has
<1> QED  BY <1>1, <1>2, <1>3, <1>4, <1>5, <1>6, <1>7, <1>8

LEMMA TimerFacts ==
    ASSUME NEW end \in Ends, NEW t, Holds(t, end), NEW now \in Nat
    PROVE  /\ t.value[2] = end /\ t # Missing /\ (has(t, now) => entry(t, now) = t)
           /\ now < end => has(t, now)
           /\ has(t, now) => now < t.expiresAt
<1>1. PICK at \in Nat : at >= end /\ t = TimerTo(end, at)
  BY DEF Holds
<1>2. end \in Nat /\ at \in Nat \ {0}
  BY <1>1, LimiterNumbers
<1>3. /\ now < at => entry(t, now) = t /\ has(t, now)
      /\ ~(now < at) => ~has(t, now)
      /\ Missing # t /\ t.value = <<"number", end>> /\ t.expiresAt = at
  BY <1>1, <1>2, EntryFacts DEF TimerTo
<1> QED  BY <1>1, <1>2, <1>3

LEMMA LimiterStarts == LimiterInit => LimiterInv
<1> SUFFICES ASSUME LimiterInit PROVE LimiterInv
  OBVIOUS
<1>1. /\ Fresh \in Hits /\ Fresh.pc = "idle" /\ Fresh.allowed = FALSE /\ 0 \notin Ends
      /\ Fresh.late = FALSE /\ Fresh.now = 0 /\ ~Missing.present
  BY LimiterNumbers DEF Fresh, Hits, Missing
<1>2. \A q \in Requests : request[q] = Fresh
  BY DEF LimiterInit
<1>3. LimiterTypes
  BY <1>1, RateLimiterAssumption, LimiterNumbers DEF LimiterInit, LimiterTypes, Clears
<1>4. Asked = {} /\ \A end \in Ends : Keeping(end) = {}
  BY <1>1, <1>2 DEF Asked, Keeping, AllowedIn
<1>5. \A q \in Requests : HitFits(request[q])
  BY <1>1, <1>2 DEF HitFits
<1>6. WindowsAreKept
  <2>1. Forgotten = 0 /\ \A end \in Ends : Counted(end) = 0
    BY <1>1 DEF LimiterInit, Forgotten, Restarted, Counted
  <2> QED  BY <1>4, <2>1, FS_EmptySet, LimiterNumbers DEF WindowsAreKept
<1> QED  BY <1>3, <1>4, <1>5, <1>6, FS_EmptySet DEF LimiterInv

LEMMA KeepingIsFinite ==
    ASSUME LimiterInv, NEW end \in Ends
    PROVE  /\ IsFiniteSet(Keeping(end)) /\ Cardinality(Keeping(end)) \in Nat
           /\ Keeping(end) \subseteq Asked
<1>1. Keeping(end) \subseteq Asked
  BY DEF LimiterInv, Keeping, AllowedIn, Asked, HitFits, Fresh
<1> QED  BY <1>1, FS_Subset, FS_CardinalityType DEF LimiterInv

LEMMA CountedIsNumber ==
    ASSUME LimiterTypes, NEW end \in Ends
    PROVE  Counted(end) \in Nat
<1>1. ~Missing.present
  BY DEF Missing
<1>2. counters[end].present => counters[end].value[2] \in Nat
  <2> SUFFICES ASSUME counters[end] # Missing PROVE counters[end].value[2] \in Nat
    BY <1>1
  <2>1. PICK n \in Nat : counters[end] = CounterAt(n, end)
    BY DEF LimiterTypes
  <2> QED  BY <2>1 DEF CounterAt
<1>3. window.present => window.value[2] \in Nat
  <2>1. window = Missing \/ \E e \in Ends, n \in Nat : window = WindowAt(n, e)
    BY DEF LimiterTypes
  <2> QED  BY <1>1, <2>1 DEF WindowAt
<1> QED  BY <1>2, <1>3 DEF Counted

LEMMA CountedStaysNumber ==
    LimiterTypes' => (\A end \in Ends : Counted(end) \in Nat)'
<1>1. LimiterTypes => \A end \in Ends : Counted(end) \in Nat
  BY CountedIsNumber
<1> QED  BY <1>1, PTL

\* A window keeps at most the one request that moves.
LEMMA KeepingGrows ==
    ASSUME LimiterInv, NEW q \in Requests, NEW h \in Hits, request' = [request EXCEPT ![q] = h]
    PROVE  /\ IsFiniteSet(Asked') /\ request' \in [Requests -> Hits] /\ request'[q] = h
           /\ \A p \in Requests : p # q => request'[p] = request[p]
           /\ \A end \in Ends :
                /\ Cardinality(Keeping(end)') <= Cardinality(Keeping(end)) + 1
                /\ ~(h.allowed /\ ~h.late /\ h.made = end)
                   => Cardinality(Keeping(end)') <= Cardinality(Keeping(end))
<1>1. /\ request' \in [Requests -> Hits] /\ request'[q] = h
      /\ \A p \in Requests : p # q => request'[p] = request[p]
  BY DEF LimiterInv, LimiterTypes
<1>2. IsFiniteSet(Asked')
  <2>1. Asked' \subseteq Asked \cup {q}
    BY <1>1 DEF Asked
  <2> QED  BY <2>1, FS_AddElement, FS_Subset DEF LimiterInv
<1>3. ASSUME NEW end \in Ends
      PROVE  /\ Cardinality(Keeping(end)') <= Cardinality(Keeping(end)) + 1
             /\ ~(h.allowed /\ ~h.late /\ h.made = end)
                => Cardinality(Keeping(end)') <= Cardinality(Keeping(end))
  <2>1. IsFiniteSet(Keeping(end)) /\ Cardinality(Keeping(end)) \in Nat
    BY KeepingIsFinite
  <2>2. IsFiniteSet(Keeping(end) \cup {q}) /\ Cardinality(Keeping(end) \cup {q}) <= Cardinality(Keeping(end)) + 1
        /\ Cardinality(Keeping(end) \cup {q}) \in Nat
    <3> DEFINE K == Keeping(end)
    <3>1. IsFiniteSet(K) /\ Cardinality(K) \in Nat
      BY <2>1
    <3> HIDE DEF K
    <3>2. IsFiniteSet(K \cup {q}) /\ Cardinality(K \cup {q}) \in {Cardinality(K), Cardinality(K) + 1}
      BY <3>1, FS_AddElement
    <3>3. Cardinality(K \cup {q}) \in Nat /\ Cardinality(K \cup {q}) <= Cardinality(K) + 1
      BY <3>1, <3>2
    <3> QED  BY <3>2, <3>3 DEF K
  <2>3. Keeping(end)' \subseteq Keeping(end) \cup {q}
    BY <1>1 DEF Keeping, AllowedIn, Straddlers
  <2>4. ~(h.allowed /\ ~h.late /\ h.made = end) => Keeping(end)' \subseteq Keeping(end)
    BY <1>1 DEF Keeping, AllowedIn, Straddlers
  <2>5. /\ Cardinality(Keeping(end)') \in Nat
        /\ Cardinality(Keeping(end)') <= Cardinality(Keeping(end) \cup {q})
    BY <2>2, <2>3, FS_Subset, FS_CardinalityType
  <2>6. Keeping(end)' \subseteq Keeping(end) => Cardinality(Keeping(end)') <= Cardinality(Keeping(end))
    BY <2>1, FS_Subset
  <2> QED  BY <2>1, <2>2, <2>4, <2>5, <2>6
<1> QED  BY <1>1, <1>2, <1>3

\* The answer to a request: it is late unless its window is open.
LEMMA AnswerFits ==
    ASSUME LimiterInv, NEW q \in Requests, NEW count \in Nat, NEW made \in Ends, Answer(q, count, made)
    PROVE  \E h \in Hits :
              /\ request' = [request EXCEPT ![q] = h]
              /\ h.pc = "answered" /\ h.made = made /\ (h.allowed <=> count <= MaxAttempts)
              /\ h.late <=> request[q].late \/ made <= time
              /\ h.now = request[q].now /\ h.waited = request[q].waited
<1>1. PICK allowed \in BOOLEAN : allowed = (count <= MaxAttempts)
  <2>1. (count <= MaxAttempts) \in BOOLEAN
    BY LimiterNumbers
  <2> QED  BY <2>1, Zenon
<1>2. PICK late \in BOOLEAN : late = (request[q].late \/ made <= time)
  <2>1. (request[q].late \/ made <= time) \in BOOLEAN
    BY Zenon
  <2> QED  BY <2>1, Zenon
<1> DEFINE h == [request[q] EXCEPT !.pc = "answered", !.made = made, !.allowed = allowed, !.late = late]
<1>3. request[q] \in Hits /\ request \in [Requests -> Hits] /\ made \in {0} \union Ends
  BY DEF LimiterInv, LimiterTypes
<1>4. h \in Hits
  BY <1>1, <1>2, <1>3, Zenon DEF Hits
<1>5. /\ h.pc = "answered" /\ h.made = made /\ h.allowed = allowed /\ h.late = late
      /\ h.now = request[q].now /\ h.waited = request[q].waited
  BY <1>3 DEF Hits
<1>6. request' = [request EXCEPT ![q] = h]
  BY <1>1, <1>2, <1>3 DEF Answer
<1> HIDE DEF h
<1> QED  BY <1>1, <1>2, <1>4, <1>5, <1>6

\* A hit counts in the open window.
LEMMA HitsInWindow ==
    ASSUME NEW n \in Nat, NEW end \in Nat \ {0}, NEW length \in Nat, NEW now \in Nat, now < end
    PROVE  hitFixedWindow(WindowAt(n, end), length, now) = WindowAt(n + 1, end)
<1> DEFINE e == WindowAt(n, end)
<1>1. /\ e.present = TRUE /\ e.value = <<"window", n>> /\ e.value[1] = "window" /\ e.value[2] = n
      /\ e.expiresAt = end
  BY DEF WindowAt
<1>2. entry(e, now) = e
  BY EntryFacts DEF WindowAt
<1> HIDE DEF e
<1>3. hitFixedWindow(e, length, now) = [present |-> TRUE, value |-> <<"window", n + 1>>, expiresAt |-> end]
  BY <1>1, <1>2, Zenon DEF hitFixedWindow
<1> QED  BY <1>3 DEF e, WindowAt

LEMMA hitAtomicallySteps ==
    ASSUME LimiterInv, NEW q \in Requests, hitAtomically(q)
    PROVE  LimiterInv'
<1>1. /\ atomicFixedWindow /\ request[q].pc = "idle" /\ ~request[q].late /\ request[q].now = 0
      /\ window' = hitFixedWindow(window, Decay, time)
      /\ UNCHANGED <<atomicFixedWindow, time, timer, counters, clearing>>
      /\ time \in 1..MaxTime /\ time \in Nat /\ time + Decay \in Ends /\ time + Decay > time
  BY LimiterNumbers DEF hitAtomically, LimiterInv, LimiterTypes, HitFits
<1>2. PICK end \in Ends, n \in Nat :
          /\ window' = WindowAt(n + 1, end) /\ time < end
          /\ \A e \in Ends : time < e /\ e # end => Counted(e) = 0
          /\ Counted(end) = n
  <2>1. CASE window = Missing
    <3>1. window' = WindowAt(0 + 1, time + Decay)
      BY <1>1, <2>1 DEF hitFixedWindow, entry, Past, Missing, Never, WindowAt
    <3>2. \A e \in Ends : Counted(e) = 0
      BY <1>1, <2>1 DEF Counted, Missing
    <3> QED  BY <1>1, <3>1, <3>2
  <2>2. CASE window # Missing
    <3>1. PICK end \in Ends, n \in Nat : window = WindowAt(n, end)
      BY <2>2 DEF LimiterInv, LimiterTypes
    <3>2. end \in Nat \ {0}
      BY LimiterNumbers
    <3>3. window.present /\ window.expiresAt = end /\ window.value = <<"window", n>>
      BY <3>1 DEF WindowAt
    <3>4. \A e \in Ends : Counted(e) = IF e = end THEN n ELSE 0
      BY <1>1, <3>3 DEF Counted
    <3>5. CASE time < end
      <4>1. entry(window, time) = window
        BY <1>1, <3>1, <3>2, <3>5, EntryFacts DEF WindowAt
      <4>2. window' = WindowAt(n + 1, end)
        BY <1>1, <3>1, <3>2, <3>5, HitsInWindow, LimiterNumbers
      <4> QED  BY <3>4, <3>5, <4>2
    <3>6. CASE ~(time < end)
      <4>1. entry(window, time) = Missing /\ ~Missing.present
        BY <1>1, <3>1, <3>2, <3>6, EntryFacts DEF WindowAt
      <4>2. window' = WindowAt(0 + 1, time + Decay)
        BY <1>1, <4>1 DEF hitFixedWindow, WindowAt
      <4>3. end # time + Decay
        BY <1>1, <3>2, <3>6, LimiterNumbers
      <4> QED  BY <1>1, <3>2, <3>4, <3>6, <4>2, <4>3, LimiterNumbers
    <3> QED  BY <3>5, <3>6
  <2> QED  BY <2>1, <2>2
<1>3. /\ end \in Nat \ {0} /\ window'.expiresAt = end /\ window'.present /\ window'.value = <<"window", n + 1>>
  BY <1>2, LimiterNumbers DEF WindowAt
<1>4. attempts(window', time) = n + 1
  <2>1. entry(window', time) = window'
    BY <1>1, <1>2, <1>3, EntryFacts DEF WindowAt
  <2> QED  BY <1>3, <2>1 DEF attempts
<1>5. Answer(q, n + 1, end) /\ n + 1 \in Nat
  BY <1>2, <1>3, <1>4 DEF hitAtomically
<1>6. PICK h \in Hits :
              /\ request' = [request EXCEPT ![q] = h]
              /\ h.pc = "answered" /\ h.made = end /\ (h.allowed <=> n + 1 <= MaxAttempts)
              /\ h.late <=> request[q].late \/ end <= time
              /\ h.now = request[q].now /\ h.waited = request[q].waited
  BY <1>2, <1>5, AnswerFits
<1>7. /\ IsFiniteSet(Asked') /\ request' \in [Requests -> Hits] /\ request'[q] = h
      /\ \A p \in Requests : p # q => request'[p] = request[p]
      /\ \A e \in Ends :
           /\ Cardinality(Keeping(e)') <= Cardinality(Keeping(e)) + 1
           /\ ~(h.allowed /\ ~h.late /\ h.made = e)
              => Cardinality(Keeping(e)') <= Cardinality(Keeping(e))
  BY <1>6, KeepingGrows
<1>8. LimiterTypes'
  <2>1. window' = WindowAt(n + 1, end) /\ n + 1 \in Nat
    BY <1>2
  <2> QED  BY <1>1, <1>7, <2>1 DEF LimiterInv, LimiterTypes
<1>9. \A p \in Requests : HitFits(request[p])'
  <2> SUFFICES ASSUME NEW p \in Requests PROVE HitFits(request[p])'
    OBVIOUS
  <2>1. CASE p = q
    BY <1>1, <1>2, <1>6, <1>7, <2>1, LimiterNumbers DEF HitFits
  <2>2. CASE p # q
    BY <1>1, <1>7, <2>2 DEF HitFits, LimiterInv
  <2> QED  BY <2>1, <2>2
<1>10. WindowsAreKept'
  <2> SUFFICES ASSUME NEW e \in Ends
               PROVE  /\ Cardinality(Keeping(e)') <= Forgotten + MaxAttempts
                      /\ time < e => Cardinality(Keeping(e)') <= Forgotten + Counted(e)'
    BY <1>1 DEF WindowsAreKept, Forgotten, Restarted
  <2>1. /\ Cardinality(Keeping(e)) \in Nat /\ Counted(e) \in Nat /\ Forgotten \in Nat
        /\ Cardinality(Keeping(e)) <= Forgotten + MaxAttempts
        /\ time < e => Cardinality(Keeping(e)) <= Forgotten + Counted(e)
    BY KeepingIsFinite, CountedIsNumber, LimiterNumbers DEF LimiterInv, WindowsAreKept, Forgotten
  <2>2. Keeping(e)' \subseteq Asked' /\ Cardinality(Keeping(e)') \in Nat
    <3>1. Keeping(e)' \subseteq Asked'
      BY <1>8, <1>9, LimiterNumbers DEF Keeping, AllowedIn, Asked, HitFits, Fresh
    <3> QED  BY <1>7, <3>1, FS_Subset, FS_CardinalityType
  <2>3. CASE e = end
    <3>1. Counted(e)' = n + 1 /\ Counted(e) = n
      BY <1>1, <1>2, <1>3, <2>3 DEF Counted
    <3> QED  BY <1>2, <1>6, <1>7, <2>1, <2>2, <2>3, <3>1, LimiterNumbers
  <2>4. CASE e # end
    <3>1. Cardinality(Keeping(e)') <= Cardinality(Keeping(e))
      BY <1>6, <1>7, <2>4
    <3>2. time < e => Counted(e) = 0
      BY <1>2, <2>4
    <3>3. Counted(e)' = 0
      BY <1>1, <1>3, <2>4 DEF Counted
    <3> QED  BY <2>1, <2>2, <3>1, <3>2, <3>3, LimiterNumbers
  <2> QED  BY <2>3, <2>4
<1> QED  BY <1>7, <1>8, <1>9, <1>10 DEF LimiterInv

\* A request that goes on without an answer takes nothing from any window.
LEMMA PendingSteps ==
    ASSUME LimiterInv, NEW q \in Requests, NEW h \in Hits, request' = [request EXCEPT ![q] = h],
           UNCHANGED <<atomicFixedWindow, time, counters, window, clearing>>,
           timer' = Missing \/ \E end \in Ends : Holds(timer', end),
           \A end \in Ends : time < end /\ Holds(timer, end) => timer' = timer,
           ~h.allowed, HitFits(h)'
    PROVE  LimiterInv'
<1>1. /\ IsFiniteSet(Asked') /\ request' \in [Requests -> Hits] /\ request'[q] = h
      /\ \A p \in Requests : p # q => request'[p] = request[p]
      /\ \A e \in Ends : Cardinality(Keeping(e)') <= Cardinality(Keeping(e))
  BY KeepingGrows
<1>2. LimiterTypes'
  BY <1>1 DEF LimiterInv, LimiterTypes
<1>3. \A p \in Requests : HitFits(request[p])'
  <2> SUFFICES ASSUME NEW p \in Requests, p # q PROVE HitFits(request[p])'
    BY <1>1
  <2>1. HitFits(request[p]) /\ request'[p] = request[p]
    BY <1>1 DEF LimiterInv
  <2> QED  BY <2>1 DEF HitFits
<1>4. WindowsAreKept'
  <2> SUFFICES ASSUME NEW e \in Ends
               PROVE  /\ Cardinality(Keeping(e)') <= Forgotten + MaxAttempts
                      /\ time < e => Cardinality(Keeping(e)') <= Forgotten + Counted(e)
    BY DEF WindowsAreKept, Forgotten, Restarted, Counted
  <2>1. /\ Cardinality(Keeping(e)) \in Nat /\ Counted(e) \in Nat /\ Forgotten \in Nat
        /\ Cardinality(Keeping(e)) <= Forgotten + MaxAttempts
        /\ time < e => Cardinality(Keeping(e)) <= Forgotten + Counted(e)
    BY KeepingIsFinite, CountedIsNumber, LimiterNumbers DEF LimiterInv, WindowsAreKept, Forgotten
  <2>2. Keeping(e)' \subseteq Asked' /\ Cardinality(Keeping(e)') \in Nat
    <3>1. Keeping(e)' \subseteq Asked'
      BY <1>3, LimiterNumbers DEF Keeping, AllowedIn, Asked, HitFits, Fresh
    <3> QED  BY <1>1, <3>1, FS_Subset, FS_CardinalityType
  <2> QED  BY <1>1, <2>1, <2>2, LimiterNumbers
<1> QED  BY <1>1, <1>2, <1>3, <1>4 DEF LimiterInv

LEMMA hitReadsClockSteps ==
    ASSUME LimiterInv, NEW q \in Requests, hitReadsClock(q)
    PROVE  LimiterInv'
<1>1. /\ ~atomicFixedWindow /\ request[q] = Fresh /\ request[q] \in Hits /\ request \in [Requests -> Hits]
      /\ UNCHANGED <<atomicFixedWindow, time, timer, counters, window, clearing>>
      /\ time \in 1..MaxTime /\ time \in Nat /\ MaxTime \in Nat /\ time + Decay \in Ends
  BY LimiterNumbers DEF hitReadsClock, LimiterInv, LimiterTypes, HitFits
<1> DEFINE h == [request[q] EXCEPT !.pc = "add", !.now = time, !.resetAt = time + Decay]
<1>2. /\ h \in Hits /\ h.pc = "add" /\ h.now = time /\ h.resetAt = time + Decay /\ h.made = 0
      /\ ~h.allowed /\ ~h.late /\ ~h.waited
  <2>1. time \in 0..MaxTime /\ time + Decay \in {0} \union Ends
    BY <1>1
  <2>2. h \in Hits
    BY <1>1, <2>1, Zenon DEF Hits
  <2>3. request[q].made = 0 /\ ~request[q].allowed /\ ~request[q].late /\ ~request[q].waited
    BY <1>1 DEF Fresh
  <2> QED  BY <1>1, <2>2, <2>3 DEF Hits
<1>3. request' = [request EXCEPT ![q] = h]
  BY <1>1 DEF hitReadsClock
<1> HIDE DEF h
<1>4. PICK g \in Hits : g = h
  BY <1>2
<1>5. g.pc = "add" /\ g.now = time /\ g.resetAt = time + Decay /\ g.made = 0 /\ ~g.allowed /\ ~g.late /\ ~g.waited
  BY <1>2, <1>4
<1>6. HitFits(g)'
  BY <1>1, <1>5 DEF HitFits
<1>7. request' = [request EXCEPT ![q] = g]
  BY <1>3, <1>4
<1>8. timer' = Missing \/ \E e \in Ends : Holds(timer', e)
  BY <1>1 DEF LimiterInv, LimiterTypes
<1> QED  BY <1>1, <1>5, <1>6, <1>7, <1>8, PendingSteps

\* The timer that a request finds after its add: another's, or its own that holds its end and
\* lasts from the cache's clock.
LEMMA TimerAdded ==
    ASSUME LimiterInv, NEW q \in Requests, hitAddsTimer(q)
    PROVE  /\ has(timer, time) => timer' = timer /\ \E end \in Ends : Holds(timer, end)
           /\ ~has(timer, time) => /\ timer' = TimerTo(request[q].resetAt, time + Decay)
                                   /\ Holds(timer', request[q].resetAt)
           /\ \E end \in Ends : Holds(timer', end) /\ timer'.value[2] = end
           /\ \A end \in Ends : time < end /\ Holds(timer, end) => timer' = timer
<1>1. /\ request[q].pc = "add" /\ request[q].resetAt \in Ends /\ request[q].resetAt = request[q].now + Decay
      /\ timer' = add(timer, <<"number", request[q].resetAt>>, time + Decay, time)
      /\ time \in Nat /\ time + Decay \in Nat /\ time < time + Decay /\ request[q].resetAt <= time + Decay
      /\ request[q].resetAt \in Nat
  <2>1. /\ request[q].pc = "add" /\ request[q].resetAt \in Ends /\ request[q].resetAt = request[q].now + Decay
        /\ timer' = add(timer, <<"number", request[q].resetAt>>, time + Decay, time)
        /\ time \in Nat /\ request[q].now \in 1..time
    BY LimiterNumbers DEF hitAddsTimer, LimiterInv, LimiterTypes, HitFits
  <2> QED  BY <2>1, LimiterNumbers
<1>2. ASSUME has(timer, time)
      PROVE  timer' = timer /\ \E end \in Ends : Holds(timer, end)
  <2>1. timer # Missing
    BY <1>1, <1>2, EntryFacts DEF has, entry, Missing, Past, Never
  <2>2. PICK e \in Ends : Holds(timer, e)
    BY <2>1 DEF LimiterInv, LimiterTypes
  <2>3. entry(timer, time) = timer
    BY <1>1, <1>2, <2>2, TimerFacts
  <2> QED  BY <1>1, <1>2, <2>2, <2>3 DEF add, adds
<1>3. ASSUME ~has(timer, time)
      PROVE  timer' = TimerTo(request[q].resetAt, time + Decay) /\ Holds(timer', request[q].resetAt)
  <2>1. ~Past(time + Decay, time)
    BY <1>1 DEF Past
  <2>2. timer' = TimerTo(request[q].resetAt, time + Decay)
    BY <1>1, <1>3, <2>1 DEF add, adds, put, TimerTo
  <2> QED  BY <1>1, <2>2 DEF Holds
<1>4. PICK end \in Ends : Holds(timer', end)
  BY <1>1, <1>2, <1>3
<1>5. timer'.value[2] = end
  BY <1>4 DEF Holds, TimerTo
<1>6. \A e \in Ends : time < e /\ Holds(timer, e) => has(timer, time)
  BY <1>1, TimerFacts
<1> QED  BY <1>2, <1>3, <1>4, <1>5, <1>6

LEMMA hitAddsTimerSteps ==
    ASSUME LimiterInv, NEW q \in Requests, hitAddsTimer(q)
    PROVE  LimiterInv'
<1>1. /\ ~atomicFixedWindow /\ request[q].pc = "add" /\ request[q] \in Hits /\ HitFits(request[q])
      /\ request \in [Requests -> Hits]
      /\ UNCHANGED <<atomicFixedWindow, time, counters, window, clearing>> /\ time \in Nat
  BY LimiterNumbers DEF hitAddsTimer, LimiterInv, LimiterTypes, HitFits
<1>2. PICK end \in Ends : Holds(timer', end) /\ timer'.value[2] = end
  BY TimerAdded
<1>3. PICK waited \in BOOLEAN : waited = (request[q].now < time)
  <2>1. (request[q].now < time) \in BOOLEAN
    BY <1>1 DEF HitFits
  <2> QED  BY <2>1, Zenon
<1> DEFINE h == [request[q] EXCEPT !.pc = "get", !.made = end, !.waited = waited]
<1>4. /\ h \in Hits /\ h.pc = "get" /\ h.made = end /\ h.resetAt = request[q].resetAt
      /\ h.allowed = request[q].allowed
  <2>1. h \in Hits
    BY <1>1, <1>2, <1>3, Zenon DEF Hits
  <2> QED  BY <1>1, <2>1 DEF Hits
<1>5. request' = [request EXCEPT ![q] = h]
  BY <1>1, <1>2, <1>3 DEF hitAddsTimer
<1> HIDE DEF h
<1>6. PICK g \in Hits : g = h
  BY <1>4
<1>7. g.pc = "get" /\ g.made = end /\ g.resetAt \in Ends /\ ~g.allowed
  BY <1>1, <1>4, <1>6 DEF HitFits
<1>8. HitFits(g)'
  BY <1>1, <1>2, <1>7 DEF HitFits
<1>9. request' = [request EXCEPT ![q] = g]
  BY <1>5, <1>6
<1>10. timer' = Missing \/ \E e \in Ends : Holds(timer', e)
  BY <1>2
<1>11. \A e \in Ends : time < e /\ Holds(timer, e) => timer' = timer
  BY TimerAdded
<1> QED  BY <1>1, <1>7, <1>8, <1>9, <1>10, <1>11, PendingSteps

LEMMA hitReadsTimerSteps ==
    ASSUME LimiterInv, NEW q \in Requests, hitReadsTimer(q)
    PROVE  LimiterInv'
<1>1. /\ request[q].pc = "get" /\ HitFits(request[q]) /\ request[q] \in Hits
      /\ request \in [Requests -> Hits] /\ time \in Nat
      /\ UNCHANGED <<atomicFixedWindow, time, timer, counters, window, clearing>>
      /\ timer = Missing \/ \E end \in Ends : Holds(timer, end)
  BY LimiterNumbers DEF hitReadsTimer, LimiterInv, LimiterTypes
<1>2. PICK read \in Ends :
          /\ read = IF has(timer, time) THEN timer.value[2] ELSE request[q].resetAt
          /\ ~request[q].late /\ time < request[q].made => read = request[q].made
  <2>1. request[q].resetAt \in Ends /\ request[q].made \in Ends
    BY <1>1 DEF HitFits
  <2>2. has(timer, time) => timer.value[2] \in Ends
    <3>1. timer = Missing => ~has(timer, time)
      BY <1>1, EntryFacts DEF has, entry, Missing, Past, Never
    <3> QED  BY <1>1, <3>1, TimerFacts
  <2>3. ASSUME ~request[q].late, time < request[q].made
        PROVE  has(timer, time) /\ timer.value[2] = request[q].made
    <3>1. Holds(timer, request[q].made)
      BY <1>1, <2>3 DEF HitFits
    <3> QED  BY <1>1, <2>1, <2>3, <3>1, TimerFacts
  <2> QED  BY <2>1, <2>2, <2>3
<1> DEFINE h == [request[q] EXCEPT !.pc = "increment", !.resetAt = read]
<1>3. /\ h \in Hits /\ h.pc = "increment" /\ h.made = request[q].made /\ h.resetAt = read
      /\ h.allowed = request[q].allowed /\ h.late = request[q].late /\ h.now = request[q].now
  BY <1>1, <1>2 DEF Hits
<1>4. request' = [request EXCEPT ![q] = h]
  BY <1>1, <1>2 DEF hitReadsTimer
<1> HIDE DEF h
<1>5. PICK g \in Hits : g = h
  BY <1>3
<1>6. /\ g.pc = "increment" /\ g.made = request[q].made /\ g.resetAt = read /\ g.late = request[q].late
      /\ ~g.allowed
  BY <1>1, <1>3, <1>5 DEF HitFits
<1>7. HitFits(g)'
  BY <1>1, <1>2, <1>6 DEF HitFits
<1>8. request' = [request EXCEPT ![q] = g]
  BY <1>4, <1>5
<1>9. timer' = Missing \/ \E e \in Ends : Holds(timer', e)
  BY <1>1
<1> QED  BY <1>1, <1>6, <1>7, <1>8, <1>9, PendingSteps

\* What increment makes of the counter of a window, and the count it answers.
LEMMA IncrementCounts ==
    ASSUME LimiterInv, NEW end \in Ends, ~atomicFixedWindow
    PROVE  LET next == increment(counters[end], 1, end, time)
               current == entry(counters[end], time)
               count == 1 + (IF current.present THEN current.value[2] ELSE 0)
           IN  /\ next = Missing \/ \E n \in Nat : next = CounterAt(n, end)
               /\ count \in Nat
               /\ time < end => next.present /\ next.value[2] = count /\ count = Counted(end) + 1
<1>1. end \in Nat \ {0} /\ time \in Nat /\ (counters[end] = Missing \/ \E n \in Nat : counters[end] = CounterAt(n, end))
  BY LimiterNumbers DEF LimiterInv, LimiterTypes
<1>2. /\ Past(end, time) <=> ~(time < end)
      /\ entry(Missing, time) = Missing /\ ~Missing.present /\ Missing.expiresAt = 0 /\ Never = 0
  BY <1>1 DEF Past, Never, entry, Missing
<1>3. \A n \in Nat : n + 1 \in Nat /\ 1 + n = n + 1
  OBVIOUS
<1>4. \A n \in Nat : /\ CounterAt(n, end).present /\ CounterAt(n, end).value[1] = "number"
                     /\ CounterAt(n, end).value[2] = n /\ CounterAt(n, end).expiresAt = end
  BY DEF CounterAt
<1> DEFINE next == increment(counters[end], 1, end, time)
           current == entry(counters[end], time)
           count == 1 + (IF current.present THEN current.value[2] ELSE 0)
<1>5. CASE current = Missing
  <2>1. count = 1
    BY <1>2, <1>5
  <2>2. next = IF Past(end, time) THEN Missing ELSE CounterAt(0 + 1, end)
    BY <1>2, <1>5 DEF increment, Numeric, put, CounterAt
  <2>3. time < end => Counted(end) = 0
    <3>1. CASE counters[end] = Missing
      BY <1>2, <3>1 DEF Counted
    <3>2. ASSUME NEW n \in Nat, counters[end] = CounterAt(n, end) PROVE ~(time < end)
      <4>1. CounterAt(n, end) # Missing
        BY <1>2, <1>4
      <4> QED  BY <1>1, <1>5, <3>2, <4>1, EntryFacts DEF CounterAt
    <3> QED  BY <1>1, <3>1, <3>2
  <2>4. time < end => next = CounterAt(1, end)
    BY <1>2, <2>2
  <2> HIDE DEF next, count, current
  <2>5. next = Missing \/ next = CounterAt(1, end)
    BY <1>2, <2>2 DEF next
  <2> QED  BY <1>4, <2>1, <2>3, <2>4, <2>5 DEF next, count, current
<1>6. CASE current # Missing
  <2>1. PICK n \in Nat : counters[end] = CounterAt(n, end)
    BY <1>1, <1>2, <1>6
  <2>2. time < end /\ current = CounterAt(n, end)
    BY <1>1, <1>6, <2>1, EntryFacts DEF CounterAt
  <2>3. count = n + 1
    BY <1>3, <1>4, <2>2
  <2>4. next = CounterAt(n + 1, end)
    BY <1>1, <1>2, <1>4, <2>2 DEF increment, Numeric, put, CounterAt
  <2>5. Counted(end) = n
    BY <1>4, <2>1 DEF Counted
  <2> HIDE DEF next, count, current
  <2> QED  BY <1>3, <1>4, <2>2, <2>3, <2>4, <2>5 DEF next, count, current
<1> QED  BY <1>5, <1>6

\* A hit is counted in the counter of the window it was made in, as long as that is open and
\* the request did not lose it.
LEMMA hitCountsSteps ==
    ASSUME LimiterInv, NEW q \in Requests, hitCounts(q)
    PROVE  LimiterInv'
<1>1. /\ request[q].pc = "increment" /\ HitFits(request[q]) /\ request[q] \in Hits
      /\ time \in Nat /\ UNCHANGED <<atomicFixedWindow, time, timer, window, clearing>>
      /\ ~atomicFixedWindow /\ request[q].made \in Ends /\ request[q].resetAt \in Ends
      /\ ~request[q].late /\ time < request[q].made => request[q].resetAt = request[q].made
  BY LimiterNumbers DEF hitCounts, LimiterInv, LimiterTypes, HitFits
<1>2. PICK end \in Ends : end = request[q].resetAt
  BY <1>1
<1>3. PICK next, count :
          /\ next = increment(counters[end], 1, end, time)
          /\ count = 1 + (IF entry(counters[end], time).present THEN entry(counters[end], time).value[2] ELSE 0)
  OBVIOUS
<1>4. /\ next = Missing \/ \E n \in Nat : next = CounterAt(n, end)
      /\ count \in Nat
      /\ time < end => next.present /\ next.value[2] = count /\ count = Counted(end) + 1
  BY <1>1, <1>3, IncrementCounts
<1>5. Answer(q, count, request[q].made) /\ counters' = [counters EXCEPT ![end] = next]
  BY <1>2, <1>3 DEF hitCounts
<1>6. PICK g \in Hits :
          /\ request' = [request EXCEPT ![q] = g]
          /\ g.pc = "answered" /\ g.made = request[q].made /\ (g.allowed <=> count <= MaxAttempts)
          /\ g.late <=> request[q].late \/ request[q].made <= time
          /\ g.now = request[q].now /\ g.waited = request[q].waited
  BY <1>1, <1>4, <1>5, AnswerFits
<1>7. /\ IsFiniteSet(Asked') /\ request' \in [Requests -> Hits] /\ request'[q] = g
      /\ \A p \in Requests : p # q => request'[p] = request[p]
      /\ \A e \in Ends :
           /\ Cardinality(Keeping(e)') <= Cardinality(Keeping(e)) + 1
           /\ ~(g.allowed /\ ~g.late /\ g.made = e)
              => Cardinality(Keeping(e)') <= Cardinality(Keeping(e))
  BY <1>6, KeepingGrows
<1>8. /\ DOMAIN counters' = Ends /\ counters'[end] = next
      /\ \A e \in Ends : e # end => counters'[e] = counters[e]
  BY <1>5 DEF LimiterInv, LimiterTypes
<1>9. LimiterTypes'
  <2>1. \A e \in Ends : counters'[e] = Missing \/ \E n \in Nat : counters'[e] = CounterAt(n, e)
    BY <1>4, <1>8 DEF LimiterInv, LimiterTypes
  <2> QED  BY <1>1, <1>7, <1>8, <2>1 DEF LimiterInv, LimiterTypes
<1>10. \A p \in Requests : HitFits(request[p])'
  <2> SUFFICES ASSUME NEW p \in Requests PROVE HitFits(request[p])'
    OBVIOUS
  <2>1. CASE p = q
    BY <1>1, <1>6, <1>7, <2>1 DEF HitFits
  <2>2. CASE p # q
    BY <1>1, <1>7, <2>2 DEF HitFits, LimiterInv
  <2> QED  BY <2>1, <2>2
<1>11. WindowsAreKept'
  <2> SUFFICES ASSUME NEW e \in Ends
               PROVE  /\ Cardinality(Keeping(e)') <= Forgotten + MaxAttempts
                      /\ time < e => Cardinality(Keeping(e)') <= Forgotten + Counted(e)'
    BY <1>1 DEF WindowsAreKept, Forgotten, Restarted
  <2>1. /\ Cardinality(Keeping(e)) \in Nat /\ Counted(e) \in Nat /\ Forgotten \in Nat
        /\ Cardinality(Keeping(e)) <= Forgotten + MaxAttempts
        /\ time < e => Cardinality(Keeping(e)) <= Forgotten + Counted(e)
    BY KeepingIsFinite, CountedIsNumber, LimiterNumbers DEF LimiterInv, WindowsAreKept, Forgotten
  <2>2. Keeping(e)' \subseteq Asked' /\ Cardinality(Keeping(e)') \in Nat
    <3>1. Keeping(e)' \subseteq Asked'
      BY <1>9, <1>10, LimiterNumbers DEF Keeping, AllowedIn, Asked, HitFits, Fresh
    <3> QED  BY <1>7, <3>1, FS_Subset, FS_CardinalityType
  <2>3. Counted(e)' \in Nat
    BY <1>9, CountedStaysNumber
  <2>4. time < e /\ e = end => Counted(e)' = count /\ count = Counted(e) + 1
    BY <1>1, <1>4, <1>8 DEF Counted
  <2>5. e # end => Counted(e)' = Counted(e)
    BY <1>1, <1>8 DEF Counted
  <2>6. e \in Nat /\ MaxAttempts \in Nat
    BY LimiterNumbers
  <2>7. CASE g.allowed /\ ~g.late /\ g.made = e
    <3>1. time < e /\ e = end /\ count <= MaxAttempts
      BY <1>1, <1>2, <1>6, <2>6, <2>7
    <3> QED  BY <1>4, <1>7, <2>1, <2>2, <2>4, <2>6, <3>1
  <2>8. CASE ~(g.allowed /\ ~g.late /\ g.made = e)
    <3>1. Cardinality(Keeping(e)') <= Cardinality(Keeping(e))
      BY <1>7, <2>8
    <3>2. time < e => Counted(e) <= Counted(e)'
      BY <2>1, <2>4, <2>5
    <3> QED  BY <2>1, <2>2, <2>3, <2>6, <3>1, <3>2
  <2> QED  BY <2>7, <2>8
<1> QED  BY <1>7, <1>9, <1>10, <1>11 DEF LimiterInv

\* A clear takes at most the limit of hits from the counters, and counts only once.
LEMMA ClearFits ==
    ASSUME LimiterInv, ~Restarted, Restarted',
           UNCHANGED <<atomicFixedWindow, time, request>>, LimiterTypes', \A p \in Requests : HitFits(request[p])'
    PROVE  LimiterInv'
<1>1. WindowsAreKept'
  <2> SUFFICES ASSUME NEW e \in Ends
               PROVE  /\ Cardinality(Keeping(e)') <= MaxAttempts + MaxAttempts
                      /\ time < e => Cardinality(Keeping(e)') <= MaxAttempts + Counted(e)'
    BY DEF WindowsAreKept, Forgotten
  <2>1. /\ Cardinality(Keeping(e)) \in Nat /\ MaxAttempts \in Nat /\ Cardinality(Keeping(e)) <= MaxAttempts
    BY KeepingIsFinite, LimiterNumbers DEF LimiterInv, WindowsAreKept, Forgotten
  <2>2. Keeping(e)' = Keeping(e)
    BY DEF Keeping, AllowedIn, Straddlers
  <2>3. Counted(e)' \in Nat
    BY CountedStaysNumber
  <2> QED  BY <2>1, <2>2, <2>3
<1> QED  BY <1>1 DEF LimiterInv, Asked

LEMMA clearAtomicallySteps == LimiterInv /\ clearAtomically => LimiterInv'
<1> SUFFICES ASSUME LimiterInv, clearAtomically PROVE LimiterInv'
  OBVIOUS
<1>1. /\ atomicFixedWindow /\ clearing.pc = "idle" /\ window' = Missing /\ clearing' = [clearing EXCEPT !.pc = "cleared"]
      /\ UNCHANGED <<atomicFixedWindow, time, timer, counters, request>>
      /\ clearing \in Clears
  BY DEF clearAtomically, LimiterInv, LimiterTypes
<1>2. clearing'.pc = "cleared" /\ clearing' \in Clears /\ ~Restarted /\ Restarted'
  BY <1>1 DEF Clears, Restarted
<1>3. LimiterTypes'
  BY <1>1, <1>2 DEF LimiterInv, LimiterTypes
<1>4. \A p \in Requests : HitFits(request[p])'
  BY <1>1 DEF LimiterInv, HitFits
<1> QED  BY <1>1, <1>2, <1>3, <1>4, ClearFits

LEMMA clearReadsSteps == LimiterInv /\ clearReads => LimiterInv'
<1> SUFFICES ASSUME LimiterInv, clearReads PROVE LimiterInv'
  OBVIOUS
<1>1. /\ clearing.pc = "idle" /\ ~atomicFixedWindow /\ time \in Nat
      /\ clearing' = IF has(timer, time) THEN [pc |-> "both", resetAt |-> timer.value[2]]
                     ELSE [pc |-> "timer", resetAt |-> 0]
      /\ UNCHANGED <<atomicFixedWindow, time, timer, counters, window, request>>
  BY LimiterNumbers DEF clearReads, LimiterInv, LimiterTypes
<1>2. has(timer, time) => timer.value[2] \in Ends
  <2>1. timer = Missing => ~has(timer, time)
    BY <1>1, EntryFacts DEF has, entry, Missing, Past, Never
  <2> QED  BY <1>1, <2>1, TimerFacts DEF LimiterInv, LimiterTypes
<1>3. /\ clearing' \in Clears /\ ~Restarted' /\ ~Restarted
      /\ clearing'.pc \in {"both", "counter"} => clearing'.resetAt \in Ends
  BY <1>1, <1>2 DEF Clears, Restarted
<1>4. LimiterTypes'
  BY <1>1, <1>3 DEF LimiterInv, LimiterTypes
<1>5. \A p \in Requests : HitFits(request[p])'
  BY <1>1 DEF LimiterInv, HitFits
<1>6. WindowsAreKept'
  <2>1. \A end \in Ends : Keeping(end)' = Keeping(end) /\ Counted(end)' = Counted(end)
    BY <1>1 DEF Keeping, AllowedIn, Straddlers, Counted
  <2> QED  BY <1>1, <1>3, <2>1 DEF LimiterInv, WindowsAreKept, Forgotten
<1> QED  BY <1>1, <1>4, <1>5, <1>6 DEF LimiterInv, Asked

\* The requests about to read the timer lose the window when it is removed.
LEMMA clearForgetsTimerSteps == LimiterInv /\ clearForgetsTimer => LimiterInv'
<1> SUFFICES ASSUME LimiterInv, clearForgetsTimer PROVE LimiterInv'
  OBVIOUS
<1>1. /\ clearing.pc \in {"both", "timer"} /\ timer' = Missing /\ UNCHANGED <<atomicFixedWindow, time, counters, window>>
      /\ clearing' = [clearing EXCEPT !.pc = IF @ = "both" THEN "counter" ELSE "cleared"]
      /\ clearing \in Clears /\ (clearing.pc = "both" => clearing.resetAt \in Ends /\ ~atomicFixedWindow)
      /\ request' = [q \in Requests |-> [request[q] EXCEPT !.late = @ \/ request[q].pc = "get"]]
      /\ request \in [Requests -> Hits]
  BY DEF clearForgetsTimer, LimiterInv, LimiterTypes
<1>2. /\ clearing' \in Clears /\ (Restarted' <=> Restarted)
      /\ clearing'.pc \in {"both", "counter"} => clearing'.resetAt \in Ends /\ ~atomicFixedWindow
  BY <1>1 DEF Clears, Restarted
<1>3. ASSUME NEW q \in Requests
      PROVE  \E g \in Hits :
                /\ request'[q] = g /\ HitFits(g)'
                /\ g.pc = request[q].pc /\ g.made = request[q].made
                /\ g.allowed = request[q].allowed /\ (request[q].late => g.late)
  <2>1. (request[q].late \/ request[q].pc = "get") \in BOOLEAN
    BY <1>1 DEF Hits
  <2>2. PICK late \in BOOLEAN : late = (request[q].late \/ request[q].pc = "get")
    BY <2>1, Zenon
  <2> DEFINE h == [request[q] EXCEPT !.late = late]
  <2>3. request'[q] = h
    BY <1>1, <2>2
  <2>4. request[q] \in Hits /\ HitFits(request[q])
    BY <1>1 DEF LimiterInv
  <2>5. h \in Hits
    BY <2>2, <2>4, Zenon DEF Hits
  <2>6. /\ h.pc = request[q].pc /\ h.made = request[q].made /\ h.allowed = request[q].allowed
        /\ h.resetAt = request[q].resetAt /\ h.late = late /\ h.now = request[q].now /\ h.waited = request[q].waited
    BY <2>4 DEF Hits
  <2>7. request[q].pc # "get" => h = request[q]
    <3> SUFFICES ASSUME request[q].pc # "get" PROVE h = request[q]
      OBVIOUS
    <3>1. late = request[q].late
      BY <2>2, <2>4, <1>1, Zenon DEF Hits
    <3> QED  BY <2>4, <3>1 DEF Hits
  <2> HIDE DEF h
  <2>8. PICK g \in Hits : g = h
    BY <2>5
  <2>9. request[q].pc = "get" => late
    BY <2>2, Zenon
  <2>10. request[q].late => late
    BY <2>2, Zenon
  <2>11. /\ g.pc = request[q].pc /\ g.made = request[q].made /\ g.allowed = request[q].allowed
         /\ g.resetAt = request[q].resetAt /\ g.late = late
         /\ g.pc # "get" => g = request[q]
    BY <2>6, <2>7, <2>8
  <2>12. HitFits(g)'
    <3>1. CASE g.pc = "get"
      BY <1>1, <2>4, <2>9, <2>11, <3>1 DEF HitFits
    <3>2. CASE g.pc # "get"
      BY <1>1, <2>4, <2>11, <3>2 DEF HitFits
    <3> QED  BY <3>1, <3>2
  <2> QED  BY <2>3, <2>8, <2>10, <2>11, <2>12
<1>4. request' \in [Requests -> Hits]
  BY <1>1, <1>3
<1>5. LimiterTypes'
  BY <1>1, <1>2, <1>4 DEF LimiterInv, LimiterTypes
<1>6. Asked' = Asked
  BY <1>3 DEF Asked
<1>7. \A p \in Requests : HitFits(request[p])'
  BY <1>3
<1>8. WindowsAreKept'
  <2> SUFFICES ASSUME NEW e \in Ends
               PROVE  /\ Cardinality(Keeping(e)') <= Forgotten + MaxAttempts
                      /\ time < e => Cardinality(Keeping(e)') <= Forgotten + Counted(e)
    BY <1>1, <1>2 DEF WindowsAreKept, Forgotten, Counted
  <2>1. /\ Cardinality(Keeping(e)) \in Nat /\ IsFiniteSet(Keeping(e)) /\ Counted(e) \in Nat /\ Forgotten \in Nat
        /\ Cardinality(Keeping(e)) <= Forgotten + MaxAttempts
        /\ time < e => Cardinality(Keeping(e)) <= Forgotten + Counted(e)
    BY KeepingIsFinite, CountedIsNumber, LimiterNumbers DEF LimiterInv, WindowsAreKept, Forgotten
  <2>2. Keeping(e)' \subseteq Keeping(e)
    BY <1>3 DEF Keeping, AllowedIn, Straddlers
  <2>3. Cardinality(Keeping(e)') \in Nat /\ Cardinality(Keeping(e)') <= Cardinality(Keeping(e))
    BY <2>1, <2>2, FS_Subset, FS_CardinalityType
  <2> QED  BY <2>1, <2>3, LimiterNumbers
<1> QED  BY <1>5, <1>6, <1>7, <1>8 DEF LimiterInv

LEMMA clearForgetsCounterSteps == LimiterInv /\ clearForgetsCounter => LimiterInv'
<1> SUFFICES ASSUME LimiterInv, clearForgetsCounter PROVE LimiterInv'
  OBVIOUS
<1>1. /\ clearing.pc \in {"both", "counter"} /\ UNCHANGED <<atomicFixedWindow, time, timer, window, request>>
      /\ clearing.resetAt \in Ends /\ 0 \notin Ends
      /\ counters' = [counters EXCEPT ![clearing.resetAt] = Missing]
      /\ clearing' = [clearing EXCEPT !.pc = IF @ = "both" THEN "timer" ELSE "cleared"]
      /\ clearing \in Clears
  BY LimiterNumbers DEF clearForgetsCounter, LimiterInv, LimiterTypes
<1>2. clearing' \in Clears /\ clearing'.pc \in {"timer", "cleared"} /\ ~Restarted /\ Restarted'
  BY <1>1 DEF Clears, Restarted
<1>3. LimiterTypes'
  <2>1. DOMAIN counters' = Ends /\ \A e \in Ends : counters'[e] \in {Missing, counters[e]}
    BY <1>1 DEF LimiterInv, LimiterTypes
  <2>2. \A e \in Ends : counters'[e] = Missing \/ \E n \in Nat : counters'[e] = CounterAt(n, e)
    BY <2>1 DEF LimiterInv, LimiterTypes
  <2> QED  BY <1>1, <1>2, <2>1, <2>2 DEF LimiterInv, LimiterTypes
<1>4. \A p \in Requests : HitFits(request[p])'
  BY <1>1 DEF LimiterInv, HitFits
<1> QED  BY <1>1, <1>2, <1>3, <1>4, ClearFits

LEMMA LimiterTickSteps == LimiterInv /\ LimiterTick => LimiterInv'
<1> SUFFICES ASSUME LimiterInv, LimiterTick PROVE LimiterInv'
  OBVIOUS
<1>1. /\ time < MaxTime /\ time' = time + 1 /\ time \in Nat /\ MaxTime \in Nat /\ Ends \subseteq Nat
      /\ UNCHANGED <<atomicFixedWindow, timer, counters, window, request, clearing>>
  BY LimiterNumbers DEF LimiterTick, LimiterInv, LimiterTypes
<1>2. /\ time' \in 1..MaxTime /\ \A e \in Ends : time' < e => time < e
      /\ \A n \in 1..time : n \in 1..time'
  BY <1>1
<1>3. LimiterTypes'
  BY <1>1, <1>2 DEF LimiterInv, LimiterTypes
<1>4. \A p \in Requests : HitFits(request[p])'
  <2> SUFFICES ASSUME NEW p \in Requests PROVE HitFits(request[p])'
    OBVIOUS
  <2>1. HitFits(request[p]) /\ request'[p] = request[p] /\ (time' < request[p].made /\ request[p].made \in Ends => time < request[p].made)
    BY <1>1, <1>2 DEF LimiterInv
  <2> QED  BY <1>1, <1>2, <2>1 DEF HitFits
<1>5. WindowsAreKept'
  <2>1. \A end \in Ends : Keeping(end)' = Keeping(end) /\ Counted(end)' = Counted(end)
    BY <1>1 DEF Keeping, AllowedIn, Straddlers, Counted
  <2> QED  BY <1>1, <1>2, <2>1 DEF LimiterInv, WindowsAreKept, Forgotten, Restarted
<1> QED  BY <1>1, <1>3, <1>4, <1>5 DEF LimiterInv, Asked

LEMMA LimiterSteps == LimiterInv /\ [LimiterNext]_limiterVars => LimiterInv'
<1> SUFFICES ASSUME LimiterInv, [LimiterNext]_limiterVars PROVE LimiterInv'
  OBVIOUS
<1>1. CASE UNCHANGED limiterVars
  <2>1. UNCHANGED <<atomicFixedWindow, time, timer, counters, window, request, clearing>>
    BY <1>1 DEF limiterVars
  <2> QED  BY <2>1 DEF LimiterInv, LimiterTypes, HitFits, WindowsAreKept, Keeping, AllowedIn, Straddlers, Asked, Counted,
                       Forgotten, Restarted
<1>2. CASE LimiterNext
  BY <1>2, hitAtomicallySteps, hitReadsClockSteps, hitAddsTimerSteps, hitReadsTimerSteps, hitCountsSteps,
     clearAtomicallySteps, clearReadsSteps, clearForgetsTimerSteps, clearForgetsCounterSteps, LimiterTickSteps
     DEF LimiterNext
<1> QED  BY <1>1, <1>2

\* What is owed to a request that waited stays so.
LEMMA DelayedStays ==
    ASSUME \A p \in Requests : request[p].waited => request'[p].waited /\ request'[p].now = request[p].now,
           NEW end, Delayed(end)
    PROVE  Delayed(end)'
  BY DEF Delayed

\* A step that adds no timer, and gives no request a window by its own clock.
LEMMA GapsStay ==
    ASSUME GapsAreOwed, timer' \in {timer, Missing},
           \A p \in Requests : request[p].waited => request'[p].waited /\ request'[p].now = request[p].now,
           \A p \in Requests : request'[p].made # 0 /\ request'[p].made <= request'[p].now
                               => request'[p].made = request[p].made /\ request'[p].now = request[p].now
    PROVE  GapsAreOwed'
<1>1. ASSUME NEW end \in Ends, NEW at \in Nat, timer' = TimerTo(end, at), at > end
      PROVE  Delayed(end)'
  <2>1. Missing # TimerTo(end, at)
    BY DEF Missing, TimerTo
  <2>2. Delayed(end)
    BY <1>1, <2>1 DEF GapsAreOwed
  <2> QED  BY <2>2, DelayedStays
<1>2. ASSUME NEW q \in Requests, request'[q].made # 0, request'[q].made <= request'[q].now
      PROVE  Delayed(request[q].made)' /\ request'[q].made = request[q].made
  BY <1>2, DelayedStays DEF GapsAreOwed
<1>3. (\A end \in Ends, at \in Nat : timer = TimerTo(end, at) /\ at > end => Delayed(end))'
  BY <1>1
<1> QED  BY <1>2, <1>3 DEF GapsAreOwed, Delayed

LEMMA GapSteps == LimiterInv /\ GapsAreOwed /\ [LimiterNext]_limiterVars => GapsAreOwed'
<1> SUFFICES ASSUME LimiterInv, GapsAreOwed, [LimiterNext]_limiterVars PROVE GapsAreOwed'
  OBVIOUS
<1>1. /\ request \in [Requests -> Hits] /\ \A q \in Requests : HitFits(request[q])
      /\ time \in Nat /\ time \in 1..MaxTime
  BY LimiterNumbers DEF LimiterInv, LimiterTypes
<1>2. CASE UNCHANGED limiterVars
  BY <1>2, GapsStay DEF limiterVars
<1>3. ASSUME NEW q \in Requests, hitAtomically(q) PROVE GapsAreOwed'
  <2>1. /\ atomicFixedWindow /\ timer' = timer /\ window'.expiresAt \in Ends
        /\ Answer(q, attempts(window', time), window'.expiresAt) /\ request[q].now = 0
    <3>1. LimiterInv'
      BY <1>3, hitAtomicallySteps
    <3>2. window' # Missing
      BY <1>3 DEF hitAtomically, hitFixedWindow, Missing
    <3>3. window'.expiresAt \in Ends
      BY <3>1, <3>2 DEF LimiterInv, LimiterTypes, WindowAt
    <3> QED  BY <1>1, <1>3, <3>3 DEF hitAtomically, HitFits
  <2>2. /\ \A p \in Requests : request'[p].now = request[p].now /\ request'[p].waited = request[p].waited
        /\ \A p \in Requests : p # q => request'[p] = request[p]
        /\ request'[q].made = window'.expiresAt
    BY <1>1, <2>1 DEF Answer, Hits
  <2>3. ~(request'[q].made <= request'[q].now)
    <3>1. PICK end \in Ends : end = window'.expiresAt
      BY <2>1
    <3>2. request'[q].made = end /\ request'[q].now = 0 /\ end \in Nat /\ end # 0
      BY <2>1, <2>2, <3>1, LimiterNumbers
    <3> QED  BY <3>2
  <2> QED  BY <2>1, <2>2, <2>3, GapsStay
<1>4. ASSUME NEW q \in Requests, hitReadsClock(q) PROVE GapsAreOwed'
  <2>1. /\ timer' = timer /\ ~request[q].waited /\ request[q].made = 0
        /\ request' = [request EXCEPT ![q].pc = "add", ![q].now = time, ![q].resetAt = time + Decay]
    BY <1>1, <1>4 DEF hitReadsClock, HitFits, Fresh
  <2>2. request'[q].made = 0 /\ \A p \in Requests : p # q => request'[p] = request[p]
    BY <1>1, <2>1 DEF Hits
  <2> QED  BY <2>1, <2>2, GapsStay
<1>5. ASSUME NEW q \in Requests, hitAddsTimer(q) PROVE GapsAreOwed'
  <2>1. /\ request[q].pc = "add" /\ request[q].resetAt = request[q].now + Decay /\ request[q].now \in 1..time
        /\ ~request[q].waited
        /\ request' = [request EXCEPT ![q].pc = "get", ![q].made = timer'.value[2], ![q].waited = request[q].now < time]
    BY <1>1, <1>5 DEF hitAddsTimer, HitFits
  <2>2. /\ request'[q].made = timer'.value[2] /\ request'[q].now = request[q].now
        /\ request'[q].waited = (request[q].now < time)
        /\ \A p \in Requests : p # q => request'[p] = request[p]
    BY <1>1, <2>1 DEF Hits
  <2>3. \A p \in Requests : request[p].waited => request'[p].waited /\ request'[p].now = request[p].now
    BY <2>1, <2>2
  <2>4. CASE has(timer, time)
    <3>1. PICK end \in Ends : timer' = timer /\ Holds(timer, end)
      BY <1>5, <2>4, TimerAdded
    <3>2. PICK at \in Nat : at >= end /\ timer = TimerTo(end, at)
      BY <3>1 DEF Holds
    <3>3. time < at /\ timer.value[2] = end /\ end \in Nat
      <4>1. timer.expiresAt = at
        BY <3>2 DEF TimerTo
      <4> QED  BY <1>1, <2>4, <3>1, <4>1, TimerFacts, LimiterNumbers
    <3>4. end <= request[q].now => Delayed(end)
      BY <1>1, <2>1, <3>2, <3>3 DEF GapsAreOwed
    <3>5. ASSUME NEW e \in Ends, NEW x \in Nat, timer' = TimerTo(e, x), x > e PROVE Delayed(e)'
      <4>1. Delayed(e)
        BY <3>1, <3>5 DEF GapsAreOwed
      <4> QED  BY <2>3, <4>1, DelayedStays
    <3>6. ASSUME NEW p \in Requests, request'[p].made # 0, request'[p].made <= request'[p].now
          PROVE  Delayed(request'[p].made)
      <4>1. CASE p = q
        BY <2>2, <3>1, <3>3, <3>4, <3>6, <4>1
      <4>2. CASE p # q
        BY <2>2, <3>6, <4>2 DEF GapsAreOwed
      <4> QED  BY <4>1, <4>2
    <3>7. (\A p \in Requests : request[p].made # 0 /\ request[p].made <= request[p].now => Delayed(request[p].made))'
      BY <2>3, <3>6 DEF Delayed
    <3>8. (\A e \in Ends, x \in Nat : timer = TimerTo(e, x) /\ x > e => Delayed(e))'
      BY <3>5
    <3> QED  BY <3>7, <3>8 DEF GapsAreOwed
  <2>5. CASE ~has(timer, time)
    <3>1. timer' = TimerTo(request[q].resetAt, time + Decay)
      BY <1>5, <2>5, TimerAdded
    <3>2. timer'.value[2] = request[q].now + Decay /\ timer'.expiresAt = time + Decay
      BY <2>1, <3>1 DEF TimerTo
    <3>3. ASSUME NEW e \in Ends, NEW x \in Nat, timer' = TimerTo(e, x), x > e PROVE Delayed(e)'
      <4>1. e = request[q].now + Decay /\ x = time + Decay
        BY <3>2, <3>3 DEF TimerTo
      <4>2. request[q].now < time
        BY <1>1, <2>1, <3>3, <4>1, LimiterNumbers
      <4> QED  BY <2>2, <4>1, <4>2 DEF Delayed
    <3>4. ~(request'[q].made <= request'[q].now)
      BY <1>1, <2>1, <2>2, <3>2, LimiterNumbers
    <3>5. ASSUME NEW p \in Requests, request'[p].made # 0, request'[p].made <= request'[p].now
          PROVE  Delayed(request'[p].made)
      BY <2>2, <3>4, <3>5 DEF GapsAreOwed
    <3>6. (\A p \in Requests : request[p].made # 0 /\ request[p].made <= request[p].now => Delayed(request[p].made))'
      BY <2>3, <3>5 DEF Delayed
    <3>7. (\A e \in Ends, x \in Nat : timer = TimerTo(e, x) /\ x > e => Delayed(e))'
      BY <3>3
    <3> QED  BY <3>6, <3>7 DEF GapsAreOwed
  <2> QED  BY <2>4, <2>5
<1>6. ASSUME NEW q \in Requests, hitReadsTimer(q) \/ hitCounts(q) PROVE GapsAreOwed'
  <2>1. /\ timer' = timer
        /\ \A p \in Requests : /\ request'[p].now = request[p].now /\ request'[p].waited = request[p].waited
                               /\ request'[p].made = request[p].made
    BY <1>1, <1>6 DEF hitReadsTimer, hitCounts, Answer, Hits
  <2> QED  BY <2>1, GapsStay
<1>7. CASE clearForgetsTimer
  <2>1. /\ timer' = Missing
        /\ \A p \in Requests : /\ request'[p].now = request[p].now /\ request'[p].waited = request[p].waited
                               /\ request'[p].made = request[p].made
    BY <1>1, <1>7 DEF clearForgetsTimer, Hits
  <2> QED  BY <2>1, GapsStay
<1>8. CASE clearAtomically \/ clearReads \/ clearForgetsCounter \/ LimiterTick
  <2>1. timer' = timer /\ request' = request
    BY <1>8 DEF clearAtomically, clearReads, clearForgetsCounter, LimiterTick
  <2> QED  BY <2>1, GapsStay
<1> QED  BY <1>2, <1>3, <1>4, <1>5, <1>6, <1>7, <1>8 DEF LimiterNext

\* Of the requests made in a window no more are allowed than the limit, once more after a clear,
\* plus one for each that was answered without the window; a request made past the end of its
\* window owes that to one which waited between its clock and the cache's add, whatever the cache
\* and the requests (LimitIsPaid).
THEOREM LimitIsAlwaysPaid == LimiterSpec => [](LimiterTypeOK /\ LimitIsPaid)
<1>1. LimiterInv => LimiterTypeOK
  BY DEF LimiterInv, LimiterTypes, LimiterTypeOK
<1>2. LimiterInv => \A end \in Ends :
          Cardinality(AllowedIn(end)) <= MaxAttempts * (IF Restarted THEN 2 ELSE 1) + Cardinality(Straddlers(end))
  <2> SUFFICES ASSUME LimiterInv, NEW end \in Ends
               PROVE  Cardinality(AllowedIn(end)) <= MaxAttempts * (IF Restarted THEN 2 ELSE 1)
                                                     + Cardinality(Straddlers(end))
    OBVIOUS
  <2>1. Straddlers(end) \subseteq Asked /\ AllowedIn(end) = Keeping(end) \cup (AllowedIn(end) \cap Straddlers(end))
    BY DEF LimiterInv, Straddlers, Keeping, Asked, HitFits, Fresh
  <2>2. IsFiniteSet(Straddlers(end)) /\ Cardinality(Straddlers(end)) \in Nat
    BY <2>1, FS_Subset, FS_CardinalityType DEF LimiterInv
  <2>3. /\ IsFiniteSet(Keeping(end)) /\ Cardinality(Keeping(end)) \in Nat
        /\ Cardinality(Keeping(end)) <= Forgotten + MaxAttempts
    BY KeepingIsFinite DEF LimiterInv, WindowsAreKept
  <2> DEFINE K == Keeping(end)
             S == Straddlers(end)
             A == AllowedIn(end)
  <2>4. /\ IsFiniteSet(K) /\ IsFiniteSet(S) /\ Cardinality(K) \in Nat /\ Cardinality(S) \in Nat
        /\ A \subseteq K \cup S
    BY <2>1, <2>2, <2>3
  <2>5. Cardinality(K) <= Forgotten + MaxAttempts
    BY <2>3
  <2> HIDE DEF K, S, A
  <2>6. /\ IsFiniteSet(K \cup S) /\ Cardinality(K \cup S) = Cardinality(K) + Cardinality(S) - Cardinality(K \cap S)
        /\ IsFiniteSet(K \cap S)
    BY <2>4, FS_Union, FS_Subset
  <2>7. Cardinality(A) <= Cardinality(K \cup S) /\ Cardinality(A) \in Nat /\ Cardinality(K \cap S) \in Nat
    BY <2>4, <2>6, FS_Subset, FS_CardinalityType
  <2>8. Cardinality(A) <= Forgotten + MaxAttempts + Cardinality(S)
    <3>1. Forgotten \in Nat /\ MaxAttempts \in Nat
      BY LimiterNumbers DEF Forgotten
    <3> QED  BY <2>4, <2>5, <2>6, <2>7, <3>1
  <2>9. Forgotten + MaxAttempts = MaxAttempts * (IF Restarted THEN 2 ELSE 1)
    BY LimiterNumbers DEF Forgotten
  <2> QED  BY <2>8, <2>9 DEF A, S
<1>3. LimiterInit => LimiterInv /\ GapsAreOwed
  <2>1. \A end \in Ends, at \in Nat : Missing # TimerTo(end, at)
    BY DEF Missing, TimerTo
  <2> QED  BY <2>1, LimiterStarts DEF LimiterInit, GapsAreOwed, Fresh
<1>4. LimiterInv /\ GapsAreOwed /\ [LimiterNext]_limiterVars => (LimiterInv /\ GapsAreOwed)'
  BY LimiterSteps, GapSteps
<1>5. LimiterInv /\ GapsAreOwed => LimitIsPaid
  BY <1>2 DEF LimitIsPaid, LimiterInv, HitFits, GapsAreOwed, Delayed
<1> QED  BY <1>1, <1>3, <1>4, <1>5, PTL DEF LimiterSpec

(***************************************************************************)
(* The two adapters of the cache.                                           *)
(***************************************************************************)
Window == [present : {TRUE}, value : {"window"} \X (1..MaxCount), expiresAt : 1..(MaxClock + 2)]
Kept == {e \in Entries : e.present \/ e = Missing}
AdaptersInv ==
    /\ {memory, redis} \subseteq Kept
    /\ AdaptersTypeOK /\ AdaptersAgree
    /\ memoryWindow \in {Missing} \union Window /\ redisWindow \in {Missing} \union Window

\* Facts of an entry that a call looks at.
LEMMA KeptFacts ==
    ASSUME NEW e \in Kept, NEW now \in Nat
    PROVE  /\ entry(e, now) \in Kept /\ (has(e, now) => entry(e, now) = e /\ e.present /\ ~Past(e.expiresAt, now))
           /\ ~has(e, now) => entry(e, now) = Missing
           /\ e.present \in BOOLEAN /\ e.value[1] \in {"number", "json", "window"} /\ e.value[2] \in -MaxCount..MaxCount
           /\ e.expiresAt \in 0..(MaxClock + 2) /\ Missing \in Kept
<1>1. Missing \in Kept
  BY CacheAdaptersAssumption DEF Missing, Kept, Entries, Never
<1>2. e.present \in BOOLEAN /\ e.value[1] \in {"number", "json", "window"} /\ e.value[2] \in -MaxCount..MaxCount /\ e.expiresAt \in 0..(MaxClock + 2)
  BY DEF Kept, Entries
<1>3. Missing.present = FALSE
  BY DEF Missing
<1> QED  BY <1>1, <1>2, <1>3 DEF entry, has, Kept

\* An entry in memory and the text of it: they expire together.
LEMMA TextFacts ==
    ASSUME NEW e \in Kept, NEW now
    PROVE  /\ AsText(e) \in Kept /\ AsText(e).present = e.present /\ AsText(e).expiresAt = e.expiresAt
           /\ AsText(e).value = encode(e.value) /\ encode(e.value)[1] = e.value[1]
           /\ AsText(Missing) = Missing /\ entry(AsText(e), now) = AsText(entry(e, now)) /\ (has(AsText(e), now) <=> has(e, now))
<1>1. e \in Entries /\ (e.present \/ e = Missing)
  BY DEF Kept
<1>2. \A v \in {"number", "json", "window"} \X (-MaxCount..MaxCount) :
         encode(v) \in {"number", "json", "window"} \X (-MaxCount..MaxCount) /\ encode(v)[1] = v[1]
  <2>1. <<"json", 0>> \in {"number", "json", "window"} \X (-MaxCount..MaxCount)
    <3>1. 0 \in -MaxCount..MaxCount
      BY CacheAdaptersAssumption
    <3> QED  BY <3>1
  <2> QED  BY <2>1 DEF encode
<1>3. AsText(e) \in Entries /\ AsText(e).present = e.present /\ AsText(e).expiresAt = e.expiresAt /\ AsText(e).value = encode(e.value)
  BY <1>1, <1>2 DEF AsText, Entries
<1>4. AsText(Missing) = Missing
  BY DEF AsText, Missing, encode
<1>5. AsText(e) \in Kept
  BY <1>1, <1>3, <1>4 DEF Kept
<1>6. encode(e.value)[1] = e.value[1]
  BY <1>1, <1>2 DEF Entries
<1>7. entry(AsText(e), now) = AsText(entry(e, now))
  BY <1>3, <1>4 DEF entry
<1>8. entry(e, now) = e \/ entry(e, now) = Missing
  BY DEF entry
<1>9. has(AsText(e), now) <=> has(e, now)
  BY <1>3, <1>4, <1>7, <1>8 DEF has
<1> QED  BY <1>3, <1>4, <1>5, <1>6, <1>7, <1>9

\* An entry that has expired stays so.
LEMMA EntriesExpire ==
    ASSUME NEW m \in Entries, NEW r \in Entries, NEW now \in Nat, entry(m, now) = entry(r, now)
    PROVE  entry(m, now + 1) = entry(r, now + 1)
<1>1. \A e \in Entries : entry(e, now + 1) = entry(entry(e, now), now + 1)
  <2> SUFFICES ASSUME NEW e \in Entries PROVE entry(e, now + 1) = entry(entry(e, now), now + 1)
    OBVIOUS
  <2>1. e.expiresAt \in Nat /\ Missing.expiresAt = Never
    BY DEF Kept, Entries, Missing
  <2> QED  BY <2>1 DEF entry, Past, Never
<1> QED  BY <1>1


LEMMA PutIsKept ==
    ASSUME NEW value \in {"number", "json", "window"} \X (-MaxCount..MaxCount), NEW at \in 0..(MaxClock + 2), NEW now
    PROVE  put(value, at, now) \in Kept
<1>1. Missing \in Kept
  BY CacheAdaptersAssumption DEF Missing, Kept, Entries, Never
<1> QED  BY <1>1 DEF put, Kept, Entries

\* What a call leaves under the key; the windows stay.
LEMMA KeyStays ==
    ASSUME AdaptersInv, NEW m \in Kept, NEW r \in Kept, OnKey(m, r), apart' \in BOOLEAN, apart' \/ AsText(m) = r
    PROVE  AdaptersInv'
  BY DEF AdaptersInv, AdaptersTypeOK, AdaptersAgree, OnKey, Kept, Entries

\* A field of a present entry changes.
LEMMA EntryChanges ==
    ASSUME NEW e \in Kept, e.present = TRUE, NEW value \in {"number", "json", "window"} \X (-MaxCount..MaxCount), NEW at \in 0..(MaxClock + 2)
    PROVE  /\ [e EXCEPT !.value = value] = [present |-> TRUE, value |-> value, expiresAt |-> e.expiresAt]
           /\ [e EXCEPT !.expiresAt = at] = [present |-> TRUE, value |-> e.value, expiresAt |-> at]
<1>1. e \in Entries
  BY DEF Kept
<1>2. [e EXCEPT !.value = value] \in Entries /\ [e EXCEPT !.expiresAt = at] \in Entries
  BY <1>1 DEF Entries
<1>3. \A x \in Entries : x = [present |-> x.present, value |-> x.value, expiresAt |-> x.expiresAt]
  BY DEF Entries
<1> DEFINE v == [e EXCEPT !.value = value]
           w == [e EXCEPT !.expiresAt = at]
<1>4. v.present = TRUE /\ v.value = value /\ v.expiresAt = e.expiresAt
  BY <1>1 DEF Entries
<1>5. w.present = TRUE /\ w.value = e.value /\ w.expiresAt = at
  BY <1>1 DEF Entries
<1> HIDE DEF v, w
<1>6. v = [present |-> TRUE, value |-> value, expiresAt |-> e.expiresAt] /\ w = [present |-> TRUE, value |-> e.value, expiresAt |-> at]
  BY <1>2, <1>3, <1>4, <1>5 DEF v, w
<1> QED  BY <1>6 DEF v, w

LEMMA TextOfPut ==
    ASSUME NEW value \in {"number", "json", "window"} \X (-MaxCount..MaxCount), NEW at \in 0..(MaxClock + 2), NEW now
    PROVE  AsText(put(value, at, now)) = put(encode(value), at, now)
<1> DEFINE e == [present |-> TRUE, value |-> value, expiresAt |-> at]
<1>1. e \in Kept /\ e.present = TRUE /\ e.value = value /\ e.expiresAt = at
  BY DEF Kept, Entries
<1>2. encode(value) \in {"number", "json", "window"} \X (-MaxCount..MaxCount)
  <2>1. <<"json", 0>> \in {"number", "json", "window"} \X (-MaxCount..MaxCount)
    <3>1. 0 \in -MaxCount..MaxCount
      BY CacheAdaptersAssumption
    <3> QED  BY <3>1
  <2> QED  BY <2>1 DEF encode
<1> HIDE DEF e
<1>3. [e EXCEPT !.value = encode(value)] = [present |-> TRUE, value |-> encode(value), expiresAt |-> e.expiresAt]
  BY <1>1, <1>2, EntryChanges
<1>4. AsText(e) = [present |-> TRUE, value |-> encode(value), expiresAt |-> at]
  BY <1>1, <1>3 DEF AsText
<1>5. AsText(Missing) = Missing
  BY DEF AsText, Missing, encode
<1>6. CASE Past(at, now)
  BY <1>5, <1>6 DEF put
<1>7. CASE ~Past(at, now)
  BY <1>4, <1>7 DEF put, e
<1> QED  BY <1>6, <1>7

LEMMA AdaptersStart == AdaptersInit => AdaptersInv
<1> SUFFICES ASSUME AdaptersInit PROVE AdaptersInv
  OBVIOUS
<1>1. Missing \in Kept
  BY CacheAdaptersAssumption DEF Missing, Kept, Entries, Never
<1>2. memory = Missing /\ redis = Missing /\ memoryWindow = Missing /\ redisWindow = Missing /\ clock = 1 /\ apart = FALSE
  BY DEF AdaptersInit
<1>3. Missing \in Kept /\ 1 \in 1..MaxClock
  BY <1>1, CacheAdaptersAssumption DEF Kept
<1>4. AdaptersAgree
  <2>1. AsText(Missing) = Missing
    BY <1>1, TextFacts
  <2> QED  BY <1>2, <2>1 DEF AdaptersAgree
<1>5. AdaptersTypeOK
  <2>1. apart \in BOOLEAN /\ clock \in 1..MaxClock /\ {memory, redis, memoryWindow, redisWindow} = {Missing}
    BY <1>2, <1>3, Zenon
  <2>2. {memory, redis, memoryWindow, redisWindow} \subseteq Entries
    BY <1>1, <1>2 DEF Kept
  <2> QED  BY <2>1, <2>2, Zenon DEF AdaptersTypeOK
<1> QED  BY <1>2, <1>3, <1>4, <1>5 DEF AdaptersInv

LEMMA CallsOfAKey ==
    ASSUME AdaptersInv, NEW v \in Values, NEW at \in Instants,
           callPut(v, at) \/ callAdd(v, at) \/ callExpireIf(v, at) \/ callForgetIf(v) \/ callForget
    PROVE  AdaptersInv'
<1> DEFINE Pairs == {"number", "json", "window"} \X (-MaxCount..MaxCount)
           text == AsText(memory)
<1>1. /\ clock \in Nat /\ at \in 0..(MaxClock + 2) /\ apart \in BOOLEAN /\ memory \in Kept /\ redis \in Kept
      /\ v \in Pairs /\ encode(v) \in Pairs /\ Missing \in Kept
  <2>1. clock \in 1..MaxClock /\ apart \in BOOLEAN /\ memory \in Kept /\ redis \in Kept
    BY DEF AdaptersInv, AdaptersTypeOK
  <2>2. at \in 0..(MaxClock + 2)
    BY <2>1, CacheAdaptersAssumption DEF Instants, Never
  <2>3. v \in Pairs /\ encode(v) \in Pairs
    <3>1. 0 \in -MaxCount..MaxCount /\ 1 \in -MaxCount..MaxCount /\ -1 \in -MaxCount..MaxCount
      BY CacheAdaptersAssumption
    <3> QED  BY <3>1 DEF Values, encode
  <2> QED  BY <2>1, <2>2, <2>3, KeptFacts, CacheAdaptersAssumption
<1>2. /\ put(v, at, clock) \in Kept /\ put(encode(v), at, clock) \in Kept /\ AsText(put(v, at, clock)) = put(encode(v), at, clock)
      /\ entry(memory, clock) \in Kept /\ entry(redis, clock) \in Kept
  BY <1>1, PutIsKept, KeptFacts, TextOfPut
<1>3. apart \/ entry(text, clock) = entry(redis, clock)
  BY DEF AdaptersInv, AdaptersAgree
<1>4. /\ text \in Kept /\ text.value = encode(memory.value) /\ text.present = memory.present
      /\ (has(text, clock) <=> has(memory, clock)) /\ entry(text, clock) = AsText(entry(memory, clock)) /\ AsText(Missing) = Missing
  BY <1>1, TextFacts
<1> HIDE DEF Pairs, text
\* What both adapters hold, if they hold the same text.
<1>5. ASSUME entry(text, clock) = entry(redis, clock)
      PROVE  (has(memory, clock) <=> has(redis, clock)) /\ (has(memory, clock) => text = redis)
  <2>1. has(text, clock) <=> has(redis, clock)
    BY <1>5 DEF has
  <2>2. has(text, clock) => text = redis
    BY <1>1, <1>4, <1>5, <2>1, KeptFacts
  <2> QED  BY <1>4, <2>1, <2>2
<1>6. ASSUME ~expectsCopy(v), entry(text, clock) = entry(redis, clock)
      PROVE  Matches(memory, v, clock) <=> Matches(redis, encode(v), clock)
  <2>1. ASSUME has(memory, clock) PROVE memory.value = v <=> encode(memory.value) = encode(v)
    BY <1>6, <2>1 DEF expectsCopy
  <2> QED  BY <1>4, <1>5, <1>6, <2>1 DEF Matches
<1>7. CASE callPut(v, at)
  BY <1>1, <1>2, <1>7, KeyStays DEF callPut
<1>8. CASE callAdd(v, at)
  <2>1. ASSUME entry(text, clock) = entry(redis, clock)
        PROVE  AsText(add(memory, v, at, clock)) = add(redis, encode(v), at, clock)
    <3>1. adds(memory, at, clock) <=> adds(redis, at, clock)
      BY <1>5, <2>1 DEF adds
    <3> QED  BY <1>2, <1>4, <2>1, <3>1 DEF add
  <2>2. add(memory, v, at, clock) \in Kept /\ add(redis, encode(v), at, clock) \in Kept
    BY <1>2 DEF add
  <2>3. OnKey(add(memory, v, at, clock), add(redis, encode(v), at, clock)) /\ apart' = apart
    BY <1>8 DEF callAdd
  <2> QED  BY <1>1, <1>3, <2>1, <2>2, <2>3, KeyStays
<1>9. CASE callExpireIf(v, at)
  <2>1. /\ OnKey(expireIf(memory, v, at, clock), compareExpire(redis, encode(v), at, clock)) /\ at # Never
        /\ apart' = (apart \/ expectsCopy(v))
    BY <1>9 DEF callExpireIf
  <2>2. ASSUME NEW e \in Kept, has(e, clock)
        PROVE  [e EXCEPT !.expiresAt = at] = [present |-> TRUE, value |-> e.value, expiresAt |-> at] /\ e.value \in Pairs
    <3>1. e.present = TRUE /\ e.value \in Pairs
      BY <1>1, <2>2, KeptFacts DEF Kept, Entries, Pairs
    <3> QED  BY <1>1, <3>1, EntryChanges DEF Pairs
  <2>3. has(redis, clock) => (IF at <= clock THEN Missing ELSE [redis EXCEPT !.expiresAt = at]) = put(redis.value, at, clock)
    BY <1>1, <2>1, <2>2 DEF put, Past
  <2>4. compareExpire(redis, encode(v), at, clock) =
            IF Matches(redis, encode(v), clock) THEN put(redis.value, at, clock) ELSE entry(redis, clock)
    BY <2>3 DEF compareExpire, Matches
  <2>5. /\ has(memory, clock) => put(memory.value, at, clock) \in Kept /\ AsText(put(memory.value, at, clock)) = put(encode(memory.value), at, clock)
        /\ has(redis, clock) => put(redis.value, at, clock) \in Kept
    BY <1>1, <2>2, PutIsKept, TextOfPut DEF Pairs
  <2>6. expireIf(memory, v, at, clock) \in Kept /\ compareExpire(redis, encode(v), at, clock) \in Kept
    BY <1>2, <2>4, <2>5 DEF expireIf, Matches
  <2>7. ASSUME ~apart' PROVE AsText(expireIf(memory, v, at, clock)) = compareExpire(redis, encode(v), at, clock)
    <3>1. entry(text, clock) = entry(redis, clock) /\ ~expectsCopy(v)
      BY <1>3, <2>1, <2>7
    <3>2. CASE Matches(memory, v, clock)
      <4>1. Matches(redis, encode(v), clock) /\ has(memory, clock) /\ redis.value = encode(memory.value)
        BY <1>4, <1>5, <1>6, <3>1, <3>2 DEF Matches
      <4> QED  BY <2>4, <2>5, <3>2, <4>1 DEF expireIf
    <3>3. CASE ~Matches(memory, v, clock)
      <4>1. ~Matches(redis, encode(v), clock)
        BY <1>6, <3>1, <3>3
      <4> QED  BY <1>4, <2>4, <3>1, <3>3, <4>1 DEF expireIf
    <3> QED  BY <3>2, <3>3
  <2>8. apart' \in BOOLEAN
    BY <2>1, Zenon
  <2> QED  BY <2>1, <2>6, <2>7, <2>8, KeyStays
<1>10. CASE callForgetIf(v)
  <2>1. OnKey(forgetIf(memory, v, clock), forgetIf(redis, encode(v), clock)) /\ apart' = (apart \/ expectsCopy(v))
    BY <1>10 DEF callForgetIf
  <2>2. ASSUME ~apart' PROVE AsText(forgetIf(memory, v, clock)) = forgetIf(redis, encode(v), clock)
    <3>1. entry(text, clock) = entry(redis, clock) /\ ~expectsCopy(v)
      BY <1>3, <2>1, <2>2
    <3> QED  BY <1>4, <1>6, <3>1 DEF forgetIf
  <2>3. forgetIf(memory, v, clock) \in Kept /\ forgetIf(redis, encode(v), clock) \in Kept
    BY <1>1, <1>2 DEF forgetIf
  <2>4. apart' \in BOOLEAN
    BY <2>1, Zenon
  <2> QED  BY <2>1, <2>2, <2>3, <2>4, KeyStays
<1>11. CASE callForget
  BY <1>1, <1>4, <1>11, KeyStays DEF callForget
<1> QED  BY <1>7, <1>8, <1>9, <1>10, <1>11

LEMMA CallsOfACounter ==
    ASSUME AdaptersInv, NEW amount \in {-1, 1}, NEW at \in Instants, callIncrement(amount, at)
    PROVE  AdaptersInv'
<1>1. /\ clock \in Nat /\ at \in 0..(MaxClock + 2) /\ apart \in BOOLEAN /\ memory \in Kept /\ redis \in Kept
  BY CacheAdaptersAssumption DEF AdaptersInv, AdaptersTypeOK, Instants, Never
<1>2. apart \/ entry(AsText(memory), clock) = entry(redis, clock)
  BY DEF AdaptersInv, AdaptersAgree
<1>3. ASSUME NEW e \in {memory, redis}
      PROVE  increment(e, amount, at, clock) \in Kept /\ counter(e, amount, at, clock) \in Kept
  <2>1. e \in Kept
    BY <1>1, <1>3
  <2> DEFINE c == entry(e, clock)
             total == (IF c.present THEN c.value[2] ELSE 0) + amount
  <2>2. /\ c \in Kept /\ c.present \in BOOLEAN /\ c.value[2] \in -MaxCount..MaxCount /\ c.expiresAt \in 0..(MaxClock + 2)
        /\ (c.present => c = e)
    BY <1>1, <2>1, KeptFacts DEF has
  <2>3. Numeric(e) => c.value[2] + amount \in -MaxCount..MaxCount
    BY <1>3 DEF callIncrement
  <2>4. Numeric(c) => total \in -MaxCount..MaxCount
    BY <2>2, <2>3, CacheAdaptersAssumption DEF Numeric
  <2>5. Numeric(c) => <<"number", total>> \in {"number", "json", "window"} \X (-MaxCount..MaxCount)
    BY <2>4
  <2>6. Numeric(c) /\ c.present => [c EXCEPT !.value = <<"number", total>>] \in Kept
    BY <2>2, <2>5 DEF Kept, Entries
  <2> DEFINE expiry == IF c.expiresAt # Never THEN c.expiresAt ELSE at
  <2>7. expiry \in 0..(MaxClock + 2)
    BY <1>1, <2>2
  <2>8. Numeric(c) => put(<<"number", total>>, expiry, clock) \in Kept /\ put(<<"number", total>>, at, clock) \in Kept
    BY <1>1, <2>5, <2>7, PutIsKept
  <2>9. increment(e, amount, at, clock) \in {c, put(<<"number", total>>, expiry, clock)} /\ (~Numeric(c) => increment(e, amount, at, clock) = c)
    BY DEF increment
  <2>10. /\ \/ counter(e, amount, at, clock) \in {c, put(<<"number", total>>, at, clock)}
            \/ c.present /\ counter(e, amount, at, clock) = [c EXCEPT !.value = <<"number", total>>]
         /\ (~Numeric(c) => counter(e, amount, at, clock) = c)
    BY DEF counter
  <2> HIDE DEF c, total, expiry
  <2> QED  BY <2>2, <2>6, <2>8, <2>9, <2>10
<1>4. apart' \/ AsText(increment(memory, amount, at, clock)) = counter(redis, amount, at, clock)
  <2> SUFFICES ASSUME ~apart' PROVE AsText(increment(memory, amount, at, clock)) = counter(redis, amount, at, clock)
    OBVIOUS
  <2> DEFINE c == entry(memory, clock)
             d == entry(redis, clock)
             value == <<"number", (IF c.present THEN c.value[2] ELSE 0) + amount>>
  <2>1. d = AsText(c) /\ ~(has(memory, clock) /\ Numeric(memory) /\ memory.expiresAt = Never /\ at # Never)
    BY <1>1, <1>2, TextFacts DEF callIncrement
  <2>2. /\ c \in Kept /\ d \in Kept /\ d.present = c.present /\ d.value = encode(c.value) /\ d.expiresAt = c.expiresAt
        /\ d.value[1] = c.value[1] /\ AsText(Missing) = Missing
    <3>1. c \in Kept
      BY <1>1, KeptFacts
    <3> QED  BY <2>1, <3>1, TextFacts
  <2>3. Numeric(c) <=> Numeric(d)
    BY <2>2 DEF Numeric
  <2>4. CASE ~Numeric(c)
    <3>1. increment(memory, amount, at, clock) = c /\ counter(redis, amount, at, clock) = d
      BY <2>3, <2>4 DEF increment, counter
    <3> QED  BY <2>1, <3>1
  <2>5. CASE Numeric(c) /\ ~c.present
    <3>1. c = Missing /\ d = Missing
      BY <1>1, <2>1, <2>2, <2>5, KeptFacts DEF has
    <3>2. amount \in -MaxCount..MaxCount
      BY CacheAdaptersAssumption
    <3>3. <<"number", 0 + amount>> \in {"number", "json", "window"} \X (-MaxCount..MaxCount) /\ encode(<<"number", 0 + amount>>) = <<"number", 0 + amount>>
      BY <3>2 DEF encode
    <3>4. AsText(put(<<"number", 0 + amount>>, at, clock)) = put(<<"number", 0 + amount>>, at, clock)
      BY <1>1, <3>3, TextOfPut
    <3>5. counter(redis, amount, at, clock) = put(<<"number", 0 + amount>>, at, clock)
      BY <2>3, <2>5, <3>1 DEF counter, Missing
    <3>6. increment(memory, amount, at, clock) = IF Past(at, clock) THEN Missing ELSE put(<<"number", 0 + amount>>, at, clock)
      BY <2>5, <3>1 DEF increment, Missing, Never
    <3>7. Past(at, clock) => put(<<"number", 0 + amount>>, at, clock) = Missing
      BY DEF put
    <3> QED  BY <2>2, <3>4, <3>5, <3>6, <3>7
  <2>6. CASE Numeric(c) /\ c.present
    <3>1. c = memory /\ ~Past(c.expiresAt, clock) /\ c.present = TRUE /\ (c.expiresAt # Never \/ at = Never)
      BY <1>1, <2>1, <2>6, KeptFacts DEF has
    <3>2. c.value[1] = "number" /\ d.value[1] = "number" /\ d.value = c.value /\ value \in {"number", "json", "window"} \X (-MaxCount..MaxCount)
      <4>1. c.value[1] = "number"
        BY <2>6 DEF Numeric
      <4>2. c.value[2] + amount \in -MaxCount..MaxCount
        BY <2>6, <3>1 DEF callIncrement
      <4>3. encode(c.value) = c.value
        BY <4>1 DEF encode
      <4>4. value \in {"number", "json", "window"} \X (-MaxCount..MaxCount)
        BY <3>1, <4>2
      <4> HIDE DEF c, d, value
      <4> QED  BY <2>2, <4>1, <4>3, <4>4
    <3>3. (IF c.expiresAt # Never THEN c.expiresAt ELSE at) = c.expiresAt
      BY <3>1
    <3>4. increment(memory, amount, at, clock) = put(value, c.expiresAt, clock)
      BY <2>6, <3>1, <3>3 DEF increment
    <3>5. counter(redis, amount, at, clock) = [d EXCEPT !.value = value]
      <4>1. value = <<"number", (IF d.present THEN d.value[2] ELSE 0) + amount>>
        BY <2>2, <3>2
      <4> QED  BY <2>2, <2>3, <2>6, <4>1 DEF counter
    <3>6. encode(value) = value
      BY DEF encode
    <3> HIDE DEF c, d, value
    <3>7. [d EXCEPT !.value = value] = [present |-> TRUE, value |-> value, expiresAt |-> d.expiresAt]
      BY <1>1, <2>2, <3>1, <3>2, EntryChanges
    <3>8. c.expiresAt \in 0..(MaxClock + 2)
      BY <2>2 DEF Kept, Entries
    <3>9. AsText(put(value, c.expiresAt, clock)) = put(value, c.expiresAt, clock)
      BY <3>2, <3>6, <3>8, TextOfPut
    <3> QED  BY <2>2, <3>1, <3>4, <3>5, <3>7, <3>9 DEF put
  <2> QED  BY <2>4, <2>5, <2>6
<1>5. OnKey(increment(memory, amount, at, clock), counter(redis, amount, at, clock)) /\ apart' \in BOOLEAN
  <2>1. OnKey(increment(memory, amount, at, clock), counter(redis, amount, at, clock))
        /\ apart' = (apart \/ (has(memory, clock) /\ Numeric(memory) /\ memory.expiresAt = Never /\ at # Never))
    BY DEF callIncrement
  <2> QED  BY <2>1, Zenon
<1> QED  BY <1>1, <1>3, <1>4, <1>5, KeyStays

LEMMA WindowsAreEntries ==
    /\ Missing \in Entries /\ Window \subseteq Kept
    /\ \A w \in Window : /\ w.present = TRUE /\ w.value[1] = "window" /\ w.value[2] \in 1..MaxCount
                          /\ w.expiresAt \in 1..(MaxClock + 2)
<1>1. {"window"} \X (1..MaxCount) \subseteq {"number", "json", "window"} \X (-MaxCount..MaxCount)
  <2>1. 1..MaxCount \subseteq -MaxCount..MaxCount
    BY CacheAdaptersAssumption
  <2> QED  BY <2>1
<1>2. 1..(MaxClock + 2) \subseteq 0..(MaxClock + 2) /\ {TRUE} \subseteq BOOLEAN
  BY CacheAdaptersAssumption
<1>3. Window \subseteq Entries
  BY <1>1, <1>2 DEF Window, Entries
<1>4. Missing \in Entries
  BY CacheAdaptersAssumption DEF Missing, Entries, Never
<1>5. \A w \in Window : w.present = TRUE /\ w.value[1] = "window" /\ w.value[2] \in 1..MaxCount /\ w.expiresAt \in 1..(MaxClock + 2)
  BY DEF Window
<1> QED  BY <1>3, <1>4, <1>5 DEF Kept

\* The windows change, the key stays.
LEMMA WindowsAgree ==
    ASSUME AdaptersInv, UNCHANGED <<clock, memory, redis, apart>>, memoryWindow' = redisWindow',
           memoryWindow' \in {Missing} \union Window
    PROVE  AdaptersInv'
<1>1. Missing \in Entries /\ Window \subseteq Entries
  BY WindowsAreEntries DEF Kept
<1> QED  BY <1>1 DEF AdaptersInv, AdaptersTypeOK, AdaptersAgree

LEMMA HitsAgree == AdaptersInv /\ callHitFixedWindow => AdaptersInv'
<1> SUFFICES ASSUME AdaptersInv, callHitFixedWindow PROVE AdaptersInv'
  OBVIOUS
<1>1. /\ memoryWindow \in {Missing} \union Window /\ redisWindow \in {Missing} \union Window /\ clock \in 1..MaxClock
      /\ entry(memoryWindow, clock) = entry(redisWindow, clock) /\ UNCHANGED <<clock, memory, redis, apart>>
      /\ attempts(memoryWindow, clock) < MaxCount
      /\ memoryWindow' = hitFixedWindow(memoryWindow, 2, clock) /\ redisWindow' = fixedWindowHit(redisWindow, 2, clock)
  BY DEF AdaptersInv, AdaptersTypeOK, AdaptersAgree, callHitFixedWindow
<1> DEFINE Live(e) == e \in Window /\ e.expiresAt > clock
           Opened == [present |-> TRUE, value |-> <<"window", 1>>, expiresAt |-> clock + 2]
<1>2. \A e \in {Missing} \union Window : /\ Live(e) => entry(e, clock) = e /\ e.present
                                         /\ ~Live(e) => entry(e, clock) = Missing
  <2>1. Missing.expiresAt = 0 /\ Missing \notin Window
    BY WindowsAreEntries DEF Missing, Never
  <2>2. entry(Missing, clock) = Missing
    BY DEF entry
  <2>3. \A e \in Window : e.expiresAt \in Nat /\ e.expiresAt # 0 /\ e.present
    BY WindowsAreEntries
  <2> QED  BY <1>1, <2>1, <2>2, <2>3 DEF entry, Past, Never
<1>3. Missing.present = FALSE /\ Missing \notin Window
  BY DEF Missing, Window
<1>4. CASE Live(memoryWindow)
  <2>1. redisWindow = memoryWindow
    BY <1>1, <1>2, <1>3, <1>4
  <2>2. /\ memoryWindow \in Window /\ memoryWindow.expiresAt \in 1..(MaxClock + 2) /\ memoryWindow.expiresAt > clock
        /\ memoryWindow.present = TRUE /\ memoryWindow.value[1] = "window" /\ memoryWindow.value[2] \in 1..MaxCount
        /\ entry(memoryWindow, clock) = memoryWindow
    BY <1>2, <1>4 DEF Window
  <2>3. memoryWindow.value[2] < MaxCount
    BY <1>1, <2>2 DEF attempts
  <2> DEFINE next == memoryWindow.value[2] + 1
             hit == [present |-> TRUE, value |-> <<"window", next>>, expiresAt |-> memoryWindow.expiresAt]
  <2>4. hit \in Window
    <3>1. next \in 1..MaxCount
      BY <2>2, <2>3, CacheAdaptersAssumption
    <3> HIDE DEF next
    <3> QED  BY <2>2, <3>1 DEF Window
  <2>5. memoryWindow' = hit
    BY <1>1, <2>2 DEF hitFixedWindow
  <2>6. redisWindow' = [memoryWindow EXCEPT !.value[2] = @ + 1]
    BY <1>1, <2>1, <2>2 DEF fixedWindowHit
  <2>7. [memoryWindow EXCEPT !.value[2] = @ + 1] = hit
    <3> DEFINE w == [memoryWindow EXCEPT !.value[2] = @ + 1]
    <3>1. w = [memoryWindow EXCEPT !.value = <<"window", next>>]
      <4>1. [memoryWindow.value EXCEPT ![2] = @ + 1] = <<"window", next>>
        BY <2>2 DEF Window
      <4> QED  BY <2>2, <4>1 DEF Window
    <3>2. memoryWindow \in Kept
      BY <2>2, WindowsAreEntries
    <3>3. <<"window", next>> \in {"number", "json", "window"} \X (-MaxCount..MaxCount)
      <4>1. next \in -MaxCount..MaxCount
        BY <2>2, <2>3, CacheAdaptersAssumption
      <4> HIDE DEF next
      <4> QED  BY <4>1
    <3>4. 0 \in 0..(MaxClock + 2)
      BY CacheAdaptersAssumption
    <3> HIDE DEF next, w
    <3> QED  BY <2>2, <3>1, <3>2, <3>3, <3>4, EntryChanges DEF w
  <2> QED  BY <1>1, <2>4, <2>5, <2>6, <2>7, WindowsAgree
<1>5. CASE ~Live(memoryWindow)
  <2>1. ~Live(redisWindow) /\ entry(memoryWindow, clock) = Missing
    BY <1>1, <1>2, <1>3, <1>5
  <2>2. Opened \in Window
    BY <1>1, CacheAdaptersAssumption DEF Window
  <2>3. memoryWindow' = Opened
    BY <1>1, <1>3, <2>1 DEF hitFixedWindow
  <2>4. ~redisWindow.present \/ redisWindow.expiresAt <= clock
    BY <1>1, <1>3, <2>1, WindowsAreEntries
  <2>5. redisWindow' = Opened
    BY <1>1, <2>4 DEF fixedWindowHit
  <2> QED  BY <1>1, <2>2, <2>3, <2>5, WindowsAgree
<1> QED  BY <1>4, <1>5

LEMMA TimeKeepsAgreement == AdaptersInv /\ AdaptersTick => AdaptersInv'
<1> SUFFICES ASSUME AdaptersInv, AdaptersTick PROVE AdaptersInv'
  OBVIOUS
<1>1. /\ clock \in Nat /\ clock' = clock + 1 /\ clock' \in 1..MaxClock /\ UNCHANGED <<memory, redis, memoryWindow, redisWindow, apart>>
      /\ memory \in Entries /\ redis \in Entries /\ memoryWindow \in Entries /\ redisWindow \in Entries
  BY CacheAdaptersAssumption DEF AdaptersInv, AdaptersTypeOK, AdaptersTick
<1>2. /\ apart \/ entry(AsText(memory), clock + 1) = entry(redis, clock + 1)
      /\ entry(memoryWindow, clock + 1) = entry(redisWindow, clock + 1)
  <2>1. AsText(memory) \in Entries
    BY TextFacts DEF AdaptersInv, Kept
  <2> QED  BY <1>1, <2>1, EntriesExpire DEF AdaptersInv, AdaptersAgree
<1> QED  BY <1>1, <1>2 DEF AdaptersInv, AdaptersTypeOK, AdaptersAgree

LEMMA AdaptersSteps == AdaptersInv /\ [AdaptersNext]_adapterVars => AdaptersInv'
<1> SUFFICES ASSUME AdaptersInv, [AdaptersNext]_adapterVars PROVE AdaptersInv'
  OBVIOUS
<1>1. CASE UNCHANGED adapterVars
  BY <1>1 DEF adapterVars, AdaptersInv, AdaptersTypeOK, AdaptersAgree
<1>2. Values # {} /\ Never \in Instants
  BY DEF Values, Instants
<1>3. ASSUME NEW v \in Values, NEW at \in Instants, callPut(v, at) \/ callAdd(v, at) \/ callExpireIf(v, at) PROVE AdaptersInv'
  BY <1>3, CallsOfAKey
<1>4. ASSUME NEW v \in Values, callForgetIf(v) PROVE AdaptersInv'
  BY <1>2, <1>4, CallsOfAKey
<1>5. ASSUME NEW amount \in {-1, 1}, NEW at \in Instants, callIncrement(amount, at) PROVE AdaptersInv'
  BY <1>5, CallsOfACounter
<1>6. CASE callForget
  BY <1>2, <1>6, CallsOfAKey
<1>7. CASE callClearFixedWindow
  BY <1>7, WindowsAgree DEF callClearFixedWindow
<1> QED  BY <1>1, <1>3, <1>4, <1>5, <1>6, <1>7, HitsAgree, TimeKeepsAgreement DEF AdaptersNext

\* Whatever calls are made of the two adapters, and whenever: they hold the same
\* visible entries, but for a permanent counter that was given a TTL and an object that was
\* expected by another reference.
THEOREM AdaptersAlwaysAgree == AdaptersSpec => [](AdaptersTypeOK /\ AdaptersAgree)
<1>1. AdaptersInv /\ [AdaptersNext]_adapterVars => AdaptersInv'
  BY AdaptersSteps
<1>2. AdaptersInv => AdaptersTypeOK /\ AdaptersAgree
  BY DEF AdaptersInv
<1> QED  BY <1>1, <1>2, AdaptersStart, PTL DEF AdaptersSpec

(***************************************************************************)
(* Declaring a schedule.  A pending schedule with an expression owns its    *)
(* name, and the one task of that name is what it has declared.             *)
(***************************************************************************)
TaskMetadata ==
    [timezone : Zones \union {"none"}, description : {"none", "text"}, overlap : 0..2, oneServer : BOOLEAN,
     maintenance : {"skip", "run"}, success : {"none", "hook"}, failure : {"none", "hook"}]
Pending == [name : TaskNames \union {"none"}, descriptor : {"none", "operation", "queue"}, expression : Crons \union {{}},
            metadata : TaskMetadata]
Declared == [name : TaskNames, cron : Crons, descriptor : {"none", "operation", "queue"}, metadata : TaskMetadata]
Expressions == Crons \cup {EveryMinute}

\* Until an error ends the build.
OwnersFit ==
    /\ \A b \in Builders : pendingTask[b].expression # {} => pendingTask[b].name \in TaskNames /\ owners[pendingTask[b].name] = b
    /\ \A n \in TaskNames : owners[n] # "none" =>
          /\ owners[n] \in Builders /\ pendingTask[owners[n]].name = n /\ pendingTask[owners[n]].expression # {}
          /\ \E i \in DOMAIN tasks : tasks[i].name = n
    /\ \A i \in DOMAIN tasks :
          /\ owners[tasks[i].name] \in Builders /\ tasks[i] = TaskOf(pendingTask[owners[tasks[i].name]])
          /\ \A j \in DOMAIN tasks : tasks[i].name = tasks[j].name => i = j
\* What the compiler adds for a task.
CompiledFit ==
    \A c \in Expressions, n \in TaskNames :
        n \in scheduledTasks[c] <=> \E i \in DOMAIN tasks : tasks[i].name = n /\ providerCronExpression(tasks[i]) = c
ScheduleInv ==
    /\ pendingTask \in [Builders -> Pending] /\ \A b \in Builders : pendingTask[b] = NotMade \/ pendingTask[b].name \in TaskNames
    /\ tasks \in Seq(Declared) /\ owners \in [TaskNames -> Builders \union {"none"}]
    /\ phase \in {"defining", "compiled", "duplicate", "invalid"} /\ calls \in 0..MaxCalls
    /\ DOMAIN scheduledTasks = Expressions /\ configured \in [Expressions -> SUBSET {"own"}]
    /\ \A c \in Expressions : scheduledTasks[c] \ TaskNames = configured[c]
    /\ phase = "defining" => scheduledTasks = configured
    /\ phase \in {"defining", "compiled"} => OwnersFit
    /\ phase = "compiled" => CompiledFit

LEMMA ScheduleStarts == ScheduleInit => ScheduleInv
<1> SUFFICES ASSUME ScheduleInit PROVE ScheduleInv
  OBVIOUS
<1>1. NotMade \in Pending /\ NotMade.expression = {}
  BY ScheduleAssumption DEF NotMade, NoMetadata, Pending, TaskMetadata
<1>2. pendingTask \in [Builders -> Pending] /\ \A b \in Builders : pendingTask[b] = NotMade /\ pendingTask[b].expression = {}
  BY <1>1 DEF ScheduleInit
<1>3. tasks = <<>> /\ tasks \in Seq(Declared) /\ DOMAIN tasks = {} /\ owners \in [TaskNames -> Builders \union {"none"}]
      /\ (\A n \in TaskNames : owners[n] = "none") /\ phase = "defining" /\ calls \in 0..MaxCalls
  BY ScheduleAssumption DEF ScheduleInit
<1>4. OwnersFit
  BY <1>2, <1>3 DEF OwnersFit
<1>5. scheduledTasks = configured /\ configured \in [Expressions -> SUBSET {"own"}] /\ DOMAIN scheduledTasks = Expressions
  BY DEF ScheduleInit, Expressions
<1>6. \A c \in Expressions : scheduledTasks[c] \ TaskNames = configured[c]
  BY <1>5, ScheduleAssumption
<1> QED  BY <1>2, <1>3, <1>4, <1>5, <1>6 DEF ScheduleInv

LEMMA TasksDeclared ==
    ASSUME tasks \in Seq(Declared)
    PROVE  /\ Len(tasks) \in Nat /\ DOMAIN tasks = 1..Len(tasks)
           /\ \A i \in DOMAIN tasks : tasks[i] \in Declared /\ tasks[i].name \in TaskNames /\ tasks[i].cron \in Crons
<1>1. Len(tasks) \in Nat /\ DOMAIN tasks = 1..Len(tasks) /\ \A i \in 1..Len(tasks) : tasks[i] \in Declared
  OBVIOUS
<1>2. \A task \in Declared : task.name \in TaskNames /\ task.cron \in Crons
  BY DEF Declared
<1> QED  BY <1>1, <1>2

\* A pending schedule that has no expression changes: no task is its own.
LEMMA NothingStored ==
    ASSUME ScheduleInv, phase = "defining", NEW b \in Builders, NEW p \in Pending, pendingTask' = [pendingTask EXCEPT ![b] = p],
           pendingTask[b].expression = {}, p.expression = {}, p.name \in TaskNames, UNCHANGED <<tasks, owners, phase, configured, scheduledTasks>>, calls' \in 0..MaxCalls
    PROVE  ScheduleInv'
<1>1. pendingTask' \in [Builders -> Pending] /\ \A a \in Builders : pendingTask'[a] = IF a = b THEN p ELSE pendingTask[a]
  BY DEF ScheduleInv
<1>2. \A n \in TaskNames : owners[n] # b
  BY ScheduleAssumption DEF ScheduleInv, OwnersFit
<1>3. tasks \in Seq(Declared) /\ \A i \in DOMAIN tasks : tasks[i].name \in TaskNames
  BY TasksDeclared DEF ScheduleInv
<1>4. OwnersFit'
  <2>1. \A a \in Builders : pendingTask'[a].expression # {} => pendingTask'[a].name \in TaskNames /\ owners[pendingTask'[a].name] = a
    BY <1>1 DEF ScheduleInv, OwnersFit
  <2>2. ASSUME NEW n \in TaskNames, owners[n] # "none"
        PROVE  /\ owners[n] \in Builders /\ pendingTask'[owners[n]].name = n /\ pendingTask'[owners[n]].expression # {}
               /\ \E i \in DOMAIN tasks : tasks[i].name = n
    BY <1>1, <1>2, <2>2 DEF ScheduleInv, OwnersFit
  <2>3. ASSUME NEW i \in DOMAIN tasks
        PROVE  /\ owners[tasks[i].name] \in Builders /\ tasks[i] = TaskOf(pendingTask'[owners[tasks[i].name]])
               /\ \A j \in DOMAIN tasks : tasks[i].name = tasks[j].name => i = j
    BY <1>1, <1>2, <1>3, <2>3 DEF ScheduleInv, OwnersFit
  <2> QED  BY <2>1, <2>2, <2>3 DEF OwnersFit, TaskOf
<1> QED  BY <1>1, <1>4 DEF ScheduleInv

\* store of what the pending schedule has now become.
LEMMA StoreIsSound ==
    ASSUME ScheduleInv, phase = "defining", NEW b \in Builders, NEW p \in Pending, pendingTask' = [pendingTask EXCEPT ![b] = p],
           p.name \in TaskNames, p.expression # {}, pendingTask[b].expression # {} => pendingTask[b].name = p.name,
           store(b, TaskOf(p)), UNCHANGED <<configured, scheduledTasks>>, calls' \in 0..MaxCalls
    PROVE  ScheduleInv'
<1>1. pendingTask' \in [Builders -> Pending] /\ \A a \in Builders : pendingTask'[a] = IF a = b THEN p ELSE pendingTask[a]
  BY DEF ScheduleInv
<1>2. TaskOf(p) \in Declared /\ TaskOf(p).name = p.name
  BY DEF TaskOf, Pending, Declared
<1>3. PICK task \in Declared : task = TaskOf(p) /\ task.name = p.name
  BY <1>2
<1>4. CASE owners[p.name] \notin {"none", b}
  BY <1>1, <1>3, <1>4 DEF store, ScheduleInv
<1>5. CASE owners[p.name] \in {"none", b}
  <2>1. owners' = [owners EXCEPT ![p.name] = b] /\ phase' = phase
    BY <1>3, <1>5 DEF store
  <2>2. owners' \in [TaskNames -> Builders \union {"none"}] /\ \A n \in TaskNames : owners'[n] = IF n = p.name THEN b ELSE owners[n]
    BY <2>1 DEF ScheduleInv
  <2>3. OwnersFit /\ tasks \in Seq(Declared) /\ \A i \in DOMAIN tasks : tasks[i].name \in TaskNames
    BY TasksDeclared DEF ScheduleInv
  <2>4. \A n \in TaskNames : owners[n] = b => n = p.name
    BY <2>3, ScheduleAssumption DEF OwnersFit
  <2>5. \A a \in Builders : pendingTask'[a].expression # {} => pendingTask'[a].name \in TaskNames /\ owners'[pendingTask'[a].name] = a
    BY <1>1, <1>5, <2>2, <2>3, ScheduleAssumption DEF OwnersFit
  <2>6. tasks' \in Seq(Declared) /\ (\E i \in DOMAIN tasks' : tasks'[i] = task)
        /\ (\A i \in DOMAIN tasks : \E j \in DOMAIN tasks' : tasks'[j].name = tasks[i].name)
        /\ (\A i \in DOMAIN tasks' : tasks'[i] = task \/ (i \in DOMAIN tasks /\ tasks[i].name # p.name /\ tasks'[i] = tasks[i]))
        /\ (\A i, j \in DOMAIN tasks' : tasks'[i].name = tasks'[j].name => i = j)
    <3>1. CASE \E i \in DOMAIN tasks : tasks[i].name = p.name
      <4>1. tasks' = [i \in DOMAIN tasks |-> IF tasks[i].name = task.name THEN task ELSE tasks[i]]
        BY <1>3, <1>5, <3>1 DEF store
      <4>2. DOMAIN tasks = 1..Len(tasks) /\ Len(tasks) \in Nat
        BY <2>3
      <4>3. DOMAIN tasks' = DOMAIN tasks /\ \A i \in DOMAIN tasks : tasks'[i] = IF tasks[i].name = p.name THEN task ELSE tasks[i]
        BY <1>3, <4>1
      <4>4. tasks' \in Seq(Declared)
        BY <2>3, <4>1, <4>2
      <4>5. \A i, j \in DOMAIN tasks : tasks[i].name = tasks[j].name => i = j
        BY <2>3 DEF OwnersFit
      <4>6. \A i \in DOMAIN tasks : tasks'[i].name = tasks[i].name
        BY <1>3, <4>3
      <4> QED  BY <1>3, <3>1, <4>3, <4>4, <4>5, <4>6
    <3>2. CASE ~\E i \in DOMAIN tasks : tasks[i].name = p.name
      <4>1. tasks' = Append(tasks, task)
        BY <1>3, <1>5, <3>2 DEF store
      <4>2. PICK n \in Nat : n = Len(tasks) /\ DOMAIN tasks = 1..n
        BY <2>3
      <4>3. tasks' \in Seq(Declared) /\ DOMAIN tasks' = 1..(n + 1) /\ tasks'[n + 1] = task /\ \A i \in 1..n : tasks'[i] = tasks[i]
        BY <2>3, <4>1, <4>2
      <4>4. \A i, j \in DOMAIN tasks : tasks[i].name = tasks[j].name => i = j
        BY <2>3 DEF OwnersFit
      <4>5. \A i \in 1..(n + 1) : i \in 1..n \/ i = n + 1
        BY <4>2
      <4>6. \A i \in 1..n : i \in 1..(n + 1) /\ i # n + 1
        BY <4>2
      <4>7. n + 1 \in 1..(n + 1)
        BY <4>2
      <4> QED  BY <1>3, <3>2, <4>2, <4>3, <4>4, <4>5, <4>6, <4>7
    <3> QED  BY <3>1, <3>2
  <2>7. ASSUME NEW n \in TaskNames, owners'[n] # "none"
        PROVE  /\ owners'[n] \in Builders /\ pendingTask'[owners'[n]].name = n /\ pendingTask'[owners'[n]].expression # {}
               /\ \E i \in DOMAIN tasks' : tasks'[i].name = n
    <3>1. CASE n = p.name
      BY <1>1, <1>3, <2>2, <2>6, <3>1
    <3>2. CASE n # p.name
      <4>1. owners'[n] = owners[n] /\ owners[n] # "none" /\ owners[n] # b
        BY <2>2, <2>4, <2>7, <3>2
      <4> QED  BY <1>1, <2>3, <2>6, <4>1 DEF OwnersFit
    <3> QED  BY <3>1, <3>2
  <2>8. ASSUME NEW i \in DOMAIN tasks'
        PROVE  /\ owners'[tasks'[i].name] \in Builders /\ tasks'[i] = TaskOf(pendingTask'[owners'[tasks'[i].name]])
               /\ \A j \in DOMAIN tasks' : tasks'[i].name = tasks'[j].name => i = j
    <3>1. CASE tasks'[i] = task
      BY <1>1, <1>3, <2>2, <2>6, <3>1
    <3>2. CASE i \in DOMAIN tasks /\ tasks[i].name # p.name /\ tasks'[i] = tasks[i]
      <4>1. tasks[i].name \in TaskNames /\ owners'[tasks[i].name] = owners[tasks[i].name] /\ owners[tasks[i].name] # b
        BY <2>2, <2>3, <2>4, <3>2
      <4>2. owners[tasks[i].name] \in Builders /\ tasks[i] = TaskOf(pendingTask[owners[tasks[i].name]])
        BY <2>3, <3>2 DEF OwnersFit
      <4>3. pendingTask'[owners[tasks[i].name]] = pendingTask[owners[tasks[i].name]]
        BY <1>1, <4>1, <4>2
      <4> QED  BY <2>6, <2>8, <3>2, <4>1, <4>2, <4>3
    <3> QED  BY <2>6, <2>8, <3>1, <3>2
  <2>9. OwnersFit'
    BY <2>5, <2>7, <2>8 DEF OwnersFit, TaskOf
  <2> QED  BY <1>1, <2>1, <2>2, <2>6, <2>9 DEF ScheduleInv
<1> QED  BY <1>4, <1>5

LEMMA CallsAreBounded ==
    ASSUME ScheduleInv, Called
    PROVE  phase = "defining" /\ calls' \in 0..MaxCalls
  BY ScheduleAssumption DEF ScheduleInv, Called

LEMMA Makes ==
    ASSUME ScheduleInv, NEW b \in Builders, NEW name \in TaskNames, NEW descriptor \in {"operation", "queue"}, make(b, name, descriptor)
    PROVE  ScheduleInv'
<1>1. phase = "defining" /\ calls' \in 0..MaxCalls /\ UNCHANGED <<tasks, owners, phase, configured, scheduledTasks>>
  BY CallsAreBounded DEF make
<1>2. PICK q \in Pending : q = pendingTask[b] /\ q.expression = {}
  BY DEF ScheduleInv, make, NotMade
<1> DEFINE p == [q EXCEPT !.name = name, !.descriptor = descriptor]
<1>3. p \in Pending /\ p.expression = {} /\ p.name = name
  BY <1>2 DEF Pending
<1>4. pendingTask' = [pendingTask EXCEPT ![b] = p]
  BY <1>2 DEF make, ScheduleInv
<1> HIDE DEF p
<1> QED  BY <1>1, <1>2, <1>3, <1>4, NothingStored

LEMMA TakesExpression ==
    ASSUME ScheduleInv, NEW b \in Builders, NEW expression \in Crons, cron(b, expression)
    PROVE  ScheduleInv'
<1>1. phase = "defining" /\ calls' \in 0..MaxCalls /\ UNCHANGED <<configured, scheduledTasks>>
  BY CallsAreBounded DEF cron
<1>2. PICK q \in Pending : q = pendingTask[b] /\ q.name \in TaskNames
  BY DEF ScheduleInv, cron
<1> DEFINE p == [q EXCEPT !.expression = expression]
<1>3. p \in Pending /\ p.expression = expression /\ p.name = q.name /\ expression # {}
  BY <1>2, ScheduleAssumption DEF Pending
<1>4. pendingTask' = [pendingTask EXCEPT ![b] = p]
  BY <1>2 DEF cron, ScheduleInv
<1>5. pendingTask'[b] = p
  BY <1>4 DEF ScheduleInv
<1>6. store(b, TaskOf(p))
  BY <1>5 DEF cron
<1> HIDE DEF p
<1> QED  BY <1>1, <1>2, <1>3, <1>4, <1>6, StoreIsSound

LEMMA Declares ==
    ASSUME ScheduleInv, NEW b \in Builders, NEW metadata \in TaskMetadata, declare(b, metadata)
    PROVE  ScheduleInv'
<1>1. phase = "defining" /\ calls' \in 0..MaxCalls /\ UNCHANGED <<configured, scheduledTasks>>
  BY CallsAreBounded DEF declare
<1>2. PICK q \in Pending : q = pendingTask[b] /\ q.name \in TaskNames
  BY DEF ScheduleInv, declare
<1> DEFINE p == [q EXCEPT !.metadata = metadata]
<1>3. p \in Pending /\ p.expression = q.expression /\ p.name = q.name
  BY <1>2 DEF Pending
<1>4. pendingTask' = [pendingTask EXCEPT ![b] = p]
  BY <1>2 DEF declare, ScheduleInv
<1>5. pendingTask'[b] = p
  BY <1>4 DEF ScheduleInv
<1>6. IF p.expression = {} THEN UNCHANGED <<tasks, owners, phase>> ELSE store(b, TaskOf(p))
  BY <1>5 DEF declare, commitIfScheduled
<1> HIDE DEF p
<1>7. CASE p.expression = {}
  BY <1>1, <1>2, <1>3, <1>4, <1>6, <1>7, NothingStored
<1>8. CASE p.expression # {}
  BY <1>1, <1>2, <1>3, <1>4, <1>6, <1>8, StoreIsSound
<1> QED  BY <1>7, <1>8

LEMMA DeclarationsDeclare ==
    ASSUME ScheduleInv, NEW b \in Builders,
           \/ \E zone \in Zones : timezone(b, zone)
           \/ \E expiry \in {1, 2} : withoutOverlapping(b, expiry)
           \/ description(b) \/ onOneServer(b) \/ evenInMaintenanceMode(b) \/ skipDuringMaintenance(b)
           \/ onSuccess(b) \/ onFailure(b)
    PROVE  \E metadata \in TaskMetadata : declare(b, metadata)
<1>1. PICK m \in TaskMetadata : m = pendingTask[b].metadata
  BY DEF ScheduleInv, Pending
<1>2. ASSUME NEW zone \in Zones PROVE [m EXCEPT !.timezone = zone] \in TaskMetadata
  BY DEF TaskMetadata
<1>3. ASSUME NEW expiry \in {1, 2} PROVE [m EXCEPT !.overlap = expiry] \in TaskMetadata
  BY DEF TaskMetadata
<1>4. /\ [m EXCEPT !.description = "text"] \in TaskMetadata /\ [m EXCEPT !.oneServer = TRUE] \in TaskMetadata
      /\ [m EXCEPT !.maintenance = "run"] \in TaskMetadata /\ [m EXCEPT !.maintenance = "skip"] \in TaskMetadata
      /\ [m EXCEPT !.success = "hook"] \in TaskMetadata /\ [m EXCEPT !.failure = "hook"] \in TaskMetadata
  BY DEF TaskMetadata
<1>5. CASE \E zone \in Zones : timezone(b, zone)
  BY <1>1, <1>2, <1>5 DEF timezone
<1>6. CASE \E expiry \in {1, 2} : withoutOverlapping(b, expiry)
  BY <1>1, <1>3, <1>6 DEF withoutOverlapping
<1>7. CASE description(b) \/ onOneServer(b) \/ evenInMaintenanceMode(b) \/ skipDuringMaintenance(b) \/ onSuccess(b) \/ onFailure(b)
  BY <1>1, <1>4, <1>7 DEF description, onOneServer, evenInMaintenanceMode, skipDuringMaintenance, onSuccess, onFailure
<1> QED  BY <1>5, <1>6, <1>7

LEMMA Compiles ==
    ASSUME ScheduleInv, compile
    PROVE  ScheduleInv'
<1>1. phase = "defining" /\ OwnersFit /\ UNCHANGED <<pendingTask, tasks, owners, configured, calls>> /\ \A c \in Expressions : scheduledTasks[c] \subseteq {"own"}
  BY DEF compile, ScheduleInv
<1>2. OwnersFit'
  BY <1>1 DEF OwnersFit, TaskOf
<1>3. CASE phase' = "invalid" /\ UNCHANGED scheduledTasks
  BY <1>1, <1>3 DEF ScheduleInv
<1>4. CASE phase' = "compiled" /\
            scheduledTasks' = [c \in DOMAIN scheduledTasks |->
                  scheduledTasks[c] \cup {tasks[i].name : i \in {i \in DOMAIN tasks : providerCronExpression(tasks[i]) = c}}]
  <2>1. DOMAIN scheduledTasks = Expressions
    BY DEF ScheduleInv
  <2>2. DOMAIN scheduledTasks' = Expressions /\ \A c \in Expressions : scheduledTasks'[c] =
           scheduledTasks[c] \cup {tasks[i].name : i \in {i \in DOMAIN tasks : providerCronExpression(tasks[i]) = c}}
    BY <1>4, <2>1
  <2>3. \A i \in DOMAIN tasks : tasks[i].name \in TaskNames /\ tasks[i].name # "own"
    BY TasksDeclared, ScheduleAssumption DEF ScheduleInv
  <2>4. \A c \in Expressions : scheduledTasks'[c] \ TaskNames = scheduledTasks[c] \ TaskNames
    BY <2>2, <2>3
  <2>5. \A c \in Expressions, n \in TaskNames :
           n \in scheduledTasks'[c] <=> \E i \in DOMAIN tasks : tasks[i].name = n /\ providerCronExpression(tasks[i]) = c
    BY <1>1, <2>2, ScheduleAssumption
  <2>6. CompiledFit'
    BY <1>1, <2>5 DEF CompiledFit, providerCronExpression, EveryMinute
  <2>7. \A c \in Expressions : scheduledTasks'[c] \ TaskNames = configured'[c]
    BY <1>1, <2>4 DEF ScheduleInv
  <2> QED  BY <1>1, <1>2, <1>4, <2>2, <2>6, <2>7 DEF ScheduleInv
<1> QED  BY <1>3, <1>4 DEF compile

LEMMA ScheduleSteps == ScheduleInv /\ [ScheduleNext]_scheduleVars => ScheduleInv'
<1> SUFFICES ASSUME ScheduleInv, [ScheduleNext]_scheduleVars PROVE ScheduleInv'
  OBVIOUS
<1>1. CASE UNCHANGED scheduleVars
  <2>1. OwnersFit' <=> OwnersFit
    BY <1>1 DEF OwnersFit, scheduleVars
  <2>2. CompiledFit' <=> CompiledFit
    BY <1>1 DEF CompiledFit, scheduleVars
  <2> QED  BY <1>1, <2>1, <2>2 DEF ScheduleInv, scheduleVars
<1>2. CASE compile
  BY <1>2, Compiles
<1>3. ASSUME NEW b \in Builders, NEW name \in TaskNames, NEW descriptor \in {"operation", "queue"}, make(b, name, descriptor)
      PROVE  ScheduleInv'
  BY <1>3, Makes
<1>4. ASSUME NEW b \in Builders, NEW expression \in Crons, cron(b, expression)
      PROVE  ScheduleInv'
  BY <1>4, TakesExpression
<1>5. ASSUME NEW b \in Builders,
           \/ \E zone \in Zones : timezone(b, zone)
           \/ \E expiry \in {1, 2} : withoutOverlapping(b, expiry)
           \/ description(b) \/ onOneServer(b) \/ evenInMaintenanceMode(b) \/ skipDuringMaintenance(b)
           \/ onSuccess(b) \/ onFailure(b)
      PROVE  ScheduleInv'
  BY <1>5, DeclarationsDeclare, Declares
<1> QED  BY <1>1, <1>2, <1>3, <1>4, <1>5 DEF ScheduleNext

\* The minutes in which the compiled task of a pending schedule starts.
LEMMA StartsWhenDue ==
    ASSUME ScheduleInv, phase = "compiled", NEW b \in Builders, NEW minute \in DayMinutes, pendingTask[b].expression # {}
    PROVE  Starts(TaskOf(pendingTask[b]), minute) <=>
              IF pendingTask[b].metadata.timezone = "none" THEN Local(minute, ProviderOffset) \in pendingTask[b].expression
              ELSE Local(minute, Offsets[pendingTask[b].metadata.timezone]) \in pendingTask[b].expression
<1>1. PICK p \in Pending : p = pendingTask[b]
  BY DEF ScheduleInv
<1>2. PICK name \in TaskNames : name = p.name /\ owners[name] = b
  BY <1>1 DEF ScheduleInv, OwnersFit
<1>3. PICK k \in DOMAIN tasks : tasks[k].name = name
  BY <1>2, ScheduleAssumption DEF ScheduleInv, OwnersFit
<1>4. tasks[k] = TaskOf(p) /\ \A j \in DOMAIN tasks : tasks[j].name = name => j = k
  BY <1>1, <1>2, <1>3 DEF ScheduleInv, OwnersFit
<1>5. PICK task : task = TaskOf(p)
  OBVIOUS
<1>6. task.name = name /\ task.cron = p.expression /\ task.metadata = p.metadata
  BY <1>2, <1>5 DEF TaskOf
<1>7. \A c \in Expressions : name \in scheduledTasks[c] <=> providerCronExpression(task) = c
  BY <1>3, <1>4, <1>5 DEF ScheduleInv, CompiledFit
<1>8. providerCronExpression(task) \in Expressions
  BY <1>1, <1>6 DEF providerCronExpression, Expressions, Pending
<1>9. Fires(name, minute) <=> Local(minute, ProviderOffset) \in providerCronExpression(task)
  BY <1>7, <1>8 DEF Fires, FiresIn, ScheduleInv
<1>10. Local(minute, ProviderOffset) \in EveryMinute
  BY ScheduleAssumption DEF Local, EveryMinute, DayMinutes
<1>11. Starts(task, minute) <=> Fires(name, minute) /\ (p.metadata.timezone # "none" => isScheduledTaskDue(task, minute))
  BY <1>6 DEF Starts
<1>12. CASE p.metadata.timezone = "none"
  BY <1>1, <1>5, <1>6, <1>9, <1>11, <1>12 DEF providerCronExpression
<1>13. CASE p.metadata.timezone # "none"
  BY <1>1, <1>5, <1>6, <1>9, <1>10, <1>11, <1>13 DEF providerCronExpression, isScheduledTaskDue
<1> QED  BY <1>12, <1>13

\* For any pending schedules, names, expressions and zones: until an error ends the build
\* every task is what its owner declared so far, and once compiled it starts in exactly
\* the minutes of its expression, while the tasks of the application fire as before.
THEOREM ScheduleIsAlwaysAsDeclared == ScheduleSpec => [](ScheduleTypeOK /\ ScheduleIsAsDeclared)
<1>1. ScheduleInv => ScheduleTypeOK /\ ScheduleIsAsDeclared
  <2> SUFFICES ASSUME ScheduleInv PROVE ScheduleTypeOK /\ ScheduleIsAsDeclared
    OBVIOUS
  <2>1. ScheduleTypeOK
    BY TasksDeclared DEF ScheduleInv, ScheduleTypeOK
  <2>2. ASSUME phase \in {"defining", "compiled"}, NEW b \in Builders, pendingTask[b].expression # {}
        PROVE  {i \in DOMAIN tasks : tasks[i].name = pendingTask[b].name} # {}
    BY <2>2, ScheduleAssumption DEF ScheduleInv, OwnersFit
  <2>3. ASSUME phase \in {"defining", "compiled"}, NEW i \in DOMAIN tasks
        PROVE  /\ tasks[i] = TaskOf(pendingTask[owners[tasks[i].name]])
               /\ \A j \in DOMAIN tasks : tasks[i].name = tasks[j].name => i = j
    BY <2>3 DEF ScheduleInv, OwnersFit
  <2>4. \A c \in DOMAIN configured : scheduledTasks[c] \ TaskNames = configured[c]
    BY DEF ScheduleInv
  <2>5. \A minute \in DayMinutes : Fires("own", minute) <=> FiresIn(configured, "own", minute)
    <3>1. \A c \in Expressions : "own" \in scheduledTasks[c] <=> "own" \in configured[c]
      BY ScheduleAssumption DEF ScheduleInv
    <3>2. DOMAIN scheduledTasks = Expressions /\ DOMAIN configured = Expressions
      BY DEF ScheduleInv
    <3> QED  BY <3>1, <3>2 DEF Fires, FiresIn
  <2> QED  BY <2>1, <2>2, <2>3, <2>4, <2>5, StartsWhenDue DEF ScheduleIsAsDeclared
<1> QED  BY <1>1, ScheduleStarts, ScheduleSteps, PTL DEF ScheduleSpec
=============================================================================
