---------------------------- MODULE BullMQProofs ----------------------------
(***************************************************************************)
(* Proofs about BullMQQueue, for any jobs, chains, batch and workers.  A    *)
(* worker goes by its copy of the job, which Redis may have handed to       *)
(* another meanwhile; what it then does takes effect only while it holds    *)
(* the job, and then its copy is current.  And about JobEnvelope, for any   *)
(* metadata keys, payloads and limits.                                      *)
(***************************************************************************)
EXTENDS BullMQQueue, JobEnvelope, FiniteSetTheorems, TLAPS

Pcs == {"idle", "check", "run", "confirm", "advance", "verify", "release",
        "succeeded", "cancelled", "error", "unrecoverable", "limit", "stopped"}
Call == [pc : Pcs, job : Jobs \cup {None}, made : Nat, started : Nat, stalls : Nat, closing : BOOLEAN]

Calling(w) == worker[w].pc \notin {"idle", "stopped"}

\* Every start of a job ended in an attempt, a stall or a release, or is under way.
CountersAddUp(r, n) == r.started = r.made + r.stalls + n + (IF r.state = "active" THEN 1 ELSE 0)

\* A job in Redis that was released n times.
JobFits(r, n) ==
    /\ r \in Job /\ n \in Nat /\ CountersAddUp(r, n)
    /\ n <= MaxReleases
    /\ r.overLimit => n = MaxReleases
    /\ r.holder # None => r.state = "active"
    /\ r.state = "absent" => n = 0

\* What a call has behind it where it is.
CallFits(s, done, state) ==
    /\ s \in Call
    /\ s.pc \notin {"idle", "stopped"} => s.job \in Jobs
    /\ s.pc \in {"check", "confirm", "cancelled"} => s.job \in Children
    /\ s.pc \in {"advance", "verify"} => s.job \in done /\ NextOf[s.job] # None
    /\ s.pc = "cancelled" => state # "running"

\* The copy of a call that holds its job is current.
CopyIsCurrent(w) ==
    Calling(w) /\ Owns(w) =>
        LET j == worker[w].job IN
          /\ worker[w].made = job[j].made /\ worker[w].started = job[j].started
          /\ worker[w].stalls = job[j].stalls
          /\ worker[w].pc = "limit" => released[j] = MaxReleases
          /\ worker[w].pc = "succeeded" /\ NextOf[j] # None => job[NextOf[j]].state # "absent"

HolderCalls(j) == job[j].holder # None => Calling(job[j].holder) /\ worker[job[j].holder].job = j

CancelledWasAsked ==
    \A c \in Children : job[c].state = "completed" /\ job[c].cancelled => batch # "running"

BullMQInv ==
    /\ DOMAIN job = Jobs /\ DOMAIN released = Jobs /\ worker \in [Workers -> Call]
    /\ job \in [Jobs -> Job] /\ released \in [Jobs -> Nat]
    /\ batch \in {"running", "cancelling", "gone"}
    /\ reports \subseteq Workers \X Jobs /\ returned \subseteq Jobs /\ faults \in 0..MaxFaults
    /\ \A j \in Jobs : JobFits(job[j], released[j]) /\ HolderCalls(j)
    /\ \A w \in Workers : CallFits(worker[w], returned, batch) /\ CopyIsCurrent(w)
    /\ ChainsHandOver /\ CancelledWasAsked
    /\ \A r \in reports : r[1] \in Up

\* What Redis has of a job that is not there and of one that was just added.
LEMMA AddedFits ==
    /\ Absent \in Job /\ Added(Absent) \in Job /\ Absent.state = "absent" /\ Added(Absent).state = "waiting"
    /\ \A r \in {Absent, Added(Absent)} : JobFits(r, 0) /\ r.holder = None /\ r.state \in {"absent", "waiting"}
<1> DEFINE a == Absent
           b == Added(Absent)
<1>1. /\ a \in Job /\ a.state = "absent" /\ a.made = 0 /\ a.started = 0 /\ a.stalls = 0
      /\ a.holder = None /\ a.overLimit = FALSE
  BY DEF Absent, Job, States
<1>2. /\ b \in Job /\ b.state = "waiting" /\ b.made = 0 /\ b.started = 0 /\ b.stalls = 0
      /\ b.holder = None /\ b.overLimit = FALSE
  BY DEF Absent, Added, Job, States
<1> HIDE DEF a, b
<1>3. MaxReleases \in Nat
  BY BudgetAssumption
<1>4. JobFits(a, 0) /\ JobFits(b, 0)
  BY <1>1, <1>2, <1>3 DEF JobFits, CountersAddUp
<1> QED  BY <1>1, <1>2, <1>4 DEF a, b

LEMMA BullMQStarts == Init => BullMQInv
<1> SUFFICES ASSUME Init PROVE BullMQInv
  OBVIOUS
<1>1. PICK admitted \in Admissions :
        /\ admitted \cap Steps \subseteq First
        /\ AddedWhole(admitted)
        /\ job = [j \in Jobs |-> IF j \in admitted THEN Added(Absent) ELSE Absent]
        /\ batch = IF Children \subseteq admitted THEN "running" ELSE "gone"
  BY DEF Init
<1>2. /\ Absent \in Job /\ Added(Absent) \in Job
      /\ \A r \in {Absent, Added(Absent)} : JobFits(r, 0) /\ r.holder = None /\ r.state \in {"absent", "waiting"}
  BY AddedFits
<1>3. Idle \in Call /\ Idle.pc = "idle"
  BY DEF Idle, Call, Pcs
<1>4. /\ job \in [Jobs -> Job] /\ released = [j \in Jobs |-> 0] /\ worker = [w \in Workers |-> Idle]
      /\ returned = {} /\ reports = {} /\ faults = 0
  BY <1>1, <1>2 DEF Init
<1>5. \A j \in Jobs : job[j] \in {Absent, Added(Absent)} /\ released[j] = 0
  BY <1>1, <1>4
<1>6. \A j \in Jobs : JobFits(job[j], released[j]) /\ HolderCalls(j)
  BY <1>2, <1>5 DEF HolderCalls
<1>7. \A w \in Workers : CallFits(worker[w], returned, batch) /\ CopyIsCurrent(w)
  BY <1>3, <1>4 DEF CallFits, CopyIsCurrent, Calling
<1>8. ChainsHandOver
  <2> SUFFICES ASSUME NEW j \in Jobs, NextOf[j] # None
               PROVE  job[NextOf[j]].state = "absent" /\ job[j].state # "completed"
    BY DEF ChainsHandOver
  <2>1. NextOf[j] \in Jobs /\ NextOf[j] \notin Children /\ NextOf[j] \notin admitted
    BY <1>1, JobsAssumption DEF Steps, First
  <2> QED  BY <1>1, <1>2, <1>5, <2>1 DEF Absent
<1>9. CancelledWasAsked
  <2> SUFFICES ASSUME NEW c \in Children PROVE job[c].state # "completed"
    BY DEF CancelledWasAsked
  <2>1. job[c] \in {Absent, Added(Absent)}
    BY <1>5, JobsAssumption
  <2> QED  BY <1>2, <2>1
<1>10. batch \in {"running", "cancelling", "gone"} /\ faults \in 0..MaxFaults
  BY <1>1, <1>4, BudgetAssumption
<1>11. worker \in [Workers -> Call] /\ released \in [Jobs -> Nat]
  BY <1>3, <1>4
<1> QED  BY <1>4, <1>6, <1>7, <1>8, <1>9, <1>10, <1>11 DEF BullMQInv

(***************************************************************************)
(* Steps of a call that change nothing in Redis.                            *)
(***************************************************************************)

\* A call goes on with its job and its counters.
LEMMA CallMoves ==
    ASSUME BullMQInv, NEW w \in Workers, NEW s, Calling(w),
           worker' = [worker EXCEPT ![w] = s], UNCHANGED <<job, batch, released, reports>>,
           s.pc \notin {"idle", "stopped"}, s.job = worker[w].job, s.made = worker[w].made,
           s.started = worker[w].started, s.stalls = worker[w].stalls,
           returned \subseteq returned', returned' \subseteq Jobs, faults' \in 0..MaxFaults,
           CallFits(s, returned', batch),
           Owns(w) /\ s.pc = "limit" => released[s.job] = MaxReleases,
           Owns(w) /\ s.pc = "succeeded" /\ NextOf[s.job] # None => job[NextOf[s.job]].state # "absent"
    PROVE  BullMQInv'
<1>1. /\ worker' \in [Workers -> Call] /\ worker'[w] = s
      /\ \A v \in Workers \ {w} : worker'[v] = worker[v]
  BY DEF BullMQInv, CallFits
<1>2. \A v \in Workers : (Calling(v))' <=> Calling(v)
  BY <1>1 DEF Calling
<1>3. \A v \in Workers : worker'[v].job = worker[v].job
  BY <1>1
<1>4. \A j \in Jobs : JobFits(job[j], released[j])' /\ HolderCalls(j)'
  <2> SUFFICES ASSUME NEW j \in Jobs PROVE JobFits(job[j], released[j])' /\ HolderCalls(j)'
    OBVIOUS
  <2>1. JobFits(job[j], released[j])'
    BY DEF BullMQInv
  <2>2. job[j].holder \in Workers \cup {None} /\ HolderCalls(j)
    BY DEF BullMQInv, Job
  <2> QED  BY <1>2, <1>3, <2>1, <2>2 DEF HolderCalls
<1>5. \A v \in Workers : CallFits(worker[v], returned, batch)'
  BY <1>1 DEF BullMQInv, CallFits
<1>6. \A v \in Workers : CopyIsCurrent(v)'
  <2> SUFFICES ASSUME NEW v \in Workers PROVE CopyIsCurrent(v)'
    OBVIOUS
  <2>1. (Calling(v) /\ Owns(v))' <=> Calling(v) /\ Owns(v)
    BY <1>2, <1>3 DEF Owns
  <2>2. CopyIsCurrent(v)
    BY DEF BullMQInv
  <2>3. CASE v = w
    BY <1>1, <1>3, <2>1, <2>2, <2>3 DEF CopyIsCurrent
  <2>4. CASE v # w
    BY <1>1, <2>1, <2>2, <2>4 DEF CopyIsCurrent
  <2> QED  BY <2>3, <2>4
<1>7. ChainsHandOver' /\ CancelledWasAsked'
  BY DEF BullMQInv, ChainsHandOver, CancelledWasAsked
<1>8. \A r \in reports' : r[1] \in Up'
  <2> SUFFICES ASSUME NEW r \in reports PROVE r[1] \in Up'
    OBVIOUS
  <2>1. r[1] \in Workers /\ worker[r[1]].pc # "stopped"
    BY DEF BullMQInv, Up
  <2> QED  BY <1>1, <2>1 DEF Up
<1> QED  BY <1>1, <1>4, <1>5, <1>6, <1>7, <1>8 DEF BullMQInv

\* Goto keeps everything but the pc.
LEMMA GotoKeeps ==
    ASSUME BullMQInv, NEW w \in Workers, NEW pc \in Pcs, Goto(w, pc)
    PROVE  /\ worker' = [worker EXCEPT ![w] = [worker[w] EXCEPT !.pc = pc]]
           /\ worker[w] \in Call /\ [worker[w] EXCEPT !.pc = pc] \in Call
           /\ [worker[w] EXCEPT !.pc = pc].pc = pc
           /\ [worker[w] EXCEPT !.pc = pc].job = worker[w].job
           /\ [worker[w] EXCEPT !.pc = pc].made = worker[w].made
           /\ [worker[w] EXCEPT !.pc = pc].started = worker[w].started
           /\ [worker[w] EXCEPT !.pc = pc].stalls = worker[w].stalls
  BY DEF BullMQInv, Goto, Call

LEMMA GotoSteps ==
    ASSUME BullMQInv, NEW w \in Workers, NEW pc \in Pcs \ {"idle", "stopped", "limit"}, Goto(w, pc), Calling(w),
           UNCHANGED <<job, batch, released, reports>>,
           returned \subseteq returned', returned' \subseteq Jobs, faults' \in 0..MaxFaults,
           pc \in {"check", "confirm", "cancelled"} => worker[w].job \in Children,
           pc \in {"advance", "verify"} => worker[w].job \in returned' /\ NextOf[worker[w].job] # None,
           pc = "cancelled" => batch # "running",
           pc = "succeeded" /\ NextOf[worker[w].job] # None => job[NextOf[worker[w].job]].state # "absent"
    PROVE  BullMQInv'
<1> DEFINE s == [worker[w] EXCEPT !.pc = pc]
<1>1. /\ worker' = [worker EXCEPT ![w] = s] /\ s \in Call /\ s.pc = pc /\ s.job = worker[w].job
      /\ s.made = worker[w].made /\ s.started = worker[w].started /\ s.stalls = worker[w].stalls
  BY GotoKeeps
<1>2. worker[w].job \in Jobs
  BY DEF BullMQInv, CallFits, Calling
<1> HIDE DEF s
<1>3. CallFits(s, returned', batch)
  BY <1>1, <1>2 DEF CallFits
<1> QED  BY <1>1, <1>3, CallMoves

LEMMA CallSteps ==
    ASSUME BullMQInv, NEW w \in Workers,
           \/ CheckBatch(w) \/ HandlerReturns(w) \/ HandlerThrows(w) \/ HandlerObservesCancellation(w)
           \/ ConfirmCancellation(w) \/ AdvanceVerifies(w) \/ CallFails(w)
    PROVE  BullMQInv'
<1> DEFINE j == worker[w].job
<1>1. /\ CallFits(worker[w], returned, batch) /\ returned \subseteq Jobs /\ faults \in 0..MaxFaults
      /\ batch \in {"running", "cancelling", "gone"}
  BY DEF BullMQInv
<1>2. Calling(w) => j \in Jobs
  BY <1>1 DEF CallFits, Calling
<1>3. CASE CheckBatch(w)
  <2>1. PICK pc \in {"unrecoverable", "cancelled", "run"} :
          Goto(w, pc) /\ (pc = "cancelled" => batch = "cancelling")
    BY <1>1, <1>3 DEF CheckBatch
  <2>2. Calling(w) /\ j \in Children
    BY <1>1, <1>3 DEF CheckBatch, Calling, CallFits
  <2> QED  BY <1>1, <1>3, <2>1, <2>2, GotoSteps DEF CheckBatch, Pcs
<1>4. CASE HandlerReturns(w)
  <2>1. Calling(w) /\ Goto(w, AfterRun(j)) /\ returned' = returned \cup {i \in {j} : NextOf[i] # None}
        /\ UNCHANGED <<job, batch, released, reports, faults>>
    BY <1>4 DEF HandlerReturns, Calling
  <2>2. CASE NextOf[j] = None
    <3>1. Goto(w, "succeeded")
      BY <2>1, <2>2 DEF AfterRun
    <3> QED  BY <1>1, <1>2, <2>1, <2>2, <3>1, GotoSteps DEF Pcs
  <2>3. CASE NextOf[j] # None
    <3>1. Goto(w, "advance") /\ j \in returned'
      BY <2>1, <2>3 DEF AfterRun
    <3> QED  BY <1>1, <1>2, <2>1, <2>3, <3>1, GotoSteps DEF Pcs
  <2> QED  BY <2>2, <2>3
<1>5. CASE HandlerThrows(w)
  <2>1. PICK pc \in {"error", "unrecoverable", "release"} : Goto(w, pc)
    BY <1>5 DEF HandlerThrows
  <2> QED  BY <1>1, <1>5, <2>1, GotoSteps DEF HandlerThrows, Calling, Pcs
<1>6. CASE HandlerObservesCancellation(w)
  BY <1>1, <1>6, GotoSteps DEF HandlerObservesCancellation, Calling, Pcs
<1>7. CASE ConfirmCancellation(w)
  <2>1. PICK pc \in {"cancelled", "error"} : Goto(w, pc) /\ (pc = "cancelled" => batch = "cancelling")
    BY <1>7 DEF ConfirmCancellation
  <2>2. Calling(w) /\ j \in Children
    BY <1>1, <1>7 DEF ConfirmCancellation, Calling, CallFits
  <2> QED  BY <1>1, <1>7, <2>1, <2>2, GotoSteps DEF ConfirmCancellation, Pcs
<1>8. CASE AdvanceVerifies(w)
  <2>1. PICK pc \in {"succeeded", "unrecoverable"} :
          Goto(w, pc) /\ (pc = "succeeded" => job[NextOf[j]].state # "absent")
    BY <1>8 DEF AdvanceVerifies, Persisted
  <2> QED  BY <1>1, <1>8, <2>1, GotoSteps DEF AdvanceVerifies, Calling, Pcs
<1>9. CASE CallFails(w)
  <2>1. faults' \in 0..MaxFaults
    BY <1>1, <1>9, BudgetAssumption DEF CallFails, Fault
  <2> QED  BY <1>1, <1>9, <2>1, GotoSteps DEF CallFails, Calling, Pcs
<1> QED  BY <1>3, <1>4, <1>5, <1>6, <1>7, <1>8, <1>9

\* The releases a current copy counts are those that were made.
LEMMA ReleasesAreCounted ==
    ASSUME BullMQInv, NEW w \in Workers, Calling(w), Owns(w)
    PROVE  /\ worker[w].job \in Jobs
           /\ Releases(worker[w]) = released[worker[w].job]
           /\ released[worker[w].job] \in Nat /\ released[worker[w].job] <= MaxReleases
<1> DEFINE j == worker[w].job
<1>1. j \in Jobs /\ CopyIsCurrent(w)
  BY DEF BullMQInv, CallFits, Calling
<1>2. JobFits(job[j], released[j]) /\ job[j].state = "active"
  BY <1>1 DEF BullMQInv, Owns
<1>3. /\ worker[w].made = job[j].made /\ worker[w].started = job[j].started /\ worker[w].stalls = job[j].stalls
  BY <1>1 DEF CopyIsCurrent
<1>4. /\ job[j].made \in Nat /\ job[j].started \in Nat /\ job[j].stalls \in Nat /\ released[j] \in Nat
      /\ job[j].started = job[j].made + job[j].stalls + released[j] + 1 /\ released[j] <= MaxReleases
  BY <1>2 DEF JobFits, CountersAddUp, Job
<1> HIDE DEF j
<1>5. Releases(worker[w]) = released[j]
  BY <1>3, <1>4 DEF Releases
<1> QED  BY <1>1, <1>4, <1>5 DEF j

LEMMA RefusalSteps ==
    ASSUME BullMQInv, NEW w \in Workers, ReleaseRefused(w)
    PROVE  BullMQInv'
<1>1. Calling(w) /\ Goto(w, "limit") /\ Releases(worker[w]) >= MaxReleases
      /\ UNCHANGED <<job, batch, released, returned, reports, faults>>
  BY DEF ReleaseRefused, ReleaseExhausted, Calling
<1>2. Owns(w) => released[worker[w].job] = MaxReleases
  BY <1>1, ReleasesAreCounted, BudgetAssumption
<1> DEFINE s == [worker[w] EXCEPT !.pc = "limit"]
<1>3. /\ worker' = [worker EXCEPT ![w] = s] /\ s \in Call /\ s.pc = "limit" /\ s.job = worker[w].job
      /\ s.made = worker[w].made /\ s.started = worker[w].started /\ s.stalls = worker[w].stalls
  BY <1>1, GotoKeeps DEF Pcs
<1>4. worker[w].job \in Jobs /\ returned \subseteq Jobs /\ faults \in 0..MaxFaults
  BY <1>1 DEF BullMQInv, CallFits, Calling
<1> HIDE DEF s
<1>5. CallFits(s, returned', batch)
  BY <1>3, <1>4 DEF CallFits
<1> QED  BY <1>1, <1>2, <1>3, <1>4, <1>5, CallMoves

(***************************************************************************)
(* Steps that change one job.                                               *)
(***************************************************************************)

\* A call that goes on with another job than j, to where nothing is asked of its copy.
PassesBy(v, j) ==
    /\ Calling(v) /\ (Calling(v))' /\ worker'[v].pc \notin {"limit", "succeeded"}
    /\ worker'[v].job = worker[v].job /\ worker[v].job # j /\ CallFits(worker'[v], returned, batch)
    /\ worker'[v].made = worker[v].made /\ worker'[v].started = worker[v].started
    /\ worker'[v].stalls = worker[v].stalls

\* A job that is left without a holder; the call that held it ends with it.
LEMMA JobMoves ==
    ASSUME BullMQInv, NEW j \in Jobs, NEW r, NEW n, JobFits(r, n),
           job' = [job EXCEPT ![j] = r], released' = [released EXCEPT ![j] = n],
           worker' \in [Workers -> Call],
           r.holder = None,
           \A v \in Workers : \/ worker'[v] = worker[v]
                              \/ ~(Calling(v))' /\ (worker'[v].pc = "stopped" => worker[v].pc = "stopped")
                                 /\ (Calling(v) /\ Owns(v) => worker[v].job = j)
                              \/ PassesBy(v, j),
           UNCHANGED <<batch, returned>>, faults' \in 0..MaxFaults,
           reports' \subseteq Workers \X Jobs, \A e \in reports' : e[1] \in Up',
           r.state # "absent" \/ job[j].state = "absent",
           r.state # "absent" => \A i \in Jobs : NextOf[i] = j => i \in returned,
           r.state = "completed" /\ NextOf[j] # None => job[NextOf[j]].state # "absent",
           j \in Children /\ r.state = "completed" /\ r.cancelled => batch # "running"
    PROVE  BullMQInv'
<1>1. /\ r \in Job /\ n \in Nat /\ job' \in [Jobs -> Job] /\ released' \in [Jobs -> Nat]
      /\ job'[j] = r /\ released'[j] = n
      /\ \A i \in Jobs \ {j} : job'[i] = job[i] /\ released'[i] = released[i]
  BY DEF BullMQInv, JobFits
<1>2. ASSUME NEW i \in Jobs PROVE JobFits(job[i], released[i])' /\ HolderCalls(i)'
  <2>1. CASE i = j
    BY <1>1, <2>1 DEF HolderCalls
  <2>2. CASE i # j
    <3>1. job'[i] = job[i] /\ JobFits(job[i], released[i]) /\ HolderCalls(i)
      BY <1>1, <2>2 DEF BullMQInv
    <3>2. JobFits(job[i], released[i])'
      BY <1>1, <2>2, <3>1
    <3>3. ASSUME job[i].holder # None
          PROVE  (Calling(job[i].holder))' /\ worker'[job[i].holder].job = i
      <4>1. job[i].holder \in Workers /\ Calling(job[i].holder) /\ worker[job[i].holder].job = i
        BY <3>1, <3>3 DEF HolderCalls, JobFits, Job
      <4>2. Owns(job[i].holder)
        BY <3>1, <3>3, <4>1 DEF Owns, JobFits
      <4> QED  BY <2>2, <4>1, <4>2 DEF PassesBy, Calling
    <3> QED  BY <3>1, <3>2, <3>3 DEF HolderCalls
  <2> QED  BY <2>1, <2>2
<1>3. ASSUME NEW v \in Workers PROVE CallFits(worker[v], returned, batch)' /\ CopyIsCurrent(v)'
  <2>1. CallFits(worker[v], returned, batch) /\ CopyIsCurrent(v) /\ worker'[v] \in Call
    BY DEF BullMQInv
  <2>2. CASE ~(Calling(v))'
    BY <2>1, <2>2 DEF CallFits, CopyIsCurrent, Calling
  <2>3. CASE worker'[v] = worker[v] \/ PassesBy(v, j)
    <3> DEFINE i == worker[v].job
    <3>0. /\ worker'[v].job = i /\ worker'[v].made = worker[v].made /\ worker'[v].started = worker[v].started
          /\ worker'[v].stalls = worker[v].stalls /\ CallFits(worker'[v], returned, batch)
          /\ worker'[v].pc \in {"limit", "succeeded"} => worker'[v].pc = worker[v].pc
          /\ Calling(v) <=> (Calling(v))'
      BY <2>1, <2>3 DEF PassesBy, Calling
    <3> SUFFICES ASSUME (Calling(v) /\ Owns(v))' PROVE CopyIsCurrent(v)'
      BY <3>0 DEF CopyIsCurrent
    <3>1. Calling(v) /\ i \in Jobs /\ job'[i].state = "active" /\ job'[i].holder = v
      BY <2>1, <3>0 DEF Calling, CallFits, Owns
    <3>2. v # None
      BY JobsAssumption
    <3>3. i # j
      BY <1>1, <3>1, <3>2
    <3>4. job'[i] = job[i] /\ released'[i] = released[i] /\ Owns(v)
      BY <1>1, <3>1, <3>3 DEF Owns
    <3>5. NextOf[i] # None /\ job[NextOf[i]].state # "absent" => job'[NextOf[i]].state # "absent"
      BY <1>1, JobsAssumption, <3>1
    <3> QED  BY <2>1, <3>0, <3>1, <3>4, <3>5 DEF CopyIsCurrent
  <2> QED  BY <2>2, <2>3
<1>4. ChainsHandOver'
  <2> SUFFICES ASSUME NEW i \in Jobs, NextOf[i] # None
               PROVE  /\ job'[NextOf[i]].state # "absent" => i \in returned
                      /\ job'[i].state = "completed" => job'[NextOf[i]].state # "absent"
    BY DEF ChainsHandOver
  <2>1. NextOf[i] \in Jobs /\ NextOf[i] # i
    BY JobsAssumption
  <2>2. /\ job[NextOf[i]].state # "absent" => i \in returned
        /\ job[i].state = "completed" => job[NextOf[i]].state # "absent"
    BY DEF BullMQInv, ChainsHandOver
  <2>3. job[NextOf[i]].state # "absent" => job'[NextOf[i]].state # "absent"
    BY <1>1, <2>1
  <2>4. job'[NextOf[i]].state # "absent" => i \in returned
    BY <1>1, <2>1, <2>2
  <2>5. job'[i].state = "completed" => job[NextOf[i]].state # "absent"
    BY <1>1, <2>1, <2>2
  <2> QED  BY <2>3, <2>4, <2>5
<1>5. CancelledWasAsked'
  BY <1>1, JobsAssumption DEF BullMQInv, CancelledWasAsked
<1> QED  BY <1>1, <1>2, <1>3, <1>4, <1>5 DEF BullMQInv

\* A call that ends, or one that is over, while Redis keeps the jobs.
LEMMA CallEnds ==
    ASSUME BullMQInv, NEW w \in Workers, NEW s \in Call, Calling(w) => ~Owns(w),
           worker' = [worker EXCEPT ![w] = s], s.pc \in {"idle", "stopped"},
           UNCHANGED <<job, batch, released, returned>>, faults' \in 0..MaxFaults,
           reports' \subseteq reports,
           s.pc = "stopped" => \A e \in reports' : e[1] # w
    PROVE  BullMQInv'
<1>1. /\ worker' \in [Workers -> Call] /\ worker'[w] = s /\ ~(Calling(w))'
      /\ \A v \in Workers \ {w} : worker'[v] = worker[v]
  BY DEF BullMQInv, Calling
<1>2. ASSUME NEW i \in Jobs PROVE JobFits(job[i], released[i])' /\ HolderCalls(i)'
  <2>1. JobFits(job[i], released[i]) /\ HolderCalls(i)
    BY DEF BullMQInv
  <2>2. ASSUME job[i].holder # None PROVE job[i].holder \in Workers \ {w}
    BY <2>1, <2>2 DEF HolderCalls, JobFits, Job, Owns
  <2> QED  BY <1>1, <2>1, <2>2 DEF HolderCalls, Calling
<1>3. ASSUME NEW v \in Workers PROVE CallFits(worker[v], returned, batch)' /\ CopyIsCurrent(v)'
  <2>1. CallFits(worker[v], returned, batch) /\ CopyIsCurrent(v)
    BY DEF BullMQInv
  <2>2. CASE v = w
    BY <1>1, <2>2 DEF CallFits, CopyIsCurrent, Calling
  <2>3. CASE v # w
    BY <1>1, <2>1, <2>3 DEF CopyIsCurrent, Calling, Owns
  <2> QED  BY <2>2, <2>3
<1>4. ChainsHandOver' /\ CancelledWasAsked'
  BY DEF BullMQInv, ChainsHandOver, CancelledWasAsked
<1>5. reports' \subseteq Workers \X Jobs /\ \A e \in reports' : e[1] \in Up'
  <2> SUFFICES ASSUME NEW e \in reports' PROVE e \in Workers \X Jobs /\ e[1] \in Up'
    OBVIOUS
  <2>1. e \in Workers \X Jobs /\ e[1] \in Workers /\ worker[e[1]].pc # "stopped"
    BY DEF BullMQInv, Up
  <2> QED  BY <1>1, <2>1 DEF Up
<1> QED  BY <1>1, <1>2, <1>3, <1>4, <1>5 DEF BullMQInv

LEMMA FreeFits ==
    ASSUME BullMQInv, NEW w \in Workers
    PROVE  Free(w) \in Call /\ Free(w).pc = "idle"
<1>1. worker[w].closing \in BOOLEAN
  BY DEF BullMQInv, Call
<1> QED  BY <1>1 DEF Free, Idle, Call, Pcs

LEMMA FaultCounts ==
    ASSUME BullMQInv, faults' = faults \/ Fault
    PROVE  faults' \in 0..MaxFaults
  BY BudgetAssumption DEF BullMQInv, Fault

\* What is known of a job of a call, or of any that is there.
LEMMA JobFacts ==
    ASSUME BullMQInv, NEW j \in Jobs
    PROVE  /\ job[j] \in Job /\ JobFits(job[j], released[j]) /\ released[j] \in Nat
           /\ job[j].made \in Nat /\ job[j].started \in Nat /\ job[j].stalls \in Nat
           /\ job[j].overLimit \in BOOLEAN /\ job[j].cancelled \in BOOLEAN
           /\ job[j].state \in States /\ job[j].holder \in Workers \cup {None}
           /\ job[j].state # "absent" => \A i \in Jobs : NextOf[i] = j => i \in returned
           /\ job[j].state = "completed" /\ NextOf[j] # None => job[NextOf[j]].state # "absent"
           /\ j \in Children /\ job[j].state = "completed" /\ job[j].cancelled => batch # "running"
<1>1. job[j] \in Job /\ JobFits(job[j], released[j]) /\ released[j] \in Nat
  BY DEF BullMQInv
<1>2. job[j].state # "absent" => \A i \in Jobs : NextOf[i] = j => i \in returned
  BY JobsAssumption DEF BullMQInv, ChainsHandOver
<1>3. job[j].state = "completed" /\ NextOf[j] # None => job[NextOf[j]].state # "absent"
  BY DEF BullMQInv, ChainsHandOver
<1>4. j \in Children /\ job[j].state = "completed" /\ job[j].cancelled => batch # "running"
  BY DEF BullMQInv, CancelledWasAsked
<1> QED  BY <1>1, <1>2, <1>3, <1>4 DEF Job

LEMMA UpStays ==
    ASSUME BullMQInv, NEW w \in Workers, NEW s, worker' = [worker EXCEPT ![w] = s], s.pc # "stopped"
    PROVE  w \in Up' /\ \A e \in reports : e[1] \in Up'
<1>1. /\ worker'[w] = s /\ \A v \in Workers \ {w} : worker'[v] = worker[v]
  BY DEF BullMQInv
<1>2. \A e \in reports : e[1] \in Workers /\ worker[e[1]].pc # "stopped"
  BY DEF BullMQInv, Up
<1> QED  BY <1>1, <1>2 DEF Up

\* A call ends, and with it what it does to the job it holds.
LEMMA HeldJobMoves ==
    ASSUME BullMQInv, NEW w \in Workers, Calling(w), Owns(w), NEW r, NEW n, NEW s \in Call,
           JobFits(r, n), r.holder = None, r.state # "absent",
           job' = [job EXCEPT ![worker[w].job] = r], released' = [released EXCEPT ![worker[w].job] = n],
           worker' = [worker EXCEPT ![w] = s], s.pc = "idle",
           UNCHANGED <<batch, returned>>, faults' \in 0..MaxFaults,
           reports' \subseteq reports \cup {<<w, worker[w].job>>},
           r.state = "completed" =>
              /\ worker[w].pc \in {"succeeded", "cancelled"}
              /\ r.cancelled <=> worker[w].pc = "cancelled"
    PROVE  BullMQInv'
<1> DEFINE j == worker[w].job
<1>1. CallFits(worker[w], returned, batch) /\ CopyIsCurrent(w) /\ j \in Jobs
  BY DEF BullMQInv, CallFits, Calling
<1>2. job[j].state # "absent"
  BY DEF Owns
<1>3. /\ worker' \in [Workers -> Call] /\ ~(Calling(w))' /\ worker'[w].pc = "idle"
      /\ \A v \in Workers : v # w => worker'[v] = worker[v]
  BY DEF BullMQInv, Calling
<1>4. reports' \subseteq Workers \X Jobs /\ \A e \in reports' : e[1] \in Up'
  <2>1. w \in Up' /\ \A e \in reports : e[1] \in Up'
    BY UpStays
  <2>2. reports \subseteq Workers \X Jobs /\ <<w, j>> \in Workers \X Jobs /\ <<w, j>>[1] = w
    BY <1>1 DEF BullMQInv
  <2> HIDE DEF j
  <2>3. reports' \subseteq reports \cup {<<w, j>>}
    BY DEF j
  <2> QED  BY <2>1, <2>2, <2>3
<1>5. r.state = "completed" /\ NextOf[j] # None => job[NextOf[j]].state # "absent"
  BY <1>1, JobsAssumption DEF CallFits, CopyIsCurrent
<1>6. j \in Children /\ r.state = "completed" /\ r.cancelled => batch # "running"
  BY <1>1 DEF CallFits
<1>7. \A i \in Jobs : NextOf[i] = j => i \in returned
  BY <1>1, <1>2, JobFacts
<1> HIDE DEF j
<1>8. \A v \in Workers : \/ worker'[v] = worker[v]
                         \/ ~(Calling(v))' /\ (worker'[v].pc = "stopped" => worker[v].pc = "stopped")
                            /\ (Calling(v) /\ Owns(v) => worker[v].job = j)
  BY <1>3 DEF j
<1>9. job' = [job EXCEPT ![j] = r] /\ released' = [released EXCEPT ![j] = n]
  BY DEF j
<1> QED  BY <1>1, <1>3, <1>4, <1>5, <1>6, <1>7, <1>8, <1>9, JobMoves

LEMMA ReleaseSteps ==
    ASSUME BullMQInv, NEW w \in Workers, Release(w)
    PROVE  BullMQInv'
<1> DEFINE j == worker[w].job
           r == [job[j] EXCEPT !.state = "delayed", !.holder = None]
<1>1. /\ Calling(w) /\ Free(w) \in Call /\ Free(w).pc = "idle" /\ worker' = [worker EXCEPT ![w] = Free(w)]
      /\ UNCHANGED <<batch, returned, reports, faults>> /\ j \in Jobs /\ faults' \in 0..MaxFaults
  BY FreeFits DEF Release, Calling, BullMQInv, CallFits
<1>2. CASE Owns(w)
  <2>1. /\ released[j] \in Nat /\ released[j] < MaxReleases /\ job[j].state = "active"
    BY <1>1, <1>2, ReleasesAreCounted, BudgetAssumption DEF Release, ReleaseExhausted, Owns
  <2>2. /\ job' = [job EXCEPT ![j] = r] /\ released' = [released EXCEPT ![j] = released[j] + 1]
    BY <1>2 DEF Release
  <2>0. job[j] \in Job /\ job[j].made \in Nat
    BY <1>1, JobFacts
  <2>3. /\ r \in Job /\ r.state = "delayed" /\ r.holder = None /\ r.made = job[j].made
        /\ r.started = job[j].started /\ r.stalls = job[j].stalls /\ r.overLimit = job[j].overLimit
    BY <2>0 DEF Job, States
  <2> HIDE DEF r
  <2>4. JobFits(r, released[j] + 1)
    BY <1>1, <2>1, <2>3, JobFacts, BudgetAssumption DEF JobFits, CountersAddUp
  <2> QED  BY <1>1, <1>2, <2>2, <2>3, <2>4, HeldJobMoves
<1>3. CASE ~Owns(w)
  BY <1>1, <1>3, CallEnds DEF Release
<1> QED  BY <1>2, <1>3

LEMMA CompleteSteps ==
    ASSUME BullMQInv, NEW w \in Workers, Complete(w)
    PROVE  BullMQInv'
<1>0. PICK cancelled \in BOOLEAN : cancelled = (worker[w].pc = "cancelled")
  OBVIOUS
<1> DEFINE j == worker[w].job
           r == [job[j] EXCEPT !.state = "completed", !.holder = None, !.made = job[j].made + 1,
                               !.cancelled = cancelled]
<1>1. /\ Calling(w) /\ Free(w) \in Call /\ Free(w).pc = "idle" /\ worker' = [worker EXCEPT ![w] = Free(w)]
      /\ UNCHANGED <<batch, released, returned, reports, faults>> /\ j \in Jobs /\ faults' \in 0..MaxFaults
      /\ worker[w].pc \in {"succeeded", "cancelled"}
  BY FreeFits DEF Complete, Calling, BullMQInv, CallFits
<1>2. CASE Owns(w)
  <2>1. job' = [job EXCEPT ![j] = r] /\ job[j].state = "active"
    BY <1>0, <1>2 DEF Complete, Owns
  <2>2. /\ r \in Job /\ r.state = "completed" /\ r.holder = None /\ r.made = job[j].made + 1
        /\ r.started = job[j].started /\ r.stalls = job[j].stalls /\ r.overLimit = job[j].overLimit
        /\ r.cancelled = cancelled
    <3>1. job[j] \in Job /\ job[j].made + 1 \in Nat /\ "completed" \in States
      BY <1>1, JobFacts DEF States
    <3>2. r \in Job
      BY <1>0, <3>1, Zenon DEF Job
    <3> QED  BY <3>1, <3>2 DEF Job
  <2>3. released' = [released EXCEPT ![j] = released[j]]
    BY <1>1 DEF BullMQInv
  <2> HIDE DEF r
  <2>4. JobFits(r, released[j])
    BY <1>1, <2>1, <2>2, JobFacts DEF JobFits, CountersAddUp
  <2>5. r.cancelled <=> worker[w].pc = "cancelled"
    BY <1>0, <2>2
  <2> QED  BY <1>1, <1>2, <2>5, <2>1, <2>2, <2>3, <2>4, HeldJobMoves
<1>3. CASE ~Owns(w)
  BY <1>1, <1>3, CallEnds DEF Complete
<1> QED  BY <1>2, <1>3

LEMMA FailSteps ==
    ASSUME BullMQInv, NEW w \in Workers, Fail(w)
    PROVE  BullMQInv'
<1>0. PICK limit \in BOOLEAN : limit = (worker[w].pc = "limit")
  OBVIOUS
<1> DEFINE j == worker[w].job
           end == Terminal(worker[w].pc, job[j].made + 1, TriesOf[j])
           r == [job[j] EXCEPT !.state = IF end THEN "failed" ELSE "delayed", !.holder = None,
                               !.made = job[j].made + 1, !.overLimit = limit]
<1>1. /\ Calling(w) /\ Free(w) \in Call /\ Free(w).pc = "idle" /\ worker' = [worker EXCEPT ![w] = Free(w)]
      /\ UNCHANGED <<batch, released, returned, faults>> /\ j \in Jobs /\ faults' \in 0..MaxFaults
  BY FreeFits DEF Fail, Calling, BullMQInv, CallFits
<1>2. CASE Owns(w)
  <2>1. job' = [job EXCEPT ![j] = r] /\ job[j].state = "active" /\ reports' \subseteq reports \cup {<<w, j>>}
    BY <1>0, <1>2 DEF Fail, Owns
  <2>2. /\ r \in Job /\ r.state \in {"failed", "delayed"} /\ r.holder = None /\ r.made = job[j].made + 1
        /\ r.started = job[j].started /\ r.stalls = job[j].stalls /\ r.overLimit = limit
    <3> DEFINE state == IF end THEN "failed" ELSE "delayed"
    <3>1. job[j] \in Job /\ job[j].made + 1 \in Nat /\ state \in {"failed", "delayed"} /\ state \in States
      BY <1>1, JobFacts DEF States
    <3> HIDE DEF state
    <3>2. [job[j] EXCEPT !.state = state, !.holder = None, !.made = job[j].made + 1, !.overLimit = limit] \in Job
      BY <1>0, <3>1, Zenon DEF Job
    <3>3. r = [job[j] EXCEPT !.state = state, !.holder = None, !.made = job[j].made + 1, !.overLimit = limit]
      BY DEF state
    <3> HIDE DEF r
    <3> QED  BY <3>1, <3>2, <3>3 DEF Job
  <2>3. released' = [released EXCEPT ![j] = released[j]]
    BY <1>1 DEF BullMQInv
  <2>4. limit => released[j] = MaxReleases
    BY <1>0, <1>1, <1>2 DEF BullMQInv, CopyIsCurrent
  <2> HIDE DEF r
  <2>5. JobFits(r, released[j])
    BY <1>1, <2>1, <2>2, <2>4, JobFacts DEF JobFits, CountersAddUp
  <2> QED  BY <1>1, <1>2, <2>1, <2>2, <2>3, <2>5, HeldJobMoves
<1>3. CASE ~Owns(w)
  BY <1>1, <1>3, CallEnds DEF Fail
<1> QED  BY <1>2, <1>3

LEMMA DyingSteps ==
    ASSUME BullMQInv, NEW w \in Workers, WorkerDies(w)
    PROVE  BullMQInv'
<1> DEFINE j == worker[w].job
           r == [job[j] EXCEPT !.holder = None]
<1>1. /\ Idle \in Call /\ Idle.pc = "idle" /\ worker' = [worker EXCEPT ![w] = Idle]
      /\ UNCHANGED <<batch, released, returned>> /\ reports' \subseteq reports /\ faults' \in 0..MaxFaults
  BY FaultCounts DEF WorkerDies, Idle, Call, Pcs
<1>2. Calling(w) \/ worker[w].pc = "idle"
  BY DEF WorkerDies, BullMQInv, Up, Calling
<1>3. CASE Calling(w) /\ Owns(w)
  <2>1. job' = [job EXCEPT ![j] = r] /\ job[j].state = "active" /\ j \in Jobs
    BY <1>3 DEF WorkerDies, Owns, Calling, BullMQInv, CallFits
  <2>2. /\ r \in Job /\ r.state = "active" /\ r.holder = None /\ r.made = job[j].made
        /\ r.started = job[j].started /\ r.stalls = job[j].stalls /\ r.overLimit = job[j].overLimit
    BY <2>1, JobFacts DEF Job
  <2>3. released' = [released EXCEPT ![j] = released[j]]
    BY <1>1 DEF BullMQInv
  <2> HIDE DEF r
  <2>4. JobFits(r, released[j])
    BY <2>1, <2>2, JobFacts DEF JobFits, CountersAddUp
  <2> QED  BY <1>1, <1>3, <2>1, <2>2, <2>3, <2>4, HeldJobMoves
<1>4. CASE ~(Calling(w) /\ Owns(w))
  <2>1. UNCHANGED job
    BY <1>2, <1>4 DEF WorkerDies, Calling
  <2> QED  BY <1>1, <1>4, <2>1, CallEnds
<1> QED  BY <1>3, <1>4

\* Workers that come and go, and the reports of the failed event.
LEMMA ProcessSteps ==
    ASSUME BullMQInv, NEW w \in Workers, Drain(w) \/ Restart(w) \/ Stop(w) \/ \E j \in Jobs : Report(w, j)
    PROVE  BullMQInv'
<1>1. Idle \in Call /\ Idle.pc = "idle" /\ faults \in 0..MaxFaults /\ worker[w] \in Call
  BY DEF Idle, Call, Pcs, BullMQInv
<1>2. CASE Drain(w)
  <2> DEFINE s == [Idle EXCEPT !.pc = "stopped"]
  <2>1. s \in Call /\ s.pc = "stopped"
    BY DEF Idle, Call, Pcs
  <2>2. \A e \in reports : e[1] # w
    <3> SUFFICES ASSUME NEW e \in reports, e[1] = w PROVE FALSE
      OBVIOUS
    <3>1. e \in Workers \X Jobs
      BY DEF BullMQInv
    <3>2. e = <<w, e[2]>> /\ e[2] \in Jobs
      BY <3>1
    <3> QED  BY <1>2, <3>2 DEF Drain, Drained
  <2>3. ~Calling(w) /\ worker' = [worker EXCEPT ![w] = s]
    BY <1>2 DEF Drain, Drained, Calling
  <2> HIDE DEF s
  <2> QED  BY <1>1, <1>2, <2>1, <2>2, <2>3, CallEnds DEF Drain
<1>3. CASE Restart(w)
  <2>1. ~Calling(w)
    BY <1>3 DEF Restart, Calling
  <2> QED  BY <1>1, <1>3, <2>1, CallEnds DEF Restart
<1>4. CASE Stop(w)
  <2> DEFINE s == [worker[w] EXCEPT !.closing = TRUE]
  <2>1. /\ s \in Call /\ s.pc = worker[w].pc /\ s.job = worker[w].job /\ s.made = worker[w].made
        /\ s.started = worker[w].started /\ s.stalls = worker[w].stalls
    BY <1>1 DEF Call
  <2>2. worker' = [worker EXCEPT ![w] = s] /\ s.pc # "stopped" /\ faults' \in 0..MaxFaults
        /\ UNCHANGED <<job, batch, released, returned, reports>>
    BY <1>4, <2>1, FaultCounts DEF Stop
  <2> HIDE DEF s
  <2>3. CASE Calling(w)
    <3>1. CallFits(worker[w], returned, batch) /\ CopyIsCurrent(w) /\ returned \subseteq Jobs
      BY DEF BullMQInv
    <3>2. CallFits(s, returned', batch)
      BY <2>1, <2>2, <3>1 DEF CallFits
    <3> QED  BY <2>1, <2>2, <2>3, <3>1, <3>2, CallMoves DEF CopyIsCurrent, Calling
  <2>4. CASE ~Calling(w)
    BY <2>1, <2>2, <2>4, CallEnds DEF Calling
  <2> QED  BY <2>3, <2>4
<1>5. ASSUME NEW j \in Jobs, Report(w, j) PROVE BullMQInv'
  <2>1. reports' \subseteq reports /\ UNCHANGED <<job, batch, worker, released, returned, faults>>
    BY <1>5 DEF Report
  <2> QED  BY <2>1 DEF BullMQInv, HolderCalls, CopyIsCurrent, Calling, Owns, Up, ChainsHandOver, CancelledWasAsked
<1> QED  BY <1>2, <1>3, <1>4, <1>5

(***************************************************************************)
(* BullMQ and the processes around the workers.                             *)
(***************************************************************************)

\* A job that no call ends.
LEMMA FreeJobMoves ==
    ASSUME BullMQInv, NEW j \in Jobs, NEW r, JobFits(r, released[j]), r.holder = None,
           job' = [job EXCEPT ![j] = r], faults' \in 0..MaxFaults,
           UNCHANGED <<batch, worker, released, returned, reports>>,
           job[j].state # "absent", r.state \notin {"absent", "completed"}
    PROVE  BullMQInv'
<1>1. /\ released' = [released EXCEPT ![j] = released[j]] /\ worker' \in [Workers -> Call]
      /\ reports' \subseteq Workers \X Jobs /\ \A e \in reports' : e[1] \in Up'
  BY DEF BullMQInv, Up
<1>2. \A i \in Jobs : NextOf[i] = j => i \in returned
  BY JobFacts
<1> QED  BY <1>1, <1>2, JobMoves

LEMMA QueueSteps ==
    ASSUME BullMQInv, NEW j \in Jobs, DelayPasses(j) \/ OrphanStalls(j) \/ LockLost(j) \/ DeadLetterRetry(j)
    PROVE  BullMQInv'
<1>1. /\ job[j] \in Job /\ job[j].stalls + 1 \in Nat /\ "waiting" \in States /\ faults \in 0..MaxFaults
      /\ JobFits(job[j], released[j])
  BY JobFacts DEF States, BullMQInv
<1>2. CASE DelayPasses(j)
  <2> DEFINE r == [job[j] EXCEPT !.state = "waiting"]
  <2>1. /\ r \in Job /\ r.state = "waiting" /\ r.holder = job[j].holder /\ r.made = job[j].made
        /\ r.started = job[j].started /\ r.stalls = job[j].stalls /\ r.overLimit = job[j].overLimit
    BY <1>1 DEF Job
  <2>2. job' = [job EXCEPT ![j] = r] /\ job[j].state = "delayed"
    BY <1>2 DEF DelayPasses
  <2> HIDE DEF r
  <2>3. JobFits(r, released[j]) /\ r.holder = None
    BY <1>1, <2>1, <2>2 DEF JobFits, CountersAddUp
  <2> QED  BY <1>1, <1>2, <2>1, <2>2, <2>3, FreeJobMoves DEF DelayPasses
<1>3. CASE OrphanStalls(j) \/ LockLost(j)
  <2> DEFINE r == [job[j] EXCEPT !.state = "waiting", !.holder = None, !.stalls = job[j].stalls + 1]
  <2>1. /\ r \in Job /\ r.state = "waiting" /\ r.holder = None /\ r.made = job[j].made
        /\ r.started = job[j].started /\ r.stalls = job[j].stalls + 1 /\ r.overLimit = job[j].overLimit
    BY <1>1 DEF Job
  <2>2. job' = [job EXCEPT ![j] = r] /\ job[j].state = "active"
    BY <1>3 DEF OrphanStalls, LockLost, Stalled
  <2> HIDE DEF r
  <2>3. JobFits(r, released[j])
    BY <1>1, <2>1, <2>2, JobFacts DEF JobFits, CountersAddUp
  <2>4. UNCHANGED <<batch, worker, released, returned, reports>> /\ faults' \in 0..MaxFaults
    BY <1>1, <1>3, FaultCounts DEF OrphanStalls, LockLost
  <2> QED  BY <2>1, <2>2, <2>3, <2>4, FreeJobMoves
<1>4. CASE DeadLetterRetry(j)
  <2> DEFINE r == [job[j] EXCEPT !.state = "waiting", !.overLimit = FALSE]
  <2>1. /\ r \in Job /\ r.state = "waiting" /\ r.holder = job[j].holder /\ r.made = job[j].made
        /\ r.started = job[j].started /\ r.stalls = job[j].stalls /\ r.overLimit = FALSE
    <3>1. r \in Job
      BY <1>1, Zenon DEF Job
    <3> QED  BY <1>1, <3>1 DEF Job
  <2>2. job' = [job EXCEPT ![j] = r] /\ job[j].state = "failed"
    BY <1>4 DEF DeadLetterRetry, Retryable
  <2> HIDE DEF r
  <2>3. JobFits(r, released[j]) /\ r.holder = None
    BY <1>1, <2>1, <2>2 DEF JobFits, CountersAddUp
  <2>4. UNCHANGED <<batch, worker, released, returned, reports>> /\ faults' \in 0..MaxFaults
    BY <1>1, <1>4, FaultCounts DEF DeadLetterRetry
  <2> QED  BY <2>1, <2>2, <2>3, <2>4, FreeJobMoves
<1> QED  BY <1>2, <1>3, <1>4

LEMMA AdvanceSteps ==
    ASSUME BullMQInv, NEW w \in Workers, AdvanceAdds(w)
    PROVE  BullMQInv'
<1> DEFINE i == worker[w].job
           j == NextOf[i]
<1>1. /\ Calling(w) /\ i \in returned /\ i \in Jobs /\ j # None /\ j \in Jobs /\ i # j
      /\ Goto(w, "verify") /\ UNCHANGED <<batch, released, returned, reports, faults>>
      /\ job' = [job EXCEPT ![j] = Added(job[j])]
  BY JobsAssumption DEF AdvanceAdds, Calling, BullMQInv, CallFits
<1>2. faults' \in 0..MaxFaults /\ returned \subseteq Jobs
  BY <1>1 DEF BullMQInv
<1>3. CASE job[j].state # "absent"
  <2>1. UNCHANGED job
    BY <1>1, <1>3 DEF Added, BullMQInv
  <2> QED  BY <1>1, <1>2, <2>1, GotoSteps DEF Pcs
<1>4. CASE job[j].state = "absent"
  <2> DEFINE r == Added(Absent)
             s == [worker[w] EXCEPT !.pc = "verify"]
  <2>1. Added(job[j]) = r /\ r.state = "waiting" /\ r.holder = None /\ JobFits(r, 0)
    BY <1>4, AddedFits DEF Added
  <2>2. released[j] = 0
    BY <1>1, <1>4, JobFacts DEF JobFits
  <2>3. /\ worker' = [worker EXCEPT ![w] = s] /\ s \in Call /\ s.pc = "verify" /\ s.job = i
        /\ s.made = worker[w].made /\ s.started = worker[w].started /\ s.stalls = worker[w].stalls
    BY <1>1, GotoKeeps DEF Pcs
  <2> HIDE DEF r, s
  <2>4. /\ worker' \in [Workers -> Call] /\ worker'[w] = s
        /\ \A v \in Workers : v # w => worker'[v] = worker[v]
    BY <2>3 DEF BullMQInv
  <2>5. PassesBy(w, j)
    BY <1>1, <2>3, <2>4 DEF PassesBy, Calling, CallFits
  <2>6. \A v \in Workers : worker'[v] = worker[v] \/ PassesBy(v, j)
    BY <2>4, <2>5
  <2>7. reports' \subseteq Workers \X Jobs /\ \A e \in reports' : e[1] \in Up'
    BY <1>1, <2>3, UpStays DEF BullMQInv
  <2>8. \A k \in Jobs : NextOf[k] = j => k \in returned
    BY <1>1, JobsAssumption
  <2>9. job' = [job EXCEPT ![j] = r] /\ released' = [released EXCEPT ![j] = 0]
    BY <1>1, <2>1, <2>2 DEF BullMQInv
  <2> HIDE DEF i, j
  <2> QED  BY <1>1, <1>2, <1>4, <2>1, <2>4, <2>6, <2>7, <2>8, <2>9, JobMoves
<1> QED  BY <1>3, <1>4

LEMMA TakeSteps ==
    ASSUME BullMQInv, NEW w \in Workers, NEW j \in Jobs, Take(w, j)
    PROVE  BullMQInv'
<1> DEFINE r == [job[j] EXCEPT !.state = "active", !.holder = w, !.started = job[j].started + 1]
           pc == IF job[j].stalls > MaxStalls THEN "unrecoverable" ELSE Entry(j)
           s == [pc |-> pc, job |-> j, made |-> job[j].made, started |-> job[j].started + 1,
                 stalls |-> job[j].stalls, closing |-> FALSE]
<1>1. /\ job[j] \in Job /\ job[j].started + 1 \in Nat /\ "active" \in States
      /\ JobFits(job[j], released[j]) /\ job[j].state = "waiting" /\ ~Calling(w) /\ w # None
      /\ job[j].made \in Nat /\ job[j].stalls \in Nat
  BY JobFacts, JobsAssumption DEF States, Take, Calling
<1>2. /\ r \in Job /\ r.state = "active" /\ r.holder = w /\ r.made = job[j].made
      /\ r.started = job[j].started + 1 /\ r.stalls = job[j].stalls /\ r.overLimit = job[j].overLimit
  BY <1>1 DEF Job
<1>3. pc \in {"unrecoverable", "check", "run"} /\ (pc = "check" => j \in Children)
  BY DEF Entry
<1>4. job' = [job EXCEPT ![j] = r] /\ worker' = [worker EXCEPT ![w] = s]
      /\ UNCHANGED <<batch, released, returned, reports, faults>>
  BY DEF Take
<1> HIDE DEF r, pc
<1>5. /\ s \in Call /\ s.pc = pc /\ s.job = j /\ s.made = job[j].made /\ s.started = job[j].started + 1
      /\ s.stalls = job[j].stalls
  BY <1>1, <1>3, Zenon DEF Call, Pcs
<1> HIDE DEF s
<1>6. /\ job' \in [Jobs -> Job] /\ job'[j] = r /\ \A i \in Jobs : i # j => job'[i] = job[i]
      /\ worker' \in [Workers -> Call] /\ worker'[w] = s /\ \A v \in Workers : v # w => worker'[v] = worker[v]
  BY <1>2, <1>4, <1>5 DEF BullMQInv
<1>7. JobFits(r, released[j])
  BY <1>1, <1>2 DEF JobFits, CountersAddUp
<1>8. ASSUME NEW i \in Jobs PROVE JobFits(job[i], released[i])' /\ HolderCalls(i)'
  <2>1. CASE i = j
    BY <1>2, <1>3, <1>4, <1>5, <1>6, <1>7, <2>1 DEF HolderCalls, Calling
  <2>2. CASE i # j
    <3>1. job'[i] = job[i] /\ JobFits(job[i], released[i]) /\ HolderCalls(i)
      BY <1>6, <2>2 DEF BullMQInv
    <3>2. job[i].holder # None => job[i].holder \in Workers \ {w}
      BY <1>1, <3>1 DEF HolderCalls, JobFits, Job
    <3> QED  BY <1>4, <1>6, <3>1, <3>2 DEF HolderCalls, Calling
  <2> QED  BY <2>1, <2>2
<1>9. ASSUME NEW v \in Workers PROVE CallFits(worker[v], returned, batch)' /\ CopyIsCurrent(v)'
  <2>1. CallFits(worker[v], returned, batch) /\ CopyIsCurrent(v)
    BY DEF BullMQInv
  <2>2. CASE v = w
    BY <1>2, <1>3, <1>4, <1>5, <1>6, <2>2 DEF CallFits, CopyIsCurrent
  <2>3. CASE v # w
    <3>1. worker'[v] = worker[v] /\ CallFits(worker[v], returned, batch)'
      BY <1>4, <1>6, <2>1, <2>3
    <3> SUFFICES ASSUME (Calling(v) /\ Owns(v))' PROVE CopyIsCurrent(v)'
      BY <3>1 DEF CopyIsCurrent
    <3> DEFINE i == worker[v].job
    <3>2. Calling(v) /\ i \in Jobs /\ job'[i].state = "active" /\ job'[i].holder = v
      BY <2>1, <3>1 DEF Calling, CallFits, Owns
    <3>3. i # j
      BY <1>2, <1>6, <2>3, <3>2
    <3>4. job'[i] = job[i] /\ Owns(v)
      BY <1>6, <3>1, <3>2, <3>3 DEF Owns
    <3>5. NextOf[i] # None /\ job[NextOf[i]].state # "absent" => job'[NextOf[i]].state # "absent"
      BY <1>2, <1>6, <3>2, JobsAssumption
    <3> QED  BY <1>4, <2>1, <3>1, <3>2, <3>4, <3>5 DEF CopyIsCurrent
  <2> QED  BY <2>2, <2>3
<1>10. ChainsHandOver'
  <2> SUFFICES ASSUME NEW i \in Jobs, NextOf[i] # None
               PROVE  /\ job'[NextOf[i]].state # "absent" => i \in returned
                      /\ job'[i].state = "completed" => job'[NextOf[i]].state # "absent"
    BY <1>4 DEF ChainsHandOver
  <2>1. NextOf[i] \in Jobs
    BY JobsAssumption
  <2>2. /\ job[NextOf[i]].state # "absent" => i \in returned
        /\ job[i].state = "completed" => job[NextOf[i]].state # "absent"
    BY DEF BullMQInv, ChainsHandOver
  <2>3. /\ job[NextOf[i]].state # "absent" <=> job'[NextOf[i]].state # "absent"
        /\ job'[i].state = "completed" => job[i].state = "completed"
    BY <1>1, <1>2, <1>6, <2>1
  <2> QED  BY <2>2, <2>3
<1>11. CancelledWasAsked'
  BY <1>2, <1>4, <1>6, JobsAssumption DEF BullMQInv, CancelledWasAsked
<1>12. \A e \in reports' : e[1] \in Up'
  BY <1>3, <1>4, <1>5, UpStays
<1> QED  BY <1>4, <1>6, <1>8, <1>9, <1>10, <1>11, <1>12 DEF BullMQInv

LEMMA BatchSteps ==
    ASSUME BullMQInv, CancelBatch \/ Clear
    PROVE  BullMQInv'
<1>1. CASE CancelBatch
  BY <1>1 DEF CancelBatch, BullMQInv, HolderCalls, CopyIsCurrent, CallFits, Calling, Owns, Up, ChainsHandOver,
              CancelledWasAsked
<1>2. CASE Clear
  <2>1. /\ job' = [j \in Jobs |-> Absent] /\ released' = [j \in Jobs |-> 0] /\ batch' = "gone"
        /\ UNCHANGED <<worker, returned, reports>> /\ faults' \in 0..MaxFaults
    BY <1>2, FaultCounts DEF Clear
  <2>2. /\ Absent \in Job /\ Absent.state = "absent" /\ Absent.holder = None /\ JobFits(Absent, 0)
    BY AddedFits
  <2>3. \A j \in Jobs : job'[j] = Absent /\ released'[j] = 0
    BY <2>1
  <2>4. \A j \in Jobs : JobFits(job[j], released[j])' /\ HolderCalls(j)'
    BY <2>2, <2>3 DEF HolderCalls
  <2>5. ASSUME NEW w \in Workers PROVE CallFits(worker[w], returned, batch)' /\ CopyIsCurrent(w)'
    <3>1. CallFits(worker[w], returned, batch)
      BY DEF BullMQInv
    <3>2. CallFits(worker[w], returned, batch)'
      BY <2>1, <3>1 DEF CallFits
    <3>3. (Calling(w))' => worker'[w].job \in Jobs
      BY <3>2 DEF Calling, CallFits
    <3>4. (Calling(w))' => ~(Owns(w))'
      BY <2>2, <2>3, <3>3 DEF Owns
    <3> QED  BY <3>2, <3>4 DEF CopyIsCurrent
  <2>6. ChainsHandOver'
    BY <2>2, <2>3, JobsAssumption DEF ChainsHandOver
  <2>7. CancelledWasAsked' /\ \A e \in reports' : e[1] \in Up'
    BY <2>1 DEF CancelledWasAsked, BullMQInv, Up
  <2>8. job' \in [Jobs -> Job] /\ released' \in [Jobs -> Nat]
    BY <2>1, <2>2
  <2> QED  BY <2>1, <2>4, <2>5, <2>6, <2>7, <2>8 DEF BullMQInv
<1> QED  BY <1>1, <1>2

LEMMA BullMQSteps == BullMQInv /\ [Next]_vars => BullMQInv'
<1> SUFFICES ASSUME BullMQInv, [Next]_vars PROVE BullMQInv'
  OBVIOUS
<1>1. ASSUME NEW w \in Workers, WorkerStep(w) \/ CallFails(w) \/ WorkerDies(w) \/ Stop(w)
      PROVE  BullMQInv'
  BY <1>1, CallSteps, RefusalSteps, AdvanceSteps, ReleaseSteps, CompleteSteps, FailSteps, DyingSteps, ProcessSteps
     DEF WorkerStep
<1>2. CASE UNCHANGED vars
  BY <1>2 DEF vars, BullMQInv, HolderCalls, CopyIsCurrent, Calling, Owns, Up, ChainsHandOver, CancelledWasAsked
<1> QED  BY <1>1, <1>2, TakeSteps, QueueSteps, BatchSteps DEF Next

\* What a handler's work comes to: releases keep their budget although it is computed from a copy's
\* counters, a chain hands over, and final failures are heard of (WorkIsAccounted), for any number
\* of jobs, workers, releases, stalls and faults.
THEOREM WorkIsAlwaysAccounted == Spec => [](TypeOK /\ WorkIsAccounted)
<1>1. BullMQInv => TypeOK /\ WorkIsAccounted
  BY DEF BullMQInv, TypeOK, WorkIsAccounted, ReleasesAreBudgeted, JobFits, Call, Pcs
<1> QED  BY BullMQStarts, BullMQSteps, <1>1, PTL DEF Spec

(***************************************************************************)
(* What batchStatus tells.  A child that ended is not touched again, except *)
(* by clear, which takes its coordinator as well.                           *)
(***************************************************************************)
LEMMA EndedChildrenStay ==
    ASSUME BullMQInv, [Next]_vars, batch' # "gone", NEW c \in Children, job[c].state \in Ended
    PROVE  job'[c] = job[c]
<1>1. /\ c \in Jobs /\ job[c].state \in {"completed", "failed"}
      /\ \A i \in Jobs : NextOf[i] # c
      /\ DOMAIN job = Jobs
  BY JobsAssumption DEF Ended, BullMQInv
<1>2. ASSUME NEW j, NEW r, job' = [job EXCEPT ![j] = r], j # c PROVE job'[c] = job[c]
  BY <1>1, <1>2
<1>3. ASSUME NEW w \in Workers, WorkerStep(w) \/ CallFails(w) \/ WorkerDies(w) \/ Stop(w)
      PROVE  job'[c] = job[c]
  <2> DEFINE j == worker[w].job
  <2>1. CASE UNCHANGED job
    BY <2>1
  <2>2. CASE AdvanceAdds(w)
    <3>1. Calling(w) /\ worker[w].pc = "advance" /\ CallFits(worker[w], returned, batch)
      BY <2>2 DEF AdvanceAdds, Calling, BullMQInv
    <3>2. NextOf[j] # c
      BY <1>1, <3>1 DEF CallFits
    <3> QED  BY <1>1, <2>2, <3>2 DEF AdvanceAdds
  <2>3. CASE Release(w) \/ Complete(w) \/ Fail(w) \/ WorkerDies(w)
    <3>1. Owns(w) => j # c
      BY <1>1 DEF Owns
    <3>2. \A i \in Jobs : i # j => job'[i] = job[i]
      BY <2>3 DEF Release, Complete, Fail, WorkerDies, BullMQInv
    <3>3. ~Owns(w) => job' = job
      BY <2>3 DEF Release, Complete, Fail, WorkerDies
    <3> QED  BY <1>1, <3>1, <3>2, <3>3
  <2> QED  BY <1>3, <2>1, <2>2, <2>3
           DEF WorkerStep, CheckBatch, HandlerReturns, HandlerThrows, HandlerObservesCancellation, ConfirmCancellation,
               AdvanceVerifies, ReleaseRefused, Drain, Restart, Report, CallFails, Stop
<1>4. ASSUME NEW w \in Workers, NEW j \in Jobs, Take(w, j) PROVE job'[c] = job[c]
  BY <1>1, <1>4 DEF Take
<1>5. ASSUME NEW j \in Jobs, DelayPasses(j) \/ OrphanStalls(j) \/ LockLost(j) PROVE job'[c] = job[c]
  BY <1>1, <1>5 DEF DelayPasses, OrphanStalls, LockLost, Stalled
<1>6. ASSUME NEW j \in Jobs, DeadLetterRetry(j) PROVE job'[c] = job[c]
  BY <1>1, <1>6 DEF DeadLetterRetry, Retryable
<1>7. ASSUME CancelBatch \/ UNCHANGED vars PROVE job'[c] = job[c]
  BY <1>7 DEF CancelBatch, vars
<1>8. ~Clear
  BY DEF Clear
<1> QED  BY <1>3, <1>4, <1>5, <1>6, <1>7, <1>8 DEF Next

\* Nobody adds a coordinator again.
LEMMA BatchStaysAsked == [Next]_vars /\ batch' # "gone" => batch # "gone"
  BY DEF Next, vars, WorkerStep, CheckBatch, HandlerReturns, HandlerThrows, HandlerObservesCancellation,
         ConfirmCancellation, AdvanceAdds, AdvanceVerifies, ReleaseRefused, Release, Complete, Fail, Drain, Restart,
         Report, CallFails, WorkerDies, Stop, Take, DelayPasses, OrphanStalls, LockLost, DeadLetterRetry, CancelBatch, Clear

\* The children in one category are finitely many.
LEMMA SmallerCounts ==
    ASSUME NEW A \in SUBSET Children, NEW B \in SUBSET Children, A \subseteq B
    PROVE  Cardinality(A) <= Cardinality(B) /\ Cardinality(A) \in Nat /\ (Cardinality(A) = 0 <=> A = {})
<1>1. IsFiniteSet(A) /\ IsFiniteSet(B)
  BY JobsAssumption, FS_Subset
<1> QED  BY <1>1, FS_Subset, FS_CardinalityType, FS_EmptySet

\* batchStatus' counters only grow, its last answer is final, and a child counts as cancelled only
\* when a cancellation was requested, whatever stalls, is retried or cancelled too late
\* (BatchStatusIsMonotone).
THEOREM BatchStatusStaysMonotone == Spec => BatchStatusIsMonotone
<1> DEFINE Step == batch' # "gone" =>
              /\ \A field \in {"succeeded", "failed", "cancelled"} :
                    BatchStatus[field] <= BatchStatus'[field]
              /\ BatchStatus.pending = 0 => BatchStatus'.state = BatchStatus.state
              /\ BatchStatus.cancelled > 0 => batch = "cancelling"
<1>1. BullMQInv /\ [Next]_vars => Step
  <2> SUFFICES ASSUME BullMQInv, [Next]_vars, batch' # "gone" PROVE Step
    OBVIOUS
  <2>1. \A c \in Children : job[c].state \in Ended => job'[c] = job[c]
    BY EndedChildrenStay
  <2>2. /\ \A results : Processed(results) \in SUBSET Children
        /\ Processed({"succeeded"}) \subseteq Processed({"succeeded"})'
        /\ Processed({"cancelled"}) \subseteq Processed({"cancelled"})'
        /\ Ignored \subseteq Ignored' /\ Ignored' \in SUBSET Children
        /\ Processed({"succeeded"})' \in SUBSET Children /\ Processed({"cancelled"})' \in SUBSET Children
    BY <2>1 DEF Processed, Ignored, Ended
  <2>3. /\ BatchStatus.succeeded <= BatchStatus'.succeeded
        /\ BatchStatus.failed <= BatchStatus'.failed
        /\ BatchStatus.cancelled <= BatchStatus'.cancelled
    <3>1. /\ Cardinality(Processed({"succeeded"})) <= Cardinality(Processed({"succeeded"})')
          /\ Cardinality(Processed({"cancelled"})) <= Cardinality(Processed({"cancelled"})')
          /\ Cardinality(Ignored) <= Cardinality(Ignored')
      BY <2>2, SmallerCounts
    <3> QED  BY <3>1 DEF BatchStatus
  <2>4. ASSUME BatchStatus.pending = 0 PROVE BatchStatus'.state = BatchStatus.state
    <3>1. Unprocessed \in SUBSET Children /\ Cardinality(Unprocessed) = 0
      BY <2>4 DEF BatchStatus, Unprocessed
    <3>2. Unprocessed = {}
      BY <3>1, SmallerCounts
    <3>3. \A c \in Children : job[c].state \in Ended
      BY <3>2 DEF Unprocessed, Processed, Ignored, Ended
    <3>4. \A c \in Children : job'[c] = job[c]
      BY <2>1, <3>3
    <3>5. Processed({"cancelled"})' = Processed({"cancelled"}) /\ Unprocessed' = Unprocessed
      BY <3>4 DEF Unprocessed, Processed, Ignored
    <3> QED  BY <3>2, <3>5 DEF BatchStatus
  <2>5. ASSUME BatchStatus.cancelled > 0 PROVE batch = "cancelling"
    <3>1. Cardinality(Processed({"cancelled"})) > 0
      BY <2>5 DEF BatchStatus
    <3>2. PICK c \in Processed({"cancelled"}) : TRUE
      BY <2>2, <3>1, SmallerCounts
    <3>3. c \in Children /\ job[c].state = "completed" /\ job[c].cancelled
      BY <3>2 DEF Processed
    <3>4. batch # "running" /\ batch # "gone" /\ batch \in {"running", "cancelling", "gone"}
      BY <3>3, BatchStaysAsked DEF BullMQInv, CancelledWasAsked
    <3> QED  BY <3>4
  <2> QED  BY <2>3, <2>4, <2>5 DEF BatchStatus
<1> QED  BY BullMQStarts, BullMQSteps, <1>1, PTL DEF Spec, BatchStatusIsMonotone

(***************************************************************************)
(* Envelopes.  What is stored carries the dispatch identity beyond the      *)
(* limit; a bundle that was measured with its longest index fits with any.  *)
(***************************************************************************)
Registration == [id : {"authorize", "throttle"}, order : {0, 1}, sequence : {0, 1}]
Registered ==
    \/ middleware = <<>>
    \/ \E a \in Registration : middleware = <<a>> /\ a.sequence = 0
    \/ \E a, b \in Registration : middleware = <<a, b>> /\ a.id # b.id /\ Before(a, b)
HeldFits ==
    /\ DispatchKey \in held.keys /\ Cardinality(held.keys) <= MaxMetadataKeys + 1 /\ Cardinality(held.keys) \in Nat
    /\ held.fingerprint = sent.payload /\ held.payload \in {sent.payload, Altered}
BundleFits ==
    /\ bundle.kind \in {"none", "chain", "batch"} /\ bundle.n \in 0..MaxSteps /\ bundle.index \in 0..bundle.n /\ bundle.size \in 0..4
    /\ bundle = [kind |-> bundle.kind, n |-> bundle.n, size |-> bundle.size, index |-> bundle.index, readable |-> TRUE]
    /\ bundle.kind = "none" => bundle.n = 0
    /\ bundle.kind # "none" => bundle.size # 0
    /\ bundle.kind = "chain" => prepareQueueChain(bundle.n, bundle.size)
    /\ bundle.kind = "batch" => prepareQueueBatch(bundle.n, bundle.size)
\* The middleware entered so far is the beginning of the list.
EnteredInOrder ==
    /\ entered \in Seq({"authorize", "throttle"}) /\ Len(entered) \in 0..Len(middleware)
    /\ \A i \in 1..Len(entered) : entered[i] = middleware[i].id
EnvelopeInv ==
    /\ stage \in {"new", "refused", "stored", "rejected", "scope", "running", "disposed"} /\ held.keys \subseteq AllKeys
    /\ Registered /\ BundleFits /\ EnteredInOrder
    /\ stage \notin {"scope", "running", "disposed"} => Len(entered) = 0
    /\ stage \in {"stored", "rejected", "scope", "running"} => HeldFits
    /\ stage = "rejected" => held.payload = Altered
    /\ stage \in {"scope", "running"} => held.payload = sent.payload
    /\ stage = "running" => Len(entered) = Len(middleware)

LEMMA MiddlewareFacts ==
    ASSUME Registered
    PROVE  Len(middleware) \in 0..2 /\ \A i, k \in DOMAIN middleware : i < k => Before(middleware[i], middleware[k])
<1>1. CASE middleware = <<>>
  BY <1>1
<1>2. CASE \E a \in Registration : middleware = <<a>> /\ a.sequence = 0
  BY <1>2
<1>3. CASE \E a, b \in Registration : middleware = <<a, b>> /\ a.id # b.id /\ Before(a, b)
  <2>1. PICK a, b \in Registration : middleware = <<a, b>> /\ Before(a, b)
    BY <1>3
  <2>2. Len(middleware) = 2 /\ DOMAIN middleware = 1..2 /\ middleware[1] = a /\ middleware[2] = b
    BY <2>1
  <2>3. \A i, k \in 1..2 : i < k => i = 1 /\ k = 2
    OBVIOUS
  <2> QED  BY <2>1, <2>2, <2>3
<1> QED  BY <1>1, <1>2, <1>3 DEF Registered

\* A sorted sequence of one or two registrations.
LEMMA SortedExists ==
    ASSUME NEW all, NEW s, s \in SetToSeqs(all), \A i, k \in DOMAIN s : i < k => Before(s[i], s[k])
    PROVE  LET t == CHOOSE x \in SetToSeqs(all) : \A i, k \in DOMAIN x : i < k => Before(x[i], x[k])
           IN t \in SetToSeqs(all) /\ \A i, k \in DOMAIN t : i < k => Before(t[i], t[k])
  OBVIOUS

LEMMA SeqsOfPair ==
    ASSUME NEW a \in Registration, NEW b \in Registration, a # b
    PROVE  /\ <<a, b>> \in SetToSeqs({a, b})
           /\ \A s \in SetToSeqs({a, b}) : s = <<a, b>> \/ s = <<b, a>>
<1>1. Cardinality({a, b}) = 2
  <2>1. Cardinality({a}) = 1 /\ IsFiniteSet({a})
    BY FS_Singleton
  <2>2. Cardinality({a} \union {b}) = 2
    BY <2>1, FS_AddElement
  <2>3. {a} \union {b} = {a, b}
    OBVIOUS
  <2> QED  BY <2>2, <2>3
<1>2. SetToSeqs({a, b}) = {f \in [1..2 -> {a, b}] : \A i, j \in 1..2 : i # j => f[i] # f[j]}
  BY <1>1 DEF SetToSeqs
<1>3. 1..2 = {1, 2}
  OBVIOUS
<1>4. <<a, b>> \in [1..2 -> {a, b}] /\ <<a, b>>[1] = a /\ <<a, b>>[2] = b
  OBVIOUS
<1>5. ASSUME NEW s \in [1..2 -> {a, b}], s[1] # s[2] PROVE s = <<a, b>> \/ s = <<b, a>>
  <2>1. s = <<s[1], s[2]>>
    OBVIOUS
  <2>2. s[1] \in {a, b} /\ s[2] \in {a, b}
    BY <1>3
  <2> QED  BY <1>5, <2>1, <2>2
<1>6. <<a, b>> \in SetToSeqs({a, b})
  BY <1>2, <1>3, <1>4
<1>7. \A s \in SetToSeqs({a, b}) : s \in [1..2 -> {a, b}] /\ s[1] # s[2]
  BY <1>2
<1> QED  BY <1>5, <1>6, <1>7

LEMMA SeqsOfOne ==
    ASSUME NEW a \in Registration
    PROVE  <<a>> \in SetToSeqs({a}) /\ \A s \in SetToSeqs({a}) : s = <<a>>
<1>1. Cardinality({a}) = 1
  BY FS_Singleton
<1>2. SetToSeqs({a}) = {f \in [1..1 -> {a}] : \A i, j \in 1..1 : i # j => f[i] # f[j]}
  BY <1>1 DEF SetToSeqs
<1>3. 1..1 = {1}
  OBVIOUS
<1>4. <<a>> \in [1..1 -> {a}] /\ \A i, j \in 1..1 : i = j
  OBVIOUS
<1>5. ASSUME NEW s \in [1..1 -> {a}] PROVE s = <<a>>
  <2>1. s = <<s[1]>> /\ s[1] = a
    BY <1>3
  <2> QED  BY <2>1
<1> QED  BY <1>2, <1>4, <1>5

LEMMA Registers ==
    ASSUME Registered, NEW id \in {"authorize", "throttle"}, NEW order \in {0, 1}, middleware' = use(middleware, id, order)
    PROVE  Registered'
<1>1. CASE \E i \in DOMAIN middleware : middleware[i].id = id
  BY <1>1 DEF use, Registered, Before
<1>2. CASE ~\E i \in DOMAIN middleware : middleware[i].id = id
  <2> DEFINE new == [id |-> id, order |-> order, sequence |-> Len(middleware)]
             all == ToSet(middleware) \union {new}
             Sorted(s) == \A i, k \in DOMAIN s : i < k => Before(s[i], s[k])
  <2>1. middleware' = CHOOSE s \in SetToSeqs(all) : Sorted(s)
    BY <1>2 DEF use
  <2>2. CASE middleware = <<>>
    <3>1. new \in Registration /\ new.sequence = 0 /\ all = {new}
      BY <2>2 DEF Registration, ToSet
    <3>2. Sorted(<<new>>)
      OBVIOUS
    <3> HIDE DEF new, all, Sorted
    <3>3. <<new>> \in SetToSeqs(all) /\ \A s \in SetToSeqs(all) : s = <<new>>
      BY <3>1, SeqsOfOne
    <3>4. middleware' = <<new>>
      BY <2>1, <3>2, <3>3
    <3> QED  BY <3>1, <3>4 DEF Registered
  <2>3. CASE \E a \in Registration : middleware = <<a>> /\ a.sequence = 0
    <3>1. PICK a \in Registration : middleware = <<a>> /\ a.sequence = 0
      BY <2>3
    <3>2. Len(middleware) = 1 /\ DOMAIN middleware = {1} /\ middleware[1] = a
      BY <3>1
    <3>3. new \in Registration /\ new.sequence = 1 /\ new.id = id /\ a.id # id /\ new # a
      BY <1>2, <3>2 DEF Registration
    <3>4. all = {a, new}
      BY <3>2 DEF ToSet
    <3>5. Before(a, new) \/ Before(new, a)
      BY <3>1, <3>3 DEF Before, Registration
    <3>6. \A x, y \in Registration : Before(x, y) <=> Sorted(<<x, y>>)
      <4> TAKE x, y \in Registration
      <4>1. DOMAIN <<x, y>> = 1..2 /\ <<x, y>>[1] = x /\ <<x, y>>[2] = y
        OBVIOUS
      <4>2. \A i, k \in 1..2 : i < k <=> i = 1 /\ k = 2
        OBVIOUS
      <4> QED  BY <4>1, <4>2
    <3> HIDE DEF new, all, Sorted
    <3>7. <<a, new>> \in SetToSeqs(all) /\ <<new, a>> \in SetToSeqs(all) /\ \A s \in SetToSeqs(all) : s = <<a, new>> \/ s = <<new, a>>
      <4>1. {a, new} = {new, a}
        OBVIOUS
      <4> QED  BY <3>3, <3>4, <4>1, SeqsOfPair
    <3>8. middleware' \in SetToSeqs(all) /\ Sorted(middleware')
      BY <2>1, <3>3, <3>5, <3>6, <3>7
    <3>9. CASE middleware' = <<a, new>>
      BY <3>3, <3>6, <3>8, <3>9 DEF Registered, Before
    <3>10. CASE middleware' = <<new, a>>
      BY <3>3, <3>6, <3>8, <3>10 DEF Registered, Before
    <3> QED  BY <3>7, <3>8, <3>9, <3>10
  <2>4. CASE \E a, b \in Registration : middleware = <<a, b>> /\ a.id # b.id /\ Before(a, b)
    <3>1. PICK a, b \in Registration : middleware = <<a, b>> /\ a.id # b.id
      BY <2>4
    <3>2. 1 \in DOMAIN middleware /\ 2 \in DOMAIN middleware /\ middleware[1] = a /\ middleware[2] = b
      BY <3>1
    <3>3. id = a.id \/ id = b.id
      BY <3>1 DEF Registration
    <3> QED  BY <1>2, <3>2, <3>3
  <2> QED  BY <2>2, <2>3, <2>4 DEF Registered
<1> QED  BY <1>1, <1>2

LEMMA KeyedSets ==
    ASSUME NEW sets, NEW c \in Keyed(sets), NEW K, \A x \in sets : x \subseteq K
    PROVE  UNION {c[i] : i \in DOMAIN c} \subseteq K
<1>1. CASE c = <<>>
  BY <1>1
<1>2. CASE \E x \in sets : c = <<x>>
  BY <1>2
<1>3. CASE \E x, y \in sets : c = <<x, y>>
  <2>1. PICK x, y \in sets : c = <<x, y>>
    BY <1>3
  <2>2. DOMAIN c = 1..2 /\ c[1] = x /\ c[2] = y /\ \A i \in 1..2 : i = 1 \/ i = 2
    BY <2>1
  <2>3. \A i \in DOMAIN c : c[i] \subseteq K
    BY <2>2
  <2> QED  BY <2>3
<1> QED  BY <1>1, <1>2, <1>3 DEF Keyed

\* What the serializer accepts has at most one key beyond the limit, the dispatch identity.
LEMMA SerializedFits ==
    ASSUME NEW j \in JobShapes, serializes(j)
    PROVE  /\ DispatchKey \in envelope(j).keys /\ envelope(j).keys \subseteq AllKeys
           /\ Cardinality(envelope(j).keys) \in Nat /\ Cardinality(envelope(j).keys) <= MaxMetadataKeys + 1
<1> DEFINE metadata == Merge(serializedKeys(j), j.admission)
<1>1. DispatchKey \notin metadata /\ Cardinality(metadata) <= MaxMetadataKeys
  BY DEF serializes
<1>2. metadata \subseteq AllKeys
  <2>1. j.base \subseteq AllKeys /\ j.contributions \in Keyed({{k} : k \in PlainKeys}) /\ j.admission \in {<<>>} \union {<<{k}>> : k \in PlainKeys}
    BY DEF JobShapes
  <2>2. \A x \in {{k} : k \in PlainKeys} : x \subseteq AllKeys
    BY DEF AllKeys
  <2>3. UNION {j.contributions[i] : i \in DOMAIN j.contributions} \subseteq AllKeys
    BY <2>1, <2>2, KeyedSets
  <2>4. j.admission \in Keyed({{k} : k \in PlainKeys})
    BY <2>1 DEF Keyed
  <2>5. UNION {j.admission[i] : i \in DOMAIN j.admission} \subseteq AllKeys
    BY <2>2, <2>4, KeyedSets
  <2>6. TagsKey \in AllKeys
    BY DEF AllKeys, Reserved
  <2> QED  BY <2>1, <2>3, <2>5, <2>6 DEF Merge, serializedKeys
<1>3. IsFiniteSet(AllKeys)
  <2>1. IsFiniteSet(Reserved)
    <3>1. Reserved = {TagsKey} \union {DispatchKey}
      BY DEF Reserved
    <3> QED  BY <3>1, FS_AddElement, FS_Singleton
  <2> QED  BY <2>1, JobEnvelopeAssumption, FS_Union DEF AllKeys
<1> HIDE DEF metadata
<1>4. IsFiniteSet(metadata)
  BY <1>2, <1>3, FS_Subset
<1>5. Cardinality(metadata \union {DispatchKey}) = Cardinality(metadata) + 1 /\ Cardinality(metadata) \in Nat
  BY <1>1, <1>4, FS_AddElement, FS_CardinalityType
<1>6. envelope(j).keys = metadata \union {DispatchKey} /\ DispatchKey \in AllKeys
  BY DEF envelope, metadata, AllKeys, Reserved
<1> QED  BY <1>1, <1>2, <1>5, <1>6, JobEnvelopeAssumption

LEMMA DigitsGrow ==
    ASSUME NEW i \in Nat, NEW k \in Nat, i <= k
    PROVE  Digits(i) \in 1..3 /\ Digits(i) <= Digits(k)
  BY DEF Digits

LEMMA ChainsFit ==
    ASSUME NEW n \in Nat, NEW size \in 1..4, prepareQueueChain(n, size), NEW index \in 0..(n - 1)
    PROVE  readQueueChainEnvelope(n, size, index)
<1>1. n \in 1..MaxSteps /\ n * size + Digits(n - 1) <= MaxBytes
  BY DEF prepareQueueChain, chainBytes
<1>2. Digits(index) <= Digits(n - 1) /\ Digits(index) \in Int /\ Digits(n - 1) \in Int
  BY <1>1, DigitsGrow
<1>3. PICK total \in Int : total = n * size
  BY <1>1
<1>4. n * size + Digits(index) <= MaxBytes
  BY <1>1, <1>2, <1>3, JobEnvelopeAssumption
<1> QED  BY <1>1, <1>4 DEF readQueueChainEnvelope

LEMMA BatchesFit ==
    ASSUME NEW n \in Nat, NEW size \in 1..4, prepareQueueBatch(n, size), NEW index \in 0..(n - 1), NEW requested \in BOOLEAN
    PROVE  readQueueBatchChild(n, size, index) /\ readQueueBatchCoordinator(n, requested)
<1>1. n \in 1..MaxSteps /\ coordinatorBytes(n, FALSE) + n * (size + Digits(n)) + IndexDigits(n) <= MaxBytes
  BY DEF prepareQueueBatch, batchBytes
<1>2. PICK d \in 1..3 : d = Digits(n)
  BY <1>1, DigitsGrow
<1>3. PICK e \in 1..3 : e = Digits(index)
  BY <1>1, DigitsGrow
<1>4. e <= IndexDigits(n) /\ IndexDigits(n) \in Nat
  BY <1>1, <1>3 DEF Digits, IndexDigits
<1>5. PICK w \in 2..7 : w = size + d
  OBVIOUS
<1>6. n * w \in Nat /\ w <= n * w
  <2>1. (w = 2 /\ n * w = n * 2) \/ (w = 3 /\ n * w = n * 3) \/ (w = 4 /\ n * w = n * 4) \/ (w = 5 /\ n * w = n * 5)
        \/ (w = 6 /\ n * w = n * 6) \/ (w = 7 /\ n * w = n * 7)
    <3>1. w = 2 \/ w = 3 \/ w = 4 \/ w = 5 \/ w = 6 \/ w = 7
      BY <1>5
    <3> QED  BY <3>1, Zenon
  <2> QED  BY <1>1, <2>1
<1>7. PICK t \in Nat : t = n * w
  BY <1>6
<1>8. w <= t
  BY <1>6, <1>7
<1>9. d + 5 + t + IndexDigits(n) <= MaxBytes
  BY <1>1, <1>2, <1>5, <1>7 DEF coordinatorBytes
<1>10. size + e + d <= MaxBytes /\ d + 5 <= MaxBytes /\ d + 4 <= MaxBytes
  BY <1>4, <1>5, <1>8, <1>9, JobEnvelopeAssumption
<1>11. childBytes(n, size, index) <= MaxBytes
  BY <1>2, <1>3, <1>10 DEF childBytes
<1>12. coordinatorBytes(n, requested) <= MaxBytes
  BY <1>2, <1>10 DEF coordinatorBytes
<1> QED  BY <1>1, <1>11, <1>12 DEF readQueueBatchChild, readQueueBatchCoordinator

LEMMA EnvelopeStarts == EnvelopeInit => EnvelopeInv
<1> SUFFICES ASSUME EnvelopeInit PROVE EnvelopeInv
  OBVIOUS
<1>1. stage = "new" /\ middleware = <<>> /\ entered = <<>> /\ Len(entered) = 0 /\ Len(middleware) = 0 /\ held.keys = {}
  BY DEF EnvelopeInit, NoEnvelope
<1>2. Registered
  BY <1>1 DEF Registered
<1>3. BundleFits
  BY JobEnvelopeAssumption DEF EnvelopeInit, NoBundle, BundleFits
<1>4. EnteredInOrder
  BY <1>1 DEF EnteredInOrder
<1> QED  BY <1>1, <1>2, <1>3, <1>4 DEF EnvelopeInv

LEMMA Pushes ==
    ASSUME EnvelopeInv, NEW j \in JobShapes, push(j)
    PROVE  EnvelopeInv'
<1>1. stage = "new" /\ sent' = j /\ UNCHANGED <<middleware, entered, bundle>>
  BY DEF push
<1>2. Registered' /\ BundleFits' /\ EnteredInOrder'
  BY <1>1 DEF EnvelopeInv, Registered, BundleFits, EnteredInOrder
<1>3. CASE stage' = "refused" /\ UNCHANGED held
  BY <1>1, <1>2, <1>3 DEF EnvelopeInv
<1>4. CASE serializes(j) /\ stage' = "stored" /\ held' = envelope(j)
  <2>1. held'.keys \subseteq AllKeys /\ HeldFits'
    BY <1>1, <1>4, SerializedFits DEF HeldFits, envelope
  <2> QED  BY <1>1, <1>2, <1>4, <2>1 DEF EnvelopeInv
<1> QED  BY <1>3, <1>4 DEF push

LEMMA RegistersMore ==
    ASSUME EnvelopeInv, NEW id \in {"authorize", "throttle"}, NEW order \in {0, 1}, register(id, order)
    PROVE  EnvelopeInv'
<1>1. stage = "stored" /\ middleware' = use(middleware, id, order) /\ UNCHANGED <<stage, sent, held, entered, bundle>>
  BY DEF register
<1>2. Registered'
  BY <1>1, Registers DEF EnvelopeInv
<1>3. BundleFits' /\ HeldFits'
  BY <1>1 DEF EnvelopeInv, BundleFits, HeldFits
<1>4. Len(entered') = 0 /\ EnteredInOrder'
  <2>1. Len(middleware') \in 0..2
    BY <1>2 DEF Registered
  <2> QED  BY <1>1, <2>1 DEF EnvelopeInv, EnteredInOrder
<1> QED  BY <1>1, <1>2, <1>3, <1>4 DEF EnvelopeInv

\* The other steps of a dispatch leave its bundle and its middleware alone.
LEMMA DispatchGoesOn ==
    ASSUME EnvelopeInv, alter \/ begin \/ enter \/ handle \/ dispose
    PROVE  EnvelopeInv'
<1>1. UNCHANGED <<sent, middleware, bundle>>
  BY DEF alter, begin, enter, handle, dispose
<1>2. Registered' /\ BundleFits' /\ Len(middleware) \in 0..2
  BY <1>1, MiddlewareFacts DEF EnvelopeInv, Registered, BundleFits
<1>3. CASE alter
  <2>1. stage = "stored" /\ held' = [held EXCEPT !.payload = Altered] /\ UNCHANGED <<stage, entered>>
    BY <1>3 DEF alter
  <2>2. HeldFits
    BY <2>1 DEF EnvelopeInv
  <2>3. held'.keys = held.keys /\ HeldFits'
    <3> QED  BY <1>1, <2>1, <2>2 DEF HeldFits
  <2> QED  BY <1>1, <1>2, <2>1, <2>3 DEF EnvelopeInv, EnteredInOrder
<1>4. CASE begin
  <2>1. stage = "stored" /\ stage' = (IF prepare(held) THEN "scope" ELSE "rejected") /\ UNCHANGED <<held, entered>>
    BY <1>4 DEF begin
  <2>2. HeldFits /\ HeldFits'
    BY <1>1, <2>1 DEF EnvelopeInv, HeldFits
  <2>3. prepare(held) <=> held.payload = sent.payload
    BY <2>2, JobEnvelopeAssumption DEF HeldFits, prepare
  <2>4. ~prepare(held) => held.payload = Altered
    BY <2>2, <2>3 DEF HeldFits
  <2> QED  BY <1>1, <1>2, <2>1, <2>2, <2>3, <2>4 DEF EnvelopeInv, EnteredInOrder
<1>5. CASE enter
  <2>1. stage = "scope" /\ Len(entered) < Len(middleware) /\ entered' = Append(entered, middleware[Len(entered) + 1].id) /\ UNCHANGED <<stage, held>>
    BY <1>5 DEF enter
  <2>2. HeldFits'
    BY <1>1, <2>1 DEF EnvelopeInv, HeldFits
  <2>3. EnteredInOrder'
    <3>0. Len(middleware) \in 0..2 /\ Len(entered) \in 0..Len(middleware) /\ Len(entered) < Len(middleware)
      BY <1>2, <2>1 DEF EnvelopeInv, EnteredInOrder
    <3>1. PICK n \in 0..2 : n = Len(entered) /\ n < Len(middleware)
      <4>1. Len(entered) \in 0..2
        BY <3>0
      <4> QED  BY <3>0, <4>1
    <3>2. PICK id \in {"authorize", "throttle"} : id = middleware[n + 1].id
      BY <1>2, <3>1 DEF EnvelopeInv, Registered, Registration
    <3>3. entered' \in Seq({"authorize", "throttle"}) /\ Len(entered') = n + 1 /\ entered'[n + 1] = id /\ \A i \in 1..n : entered'[i] = entered[i]
      BY <2>1, <3>1, <3>2 DEF EnvelopeInv, EnteredInOrder
    <3>4. \A i \in 1..(n + 1) : i \in 1..n \/ i = n + 1
      BY <3>1
    <3>5. \A i \in 1..n : entered[i] = middleware[i].id
      BY <3>1 DEF EnvelopeInv, EnteredInOrder
    <3>6. \A i \in 1..(n + 1) : entered'[i] = middleware'[i].id
      BY <1>1, <3>2, <3>3, <3>4, <3>5
    <3>7. Len(entered') \in 0..Len(middleware')
      BY <1>1, <1>2, <3>1, <3>3
    <3> QED  BY <3>3, <3>6, <3>7 DEF EnteredInOrder
  <2> QED  BY <1>1, <1>2, <2>1, <2>2, <2>3 DEF EnvelopeInv
<1>6. CASE handle
  <2>1. stage = "scope" /\ Len(entered) = Len(middleware) /\ stage' = "running" /\ UNCHANGED <<held, entered>>
    BY <1>6 DEF handle
  <2>2. HeldFits'
    BY <1>1, <2>1 DEF EnvelopeInv, HeldFits
  <2> QED  BY <1>1, <1>2, <2>1, <2>2 DEF EnvelopeInv, EnteredInOrder
<1>7. CASE dispose
  BY <1>1, <1>2, <1>7 DEF EnvelopeInv, EnteredInOrder, dispose
<1> QED  BY <1>3, <1>4, <1>5, <1>6, <1>7

LEMMA Bundles ==
    ASSUME EnvelopeInv, BundleFits', UNCHANGED <<stage, sent, held, middleware, entered>>
    PROVE  EnvelopeInv'
  BY DEF EnvelopeInv, Registered, HeldFits, EnteredInOrder

LEMMA BundleStarts ==
    ASSUME EnvelopeInv, NEW kind \in {"chain", "batch"}, NEW n \in 0..(MaxSteps + 1), NEW size \in 1..4, bundleJobs(kind, n, size)
    PROVE  EnvelopeInv'
<1>1. /\ IF kind = "chain" THEN prepareQueueChain(n, size) ELSE prepareQueueBatch(n, size)
      /\ bundle' = [kind |-> kind, n |-> n, size |-> size, index |-> 0, readable |-> TRUE]
      /\ UNCHANGED <<stage, sent, held, middleware, entered>>
  BY DEF bundleJobs
<1>2. n \in 1..MaxSteps
  BY <1>1 DEF prepareQueueChain, prepareQueueBatch
<1>3. BundleFits'
  BY <1>1, <1>2, JobEnvelopeAssumption DEF BundleFits, prepareQueueChain, prepareQueueBatch
<1> QED  BY <1>1, <1>3, Bundles

LEMMA BundleIsRead ==
    ASSUME EnvelopeInv, readNext
    PROVE  EnvelopeInv'
<1>1. PICK n \in 0..MaxSteps, index \in 0..MaxSteps, size \in 0..4, kind \in {"none", "chain", "batch"} :
          bundle = [kind |-> kind, n |-> n, size |-> size, index |-> index, readable |-> TRUE]
  BY JobEnvelopeAssumption DEF EnvelopeInv, BundleFits
<1>2. index < n /\ kind # "none" /\ size \in 1..4 /\ index \in 0..(n - 1) /\ n \in Nat
  <2>1. index < n
    BY <1>1 DEF readNext
  <2>2. kind # "none" /\ size # 0
    BY <1>1, <2>1 DEF EnvelopeInv, BundleFits
  <2> QED  BY <2>1, <2>2
<1>3. kind = "chain" => readQueueChainEnvelope(n, size, index)
  BY <1>1, <1>2, ChainsFit DEF EnvelopeInv, BundleFits
<1>4. kind = "batch" => readQueueBatchChild(n, size, index) /\ \A requested \in BOOLEAN : readQueueBatchCoordinator(n, requested)
  BY <1>1, <1>2, BatchesFit DEF EnvelopeInv, BundleFits
<1>5. bundle' = [kind |-> kind, n |-> n, size |-> size, index |-> index + 1, readable |-> TRUE]
  <2>1. bundle' = [bundle EXCEPT !.index = @ + 1, !.readable = @ /\
          IF bundle.kind = "chain" THEN readQueueChainEnvelope(bundle.n, bundle.size, bundle.index)
          ELSE /\ readQueueBatchChild(bundle.n, bundle.size, bundle.index)
               /\ \A requested \in BOOLEAN : readQueueBatchCoordinator(bundle.n, requested)]
    BY DEF readNext
  <2>2. bundle.kind = kind /\ bundle.n = n /\ bundle.size = size /\ bundle.index = index /\ bundle.readable = TRUE
    BY <1>1
  <2> DEFINE fine == bundle.readable /\ IF bundle.kind = "chain" THEN readQueueChainEnvelope(bundle.n, bundle.size, bundle.index)
          ELSE /\ readQueueBatchChild(bundle.n, bundle.size, bundle.index)
               /\ \A requested \in BOOLEAN : readQueueBatchCoordinator(bundle.n, requested)
  <2>3. fine = TRUE
    BY <1>2, <1>3, <1>4, <2>2
  <2>4. bundle' = [bundle EXCEPT !.index = @ + 1, !.readable = fine]
    BY <2>1
  <2> HIDE DEF fine
  <2> QED  BY <1>1, <2>3, <2>4
<1>6. BundleFits'
  BY <1>1, <1>2, <1>5 DEF EnvelopeInv, BundleFits
<1>7. UNCHANGED <<stage, sent, held, middleware, entered>>
  BY DEF readNext
<1> QED  BY <1>6, <1>7, Bundles

LEMMA EnvelopeSteps == EnvelopeInv /\ [EnvelopeNext]_envelopeVars => EnvelopeInv'
<1> SUFFICES ASSUME EnvelopeInv, [EnvelopeNext]_envelopeVars PROVE EnvelopeInv'
  OBVIOUS
<1>1. CASE UNCHANGED envelopeVars
  <2>1. BundleFits' /\ UNCHANGED <<stage, sent, held, middleware, entered>>
    BY <1>1 DEF envelopeVars, EnvelopeInv, BundleFits
  <2> QED  BY <2>1, Bundles
<1>2. CASE EnvelopeNext
  BY <1>2, Pushes, RegistersMore, DispatchGoesOn, BundleStarts, BundleIsRead DEF EnvelopeNext
<1> QED  BY <1>1, <1>2

\* For any metadata keys, payloads and limits: the runner refuses only what was altered,
\* a handler sees the payload that was sent inside all of the middleware in its order,
\* and every job of an accepted chain or batch can be read.
THEOREM JobsAlwaysRunAsSent == EnvelopeSpec => [](EnvelopeTypeOK /\ RunsAsSent)
<1>1. EnvelopeInv => EnvelopeTypeOK /\ RunsAsSent
  <2> SUFFICES ASSUME EnvelopeInv PROVE EnvelopeTypeOK /\ RunsAsSent
    OBVIOUS
  <2>1. Len(middleware) \in 0..2 /\ \A i, k \in DOMAIN middleware : i < k => Before(middleware[i], middleware[k])
    BY MiddlewareFacts DEF EnvelopeInv
  <2>2. EnvelopeTypeOK
    BY <2>1, JobEnvelopeAssumption DEF EnvelopeInv, BundleFits, EnvelopeTypeOK, EnteredInOrder
  <2>3. bundle.readable
    BY DEF EnvelopeInv, BundleFits
  <2>4. stage = "running" => entered = [i \in DOMAIN middleware |-> middleware[i].id]
    BY <2>1 DEF EnvelopeInv, EnteredInOrder, Registered
  <2> QED  BY <2>1, <2>2, <2>3, <2>4 DEF EnvelopeInv, RunsAsSent
<1> QED  BY <1>1, EnvelopeStarts, EnvelopeSteps, PTL DEF EnvelopeSpec
=============================================================================
