------------------------ MODULE WorkflowCoordinator ------------------------
(***************************************************************************)
(* WorkflowCoordinator of packages/workflows-queue: one workflow whose      *)
(* transitions are jobs of a queue.  The id of a job is a hash of the       *)
(* workflow and of the revision that enqueue() read, so the jobs of one     *)
(* workflow are named by revisions here.  InMemoryQueue ("memory") accepts  *)
(* any id; in Redis ("bullmq") an id that exists, in whatever state, makes  *)
(* add a no-op that returns the existing job.                               *)
(*                                                                         *)
(* The commits of one transition are one revision, delays are arbitrary,    *)
(* and a job whose worker crashed is handed out again (stalled jobs).       *)
(***************************************************************************)
EXTENDS Naturals, FiniteSets

CONSTANTS
    Transports,     \* "memory" and "bullmq", the queues explored
    Runners,        \* workers of the queue
    MaxRevision,    \* bound on revisions
    Tries,          \* tries of a job
    MaxMishaps      \* bound on crashes, failed calls and expired leases
ASSUME CoordinatorAssumption ==
    /\ Transports \subseteq {"memory", "bullmq"}
    /\ {MaxRevision, Tries} \subseteq Nat \ {0} /\ MaxMishaps \in Nat

VARIABLES
    transport,
    flow,        \* the workflow: revision (0 before start), state, lease
    queued,      \* jobs that wait for a worker: their revision and failures
    known,       \* revisions whose id exists in Redis
    runner,      \* workers: pc, job, and what was read before an await
    scheduled,   \* the last step was a reconcile that reported "scheduled"
    swallowed,   \* an add met the id of a job that was not waiting
    dropped,     \* a job ran out of tries, or start() crashed before publishing
    mishaps
coordinatorVars == <<transport, flow, queued, known, runner, scheduled, swallowed, dropped, mishaps>>

Revisions == 1..MaxRevision
Idle == [pc |-> "idle", job |-> 0, failures |-> 0, read |-> 0]
Occupied == {"read", "claim", "advance", "enqueue", "publish"}

CoordinatorTypeOK ==
    /\ transport \in Transports
    /\ flow.revision \in 0..MaxRevision /\ flow.state \in {"ready", "waiting", "terminal"}
    /\ flow.lease \in Runners \union {"none"}
    /\ queued \subseteq [job : Revisions, failures : 0..Tries] /\ known \subseteq Revisions
    /\ \A w \in Runners : runner[w].pc \in Occupied \union {"idle"}

CoordinatorInit ==
    /\ transport \in Transports /\ queued = {} /\ known = {} /\ mishaps = 0
    /\ flow = [revision |-> 0, state |-> "ready", lease |-> "none"]
    /\ runner = [w \in Runners |-> Idle]
    /\ scheduled = FALSE /\ swallowed = FALSE /\ dropped = FALSE

Mishap == mishaps < MaxMishaps /\ mishaps' = mishaps + 1

\* queue.push and queue.later under the id of revision r.
Taken(r) == transport = "bullmq" /\ r \in known
Add(r) ==
    /\ queued' = IF Taken(r) THEN queued ELSE queued \union {[job |-> r, failures |-> 0]}
    /\ known' = known \union {r}
    /\ swallowed' = (swallowed \/ (Taken(r) /\ \A q \in queued : q.job # r))

\* start(): the row is created, then enqueue publishes; a crash may separate the two.
start ==
    /\ flow.revision = 0
    /\ flow' = [flow EXCEPT !.revision = 1]
    /\ \/ Add(1) /\ UNCHANGED <<dropped, mishaps>>
       \/ Mishap /\ dropped' = TRUE /\ UNCHANGED <<queued, known, swallowed>>
    /\ scheduled' = FALSE /\ UNCHANGED <<transport, runner>>

take(w) ==
    /\ runner[w].pc = "idle"
    /\ \E q \in queued :
          /\ queued' = queued \ {q}
          /\ runner' = [runner EXCEPT ![w] = [pc |-> "read", job |-> q.job, failures |-> q.failures, read |-> 0]]
    /\ scheduled' = FALSE /\ UNCHANGED <<transport, flow, known, swallowed, dropped, mishaps>>

\* processResult reads the row: terminal ends the job, a retry that is not due is
\* enqueued again, anything else is claimed.
observe(w) ==
    /\ runner[w].pc = "read"
    /\ \/ flow.state = "terminal" /\ runner' = [runner EXCEPT ![w] = Idle]
       \/ flow.state = "waiting" /\ runner' = [runner EXCEPT ![w].pc = "enqueue"]
       \/ /\ flow.state # "terminal"
          /\ runner' = [runner EXCEPT ![w] = [@ EXCEPT !.pc = "claim", !.read = flow.revision]]
    /\ scheduled' = FALSE
    /\ UNCHANGED <<transport, flow, queued, known, swallowed, dropped, mishaps>>

\* mutant: a contended job just ends
claimEndsContended(w) ==
    /\ runner[w].pc = "claim" /\ scheduled' = FALSE
    /\ IF runner[w].read = flow.revision /\ flow.lease = "none"
       THEN /\ flow.revision < MaxRevision
            /\ flow' = [flow EXCEPT !.revision = @ + 1, !.lease = w, !.state = "ready"]
            /\ runner' = [runner EXCEPT ![w] = [@ EXCEPT !.pc = "advance", !.read = flow.revision + 1]]
       ELSE runner' = [runner EXCEPT ![w] = Idle] /\ UNCHANGED flow
    /\ UNCHANGED <<transport, queued, known, swallowed, dropped, mishaps>>

\* claim by revision and lease; whoever loses is "contended" and enqueues again.
claim(w) ==
    /\ runner[w].pc = "claim" /\ scheduled' = FALSE
    /\ IF runner[w].read = flow.revision /\ flow.lease = "none"
       THEN /\ flow.revision < MaxRevision
            /\ flow' = [flow EXCEPT !.revision = @ + 1, !.lease = w, !.state = "ready"]
            /\ runner' = [runner EXCEPT ![w] = [@ EXCEPT !.pc = "advance", !.read = flow.revision + 1]]
       ELSE /\ runner' = [runner EXCEPT ![w] = IF flow.state = "terminal" THEN Idle
                                               ELSE [@ EXCEPT !.pc = "enqueue"]]
            /\ UNCHANGED flow
    /\ UNCHANGED <<transport, queued, known, swallowed, dropped, mishaps>>

\* The transition is committed by the holder of the lease; a workflow that is not
\* terminal is enqueued, at once or at its retry deadline.
advance(w) ==
    /\ runner[w].pc = "advance" /\ runner[w].read = flow.revision /\ flow.lease = w
    /\ flow.revision < MaxRevision
    /\ \E s \in {"ready", "waiting", "terminal"} :
          /\ flow' = [revision |-> flow.revision + 1, state |-> s, lease |-> "none"]
          /\ runner' = [runner EXCEPT ![w] = IF s = "terminal" THEN Idle ELSE [@ EXCEPT !.pc = "enqueue"]]
    /\ scheduled' = FALSE /\ UNCHANGED <<transport, queued, known, swallowed, dropped, mishaps>>

\* enqueue(): reload the revision, then push.
reload(w) ==
    /\ runner[w].pc = "enqueue"
    /\ runner' = [runner EXCEPT ![w] = IF flow.state = "terminal" THEN Idle
                                       ELSE [@ EXCEPT !.pc = "publish", !.read = flow.revision]]
    /\ scheduled' = FALSE /\ UNCHANGED <<transport, flow, queued, known, swallowed, dropped, mishaps>>
publish(w) ==
    /\ runner[w].pc = "publish" /\ Add(runner[w].read)
    /\ runner' = [runner EXCEPT ![w] = Idle]
    /\ scheduled' = FALSE /\ UNCHANGED <<transport, flow, dropped, mishaps>>

\* A call of the store or the queue throws, or the lease was lost: the job fails and
\* is tried again under its own id until its tries are used up.
Retried(w) ==
    IF runner[w].failures + 1 < Tries
    THEN /\ queued' = queued \union {[job |-> runner[w].job, failures |-> runner[w].failures + 1]}
         /\ UNCHANGED dropped
    ELSE dropped' = TRUE /\ UNCHANGED queued
jobFails(w) ==
    /\ runner[w].pc \in Occupied
    /\ (runner[w].pc = "advance" /\ flow.lease # w /\ UNCHANGED mishaps) \/ Mishap
    /\ Retried(w) /\ runner' = [runner EXCEPT ![w] = Idle]
    /\ scheduled' = FALSE /\ UNCHANGED <<transport, flow, known, swallowed>>
\* The worker dies; the queue notices and hands the job out again.
workerCrashes(w) ==
    /\ runner[w].pc \in Occupied /\ Mishap
    /\ queued' = queued \union {[job |-> runner[w].job, failures |-> runner[w].failures]}
    /\ runner' = [runner EXCEPT ![w] = Idle]
    /\ scheduled' = FALSE /\ UNCHANGED <<transport, flow, known, swallowed, dropped>>
leaseExpires ==
    /\ flow.lease # "none"
    /\ (runner[flow.lease].pc # "advance" /\ UNCHANGED mishaps) \/ Mishap
    /\ flow' = [flow EXCEPT !.lease = "none"]
    /\ scheduled' = FALSE /\ UNCHANGED <<transport, queued, known, runner, swallowed, dropped>>

\* reconcileStore(): enqueue every workflow that is not terminal.
reconcile ==
    /\ flow.revision > 0 /\ flow.state # "terminal"
    /\ Add(flow.revision) /\ scheduled' = TRUE
    /\ UNCHANGED <<transport, flow, runner, dropped, mishaps>>

CoordinatorNext ==
    \/ start \/ leaseExpires \/ reconcile
    \/ \E w \in Runners : \/ take(w) \/ observe(w) \/ claim(w) \/ advance(w) \/ reload(w)
                          \/ publish(w) \/ jobFails(w) \/ workerCrashes(w)

CoordinatorSpec == CoordinatorInit /\ [][CoordinatorNext]_coordinatorVars

Live == queued # {} \/ \E w \in Runners : runner[w].pc # "idle"
Unfinished == flow.revision > 0 /\ flow.state # "terminal"

\* A workflow that is not terminal is always in the hands of a job or of a worker,
\* however claims are contended and retries delayed, unless start() crashed between
\* persisting and publishing, a job used up its tries, or an add met the id of a job
\* that was running or had ended.
WorkflowsKeepTheirJob == Unfinished => Live \/ dropped \/ swallowed

\* What a reconcile reports as scheduled will run (docs/modules.md: "Deterministic
\* revision-based job IDs optimize transport deduplication, but correctness relies on
\* store fencing").
ReconciledIsQueued == scheduled => Live
=============================================================================
