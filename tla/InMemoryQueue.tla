---------------------------- MODULE InMemoryQueue ----------------------------
(***************************************************************************)
(* The default Queue driver, packages/queue/src/runtime/InMemoryQueue.ts:  *)
(* one process, jobs run on the event loop.  Jobs are pushed alone (with   *)
(* or without a deduplication id), as the steps of a chain, or as the      *)
(* children of a batch; they are delayed by timers, retried, released and  *)
(* cleared.                                                                *)
(*                                                                         *)
(* Everything between two awaits is one step of the event loop, with one   *)
(* exception: the microtask of #schedule starts the ready entries in a     *)
(* loop, and a handler runs synchronously up to its first await, so it may *)
(* call the queue between two iterations of that loop.  turn says who has  *)
(* the thread.  Delays are timers that fire at any time; entries of equal  *)
(* priority are started in any order (the code breaks the tie by           *)
(* sequence).                                                              *)
(***************************************************************************)
EXTENDS Integers, FiniteSets

CONSTANTS
    Jobs,        \* the entries the callers may create
    Workloads,   \* the sets of entries that callers create in one behaviour
    Queues,
    QueueOf,     \* options.queue of an entry
    PriorityOf,  \* options.priority; a smaller number starts first
    TriesOf,     \* options.tries
    Late,        \* the entries with a positive delay or backoff
    ReleasesOf,  \* maxReleases of the JobReleasedErrors an entry's handler throws
    KeyOf,       \* options.deduplication.id, None without one
    Expiring,    \* the entries whose deduplication has a ttl
    Children,    \* the items of the batch
    NextOf,      \* the step after an entry in its chain, None at the end
    MaxClears,   \* bound: calls of clear()
    None

Followers == {NextOf[j] : j \in Jobs} \ {None}

ASSUME QueueAssumption ==
    /\ QueueOf \in [Jobs -> Queues] /\ PriorityOf \in [Jobs -> Nat]
    /\ TriesOf \in [Jobs -> Nat \ {0}] /\ ReleasesOf \in [Jobs -> Nat]
    /\ Late \subseteq Jobs /\ Expiring \subseteq Jobs /\ \A j \in Expiring : KeyOf[j] # None
    /\ NextOf \in [Jobs -> Jobs \cup {None}] /\ None \notin Jobs
    /\ Children \subseteq Jobs /\ IsFiniteSet(Children) /\ Children # {}
    /\ \A i, j \in Children : QueueOf[i] = QueueOf[j]
    /\ \A i, j \in Jobs : NextOf[i] = NextOf[j] /\ NextOf[i] # None => i = j
    /\ \A w \in Workloads : \A j \in w : NextOf[j] \in w \cup {None}
    /\ \A j \in Children \cup Followers \cup {i \in Jobs : NextOf[i] # None} : KeyOf[j] = None
    /\ Children \cap (Followers \cup {j \in Jobs : NextOf[j] # None}) = {}
    /\ Workloads \subseteq SUBSET Jobs /\ MaxClears \in Nat

VARIABLES
    job,        \* job[j]: the entry and where it is
    scheduled,  \* #scheduledQueues: queues with a microtask on its way
    due,        \* the rest of the ready list of the microtask that is running
    turn,       \* who has the thread
    reserved,   \* #deduplication: the entries that hold a reservation
    lapsed,     \* reservations whose expiresAt has passed
    batch,      \* the record of the batch in #batches
    cleared,    \* history: entries with a key that were alive at a clear() of their queue
    clears

vars == <<job, scheduled, due, turn, reserved, lapsed, batch, cleared, clears>>

\* delayed and ready are in #pending; failing awaits the failure observers.
Alive == {"delayed", "ready", "running", "failing"}
Ended == {"succeeded", "failed", "cancelled", "dropped", "duplicate", "unused"}

Entry == [state : {"new"} \cup Alive \cup Ended, attempt : Nat, releases : Nat]

Batch == [known : BOOLEAN, cancellationRequested : BOOLEAN,
          succeeded : Nat, failed : Nat, cancelled : Nat]

Init ==
    /\ \E w \in Workloads :
          job = [j \in Jobs |-> [state |-> IF j \in w THEN "new" ELSE "unused",
                                 attempt |-> 0, releases |-> 0]]
    /\ scheduled = {} /\ due = {} /\ turn = "loop"
    /\ reserved = {} /\ lapsed = {}
    /\ batch = [known |-> FALSE, cancellationRequested |-> FALSE,
                succeeded |-> 0, failed |-> 0, cancelled |-> 0]
    /\ cleared = {} /\ clears = 0

(***************************************************************************)
(* Helpers of the class.                                                   *)
(***************************************************************************)
In(states) == {j \in Jobs : job[j].state \in states}
Pending == In({"delayed", "ready"})

Slot(j) == <<QueueOf[j], KeyOf[j]>>

\* #deduplicated: the reservation that makes a push of j a duplicate.
Deduplicated(j) == {h \in reserved \ lapsed : KeyOf[j] # None /\ Slot(h) = Slot(j)}

\* #releaseDeduplication: the reservations left once j is done.
Released(j) == IF j \in Expiring THEN reserved ELSE reserved \ {j}

\* #settleBatch: the batch record after child j ended with this outcome.
Settled(j, outcome) ==
    IF j \in Children /\ batch.known
        THEN [batch EXCEPT ![outcome] = @ + 1] ELSE batch

CancelRequested(j) == j \in Children /\ batch.known /\ batch.cancellationRequested

\* #enqueue: the entry waits for its timer, or is ready and its queue gets a microtask.
Enqueue(js, entries) ==
    \E late \in SUBSET (js \cap Late) :
        /\ job' = [j \in Jobs |-> IF j \notin js THEN entries[j]
                     ELSE [entries[j] EXCEPT !.state = IF j \in late THEN "delayed" ELSE "ready"]]
        /\ scheduled' = scheduled \cup {QueueOf[j] : j \in js \ late}

\* JobReleasedError's delay is at least a millisecond.
EnqueueLater(j, entry) ==
    job' = [job EXCEPT ![j] = [entry EXCEPT !.state = "delayed"]] /\ UNCHANGED scheduled

Move(j, state) == job' = [job EXCEPT ![j].state = state]

\* The queue drops the entry object; only how it ended is remembered.
Gone(state) == [state |-> state, attempt |-> 0, releases |-> 0]

\* A caller of the public methods runs: not inside the loop that starts entries.
MayCall == turn # "drain"

(***************************************************************************)
(* The public methods.                                                     *)
(***************************************************************************)
Push(j) ==
    /\ MayCall /\ job[j].state = "new" /\ j \notin Children \cup Followers /\ NextOf[j] = None
    /\ Deduplicated(j) = {}
    /\ Enqueue({j}, job)
    /\ LET others == {h \in reserved : Slot(h) # Slot(j)}
       IN  /\ reserved' = IF KeyOf[j] = None THEN reserved ELSE others \cup {j}
           /\ lapsed' = IF KeyOf[j] = None THEN lapsed ELSE lapsed \cap others
    /\ UNCHANGED <<due, turn, batch, cleared, clears>>

\* push returns the handle of the job that holds the reservation.
PushDuplicate(j) ==
    /\ MayCall /\ job[j].state = "new"
    /\ Deduplicated(j) # {}
    /\ Move(j, "duplicate")
    /\ UNCHANGED <<scheduled, due, turn, reserved, lapsed, batch, cleared, clears>>

Chain(j) ==
    /\ MayCall /\ job[j].state = "new" /\ NextOf[j] # None /\ j \notin Followers
    /\ Enqueue({j}, job)
    /\ UNCHANGED <<due, turn, reserved, lapsed, batch, cleared, clears>>

BatchJobs ==
    /\ MayCall /\ \A j \in Children : job[j].state = "new"
    /\ batch' = [batch EXCEPT !.known = TRUE]
    /\ Enqueue(Children, job)
    /\ UNCHANGED <<due, turn, reserved, lapsed, cleared, clears>>

\* cancelBatch counting every child that has not ended, whether or not it was pending.
CancelledChildrenAlive == Children \cap In(Alive)

\* cancelBatch: the children that #removePending takes out of the queue.
CancelledChildren == Children \cap Pending

\* The pending children are removed, with their timers, and counted as cancelled.
CancelBatch ==
    /\ MayCall /\ batch.known
    /\ LET removed == CancelledChildren
       IN  /\ job' = [j \in Jobs |-> IF j \in removed \cap Pending
                        THEN Gone("cancelled") ELSE job[j]]
           /\ batch' = [batch EXCEPT !.cancellationRequested = TRUE,
                                     !.cancelled = @ + Cardinality(removed)]
    /\ UNCHANGED <<scheduled, due, turn, reserved, lapsed, cleared, clears>>

\* clear(queueName) for one queue, and clear() for all of them: pending entries, their
\* timers, reservations and batches go; running handlers are not stopped.
Clear(queues) ==
    /\ MayCall /\ clears < MaxClears /\ clears' = clears + 1
    /\ LET here == {j \in Jobs : QueueOf[j] \in queues}
       IN  /\ job' = [j \in Jobs |-> IF j \in Pending \cap here
                        THEN Gone("dropped") ELSE job[j]]
           /\ reserved' = reserved \ here
           /\ lapsed' = lapsed \ here
           /\ batch' = IF Children \subseteq here THEN [batch EXCEPT !.known = FALSE] ELSE batch
           /\ cleared' = cleared \cup {j \in here \cap In(Alive) : KeyOf[j] # None}
    /\ UNCHANGED <<scheduled, due, turn>>

(***************************************************************************)
(* The event loop.                                                         *)
(***************************************************************************)
InLoop == turn = "loop"

TimerFires(j) ==
    /\ InLoop /\ job[j].state = "delayed"
    /\ Move(j, "ready")
    /\ scheduled' = scheduled \cup {QueueOf[j]}
    /\ UNCHANGED <<due, turn, reserved, lapsed, batch, cleared, clears>>

\* Microtask passing over the entries that were put back for another attempt.
MicrotaskFirstAttempts(q) ==
    /\ InLoop /\ q \in scheduled
    /\ scheduled' = scheduled \ {q}
    /\ due' = {j \in In({"ready"}) : QueueOf[j] = q /\ job[j].attempt = 0}
    /\ turn' = IF due' = {} THEN "loop" ELSE "drain"
    /\ UNCHANGED <<job, reserved, lapsed, batch, cleared, clears>>

\* The microtask of #schedule takes the ready entries of its queue.
Microtask(q) ==
    /\ InLoop /\ q \in scheduled
    /\ scheduled' = scheduled \ {q}
    /\ due' = {j \in In({"ready"}) : QueueOf[j] = q}
    /\ turn' = IF due' = {} THEN "loop" ELSE "drain"
    /\ UNCHANGED <<job, reserved, lapsed, batch, cleared, clears>>

\* #run of an entry without looking whether it is still pending.
RunnableIfDue(j) == TRUE

\* #removePending: the entry of the ready list is still in #pending.
Runnable(j) == j \in Pending

\* #run: a child of a cancelled batch is settled instead of started.
Stopped(j) == CancelRequested(j)

\* #run up to the first await of the handler, for the next entry of the loop.
Run(j) ==
    /\ turn \in {"drain", "handler"} /\ j \in due
    /\ \A i \in due : PriorityOf[j] <= PriorityOf[i]
    /\ due' = due \ {j}
    /\ \/ ~Runnable(j) /\ UNCHANGED <<job, batch>>
       \/ /\ Runnable(j) /\ Stopped(j)
          /\ job' = [job EXCEPT ![j] = Gone("cancelled")] /\ batch' = Settled(j, "cancelled")
       \/ /\ Runnable(j) /\ ~Stopped(j)
          /\ job' = [job EXCEPT ![j] = [@ EXCEPT !.state = "running", !.attempt = job[j].attempt + 1]]
          /\ UNCHANGED batch
    /\ turn' = IF due' = {} THEN "loop"
               ELSE IF job'[j].state = "running" THEN "handler" ELSE "drain"
    /\ UNCHANGED <<scheduled, reserved, lapsed, cleared, clears>>

Ends(j) == InLoop /\ job[j].state = "running" /\ UNCHANGED <<due, turn, lapsed, cleared, clears>>

\* The handler resolved: the next step of the chain, the reservation, the batch.
JobSucceeds(j) ==
    /\ Ends(j)
    /\ LET done == [job EXCEPT ![j] = Gone("succeeded")]
       IN  IF NextOf[j] = None
               THEN job' = done /\ UNCHANGED scheduled
               ELSE Enqueue({NextOf[j]}, done)
    /\ reserved' = Released(j)
    /\ batch' = Settled(j, "succeeded")

\* QueueBatchCancelledError while the batch is being cancelled.
JobCancels(j) ==
    /\ Ends(j) /\ CancelRequested(j)
    /\ job' = [job EXCEPT ![j] = Gone("cancelled")]
    /\ batch' = Settled(j, "cancelled")
    /\ UNCHANGED <<scheduled, reserved>>

\* JobReleasedError within its budget: the attempt is given back.
JobReleases(j) ==
    /\ Ends(j) /\ job[j].releases < ReleasesOf[j]
    /\ EnqueueLater(j, [job[j] EXCEPT !.attempt = @ - 1, !.releases = @ + 1])
    /\ UNCHANGED <<reserved, batch>>

Retries(j) == job[j].attempt < TriesOf[j]

JobRetries(j) ==
    /\ Ends(j) /\ Retries(j)
    /\ Enqueue({j}, job)
    /\ UNCHANGED <<reserved, batch>>

\* NonRetryableJobError, an exhausted release budget, or the last attempt: the
\* reservation is released before the failure observers are awaited.
JobFails(j) ==
    /\ Ends(j)
    /\ Move(j, "failing")
    /\ reserved' = Released(j)
    /\ UNCHANGED <<scheduled, batch>>

FailureObserved(j) ==
    /\ InLoop /\ job[j].state = "failing"
    /\ job' = [job EXCEPT ![j] = Gone("failed")]
    /\ batch' = Settled(j, "failed")
    /\ UNCHANGED <<scheduled, due, turn, reserved, lapsed, cleared, clears>>

\* expiresAt passes; the sweep removes what has expired (its timer is always armed for
\* the earliest expiry, and a lookup treats an expired reservation as absent).
ReservationLapses(j) ==
    /\ j \in (reserved \cap Expiring) \ lapsed
    /\ lapsed' = lapsed \cup {j}
    /\ UNCHANGED <<job, scheduled, due, turn, reserved, batch, cleared, clears>>

Sweep ==
    /\ InLoop /\ lapsed # {}
    /\ reserved' = reserved \ lapsed /\ lapsed' = {}
    /\ UNCHANGED <<job, scheduled, due, turn, batch, cleared, clears>>

Settles(j) ==
    JobSucceeds(j) \/ JobCancels(j) \/ JobReleases(j) \/ JobRetries(j) \/ JobFails(j)

Next ==
    \/ \E j \in Jobs :
          \/ Push(j) \/ PushDuplicate(j) \/ Chain(j)
          \/ TimerFires(j) \/ Run(j) \/ FailureObserved(j) \/ ReservationLapses(j)
          \/ JobSucceeds(j) \/ JobCancels(j) \/ JobReleases(j) \/ JobRetries(j) \/ JobFails(j)
    \/ BatchJobs \/ CancelBatch \/ Sweep
    \/ \E q \in Queues : Clear({q}) \/ Microtask(q)
    \/ Clear(Queues)

Spec == Init /\ [][Next]_vars

\* Timers fire, microtasks run to their end, handlers and failure observers settle.
Fairness ==
    /\ \A q \in Queues : WF_vars(Microtask(q))
    /\ WF_vars(\E j \in Jobs : Run(j))
    /\ \A j \in Jobs : WF_vars(TimerFires(j)) /\ WF_vars(Settles(j)) /\ WF_vars(FailureObserved(j))

FairSpec == Spec /\ Fairness

(***************************************************************************)
(* Properties                                                              *)
(***************************************************************************)
\* Entries, reservations and the batch keep the shape of the driver's records.
TypeOK ==
    /\ job \in [Jobs -> Entry]
    /\ scheduled \subseteq Queues /\ due \subseteq Jobs
    /\ turn \in {"loop", "drain", "handler"} /\ (turn = "loop" <=> due = {})
    /\ lapsed \subseteq reserved /\ reserved \subseteq {j \in Jobs : KeyOf[j] # None}
    /\ batch \in Batch /\ cleared \subseteq Jobs /\ clears \in 0 .. MaxClears

\* No ready entry is forgotten: a microtask for its queue is on its way, or the one that
\* is running has it on its list (#schedule's flag is reset before the list is read).
ReadyIsScheduled ==
    \A j \in In({"ready"}) : QueueOf[j] \in scheduled \/ j \in due

\* Every child of a batch is counted exactly once, by #run, cancelBatch or the failure
\* path: what batchStatus reports as pending is what is really unfinished.
ChildrenCountedOnce ==
    batch.known =>
        batch.succeeded + batch.failed + batch.cancelled
            = Cardinality(Children \ In(Alive))

\* Deduplication: two jobs with one id are both waiting or running only after clear()
\* forgot the first or its ttl passed, and a reservation without ttl ends with its job.
DeduplicationIsExclusive ==
    /\ \A i, j \in In({"delayed", "ready", "running"}) :
          i # j /\ KeyOf[i] # None /\ Slot(i) = Slot(j) =>
              {i, j} \cap cleared # {} \/ {i, j} \cap Expiring # {}
    /\ \A j \in {i \in Jobs : KeyOf[i] # None} \ Expiring :
          j \in reserved <=> /\ job[j].state \in {"delayed", "ready", "running"}
                            /\ j \notin cleared

\* What the driver's lists say of an entry agrees, whatever handlers call while the
\* microtask starts jobs: nothing ready is forgotten, every child is counted once, an id
\* has one live job, and no entry exceeds its tries or its releases.
EntriesAreAccounted ==
    /\ ReadyIsScheduled /\ ChildrenCountedOnce /\ DeduplicationIsExclusive
    /\ \A j \in Jobs : job[j].attempt <= TriesOf[j] /\ job[j].releases <= ReleasesOf[j]

\* A reservation goes with its own job, its ttl or a clear(): a job that outlived a
\* clear() does not release the one a later push made under the same id.
ReservationsAreOwned ==
    [][\A j \in reserved \ reserved' :
          \/ j \in lapsed
          \/ clears' # clears
          \/ job[j].state = "running" /\ job'[j].state # "running"]_vars

\* An ended entry stays as it is: what cancelBatch or clear() removed from the ready list
\* of a running microtask is not started by it, and nothing is settled twice.
\* After cancelBatch returns no child of the batch starts again, also not one that was
\* running, failed and was put back.
EndedStaysEnded ==
    [][\A j \in Jobs :
         /\ job[j].state \in Ended => job'[j] = job[j]
         /\ CancelRequested(j) /\ job'[j].state = "running" => job[j].state = "running"]_vars

\* Who may change an entry: what ended is not run or settled again, no child starts after
\* cancelBatch, and a job that outlived a clear() leaves its successor's reservation alone.
EntriesAreOwned == ReservationsAreOwned /\ EndedStaysEnded

\* Every entry that was accepted ends, whatever is cleared or cancelled around it: the
\* queue empties again and again.
EveryJobEnds == []<>(In(Alive) = {})
=============================================================================
