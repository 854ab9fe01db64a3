----------------------------- MODULE BullMQQueue -----------------------------
(***************************************************************************)
(* queue-bullmq: BullMQWorker running the jobs of chains and of a batch,   *)
(* and the dead-letter adapter retrying a failed job.                      *)
(*                                                                         *)
(* BullMQ is external.  What the code relies on: adding a job whose id is  *)
(* taken adds nothing; taking a job counts a start; a job whose lock was   *)
(* lost is put back by the stalled check, which counts it, and is failed   *)
(* when taken after more than MaxStalls of them; ending a job needs its    *)
(* lock and counts an attempt; moveToDelayed needs the lock and counts     *)
(* none.  A worker that lost its lock runs on beside the next one.         *)
(***************************************************************************)
EXTENDS Naturals, FiniteSets

CONSTANTS
    None,
    Jobs,         \* job ids; deterministic, so each names one step or child
    NextOf,       \* NextOf[j]: the id of the next step of j's chain, or None
    Children,     \* the jobs of the batch
    Admissions,   \* what chain() and batch() may have admitted at the start
    TriesOf,      \* TriesOf[j]: opts.attempts
    MaxReleases,  \* maxReleases of the JobReleasedError handlers throw
    MaxStalls,    \* BullMQ's maxStalledCount
    Workers,
    MaxFaults     \* bound: deaths, lost locks, failed calls of Redis, and dead-letter
                  \* retries, clears and stops

ASSUME JobsAssumption ==
    /\ NextOf \in [Jobs -> Jobs \cup {None}] /\ None \notin Jobs \cup Workers
    /\ Children \subseteq Jobs /\ IsFiniteSet(Children) /\ Admissions \subseteq SUBSET Jobs
    /\ \A c \in Children : NextOf[c] = None
    /\ \A j \in Jobs : NextOf[j] \notin Children /\ NextOf[j] # j
    /\ \A j, k \in Jobs : NextOf[j] = NextOf[k] /\ NextOf[j] # None => j = k
ASSUME BudgetAssumption ==
    /\ TriesOf \in [Jobs -> Nat \ {0}] /\ MaxReleases \in Nat /\ MaxStalls \in Nat
    /\ MaxFaults \in Nat

VARIABLES
    job,        \* job[j]: the job in Redis
    batch,      \* the coordinator job: its cancellationRequested, or "gone"
    worker,     \* worker[w]: the call of processBullMQJob and its copy of the job
    released,   \* history: how often j was delayed by a release
    returned,   \* history: steps with a successor whose handler returned normally
    reports,    \* <<w, j>>: w is telling the failure observers of j's end
    faults

vars == <<job, batch, worker, released, returned, reports, faults>>

States == {"absent", "waiting", "delayed", "active", "completed", "failed"}
Job == [state : States, made : Nat, started : Nat, stalls : Nat,
        holder : Workers \cup {None}, cancelled : BOOLEAN, overLimit : BOOLEAN]
Absent == [state |-> "absent", made |-> 0, started |-> 0, stalls |-> 0,
           holder |-> None, cancelled |-> FALSE, overLimit |-> FALSE]
Idle == [pc |-> "idle", job |-> None, made |-> 0, started |-> 0, stalls |-> 0, closing |-> FALSE]
\* The worker of a call, once the call is over.
Free(w) == [Idle EXCEPT !.closing = worker[w].closing]
Up == {w \in Workers : worker[w].pc # "stopped"}

Steps == Jobs \ Children
First == {j \in Steps : \A k \in Jobs : NextOf[k] # j}
Ended == {"completed", "failed"}
Live(j) == job[j].state \in {"waiting", "delayed", "active"}
Owns(w) == job[worker[w].job].state = "active" /\ job[worker[w].job].holder = w

\* Queue.add with a job id, and the children of FlowProducer.add.
Added(r) == IF r.state = "absent" THEN [Absent EXCEPT !.state = "waiting"] ELSE r

\* batch() reads the added flow back: all of the children under their parent, or none.
AddedWhole(admitted) == admitted \cap Children \in {{}, Children}

\* chain() has admitted the first step of a chain, batch() all the children.
Init ==
    /\ \E admitted \in Admissions :
          /\ admitted \cap Steps \subseteq First
          /\ AddedWhole(admitted)
          /\ job = [j \in Jobs |-> IF j \in admitted THEN Added(Absent) ELSE Absent]
          /\ batch = IF Children \subseteq admitted THEN "running" ELSE "gone"
    /\ worker = [w \in Workers |-> Idle]
    /\ released = [j \in Jobs |-> 0] /\ returned = {}
    /\ reports = {}
    /\ faults = 0

Fault == faults < MaxFaults /\ faults' = faults + 1
Goto(w, pc) == worker' = [worker EXCEPT ![w].pc = pc]
-----------------------------------------------------------------------------
(***************************************************************************)
(* processBullMQJob                                                        *)
(***************************************************************************)

\* executionJob: a child reads the state of its batch first.
Entry(j) == IF j \in Children THEN "check" ELSE "run"

\* BullMQ hands a job to an idle worker; one that stalled too often is failed
\* without calling the processor.
Take(w, j) ==
    /\ worker[w].pc = "idle" /\ ~worker[w].closing /\ job[j].state = "waiting"
    /\ job' = [job EXCEPT ![j].state = "active", ![j].holder = w, ![j].started = @ + 1]
    /\ worker' = [worker EXCEPT ![w] =
          [pc |-> IF job[j].stalls > MaxStalls THEN "unrecoverable" ELSE Entry(j),
           job |-> j, made |-> job[j].made, started |-> job[j].started + 1,
           stalls |-> job[j].stalls, closing |-> FALSE]]
    /\ UNCHANGED <<batch, released, returned, reports, faults>>

\* #batchCancellationRequested before the effects of a child.
CheckBatch(w) ==
    /\ worker[w].pc = "check"
    /\ Goto(w, CASE batch = "gone"       -> "unrecoverable"
                 [] batch = "cancelling" -> "cancelled"
                 [] batch = "running"    -> "run")
    /\ UNCHANGED <<job, batch, released, returned, reports, faults>>

AfterRun(j) == IF NextOf[j] = None THEN "succeeded" ELSE "advance"

\* runner.run resolves.
HandlerReturns(w) ==
    /\ worker[w].pc = "run"
    /\ Goto(w, AfterRun(worker[w].job))
    /\ returned' = returned \cup {j \in {worker[w].job} : NextOf[j] # None}
    /\ UNCHANGED <<job, batch, released, reports, faults>>

\* runner.run rejects: an error, a non-retryable error or a release.
HandlerThrows(w) ==
    /\ worker[w].pc = "run"
    /\ \E pc \in {"error", "unrecoverable", "release"} : Goto(w, pc)
    /\ UNCHANGED <<job, batch, released, returned, reports, faults>>

\* throwIfCancellationRequested in the handler of a child, and the second read
\* that confirms it in the catch block; what that read throws is not converted,
\* so that BullMQ tries again.
HandlerObservesCancellation(w) ==
    /\ worker[w].pc = "run" /\ worker[w].job \in Children
    /\ batch = "cancelling"
    /\ Goto(w, "confirm")
    /\ UNCHANGED <<job, batch, released, returned, reports, faults>>

\* mutant: a confirmed cancellation resumes the handler.
ConfirmCancellationResumes(w) ==
    /\ worker[w].pc = "confirm"
    /\ Goto(w, IF batch = "cancelling" THEN "run" ELSE "error")
    /\ UNCHANGED <<job, batch, released, returned, reports, faults>>

ConfirmCancellation(w) ==
    /\ worker[w].pc = "confirm"
    /\ Goto(w, IF batch = "cancelling" THEN "cancelled" ELSE "error")
    /\ UNCHANGED <<job, batch, released, returned, reports, faults>>

\* #advance: add the successor, then read it back.
AdvanceAdds(w) ==
    /\ worker[w].pc = "advance"
    /\ job' = [job EXCEPT ![NextOf[worker[w].job]] = Added(@)]
    /\ Goto(w, "verify")
    /\ UNCHANGED <<batch, released, returned, reports, faults>>

\* The job of that id is this chain's step: ids, names and options are derived alike.
Persisted(j) == job[j].state # "absent"

AdvanceVerifies(w) ==
    /\ worker[w].pc = "verify"
    /\ Goto(w, IF Persisted(NextOf[worker[w].job]) THEN "succeeded" ELSE "unrecoverable")
    /\ UNCHANGED <<job, batch, released, returned, reports, faults>>

\* A call of Redis rejects; its error is the error of the attempt.  An add that
\* was applied and rejects is AdvanceAdds followed by a failing read.
CallFails(w) ==
    /\ worker[w].pc \in {"check", "confirm", "advance", "verify"}
    /\ Fault
    /\ Goto(w, "error")
    /\ UNCHANGED <<job, batch, released, returned, reports>>

\* The releases so far, from the counters of the worker's copy of the job.
Releases(r) == IF r.started > r.made + r.stalls + 1
               THEN r.started - r.made - r.stalls - 1 ELSE 0
ReleaseExhausted(r) == Releases(r) >= MaxReleases

ReleaseRefused(w) ==
    /\ worker[w].pc = "release" /\ ReleaseExhausted(worker[w])
    /\ Goto(w, "limit")
    /\ UNCHANGED <<job, batch, released, returned, reports, faults>>

\* moveToDelayed, refused by BullMQ without the lock.
Release(w) ==
    /\ worker[w].pc = "release" /\ ~ReleaseExhausted(worker[w])
    /\ LET j == worker[w].job IN
          IF Owns(w) THEN /\ job' = [job EXCEPT ![j].state = "delayed", ![j].holder = None]
                          /\ released' = [released EXCEPT ![j] = @ + 1]
          ELSE UNCHANGED <<job, released>>
    /\ worker' = [worker EXCEPT ![w] = Free(w)]
    /\ UNCHANGED <<batch, returned, reports, faults>>

\* BullMQ ends the attempt: the processor returned ...
Complete(w) ==
    /\ worker[w].pc \in {"succeeded", "cancelled"}
    /\ job' = IF Owns(w)
              THEN [job EXCEPT ![worker[w].job].state = "completed",
                               ![worker[w].job].holder = None,
                               ![worker[w].job].made = @ + 1,
                               ![worker[w].job].cancelled = worker[w].pc = "cancelled"]
              ELSE job
    /\ worker' = [worker EXCEPT ![w] = Free(w)]
    /\ UNCHANGED <<batch, released, returned, reports, faults>>

\* isTerminalBullMQFailure
Terminal(pc, made, tries) == pc \in {"unrecoverable", "limit"} \/ made >= tries

\* ... or it threw: another attempt after the backoff, or the end, which the failed
\* event of the worker has #reportTerminalFailure tell.
Fail(w) ==
    /\ worker[w].pc \in {"error", "unrecoverable", "limit"}
    /\ LET j == worker[w].job
           end == Terminal(worker[w].pc, job[j].made + 1, TriesOf[j])
       IN IF Owns(w)
          THEN /\ job' = [job EXCEPT ![j].state = IF end THEN "failed" ELSE "delayed",
                                     ![j].holder = None, ![j].made = @ + 1,
                                     ![j].overLimit = worker[w].pc = "limit"]
               /\ reports' = IF end THEN reports \cup {<<w, j>>} ELSE reports
          ELSE UNCHANGED <<job, reports>>
    /\ worker' = [worker EXCEPT ![w] = Free(w)]
    /\ UNCHANGED <<batch, released, returned, faults>>

\* runner.failed and the observers of FailureReporter; what they throw is swallowed.
Report(w, j) ==
    /\ <<w, j>> \in reports
    /\ reports' = reports \ {<<w, j>>}
    /\ UNCHANGED <<job, batch, worker, released, returned, faults>>

\* stop(), or a signal to the command: no further job is taken, the call under way and
\* its report are awaited; work() is refused.
Stop(w) ==
    /\ worker[w].pc # "stopped" /\ ~worker[w].closing /\ Fault
    /\ worker' = [worker EXCEPT ![w].closing = TRUE]
    /\ UNCHANGED <<job, batch, released, returned, reports>>

\* mutant: the workers are closed and the reports not awaited.
DrainedClosed(w) == worker[w].pc = "idle"

Drained(w) == worker[w].pc = "idle" /\ \A j \in Jobs : <<w, j>> \notin reports

Drain(w) ==
    /\ worker[w].closing /\ Drained(w)
    /\ worker' = [worker EXCEPT ![w] = [Idle EXCEPT !.pc = "stopped"]]
    /\ UNCHANGED <<job, batch, released, returned, reports, faults>>

\* The command is started again.
Restart(w) ==
    /\ worker[w].pc = "stopped"
    /\ worker' = [worker EXCEPT ![w] = Idle]
    /\ UNCHANGED <<job, batch, released, returned, reports, faults>>
-----------------------------------------------------------------------------
(***************************************************************************)
(* BullMQ and the processes around it                                      *)
(***************************************************************************)

DelayPasses(j) ==
    /\ job[j].state = "delayed"
    /\ job' = [job EXCEPT ![j].state = "waiting"]
    /\ UNCHANGED <<batch, worker, released, returned, reports, faults>>

Stalled(j) == [job EXCEPT ![j].state = "waiting", ![j].holder = None, ![j].stalls = @ + 1]

\* The stalled check finds the job of a dead process ...
OrphanStalls(j) ==
    /\ job[j].state = "active" /\ job[j].holder = None
    /\ job' = Stalled(j)
    /\ UNCHANGED <<batch, worker, released, returned, reports, faults>>

\* ... or of a process too slow to extend its lock.
LockLost(j) ==
    /\ job[j].state = "active" /\ job[j].holder # None
    /\ Fault
    /\ job' = Stalled(j)
    /\ UNCHANGED <<batch, worker, released, returned, reports>>

WorkerDies(w) ==
    /\ worker[w].pc \notin {"idle", "stopped"} \/ \E j \in Jobs : <<w, j>> \in reports
    /\ Fault
    /\ job' = IF worker[w].pc # "idle" /\ Owns(w) THEN [job EXCEPT ![worker[w].job].holder = None] ELSE job
    /\ worker' = [worker EXCEPT ![w] = Idle]
    /\ reports' = {r \in reports : r[1] # w}
    /\ UNCHANGED <<batch, released, returned>>

\* BullMQQueue.cancelBatch; a second call changes nothing.
CancelBatch ==
    /\ batch = "running"
    /\ batch' = "cancelling"
    /\ UNCHANGED <<job, worker, released, returned, reports, faults>>

\* getDependencies of the coordinator, each child in one category: processed with the
\* result it returned, ignored because it failed, or still to come.
Processed(results) ==
    {c \in Children : job[c].state = "completed"
                      /\ (IF job[c].cancelled THEN "cancelled" ELSE "succeeded") \in results}
Ignored == {c \in Children : job[c].state = "failed"}
Unprocessed == Children \ (Processed({"succeeded", "cancelled"}) \cup Ignored)

\* BullMQQueue.batchStatus and queueBatchSnapshot
BatchStatus ==
    [succeeded |-> Cardinality(Processed({"succeeded"})), failed |-> Cardinality(Ignored),
     cancelled |-> Cardinality(Processed({"cancelled"})), pending |-> Cardinality(Unprocessed),
     state |-> IF Unprocessed # {} THEN batch
               ELSE IF Processed({"cancelled"}) # {} THEN "cancelled" ELSE "finished"]

\* mutant: children of a batch are not refused.
RetryableToo(j) == job[j].state = "failed"

\* BullMQDeadLetterAdapter.retry as far as it changes a job: a failed job is
\* taken up again with its counters as they are; children of a batch are refused.
Retryable(j) == job[j].state = "failed" /\ j \notin Children

DeadLetterRetry(j) ==
    /\ Retryable(j) /\ Fault
    /\ job' = [job EXCEPT ![j].state = "waiting", ![j].overLimit = FALSE]
    /\ UNCHANGED <<batch, worker, released, returned, reports>>

\* BullMQQueue.clear: obliterate also removes jobs that are active.
Clear ==
    /\ Fault
    /\ job' = [j \in Jobs |-> Absent]
    /\ batch' = "gone"
    /\ released' = [j \in Jobs |-> 0]
    /\ UNCHANGED <<worker, returned, reports>>
-----------------------------------------------------------------------------
WorkerStep(w) ==
    \/ CheckBatch(w) \/ HandlerReturns(w) \/ HandlerThrows(w)
    \/ HandlerObservesCancellation(w) \/ ConfirmCancellation(w)
    \/ AdvanceAdds(w) \/ AdvanceVerifies(w)
    \/ ReleaseRefused(w) \/ Release(w) \/ Complete(w) \/ Fail(w)
    \/ Drain(w) \/ Restart(w) \/ \E j \in Jobs : Report(w, j)

Next ==
    \/ \E w \in Workers : WorkerStep(w) \/ CallFails(w) \/ WorkerDies(w) \/ Stop(w)
    \/ \E w \in Workers, j \in Jobs : Take(w, j)
    \/ \E j \in Jobs : DelayPasses(j) \/ OrphanStalls(j) \/ LockLost(j) \/ DeadLetterRetry(j)
    \/ CancelBatch \/ Clear

Spec == Init /\ [][Next]_vars

\* Handlers settle, workers take what waits, delays pass, the stalled check runs.
Fairness ==
    /\ \A w \in Workers : WF_vars(WorkerStep(w)) /\ WF_vars(\E j \in Jobs : Take(w, j))
    /\ \A j \in Jobs : WF_vars(DelayPasses(j)) /\ WF_vars(OrphanStalls(j))

FairSpec == Spec /\ Fairness
-----------------------------------------------------------------------------
\* The shape of jobs and calls.
TypeOK ==
    /\ job \in [Jobs -> Job]
    /\ batch \in {"running", "cancelling", "gone"}
    /\ worker \in [Workers -> [pc : {"idle", "check", "run", "confirm", "advance", "verify", "release",
                                     "succeeded", "cancelled", "error", "unrecoverable", "limit", "stopped"},
                               job : Jobs \cup {None}, made : Nat, started : Nat, stalls : Nat,
                               closing : BOOLEAN]]
    /\ reports \subseteq Workers \X Jobs
    /\ released \in [Jobs -> Nat] /\ returned \subseteq Jobs
    /\ faults \in 0..MaxFaults

\* The release budget is exact although it is kept nowhere and is computed from
\* three counters that starts, failed attempts, stalls, deaths and dead-letter
\* retries move: no job is released more often, and none is failed for its
\* releases earlier.
ReleasesAreBudgeted ==
    \A j \in Jobs :
       /\ released[j] <= MaxReleases
       /\ job[j].overLimit => released[j] = MaxReleases

\* Whatever is rerun, lost or acknowledged late, a chain hands over exactly:
\* no step is admitted before the handler of its predecessor has returned, and
\* no step is completed without its successor having been admitted, unless
\* clear() has removed them.
ChainsHandOver ==
    \A j \in Jobs : NextOf[j] # None =>
       /\ job[NextOf[j]].state # "absent" => j \in returned
       /\ job[j].state = "completed" => job[NextOf[j]].state # "absent"

\* What batchStatus tells stays told: its counters only grow, and once no child
\* is pending the state is final, whatever is rerun after a stall, retried by an
\* operator or cancelled too late.  A child counts as cancelled only when the
\* cancellation was requested.
BatchStatusIsMonotone ==
    [][batch' # "gone" =>
          /\ \A field \in {"succeeded", "failed", "cancelled"} :
                BatchStatus[field] <= BatchStatus'[field]
          /\ BatchStatus.pending = 0 => BatchStatus'.state = BatchStatus.state
          /\ BatchStatus.cancelled > 0 => batch = "cancelling"]_vars

\* Both, and nobody is left in the dark: a failure that is final is heard of
\* by the observers although the worker that met it is stopped; only the death of the
\* process loses it.
WorkIsAccounted ==
    /\ ReleasesAreBudgeted /\ ChainsHandOver
    /\ \A r \in reports : r[1] \in Up

\* Every admitted job ends, however its attempts, releases and stalls mix, once
\* faults, retries, clears and stops are over.
EveryJobEnds == <>[](\A j \in Jobs : ~Live(j))
=============================================================================
