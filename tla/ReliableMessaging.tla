-------------------------- MODULE ReliableMessaging --------------------------
(***************************************************************************)
(* From the outbox to the handler: OutboxProcessor and OutboxWorker        *)
(* (packages/reliability/src/index.ts) publish outbox rows to a queue with *)
(* createQueueOutboxDelivery, and ReliableMessageJob                       *)
(* (packages/reliability-queue/src/runtime) hands each message to the      *)
(* InboxConsumer, which runs the registered handler.                       *)
(*                                                                         *)
(* The queue itself is seen through what its callers rely on: a job id is  *)
(* admitted once while its job exists, a job runs until it ends without an *)
(* error or its tries are used up, and a job whose worker disappears is    *)
(* run again.                                                              *)
(***************************************************************************)
EXTENDS MessageStore, FiniteSets

CONSTANTS
    Messages,     \* message ids
    Processors,   \* OutboxWorker processes
    Consumers,    \* queue workers that run ReliableMessageJob
    Concurrency,  \* rows a processor claims at once
    Limit,        \* rows a processor claims in one pass
    OutboxAttempts, InboxAttempts,  \* maxAttempts of the processor and of the consumer
    Tries,        \* ReliableMessageJob.tries
    MaxFaults,    \* bound: crashes, lost leases, stalled jobs, failed store calls
    MaxAppends    \* bound: appends of a message (again after it was pruned)

ASSUME MessagingAssumption ==
    /\ Concurrency \in Nat \ {0} /\ Limit \in Nat \ {0}
    /\ OutboxAttempts \in Nat \ {0} /\ InboxAttempts \in Nat \ {0} /\ Tries \in Nat \ {0}
    /\ MaxFaults \in Nat /\ MaxAppends \in Nat

VARIABLES
    outbox, inbox,  \* the two kinds of rows
    tasks,          \* outbox rows being handled: one asynchronous task each
    pass,           \* pass[p]: the current runOnce() of p
    job,            \* job[m]: the queue's job with the id derived from m
    consumer,       \* consumer[c]: the job c runs
    effects,        \* history: handler runs that took effect
    lapses,         \* history: inbox claims whose outcome was lost
    faults          \* how much of MaxFaults is used up

vars == <<outbox, inbox, tasks, pass, job, consumer, effects, lapses, faults>>

Task == [p : Processors, m : Messages, token : Nat \X Nat,
         pc : {"delivering", "settling"},
         result : {"none", "ok", "retryable", "fatal", "thrown"}, leaseLost : BOOLEAN]

\* open: the pass may claim another batch; taken: excludeIds.
NewPass == [open |-> TRUE, taken |-> {}]

IdleConsumer == [pc |-> "idle", m |-> "none", token |-> <<0, 0>>,
                 result |-> "none", leaseLost |-> FALSE]

ConsumerState ==
    [pc : {"idle", "claiming", "reclaiming", "handling", "settling"},
     m : Messages \cup {"none"}, token : Nat \X Nat,
     result : {"none", "ok", "retryable", "fatal"}, leaseLost : BOOLEAN]

Job == [state : {"none", "waiting", "active", "done", "failed"}, tries : 0..Tries]

Init ==
    /\ outbox = [m \in Messages |-> AbsentRow]
    /\ inbox = [m \in Messages |-> AbsentRow]
    /\ tasks = {}
    /\ pass = [p \in Processors |-> NewPass]
    /\ job = [m \in Messages |-> [state |-> "none", tries |-> 0]]
    /\ consumer = [c \in Consumers |-> IdleConsumer]
    /\ effects = [m \in Messages |-> 0]
    /\ lapses = [m \in Messages |-> 0]
    /\ faults = 0

Fault == faults < MaxFaults /\ faults' = faults + 1
Lapse(m) == lapses' = [lapses EXCEPT ![m] = @ + 1]

Append(m) ==
    /\ outbox[m].state = "absent"
    /\ outbox[m].epoch < MaxAppends
    /\ outbox' = [outbox EXCEPT ![m] = AppendedRow(@.epoch + 1)]
    /\ UNCHANGED <<inbox, tasks, pass, job, consumer, effects, lapses, faults>>

\* prune of the outbox: a delivered or dead row goes, and its id may then be appended and
\* published again (only then does pruning matter, so the bound of Append bounds it as well).
\* The inbox is pruned by a cutoff of its own, completedBefore, which is taken to outlast
\* the redelivery of a message: without its receipt a repeated message is a new one.
PruneOutbox(m) ==
    /\ Terminal(outbox[m])
    /\ outbox[m].epoch < MaxAppends
    /\ outbox' = [outbox EXCEPT ![m] = [AbsentRow EXCEPT !.epoch = outbox[m].epoch]]
    /\ UNCHANGED <<inbox, tasks, pass, job, consumer, effects, lapses, faults>>

\* A task or a consumer whose token the row carries.
OwnsOutbox(t, m) == /\ t.m = m /\ t.token = TokenOf(outbox[m])
                    /\ outbox[m].state = "processing"
OwnsInbox(c, m) == /\ consumer[c].pc \in {"handling", "settling"}
                   /\ consumer[c].m = m /\ consumer[c].token = TokenOf(inbox[m])
                   /\ inbox[m].state = "processing"

(***************************************************************************)
(* OutboxProcessor.runOnce: claim a batch, handle its rows concurrently,   *)
(* wait for all of them, claim the next batch.                             *)
(***************************************************************************)
InFlight(p) == {t \in tasks : t.p = p}

ClaimableFor(p) == {m \in Messages : Claimable(outbox[m]) /\ m \notin pass[p].taken}

Capacity(p) == IF Concurrency < Limit - Cardinality(pass[p].taken)
               THEN Concurrency ELSE Limit - Cardinality(pass[p].taken)

NewTask(p, m) == [p |-> p, m |-> m, token |-> TokenOf(Taken(outbox[m])), pc |-> "delivering",
                  result |-> "none", leaseLost |-> FALSE]

ClaimBatch(p) ==
    /\ pass[p].open
    /\ InFlight(p) = {}
    /\ Cardinality(pass[p].taken) < Limit
    /\ \E rows \in SUBSET ClaimableFor(p) :
          /\ rows # {}
          /\ Cardinality(rows) <= Capacity(p)
          /\ Cardinality(rows) < Capacity(p) => rows = ClaimableFor(p)
          /\ outbox' = [m \in Messages |-> IF m \in rows THEN Taken(outbox[m]) ELSE outbox[m]]
          /\ tasks' = tasks \cup {NewTask(p, m) : m \in rows}
          /\ pass' = [pass EXCEPT ![p] = [open |-> Cardinality(rows) = Capacity(p),
                                          taken |-> @.taken \cup rows]]
    /\ UNCHANGED <<inbox, job, consumer, effects, lapses, faults>>

\* The pass is over: nothing left to claim, a short batch, or the limit.
\* OutboxWorker.run starts the next one after its interval.
PassEnds(p) ==
    /\ InFlight(p) = {}
    /\ pass[p].taken # {}
    /\ \/ ~pass[p].open
       \/ Cardinality(pass[p].taken) >= Limit
       \/ ClaimableFor(p) = {}
    /\ pass' = [pass EXCEPT ![p] = NewPass]
    /\ UNCHANGED <<outbox, inbox, tasks, job, consumer, effects, lapses, faults>>

\* queue.push with the id derived from the message: ignored while the job exists.
Pushed(m) ==
    job' = [job EXCEPT ![m] = IF @.state = "none" THEN [state |-> "waiting", tries |-> 0] ELSE @]

Replace(t, u) == tasks' = (tasks \ {t}) \cup {u}

\* createQueueOutboxDelivery never throws: a push that fails is retryable
\* (whether or not the queue admitted the job) or, for a TypeError, final.
\* A delivery passed to the processor directly may also throw.
Deliver(t) ==
    /\ t.pc = "delivering"
    /\ \E result \in {"ok", "retryable", "fatal", "thrown"} :
          /\ Replace(t, [t EXCEPT !.pc = "settling", !.result = result])
          /\ \/ result \in {"ok", "retryable", "thrown"} /\ Pushed(t.m)
             \/ result \in {"retryable", "fatal", "thrown"} /\ UNCHANGED job
    /\ UNCHANGED <<outbox, inbox, pass, consumer, effects, lapses, faults>>

\* The heartbeat finds the lease gone, or cannot reach the store.
TaskRenewFails(t) ==
    /\ t.pc = "delivering" /\ ~t.leaseLost
    /\ IF Fenced(outbox[t.m], t.token) THEN Fault ELSE UNCHANGED faults
    /\ Replace(t, [t EXCEPT !.leaseLost = TRUE])
    /\ UNCHANGED <<outbox, inbox, pass, job, consumer, effects, lapses>>

\* Whether the row is delivered, goes back to pending or dies.
OutcomeOf(result, attempts, maxAttempts) ==
    IF result = "ok" THEN "delivered"
    ELSE IF result = "fatal" \/ attempts >= maxAttempts THEN "dead"
    ELSE "pending"

\* The transition at the end of a task.  Refused for a lost lease, it is
\* reported and the pass goes on ("lease-lost", "delivered-ack-unknown",
\* "ack-failed"), except after a delivery that threw: then runOnce rejects,
\* OutboxWorker.run ends with the error and the process is started anew.
SettleTask(t) ==
    /\ t.pc = "settling"
    /\ tasks' = tasks \ {t}
    /\ IF ~t.leaseLost /\ Fenced(outbox[t.m], t.token)
       THEN /\ outbox' = [outbox EXCEPT ![t.m] =
                  Settled(@, OutcomeOf(t.result, t.token[2], OutboxAttempts))]
            /\ UNCHANGED pass
       ELSE /\ pass' = IF ~t.leaseLost /\ t.result = "thrown"
                       THEN [pass EXCEPT ![t.p] = NewPass] ELSE pass
            /\ UNCHANGED outbox
    /\ UNCHANGED <<inbox, job, consumer, effects, lapses, faults>>

\* The store call at the end of the task fails and writes nothing, or the
\* aborted delivery rejects ("cancelled").
TaskFails(t) ==
    /\ t.pc = "settling"
    /\ Fault
    /\ tasks' = tasks \ {t}
    /\ pass' \in {pass} \cup
                 (IF t.result = "thrown" THEN {[pass EXCEPT ![t.p] = NewPass]} ELSE {})
    /\ UNCHANGED <<outbox, inbox, job, consumer, effects, lapses>>

\* The process dies and is started anew.
ProcessorDies(p) ==
    /\ InFlight(p) # {}
    /\ Fault
    /\ tasks' = tasks \ InFlight(p)
    /\ pass' = [pass EXCEPT ![p] = NewPass]
    /\ UNCHANGED <<outbox, inbox, job, consumer, effects, lapses>>

(***************************************************************************)
(* ReliableMessageJob.handle and InboxConsumer.consume.                    *)
(***************************************************************************)
TakeJob(c, m) ==
    /\ consumer[c].pc = "idle"
    /\ job[m].state = "waiting"
    /\ job' = [job EXCEPT ![m] = [state |-> "active", tries |-> @.tries + 1]]
    /\ consumer' = [consumer EXCEPT ![c] = [IdleConsumer EXCEPT !.pc = "claiming", !.m = m]]
    /\ UNCHANGED <<outbox, inbox, tasks, pass, effects, lapses, faults>>

\* mutant: busy and retry end the job like a success.
JobAfterForgetsBusy(j, result) == [j EXCEPT !.state = "done"]

\* The job ends when consume() answered delivered, duplicate or dead; busy,
\* retry and an error (QueueRetryError) leave it to its next try.
JobAfter(j, result) ==
    [j EXCEPT !.state = IF result \in {"delivered", "duplicate", "dead"} THEN "done"
                        ELSE IF j.tries < Tries THEN "waiting" ELSE "failed"]

\* A worker whose job was taken away (stalled) no longer decides about it.
EndJob(c, result) ==
    LET m == consumer[c].m IN
    /\ consumer' = [consumer EXCEPT ![c] = IdleConsumer]
    /\ job' = IF job[m].state = "active" THEN [job EXCEPT ![m] = JobAfter(@, result)] ELSE job

Reclaim(c, m) ==
    /\ inbox' = [inbox EXCEPT ![m] = Taken(@)]
    /\ consumer' = [consumer EXCEPT ![c] = [@ EXCEPT !.pc = "handling",
                                                     !.token = TokenOf(inbox'[m])]]
    /\ UNCHANGED job

\* The insert that takes an unknown message, or the read after its conflict.
ClaimInbox(c) ==
    LET m == consumer[c].m IN
    /\ consumer[c].pc = "claiming"
    /\ IF inbox[m].state = "absent" THEN Reclaim(c, m)
       ELSE IF InboxRead(inbox[m]) = "claimable"
       THEN /\ consumer' = [consumer EXCEPT ![c] = [@ EXCEPT !.pc = "reclaiming"]]
            /\ UNCHANGED <<inbox, job>>
       ELSE EndJob(c, InboxRead(inbox[m])) /\ UNCHANGED inbox
    /\ UNCHANGED <<outbox, tasks, pass, effects, lapses, faults>>

\* The conditional update; another consumer may have been faster.
ReclaimInbox(c) ==
    LET m == consumer[c].m IN
    /\ consumer[c].pc = "reclaiming"
    /\ IF Claimable(inbox[m]) THEN Reclaim(c, m)
       ELSE EndJob(c, "busy") /\ UNCHANGED inbox
    /\ UNCHANGED <<outbox, tasks, pass, effects, lapses, faults>>

ConsumerRenewFails(c) ==
    /\ consumer[c].pc = "handling" /\ ~consumer[c].leaseLost
    /\ IF Fenced(inbox[consumer[c].m], consumer[c].token)
       THEN Fault /\ Lapse(consumer[c].m) ELSE UNCHANGED <<faults, lapses>>
    /\ consumer' = [consumer EXCEPT ![c].leaseLost = TRUE]
    /\ UNCHANGED <<outbox, inbox, tasks, pass, job, effects>>

\* The registered handler ends; a type without a handler is a fatal failure.
Handle(c) ==
    /\ consumer[c].pc = "handling"
    /\ \E result \in {"ok", "retryable", "fatal"} :
          /\ consumer' = [consumer EXCEPT ![c] = [@ EXCEPT !.pc = "settling", !.result = result]]
          /\ effects' = IF result = "ok" THEN [effects EXCEPT ![consumer[c].m] = @ + 1]
                        ELSE effects
    /\ UNCHANGED <<outbox, inbox, tasks, pass, job, lapses, faults>>

\* A lost lease makes the call busy; a refused transition rejects it.  When
\* delivered() is refused the call goes through retry() or dead() as well, and
\* the same fence refuses those.
SettleInbox(c) ==
    LET s == consumer[c]
        outcome == OutcomeOf(s.result, s.token[2], InboxAttempts)
    IN  /\ s.pc = "settling"
        /\ IF ~s.leaseLost /\ Fenced(inbox[s.m], s.token)
           THEN /\ inbox' = [inbox EXCEPT ![s.m] = Settled(@, outcome)]
                /\ EndJob(c, IF outcome = "pending" THEN "retry" ELSE outcome)
           ELSE EndJob(c, "busy") /\ UNCHANGED inbox
        /\ UNCHANGED <<outbox, tasks, pass, effects, lapses, faults>>

\* The call of delivered() fails and writes nothing while the lease is live:
\* consume() treats a handled message like a failed one.
AckFails(c) ==
    /\ consumer[c].pc = "settling" /\ consumer[c].result = "ok" /\ ~consumer[c].leaseLost
    /\ Fault
    /\ IF Fenced(inbox[consumer[c].m], consumer[c].token) THEN Lapse(consumer[c].m)
       ELSE UNCHANGED lapses
    /\ consumer' = [consumer EXCEPT ![c].result = "retryable"]
    /\ UNCHANGED <<outbox, inbox, tasks, pass, job, effects>>

(***************************************************************************)
(* The queue takes a job back from a worker that died or stopped answering *)
(* (external: BullMQ).                                                     *)
(***************************************************************************)
Requeued(m) ==
    job' = IF job[m].state = "active"
           THEN [job EXCEPT ![m].state = IF job[m].tries < Tries THEN "waiting" ELSE "failed"]
           ELSE job

ConsumerDies(c) ==
    /\ consumer[c].pc # "idle"
    /\ Fault
    /\ consumer' = [consumer EXCEPT ![c] = IdleConsumer]
    /\ Requeued(consumer[c].m)
    /\ IF OwnsInbox(c, consumer[c].m) /\ ~consumer[c].leaseLost THEN Lapse(consumer[c].m)
       ELSE UNCHANGED lapses
    /\ UNCHANGED <<outbox, inbox, tasks, pass, effects>>

JobStalls(m) ==
    /\ job[m].state = "active"
    /\ Fault
    /\ Requeued(m)
    /\ UNCHANGED <<outbox, inbox, tasks, pass, consumer, effects, lapses>>

\* removeOnComplete: the id of a finished job may be admitted again.
JobRemoved(m) ==
    /\ job[m].state = "done"
    /\ job' = [job EXCEPT ![m] = [state |-> "none", tries |-> 0]]
    /\ UNCHANGED <<outbox, inbox, tasks, pass, consumer, effects, lapses, faults>>

(***************************************************************************)
(* Time.  A live owner renews its lease; losing it is a fault.             *)
(***************************************************************************)
OutboxLeaseExpires(m) ==
    /\ outbox[m].state = "processing" /\ outbox[m].live
    /\ IF \E t \in tasks : OwnsOutbox(t, m) THEN Fault ELSE UNCHANGED faults
    /\ outbox' = [outbox EXCEPT ![m].live = FALSE]
    /\ UNCHANGED <<inbox, tasks, pass, job, consumer, effects, lapses>>

InboxLeaseExpires(m) ==
    /\ inbox[m].state = "processing" /\ inbox[m].live
    /\ IF \E c \in Consumers : OwnsInbox(c, m) /\ ~consumer[c].leaseLost
       THEN Fault /\ Lapse(m) ELSE UNCHANGED <<faults, lapses>>
    /\ inbox' = [inbox EXCEPT ![m].live = FALSE]
    /\ UNCHANGED <<outbox, tasks, pass, job, consumer, effects>>

OutboxBecomesDue(m) ==
    /\ outbox[m].state = "pending" /\ ~outbox[m].due
    /\ outbox' = [outbox EXCEPT ![m].due = TRUE]
    /\ UNCHANGED <<inbox, tasks, pass, job, consumer, effects, lapses, faults>>

InboxBecomesDue(m) ==
    /\ inbox[m].state = "pending" /\ ~inbox[m].due
    /\ inbox' = [inbox EXCEPT ![m].due = TRUE]
    /\ UNCHANGED <<outbox, tasks, pass, job, consumer, effects, lapses, faults>>

ProcessorStep(p) == ClaimBatch(p) \/ PassEnds(p)
TaskStep(t) == Deliver(t) \/ SettleTask(t)
ConsumerStep(c) ==
    \/ \E m \in Messages : TakeJob(c, m)
    \/ ClaimInbox(c) \/ ReclaimInbox(c) \/ Handle(c) \/ SettleInbox(c)
MessageStep(m) ==
    OutboxLeaseExpires(m) \/ InboxLeaseExpires(m) \/ OutboxBecomesDue(m) \/ InboxBecomesDue(m)

Next ==
    \/ \E p \in Processors : ProcessorStep(p) \/ ProcessorDies(p)
    \/ \E t \in tasks : TaskStep(t) \/ TaskRenewFails(t) \/ TaskFails(t)
    \/ \E c \in Consumers :
          ConsumerStep(c) \/ ConsumerRenewFails(c) \/ AckFails(c) \/ ConsumerDies(c)
    \/ \E m \in Messages :
          Append(m) \/ PruneOutbox(m) \/ JobStalls(m) \/ JobRemoved(m) \/ MessageStep(m)

Spec == Init /\ [][Next]_vars

\* Supervised processes keep running, promises settle, deadlines pass.
Fairness ==
    /\ \A p \in Processors : WF_vars(ProcessorStep(p))
    /\ \A p \in Processors, m \in Messages :
          WF_vars(\E t \in tasks : t.p = p /\ t.m = m /\ TaskStep(t))
    /\ \A c \in Consumers : WF_vars(ConsumerStep(c))
    /\ \A m \in Messages :
          /\ WF_vars(OutboxLeaseExpires(m)) /\ WF_vars(InboxLeaseExpires(m))
          /\ WF_vars(OutboxBecomesDue(m)) /\ WF_vars(InboxBecomesDue(m))

FairSpec == Spec /\ Fairness
-----------------------------------------------------------------------------
\* Rows, tasks and calls keep the shape of the code's records.
TypeOK ==
    /\ outbox \in [Messages -> Row] /\ inbox \in [Messages -> Row]
    /\ tasks \subseteq Task
    /\ pass \in [Processors -> [open : BOOLEAN, taken : SUBSET Messages]]
    /\ job \in [Messages -> Job]
    /\ consumer \in [Consumers -> ConsumerState]
    /\ effects \in [Messages -> Nat] /\ lapses \in [Messages -> Nat]
    /\ faults \in 0..MaxFaults

\* A message the outbox calls delivered, or whose job ended without an error,
\* is settled or still in the hands of the queue: no acknowledgement is given
\* for a message that a crashed or slow consumer may still have to process.
NothingForgotten ==
    \A m \in Messages :
        /\ outbox[m].state = "delivered" =>
              Terminal(inbox[m]) \/ job[m].state \in {"waiting", "active", "failed"}
        /\ job[m].state = "done" => Terminal(inbox[m])

\* "At least once" is once, except that every further effect is paid for by a
\* claim whose outcome was lost (a crash, an expired lease, a failed call):
\* republished messages, stalled jobs run twice and refused acknowledgements
\* of the outbox never repeat an effect.
DuplicatesArePaid == \A m \in Messages : effects[m] <= 1 + lapses[m]

\* A claim is given up by expiry or by its owner: no stale task, consumer or
\* second claim moves a row under a live lease of another (the fences of update and
\* transition). What changes such a row is the end of the task or call that owns it, or
\* the lease running out, which changes nothing else of the row.
ClaimsAreRespected ==
    [][\A m \in Messages :
         /\ \A t \in tasks : OwnsOutbox(t, m) /\ outbox'[m] # outbox[m] =>
               \/ t \notin tasks' \/ ~outbox[m].live
               \/ outbox'[m] = [outbox[m] EXCEPT !.live = FALSE]
         /\ \A c \in Consumers : OwnsInbox(c, m) /\ inbox'[m] # inbox[m] =>
               \/ consumer'[c].pc = "idle" \/ ~inbox[m].live
               \/ inbox'[m] = [inbox[m] EXCEPT !.live = FALSE]]_vars

\* maxAttempts is checked when an attempt ends, not when it is claimed: a row
\* is claimed more often only for claims whose outcome was lost.
RetriesAreBounded ==
    \A m \in Messages : /\ inbox[m].attempts <= InboxAttempts + lapses[m]
                        /\ outbox[m].attempts <= OutboxAttempts + faults

\* What the outbox, the queue and the inbox promise together of a message, whatever
\* dies, stalls or lapses on the way: not lost, repeated only for a lost claim, and
\* given up within its budget.
MessagesAreAccounted == NothingForgotten /\ DuplicatesArePaid /\ RetriesAreBounded

\* Every appended message ends handled, dead (outbox or inbox), or in the
\* queue's failed jobs.
EveryMessageSettles ==
    \A m \in Messages :
        outbox[m].state = "pending" ~>
            Terminal(inbox[m]) \/ outbox[m].state = "dead" \/ job[m].state = "failed"
=============================================================================
