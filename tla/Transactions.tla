---------------------------- MODULE Transactions ----------------------------
(***************************************************************************)
(* Transactions and what follows their commit (packages/database-drizzle,  *)
(* DrizzleTransactionManager and DrizzleSyncTransactionManager, and        *)
(* database-queue, dispatchAfterCommit): the work registers hooks on its   *)
(* unit of work, the manager commits, and then runs the hooks in order,    *)
(* each of them a push to the queue.                                       *)
(*                                                                         *)
(* One transaction is followed.  Its work is a script that is chosen step  *)
(* by step: a write, a hook, a rollback-only mark, a failure that the work *)
(* catches or lets through.                                                *)
(***************************************************************************)
EXTENDS Integers, Sequences, SequencesExt

CONSTANTS
    MaxHooks,   \* bound: hooks a unit of work is given
    MaxWrites   \* bound: writes of the work

ASSUME TransactionsAssumption == MaxHooks \in Nat /\ MaxWrites \in Nat

VARIABLES
    transaction,  \* the manager: its kind, where it is, the rollback mark, the hooks
    database,     \* the writes of the open transaction, the committed ones, and all of them
    pushed,       \* the hooks whose push reached the queue, in order
    detached      \* writes an async work made after a synchronous manager had refused it

transactionVars == <<transaction, database, pushed, detached>>

TransactionsInit ==
    /\ transaction \in [kind : {"async", "sync"}, pc : {"working"}, marked : {"no"}, promise : BOOLEAN,
                        hooks : {0}, ran : {0}, outcome : {"none"}]
    /\ transaction.kind = "async" => transaction.promise
    /\ database = [open |-> 0, committed |-> 0, written |-> 0]
    /\ pushed = <<>>
    /\ detached = 0

InPhase(pc) == transaction.pc = pc
EndsWith(outcome) == transaction' = [transaction EXCEPT !.pc = "ended", !.outcome = outcome]

write ==
    /\ InPhase("working") /\ database.open < MaxWrites
    /\ database' = [database EXCEPT !.open = @ + 1, !.written = @ + 1]
    /\ UNCHANGED <<transaction, pushed, detached>>

\* unitOfWork.afterCommit, from the work, from a hook that runs, or too late.
afterCommit ==
    /\ transaction.hooks < MaxHooks
    /\ transaction.pc \in {"working", "hooks"}
    /\ transaction' = [transaction EXCEPT !.hooks = @ + 1]
    /\ UNCHANGED <<database, pushed, detached>>

\* The first mark is kept; an error that the work catches afterwards does not undo it.  A
\* mark that a hook makes comes after the commit.
markRollbackOnly ==
    /\ transaction.pc \in {"working", "hooks"} /\ transaction.marked = "no"
    /\ transaction' = [transaction EXCEPT !.marked = transaction.pc]
    /\ UNCHANGED <<database, pushed, detached>>

Committed == [database EXCEPT !.open = 0, !.committed = @ + database.open]
Rollback == database' = [database EXCEPT !.open = 0]

workThrows ==
    /\ InPhase("working")
    /\ Rollback
    /\ EndsWith("rejected")
    /\ UNCHANGED <<pushed, detached>>

\* A synchronous manager refuses a promise; the promise goes on without it.
refusePromise ==
    /\ InPhase("working") /\ transaction.kind = "sync" /\ transaction.promise
    /\ Rollback
    /\ EndsWith("rejected")
    /\ UNCHANGED <<pushed, detached>>

escapes ==
    /\ InPhase("ended") /\ transaction.outcome = "rejected" /\ transaction.kind = "sync" /\ transaction.promise
    /\ detached < MaxWrites
    /\ detached' = detached + 1
    /\ UNCHANGED <<transaction, database, pushed>>

\* mutant: a mark is an error that the work may catch.
CommitsWhenMarked == TRUE

\* What the callback of database.transaction ends with: a mark makes it throw.
CommitsUnlessMarked == transaction.marked = "no"

Returns == InPhase("working") /\ ~(transaction.kind = "sync" /\ transaction.promise)

\* The work returns, unmarked, and the database confirms the commit.
commit ==
    /\ Returns /\ CommitsUnlessMarked
    /\ database' = Committed
    /\ transaction' = [transaction EXCEPT !.pc = "hooks"]
    /\ UNCHANGED <<pushed, detached>>

rollbackOnly ==
    /\ Returns /\ ~CommitsUnlessMarked
    /\ Rollback
    /\ EndsWith("rejected")
    /\ UNCHANGED <<pushed, detached>>

\* The commit rejects: it was not done, or it was and the answer is lost.
commitFails ==
    /\ Returns /\ CommitsUnlessMarked
    /\ database' \in {[database EXCEPT !.open = 0], Committed}
    /\ EndsWith("rejected")
    /\ UNCHANGED <<pushed, detached>>

\* runHooks: one hook after the other, the ones that were added meanwhile included.
runHook ==
    /\ InPhase("hooks") /\ transaction.ran < transaction.hooks
    /\ transaction' = [transaction EXCEPT !.ran = @ + 1]
    /\ pushed' = Append(pushed, transaction.ran + 1)
    /\ UNCHANGED <<database, detached>>

\* queue.push rejects, and the queue has the job or not: the hooks that follow are not run.
dispatchFails ==
    /\ InPhase("hooks") /\ transaction.ran < transaction.hooks
    /\ pushed' \in {pushed, Append(pushed, transaction.ran + 1)}
    /\ EndsWith("dispatchFailed")
    /\ UNCHANGED <<database, detached>>

resolves ==
    /\ InPhase("hooks") /\ transaction.ran = transaction.hooks
    /\ EndsWith("resolved")
    /\ UNCHANGED <<database, pushed, detached>>

\* The process dies; an open transaction is rolled back, and hooks that were left are lost.
processDies ==
    /\ transaction.pc \in {"working", "hooks"}
    /\ Rollback
    /\ EndsWith("died")
    /\ UNCHANGED <<pushed, detached>>

TransactionsNext ==
    \/ write \/ afterCommit \/ markRollbackOnly \/ workThrows \/ refusePromise \/ escapes
    \/ commit \/ rollbackOnly \/ commitFails \/ runHook \/ dispatchFails \/ resolves \/ processDies

TransactionsSpec == TransactionsInit /\ [][TransactionsNext]_transactionVars

\* Types.
TransactionsTypeOK ==
    /\ transaction.pc \in {"working", "hooks", "ended"}
    /\ transaction.outcome \in {"none", "rejected", "resolved", "dispatchFailed", "died"}
    /\ transaction.hooks \in 0..MaxHooks /\ transaction.ran \in 0..transaction.hooks
    /\ database.open \in 0..MaxWrites /\ database.committed \in 0..MaxWrites /\ detached \in 0..MaxWrites
    /\ database.written \in 0..MaxWrites

\* What a caller may conclude from how a transaction ended (transaction, runHooks,
\* dispatchAfterCommit): jobs are pushed in the order of their hooks and never for a
\* unit of work that its work marked or that was rolled back; a transaction that resolved has pushed
\* every job; AfterCommitQueueDispatchError means that the writes are committed; and
\* only a promise that a synchronous manager refused writes after its rejection.
HooksFollowCommits ==
    /\ pushed = SubSeq([i \in 1..MaxHooks |-> i], 1, Len(pushed))
    /\ transaction.marked = "working" => pushed = <<>> /\ database.committed = 0
    /\ transaction.outcome = "rejected" => pushed = <<>>
    /\ transaction.outcome = "resolved" => Len(pushed) = transaction.hooks
    /\ transaction.outcome \in {"resolved", "dispatchFailed"} => database.committed = database.written
    /\ detached > 0 => transaction.kind = "sync" /\ transaction.promise
=============================================================================
