----------------------------- MODULE Idempotency -----------------------------
(***************************************************************************)
(* HTTP requests with one Idempotency-Key: IdempotencyMiddleware           *)
(* (packages/idempotency/src/runtime/server) over an IdempotencyStore, in  *)
(* memory (packages/idempotency/src/runtime/store.ts) or SQL               *)
(* (packages/idempotency-drizzle/src/base.ts).                             *)
(*                                                                         *)
(* A request is one call of handle(); it draws a fresh lease token, so the *)
(* request itself stands for its token and for the response it produces.   *)
(* Time enters as two facts about the record: leaseExpiresAt > now (live)  *)
(* and expiresAt > now (kept).                                             *)
(***************************************************************************)
EXTENDS Integers

CONSTANTS
    Requests,     \* calls of handle() with this key
    Fingerprints,
    FingerprintOf,
    RetryFailed,  \* failurePolicy is 'retry'
    MaxFaults,    \* bound: crashes, leases lost by a live owner, failed store calls
    None          \* no request

ASSUME IdempotencyAssumption ==
    /\ FingerprintOf \in [Requests -> Fingerprints]
    /\ RetryFailed \in BOOLEAN
    /\ MaxFaults \in Nat
    /\ None \notin Requests

VARIABLES
    record,    \* the row of the key
    request,   \* request[r]: where the call is and what it answered
    lapsed,    \* history: the calls whose lease or whose acquire was lost
    period,    \* history: how often a finished record outlived its retention
    faults

idempotencyVars == <<record, request, lapsed, period, faults>>

Record == [state : {"absent", "processing", "completed", "failed"},
           fingerprint : Fingerprints \cup {None}, token : Requests \cup {None},
           live : BOOLEAN, kept : BOOLEAN, response : Requests \cup {None}]

Answers == {"none", "result", "replay", "conflict", "processing", "failed", "lost", "error"}

\* answered: whose response the caller received, and in which period.
Call == [pc : {"new", "running", "completing", "failing", "ended"}, answer : Answers,
         response : Requests \cup {None}, period : Nat, ownershipLost : BOOLEAN]

IdempotencyInit ==
    /\ record = [state |-> "absent", fingerprint |-> None, token |-> None,
                 live |-> FALSE, kept |-> FALSE, response |-> None]
    /\ request = [r \in Requests |->
          [pc |-> "new", answer |-> "none", response |-> None, period |-> 0,
           ownershipLost |-> FALSE]]
    /\ lapsed = {}
    /\ period = 0
    /\ faults = 0

Fault == faults < MaxFaults /\ faults' = faults + 1

(***************************************************************************)
(* The store.                                                              *)
(***************************************************************************)
\* InMemoryIdempotencyStore.acquire: its early returns, in order.
AcquireOutcome(rec, fingerprint) ==
    IF rec.state = "absent" \/ ~rec.kept THEN "acquired"
    ELSE IF rec.fingerprint # fingerprint THEN "conflict"
    ELSE IF rec.state = "completed" THEN "replay"
    ELSE IF rec.state = "failed" THEN IF RetryFailed THEN "acquired" ELSE "failed"
    ELSE IF ~rec.live THEN "acquired" ELSE "processing"

\* DrizzleIdempotencyStore.acquire: which conflicting rows the upsert takes
\* over, and how the others are reported.
Eligible(rec, fingerprint) ==
    \/ ~rec.kept
    \/ /\ rec.fingerprint = fingerprint
       /\ \/ rec.state = "processing" /\ ~rec.live
          \/ rec.state = "failed" /\ RetryFailed

DrizzleOutcome(rec, fingerprint) ==
    CASE rec.state = "absent" \/ Eligible(rec, fingerprint) -> "acquired"
      [] OTHER ->
           IF rec.fingerprint # fingerprint THEN "conflict"
           ELSE IF rec.state = "completed" THEN "replay" ELSE rec.state

\* A processing record expires with its lease, not with the retention.
Processing(r) == [state |-> "processing", fingerprint |-> FingerprintOf[r], token |-> r,
                  live |-> TRUE, kept |-> TRUE, response |-> None]

\* mutant: complete and fail do not compare the lease token.
HeldByState(rec, r) == rec.state = "processing" /\ rec.live

HeldBy(rec, r) == rec.state = "processing" /\ rec.token = r /\ rec.live

Finished(rec, state, response) ==
    [rec EXCEPT !.state = state, !.live = FALSE, !.response = response]

Complete(r) == IF HeldBy(record, r) THEN Finished(record, "completed", r) ELSE record
Fail(r) == IF HeldBy(record, r) THEN Finished(record, "failed", None) ELSE record

(***************************************************************************)
(* IdempotencyMiddleware.handle.                                           *)
(***************************************************************************)
End(r, answer) == [request[r] EXCEPT !.pc = "ended", !.answer = answer]

Acquire(r) ==
    LET outcome == AcquireOutcome(record, FingerprintOf[r]) IN
    /\ request[r].pc = "new"
    /\ record' = IF outcome = "acquired" THEN Processing(r) ELSE record
    /\ request' = [request EXCEPT ![r] =
          CASE outcome = "acquired" -> [@ EXCEPT !.pc = "running"]
            [] outcome = "replay" -> [End(r, "replay") EXCEPT !.response = record.response,
                                                              !.period = period]
            [] OTHER -> End(r, outcome)]
    /\ UNCHANGED <<lapsed, period, faults>>

\* The call of acquire fails, before or after the store has written.
AcquireFails(r) ==
    /\ request[r].pc = "new"
    /\ Fault
    /\ record' \in {record} \cup
          (IF AcquireOutcome(record, FingerprintOf[r]) = "acquired" THEN {Processing(r)} ELSE {})
    /\ request' = [request EXCEPT ![r] = End(r, "error")]
    /\ lapsed' = lapsed \cup {r}
    /\ UNCHANGED period

\* The heartbeat: the lease is gone, or the store cannot be reached.
RenewFails(r) ==
    /\ request[r].pc = "running" /\ ~request[r].ownershipLost
    /\ IF HeldBy(record, r) THEN Fault ELSE UNCHANGED faults
    /\ request' = [request EXCEPT ![r].ownershipLost = TRUE]
    /\ UNCHANGED <<record, lapsed, period>>

Failing(r, answer) == [request[r] EXCEPT !.pc = "failing", !.answer = answer]

\* next() returns; the result of a call whose lease is known to be lost is dropped.
HandlerReturns(r) ==
    /\ request[r].pc = "running"
    /\ request' = [request EXCEPT ![r] =
          IF @.ownershipLost THEN Failing(r, "lost") ELSE [@ EXCEPT !.pc = "completing"]]
    /\ UNCHANGED <<record, lapsed, period, faults>>

\* next() throws, or capture() refuses its result (streamed, too large, not JSON).
HandlerThrows(r) ==
    /\ request[r].pc = "running"
    /\ request' = [request EXCEPT ![r] = Failing(r, "error")]
    /\ UNCHANGED <<record, lapsed, period, faults>>

StoreCompletes(r) ==
    /\ request[r].pc = "completing"
    /\ record' = Complete(r)
    /\ request' = [request EXCEPT ![r] =
          IF HeldBy(record, r)
          THEN [End(r, "result") EXCEPT !.response = r, !.period = period]
          ELSE Failing(r, "lost")]
    /\ UNCHANGED <<lapsed, period, faults>>

\* complete() rejects, before or after the store has written.
CompleteFails(r) ==
    /\ request[r].pc = "completing"
    /\ Fault
    /\ record' \in {record, Complete(r)}
    /\ request' = [request EXCEPT ![r] = Failing(r, "error")]
    /\ UNCHANGED <<lapsed, period>>

\* The catch block: fail(), whatever it answers, then the error is rethrown.
StoreFails(r) ==
    /\ request[r].pc = "failing"
    /\ record' = Fail(r)
    /\ request' = [request EXCEPT ![r].pc = "ended"]
    /\ UNCHANGED <<lapsed, period, faults>>

\* fail() rejects without having written: the record stays until its lease ends.
FailFails(r) ==
    /\ request[r].pc = "failing"
    /\ Fault
    /\ request' = [request EXCEPT ![r].pc = "ended"]
    /\ UNCHANGED <<record, lapsed, period>>

Crash(r) ==
    /\ request[r].pc \in {"running", "completing", "failing"}
    /\ Fault
    /\ request' = [request EXCEPT ![r] = End(r, "error")]
    /\ UNCHANGED <<record, lapsed, period>>

(***************************************************************************)
(* Time.                                                                   *)
(***************************************************************************)
\* leaseExpiresAt and expiresAt of a processing record are the same instant.
LeaseExpires ==
    /\ record.state = "processing" /\ record.live
    /\ IF request[record.token].pc = "ended" THEN UNCHANGED faults ELSE Fault
    /\ record' = [record EXCEPT !.live = FALSE, !.kept = FALSE]
    /\ lapsed' = lapsed \cup {record.token}
    /\ UNCHANGED <<request, period>>

RetentionEnds ==
    /\ record.state \in {"completed", "failed"} /\ record.kept
    /\ record' = [record EXCEPT !.kept = FALSE]
    /\ period' = period + 1
    /\ UNCHANGED <<request, lapsed, faults>>

IdempotencyNext ==
    \/ \E r \in Requests :
          \/ Acquire(r) \/ AcquireFails(r) \/ RenewFails(r)
          \/ HandlerReturns(r) \/ HandlerThrows(r)
          \/ StoreCompletes(r) \/ CompleteFails(r) \/ StoreFails(r) \/ FailFails(r)
          \/ Crash(r)
    \/ LeaseExpires \/ RetentionEnds

IdempotencySpec == IdempotencyInit /\ [][IdempotencyNext]_idempotencyVars

-----------------------------------------------------------------------------
\* The record and the calls keep the shape of the code's records.
IdempotencyTypeOK ==
    /\ record \in Record
    /\ request \in [Requests -> Call]
    /\ lapsed \subseteq Requests
    /\ period \in Nat
    /\ faults \in 0..MaxFaults

\* Within one retention period all successful answers for the key, computed
\* or replayed, are the response of one execution, and that execution was of
\* the same request (method, route, principal, body): a stale owner that
\* finishes late never gets a second response out.
AnswersAgree ==
    \A r, s \in Requests :
        /\ request[r].answer \in {"result", "replay"} =>
              /\ request[r].response \in Requests
              /\ FingerprintOf[request[r].response] = FingerprintOf[r]
        /\ /\ request[r].answer \in {"result", "replay"}
           /\ request[s].answer \in {"result", "replay"}
           /\ request[r].period = request[s].period
           => request[r].response = request[s].response

\* The application handler runs twice at the same time only after the first
\* of the two calls has lost its lease; with a live lease everyone else is
\* turned away.
OneOwnerRuns ==
    \A r, s \in Requests :
        r # s /\ request[r].pc = "running" /\ request[s].pc = "running" =>
            r \in lapsed \/ s \in lapsed

\* The in-memory and the SQL store answer every request alike.
StoresAgree ==
    \A r \in Requests :
        request[r].pc = "new" =>
            AcquireOutcome(record, FingerprintOf[r]) = DrizzleOutcome(record, FingerprintOf[r])

\* What a client may rely on, with either store: one answer per key and period, one owner
\* at a time.
KeysAreExclusive == AnswersAgree /\ OneOwnerRuns /\ StoresAgree

\* "Reusing a key with another fingerprint returns 409": the record of a
\* request that has not finished is not handed to a different request.
UnfinishedKeyKeepsItsRequest ==
    [][record.state = "processing" /\ record'.token # record.token =>
          record'.fingerprint = record.fingerprint]_idempotencyVars
=============================================================================
